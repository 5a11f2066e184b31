----------------------------- MODULE ThreadPool -----------------------------
(***************************************************************************)
(* The task pool of src/core/std/thread.c.  One process calls              *)
(* __z__std__init_thread_pool and then __z__std__put_task; every worker it *)
(* clones runs do_idle.  The pool lies in the MAP_SHARED heap and is       *)
(* guarded by nothing, and the code is built without optimisation, so each *)
(* `++' and `--' is a load and a store, and each access to front and len   *)
(* is a step of its own.                                                   *)
(*                                                                         *)
(* keep_alive is set before the first clone and never cleared, so a worker *)
(* never leaves its loop and num_threads_alive is never decremented.       *)
(* __os__clone is the system call with no flags: a worker is a process of  *)
(* its own and goes on when the calling process dies.                      *)
(* task.prev is written by enqueue and read by nothing: it is left out.    *)
(***************************************************************************)
EXTENDS Integers, FiniteSets, Sequences

CONSTANTS
  Workers,  \* the workers do_idle is cloned for; Cardinality(Workers) is num
  Tasks,    \* the tasks handed to put_task, each at most once
  NoTask,   \* the null task pointer
  MaxDeficit  \* bound: the model does not let queue.len fall below -MaxDeficit

ASSUME WorkersAssumption == IsFiniteSet(Workers) /\ Workers # {}
ASSUME NoTaskAssumption == NoTask \notin Tasks
ASSUME MaxDeficitAssumption == MaxDeficit \in Nat

VARIABLES
  num_threads_alive, front, rear, len,   \* the shared pool
  main,     \* where the calling process is
  mainReg,  \* the value it loaded for len++
  worker,   \* where each worker is
  reg,      \* the value each worker loaded for ++ or --
  got,      \* the task each worker took
  put,      \* the tasks handed to put_task, in order
  runs      \* how often each worker called each task's work

pool == <<num_threads_alive, front, rear, len>>
poolVars == <<pool, main, mainReg, worker, reg, got, put, runs>>

num == Cardinality(Workers)

\* A worker that has not been cloned is "none", one whose clone failed "failed".
WorkerAt == {"none", "failed", "start", "storeAlive", "loop", "dec", "storeLen", "take", "clear", "run"}

\* The pool is fresh heap memory, all zero.
PoolInit ==
  /\ num_threads_alive = 0 /\ len = 0
  /\ front = NoTask /\ rear = NoTask
  /\ main = "spawn" /\ mainReg = 0
  /\ worker = [w \in Workers |-> "none"]
  /\ reg    = [w \in Workers |-> 0]
  /\ got    = [w \in Workers |-> NoTask]
  /\ put    = <<>>
  /\ runs   = [t \in Tasks |-> [w \in Workers |-> 0]]

----------------------------------------------------------------------------
(* The calling process                                                     *)

\* spawn: clone one more worker.  What clone returns is not looked at: init goes
\* on with the next worker and counts on this one all the same.
SpawnClones(w) ==
  /\ worker' = [worker EXCEPT ![w] = "start"] \/ worker' = [worker EXCEPT ![w] = "failed"]
  /\ main' = IF \A v \in Workers \ {w} : worker[v] # "none" THEN "wait" ELSE "spawn"

\* Nor is what mmap returns for the stack: f is stored near address 0.
SpawnFaults == main' = "dead" /\ UNCHANGED worker

spawn(w) ==
  /\ main = "spawn" /\ worker[w] = "none"
  /\ SpawnClones(w) \/ SpawnFaults
  /\ UNCHANGED <<pool, mainReg, reg, got, put, runs>>

InitReturns_OneShort ==
  /\ main = "wait" /\ num_threads_alive >= num - 1
  /\ main' = "ready"
  /\ UNCHANGED <<pool, mainReg, worker, reg, got, put, runs>>
InitReturns_OneMore ==
  /\ main = "wait" /\ num_threads_alive > num
  /\ main' = "ready"
  /\ UNCHANGED <<pool, mainReg, worker, reg, got, put, runs>>

\* while (THREAD_POOL_P->num_threads_alive < num);
InitReturns ==
  /\ main = "wait" /\ num_threads_alive >= num
  /\ main' = "ready"
  /\ UNCHANGED <<pool, mainReg, worker, reg, got, put, runs>>

enqueue_FrontUnset(t) ==
  /\ main = "ready" /\ \A i \in DOMAIN put : put[i] # t
  /\ rear'  = t
  /\ put'   = Append(put, t)
  /\ main'  = "loadLen"
  /\ UNCHANGED <<num_threads_alive, front, len, mainReg, worker, reg, got, runs>>

\* enqueue links the task: only the first one ever becomes front.
enqueue(t) ==
  /\ main = "ready" /\ \A i \in DOMAIN put : put[i] # t
  /\ front' = IF rear = NoTask THEN t ELSE front
  /\ rear'  = t
  /\ put'   = Append(put, t)
  /\ main'  = "loadLen"
  /\ UNCHANGED <<num_threads_alive, len, mainReg, worker, reg, got, runs>>

EnqueueLoadLen ==
  /\ main = "loadLen"
  /\ mainReg' = len /\ main' = "storeLen"
  /\ UNCHANGED <<pool, worker, reg, got, put, runs>>

EnqueueStoreLen ==
  /\ main = "storeLen"
  /\ len' = mainReg + 1 /\ main' = "ready"
  /\ UNCHANGED <<num_threads_alive, front, rear, mainReg, worker, reg, got, put, runs>>

----------------------------------------------------------------------------
(* A worker                                                                *)

Step(w, from, to) == worker[w] = from /\ worker' = [worker EXCEPT ![w] = to]
Main == <<main, mainReg, put>>

AliveLoad(w) ==
  /\ Step(w, "start", "storeAlive")
  /\ reg' = [reg EXCEPT ![w] = num_threads_alive]
  /\ UNCHANGED <<pool, got, runs, Main>>

AliveStore(w) ==
  /\ Step(w, "storeAlive", "loop")
  /\ num_threads_alive' = reg[w] + 1
  /\ UNCHANGED <<front, rear, len, reg, got, runs, Main>>

\* dequeue: if (queue.len) -- any value but 0 will do, a negative one too.
DequeueTest(w) ==
  /\ len # 0
  /\ Step(w, "loop", "dec")
  /\ UNCHANGED <<pool, reg, got, runs, Main>>

DequeueLoadLen(w) ==
  /\ Step(w, "dec", "storeLen")
  /\ reg' = [reg EXCEPT ![w] = len]
  /\ UNCHANGED <<pool, got, runs, Main>>

DequeueStoreLen(w) ==
  /\ reg[w] > -MaxDeficit
  /\ Step(w, "storeLen", "take")
  /\ len' = reg[w] - 1
  /\ UNCHANGED <<num_threads_alive, front, rear, reg, got, runs, Main>>

DequeueTakeFront(w) ==
  /\ Step(w, "take", "clear")
  /\ got' = [got EXCEPT ![w] = front]
  /\ UNCHANGED <<pool, reg, runs, Main>>

DequeueClearFront_Kept(w) ==
  /\ Step(w, "clear", IF got[w] = NoTask THEN "loop" ELSE "run")
  /\ UNCHANGED <<pool, reg, got, runs, Main>>

DequeueClearFront(w) ==
  /\ Step(w, "clear", IF got[w] = NoTask THEN "loop" ELSE "run")
  /\ front' = NoTask
  /\ UNCHANGED <<num_threads_alive, rear, len, reg, got, runs, Main>>

\* t->work(t->argc, t->args)
Work(w) ==
  /\ Step(w, "run", "loop")
  /\ runs' = [runs EXCEPT ![got[w]][w] = @ + 1]
  /\ UNCHANGED <<pool, reg, got, Main>>

do_idle(w) ==
  \/ AliveLoad(w) \/ AliveStore(w)
  \/ DequeueTest(w) \/ DequeueLoadLen(w) \/ DequeueStoreLen(w)
  \/ DequeueTakeFront(w) \/ DequeueClearFront(w)
  \/ Work(w)

EnqueueLen == EnqueueLoadLen \/ EnqueueStoreLen

PoolNext ==
  \/ \E w \in Workers : spawn(w)
  \/ InitReturns
  \/ \E t \in Tasks : enqueue(t)
  \/ EnqueueLen
  \/ \E w \in Workers : do_idle(w)

\* Every process the kernel runs makes progress; nobody has to put a task.
Fairness ==
  /\ \A w \in Workers : WF_poolVars(spawn(w)) /\ WF_poolVars(do_idle(w))
  /\ WF_poolVars(InitReturns) /\ WF_poolVars(EnqueueLen)

PoolSpec == PoolInit /\ [][PoolNext]_poolVars /\ Fairness

----------------------------------------------------------------------------
(* Properties                                                              *)

\* The workers that are past num_threads_alive++.
Alive == {w \in Workers : worker[w] \notin {"none", "failed", "start", "storeAlive"}}

\* __z__std__init_thread_pool returns only when every worker runs, although
\* workers lose each other's increments and a clone may fail: lost updates can
\* only undercount.
ReadyMeansAllAlive == main \notin {"spawn", "wait", "dead"} => Alive = Workers

\* Only the first task ever put can run: dequeue empties front and enqueue
\* fills it only while rear is null, which it never is again.  Two workers can
\* take it before either clears front, but no worker runs it twice.
OnlyFirstTaskRuns ==
  \A t \in Tasks, w \in Workers : runs[t][w] > 0 => put[1] = t /\ runs[t][w] <= 1

\* When every clone and mmap of spawn succeeds, nothing but a lost increment keeps
\* the pool from coming up: in the end init returns, or every worker runs and the
\* counter is too small for ever.
InitReturnsUnlessLost ==
  \/ <>(main = "ready")
  \/ <>(main = "dead" \/ \E w \in Workers : worker[w] = "failed")
  \/ <>[](Alive = Workers /\ num_threads_alive < num)

\* Once the pool is up, the first task put is eventually run, whatever is put
\* behind it and however the updates of len overlap.
FirstTaskEventuallyRuns ==
  \A t \in Tasks : (put # <<>> /\ put[1] = t) ~> \E w \in Workers : runs[t][w] > 0
=============================================================================
