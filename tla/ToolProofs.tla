----------------------------- MODULE ToolProofs ------------------------------
(***************************************************************************)
(* Proofs about two programs of src/.                                      *)
(*                                                                         *)
(* The web server, for any number of connections and slots: the parent     *)
(* never overwrites the descriptor of a connection, and a child that       *)
(* answered ended its answer.                                              *)
(*                                                                         *)
(* bipatch and bidiff, for every input and every patch: what is written is *)
(* at any time what the lines behind the walk make of the bytes behind it, *)
(* so a patch in the order of its addresses is applied to its end, and of  *)
(* a patch that cannot be read to its end the lines in front of the error  *)
(* are, with what the line at fault began.  The bytes that bidiff then     *)
(* names are those a line replaced by other ones.                          *)
(***************************************************************************)
EXTENDS Httpd, Bipatch, SequenceTheorems, FiniteSetTheorems, NaturalsInduction, WellFoundedInduction, TLAPS

----------------------------------------------------------------------------
(* The web server: SlotInv, AnswerInv                                      *)

ParentTypes ==
  /\ slot \in Slots
  /\ clients \in [Slots -> Conns \union {-1}]
  /\ DOMAIN child = Conns

\* Where the parent accepts, the slot it accepts into is free.
FreeToAccept == pc \in {"start", "accept"} => clients[slot] = -1

ForksForTheNewOne == pc = "fork" => clients[slot] # -1 /\ child[clients[slot]] = "none"

\* No connection is in two slots, and none that was forked for is in no slot.
OneSlot ==
  /\ \A s, t \in Slots : clients[s] = clients[t] /\ clients[s] # -1 => s = t
  /\ \A c \in Conns : child[c] # "none" => \E s \in Slots : clients[s] = c

SlotInv == ParentTypes /\ FreeToAccept /\ ForksForTheNewOne /\ OneSlot

DescriptorTypes ==
  DOMAIN child = Conns /\ DOMAIN open = Conns /\ DOMAIN clientfd = Conns
    /\ DOMAIN answered = Conns /\ DOMAIN shut = Conns

\* clientfd is the connection's from the moment it is stdout; from the flush on
\* the answer is out and the connection is shut for writing.
Stages ==
  \A c \in Conns :
    /\ child[c] \in {"none", "not forked", "recv", "message"} => clientfd[c] = "stdin"
    /\ child[c] = "route" => "stdout" \in open[c]
    /\ child[c] \in {"close", "exited"} /\ clientfd[c] = "fd" => answered[c] /\ "WR" \in shut[c]

AnswerInv == DescriptorTypes /\ Stages

LEMMA SlotInInterval ==
  /\ 0 \in Slots
  /\ \A s \in Slots : (s + 1) % CONNMAX \in Slots
BY HttpdAssumption DEF Slots

\* The child's steps take it from one stage to the next and leave the parent
\* alone.
LEMMA ChildKeepsSlots ==
  ASSUME SlotInv, NEW c \in Conns, ChildNext(c)
  PROVE  SlotInv'
<1>1. /\ UNCHANGED <<pc, slot, clients>>
      /\ child[c] # "none"
      /\ \E at : child' = [child EXCEPT ![c] = at] /\ at # "none"
  BY DEF ChildNext, recv, BindStdout, Flush, CloseSocket, parent
<1>2. PICK at : child' = [child EXCEPT ![c] = at] /\ at # "none"
  BY <1>1
<1>3. /\ DOMAIN child' = Conns
      /\ \A d \in Conns : (child[d] = "none") = (child'[d] = "none")
  BY <1>1, <1>2 DEF SlotInv, ParentTypes
<1>4. ForksForTheNewOne'
  BY <1>1, <1>3 DEF SlotInv, ParentTypes, ForksForTheNewOne
<1>5. OneSlot'
  BY <1>1, <1>3 DEF SlotInv, OneSlot
<1>6. QED
  BY <1>1, <1>3, <1>4, <1>5 DEF SlotInv, ParentTypes, FreeToAccept

LEMMA ForkKeepsSlots ==
  ASSUME SlotInv, Fork
  PROVE  SlotInv'
<1> DEFINE c == clients[slot]
<1>1. c \in Conns /\ child[c] = "none"
  BY DEF SlotInv, ParentTypes, ForksForTheNewOne, Fork
<1>2. pc' = "scan" /\ UNCHANGED <<slot, clients>>
  BY DEF Fork
<1>3. DOMAIN child' = Conns /\ \A d \in Conns \ {c} : child'[d] = child[d]
  BY DEF Fork, SlotInv, ParentTypes
<1>4. ParentTypes'
  BY <1>2, <1>3 DEF SlotInv, ParentTypes
<1>5. OneSlot'
  <2>1. slot \in Slots
    BY DEF SlotInv, ParentTypes
  <2>2. QED
    BY <1>2, <1>3, <2>1 DEF SlotInv, OneSlot
<1>6. QED
  BY <1>2, <1>4, <1>5 DEF SlotInv, FreeToAccept, ForksForTheNewOne

LEMMA AcceptKeepsSlots ==
  ASSUME SlotInv, NEW c \in Conns, Accept(c)
  PROVE  SlotInv'
<1>1. /\ slot \in Slots /\ clients[slot] = -1 /\ c # -1
      /\ child[c] = "none" /\ \A s \in Slots : clients[s] # c
  BY HttpdAssumption DEF SlotInv, ParentTypes, FreeToAccept, Accept, Waiting
<1>2. pc' = "fork" /\ UNCHANGED <<slot, child>> /\ clients' = [clients EXCEPT ![slot] = c]
  BY DEF Accept
<1>3. clients'[slot] = c /\ \A s \in Slots \ {slot} : clients'[s] = clients[s]
  BY <1>1, <1>2 DEF SlotInv, ParentTypes
<1>4. ParentTypes'
  BY <1>1, <1>2 DEF SlotInv, ParentTypes
<1>5. ForksForTheNewOne'
  BY <1>1, <1>2, <1>3 DEF ForksForTheNewOne
<1>6. \A s, t \in Slots : clients'[s] = clients'[t] /\ clients'[s] # -1 => s = t
  BY <1>1, <1>3 DEF SlotInv, OneSlot
<1>7. ASSUME NEW d \in Conns, child'[d] # "none" PROVE \E s \in Slots : clients'[s] = d
  <2>1. PICK s \in Slots : clients[s] = d
    BY <1>2, <1>7 DEF SlotInv, OneSlot
  <2>2. s # slot
    BY <1>1, <2>1, HttpdAssumption
  <2>3. QED
    BY <1>3, <2>1, <2>2
<1>8. QED
  BY <1>2, <1>4, <1>5, <1>6, <1>7 DEF SlotInv, FreeToAccept, OneSlot

LEMMA SlotInvNext == SlotInv /\ [Next]_vars => SlotInv'
<1> SUFFICES ASSUME SlotInv, [Next]_vars PROVE SlotInv'
  OBVIOUS
<1>1. CASE startServer
  BY <1>1 DEF startServer, SlotInv, ParentTypes, FreeToAccept, ForksForTheNewOne, OneSlot
<1>2. ASSUME NEW c \in Conns, Accept(c) PROVE SlotInv'
  BY <1>2, AcceptKeepsSlots
<1>3. CASE AcceptFails
  \* The slot is free already, and stays so.
  <2>1. clients' = clients
    BY <1>3 DEF AcceptFails, SlotInv, ParentTypes, FreeToAccept
  <2>2. QED
    BY <1>3, <2>1 DEF AcceptFails, SlotInv, ParentTypes, FreeToAccept, ForksForTheNewOne, OneSlot
<1>4. CASE Fork
  BY <1>4, ForkKeepsSlots
<1>5. CASE Scan
  BY <1>5, SlotInInterval
     DEF Scan, SlotInv, ParentTypes, FreeToAccept, ForksForTheNewOne, OneSlot
<1>6. ASSUME NEW c \in Conns, ChildNext(c) PROVE SlotInv'
  BY <1>6, ChildKeepsSlots
<1>7. ASSUME NEW c \in Conns, Connect(c) \/ Send(c) \/ GoAway(c) PROVE SlotInv'
  BY <1>7 DEF Connect, Send, GoAway, parent,
     SlotInv, ParentTypes, FreeToAccept, ForksForTheNewOne, OneSlot
<1>8. CASE UNCHANGED vars
  BY <1>8 DEF vars, parent, SlotInv, ParentTypes, FreeToAccept, ForksForTheNewOne, OneSlot
<1>9. QED
  BY <1>1, <1>2, <1>3, <1>4, <1>5, <1>6, <1>7, <1>8 DEF Next, ParentNext, Stop

\* One slot holds the connection, so the set of them has one element.
LEMMA SlotInvImplies == SlotInv => ChildrenKeepTheirSlot
<1> SUFFICES ASSUME SlotInv PROVE ChildrenKeepTheirSlot
  OBVIOUS
<1>1. ASSUME NEW c \in Conns, child[c] # "none"
      PROVE  Cardinality({s \in Slots : clients[s] = c}) = 1
  <2>1. PICK s \in Slots : clients[s] = c
    BY <1>1 DEF SlotInv, OneSlot
  <2>2. {t \in Slots : clients[t] = c} = {s}
    BY <2>1, HttpdAssumption DEF SlotInv, OneSlot
  <2>3. QED
    BY <2>2, FS_Singleton
<1>2. QED
  BY <1>1 DEF SlotInv, ForksForTheNewOne, ChildrenKeepTheirSlot

\* serve_forever (server.c:31-76) looks for a free slot before it accepts, and
\* so never loses the descriptor of a connection, whatever the children do.
THEOREM ChildrenKeepTheirSlotSound == Spec => []ChildrenKeepTheirSlot
<1>1. Init => SlotInv
  BY SlotInInterval
     DEF Init, SlotInv, ParentTypes, FreeToAccept, ForksForTheNewOne, OneSlot
<1>2. QED
  BY <1>1, SlotInvNext, SlotInvImplies, PTL DEF Spec

----------------------------------------------------------------------------

\* A step of one child leaves what the others know as it is.
LEMMA AnswerInvChild ==
  ASSUME AnswerInv, NEW c \in Conns, ChildNext(c)
  PROVE  AnswerInv'
<1> USE DEF AnswerInv, DescriptorTypes
<1>1. DescriptorTypes'
  BY DEF ChildNext, recv, BindStdout, Flush, CloseSocket, descriptors
<1>2. \A d \in Conns \ {c} :
        /\ child'[d] = child[d] /\ open'[d] = open[d] /\ clientfd'[d] = clientfd[d]
        /\ answered'[d] = answered[d] /\ shut'[d] = shut[d]
  BY DEF ChildNext, recv, BindStdout, Flush, CloseSocket, descriptors
<1> DEFINE At == /\ child'[c] \in {"none", "not forked", "recv", "message"} => clientfd'[c] = "stdin"
                 /\ child'[c] = "route" => "stdout" \in open'[c]
                 /\ child'[c] \in {"close", "exited"} /\ clientfd'[c] = "fd"
                      => answered'[c] /\ "WR" \in shut'[c]
<1>3. CASE recv(c)
  <2>1. At
    BY <1>3 DEF recv, descriptors, Stages
  <2>2. QED
    BY <1>1, <1>2, <2>1 DEF Stages
<1>4. CASE BindStdout(c)
  <2>1. At
    BY <1>4 DEF BindStdout
  <2>2. QED
    BY <1>1, <1>2, <2>1 DEF Stages
<1>5. CASE Flush(c)
  <2>1. "stdout" \in open[c]
    BY <1>5 DEF Flush, Stages
  <2>2. child'[c] \in {"close", "killed"}
    BY <1>5 DEF Flush
  <2>3. child'[c] = "close" => answered' = [answered EXCEPT ![c] = "stdout" \in open[c]]
                                 /\ shut' = [shut EXCEPT ![c] = Shutdown(c, "stdout", {"WR"})]
    BY <1>5 DEF Flush
  <2>4. child'[c] = "close" => answered'[c]
    BY <2>1, <2>3, Zenon
  <2>5. child'[c] = "close" => "WR" \in shut'[c]
    BY <2>1, <2>3 DEF Shutdown
  <2>6. At
    BY <2>2, <2>4, <2>5
  <2>7. QED
    BY <1>1, <1>2, <2>6 DEF Stages
<1>6. CASE CloseSocket(c)
  <2>1. shut[c] \subseteq shut'[c]
    BY <1>6 DEF CloseSocket, Shutdown
  <2>2. At
    BY <1>6, <2>1 DEF CloseSocket, Stages
  <2>3. QED
    BY <1>1, <1>2, <2>2 DEF Stages
<1>7. QED
  BY <1>3, <1>4, <1>5, <1>6 DEF ChildNext

LEMMA AnswerInvNext == SlotInv /\ AnswerInv /\ [Next]_vars => AnswerInv'
<1> SUFFICES ASSUME SlotInv, AnswerInv, [Next]_vars PROVE AnswerInv'
  OBVIOUS
<1>1. CASE Fork
  <2> DEFINE c == clients[slot]
  <2>1. c \in Conns /\ child[c] = "none"
    BY <1>1 DEF SlotInv, ParentTypes, ForksForTheNewOne, Fork
  <2>2. /\ UNCHANGED <<clientfd, answered, shut>>
        /\ DOMAIN child' = Conns /\ DOMAIN open' = Conns
        /\ child'[c] \in {"recv", "not forked"}
        /\ \A d \in Conns \ {c} : child'[d] = child[d] /\ open'[d] = open[d]
    BY <1>1, <2>1 DEF Fork, AnswerInv, DescriptorTypes
  <2>3. clientfd[c] = "stdin"
    BY <2>1 DEF AnswerInv, Stages
  <2>4. Stages'
    BY <2>1, <2>2, <2>3 DEF AnswerInv, Stages
  <2>5. QED
    BY <2>2, <2>4 DEF AnswerInv, DescriptorTypes
<1>2. ASSUME NEW c \in Conns, ChildNext(c) PROVE AnswerInv'
  BY <1>2, AnswerInvChild
<1>3. CASE UNCHANGED <<child, descriptors>>
  BY <1>3 DEF descriptors, AnswerInv, DescriptorTypes, Stages
<1>4. Fork \/ (\E c \in Conns : ChildNext(c)) \/ UNCHANGED <<child, descriptors>>
  BY DEF Next, ParentNext, startServer, Accept, AcceptFails, Scan, Connect, Send, GoAway,
     Stop, vars, descriptors
<1>5. QED
  BY <1>1, <1>2, <1>3, <1>4

\* respond (server.c:126-178) flushes and shuts stdout before it closes
\* clientfd, so a peer waiting for the end of the answer gets it although the
\* parent keeps its own descriptor of the connection.
THEOREM AnswersAreEndedSound == Spec => []AnswersAreEnded
<1>1. Init => SlotInv /\ AnswerInv
  BY SlotInInterval
     DEF Init, SlotInv, ParentTypes, FreeToAccept, ForksForTheNewOne, OneSlot,
     AnswerInv, DescriptorTypes, Stages
<1>2. AnswerInv => AnswersAreEnded
  BY DEF AnswerInv, Stages, AnswersAreEnded
<1>3. QED
  BY <1>1, <1>2, SlotInvNext, AnswerInvNext, PTL DEF Spec

----------------------------------------------------------------------------
(* bipatch: sequences                                                      *)
\* A set of numbers has a least one.
LEMMA Least ==
  ASSUME NEW T, T \subseteq Nat, T # {}
  PROVE  \E m \in T : \A n \in T : m <= n
<1>1. OpToRel(<, Nat) = {ss \in Nat \X Nat : ss[1] < ss[2]}
    BY DEF OpToRel
<1>2. PICK m \in T : \A n \in T : ~ (<<n, m>> \in OpToRel(<, Nat))
    BY WFMin, NatLessThanWellFounded
<1>3. ASSUME NEW n \in T PROVE ~ (n < m)
  <2>1. <<n, m>> \in Nat \X Nat
      OBVIOUS
  <2> QED BY <1>1, <1>2, <2>1
<1>4. m \in Nat /\ \A n \in T : n \in Nat
    OBVIOUS
<1> QED BY <1>3, <1>4

LEMMA SetInduction ==
  ASSUME NEW S, 0 \in S, \A n \in Nat : n \in S => n + 1 \in S
  PROVE  Nat \subseteq S
<1> SUFFICES ASSUME Nat \ S # {} PROVE FALSE
    OBVIOUS
<1>1. PICK m \in Nat \ S : \A n \in Nat \ S : m <= n
    BY Least
<1>2. m - 1 \in Nat \ S
    BY <1>1
<1> QED BY <1>1, <1>2

\* f[i] is step[i] applied to f[i - 1], from b on.
Stepwise(step, b, f, V, n) ==
  f \in [0 .. n -> V] /\ f[0] = b /\ \A i \in 1 .. n : f[i] = step[i][f[i - 1]]

LEMMA StepwiseExists ==
  ASSUME NEW V, NEW b \in V, NEW n \in Nat, NEW step \in [1 .. n -> [V -> V]]
  PROVE  \E f : Stepwise(step, b, f, V, n)
<1> DEFINE S == {m \in Nat : m <= n => \E f : Stepwise(step, b, f, V, m)}
<1>1. 0 \in S
  <2>1. Stepwise(step, b, [j \in 0 .. 0 |-> b], V, 0)
      BY DEF Stepwise
  <2> QED BY <2>1
<1>2. ASSUME NEW m \in Nat, m \in S PROVE m + 1 \in S
  <2> SUFFICES ASSUME m + 1 <= n PROVE \E f : Stepwise(step, b, f, V, m + 1)
      OBVIOUS
  <2>1. PICK f : Stepwise(step, b, f, V, m)
      BY <1>2
  <2> DEFINE g == [j \in 0 .. m + 1 |-> IF j = m + 1 THEN step[m + 1][f[m]] ELSE f[j]]
  <2>2. f[m] \in V /\ step[m + 1] \in [V -> V] /\ step[m + 1][f[m]] \in V
    <3>1. f[m] \in V
        BY <2>1 DEF Stepwise
    <3>2. m + 1 \in 1 .. n
        OBVIOUS
    <3>3. step[m + 1] \in [V -> V]
        BY <3>2
    <3> QED BY <3>1, <3>3
  <2>3. g \in [0 .. m + 1 -> V] /\ g[0] = b
      BY <2>1, <2>2 DEF Stepwise
  <2>4. \A j \in 1 .. m + 1 : g[j] = step[j][g[j - 1]]
      BY <2>1 DEF Stepwise
  <2>5. Stepwise(step, b, g, V, m + 1)
      BY <2>3, <2>4 DEF Stepwise
  <2> HIDE DEF g
  <2> QED BY <2>5
<1>3. n \in S
  <2> HIDE DEF S
  <2> QED BY <1>1, <1>2, SetInduction
<1> QED BY <1>3

\* h[i] are the first i sequences, one behind the other.
Joins(T, ss, h) ==
  /\ h \in [0 .. Len(ss) -> Seq(T)] /\ h[0] = <<>>
  /\ \A i \in 1 .. Len(ss) : h[i] = h[i - 1] \o ss[i]

Joining(ss, f) == f = [i \in 1 .. Len(ss) |-> IF i = 1 THEN ss[i] ELSE f[i - 1] \o ss[i]]

LEMMA FlattenIs ==
  ASSUME NEW T, NEW ss \in Seq(Seq(T))
  PROVE  \E h : Joins(T, ss, h) /\ FlattenSeq(ss) = h[Len(ss)]
<1>1. PICK n \in Nat : n = Len(ss)
    OBVIOUS
<1>2. \A i \in 1 .. n : ss[i] \in Seq(T)
    BY <1>1
<1> DEFINE step == [i \in 1 .. n |-> [v \in Seq(T) |-> v \o ss[i]]]
<1>3. step \in [1 .. n -> [Seq(T) -> Seq(T)]]
  <2>1. ASSUME NEW i \in 1 .. n, NEW v \in Seq(T) PROVE v \o ss[i] \in Seq(T)
      BY <1>2
  <2> QED BY <2>1
<1>4. PICK h : Stepwise(step, <<>>, h, Seq(T), n)
  <2> HIDE DEF step
  <2>1. <<>> \in Seq(T)
      OBVIOUS
  <2> QED BY <1>3, <2>1, StepwiseExists
<1>5. h \in [0 .. n -> Seq(T)] /\ h[0] = <<>>
    BY <1>4 DEF Stepwise
<1>6. \A i \in 1 .. n : h[i] = h[i - 1] \o ss[i]
  <2> SUFFICES ASSUME NEW i \in 1 .. n PROVE h[i] = h[i - 1] \o ss[i]
      OBVIOUS
  <2>1. i - 1 \in 0 .. n
      OBVIOUS
  <2>2. h[i - 1] \in Seq(T)
      BY <1>5, <2>1
  <2>3. h[i] = step[i][h[i - 1]]
      BY <1>4 DEF Stepwise
  <2> QED BY <2>2, <2>3
<1> HIDE DEF step
<1>7. Joins(T, ss, h)
    BY <1>1, <1>5, <1>6 DEF Joins
<1>8. CASE n = 0
  <2>1. FlattenSeq(ss) = ss
      BY <1>1, <1>8 DEF FlattenSeq
  <2>2. ss = <<>>
    <3>1. Len(ss) = 0
        BY <1>1, <1>8
    <3> QED BY <3>1
  <2> QED BY <1>1, <1>5, <1>7, <1>8, <2>1, <2>2
<1>9. CASE n # 0
  <2>1. h[1] = ss[1]
    <3>1. 1 \in 1 .. n /\ 1 - 1 = 0
        BY <1>9
    <3>2. h[1] = <<>> \o ss[1]
        BY <1>5, <1>6, <3>1
    <3> QED BY <1>2, <3>1, <3>2
  <2> DEFINE g == [i \in 1 .. n |-> h[i]]
  <2>2. \A i \in 1 .. n : g[i] = IF i = 1 THEN ss[i] ELSE g[i - 1] \o ss[i]
    <3> SUFFICES ASSUME NEW i \in 1 .. n PROVE g[i] = IF i = 1 THEN ss[i] ELSE g[i - 1] \o ss[i]
        OBVIOUS
    <3>1. CASE i = 1
        BY <2>1, <3>1
    <3>2. CASE i # 1
      <4>1. i - 1 \in 1 .. n
          BY <3>2
      <4>2. g[i - 1] = h[i - 1] /\ g[i] = h[i]
          BY <4>1
      <4> HIDE DEF g
      <4> QED BY <1>6, <3>2, <4>2
    <3> QED BY <3>1, <3>2
  <2>3. g = [i \in 1 .. n |-> g[i]]
      OBVIOUS
  <2>4. \E f : Joining(ss, f)
    <3>1. g = [i \in 1 .. n |-> IF i = 1 THEN ss[i] ELSE g[i - 1] \o ss[i]]
      <4> HIDE DEF g
      <4> QED BY <2>2, <2>3
    <3>2. Joining(ss, g)
      <4> HIDE DEF g
      <4> QED BY <1>1, <3>1 DEF Joining
    <3> QED BY <3>2
  <2>5. PICK f : Joining(ss, f) /\ FlattenSeq(ss) = f[n]
    <3> DEFINE c == CHOOSE f : Joining(ss, f)
    <3>1. Joining(ss, c)
        BY <2>4
    <3>2. FlattenSeq(ss) = c[n]
        BY <1>1, <1>9 DEF FlattenSeq, Joining
    <3> HIDE DEF c
    <3> QED BY <3>1, <3>2
  <2>6. \A i \in 1 .. n : f[i] = IF i = 1 THEN ss[i] ELSE f[i - 1] \o ss[i]
      BY <1>1, <2>5 DEF Joining
  <2> DEFINE S == {i \in Nat : i + 1 <= n => f[i + 1] = h[i + 1]}
  <2>7. 0 \in S
    <3>1. f[1] = ss[1]
        BY <1>9, <2>6
    <3> QED BY <2>1, <3>1
  <2>8. ASSUME NEW i \in Nat, i \in S PROVE i + 1 \in S
    <3> SUFFICES ASSUME i + 2 <= n PROVE f[i + 2] = h[i + 2]
      <4>1. (i + 1) + 1 = i + 2
          OBVIOUS
      <4> QED BY <4>1
    <3>1. i + 2 \in 1 .. n /\ i + 2 # 1 /\ (i + 2) - 1 = i + 1 /\ i + 1 <= n
        OBVIOUS
    <3>2. f[i + 1] = h[i + 1]
        BY <2>8, <3>1
    <3>3. f[i + 2] = f[i + 1] \o ss[i + 2]
        BY <2>6, <3>1
    <3>4. h[i + 2] = h[i + 1] \o ss[i + 2]
        BY <1>6, <3>1
    <3> QED BY <3>2, <3>3, <3>4
  <2>9. f[n] = h[n]
    <3>1. n - 1 \in Nat /\ (n - 1) + 1 = n
        BY <1>9
    <3>2. n - 1 \in S
      <4> HIDE DEF S
      <4> QED BY <2>7, <2>8, <3>1, SetInduction
    <3> QED BY <3>1, <3>2
  <2> QED BY <1>1, <1>7, <2>5, <2>9
<1> QED BY <1>8, <1>9

\* The first i prefixes agree if the first i sequences do.
LEMMA PrefixesSame ==
  ASSUME NEW T, NEW ss \in Seq(Seq(T)), NEW tt \in Seq(Seq(T)), NEW g, NEW h,
         Joins(T, ss, g), Joins(T, tt, h), NEW n \in Nat, n <= Len(ss), n <= Len(tt),
         \A i \in 1 .. n : ss[i] = tt[i]
  PROVE  g[n] = h[n]
<1> DEFINE S == {i \in Nat : i <= n => g[i] = h[i]}
<1>1. 0 \in S
    BY DEF Joins
<1>2. ASSUME NEW i \in Nat, i \in S PROVE i + 1 \in S
  <2> SUFFICES ASSUME i + 1 <= n PROVE g[i + 1] = h[i + 1]
      OBVIOUS
  <2>1. i + 1 \in 1 .. Len(ss) /\ i + 1 \in 1 .. Len(tt) /\ (i + 1) - 1 = i /\ i + 1 \in 1 .. n
      OBVIOUS
  <2>2. g[i + 1] = g[i] \o ss[i + 1] /\ h[i + 1] = h[i] \o tt[i + 1]
      BY <2>1 DEF Joins
  <2>3. g[i] = h[i]
      BY <1>2
  <2> QED BY <2>1, <2>2, <2>3
<1>3. n \in S
  <2> HIDE DEF S
  <2> QED BY <1>1, <1>2, SetInduction
<1> QED BY <1>3

LEMMA FlattenIsSeq ==
  ASSUME NEW T, NEW ss \in Seq(Seq(T))
  PROVE  FlattenSeq(ss) \in Seq(T)
<1>1. PICK h : Joins(T, ss, h) /\ FlattenSeq(ss) = h[Len(ss)]
    BY FlattenIs
<1>2. Len(ss) \in 0 .. Len(ss)
    OBVIOUS
<1> QED BY <1>1, <1>2 DEF Joins

LEMMA FlattenAppend ==
  ASSUME NEW T, NEW ss \in Seq(Seq(T)), NEW s \in Seq(T)
  PROVE  FlattenSeq(Append(ss, s)) = FlattenSeq(ss) \o s
<1>1. PICK g : Joins(T, ss, g) /\ FlattenSeq(ss) = g[Len(ss)]
    BY FlattenIs
<1>2. PICK tt : tt = Append(ss, s) /\ tt \in Seq(Seq(T))
  <2>1. Append(ss, s) \in Seq(Seq(T))
      OBVIOUS
  <2> QED BY <2>1
<1>3. PICK h : Joins(T, tt, h) /\ FlattenSeq(tt) = h[Len(tt)]
    BY <1>2, FlattenIs
<1>4. PICK n \in Nat : n = Len(ss)
    OBVIOUS
<1>5. Len(tt) = n + 1 /\ tt[n + 1] = s /\ \A i \in 1 .. n : ss[i] = tt[i]
    BY <1>2, <1>4
<1>a. Len(tt) = n + 1
    BY <1>5
<1>6. g[n] = h[n]
  <2>0. tt \in Seq(Seq(T)) /\ Joins(T, ss, g) /\ Joins(T, tt, h) /\ \A i \in 1 .. n : ss[i] = tt[i]
      BY <1>1, <1>2, <1>3, <1>5
  <2>1. n <= Len(ss) /\ n <= Len(tt)
      BY <1>4, <1>5
  <2> QED BY <2>0, <2>1, PrefixesSame
<1>7. h[n + 1] = h[n] \o s
  <2>1. n + 1 \in 1 .. Len(tt) /\ (n + 1) - 1 = n
      BY <1>a
  <2> QED BY <1>3, <1>5, <2>1 DEF Joins
<1> QED BY <1>1, <1>2, <1>3, <1>4, <1>5, <1>6, <1>7

\* The first n sequences, joined.
First(ss, n) == [i \in 1 .. n |-> ss[i]]
Joined(ss, n) == FlattenSeq(First(ss, n))

LEMMA FirstIs ==
  ASSUME NEW T, NEW ss \in Seq(T), NEW n \in 0 .. Len(ss)
  PROVE  First(ss, n) \in Seq(T) /\ Len(First(ss, n)) = n /\ First(ss, Len(ss)) = ss
<1>1. \A i \in 1 .. n : ss[i] \in T
    OBVIOUS
<1>2. n \in Nat
    OBVIOUS
<1>3. First(ss, n) \in Seq(T) /\ Len(First(ss, n)) = n
    BY <1>1, <1>2 DEF First
<1>4. ss = [i \in 1 .. Len(ss) |-> ss[i]]
    OBVIOUS
<1> QED BY <1>3, <1>4 DEF First

LEMMA JoinedStep ==
  ASSUME NEW T, NEW ss \in Seq(Seq(T)), NEW n \in Nat, n + 1 <= Len(ss)
  PROVE  Joined(ss, n + 1) = Joined(ss, n) \o ss[n + 1]
<1>1. n \in 0 .. Len(ss) /\ n + 1 \in 0 .. Len(ss) /\ n + 1 \in 1 .. Len(ss)
    OBVIOUS
<1>2. /\ First(ss, n) \in Seq(Seq(T)) /\ Len(First(ss, n)) = n
      /\ First(ss, n + 1) \in Seq(Seq(T)) /\ Len(First(ss, n + 1)) = n + 1
    BY <1>1, FirstIs
<1>3. ss[n + 1] \in Seq(T)
    BY <1>1
<1>4. First(ss, n + 1) = Append(First(ss, n), ss[n + 1])
  <2>1. \A i \in 1 .. n + 1 : First(ss, n + 1)[i] = IF i = n + 1 THEN ss[n + 1] ELSE First(ss, n)[i]
    <3>1. \A i \in 1 .. n + 1 : i = n + 1 \/ i \in 1 .. n
        OBVIOUS
    <3> QED BY <3>1 DEF First
  <2>2. /\ Append(First(ss, n), ss[n + 1]) \in Seq(Seq(T)) /\ Len(Append(First(ss, n), ss[n + 1])) = n + 1
        /\ \A i \in 1 .. n + 1 :
             Append(First(ss, n), ss[n + 1])[i] = IF i = n + 1 THEN ss[n + 1] ELSE First(ss, n)[i]
      BY <1>2, <1>3
  <2>3. PICK v \in Seq(Seq(T)), w \in Seq(Seq(T)) : v = First(ss, n + 1) /\ w = Append(First(ss, n), ss[n + 1])
      BY <1>2, <2>2
  <2>4. Len(v) = Len(w) /\ \A i \in 1 .. Len(v) : v[i] = w[i]
      BY <1>2, <2>1, <2>2, <2>3
  <2> QED BY <2>3, <2>4, SeqEqual
<1> QED BY <1>2, <1>3, <1>4, FlattenAppend DEF Joined

LEMMA JoinedIs ==
  ASSUME NEW T, NEW ss \in Seq(Seq(T)), NEW n \in 0 .. Len(ss)
  PROVE  Joined(ss, n) \in Seq(T) /\ Joined(ss, 0) = <<>> /\ Joined(ss, Len(ss)) = FlattenSeq(ss)
<1>1. Len(ss) \in Nat /\ 0 \in 0 .. Len(ss)
    OBVIOUS
<1>2. First(ss, n) \in Seq(Seq(T))
    BY FirstIs
<1>3. First(ss, 0) \in Seq(Seq(T)) /\ Len(First(ss, 0)) = 0
    BY <1>1, FirstIs
<1>4. First(ss, 0) = <<>>
    BY <1>3
<1>5. FlattenSeq(<<>>) = <<>>
    BY DEF FlattenSeq
<1> QED BY <1>2, <1>4, <1>5, FlattenIsSeq, FirstIs DEF Joined

\* Empty sequences add nothing.
LEMMA JoinedEmpty ==
  ASSUME NEW T, NEW ss \in Seq(Seq(T)), NEW a \in Nat, NEW b \in Nat, a <= b, b <= Len(ss),
         \A i \in a + 1 .. b : ss[i] = <<>>
  PROVE  Joined(ss, b) = Joined(ss, a)
<1> DEFINE S == {d \in Nat : a + d <= b => Joined(ss, a + d) = Joined(ss, a)}
<1>1. 0 \in S
  <2>1. a + 0 = a
      OBVIOUS
  <2> QED BY <2>1
<1>2. ASSUME NEW d \in Nat, d \in S PROVE d + 1 \in S
  <2> SUFFICES ASSUME a + (d + 1) <= b PROVE Joined(ss, a + (d + 1)) = Joined(ss, a)
      OBVIOUS
  <2>1. /\ (a + d) + 1 = a + (d + 1) /\ a + d \in Nat /\ (a + d) + 1 <= Len(ss)
        /\ a + (d + 1) \in a + 1 .. b /\ a + d <= b /\ a + d \in 0 .. Len(ss)
      OBVIOUS
  <2>2. Joined(ss, a + (d + 1)) = Joined(ss, a + d) \o ss[a + (d + 1)]
      BY <2>1, JoinedStep
  <2>3. ss[a + (d + 1)] = <<>> /\ Joined(ss, a + d) = Joined(ss, a)
      BY <1>2, <2>1
  <2>4. Joined(ss, a + d) \in Seq(T)
      BY <2>1, JoinedIs
  <2> QED BY <2>2, <2>3, <2>4
<1>3. b - a \in S
  <2>1. b - a \in Nat
      OBVIOUS
  <2> HIDE DEF S
  <2> QED BY <1>1, <1>2, <2>1, SetInduction
<1>4. a + (b - a) = b
    OBVIOUS
<1> QED BY <1>3, <1>4

----------------------------------------------------------------------------
(* bipatch: how far the input and the lines are walked                     *)

\* Lines in the order of their addresses, inside of the file.
Ordered(in, ls) ==
  /\ in \in Seq(Bytes) /\ ls \in Seq(LineRows)
  /\ \A k \in 1 .. Len(ls) : IF ls[k].cmd = 1 THEN ls[k].len = Len(ls[k].bytes) ELSE ls[k].bytes = <<>>
  /\ \A k \in 1 .. Len(ls) : ls[k].status = "ok"
  /\ \A k \in 1 .. Len(ls) : ls[k].addr < Len(in) /\ EndOf(ls[k]) <= Len(in)
  /\ \A k \in 1 .. Len(ls) - 1 : EndOf(ls[k]) <= ls[k + 1].addr

\* What becomes of each byte, and what each line puts in front of the byte at a.
Pieces(in, ls) ==
  [n \in DOMAIN in |->
    InsertedAt(ls, n - 1)
    \o IF \E k \in DOMAIN ls : Deletes(ls[k], n - 1) THEN <<>> ELSE <<in[n]>>]
Adds(ls, a) == [k \in DOMAIN ls |-> IF ls[k].cmd = 1 /\ ls[k].addr = a THEN ls[k].bytes ELSE <<>>]

\* The walk is at address a with the first k lines behind it, and has written this.
At(in, ls, a, k) ==
  /\ a \in 0 .. Len(in) /\ k \in 0 .. Len(ls)
  /\ k > 0 => EndOf(ls[k]) <= a
  /\ k < Len(ls) => a <= ls[k + 1].addr
Written(in, ls, a, k) ==
  Joined(Pieces(in, ls), a) \o IF a < Len(in) THEN Joined(Adds(ls, a), k) ELSE <<>>

LEMMA LineIs ==
  ASSUME NEW in, NEW ls, Ordered(in, ls), NEW k \in 1 .. Len(ls)
  PROVE  /\ ls[k].cmd \in {0, 1} /\ ls[k].addr \in Nat /\ ls[k].len \in Nat /\ ls[k].bytes \in Seq(Bytes)
         /\ EndOf(ls[k]) \in Nat /\ ls[k].addr <= EndOf(ls[k])
         /\ ls[k].addr < Len(in) /\ EndOf(ls[k]) <= Len(in)
         /\ ls[k].cmd = 1 => EndOf(ls[k]) = ls[k].addr /\ ls[k].len = Len(ls[k].bytes)
         /\ ls[k].cmd = 0 => EndOf(ls[k]) = ls[k].addr + ls[k].len /\ ls[k].bytes = <<>>
<1>1. ls[k] \in LineRows
    BY DEF Ordered
<1>2. ls[k].cmd \in {0, 1} /\ ls[k].addr \in Nat /\ ls[k].len \in Nat /\ ls[k].bytes \in Seq(Bytes)
    BY <1>1 DEF LineRows
<1>3. EndOf(ls[k]) = IF ls[k].cmd = 0 THEN ls[k].addr + ls[k].len ELSE ls[k].addr
    BY DEF EndOf
<1>4. EndOf(ls[k]) \in Nat /\ ls[k].addr <= EndOf(ls[k])
    BY <1>2, <1>3
<1>5. ls[k].addr < Len(in) /\ EndOf(ls[k]) <= Len(in)
    BY DEF Ordered
<1>6. IF ls[k].cmd = 1 THEN ls[k].len = Len(ls[k].bytes) ELSE ls[k].bytes = <<>>
    BY DEF Ordered
<1> QED BY <1>2, <1>3, <1>4, <1>5, <1>6

LEMMA OrderIs ==
  ASSUME NEW in, NEW ls, Ordered(in, ls), NEW i \in 1 .. Len(ls), NEW j \in 1 .. Len(ls), i < j
  PROVE  EndOf(ls[i]) <= ls[j].addr
<1>1. PICK n \in Nat : n = Len(ls)
    BY DEF Ordered
<1> DEFINE S == {d \in Nat : (i + d) + 1 <= n => EndOf(ls[i]) <= ls[(i + d) + 1].addr}
<1>2. 0 \in S
  <2>1. i + 1 <= n => i \in 1 .. Len(ls) - 1
      BY <1>1
  <2>2. (i + 0) + 1 = i + 1
      OBVIOUS
  <2> QED BY <2>1, <2>2 DEF Ordered
<1>3. ASSUME NEW d \in Nat, d \in S PROVE d + 1 \in S
  <2> SUFFICES ASSUME (i + (d + 1)) + 1 <= n PROVE EndOf(ls[i]) <= ls[(i + (d + 1)) + 1].addr
      OBVIOUS
  <2>1. PICK m \in Nat : m = (i + d) + 1
      OBVIOUS
  <2>2. /\ m <= n /\ m \in 1 .. Len(ls) /\ m \in 1 .. Len(ls) - 1 /\ m + 1 \in 1 .. Len(ls)
        /\ (i + (d + 1)) + 1 = m + 1
      BY <1>1, <2>1
  <2>3. EndOf(ls[i]) <= ls[m].addr
      BY <1>3, <2>1, <2>2
  <2>4. ls[m].addr <= EndOf(ls[m])
      BY <2>2, LineIs
  <2>5. EndOf(ls[m]) <= ls[m + 1].addr
      BY <2>2 DEF Ordered
  <2>6. EndOf(ls[i]) \in Nat /\ ls[m].addr \in Nat /\ EndOf(ls[m]) \in Nat /\ ls[m + 1].addr \in Nat
      BY <2>2, LineIs
  <2>7. EndOf(ls[i]) <= ls[m + 1].addr
      BY <2>3, <2>4, <2>5, <2>6
  <2> QED BY <2>2, <2>7
<1>4. (j - i) - 1 \in S
  <2>1. (j - i) - 1 \in Nat
      OBVIOUS
  <2> HIDE DEF S
  <2> QED BY <1>2, <1>3, <2>1, SetInduction
<1>5. (i + ((j - i) - 1)) + 1 = j /\ j <= n
    BY <1>1
<1> QED BY <1>4, <1>5

LEMMA PiecesAre ==
  ASSUME NEW in, NEW ls, Ordered(in, ls)
  PROVE  /\ Len(in) \in Nat /\ Len(ls) \in Nat /\ DOMAIN ls = 1 .. Len(ls) /\ DOMAIN in = 1 .. Len(in)
         /\ Pieces(in, ls) \in Seq(Seq(Bytes)) /\ Len(Pieces(in, ls)) = Len(in)
         /\ Patched(in, ls) = FlattenSeq(Pieces(in, ls))
         /\ \A a : Adds(ls, a) \in Seq(Seq(Bytes)) /\ Len(Adds(ls, a)) = Len(ls)
         /\ \A a : InsertedAt(ls, a) = FlattenSeq(Adds(ls, a)) /\ InsertedAt(ls, a) \in Seq(Bytes)
<1>1. Len(in) \in Nat /\ Len(ls) \in Nat /\ DOMAIN ls = 1 .. Len(ls) /\ DOMAIN in = 1 .. Len(in)
    BY DEF Ordered
<1>2. ASSUME NEW a PROVE Adds(ls, a) \in Seq(Seq(Bytes)) /\ Len(Adds(ls, a)) = Len(ls)
  <2>1. ASSUME NEW k \in 1 .. Len(ls)
        PROVE  (IF ls[k].cmd = 1 /\ ls[k].addr = a THEN ls[k].bytes ELSE <<>>) \in Seq(Bytes)
    <3>1. ls[k].bytes \in Seq(Bytes)
        BY LineIs
    <3> QED BY <3>1
  <2> QED BY <1>1, <2>1 DEF Adds
<1>3. ASSUME NEW a PROVE InsertedAt(ls, a) = FlattenSeq(Adds(ls, a)) /\ InsertedAt(ls, a) \in Seq(Bytes)
  <2>1. InsertedAt(ls, a) = FlattenSeq(Adds(ls, a))
      BY DEF InsertedAt, Adds
  <2> QED BY <1>2, <2>1, FlattenIsSeq
<1>4. Pieces(in, ls) \in Seq(Seq(Bytes)) /\ Len(Pieces(in, ls)) = Len(in)
  <2> DEFINE piece(n) == InsertedAt(ls, n - 1) \o IF \E k \in DOMAIN ls : Deletes(ls[k], n - 1) THEN <<>> ELSE <<in[n]>>
  <2>1. ASSUME NEW n \in 1 .. Len(in) PROVE piece(n) \in Seq(Bytes)
    <3>1. in[n] \in Bytes
        BY DEF Ordered
    <3>2. InsertedAt(ls, n - 1) \in Seq(Bytes)
        BY <1>3
    <3>3. <<>> \in Seq(Bytes) /\ <<in[n]>> \in Seq(Bytes)
        BY <3>1
    <3> QED BY <3>2, <3>3
  <2>2. Pieces(in, ls) = [n \in 1 .. Len(in) |-> piece(n)]
      BY <1>1 DEF Pieces
  <2> HIDE DEF piece
  <2> QED BY <1>1, <2>1, <2>2
<1> QED BY <1>1, <1>2, <1>3, <1>4 DEF Patched, Pieces

LEMMA WrittenIs ==
  ASSUME NEW in, NEW ls, Ordered(in, ls), NEW a, NEW k, At(in, ls, a, k)
  PROVE  /\ Written(in, ls, a, k) \in Seq(Bytes)
         /\ Joined(Pieces(in, ls), a) \in Seq(Bytes) /\ Joined(Adds(ls, a), k) \in Seq(Bytes)
<1>1. /\ Pieces(in, ls) \in Seq(Seq(Bytes)) /\ Adds(ls, a) \in Seq(Seq(Bytes))
      /\ a \in 0 .. Len(Pieces(in, ls)) /\ k \in 0 .. Len(Adds(ls, a))
    BY PiecesAre DEF At
<1>2. Joined(Pieces(in, ls), a) \in Seq(Bytes) /\ Joined(Adds(ls, a), k) \in Seq(Bytes)
    BY <1>1, JoinedIs
<1>3. <<>> \in Seq(Bytes)
    OBVIOUS
<1> QED BY <1>2, <1>3 DEF Written

\* The lines behind the walk end in front of it, the others start no earlier.
LEMMA LinesAround ==
  ASSUME NEW in, NEW ls, Ordered(in, ls), NEW a, NEW k, At(in, ls, a, k)
  PROVE  /\ \A j \in 1 .. k : j \in 1 .. Len(ls) /\ ls[j].addr <= EndOf(ls[j]) /\ EndOf(ls[j]) <= a
         /\ \A j \in k + 1 .. Len(ls) :
              j \in 1 .. Len(ls) /\ a <= ls[j].addr /\ (j > k + 1 => EndOf(ls[k + 1]) <= ls[j].addr)
<1>1. PICK n \in Nat : n = Len(ls)
    BY PiecesAre
<1>2. PICK l \in Nat : l = Len(in)
    BY PiecesAre
<1>3. a \in 0 .. l /\ k \in 0 .. n /\ a \in Nat /\ k \in Nat
    BY <1>1, <1>2 DEF At
<1>4. ASSUME NEW j \in 1 .. k
      PROVE  j \in 1 .. Len(ls) /\ ls[j].addr <= EndOf(ls[j]) /\ EndOf(ls[j]) <= a
  <2>1. j \in 1 .. Len(ls) /\ k \in 1 .. Len(ls) /\ k > 0
      BY <1>1, <1>3
  <2>2. EndOf(ls[k]) <= a
      BY <2>1 DEF At
  <2>3. j = k \/ j < k
      BY <1>3
  <2>4. j < k => EndOf(ls[j]) <= ls[k].addr
      BY <2>1, OrderIs
  <2>5. /\ ls[k].addr <= EndOf(ls[k]) /\ EndOf(ls[k]) \in Nat /\ ls[k].addr \in Nat
        /\ EndOf(ls[j]) \in Nat /\ ls[j].addr <= EndOf(ls[j])
      BY <2>1, LineIs
  <2> QED BY <1>3, <2>1, <2>2, <2>3, <2>4, <2>5
<1>5. ASSUME NEW j \in k + 1 .. Len(ls)
      PROVE  j \in 1 .. Len(ls) /\ a <= ls[j].addr /\ (j > k + 1 => EndOf(ls[k + 1]) <= ls[j].addr)
  <2>1. j \in 1 .. Len(ls) /\ k + 1 \in 1 .. Len(ls) /\ k < Len(ls) /\ j \in Nat
      BY <1>1, <1>3
  <2>2. a <= ls[k + 1].addr
      BY <2>1 DEF At
  <2>3. j = k + 1 \/ k + 1 < j
      BY <1>1, <1>3, <2>1
  <2>4. k + 1 < j => EndOf(ls[k + 1]) <= ls[j].addr
      BY <2>1, OrderIs
  <2>5. ls[k + 1].addr <= EndOf(ls[k + 1]) /\ EndOf(ls[k + 1]) \in Nat /\ ls[k + 1].addr \in Nat /\ ls[j].addr \in Nat
      BY <2>1, LineIs
  <2>6. a <= ls[j].addr
      BY <1>3, <2>2, <2>3, <2>4, <2>5
  <2>7. j > k + 1 => k + 1 < j
      BY <1>3, <2>1
  <2> QED BY <2>1, <2>4, <2>6, <2>7
<1> QED BY <1>4, <1>5

\* An insertion writes its bytes.
LEMMA WalkInserts ==
  ASSUME NEW in, NEW ls, Ordered(in, ls), NEW a, NEW k, At(in, ls, a, k),
         k < Len(ls), a = ls[k + 1].addr, ls[k + 1].cmd = 1
  PROVE  At(in, ls, a, k + 1) /\ Written(in, ls, a, k + 1) = Written(in, ls, a, k) \o ls[k + 1].bytes
<1>1. PICK n \in Nat : n = Len(ls)
    BY PiecesAre
<1>2. k \in 0 .. n /\ k \in Nat /\ k + 1 \in 1 .. Len(ls) /\ k + 1 \in 0 .. n /\ (k + 1) - 1 = k /\ k < n
    BY <1>1 DEF At
<1>3. EndOf(ls[k + 1]) = a /\ a < Len(in) /\ a \in Nat /\ ls[k + 1].bytes \in Seq(Bytes)
    BY <1>2, LineIs
<1>4. At(in, ls, a, k + 1)
  <2>1. ASSUME k + 1 < n PROVE a <= ls[(k + 1) + 1].addr
    <3>1. k + 1 \in 1 .. Len(ls) - 1
        BY <1>1, <1>2, <2>1
    <3> QED BY <1>3, <3>1 DEF Ordered
  <2>2. a <= a /\ a \in 0 .. Len(in)
      BY <1>3 DEF At
  <2> QED BY <1>1, <1>2, <1>3, <2>1, <2>2 DEF At
<1>5. Joined(Adds(ls, a), k + 1) = Joined(Adds(ls, a), k) \o ls[k + 1].bytes
  <2>1. Adds(ls, a) \in Seq(Seq(Bytes)) /\ Len(Adds(ls, a)) = n /\ DOMAIN ls = 1 .. Len(ls)
      BY <1>1, PiecesAre
  <2>2. Adds(ls, a)[k + 1] = ls[k + 1].bytes
      BY <1>2, <2>1 DEF Adds
  <2>3. k + 1 <= Len(Adds(ls, a))
      BY <1>2, <2>1
  <2> QED BY <1>2, <2>1, <2>2, <2>3, JoinedStep
<1>6. Joined(Pieces(in, ls), a) \in Seq(Bytes) /\ Joined(Adds(ls, a), k) \in Seq(Bytes)
    BY WrittenIs
<1>7. PICK u \in Seq(Bytes) : u = Joined(Pieces(in, ls), a)
    BY <1>6
<1>8. PICK v \in Seq(Bytes) : v = Joined(Adds(ls, a), k)
    BY <1>6
<1>9. PICK w \in Seq(Bytes) : w = ls[k + 1].bytes
    BY <1>3
<1>10. (u \o v) \o w = u \o (v \o w)
    OBVIOUS
<1> QED BY <1>3, <1>4, <1>5, <1>7, <1>8, <1>9, <1>10 DEF Written

\* Lines that do not insert in front of byte b add nothing to it.
LEMMA NothingAdded ==
  ASSUME NEW in, NEW ls, Ordered(in, ls), NEW b, NEW i \in Nat, NEW k \in Nat, i <= k, k <= Len(ls),
         \A j \in i + 1 .. k : ls[j].cmd = 0 \/ ls[j].addr # b
  PROVE  Joined(Adds(ls, b), k) = Joined(Adds(ls, b), i)
<1>1. Adds(ls, b) \in Seq(Seq(Bytes)) /\ Len(Adds(ls, b)) = Len(ls) /\ DOMAIN ls = 1 .. Len(ls) /\ Len(ls) \in Nat
    BY PiecesAre
<1>2. ASSUME NEW j \in i + 1 .. k PROVE Adds(ls, b)[j] = <<>>
  <2>1. j \in 1 .. Len(ls)
      BY <1>1
  <2> QED BY <1>1, <2>1 DEF Adds
<1> QED BY <1>1, <1>2, JoinedEmpty

LEMMA NothingAddedAtAll ==
  ASSUME NEW in, NEW ls, Ordered(in, ls), NEW b, NEW k \in 0 .. Len(ls),
         \A j \in 1 .. k : ls[j].cmd = 0 \/ ls[j].addr # b
  PROVE  Joined(Adds(ls, b), k) = <<>>
<1>1. Adds(ls, b) \in Seq(Seq(Bytes)) /\ k \in 0 .. Len(Adds(ls, b)) /\ k \in Nat /\ 0 <= k /\ k <= Len(ls)
    BY PiecesAre
<1>2. Joined(Adds(ls, b), 0) = <<>>
    BY <1>1, JoinedIs
<1>3. \A j \in 0 + 1 .. k : ls[j].cmd = 0 \/ ls[j].addr # b
    OBVIOUS
<1>4. Joined(Adds(ls, b), k) = Joined(Adds(ls, b), 0)
  <2>1. 0 \in Nat
      OBVIOUS
  <2> QED BY <1>1, <1>3, <2>1, NothingAdded
<1> QED BY <1>2, <1>4

\* Byte a is written with what the lines behind the walk put in front of it.
LEMMA WalkCopies ==
  ASSUME NEW in, NEW ls, Ordered(in, ls), NEW a, NEW k, At(in, ls, a, k),
         a < Len(in), k < Len(ls) => a # ls[k + 1].addr
  PROVE  /\ At(in, ls, a + 1, k) /\ Written(in, ls, a + 1, k) = Written(in, ls, a, k) \o <<in[a + 1]>>
         /\ in[a + 1] \in Bytes
<1>1. PICK n \in Nat : n = Len(ls)
    BY PiecesAre
<1>2. PICK l \in Nat : l = Len(in)
    BY PiecesAre
<1>3. a \in Nat /\ k \in Nat /\ k \in 0 .. n /\ a < l
    BY <1>1, <1>2 DEF At
<1>4. a + 1 \in 0 .. l /\ a + 1 \in 1 .. l /\ (a + 1) - 1 = a
    BY <1>3
<1>5. in[a + 1] \in Bytes
    BY <1>2, <1>4 DEF Ordered
<1>6. \A j \in 1 .. k : j \in 1 .. Len(ls) /\ ls[j].addr <= EndOf(ls[j]) /\ EndOf(ls[j]) <= a
    BY LinesAround
<1>7. \A j \in k + 1 .. n : j \in 1 .. Len(ls) /\ a < ls[j].addr
  <2> SUFFICES ASSUME NEW j \in k + 1 .. n PROVE j \in 1 .. Len(ls) /\ a < ls[j].addr
      OBVIOUS
  <2>1. /\ j \in 1 .. Len(ls) /\ a <= ls[j].addr
        /\ k + 1 \in 1 .. Len(ls) /\ k < Len(ls) /\ k + 1 \in k + 1 .. Len(ls) /\ (j = k + 1 \/ j > k + 1)
    <3>1. j \in 1 .. Len(ls) /\ k + 1 \in 1 .. Len(ls) /\ k < Len(ls) /\ k + 1 \in k + 1 .. Len(ls) /\ (j = k + 1 \/ j > k + 1)
        BY <1>1, <1>3
    <3> QED BY <1>1, <3>1, LinesAround
  <2>2. a <= ls[k + 1].addr /\ a # ls[k + 1].addr
      BY <2>1, LinesAround
  <2>3. ls[k + 1].addr \in Nat /\ ls[k + 1].addr <= EndOf(ls[k + 1]) /\ EndOf(ls[k + 1]) \in Nat /\ ls[j].addr \in Nat
      BY <2>1, LineIs
  <2>4. j > k + 1 => EndOf(ls[k + 1]) <= ls[j].addr
      BY <1>1, <2>1, LinesAround
  <2> QED BY <1>3, <2>1, <2>2, <2>3, <2>4
<1>8. At(in, ls, a + 1, k)
  <2>1. k > 0 => EndOf(ls[k]) <= a + 1
    <3>1. k > 0 => k \in 1 .. k /\ k \in 1 .. Len(ls)
        BY <1>1, <1>3
    <3>2. k > 0 => EndOf(ls[k]) <= a /\ EndOf(ls[k]) \in Nat
        BY <1>6, <3>1, LineIs
    <3> QED BY <1>3, <3>2
  <2>2. k < n => a + 1 <= ls[k + 1].addr
    <3>1. k < n => k + 1 \in k + 1 .. n /\ k + 1 \in 1 .. Len(ls)
        BY <1>1, <1>3
    <3>2. k < n => a < ls[k + 1].addr /\ ls[k + 1].addr \in Nat
        BY <1>7, <3>1, LineIs
    <3> QED BY <1>3, <3>2
  <2> QED BY <1>1, <1>2, <1>3, <1>4, <2>1, <2>2 DEF At
<1>9. Joined(Adds(ls, a), k) = InsertedAt(ls, a)
  <2>1. Adds(ls, a) \in Seq(Seq(Bytes)) /\ Len(Adds(ls, a)) = n
      BY <1>1, PiecesAre
  <2>2. Joined(Adds(ls, a), n) = Joined(Adds(ls, a), k)
    <3>1. \A j \in k + 1 .. n : ls[j].cmd = 0 \/ ls[j].addr # a
      <4>1. ASSUME NEW j \in k + 1 .. n PROVE ls[j].addr # a
        <5>1. j \in 1 .. Len(ls) /\ a < ls[j].addr
            BY <1>7
        <5>2. ls[j].addr \in Nat
            BY <5>1, LineIs
        <5> QED BY <1>3, <5>1, <5>2
      <4> QED BY <4>1
    <3>2. k <= n /\ n <= Len(ls)
        BY <1>1, <1>3
    <3> QED BY <1>3, <3>1, <3>2, NothingAdded
  <2>3. n \in 0 .. Len(Adds(ls, a))
      BY <2>1
  <2>4. Joined(Adds(ls, a), n) = FlattenSeq(Adds(ls, a))
      BY <2>1, <2>3, JoinedIs
  <2>5. InsertedAt(ls, a) = FlattenSeq(Adds(ls, a))
      BY PiecesAre
  <2> QED BY <2>2, <2>4, <2>5
<1>10. Pieces(in, ls)[a + 1] = InsertedAt(ls, a) \o <<in[a + 1]>>
  <2>1. ASSUME NEW j \in 1 .. n PROVE ~ Deletes(ls[j], a)
    <3>1. ls[j].addr \in Nat /\ ls[j].len \in Nat /\ EndOf(ls[j]) \in Nat
          /\ (ls[j].cmd = 0 => EndOf(ls[j]) = ls[j].addr + ls[j].len)
        BY <1>1, <2>1, LineIs
    <3>2. j \in 1 .. k \/ j \in k + 1 .. n
        BY <1>3
    <3>3. CASE j \in 1 .. k
      <4>1. EndOf(ls[j]) <= a
          BY <1>6, <3>3
      <4> QED BY <1>3, <3>1, <4>1 DEF Deletes
    <3>4. CASE j \in k + 1 .. n
      <4>1. a < ls[j].addr
          BY <1>7, <3>4
      <4> QED BY <1>3, <3>1, <4>1 DEF Deletes
    <3> QED BY <3>2, <3>3, <3>4
  <2>2. DOMAIN ls = 1 .. n /\ DOMAIN in = 1 .. l
      BY <1>1, <1>2 DEF Ordered
  <2>3. ~ \E j \in DOMAIN ls : Deletes(ls[j], (a + 1) - 1)
      BY <1>4, <2>1, <2>2
  <2> QED BY <1>4, <2>2, <2>3 DEF Pieces
<1>11. Joined(Pieces(in, ls), a + 1) = Joined(Pieces(in, ls), a) \o Pieces(in, ls)[a + 1]
  <2>1. Pieces(in, ls) \in Seq(Seq(Bytes)) /\ Len(Pieces(in, ls)) = l /\ a + 1 <= l
      BY <1>2, <1>4, PiecesAre
  <2> QED BY <1>3, <2>1, JoinedStep
<1>12. Joined(Adds(ls, a + 1), k) = <<>>
  <2>1. ASSUME NEW j \in 1 .. k PROVE ls[j].addr # a + 1
    <3>1. j \in 1 .. Len(ls) /\ ls[j].addr <= EndOf(ls[j]) /\ EndOf(ls[j]) <= a
        BY <1>6
    <3>2. ls[j].addr \in Nat /\ EndOf(ls[j]) \in Nat
        BY <3>1, LineIs
    <3> QED BY <1>3, <3>1, <3>2
  <2> QED BY <1>1, <1>3, <2>1, NothingAddedAtAll
<1>13. PICK u \in Seq(Bytes) : u = Joined(Pieces(in, ls), a)
  <2>1. Joined(Pieces(in, ls), a) \in Seq(Bytes)
      BY WrittenIs
  <2> QED BY <2>1
<1>14. PICK v \in Seq(Bytes) : v = InsertedAt(ls, a)
  <2>1. InsertedAt(ls, a) \in Seq(Bytes)
      BY PiecesAre
  <2> QED BY <2>1
<1>15. Written(in, ls, a, k) = u \o v
    BY <1>2, <1>3, <1>9, <1>13, <1>14 DEF Written
<1>16. Joined(Pieces(in, ls), a + 1) = u \o (v \o <<in[a + 1]>>)
    BY <1>10, <1>11, <1>13, <1>14
<1>17. <<in[a + 1]>> \in Seq(Bytes)
    BY <1>5
<1>18. u \o (v \o <<in[a + 1]>>) = (u \o v) \o <<in[a + 1]>> /\ (u \o v) \o <<in[a + 1]>> \in Seq(Bytes)
    BY <1>17
<1>19. Written(in, ls, a + 1, k) = ((u \o v) \o <<in[a + 1]>>) \o <<>>
    BY <1>12, <1>16, <1>18 DEF Written
<1>20. ((u \o v) \o <<in[a + 1]>>) \o <<>> = (u \o v) \o <<in[a + 1]>>
    BY <1>18
<1> QED BY <1>5, <1>8, <1>15, <1>19, <1>20

\* A deletion leaves out its bytes and what is written stays as it is.
LEMMA WalkDeletes ==
  ASSUME NEW in, NEW ls, Ordered(in, ls), NEW a, NEW k, At(in, ls, a, k),
         k < Len(ls), a = ls[k + 1].addr, ls[k + 1].cmd = 0
  PROVE  /\ At(in, ls, a + ls[k + 1].len, k + 1)
         /\ Written(in, ls, a + ls[k + 1].len, k + 1) = Written(in, ls, a, k)
<1>1. PICK n \in Nat : n = Len(ls)
    BY PiecesAre
<1>2. PICK l \in Nat : l = Len(in)
    BY PiecesAre
<1>3. a \in Nat /\ k \in Nat /\ k \in 0 .. n /\ k < n /\ k + 1 \in 1 .. Len(ls) /\ (k + 1) - 1 = k
    BY <1>1, <1>2 DEF At
<1>4. PICK d \in Nat : d = ls[k + 1].len
    BY <1>3, LineIs
<1>5. PICK b \in Nat : b = a + d
    BY <1>3
<1>6. EndOf(ls[k + 1]) = b /\ a < l /\ b <= l /\ a <= b
    BY <1>2, <1>3, <1>4, <1>5, LineIs
<1>7. \A j \in 1 .. k : ls[j].addr \in Nat /\ ls[j].addr <= a
  <2> SUFFICES ASSUME NEW j \in 1 .. k PROVE ls[j].addr \in Nat /\ ls[j].addr <= a
      OBVIOUS
  <2>1. j \in 1 .. Len(ls) /\ ls[j].addr <= EndOf(ls[j]) /\ EndOf(ls[j]) <= a
      BY LinesAround
  <2>2. ls[j].addr \in Nat /\ EndOf(ls[j]) \in Nat
      BY <2>1, LineIs
  <2> QED BY <1>3, <2>1, <2>2
<1>8. \A j \in k + 2 .. n : ls[j].addr \in Nat /\ b <= ls[j].addr
  <2> SUFFICES ASSUME NEW j \in k + 2 .. n PROVE ls[j].addr \in Nat /\ b <= ls[j].addr
      OBVIOUS
  <2>1. j \in 1 .. Len(ls) /\ k + 1 < j
      BY <1>1, <1>3
  <2>2. EndOf(ls[k + 1]) <= ls[j].addr
      BY <1>3, <2>1, OrderIs
  <2>3. ls[j].addr \in Nat
      BY <2>1, LineIs
  <2> QED BY <1>6, <2>2, <2>3
<1>9. At(in, ls, b, k + 1)
  <2>1. ASSUME k + 1 < n PROVE b <= ls[(k + 1) + 1].addr
    <3>1. (k + 1) + 1 \in k + 2 .. n
        BY <1>1, <1>3, <2>1
    <3> QED BY <1>8, <3>1
  <2>2. b <= b /\ b \in 0 .. Len(in) /\ k + 1 \in 0 .. Len(ls)
      BY <1>2, <1>3, <1>6
  <2> QED BY <1>1, <1>6, <2>1, <2>2 DEF At
<1>10. CASE d = 0
  <2>1. b = a
      BY <1>3, <1>5, <1>10
  <2>2. Joined(Adds(ls, a), k + 1) = Joined(Adds(ls, a), k)
    <3>1. \A j \in k + 1 .. k + 1 : ls[j].cmd = 0 \/ ls[j].addr # a
      <4>1. \A j \in k + 1 .. k + 1 : j = k + 1
          BY <1>3
      <4> QED BY <4>1
    <3>2. k <= k + 1 /\ k + 1 <= Len(ls) /\ k + 1 \in Nat
        BY <1>1, <1>3
    <3> QED BY <1>3, <3>1, <3>2, NothingAdded
  <2>3. Written(in, ls, b, k + 1) = Written(in, ls, a, k)
      BY <2>1, <2>2 DEF Written
  <2> QED BY <1>4, <1>5, <1>9, <2>3
<1>11. CASE d # 0
  <2>1. a < b /\ a + 1 <= b /\ a + 1 \in Nat /\ a + 1 \in 1 .. l /\ (a + 1) - 1 = a
      BY <1>3, <1>5, <1>6, <1>11
  <2>2. /\ Pieces(in, ls) \in Seq(Seq(Bytes)) /\ Len(Pieces(in, ls)) = l /\ DOMAIN in = 1 .. l /\ DOMAIN ls = 1 .. n
        /\ \A i : InsertedAt(ls, i) = FlattenSeq(Adds(ls, i)) /\ InsertedAt(ls, i) \in Seq(Bytes)
        /\ \A i : Adds(ls, i) \in Seq(Seq(Bytes)) /\ Len(Adds(ls, i)) = n
      BY <1>1, <1>2, PiecesAre
  <2>3. \A i : InsertedAt(ls, i) = Joined(Adds(ls, i), n)
    <3> SUFFICES ASSUME NEW i PROVE InsertedAt(ls, i) = Joined(Adds(ls, i), n)
        OBVIOUS
    <3>1. n \in 0 .. Len(Adds(ls, i)) /\ Adds(ls, i) \in Seq(Seq(Bytes)) /\ n = Len(Adds(ls, i))
        BY <2>2
    <3>2. Joined(Adds(ls, i), n) = FlattenSeq(Adds(ls, i))
        BY <3>1, JoinedIs
    <3> QED BY <2>2, <3>2
  <2>4. ASSUME NEW m \in a + 1 .. b PROVE m \in 1 .. l /\ Pieces(in, ls)[m] = InsertedAt(ls, m - 1)
    <3>1. m \in 1 .. l /\ m \in Nat /\ a <= m - 1 /\ m - 1 < b
        BY <1>3, <1>6
    <3>2. ls[k + 1].addr + ls[k + 1].len = b
        BY <1>4, <1>5
    <3>3. Deletes(ls[k + 1], m - 1)
        BY <3>1, <3>2 DEF Deletes
    <3>4. k + 1 \in DOMAIN ls
        BY <1>3, <2>2, <1>1
    <3>5. Pieces(in, ls)[m] = InsertedAt(ls, m - 1) \o <<>>
        BY <2>2, <3>1, <3>3, <3>4 DEF Pieces
    <3>6. InsertedAt(ls, m - 1) \in Seq(Bytes)
        BY <2>2
    <3> QED BY <3>1, <3>5, <3>6
  <2>5. \A j \in 1 .. n : j \in 1 .. k \/ j = k + 1 \/ j \in k + 2 .. n
      BY <1>3
  <2>6. InsertedAt(ls, a) = Joined(Adds(ls, a), k)
    <3>1. ASSUME NEW j \in k + 1 .. n PROVE ls[j].cmd = 0 \/ ls[j].addr # a
      <4>1. j = k + 1 \/ j \in k + 2 .. n
          BY <1>3
      <4>2. j \in k + 2 .. n => ls[j].addr # a
        <5>1. j \in k + 2 .. n => ls[j].addr \in Nat /\ b <= ls[j].addr
            BY <1>8
        <5> QED BY <1>3, <2>1, <5>1
      <4> QED BY <4>1, <4>2
    <3>2. k <= n /\ n <= Len(ls)
        BY <1>1, <1>3
    <3>3. Joined(Adds(ls, a), n) = Joined(Adds(ls, a), k)
        BY <1>3, <3>1, <3>2, NothingAdded
    <3> QED BY <2>3, <3>3
  <2>7. ASSUME NEW m \in (a + 1) + 1 .. b PROVE Pieces(in, ls)[m] = <<>>
    <3>1. m \in a + 1 .. b /\ m \in Nat /\ a < m - 1 /\ m - 1 < b
        BY <1>3
    <3>2. ASSUME NEW j \in 1 .. n PROVE ls[j].cmd = 0 \/ ls[j].addr # m - 1
      <4>1. j \in 1 .. k => ls[j].addr # m - 1
        <5>1. j \in 1 .. k => ls[j].addr \in Nat /\ ls[j].addr <= a
            BY <1>7
        <5> QED BY <1>3, <3>1, <5>1
      <4>2. j \in k + 2 .. n => ls[j].addr # m - 1
        <5>1. j \in k + 2 .. n => ls[j].addr \in Nat /\ b <= ls[j].addr
            BY <1>8
        <5> QED BY <1>3, <3>1, <5>1
      <4> QED BY <2>5, <4>1, <4>2
    <3>3. Joined(Adds(ls, m - 1), n) = <<>>
      <4>1. n \in 0 .. Len(ls)
          BY <1>1
      <4> QED BY <3>2, <4>1, NothingAddedAtAll
    <3> QED BY <2>3, <2>4, <3>1, <3>3
  <2>8. Joined(Pieces(in, ls), b) = Joined(Pieces(in, ls), a + 1)
    <3>1. b <= Len(Pieces(in, ls))
        BY <1>6, <2>2
    <3> QED BY <2>1, <2>2, <2>7, <3>1, JoinedEmpty
  <2>9. Joined(Pieces(in, ls), a + 1) = Joined(Pieces(in, ls), a) \o Pieces(in, ls)[a + 1]
    <3>1. a + 1 <= Len(Pieces(in, ls))
        BY <2>1, <2>2
    <3> QED BY <1>3, <2>2, <3>1, JoinedStep
  <2>10. Pieces(in, ls)[a + 1] = Joined(Adds(ls, a), k)
    <3>1. a + 1 \in a + 1 .. b
        BY <1>3, <2>1
    <3> QED BY <2>1, <2>4, <2>6, <3>1
  <2>11. Joined(Adds(ls, b), k + 1) = <<>>
    <3>1. ASSUME NEW j \in 1 .. k + 1 PROVE ls[j].cmd = 0 \/ ls[j].addr # b
      <4>1. j \in 1 .. k \/ j = k + 1
          BY <1>3
      <4>2. j \in 1 .. k => ls[j].addr \in Nat /\ ls[j].addr <= a
          BY <1>7
      <4> QED BY <1>3, <2>1, <4>1, <4>2
    <3>2. k + 1 \in 0 .. Len(ls)
        BY <1>1, <1>3
    <3> QED BY <3>1, <3>2, NothingAddedAtAll
  <2>12. PICK u \in Seq(Bytes) : u = Joined(Pieces(in, ls), a) \o Joined(Adds(ls, a), k)
    <3>1. Joined(Pieces(in, ls), a) \in Seq(Bytes) /\ Joined(Adds(ls, a), k) \in Seq(Bytes)
        BY WrittenIs
    <3>2. PICK v \in Seq(Bytes), w \in Seq(Bytes) : v = Joined(Pieces(in, ls), a) /\ w = Joined(Adds(ls, a), k)
        BY <3>1
    <3>3. v \o w \in Seq(Bytes)
        OBVIOUS
    <3> QED BY <3>2, <3>3
  <2>13. Written(in, ls, a, k) = u
      BY <1>2, <1>6, <2>12 DEF Written
  <2>14. Written(in, ls, b, k + 1) = u \o <<>>
      BY <2>8, <2>9, <2>10, <2>11, <2>12 DEF Written
  <2>15. u \o <<>> = u
      OBVIOUS
  <2> QED BY <1>4, <1>5, <1>9, <2>13, <2>14, <2>15
<1> QED BY <1>10, <1>11

LEMMA ThreeJoined ==
  ASSUME NEW T, NEW v \in Seq(T), NEW x \in Seq(T), NEW r \in Seq(T)
  PROVE  (v \o x) \o r = v \o (x \o r) /\ x \o r \in Seq(T) /\ Len(x \o r) = Len(x) + Len(r)
<1>1. (v \o x) \o r = v \o (x \o r)
    OBVIOUS
<1>2. x \o r \in Seq(T) /\ Len(x \o r) = Len(x) + Len(r)
    OBVIOUS
<1> QED BY <1>1, <1>2

\* u[k] is what the first k lines add to the size.
Shifted(ls, u) ==
  /\ u[0] = 0
  /\ \A k \in 0 .. Len(ls) : u[k] \in Int
  /\ \A k \in 1 .. Len(ls) : u[k] = u[k - 1] + Grows(ls[k])

LEMMA GrowsIs ==
  ASSUME NEW in, NEW ls, Ordered(in, ls), NEW k \in 1 .. Len(ls)
  PROVE  Grows(ls[k]) = IF ls[k].cmd = 1 THEN Len(ls[k].bytes) ELSE -ls[k].len
<1>1. ls[k].status = "ok"
    BY DEF Ordered
<1>2. Counted(ls[k])
    BY <1>1 DEF Counted
<1>3. ls[k].cmd = 1 => ls[k].len = Len(ls[k].bytes)
    BY LineIs
<1> QED BY <1>2, <1>3 DEF Grows

\* The rest of the output is still to be written.
Remains(in, ls, u, a, k) ==
  \E r \in Seq(Bytes) :
    /\ Patched(in, ls) = Written(in, ls, a, k) \o r
    /\ Len(r) = (Len(in) - a) + (u[Len(ls)] - u[k])

LEMMA RemainsBefore ==
  ASSUME NEW in, NEW ls, Ordered(in, ls), NEW u, Shifted(ls, u), NEW a, NEW k, At(in, ls, a, k),
         NEW b, NEW m, At(in, ls, b, m), NEW x \in Seq(Bytes),
         Written(in, ls, b, m) = Written(in, ls, a, k) \o x,
         Len(x) = (b - a) + (u[m] - u[k]), Remains(in, ls, u, b, m)
  PROVE  Remains(in, ls, u, a, k)
<1>1. PICK r \in Seq(Bytes) :
        /\ Patched(in, ls) = Written(in, ls, b, m) \o r
        /\ Len(r) = (Len(in) - b) + (u[Len(ls)] - u[m])
    BY DEF Remains
<1>2. PICK v \in Seq(Bytes) : v = Written(in, ls, a, k)
  <2>1. Written(in, ls, a, k) \in Seq(Bytes)
      BY WrittenIs
  <2> QED BY <2>1
<1>3. (v \o x) \o r = v \o (x \o r) /\ x \o r \in Seq(Bytes) /\ Len(x \o r) = Len(x) + Len(r)
  <2>1. v \in Seq(Bytes) /\ x \in Seq(Bytes) /\ r \in Seq(Bytes)
      OBVIOUS
  <2> QED BY ONLY <2>1, ThreeJoined
<1>4. PICK n \in Nat, l \in Nat : n = Len(ls) /\ l = Len(in)
    BY PiecesAre
<1>5. u[n] \in Int /\ u[k] \in Int /\ u[m] \in Int /\ a \in Nat /\ b \in Nat
  <2>1. n \in 0 .. Len(ls) /\ k \in 0 .. Len(ls) /\ m \in 0 .. Len(ls) /\ a \in 0 .. l /\ b \in 0 .. l
      BY <1>4 DEF At
  <2> QED BY <2>1 DEF Shifted
<1>6. Len(x) + Len(r) = (l - a) + (u[n] - u[k])
  <2>1. PICK s \in Int, t \in Int, w \in Int : s = u[n] /\ t = u[k] /\ w = u[m]
      BY <1>5
  <2>2. ((b - a) + (w - t)) + ((l - b) + (s - w)) = (l - a) + (s - t)
      BY <1>4, <1>5
  <2> QED BY <1>1, <1>4, <2>1, <2>2
<1>7. Patched(in, ls) = Written(in, ls, a, k) \o (x \o r)
    BY <1>1, <1>2, <1>3
<1>8. Len(x \o r) = (Len(in) - a) + (u[Len(ls)] - u[k])
    BY <1>3, <1>4, <1>6
<1> QED BY <1>3, <1>7, <1>8 DEF Remains

LEMMA RemainsAtTheEnd ==
  ASSUME NEW in, NEW ls, Ordered(in, ls), NEW u, Shifted(ls, u), NEW k, At(in, ls, Len(in), k)
  PROVE  k = Len(ls) /\ Written(in, ls, Len(in), k) = Patched(in, ls) /\ Remains(in, ls, u, Len(in), k)
<1>1. PICK n \in Nat, l \in Nat : n = Len(ls) /\ l = Len(in)
    BY PiecesAre
<1>2. k \in 0 .. n
    BY <1>1 DEF At
<1>3. k = n
  <2> SUFFICES ASSUME k < n PROVE FALSE
      BY <1>2
  <2>1. k + 1 \in 1 .. Len(ls)
      BY <1>1, <1>2
  <2>2. l <= ls[k + 1].addr
      BY <1>1 DEF At
  <2>3. ls[k + 1].addr < l /\ ls[k + 1].addr \in Nat
      BY <1>1, <2>1, LineIs
  <2> QED BY <2>2, <2>3
<1>4. /\ Pieces(in, ls) \in Seq(Seq(Bytes)) /\ l = Len(Pieces(in, ls)) /\ l \in 0 .. Len(Pieces(in, ls))
      /\ Patched(in, ls) = FlattenSeq(Pieces(in, ls))
    BY <1>1, PiecesAre
<1>5. Joined(Pieces(in, ls), l) = Patched(in, ls) /\ Joined(Pieces(in, ls), l) \in Seq(Bytes)
    BY <1>4, JoinedIs
<1>6. PICK v \in Seq(Bytes) : v = Patched(in, ls)
    BY <1>5
<1>7. v \o <<>> = v /\ <<>> \in Seq(Bytes) /\ Len(<<>>) = 0
    OBVIOUS
<1>8. Written(in, ls, l, k) = v \o <<>>
    BY <1>1, <1>5, <1>6 DEF Written
<1>9. (l - l) + (u[n] - u[n]) = 0
  <2>1. n \in 0 .. Len(ls)
      BY <1>1
  <2>2. u[n] \in Int
      BY <2>1 DEF Shifted
  <2> QED BY <2>2
<1>10. Len(<<>>) = (Len(in) - Len(in)) + (u[Len(ls)] - u[k])
    BY <1>1, <1>3, <1>7, <1>9
<1>11. Patched(in, ls) = Written(in, ls, Len(in), k) \o <<>>
    BY <1>1, <1>6, <1>7, <1>8
<1>12. Remains(in, ls, u, Len(in), k)
    BY <1>7, <1>10, <1>11 DEF Remains
<1> QED BY <1>1, <1>3, <1>6, <1>7, <1>8, <1>12

\* One step of the walk.
LEMMA WalkGoesOn ==
  ASSUME NEW in, NEW ls, Ordered(in, ls), NEW u, Shifted(ls, u), NEW a, NEW k, At(in, ls, a, k), a # Len(in)
  PROVE  \E b, m : \E x \in Seq(Bytes) :
           /\ At(in, ls, b, m) /\ Written(in, ls, b, m) = Written(in, ls, a, k) \o x
           /\ Len(x) = (b - a) + (u[m] - u[k])
           /\ (Len(in) - b) + (Len(ls) - m) < (Len(in) - a) + (Len(ls) - k)
<1>1. PICK n \in Nat, l \in Nat : n = Len(ls) /\ l = Len(in)
    BY PiecesAre
<1>2. a \in Nat /\ k \in Nat /\ a < l /\ k \in 0 .. n
    BY <1>1 DEF At
<1>3. u[k] \in Int
    BY <1>1, <1>2 DEF Shifted
<1>4. k < n => /\ u[k + 1] \in Int /\ u[k + 1] = u[k] + Grows(ls[k + 1])
               /\ k + 1 \in 1 .. Len(ls)
  <2>1. k < n => k + 1 \in 0 .. Len(ls) /\ k + 1 \in 1 .. Len(ls) /\ (k + 1) - 1 = k
      BY <1>1, <1>2
  <2> QED BY <2>1 DEF Shifted
<1>5. CASE k < n /\ a = ls[k + 1].addr /\ ls[k + 1].cmd = 1
  <2>1. /\ At(in, ls, a, k + 1)
        /\ Written(in, ls, a, k + 1) = Written(in, ls, a, k) \o ls[k + 1].bytes
      BY <1>1, <1>5, WalkInserts
  <2>2. ls[k + 1].bytes \in Seq(Bytes)
      BY <1>4, <1>5, LineIs
  <2>3. u[k + 1] = u[k] + Len(ls[k + 1].bytes)
      BY <1>4, <1>5, GrowsIs
  <2>4. PICK c \in Nat : c = Len(ls[k + 1].bytes)
      BY <2>2
  <2>5. Len(ls[k + 1].bytes) = (a - a) + (u[k + 1] - u[k])
      BY <1>2, <1>3, <2>3, <2>4
  <2>6. (Len(in) - a) + (Len(ls) - (k + 1)) < (Len(in) - a) + (Len(ls) - k)
      BY <1>1, <1>2
  <2> QED BY <2>1, <2>2, <2>5, <2>6
<1>6. CASE k < n /\ a = ls[k + 1].addr /\ ls[k + 1].cmd = 0
  <2>1. PICK d \in Nat : d = ls[k + 1].len
      BY <1>4, <1>6, LineIs
  <2>2. /\ At(in, ls, a + d, k + 1)
        /\ Written(in, ls, a + d, k + 1) = Written(in, ls, a, k)
      BY <1>1, <1>6, <2>1, WalkDeletes
  <2>3. PICK v \in Seq(Bytes) : v = Written(in, ls, a, k)
    <3>1. Written(in, ls, a, k) \in Seq(Bytes)
        BY WrittenIs
    <3> QED BY <3>1
  <2>4. v \o <<>> = v /\ <<>> \in Seq(Bytes) /\ Len(<<>>) = 0
      OBVIOUS
  <2>5. u[k + 1] = u[k] + (-d)
      BY <1>4, <1>6, <2>1, GrowsIs
  <2>6. Len(<<>>) = ((a + d) - a) + (u[k + 1] - u[k])
      BY <1>2, <1>3, <2>4, <2>5
  <2>7. (Len(in) - (a + d)) + (Len(ls) - (k + 1)) < (Len(in) - a) + (Len(ls) - k)
      BY <1>1, <1>2
  <2>8. Written(in, ls, a + d, k + 1) = Written(in, ls, a, k) \o <<>>
      BY <2>2, <2>3, <2>4
  <2> QED BY <2>2, <2>4, <2>6, <2>7, <2>8
<1>7. CASE k < n => a # ls[k + 1].addr
  <2>1. /\ At(in, ls, a + 1, k)
        /\ Written(in, ls, a + 1, k) = Written(in, ls, a, k) \o <<in[a + 1]>> /\ in[a + 1] \in Bytes
      BY <1>1, <1>2, <1>7, WalkCopies
  <2>2. <<in[a + 1]>> \in Seq(Bytes) /\ Len(<<in[a + 1]>>) = 1
      BY <2>1
  <2>3. Len(<<in[a + 1]>>) = ((a + 1) - a) + (u[k] - u[k])
      BY <1>2, <1>3, <2>2
  <2>4. (Len(in) - (a + 1)) + (Len(ls) - k) < (Len(in) - a) + (Len(ls) - k)
      BY <1>1, <1>2
  <2> QED BY <2>1, <2>2, <2>3, <2>4
<1>8. k < n => ls[k + 1].cmd \in {0, 1}
    BY <1>4, LineIs
<1> QED BY <1>5, <1>6, <1>7, <1>8

LEMMA WalkEnds ==
  ASSUME NEW in, NEW ls, Ordered(in, ls), NEW u, Shifted(ls, u), NEW a, NEW k, At(in, ls, a, k)
  PROVE  Remains(in, ls, u, a, k)
<1>1. PICK n \in Nat, l \in Nat : n = Len(ls) /\ l = Len(in)
    BY PiecesAre
<1> DEFINE S == {d \in Nat : \A b, m : (At(in, ls, b, m) /\ (l - b) + (n - m) <= d) => Remains(in, ls, u, b, m)}
<1>2. ASSUME NEW b, NEW m, At(in, ls, b, m), b # l, NEW d \in Nat, (l - b) + (n - m) <= d,
             \A b2, m2 : (At(in, ls, b2, m2) /\ (l - b2) + (n - m2) + 1 <= d) => Remains(in, ls, u, b2, m2)
      PROVE  Remains(in, ls, u, b, m)
  <2>1. PICK b2, m2 : \E x \in Seq(Bytes) :
           /\ At(in, ls, b2, m2) /\ Written(in, ls, b2, m2) = Written(in, ls, b, m) \o x
           /\ Len(x) = (b2 - b) + (u[m2] - u[m])
           /\ (Len(in) - b2) + (Len(ls) - m2) < (Len(in) - b) + (Len(ls) - m)
    <3>1. b # Len(in)
        BY <1>1, <1>2
    <3> QED BY <1>2, <3>1, WalkGoesOn
  <2>2. PICK x \in Seq(Bytes) :
           /\ At(in, ls, b2, m2) /\ Written(in, ls, b2, m2) = Written(in, ls, b, m) \o x
           /\ Len(x) = (b2 - b) + (u[m2] - u[m])
           /\ (l - b2) + (n - m2) < (l - b) + (n - m)
      BY <1>1, <2>1
  <2>3. b \in Nat /\ m \in Nat /\ b2 \in Nat /\ m2 \in Nat /\ b <= l /\ m <= n /\ b2 <= l /\ m2 <= n
    <3>1. b \in 0 .. l /\ m \in 0 .. n /\ b2 \in 0 .. l /\ m2 \in 0 .. n
        BY <1>1, <1>2, <2>2 DEF At
    <3> QED BY <3>1
  <2>4. (l - b2) + (n - m2) + 1 <= d
    <3>1. (l - b2) + (n - m2) < (l - b) + (n - m) /\ (l - b) + (n - m) <= d
        BY <1>2, <2>2
    <3> QED BY <2>3, <3>1
  <2>5. Remains(in, ls, u, b2, m2)
      BY <1>2, <2>2, <2>4
  <2> QED BY <1>2, <2>2, <2>5, RemainsBefore
<1>3. ASSUME NEW b, NEW m, At(in, ls, b, m), b = l PROVE Remains(in, ls, u, b, m)
    BY <1>1, <1>3, RemainsAtTheEnd
<1>4. 0 \in S
  <2>1. ASSUME NEW b, NEW m, At(in, ls, b, m), (l - b) + (n - m) <= 0 PROVE Remains(in, ls, u, b, m)
    <3>1. b \in 0 .. l /\ m \in 0 .. n
        BY <1>1, <2>1 DEF At
    <3>2. b = l
        BY <2>1, <3>1
    <3> QED BY <1>3, <2>1, <3>2
  <2> QED BY <2>1
<1>5. ASSUME NEW d \in Nat, d \in S PROVE d + 1 \in S
  <2>1. ASSUME NEW b, NEW m, At(in, ls, b, m), (l - b) + (n - m) <= d + 1 PROVE Remains(in, ls, u, b, m)
    <3>1. ASSUME NEW b2, NEW m2, At(in, ls, b2, m2), (l - b2) + (n - m2) + 1 <= d + 1
          PROVE  Remains(in, ls, u, b2, m2)
      <4>1. b2 \in 0 .. l /\ m2 \in 0 .. n
          BY <1>1, <3>1 DEF At
      <4>2. (l - b2) + (n - m2) <= d
          BY <3>1, <4>1
      <4> QED BY <1>5, <3>1, <4>2
    <3>2. CASE b = l
        BY <1>3, <2>1, <3>2
    <3>3. CASE b # l
      <4>1. d + 1 \in Nat
          OBVIOUS
      <4> QED BY <1>2, <2>1, <3>1, <3>3, <4>1
    <3> QED BY <3>2, <3>3
  <2>2. d + 1 \in Nat
      OBVIOUS
  <2> QED BY <2>1, <2>2
<1>6. (l - a) + (n - k) \in S
  <2>1. a \in 0 .. l /\ k \in 0 .. n
      BY <1>1 DEF At
  <2>2. (l - a) + (n - k) \in Nat
      BY <2>1
  <2> HIDE DEF S
  <2> QED BY <1>4, <1>5, <2>2, SetInduction
<1>7. a \in 0 .. l /\ k \in 0 .. n
    BY <1>1 DEF At
<1>8. (l - a) + (n - k) <= (l - a) + (n - k)
    BY <1>7
<1> QED BY <1>6, <1>8

\* How much is written and how long the output will be.
LEMMA WrittenLength ==
  ASSUME NEW in, NEW ls, Ordered(in, ls), NEW u, Shifted(ls, u), NEW a, NEW k, At(in, ls, a, k)
  PROVE  /\ Patched(in, ls) \in Seq(Bytes) /\ Len(Patched(in, ls)) = Len(in) + u[Len(ls)]
         /\ Len(Written(in, ls, a, k)) = a + u[k]
         /\ \A i \in 1 .. Len(Written(in, ls, a, k)) :
              i \in 1 .. Len(Patched(in, ls)) /\ Written(in, ls, a, k)[i] = Patched(in, ls)[i]
<1>1. PICK n \in Nat, l \in Nat : n = Len(ls) /\ l = Len(in)
    BY PiecesAre
<1>2. a \in 0 .. l /\ k \in 0 .. n /\ a \in Nat /\ 0 \in 0 .. n /\ n \in 0 .. n
    BY <1>1 DEF At
<1>3. PICK c \in Int, e \in Int : c = u[k] /\ e = u[n]
    BY <1>1, <1>2 DEF Shifted
<1>4. u[0] = 0
    BY DEF Shifted
<1>5. At(in, ls, 0, 0)
  <2>1. ASSUME 0 < n PROVE 0 <= ls[0 + 1].addr
    <3>1. 1 \in 1 .. Len(ls)
        BY <1>1, <2>1
    <3>2. ls[1].addr \in Nat
        BY <3>1, LineIs
    <3> QED BY <3>2
  <2>2. 0 \in 0 .. l
      OBVIOUS
  <2> QED BY <1>1, <1>2, <2>1, <2>2 DEF At
<1>6. Written(in, ls, 0, 0) = <<>>
  <2>1. Pieces(in, ls) \in Seq(Seq(Bytes)) /\ Adds(ls, 0) \in Seq(Seq(Bytes))
        /\ 0 \in 0 .. Len(Pieces(in, ls)) /\ 0 \in 0 .. Len(Adds(ls, 0))
      BY PiecesAre
  <2>2. Joined(Pieces(in, ls), 0) = <<>> /\ Joined(Adds(ls, 0), 0) = <<>>
      BY <2>1, JoinedIs
  <2>3. <<>> \o <<>> = <<>>
      OBVIOUS
  <2> QED BY <2>2, <2>3 DEF Written
<1>7. PICK all \in Seq(Bytes) : Patched(in, ls) = <<>> \o all /\ Len(all) = (l - 0) + (e - 0)
  <2>1. Remains(in, ls, u, 0, 0)
      BY <1>5, WalkEnds
  <2> QED BY <1>1, <1>3, <1>4, <1>6, <2>1 DEF Remains
<1>8. <<>> \o all = all /\ (l - 0) + (e - 0) = l + e
    OBVIOUS
<1>9. PICK v \in Seq(Bytes) : v = Written(in, ls, a, k)
  <2>1. Written(in, ls, a, k) \in Seq(Bytes)
      BY WrittenIs
  <2> QED BY <2>1
<1>10. PICK r \in Seq(Bytes) : Patched(in, ls) = v \o r /\ Len(r) = (l - a) + (e - c)
  <2>1. Remains(in, ls, u, a, k)
      BY WalkEnds
  <2> QED BY <1>1, <1>3, <1>9, <2>1 DEF Remains
<1>11. Len(v \o r) = Len(v) + Len(r) /\ Len(v) \in Nat /\ \A i \in 1 .. Len(v) : (v \o r)[i] = v[i]
    OBVIOUS
<1>12. Len(all) = l + e /\ all = v \o r
    BY <1>7, <1>8, <1>10
<1>13. Len(v) + ((l - a) + (e - c)) = l + e
    BY <1>10, <1>11, <1>12
<1>14. Len(v) = a + c
    BY <1>2, <1>11, <1>13
<1>15. ASSUME NEW i \in 1 .. Len(v) PROVE i \in 1 .. Len(all) /\ v[i] = all[i]
  <2>1. Len(all) = Len(v) + Len(r) /\ Len(r) \in Nat
      BY <1>11, <1>12
  <2> QED BY <1>11, <1>12, <2>1
<1> QED BY <1>1, <1>3, <1>7, <1>8, <1>9, <1>12, <1>14, <1>15

----------------------------------------------------------------------------
(* bipatch: reading and applying the lines                                 *)

LEMMA WalkStarts ==
  ASSUME NEW in, NEW ls, Ordered(in, ls)
  PROVE  At(in, ls, 0, 0) /\ Written(in, ls, 0, 0) = <<>>
<1>1. PICK n \in Nat, l \in Nat : n = Len(ls) /\ l = Len(in)
    BY PiecesAre
<1>2. At(in, ls, 0, 0)
  <2>1. ASSUME 0 < n PROVE 0 <= ls[0 + 1].addr
    <3>1. 1 \in 1 .. Len(ls)
        BY <1>1, <2>1
    <3>2. ls[1].addr \in Nat
        BY <3>1, LineIs
    <3> QED BY <3>2
  <2>2. 0 \in 0 .. l /\ 0 \in 0 .. n
      OBVIOUS
  <2> QED BY <1>1, <2>1, <2>2 DEF At
<1>3. Written(in, ls, 0, 0) = <<>>
  <2>1. Pieces(in, ls) \in Seq(Seq(Bytes)) /\ Adds(ls, 0) \in Seq(Seq(Bytes))
        /\ 0 \in 0 .. Len(Pieces(in, ls)) /\ 0 \in 0 .. Len(Adds(ls, 0))
      BY PiecesAre
  <2>2. Joined(Pieces(in, ls), 0) = <<>> /\ Joined(Adds(ls, 0), 0) = <<>>
      BY <2>1, JoinedIs
  <2>3. <<>> \o <<>> = <<>>
      OBVIOUS
  <2> QED BY <2>2, <2>3 DEF Written
<1> QED BY <1>2, <1>3

\* The lines of a patch that are to be applied, and those that are counted: all
\* of a good one; the counted lines of a broken one are those in front of the
\* error.
AppliedOf(w) == IF w \in Good THEN w.patch ELSE Entered(w.patch)
KeptOf(w) == IF w \in Good THEN w.patch ELSE Front(w.patch)
Applied == AppliedOf(world)
Kept == KeptOf(world)

LEMMA OrderlyIs ==
  ASSUME NEW in \in Seq(Bytes), NEW ls \in Seq(LineRows), Orderly(in, ls),
         \A k \in 1 .. Len(ls) : IF ls[k].cmd = 1 THEN ls[k].len = Len(ls[k].bytes) ELSE ls[k].bytes = <<>>,
         \A k \in 1 .. Len(ls) : ls[k].status = "ok"
  PROVE  Ordered(in, ls) /\ ls # <<>> /\ Len(ls) < EntriesMax
<1>1. DOMAIN ls = 1 .. Len(ls)
    OBVIOUS
<1> QED BY <1>1 DEF Orderly, Ordered

\* The lines in front of the last.
LEMMA FrontIs ==
  ASSUME NEW ls \in Seq(LineRows), ls # <<>>
  PROVE  /\ Front(ls) \in Seq(LineRows) /\ Len(Front(ls)) \in Nat /\ Len(ls) = Len(Front(ls)) + 1
         /\ Last(ls) = ls[Len(ls)] /\ Last(ls) \in LineRows
         /\ \A k \in 1 .. Len(Front(ls)) : Front(ls)[k] = ls[k]
<1>1. PICK n \in Nat : n = Len(ls) /\ n > 0
    OBVIOUS
<1>2. PICK m \in Nat : n = m + 1
  <2>1. n - 1 \in Nat /\ n = (n - 1) + 1
      BY <1>1
  <2> QED BY <2>1
<1>3. Front(ls) = SubSeq(ls, 1, m)
  <2>1. (m + 1) - 1 = m
      OBVIOUS
  <2> QED BY <1>1, <1>2, <2>1 DEF Front
<1>4. m <= Len(ls)
    BY <1>1, <1>2
<1>5. n \in 1 .. Len(ls)
    BY <1>1
<1>6. PICK f \in Seq(LineRows) : f = Front(ls) /\ Len(f) = m /\ \A k \in 1 .. m : f[k] = ls[k]
    BY <1>3, <1>4
<1>7. Last(ls) = ls[n] /\ ls[n] \in LineRows
    BY <1>1, <1>5 DEF Last
<1> QED BY <1>1, <1>2, <1>6, <1>7

LEMMA BegunIs ==
  ASSUME NEW l \in LineRows
  PROVE  /\ Begun(l) \in Seq(LineRows) /\ Len(Begun(l)) \in {0, 1}
         /\ Len(Begun(l)) = 1 =>
              /\ l.cmd = 1 /\ l.status \in {"data", "open"}
              /\ Begun(l)[1] = [cmd |-> 1, addr |-> l.addr, bytes |-> l.bytes, len |-> Len(l.bytes), status |-> "ok"]
         /\ Len(Begun(l)) = 0 => ~ (l.cmd = 1 /\ l.status \in {"data", "open"})
<1>1. l.addr \in Nat /\ l.bytes \in Seq(Bytes) /\ Len(l.bytes) \in Nat
    BY DEF LineRows
<1>2. PICK i : i = [cmd |-> 1, addr |-> l.addr, bytes |-> l.bytes, len |-> Len(l.bytes), status |-> "ok"]
    OBVIOUS
<1>3. i \in LineRows
  <2>1. PICK a \in Nat, b \in Seq(Bytes), n \in Nat : a = l.addr /\ b = l.bytes /\ n = Len(l.bytes)
      BY <1>1
  <2>2. i = [cmd |-> 1, addr |-> a, bytes |-> b, len |-> n, status |-> "ok"]
      BY <1>2, <2>1
  <2> QED BY <2>2 DEF LineRows
<1>4. CASE l.cmd = 1 /\ l.status \in {"data", "open"}
  <2>1. Begun(l) = <<i>>
      BY <1>2, <1>4 DEF Begun, Insert
  <2>2. <<i>> \in Seq(LineRows) /\ Len(<<i>>) = 1 /\ <<i>>[1] = i
      BY <1>3
  <2> QED BY <1>2, <1>4, <2>1, <2>2
<1>5. CASE ~ (l.cmd = 1 /\ l.status \in {"data", "open"})
  <2>1. Begun(l) = <<>>
      BY <1>5 DEF Begun
  <2>2. <<>> \in Seq(LineRows) /\ Len(<<>>) = 0
      OBVIOUS
  <2> QED BY <1>5, <2>1, <2>2
<1> QED BY <1>4, <1>5

\* The line at fault has no entry among those applied: it leaves nothing.
Leaves(l) == Entry(l).len = 0 /\ Entry(l).bytes = <<>>

LEMMA AppliedIs ==
  ASSUME NEW w \in Good \cup CutOff
  PROVE  /\ w \in Worlds /\ w.patch \in Seq(LineRows)
         /\ Ordered(w.input, AppliedOf(w)) /\ Ordered(w.input, KeptOf(w))
         /\ Len(AppliedOf(w)) <= Len(w.patch) /\ Len(w.patch) <= Len(AppliedOf(w)) + 1
         /\ Len(KeptOf(w)) <= Len(AppliedOf(w)) /\ Len(w.patch) <= Len(KeptOf(w)) + 1
         /\ 0 < Len(w.patch) /\ Len(w.patch) < EntriesMax
         /\ \A k \in 1 .. Len(KeptOf(w)) : w.patch[k] = KeptOf(w)[k] /\ AppliedOf(w)[k] = KeptOf(w)[k]
         /\ \A k \in 1 .. Len(w.patch) : k > Len(KeptOf(w)) => w.patch[k].status # "ok" /\ Grows(w.patch[k]) = 0
         /\ \A k \in 1 .. Len(w.patch) : k > Len(AppliedOf(w)) => Leaves(w.patch[k])
         /\ \A k \in 1 .. Len(AppliedOf(w)) :
              LET l == AppliedOf(w)[k] e == Entry(w.patch[k]) IN
              e.cmd = l.cmd /\ e.addr = l.addr /\ e.len = l.len /\ e.bytes = l.bytes
<1>1. w \in Worlds
    BY DEF Good, Readable, CutOff
<1>2. /\ w.input \in Seq(Bytes) /\ w.patch \in Seq(LineRows)
      /\ \A k \in DOMAIN w.patch : IF w.patch[k].cmd = 1 THEN w.patch[k].len = Len(w.patch[k].bytes) ELSE w.patch[k].bytes = <<>>
    BY <1>1, WorldsAssumption
<1>3. PICK n \in Nat : n = Len(w.patch) /\ DOMAIN w.patch = 1 .. n
    BY <1>2
<1>4. ASSUME NEW l, l.status = "ok"
      PROVE  Entry(l).cmd = l.cmd /\ Entry(l).addr = l.addr /\ Entry(l).len = l.len /\ Entry(l).bytes = l.bytes
  <2>1. Entry(l) = [cmd |-> l.cmd, addr |-> l.addr, len |-> l.len, bytes |-> l.bytes]
      BY <1>4 DEF Entry
  <2> QED BY <2>1
<1>5. CASE w \in Good
  <2>1. AppliedOf(w) = w.patch /\ KeptOf(w) = w.patch
      BY <1>5 DEF AppliedOf, KeptOf
  <2>2. Orderly(w.input, w.patch) /\ \A k \in DOMAIN w.patch : w.patch[k].status = "ok"
      BY <1>5 DEF Good, Readable
  <2>3. Ordered(w.input, w.patch) /\ w.patch # <<>> /\ Len(w.patch) < EntriesMax
      BY <1>2, <1>3, <2>2, OrderlyIs
  <2>4. 0 < n
      BY <1>2, <1>3, <2>3
  <2>5. n <= n /\ n <= n + 1 /\ \A k \in 1 .. n : ~ (k > n)
      OBVIOUS
  <2> QED BY <1>1, <1>2, <1>3, <1>4, <2>1, <2>2, <2>3, <2>4, <2>5
<1>6. CASE w \notin Good
  <2>1. AppliedOf(w) = Entered(w.patch) /\ KeptOf(w) = Front(w.patch)
      BY <1>6 DEF AppliedOf, KeptOf
  <2>2. /\ w.patch # <<>> /\ Orderly(w.input, Entered(w.patch)) /\ Len(w.patch) < EntriesMax
        /\ ~ Counted(Last(w.patch))
        /\ \A k \in 1 .. Len(w.patch) - 1 : w.patch[k].status = "ok"
      BY <1>6 DEF CutOff
  <2>3. PICK f \in Seq(LineRows), m \in Nat :
          /\ f = Front(w.patch) /\ m = Len(f) /\ n = m + 1 /\ \A k \in 1 .. m : f[k] = w.patch[k]
    <3>1. PICK f \in Seq(LineRows) : f = Front(w.patch)
        BY <1>2, <2>2, FrontIs
    <3> QED BY <1>2, <1>3, <2>2, <3>1, FrontIs
  <2>4. PICK l \in LineRows : l = Last(w.patch) /\ l = w.patch[n]
      BY <1>2, <1>3, <2>2, FrontIs
  <2>5. PICK g \in Seq(LineRows) : g = Begun(l)
      BY BegunIs
  <2>6. PICK ls \in Seq(LineRows) : ls = f \o g
    <3>1. f \o g \in Seq(LineRows)
        BY ConcatProperties
    <3> QED BY <3>1
  <2>7. ls = Entered(w.patch)
      BY <2>3, <2>4, <2>5, <2>6 DEF Entered
  <2>8. /\ Len(ls) = m + Len(g) /\ \A k \in 1 .. m : ls[k] = f[k]
        /\ Len(g) = 1 => ls[m + 1] = g[1]
      BY <2>3, <2>6
  <2>9. Len(g) = 0 \/ Len(g) = 1
      BY <2>5, BegunIs
  <2>10. \A k \in 1 .. n : k \in 1 .. m \/ k = n
      BY <2>3
  <2>11. \A k \in 1 .. m : k \in DOMAIN w.patch /\ k \in 1 .. Len(w.patch) - 1 /\ w.patch[k].status = "ok"
      BY <1>3, <2>2, <2>3
  <2>12. l.cmd \in {0, 1} /\ l.len \in Nat /\ (IF l.cmd = 1 THEN l.len = Len(l.bytes) ELSE l.bytes = <<>>)
    <3>1. n \in DOMAIN w.patch
        BY <1>3, <2>3
    <3>2. l.cmd \in {0, 1} /\ l.len \in Nat
        BY DEF LineRows
    <3> QED BY <1>2, <2>4, <3>1, <3>2
  <2>13. ASSUME Len(g) = 1
         PROVE  /\ l.cmd = 1 /\ l.status \in {"data", "open"} /\ g[1].cmd = 1 /\ g[1].addr = l.addr
                /\ g[1].bytes = l.bytes /\ g[1].len = l.len /\ g[1].status = "ok" /\ g[1].len = Len(g[1].bytes)
    <3>1. /\ l.cmd = 1 /\ l.status \in {"data", "open"}
          /\ g[1] = [cmd |-> 1, addr |-> l.addr, bytes |-> l.bytes, len |-> Len(l.bytes), status |-> "ok"]
        BY <2>5, <2>13, BegunIs
    <3> QED BY <2>12, <3>1
  <2>20. /\ Len(ls) <= n /\ n <= Len(ls) + 1 /\ m <= Len(ls) /\ n <= m + 1 /\ 0 < n
         /\ \A k \in 1 .. n : k > Len(ls) => k = n /\ Len(g) = 0
         /\ \A k \in 1 .. n : k > m => k = n
         /\ \A k \in 1 .. Len(ls) : k \in 1 .. m \/ (k = m + 1 /\ k = n /\ Len(g) = 1)
    <3>1. PICK x \in Nat, y \in Nat : x = Len(ls) /\ y = Len(g) /\ x = m + y /\ (y = 0 \/ y = 1)
      <4>1. Len(g) \in Nat /\ Len(ls) \in Nat
          OBVIOUS
      <4> QED BY <2>8, <2>9, <4>1
    <3>2. n = m + 1
        BY <2>3
    <3>3. CASE y = 0
      <4>1. x = m
          BY <3>1, <3>3
      <4> QED BY <3>1, <3>2, <3>3, <4>1
    <3>4. CASE y = 1
      <4>1. x = m + 1
          BY <3>1, <3>4
      <4>2. \A k \in 1 .. n : ~ (k > m + 1)
          BY <3>2
      <4> QED BY <3>1, <3>2, <3>4, <4>1, <4>2
    <3> QED BY <3>1, <3>3, <3>4
  <2>14. /\ \A k \in 1 .. Len(ls) : IF ls[k].cmd = 1 THEN ls[k].len = Len(ls[k].bytes) ELSE ls[k].bytes = <<>>
         /\ \A k \in 1 .. Len(ls) : ls[k].status = "ok"
    <3>1. \A k \in 1 .. Len(ls) : k \in 1 .. m \/ (k = m + 1 /\ Len(g) = 1)
        BY <2>20
    <3>2. \A k \in 1 .. m : /\ IF ls[k].cmd = 1 THEN ls[k].len = Len(ls[k].bytes) ELSE ls[k].bytes = <<>>
                            /\ ls[k].status = "ok"
        BY <1>2, <2>3, <2>8, <2>11
    <3>3. Len(g) = 1 => ls[m + 1].cmd = 1 /\ ls[m + 1].len = Len(ls[m + 1].bytes) /\ ls[m + 1].status = "ok"
        BY <2>8, <2>13
    <3> QED BY <3>1, <3>2, <3>3
  <2>15. Ordered(w.input, ls)
      BY <1>2, <2>2, <2>7, <2>14, OrderlyIs
  <2>16. Ordered(w.input, f)
    <3>1. \A k \in 1 .. m : k \in 1 .. Len(ls)
        BY <2>3, <2>8, <2>9
    <3>2. \A k \in 1 .. m - 1 : k \in 1 .. m /\ k + 1 \in 1 .. m /\ k \in 1 .. Len(ls) - 1
        BY <2>3, <2>8, <2>9
    <3> QED BY <2>3, <2>8, <2>15, <3>1, <3>2 DEF Ordered
  <2>17. Grows(l) = 0 /\ l.status # "ok"
      BY <2>2, <2>4 DEF Grows, Counted
  <2>18. ASSUME Len(g) = 0 PROVE Leaves(l)
    <3>1. ~ (l.cmd = 1 /\ l.status \in {"data", "open"})
        BY <2>5, <2>18, BegunIs
    <3>2. CASE l.status \in {"cmd", "addr"} \/ (l.status = "data" /\ l.cmd = 0)
        BY <3>2 DEF Entry, Leaves
    <3>3. CASE l.status \notin {"cmd", "addr"} /\ ~ (l.status = "data" /\ l.cmd = 0)
      <4>1. l.status \in {"ok", "cmd", "addr", "data", "open"} /\ ~ Counted(l)
          BY <2>2, <2>4 DEF LineRows
      <4> QED BY <2>12, <3>1, <3>3, <4>1 DEF Counted
    <3> QED BY <3>2, <3>3
  <2>19. Len(g) = 1 => /\ Entry(l).cmd = g[1].cmd /\ Entry(l).addr = g[1].addr
                       /\ Entry(l).len = g[1].len /\ Entry(l).bytes = g[1].bytes
    <3> SUFFICES ASSUME Len(g) = 1
                 PROVE  /\ Entry(l).cmd = g[1].cmd /\ Entry(l).addr = g[1].addr
                        /\ Entry(l).len = g[1].len /\ Entry(l).bytes = g[1].bytes
        OBVIOUS
    <3>1. Entry(l) = [cmd |-> l.cmd, addr |-> l.addr, len |-> l.len, bytes |-> l.bytes]
        BY <2>13 DEF Entry
    <3> QED BY <2>13, <3>1
  <2>21. \A k \in 1 .. Len(ls) :
           /\ Entry(w.patch[k]).cmd = ls[k].cmd /\ Entry(w.patch[k]).addr = ls[k].addr
           /\ Entry(w.patch[k]).len = ls[k].len /\ Entry(w.patch[k]).bytes = ls[k].bytes
    <3> SUFFICES ASSUME NEW k \in 1 .. Len(ls)
                 PROVE  /\ Entry(w.patch[k]).cmd = ls[k].cmd /\ Entry(w.patch[k]).addr = ls[k].addr
                        /\ Entry(w.patch[k]).len = ls[k].len /\ Entry(w.patch[k]).bytes = ls[k].bytes
        OBVIOUS
    <3>1. CASE k \in 1 .. m
        BY <1>4, <2>3, <2>8, <2>11, <3>1
    <3>2. CASE k = m + 1 /\ k = n /\ Len(g) = 1
        BY <2>4, <2>8, <2>19, <3>2
    <3> QED BY <2>20, <3>1, <3>2
  <2>22. \A k \in 1 .. n : k > m => w.patch[k].status # "ok" /\ Grows(w.patch[k]) = 0
      BY <2>4, <2>17, <2>20
  <2>23. \A k \in 1 .. n : k > Len(ls) => Leaves(w.patch[k])
      BY <2>4, <2>18, <2>20
  <2>24. \A k \in 1 .. m : w.patch[k] = f[k] /\ ls[k] = f[k]
      BY <2>3, <2>8
  <2>25. AppliedOf(w) = ls /\ KeptOf(w) = f
      BY <2>1, <2>3, <2>7
  <2> QED BY <1>1, <1>2, <1>3, <2>2, <2>3, <2>15, <2>16, <2>20, <2>21, <2>22, <2>23, <2>24, <2>25
<1> QED BY <1>5, <1>6

\* An entry applied and not counted inserts.
LEMMA MoreIsInserted ==
  ASSUME NEW w \in Good \cup CutOff, Len(AppliedOf(w)) = Len(KeptOf(w)) + 1
  PROVE  AppliedOf(w)[Len(AppliedOf(w))].cmd = 1
<1>1. PICK m \in Nat : m = Len(KeptOf(w))
    BY AppliedIs, PiecesAre
<1>2. w \notin Good
  <2>1. w \in Good => AppliedOf(w) = KeptOf(w)
      BY DEF AppliedOf, KeptOf
  <2>2. m # m + 1
      OBVIOUS
  <2> QED BY <1>1, <2>1, <2>2
<1>3. w \in CutOff /\ w.patch # <<>> /\ w.patch \in Seq(LineRows)
    BY <1>2, AppliedIs DEF CutOff
<1>4. AppliedOf(w) = Front(w.patch) \o Begun(Last(w.patch)) /\ KeptOf(w) = Front(w.patch)
    BY <1>2 DEF AppliedOf, KeptOf, Entered
<1>5. PICK f \in Seq(LineRows), g \in Seq(LineRows) :
        f = Front(w.patch) /\ g = Begun(Last(w.patch))
    BY <1>3, FrontIs, BegunIs
<1>6. Len(g) = 1 => g[1].cmd = 1
  <2>1. PICK l \in LineRows : l = Last(w.patch)
      BY <1>3, FrontIs
  <2>2. Len(Begun(l)) = 1 => Begun(l)[1].cmd = 1
    <3> SUFFICES ASSUME Len(Begun(l)) = 1 PROVE Begun(l)[1].cmd = 1
        OBVIOUS
    <3>1. Begun(l)[1] = [cmd |-> 1, addr |-> l.addr, bytes |-> l.bytes, len |-> Len(l.bytes), status |-> "ok"]
        BY BegunIs
    <3> QED BY <3>1
  <2>3. g = Begun(l)
      BY <1>5, <2>1
  <2> QED BY <2>2, <2>3
<1>7. PICK x \in Nat, y \in Nat : x = Len(f) /\ y = Len(g)
    OBVIOUS
<1>8. x = m /\ x + y = m + 1 /\ Len(f \o g) = m + 1 /\ (f \o g)[x + 1] = g[1]
  <2>1. Len(f \o g) = x + y
      BY <1>7, ConcatProperties
  <2>2. x = m /\ x + y = m + 1
      BY <1>1, <1>4, <1>5, <1>7, <2>1
  <2>3. x + 1 \in 1 .. Len(f) + Len(g) /\ ~ (x + 1 <= Len(f)) /\ (x + 1) - Len(f) = 1
      BY <1>7, <2>2
  <2>4. (f \o g)[x + 1] = g[1]
      BY <2>3, ConcatProperties
  <2> QED BY <2>1, <2>2, <2>4
<1>9. Len(g) = 1
    BY <1>7, <1>8
<1>10. AppliedOf(w) = f \o g
    BY <1>4, <1>5
<1> QED BY <1>6, <1>7, <1>8, <1>9, <1>10

LEMMA ShiftExists ==
  ASSUME NEW ls \in Seq(LineRows)
  PROVE  \E u : Shifted(ls, u)
<1>1. PICK n \in Nat : n = Len(ls)
    OBVIOUS
<1>2. ASSUME NEW k \in 1 .. n PROVE Grows(ls[k]) \in Int
  <2>1. ls[k] \in LineRows
      BY <1>1
  <2>2. ls[k].len \in Nat
      BY <2>1 DEF LineRows
  <2> QED BY <2>2 DEF Grows
<1> DEFINE step == [k \in 1 .. n |-> [v \in Int |-> v + Grows(ls[k])]]
<1>3. step \in [1 .. n -> [Int -> Int]]
    BY <1>2
<1>4. PICK u : Stepwise(step, 0, u, Int, n)
  <2> HIDE DEF step
  <2>1. 0 \in Int
      OBVIOUS
  <2> QED BY <1>3, <2>1, StepwiseExists
<1>5. \A k \in 1 .. n : u[k] = u[k - 1] + Grows(ls[k])
  <2> SUFFICES ASSUME NEW k \in 1 .. n PROVE u[k] = u[k - 1] + Grows(ls[k])
      OBVIOUS
  <2>1. u[k - 1] \in Int
      BY <1>4 DEF Stepwise
  <2>2. u[k] = step[k][u[k - 1]]
      BY <1>4 DEF Stepwise
  <2> QED BY <2>1, <2>2
<1>6. u[0] = 0 /\ \A k \in 0 .. n : u[k] \in Int
    BY <1>4 DEF Stepwise
<1> QED BY <1>1, <1>5, <1>6 DEF Shifted

\* The lines read are the entries, and their sizes are added up; reading ends
\* at the end or at a line that is not read to its end.
ReadInv ==
  /\ world \in Worlds
  /\ line \in Nat \ {0} /\ line - 1 <= Len(world.patch)
  /\ Len(entries) = line - 1 /\ \A k \in 1 .. line - 1 : entries[k] = Entry(world.patch[k])
  /\ entries \in Seq([cmd : {0, 1}, addr : Nat, bytes : Seq(Bytes), len : Nat])
  /\ \E u : Shifted(world.patch, u) /\ updown = u[line - 1]
  /\ phase = "read" => unmapped = "nothing" /\ \A k \in 1 .. line - 1 : world.patch[k].status = "ok"
  /\ phase \in {"read", "open"} => p = 0 /\ q = 0 /\ pf = 0 /\ mem = <<>> /\ differs = <<>>
  /\ phase \in {"open", "apply", "diff", "done"} =>
       /\ line - 1 = Len(world.patch) \/ (line > 1 /\ world.patch[line - 1].status # "ok")
       /\ unmapped = "nothing" \/ line - 1 \in {0, EntriesMax}
  /\ phase \in {"apply", "diff", "done"} => outSize = Len(Input) + updown /\ outSize > 0
  /\ phase \in {"read", "open", "apply", "diff", "done", "stuck"}

LEMMA EntryType ==
  ASSUME NEW l \in LineRows
  PROVE  Entry(l) \in [cmd : {0, 1}, addr : Nat, bytes : Seq(Bytes), len : Nat]
<1>1. l.cmd \in {0, 1} /\ l.addr \in Nat /\ l.len \in Nat /\ l.bytes \in Seq(Bytes)
    BY DEF LineRows
<1>2. 0 \in {0, 1} /\ 0 \in Nat /\ <<>> \in Seq(Bytes)
    OBVIOUS
<1> QED BY <1>1, <1>2 DEF Entry

LEMMA PatchIs ==
  ASSUME world \in Worlds
  PROVE  /\ world.patch \in Seq(LineRows) /\ Len(world.patch) \in Nat /\ Input \in Seq(Bytes) /\ Len(Input) \in Nat
BY WorldsAssumption DEF Input

LEMMA ReadStarts == PatchInit => ReadInv
<1> SUFFICES ASSUME PatchInit PROVE ReadInv
    OBVIOUS
<1> USE DEF PatchInit
<1>1. world \in Worlds /\ Len(world.patch) \in Nat /\ world.patch \in Seq(LineRows)
    BY PatchIs
<1>2. line = 1 /\ line - 1 = 0 /\ line \in Nat \ {0} /\ Len(entries) = 0 /\ 1 .. line - 1 = {}
    OBVIOUS
<1>3. PICK u : Shifted(world.patch, u)
    BY <1>1, ShiftExists
<1>4. updown = u[line - 1]
    BY <1>2, <1>3 DEF Shifted
<1>5. entries \in Seq([cmd : {0, 1}, addr : Nat, bytes : Seq(Bytes), len : Nat])
    OBVIOUS
<1>6. line - 1 <= Len(world.patch) /\ \A k \in 1 .. line - 1 : entries[k] = Entry(world.patch[k]) /\ world.patch[k].status = "ok"
    BY <1>1, <1>2
<1> QED BY <1>1, <1>2, <1>3, <1>4, <1>5, <1>6 DEF ReadInv

LEMMA ReadGoesOn ==
  ASSUME ReadInv, ReadLine
  PROVE  ReadInv'
<1>1. /\ world' = world /\ UNCHANGED <<p, q, pf, mem, outSize, differs>>
      /\ phase = "read" /\ line <= Len(world.patch)
    BY DEF ReadLine, applyVars
<1>2. /\ world.patch \in Seq(LineRows) /\ Len(world.patch) \in Nat /\ line \in Nat \ {0}
      /\ line \in 1 .. Len(world.patch)
    BY <1>1, PatchIs DEF ReadInv
<1>3. CASE phase' = "stuck" /\ UNCHANGED readVars
    BY <1>1, <1>3 DEF ReadInv, readVars
<1>4. CASE /\ entries' = Append(entries, Entry(Line)) /\ updown' = updown + Grows(Line)
           /\ line' = line + 1 /\ unmapped' = unmapped
           /\ phase' = IF Line.status = "ok" THEN "read" ELSE "open"
  <2>1. PICK n \in Nat : n = line - 1 /\ line = n + 1 /\ n + 1 <= Len(world.patch)
    <3>1. line - 1 \in Nat /\ line = (line - 1) + 1
        BY <1>2
    <3> QED BY <1>1, <3>1
  <2>2. line' - 1 = n + 1 /\ line' \in Nat \ {0} /\ line' > 1
      BY <1>4, <2>1
  <2>3. Line \in LineRows /\ Line = world.patch[n + 1]
      BY <1>2, <2>1 DEF Line
  <2>4. PICK e \in [cmd : {0, 1}, addr : Nat, bytes : Seq(Bytes), len : Nat] : e = Entry(Line)
      BY <2>3, EntryType
  <2>5. PICK es \in Seq([cmd : {0, 1}, addr : Nat, bytes : Seq(Bytes), len : Nat]) :
          es = entries /\ Len(es) = n /\ \A k \in 1 .. n : es[k] = Entry(world.patch[k])
      BY <2>1 DEF ReadInv
  <2>6. /\ Append(es, e) \in Seq([cmd : {0, 1}, addr : Nat, bytes : Seq(Bytes), len : Nat])
        /\ Len(Append(es, e)) = n + 1 /\ Append(es, e)[n + 1] = e /\ \A k \in 1 .. n : Append(es, e)[k] = es[k]
      BY <2>5
  <2>7. \A k \in 1 .. n + 1 : k = n + 1 \/ k \in 1 .. n
      OBVIOUS
  <2>8. \A k \in 1 .. n + 1 : Append(es, e)[k] = Entry(world.patch[k])
      BY <2>3, <2>4, <2>5, <2>6, <2>7
  <2>9. \E u : Shifted(world.patch, u) /\ updown' = u[n + 1]
    <3>1. PICK u : Shifted(world.patch, u) /\ updown = u[n]
        BY <2>1 DEF ReadInv
    <3>2. n + 1 \in 1 .. Len(world.patch) /\ (n + 1) - 1 = n
        BY <2>1
    <3>3. u[n + 1] = u[n] + Grows(world.patch[n + 1])
        BY <3>1, <3>2 DEF Shifted
    <3> QED BY <1>4, <2>3, <3>1, <3>3
  <2>10. /\ phase' = "read" => \A k \in 1 .. n + 1 : world.patch[k].status = "ok"
         /\ phase' # "read" => phase' = "open" /\ world.patch[n + 1].status # "ok"
         /\ phase' \in {"read", "open"}
    <3>1. \A k \in 1 .. n : world.patch[k].status = "ok"
        BY <1>1, <2>1 DEF ReadInv
    <3> QED BY <1>4, <2>3, <2>7, <3>1
  <2>11. unmapped' = "nothing" /\ p' = 0 /\ q' = 0 /\ pf' = 0 /\ mem' = <<>> /\ differs' = <<>>
      BY <1>1, <1>4 DEF ReadInv
  <2>12. world' \in Worlds /\ n + 1 <= Len(world'.patch) /\ world'.patch = world.patch
      BY <1>1, <2>1 DEF ReadInv
  <2>13. entries' = Append(es, e)
      BY <1>4, <2>4, <2>5
  <2> QED BY <2>2, <2>6, <2>8, <2>9, <2>10, <2>11, <2>12, <2>13 DEF ReadInv
<1> QED BY <1>3, <1>4 DEF ReadLine, Stuck

LEMMA ReadStep ==
  ASSUME ReadInv, [PatchNext]_patchVars
  PROVE  ReadInv'
<1>1. CASE ReadLine
    BY <1>1, ReadGoesOn
<1>2. CASE ReadEnds
  <2>1. line \in Nat \ {0} /\ line - 1 <= Len(world.patch) /\ Len(world.patch) \in Nat /\ line > Len(world.patch)
      BY <1>2, PatchIs DEF ReadInv, ReadEnds
  <2>2. line - 1 = Len(world.patch)
      BY <2>1
  <2>3. entries = <<>> => line - 1 = 0
    <3>1. Len(<<>>) = 0
        OBVIOUS
    <3> QED BY <3>1 DEF ReadInv
  <2>4. unmapped' = "nothing" \/ line - 1 \in {0, EntriesMax}
    <3>1. unmapped' = "nothing" \/ entries = <<>> \/ Len(entries) = EntriesMax
        BY <1>2 DEF ReadEnds
    <3> QED BY <2>3, <3>1 DEF ReadInv
  <2> QED BY <1>2, <2>2, <2>4 DEF ReadInv, ReadEnds, applyVars
<1>3. CASE map_output_file
  <2>1. /\ phase = "open" /\ UNCHANGED <<world, line, entries, updown, unmapped, p, q, pf, mem, differs>>
        /\ phase' \in {"apply", "stuck"}
        /\ phase' = "apply" => outSize' = Len(Input) + updown /\ Len(Input) + updown > 0
      BY <1>3 DEF map_output_file, readVars, applyVars
  <2> QED BY <2>1 DEF ReadInv, Input
<1>4. CASE ApplyInsert \/ ApplyDelete \/ Copy
  <2>1. /\ phase = "apply" /\ phase' = "apply" /\ UNCHANGED <<world, line, entries, updown, unmapped, outSize, differs>>
      BY <1>4 DEF ApplyInsert, ApplyDelete, Copy, Walking, readVars
  <2> QED BY <2>1 DEF ReadInv, Input
<1>5. CASE ApplyFaults
  <2>1. /\ phase' = "stuck" /\ UNCHANGED <<world, line, entries, updown, unmapped, outSize, differs>>
      BY <1>5 DEF ApplyFaults, WalkStuck, Stuck, readVars
  <2> QED BY <2>1 DEF ReadInv, Input
<1>6. CASE save
  <2>1. /\ phase = "apply" /\ phase' = "diff" /\ UNCHANGED <<world, line, entries, updown, unmapped, outSize, differs>>
      BY <1>6 DEF save, readVars
  <2> QED BY <2>1 DEF ReadInv, Input
<1>7. CASE diff \/ diff_ends
  <2>1. /\ phase = "diff" /\ phase' \in {"diff", "done"} /\ UNCHANGED <<world, line, entries, updown, unmapped, outSize>>
      BY <1>7 DEF diff, diff_ends, readVars, applyVars
  <2> QED BY <2>1 DEF ReadInv, Input
<1>8. CASE UNCHANGED patchVars
    BY <1>8 DEF ReadInv, patchVars, readVars, applyVars, Input
<1> QED BY <1>1, <1>2, <1>3, <1>4, <1>5, <1>6, <1>7, <1>8 DEF PatchNext

\* While a good patch or one with an error is applied, what is written is what
\* the lines that were applied make of the bytes that were passed.
ApplyInv ==
  /\ (phase = "apply" /\ world \in Good \cup CutOff) =>
       \E k \in 0 .. Len(Applied) :
         /\ At(Input, Applied, p, k) /\ mem = Written(Input, Applied, p, k) /\ q = Len(mem)
         /\ pf \in Nat /\ (pf = k \/ (k = Len(Applied) /\ k <= pf))
  /\ (phase \in {"diff", "done"} /\ world \in Good \cup CutOff) =>
       Output = SubSeq(Patched(Input, Applied), 1, Len(Patched(Input, Kept)))

\* When reading has ended: the counted lines give the output its size, and an
\* entry of the line at fault can only add to what is written.
LEMMA ReadDone ==
  ASSUME ReadInv, world \in Good \cup CutOff, phase \in {"open", "apply", "diff", "done"}
  PROVE  /\ Ordered(Input, Applied) /\ Len(entries) = Len(world.patch) /\ unmapped = "nothing"
         /\ Len(Applied) <= Len(entries) /\ Len(entries) <= Len(Applied) + 1 /\ Len(entries) < EntriesMax
         /\ \E u : /\ Shifted(Applied, u) /\ updown <= u[Len(Applied)] /\ updown \in Int
                   /\ Len(Patched(Input, Kept)) = Len(Input) + updown
<1>1. PICK n \in Nat : n = Len(world.patch)
    BY PatchIs DEF ReadInv
<1>2. PICK m \in Nat, c \in Nat : m = Len(Applied) /\ c = Len(Kept)
    BY AppliedIs, PiecesAre DEF Applied, Kept
<1>3. /\ m <= n /\ n <= m + 1 /\ 0 < n /\ n < EntriesMax /\ c <= m /\ n <= c + 1
      /\ Ordered(Input, Applied) /\ Ordered(Input, Kept)
    BY <1>1, <1>2, AppliedIs DEF Applied, Kept, Input
<1>4. \A k \in 1 .. c : world.patch[k] = Kept[k] /\ Applied[k] = Kept[k] /\ world.patch[k].status = "ok"
    BY <1>2, <1>3, AppliedIs DEF Applied, Kept, Ordered
<1>5. line - 1 = n
  <2>1. line \in Nat /\ line - 1 \in Nat /\ line - 1 <= n /\ (line - 1 = n \/ (line > 1 /\ world.patch[line - 1].status # "ok"))
      BY <1>1 DEF ReadInv
  <2>2. CASE line > 1 /\ world.patch[line - 1].status # "ok"
    <3>1. ~ (line - 1 \in 1 .. c)
        BY <1>4, <2>2
    <3>2. line - 1 \in 1 .. n
        BY <2>1, <2>2
    <3> QED BY <1>3, <3>1, <3>2
  <2> QED BY <2>1, <2>2
<1>6. unmapped = "nothing"
    BY <1>1, <1>3, <1>5, PagesAssumption DEF ReadInv
<1>7. Len(entries) = n
    BY <1>5 DEF ReadInv
<1>8. PICK v : Shifted(world.patch, v) /\ updown = v[n]
    BY <1>5 DEF ReadInv
<1>9. \A k \in 0 .. c : v[k] \in Int
  <2>1. \A k \in 0 .. c : k \in 0 .. n
      BY <1>3
  <2> QED BY <1>1, <1>8, <2>1 DEF Shifted
<1>10. Shifted(Kept, v)
  <2>1. \A k \in 1 .. c : k \in 1 .. n
      BY <1>3
  <2> QED BY <1>1, <1>2, <1>4, <1>8, <1>9, <2>1 DEF Shifted
<1>11. PICK d \in Int : d = v[c] /\ updown = d
  <2>1. n = c \/ n = c + 1
      BY <1>3
  <2>2. CASE n = c + 1
    <3>1. n \in 1 .. n /\ n > c /\ n - 1 = c
        BY <2>2
    <3>2. Grows(world.patch[n]) = 0
        BY <1>1, <1>2, <3>1, AppliedIs DEF Kept
    <3>3. v[n] = v[c] + 0
        BY <1>1, <1>8, <3>1, <3>2 DEF Shifted
    <3> QED BY <1>8, <1>9, <3>3
  <2> QED BY <1>8, <1>9, <2>1, <2>2
<1>12. Len(Patched(Input, Kept)) = Len(Input) + updown
  <2>1. At(Input, Kept, 0, 0)
      BY <1>3, WalkStarts
  <2> QED BY <1>2, <1>3, <1>10, <1>11, <2>1, WrittenLength
<1>13. \E u : Shifted(Applied, u) /\ updown <= u[m]
  <2>1. m = c \/ m = c + 1
      BY <1>3
  <2>2. CASE m = c
    <3>1. Shifted(Applied, v)
        BY <1>2, <1>4, <1>10, <2>2 DEF Shifted
    <3> QED BY <1>11, <2>2, <3>1
  <2>3. CASE m = c + 1
    <3>1. m \in 1 .. m /\ m = n /\ m > c
        BY <1>3, <2>3
    <3>2. Applied[m].cmd = 1
      <4>1. Len(Applied) = Len(Kept) + 1
          BY <1>2, <2>3
      <4> QED BY <1>2, <4>1, MoreIsInserted DEF Applied, Kept
    <3>3. PICK g \in Nat : g = Grows(Applied[m])
      <4>1. Applied[m].status = "ok" /\ Applied[m].len \in Nat
          BY <1>2, <1>3, <3>1, LineIs DEF Ordered
      <4> QED BY <3>2, <4>1 DEF Grows, Counted
    <3>4. PICK u : u = [k \in 0 .. m |-> IF k <= c THEN v[k] ELSE d + g]
        OBVIOUS
    <3>5. \A k \in 0 .. m : k \in 0 .. c \/ (k = m /\ ~ (k <= c))
        BY <2>3
    <3>6. \A k \in 0 .. m : u[k] \in Int
        BY <1>9, <3>4, <3>5
    <3>7. \A k \in 0 .. c : u[k] = v[k]
      <4>1. \A k \in 0 .. c : k \in 0 .. m /\ k <= c
          BY <1>3
      <4> QED BY <3>4, <4>1
    <3>8. u[m] = d + g /\ u[c] = d
      <4>1. m \in 0 .. m /\ ~ (m <= c) /\ c \in 0 .. c
          BY <2>3
      <4> QED BY <1>11, <3>4, <3>7, <4>1
    <3>9. ASSUME NEW k \in 1 .. m PROVE u[k] = u[k - 1] + Grows(Applied[k])
      <4>1. CASE k \in 1 .. c
        <5>1. k \in 0 .. c /\ k - 1 \in 0 .. c
            BY <4>1
        <5> QED BY <1>2, <1>4, <1>10, <3>7, <4>1, <5>1 DEF Shifted
      <4>2. CASE k = m
        <5>1. k - 1 = c
            BY <2>3, <4>2
        <5> QED BY <3>3, <3>8, <4>2, <5>1
      <4> QED BY <2>3, <4>1, <4>2
    <3>10. u[0] = 0
      <4>1. 0 \in 0 .. c
          OBVIOUS
      <4> QED BY <1>10, <3>7, <4>1 DEF Shifted
    <3>11. d <= d + g
        OBVIOUS
    <3> QED BY <1>2, <1>11, <3>6, <3>8, <3>9, <3>10, <3>11 DEF Shifted
  <2> QED BY <2>1, <2>2, <2>3
<1> QED BY <1>1, <1>2, <1>3, <1>6, <1>7, <1>11, <1>12, <1>13

\* The entry the walk is at: its line, or one that changes nothing.
LEMMA CurrentIs ==
  ASSUME ReadInv, world \in Good \cup CutOff, phase = "apply",
         NEW k \in 0 .. Len(Applied), pf \in Nat, pf = k \/ (k = Len(Applied) /\ k <= pf)
  PROVE  /\ k < Len(Applied) =>
              /\ pf = k /\ ~ OffPage /\ Current.cmd = Applied[k + 1].cmd /\ Current.addr = Applied[k + 1].addr
              /\ Current.len = Applied[k + 1].len /\ Current.bytes = Applied[k + 1].bytes
         /\ k = Len(Applied) => Current.len = 0 /\ Current.bytes = <<>>
<1>1. PICK n \in Nat, m \in Nat : n = Len(entries) /\ m = Len(Applied)
  <2>1. Len(entries) \in Nat
      BY DEF ReadInv
  <2>2. Len(Applied) \in Nat
      BY ReadDone, PiecesAre
  <2> QED BY <2>1, <2>2
<1>2. n = Len(world.patch) /\ m <= n /\ n <= m + 1 /\ n < EntriesMax /\ unmapped = "nothing"
    BY <1>1, ReadDone
<1>3. line - 1 = n /\ \A i \in 1 .. n : entries[i] = Entry(world.patch[i])
    BY <1>1 DEF ReadInv
<1>4. k \in Nat
    BY <1>1
<1>5. ASSUME k < m
      PROVE  /\ pf = k /\ ~ OffPage /\ Current.cmd = Applied[k + 1].cmd /\ Current.addr = Applied[k + 1].addr
             /\ Current.len = Applied[k + 1].len /\ Current.bytes = Applied[k + 1].bytes
  <2>1. pf = k
      BY <1>1, <1>4, <1>5
  <2>2. k + 1 \in 1 .. n /\ k + 1 <= m /\ k < n
      BY <1>2, <1>4, <1>5
  <2>3. Current = Entry(world.patch[k + 1])
      BY <1>1, <1>3, <2>1, <2>2 DEF Current
  <2>4. ~ OffPage
    <3>1. ~ (pf >= EntriesMax)
        BY <1>2, <1>4, <2>1, <2>2, PagesAssumption
    <3> QED BY <1>2, <3>1 DEF OffPage
  <2>5. k + 1 \in 1 .. Len(Applied)
      BY <1>1, <2>2
  <2> QED BY <2>1, <2>3, <2>4, <2>5, AppliedIs DEF Applied
<1>6. ASSUME k = m PROVE Current.len = 0 /\ Current.bytes = <<>>
  <2>1. CASE pf < n
    <3>1. pf + 1 \in 1 .. n /\ pf + 1 > m
        BY <1>1, <1>6, <2>1
    <3>2. Current = Entry(world.patch[pf + 1])
        BY <1>1, <1>3, <2>1, <3>1 DEF Current
    <3> QED BY <1>1, <1>2, <3>1, <3>2, AppliedIs DEF Applied, Leaves
  <2>2. CASE ~ (pf < n)
      BY <1>1, <2>2 DEF Current, ZeroEntry
  <2> QED BY <2>1, <2>2
<1> QED BY <1>1, <1>5, <1>6

LEMMA ApplyStarts ==
  ASSUME ReadInv, ApplyInv, map_output_file
  PROVE  ApplyInv'
<1>1. /\ phase = "open" /\ UNCHANGED <<world, p, q, pf, mem>> /\ phase' \in {"apply", "stuck"}
    BY DEF map_output_file, applyVars
<1>2. p = 0 /\ q = 0 /\ pf = 0 /\ mem = <<>>
    BY <1>1 DEF ReadInv
<1> SUFFICES ASSUME world \in Good \cup CutOff
             PROVE  \E k \in 0 .. Len(Applied) :
                      /\ At(Input, Applied, 0, k) /\ <<>> = Written(Input, Applied, 0, k) /\ 0 = Len(<<>>)
                      /\ 0 \in Nat /\ (0 = k \/ (k = Len(Applied) /\ k <= 0))
    BY <1>1, <1>2 DEF ApplyInv, Applied, Input
<1>3. At(Input, Applied, 0, 0) /\ Written(Input, Applied, 0, 0) = <<>>
    BY <1>1, ReadDone, WalkStarts
<1>4. 0 \in 0 .. Len(Applied) /\ 0 = Len(<<>>) /\ 0 \in Nat
    BY <1>3 DEF At
<1> QED BY <1>3, <1>4

\* A step of the walk, in the state behind it.
LEMMA ApplyGoesOn ==
  ASSUME ReadInv, phase = "apply", phase' = "apply", world' = world,
         world \in Good \cup CutOff =>
           \E k \in 0 .. Len(Applied) :
             /\ At(Input, Applied, p', k) /\ mem' = Written(Input, Applied, p', k) /\ q' = Len(mem')
             /\ pf' \in Nat /\ (pf' = k \/ (k = Len(Applied) /\ k <= pf'))
  PROVE  ApplyInv'
BY DEF ApplyInv, Applied, Input

LEMMA ApplyEdits ==
  ASSUME ReadInv, ApplyInv, ApplyInsert \/ ApplyDelete
  PROVE  ApplyInv'
<1>1. /\ phase = "apply" /\ phase' = "apply" /\ world' = world /\ pf' = pf + 1 /\ p = Current.addr
      /\ ApplyInsert => Current.cmd = 1 /\ p' = p /\ mem' = mem \o Current.bytes /\ q' = q + Len(Current.bytes)
      /\ ApplyDelete => Current.cmd = 0 /\ p' = p + Current.len /\ mem' = mem /\ q' = q
    BY DEF ApplyInsert, ApplyDelete, Walking
<1> SUFFICES ASSUME world \in Good \cup CutOff
             PROVE  \E k \in 0 .. Len(Applied) :
                      /\ At(Input, Applied, p', k) /\ mem' = Written(Input, Applied, p', k) /\ q' = Len(mem')
                      /\ pf' \in Nat /\ (pf' = k \/ (k = Len(Applied) /\ k <= pf'))
    BY <1>1, ApplyGoesOn
<1>2. PICK k \in 0 .. Len(Applied) :
        /\ At(Input, Applied, p, k) /\ mem = Written(Input, Applied, p, k) /\ q = Len(mem)
        /\ pf \in Nat /\ (pf = k \/ (k = Len(Applied) /\ k <= pf))
    BY <1>1 DEF ApplyInv
<1>3. Ordered(Input, Applied)
    BY <1>1, ReadDone
<1>4. PICK n \in Nat : n = Len(Applied)
    BY <1>3, PiecesAre
<1>5. k \in Nat /\ k \in 0 .. n /\ pf' \in Nat
    BY <1>1, <1>2, <1>4
<1>6. PICK v \in Seq(Bytes) : v = mem
  <2>1. Written(Input, Applied, p, k) \in Seq(Bytes)
      BY <1>2, <1>3, WrittenIs
  <2> QED BY <1>2, <2>1
<1>7. p \in Nat
  <2>1. Len(Input) \in Nat
      BY <1>3, PiecesAre
  <2> QED BY <1>2, <2>1 DEF At
<1>8. CASE k < n
  <2>1. /\ pf = k /\ Current.cmd = Applied[k + 1].cmd /\ Current.addr = Applied[k + 1].addr
        /\ Current.len = Applied[k + 1].len /\ Current.bytes = Applied[k + 1].bytes
      BY <1>1, <1>2, <1>4, <1>8, CurrentIs
  <2>2. k + 1 \in 0 .. Len(Applied) /\ k + 1 \in 1 .. Len(Applied) /\ pf' = k + 1
      BY <1>1, <1>4, <1>5, <1>8, <2>1
  <2>3. CASE ApplyInsert
    <3>1. /\ At(Input, Applied, p, k + 1)
          /\ Written(Input, Applied, p, k + 1) = Written(Input, Applied, p, k) \o Applied[k + 1].bytes
      <4>1. k < Len(Applied) /\ p = Applied[k + 1].addr /\ Applied[k + 1].cmd = 1
          BY <1>1, <1>4, <1>8, <2>1, <2>3
      <4> QED BY <1>2, <1>3, <4>1, WalkInserts
    <3>2. mem' = Written(Input, Applied, p, k + 1) /\ p' = p
        BY <1>1, <1>2, <2>1, <2>3, <3>1
    <3>3. PICK b \in Seq(Bytes) : b = Applied[k + 1].bytes
      <4>1. Applied[k + 1].bytes \in Seq(Bytes)
          BY <1>3, <2>2, LineIs
      <4> QED BY <4>1
    <3>4. q' = Len(mem')
      <4>1. Len(v \o b) = Len(v) + Len(b)
          OBVIOUS
      <4> QED BY <1>1, <1>2, <1>6, <2>1, <2>3, <3>3, <4>1
    <3> QED BY <1>5, <2>2, <3>1, <3>2, <3>4
  <2>4. CASE ApplyDelete
    <3>1. /\ At(Input, Applied, p + Applied[k + 1].len, k + 1)
          /\ Written(Input, Applied, p + Applied[k + 1].len, k + 1) = Written(Input, Applied, p, k)
      <4>1. k < Len(Applied) /\ p = Applied[k + 1].addr /\ Applied[k + 1].cmd = 0
          BY <1>1, <1>4, <1>8, <2>1, <2>4
      <4> QED BY <1>2, <1>3, <4>1, WalkDeletes
    <3>2. mem' = mem /\ q' = q /\ p' = p + Applied[k + 1].len
        BY <1>1, <2>1, <2>4
    <3> QED BY <1>2, <1>5, <2>2, <3>1, <3>2
  <2> QED BY <2>3, <2>4
<1>9. CASE k = n
  <2>1. Current.len = 0 /\ Current.bytes = <<>>
      BY <1>1, <1>2, <1>4, <1>9, CurrentIs
  <2>2. k <= pf /\ k <= pf'
      BY <1>1, <1>2, <1>4, <1>5, <1>9
  <2>3. p' = p
      BY <1>1, <1>7, <2>1
  <2>4. mem' = mem /\ q' = q
    <3>1. v \o <<>> = v /\ Len(<<>>) = 0 /\ Len(v) \in Nat /\ Len(v) + 0 = Len(v)
        OBVIOUS
    <3> QED BY <1>1, <1>2, <1>6, <2>1, <3>1
  <2> QED BY <1>2, <1>4, <1>5, <1>9, <2>2, <2>3, <2>4
<1> QED BY <1>5, <1>8, <1>9

LEMMA ApplyCopies ==
  ASSUME ReadInv, ApplyInv, Copy
  PROVE  ApplyInv'
<1>1. /\ phase = "apply" /\ phase' = "apply" /\ world' = world /\ pf' = pf /\ p # Len(Input)
      /\ ~ OffPage => p # Current.addr
      /\ mem' = Append(mem, ByteAt(p)) /\ p' = p + 1 /\ q' = q + 1
    BY DEF Copy, Walking
<1> SUFFICES ASSUME world \in Good \cup CutOff
             PROVE  \E k \in 0 .. Len(Applied) :
                      /\ At(Input, Applied, p', k) /\ mem' = Written(Input, Applied, p', k) /\ q' = Len(mem')
                      /\ pf' \in Nat /\ (pf' = k \/ (k = Len(Applied) /\ k <= pf'))
    BY <1>1, ApplyGoesOn
<1>2. PICK k \in 0 .. Len(Applied) :
        /\ At(Input, Applied, p, k) /\ mem = Written(Input, Applied, p, k) /\ q = Len(mem)
        /\ pf \in Nat /\ (pf = k \/ (k = Len(Applied) /\ k <= pf))
    BY <1>1 DEF ApplyInv
<1>3. Ordered(Input, Applied)
    BY <1>1, ReadDone
<1>4. p \in Nat /\ p < Len(Input)
  <2>1. PICK l \in Nat : l = Len(Input)
      BY <1>3, PiecesAre
  <2>2. p \in 0 .. l
      BY <1>2, <2>1 DEF At
  <2> QED BY <1>1, <2>1, <2>2
<1>5. k < Len(Applied) => p # Applied[k + 1].addr
    BY <1>1, <1>2, CurrentIs
<1>6. /\ At(Input, Applied, p + 1, k) /\ Written(Input, Applied, p + 1, k) = Written(Input, Applied, p, k) \o <<Input[p + 1]>>
      /\ Input[p + 1] \in Bytes
    BY <1>2, <1>3, <1>4, <1>5, WalkCopies
<1>7. PICK v \in Seq(Bytes) : v = mem
  <2>1. Written(Input, Applied, p, k) \in Seq(Bytes)
      BY <1>2, <1>3, WrittenIs
  <2> QED BY <1>2, <2>1
<1>8. PICK b \in Bytes : b = Input[p + 1] /\ ByteAt(p) = b
    BY <1>4, <1>6 DEF ByteAt
<1>9. Append(v, b) = v \o <<b>> /\ Len(Append(v, b)) = Len(v) + 1
    OBVIOUS
<1>10. mem' = Written(Input, Applied, p', k) /\ q' = Len(mem')
    BY <1>1, <1>2, <1>6, <1>7, <1>8, <1>9
<1> QED BY <1>1, <1>2, <1>6, <1>10

LEMMA RoundsUp ==
  ASSUME NEW n \in Nat
  PROVE  RoundUp(n) \in Nat /\ n <= RoundUp(n)
<1>1. PICK g \in Nat \ {0} : g = Page
    BY PagesAssumption
<1>2. PICK a \in Nat : a = n + (g - 1)
    BY <1>1
<1>3. PICK c \in Int : c = a \div g
    BY <1>1
<1>4. g * c <= a /\ a < g * (c + 1)
    BY <1>1, <1>3
<1> QED BY <1>1, <1>2, <1>3, <1>4 DEF RoundUp

\* Nothing is left when the walk ends, also when it ends at the output's end.
LEMMA ApplyEnds ==
  ASSUME ReadInv, ApplyInv, save
  PROVE  ApplyInv'
<1>1. /\ phase = "apply" /\ phase' = "diff" /\ world' = world /\ mem' = mem /\ outSize' = outSize
      /\ p = Len(Input) \/ q = OutEnd
    BY DEF save, Walking
<1>2. Output' = Output
    BY <1>1 DEF Output
<1> SUFFICES ASSUME world \in Good \cup CutOff
             PROVE  Output = SubSeq(Patched(Input, Applied), 1, Len(Patched(Input, Kept)))
    BY <1>1, <1>2 DEF ApplyInv, Applied, Kept, Input
<1>3. PICK k \in 0 .. Len(Applied) :
        At(Input, Applied, p, k) /\ mem = Written(Input, Applied, p, k) /\ q = Len(mem)
    BY <1>1 DEF ApplyInv
<1>4. Ordered(Input, Applied)
    BY <1>1, ReadDone
<1>5. PICK u : /\ Shifted(Applied, u) /\ updown <= u[Len(Applied)] /\ updown \in Int
               /\ Len(Patched(Input, Kept)) = Len(Input) + updown
    BY <1>1, ReadDone
<1>6. PICK all \in Seq(Bytes) : all = Patched(Input, Applied)
    BY <1>3, <1>4, <1>5, WrittenLength
<1>7. PICK size \in Nat : size = outSize /\ size = Len(Patched(Input, Kept)) /\ size <= Len(all)
  <2>1. Len(all) = Len(Input) + u[Len(Applied)]
      BY <1>3, <1>4, <1>5, <1>6, WrittenLength
  <2>2. outSize = Len(Input) + updown /\ outSize > 0
      BY <1>1 DEF ReadInv
  <2>3. PICK l \in Nat, n \in Nat : l = Len(Input) /\ n = Len(Applied)
      BY <1>4, PiecesAre
  <2>4. PICK e \in Int : e = u[Len(Applied)]
    <3>1. n \in 0 .. n
        OBVIOUS
    <3> QED BY <1>5, <2>3, <3>1 DEF Shifted
  <2>5. l + updown \in Nat /\ l + updown <= l + e
      BY <1>5, <2>2, <2>3, <2>4
  <2> QED BY <1>5, <2>1, <2>2, <2>3, <2>4, <2>5
<1>8. PICK v \in Seq(Bytes) : v = mem
  <2>1. Written(Input, Applied, p, k) \in Seq(Bytes)
      BY <1>3, <1>4, WrittenIs
  <2> QED BY <1>3, <2>1
<1>9. \A i \in 1 .. Len(v) : v[i] = all[i]
    BY <1>3, <1>4, <1>5, <1>6, <1>8, WrittenLength
<1>10. size <= Len(v)
  <2>1. CASE p = Len(Input)
    <3>1. mem = Patched(Input, Applied)
        BY <1>3, <1>4, <1>5, <2>1, RemainsAtTheEnd
    <3> QED BY <1>6, <1>7, <1>8, <3>1
  <2>2. CASE q = OutEnd
    <3>1. Len(v) = RoundUp(size)
        BY <1>3, <1>7, <1>8, <2>2 DEF OutEnd
    <3> QED BY <3>1, RoundsUp
  <2> QED BY <1>1, <2>1, <2>2
<1>11. \A i \in 1 .. size : i <= Len(v) /\ v[i] = all[i]
  <2>1. Len(v) \in Nat
      OBVIOUS
  <2>2. \A i \in 1 .. size : i \in 1 .. Len(v) /\ i <= Len(v)
      BY <1>10, <2>1
  <2> QED BY <1>9, <2>2
<1>12. Output = [i \in 1 .. size |-> all[i]]
    BY <1>7, <1>8, <1>11 DEF Output
<1>13. SubSeq(all, 1, size) = [i \in 1 .. size |-> all[i]]
    BY <1>7
<1> QED BY <1>6, <1>7, <1>12, <1>13

LEMMA ApplyStep ==
  ASSUME ReadInv, ApplyInv, [PatchNext]_patchVars
  PROVE  ApplyInv'
<1>1. CASE ReadLine \/ ReadEnds
  <2>1. phase' \in {"read", "open", "stuck"}
      BY <1>1 DEF ReadLine, ReadEnds, Stuck
  <2> QED BY <2>1 DEF ApplyInv
<1>2. CASE map_output_file
    BY <1>2, ApplyStarts
<1>3. CASE ApplyInsert \/ ApplyDelete
    BY <1>3, ApplyEdits
<1>4. CASE Copy
    BY <1>4, ApplyCopies
<1>5. CASE ApplyFaults
    BY <1>5 DEF ApplyFaults, WalkStuck, Stuck, ApplyInv
<1>6. CASE save
    BY <1>6, ApplyEnds
<1>7. CASE diff \/ diff_ends
  <2>1. phase = "diff" /\ phase' \in {"diff", "done"} /\ UNCHANGED <<world, mem, outSize>>
      BY <1>7 DEF diff, diff_ends, applyVars
  <2>2. Output' = Output
      BY <2>1 DEF Output
  <2> QED BY <2>1, <2>2 DEF ApplyInv, Applied, Kept, Input
<1>8. CASE UNCHANGED patchVars
  <2>1. UNCHANGED <<phase, world, mem, outSize, p, q, pf>>
      BY <1>8 DEF patchVars, applyVars
  <2>2. Output' = Output
      BY <2>1 DEF Output
  <2> QED BY <2>1, <2>2 DEF ApplyInv, Applied, Kept, Input
<1> QED BY <1>1, <1>2, <1>3, <1>4, <1>5, <1>6, <1>7, <1>8 DEF PatchNext

LEMMA PatchInv == PatchSpec => [](ReadInv /\ ApplyInv)
<1>1. PatchInit => ReadInv /\ ApplyInv
  <2>1. PatchInit => phase = "read"
      BY DEF PatchInit
  <2> QED BY <2>1, ReadStarts DEF ApplyInv
<1>2. ReadInv /\ ApplyInv /\ [PatchNext]_patchVars => (ReadInv /\ ApplyInv)'
    BY ReadStep, ApplyStep
<1> QED BY <1>1, <1>2, PTL DEF PatchSpec

\* Of a good patch everything that is written is kept.
LEMMA GoodOutput ==
  ASSUME ReadInv, ApplyInv, phase \in {"diff", "done"}, world \in Good
  PROVE  Output = Patched(Input, world.patch)
<1>1. Applied = world.patch /\ Kept = world.patch
    BY DEF Applied, Kept, AppliedOf, KeptOf
<1>2. Ordered(Input, Applied) /\ \E u : Shifted(Applied, u)
    BY ReadDone
<1>3. PICK all \in Seq(Bytes) : all = Patched(Input, Applied)
  <2>1. At(Input, Applied, 0, 0)
      BY <1>2, WalkStarts
  <2> QED BY <1>2, <2>1, WrittenLength
<1>4. SubSeq(all, 1, Len(all)) = all
    OBVIOUS
<1> QED BY <1>1, <1>3, <1>4 DEF ApplyInv

\* A patch in the order of its addresses (apply): when bipatch and bidiff are done, the
\* output is the input with the bytes of each line inserted or left out, and nothing else.
THEOREM GoodPatchesApply == PatchSpec => []((phase = "done" /\ world \in Good) => Output = Patched(Input, world.patch))
<1>1. ReadInv /\ ApplyInv => ((phase = "done" /\ world \in Good) => Output = Patched(Input, world.patch))
    BY GoodOutput
<1> QED BY <1>1, PatchInv, PTL

\* After a parse error (read_patch returning 0) the lines in front of it are
\* applied, with the bytes of an insertion that were read before it (bipatch.c:100),
\* to an output of the size that the lines in front give it.
THEOREM LinesBeforeAnErrorApplySound == PatchSpec => []LinesBeforeAnErrorApply
<1>1. ReadInv /\ ApplyInv => LinesBeforeAnErrorApply
  <2> SUFFICES ASSUME ReadInv, ApplyInv, phase = "done", world \in CutOff
               PROVE  Output = SubSeq(Patched(Input, Entered(world.patch)), 1, Len(Patched(Input, Front(world.patch))))
      BY DEF LinesBeforeAnErrorApply
  <2>1. world \notin Good
    <3>1. PICK n \in Nat : n = Len(world.patch) /\ DOMAIN world.patch = 1 .. n /\ n > 0
      <4>1. world.patch \in Seq(LineRows) /\ 0 < Len(world.patch)
          BY AppliedIs
      <4> QED BY <4>1
    <3>2. n \in DOMAIN world.patch /\ Last(world.patch) = world.patch[n]
        BY <3>1 DEF Last
    <3>3. Last(world.patch).status # "ok"
        BY DEF CutOff, Counted
    <3> QED BY <3>2, <3>3 DEF Good, Readable
  <2> QED BY <2>1 DEF ApplyInv, Applied, Kept, AppliedOf, KeptOf
<1> QED BY <1>1, PatchInv, PTL

----------------------------------------------------------------------------
(* bidiff: a patch that replaces bytes                                     *)

\* An insertion with its deletion behind it, any number of times.
Pairs(in, ls) ==
  /\ Ordered(in, ls)
  /\ \A k \in 1 .. Len(ls) :
       IF k % 2 = 1 THEN ls[k].cmd = 1 /\ k < Len(ls)
       ELSE ls[k].cmd = 0 /\ ls[k].addr = ls[k - 1].addr /\ ls[k].len = ls[k - 1].len
Covers(l, n) == l.cmd = 1 /\ n - l.addr \in 0 .. l.len - 1

\* Of a pair: what it inserts, and that the next line starts behind it.
LEMMA PairIs ==
  ASSUME NEW in, NEW ls, Pairs(in, ls), NEW k \in 1 .. Len(ls), ls[k].cmd = 1
  PROVE  /\ k % 2 = 1 /\ k + 1 \in 1 .. Len(ls) /\ ls[k + 1].cmd = 0
         /\ ls[k + 1].addr = ls[k].addr /\ ls[k + 1].len = ls[k].len
         /\ EndOf(ls[k + 1]) = ls[k].addr + ls[k].len
<1>1. PICK n \in Nat : n = Len(ls)
    BY PiecesAre DEF Pairs
<1>2. k \in Nat /\ k \in 1 .. n
    BY <1>1
<1>3. k % 2 = 1 /\ k < n
    BY <1>1 DEF Pairs
<1>4. k + 1 \in 1 .. n /\ (k + 1) % 2 # 1 /\ (k + 1) - 1 = k
    BY <1>2, <1>3
<1>5. ls[k + 1].cmd = 0 /\ ls[k + 1].addr = ls[k].addr /\ ls[k + 1].len = ls[k].len
    BY <1>1, <1>4 DEF Pairs
<1> QED BY <1>1, <1>3, <1>4, <1>5 DEF EndOf

\* Pairs do not overlap.
LEMMA OneCovers ==
  ASSUME NEW in, NEW ls, Pairs(in, ls), NEW n \in Nat,
         NEW i \in 1 .. Len(ls), NEW j \in 1 .. Len(ls), Covers(ls[i], n), Covers(ls[j], n)
  PROVE  i = j
<1>1. PICK c \in Nat : c = Len(ls)
    BY PiecesAre DEF Pairs
<1>2. ASSUME NEW k \in 1 .. Len(ls), NEW m \in 1 .. Len(ls), Covers(ls[k], n), Covers(ls[m], n), k < m
      PROVE  FALSE
  <2>1. ls[k].cmd = 1 /\ ls[m].cmd = 1
      BY <1>2 DEF Covers
  <2>2. /\ k + 1 \in 1 .. Len(ls) /\ ls[k + 1].cmd = 0 /\ EndOf(ls[k + 1]) = ls[k].addr + ls[k].len
    <3>1. /\ k + 1 \in 1 .. Len(ls) /\ ls[k + 1].cmd = 0
          /\ EndOf(ls[k + 1]) = ls[k].addr + ls[k].len
        BY ONLY Pairs(in, ls), k \in 1 .. Len(ls), <2>1, PairIs
    <3> QED BY <3>1
  <2>3. k + 1 # m
      BY <2>1, <2>2
  <2>4. k + 1 < m
      BY <1>1, <1>2, <2>3
  <2>5. EndOf(ls[k + 1]) <= ls[m].addr
      BY <2>2, <2>4, OrderIs DEF Pairs
  <2>6. ls[k].addr \in Nat /\ ls[k].len \in Nat /\ ls[m].addr \in Nat /\ ls[m].len \in Nat
      BY LineIs DEF Pairs
  <2>7. n - ls[k].addr <= ls[k].len - 1 /\ 0 <= n - ls[m].addr
      BY <1>2, <2>6 DEF Covers
  <2>8. PICK a \in Nat, b \in Nat, e \in Nat : a = ls[k].addr /\ b = ls[k].len /\ e = ls[m].addr
      BY <2>6
  <2>9. a + b <= e
      BY <2>2, <2>5, <2>8
  <2>10. n - a <= b - 1 /\ 0 <= n - e
      BY <2>7, <2>8
  <2>11. \A x, y, z, w \in Nat : w - x <= y - 1 /\ x + y <= z => ~ (0 <= w - z)
      OBVIOUS
  <2> QED BY <2>9, <2>10, <2>11
<1>3. i < j \/ j < i \/ i = j
    BY <1>1
<1> QED BY <1>2, <1>3

\* Behind each pair the output is where the input is.
LEMMA PairsAddNothing ==
  ASSUME NEW in, NEW ls, Pairs(in, ls), NEW u, Shifted(ls, u)
  PROVE  /\ \A k \in 0 .. Len(ls) : k % 2 = 0 => u[k] = 0
         /\ u[Len(ls)] = 0
<1>1. PICK n \in Nat : n = Len(ls)
    BY PiecesAre DEF Pairs
<1> DEFINE S == {d \in Nat : 2 * d <= n => u[2 * d] = 0}
<1>2. 0 \in S
  <2>1. 2 * 0 = 0
      OBVIOUS
  <2> QED BY <2>1 DEF Shifted
<1>3. ASSUME NEW d \in Nat, d \in S PROVE d + 1 \in S
  <2> SUFFICES ASSUME 2 * (d + 1) <= n PROVE u[2 * (d + 1)] = 0
      OBVIOUS
  <2>1. PICK k \in Nat : k = 2 * d
      OBVIOUS
  <2>2. /\ 2 * (d + 1) = (k + 1) + 1 /\ k + 1 \in 1 .. n /\ (k + 1) + 1 \in 1 .. n
        /\ (k + 1) - 1 = k /\ ((k + 1) + 1) - 1 = k + 1 /\ k <= n /\ (k + 1) % 2 = 1
      BY <2>1
  <2>3. u[k] = 0
      BY <1>3, <2>1, <2>2
  <2>4. ls[k + 1].cmd = 1
      BY <1>1, <2>2 DEF Pairs
  <2>5. ls[(k + 1) + 1].cmd = 0 /\ ls[(k + 1) + 1].len = ls[k + 1].len
      BY <1>1, <2>2, <2>4, PairIs
  <2>6. u[k + 1] = u[k] + Grows(ls[k + 1]) /\ u[(k + 1) + 1] = u[k + 1] + Grows(ls[(k + 1) + 1])
      BY <1>1, <2>2 DEF Shifted
  <2>7. Grows(ls[k + 1]) = ls[k + 1].len /\ Grows(ls[(k + 1) + 1]) = -ls[(k + 1) + 1].len /\ ls[k + 1].len \in Nat
    <3>1. k + 1 \in 1 .. Len(ls) /\ (k + 1) + 1 \in 1 .. Len(ls) /\ Ordered(in, ls)
        BY <1>1, <2>2 DEF Pairs
    <3>2. /\ Grows(ls[k + 1]) = Len(ls[k + 1].bytes)
          /\ Grows(ls[(k + 1) + 1]) = -ls[(k + 1) + 1].len
      <4>1. ls[(k + 1) + 1].cmd # 1
          BY <2>5
      <4> QED BY <2>4, <3>1, <4>1, GrowsIs
    <3>3. ls[k + 1].len = Len(ls[k + 1].bytes) /\ ls[k + 1].len \in Nat
        BY <2>4, <3>1, LineIs
    <3> QED BY <3>2, <3>3
  <2>8. PICK c \in Nat : c = ls[k + 1].len
      BY <2>7
  <2>9. u[(k + 1) + 1] = (0 + c) + (-c)
      BY <2>3, <2>5, <2>6, <2>7, <2>8
  <2> QED BY <2>2, <2>9
<1>4. \A k \in 0 .. n : k % 2 = 0 => u[k] = 0
  <2> SUFFICES ASSUME NEW k \in 0 .. n, k % 2 = 0 PROVE u[k] = 0
      OBVIOUS
  <2>1. PICK d \in Nat : k = 2 * d
    <3>1. k \div 2 \in Nat /\ k = 2 * (k \div 2)
        OBVIOUS
    <3> QED BY <3>1
  <2>2. d \in S
    <3> HIDE DEF S
    <3> QED BY <1>2, <1>3, SetInduction
  <2> QED BY <2>1, <2>2
<1>5. n % 2 = 0
  <2> SUFFICES ASSUME n % 2 = 1 PROVE FALSE
      OBVIOUS
  <2>1. n \in 1 .. Len(ls)
      BY <1>1
  <2>2. n < Len(ls)
      BY <2>1 DEF Pairs
  <2> QED BY <1>1, <2>2
<1> QED BY <1>1, <1>4, <1>5

\* The output of such a patch has the input's length, and each of its bytes is that
\* of the line that covers it or that of the input.
LEMMA PairsReplace ==
  ASSUME NEW in, NEW ls, Pairs(in, ls)
  PROVE  /\ Len(Patched(in, ls)) = Len(in)
         /\ \A n \in 0 .. Len(in) - 1 :
              \/ \E k \in 1 .. Len(ls) : Covers(ls[k], n) /\ Patched(in, ls)[n + 1] = ls[k].bytes[n - ls[k].addr + 1]
              \/ (\A k \in 1 .. Len(ls) : ~ Covers(ls[k], n)) /\ Patched(in, ls)[n + 1] = in[n + 1]
<1>1. Ordered(in, ls)
    BY DEF Pairs
<1>2. PICK l \in Nat, m \in Nat : l = Len(in) /\ m = Len(ls)
    BY <1>1, PiecesAre
<1>3. PICK u : Shifted(ls, u)
  <2>1. ls \in Seq(LineRows)
      BY <1>1 DEF Ordered
  <2> QED BY <2>1, ShiftExists
<1>4. u[m] = 0 /\ \A k \in 0 .. m : k % 2 = 0 => u[k] = 0
    BY <1>2, <1>3, PairsAddNothing
<1>5. Len(Patched(in, ls)) = Len(in)
  <2>1. At(in, ls, 0, 0)
      BY <1>1, WalkStarts
  <2>2. Len(Patched(in, ls)) = l + u[m]
      BY <1>1, <1>2, <1>3, <2>1, WrittenLength
  <2> QED BY <1>2, <1>4, <2>2
<1>6. ASSUME NEW a \in Nat, NEW k \in 0 .. m, At(in, ls, a, k), k % 2 = 0
      PROVE  Written(in, ls, a, k) \in Seq(Bytes) /\ Len(Written(in, ls, a, k)) = a
  <2>1. Len(Written(in, ls, a, k)) = a + u[k]
      BY <1>1, <1>3, <1>6, WrittenLength
  <2>2. Written(in, ls, a, k) \in Seq(Bytes)
      BY <1>1, <1>6, WrittenIs
  <2> QED BY <1>4, <1>6, <2>1, <2>2
<1>7. ASSUME NEW n \in 0 .. l - 1, NEW k \in 1 .. m, Covers(ls[k], n)
      PROVE  Patched(in, ls)[n + 1] = ls[k].bytes[n - ls[k].addr + 1]
  <2>1. ls[k].cmd = 1 /\ k % 2 = 1
      BY <1>2, <1>7, PairIs DEF Covers
  <2>2. PICK a \in Nat, b \in Seq(Bytes) : a = ls[k].addr /\ b = ls[k].bytes /\ ls[k].len = Len(b) /\ a < l
      BY <1>1, <1>2, <2>1, LineIs
  <2>3. PICK j \in Nat : k = j + 1 /\ j % 2 = 0 /\ j < m /\ j \in 0 .. m
    <3>1. k - 1 \in Nat /\ k = (k - 1) + 1 /\ (k - 1) % 2 = 0 /\ k - 1 < m /\ k - 1 \in 0 .. m
        BY <2>1
    <3> QED BY <3>1
  <2>4. At(in, ls, a, j)
    <3>1. j > 0 => EndOf(ls[j]) <= ls[j + 1].addr
      <4>1. j > 0 => j \in 1 .. Len(ls) - 1
          BY <1>2, <2>3
      <4> QED BY <1>1, <4>1 DEF Ordered
    <3>2. a \in 0 .. l /\ j \in 0 .. m /\ a <= a
        BY <2>2, <2>3
    <3> QED BY <1>2, <2>2, <2>3, <3>1, <3>2 DEF At
  <2>5. /\ At(in, ls, a, j + 1)
        /\ Written(in, ls, a, j + 1) = Written(in, ls, a, j) \o b
      BY <1>1, <1>2, <2>1, <2>2, <2>3, <2>4, WalkInserts
  <2>6. PICK v \in Seq(Bytes) : v = Written(in, ls, a, j) /\ Len(v) = a
      BY <1>6, <2>3, <2>4
  <2>7. PICK i \in Nat : n = a + i /\ i + 1 \in 1 .. Len(b) /\ n - a + 1 = i + 1
    <3>1. n - a \in 0 .. Len(b) - 1
        BY <1>7, <2>2 DEF Covers
    <3>2. n - a \in Nat /\ n = a + (n - a) /\ (n - a) + 1 \in 1 .. Len(b) /\ n - a + 1 = (n - a) + 1
        BY <3>1
    <3> QED BY <3>2
  <2>8. /\ (a + (i + 1)) \in 1 .. Len(v \o b) /\ (v \o b)[a + (i + 1)] = b[i + 1]
    <3>1. Len(v \o b) = Len(v) + Len(b) /\ Len(b) \in Nat
        OBVIOUS
    <3>2. Len(v) + (i + 1) \in 1 .. Len(v) + Len(b)
        BY <2>6, <2>7, <3>1
    <3>3. (v \o b)[Len(v) + (i + 1)] = b[i + 1]
        BY <2>7, <3>1, <3>2
    <3> QED BY <2>6, <3>1, <3>2, <3>3
  <2>9. n + 1 = a + (i + 1)
      BY <2>7
  <2>10. (v \o b)[n + 1] = Patched(in, ls)[n + 1]
    <3>1. v \o b = Written(in, ls, a, j + 1)
        BY <2>5, <2>6
    <3>2. n + 1 \in 1 .. Len(Written(in, ls, a, j + 1))
        BY <2>8, <2>9, <3>1
    <3> QED BY <1>1, <1>3, <2>5, <3>1, <3>2, WrittenLength
  <2> QED BY <2>2, <2>7, <2>8, <2>9, <2>10
<1>8. ASSUME NEW n \in 0 .. l - 1, \A k \in 1 .. m : ~ Covers(ls[k], n)
      PROVE  Patched(in, ls)[n + 1] = in[n + 1]
  <2> DEFINE T == {k \in 0 .. m : k < m => n < ls[k + 1].addr}
  <2>1. PICK k \in T : \A j \in T : k <= j
    <3>1. m \in T /\ T \subseteq Nat
        OBVIOUS
    <3> HIDE DEF T
    <3> QED BY <3>1, Least
  <2>2. k \in 0 .. m /\ (k < m => n < ls[k + 1].addr)
      OBVIOUS
  <2>3. k > 0 => k \in 1 .. m /\ ls[k].addr <= n
    <3> SUFFICES ASSUME k > 0 PROVE k \in 1 .. m /\ ls[k].addr <= n
        OBVIOUS
    <3>1. k \in 1 .. m /\ k - 1 \in 0 .. m /\ (k - 1) + 1 = k /\ ~ (k <= k - 1)
        BY <2>2
    <3>2. ~ (k - 1 \in T)
        BY <2>1, <3>1
    <3>3. ~ (n < ls[k].addr)
        BY <3>1, <3>2
    <3>4. ls[k].addr \in Nat
        BY <1>1, <1>2, <3>1, LineIs
    <3> QED BY <3>1, <3>3, <3>4
  <2> HIDE DEF T
  <2>4. k % 2 = 0
    <3> SUFFICES ASSUME k % 2 = 1 PROVE FALSE
        BY <2>2
    <3>1. k > 0
        BY <2>2
    <3>2. ls[k].cmd = 1
        BY <1>2, <2>3, <3>1 DEF Pairs
    <3>3. k + 1 \in 1 .. Len(ls) /\ ls[k + 1].addr = ls[k].addr /\ ls[k].addr \in Nat
      <4>1. k \in 1 .. Len(ls)
          BY <1>2, <2>3, <3>1
      <4>2. k + 1 \in 1 .. Len(ls) /\ ls[k + 1].addr = ls[k].addr
          BY <3>2, <4>1, PairIs
      <4>3. ls[k].addr \in Nat
          BY <1>1, <4>1, LineIs
      <4> QED BY <4>2, <4>3
    <3>4. k < m
        BY <1>2, <2>2, <3>3
    <3> QED BY <2>2, <2>3, <3>1, <3>3, <3>4
  <2>5. k > 0 => EndOf(ls[k]) <= n
    <3> SUFFICES ASSUME k > 0 PROVE EndOf(ls[k]) <= n
        OBVIOUS
    <3>1. k \in 1 .. m /\ ls[k].addr <= n /\ k % 2 # 1
        BY <2>3, <2>4
    <3>2. ls[k].cmd = 0 /\ ls[k].addr = ls[k - 1].addr /\ ls[k].len = ls[k - 1].len
        BY <1>2, <3>1 DEF Pairs
    <3>3. k - 1 \in 1 .. m /\ (k - 1) % 2 = 1
        BY <2>4, <3>1
    <3>4. ls[k - 1].cmd = 1
        BY <1>2, <3>3 DEF Pairs
    <3>5. EndOf(ls[k]) = ls[k].addr + ls[k].len /\ ls[k].addr \in Nat /\ ls[k].len \in Nat
      <4>1. k \in 1 .. Len(ls)
          BY <1>2, <3>1
      <4> QED BY <1>1, <3>2, <4>1, LineIs
    <3>6. ~ (n - ls[k - 1].addr \in 0 .. ls[k - 1].len - 1)
        BY <1>8, <3>3, <3>4 DEF Covers
    <3>7. PICK a \in Nat, b \in Nat : a = ls[k].addr /\ b = ls[k].len
        BY <3>5
    <3>8. ~ (n - a \in 0 .. b - 1) /\ a <= n
        BY <3>1, <3>2, <3>6, <3>7
    <3>9. a + b <= n
        BY <3>8
    <3> QED BY <3>5, <3>7, <3>9
  <2>6. k < m => n <= ls[k + 1].addr /\ n # ls[k + 1].addr
    <3> SUFFICES ASSUME k < m PROVE n <= ls[k + 1].addr /\ n # ls[k + 1].addr
        OBVIOUS
    <3>1. k + 1 \in 1 .. Len(ls)
        BY <1>2, <2>2
    <3>2. ls[k + 1].addr \in Nat
        BY <1>1, <3>1, LineIs
    <3> QED BY <2>2, <3>2
  <2>7. n \in Nat /\ n < l /\ n \in 0 .. l /\ n + 1 \in 1 .. l
      OBVIOUS
  <2>8. At(in, ls, n, k)
      BY <1>2, <2>2, <2>5, <2>6, <2>7 DEF At
  <2>9. /\ At(in, ls, n + 1, k) /\ in[n + 1] \in Bytes
        /\ Written(in, ls, n + 1, k) = Written(in, ls, n, k) \o <<in[n + 1]>>
      BY <1>1, <1>2, <2>6, <2>7, <2>8, WalkCopies
  <2>10. PICK v \in Seq(Bytes) : v = Written(in, ls, n, k) /\ Len(v) = n
      BY <1>6, <2>2, <2>4, <2>7, <2>8
  <2>11. PICK b \in Bytes : b = in[n + 1]
      BY <2>9
  <2>12. Len(v \o <<b>>) = Len(v) + 1 /\ (v \o <<b>>)[Len(v) + 1] = b
      OBVIOUS
  <2>13. n + 1 \in 1 .. Len(v \o <<b>>) /\ (v \o <<b>>)[n + 1] = b
      BY <2>7, <2>10, <2>12
  <2>14. (v \o <<b>>)[n + 1] = Patched(in, ls)[n + 1]
      BY <1>1, <1>3, <2>9, <2>10, <2>11, <2>13, WrittenLength
  <2> QED BY <2>11, <2>13, <2>14
<1>9. ASSUME NEW n \in 0 .. l - 1
      PROVE  \/ \E k \in 1 .. m : Covers(ls[k], n) /\ Patched(in, ls)[n + 1] = ls[k].bytes[n - ls[k].addr + 1]
             \/ (\A k \in 1 .. m : ~ Covers(ls[k], n)) /\ Patched(in, ls)[n + 1] = in[n + 1]
    BY <1>7, <1>8
<1> QED BY <1>2, <1>5, <1>9

\* What bidiff has printed so far: the addresses in front of it whose bytes differ.
DiffInv ==
  /\ phase \in {"read", "open", "apply"} => differs = <<>>
  /\ (phase \in {"diff", "done"} /\ world \in Replacing) =>
       /\ p \in 0 .. Len(Input) /\ q = p
       /\ differs \in Seq(Nat) /\ \A i \in 1 .. Len(differs) : differs[i] < p
       /\ \A i, j \in 1 .. Len(differs) : i < j => differs[i] < differs[j]
       /\ \A n \in 0 .. Len(Input) - 1 :
            (\E i \in 1 .. Len(differs) : differs[i] = n) <=> (n < p /\ Input[n + 1] # Output[n + 1])
       /\ phase = "done" => p = Len(Input)

LEMMA ReplacingIs ==
  ASSUME NEW w \in Replacing
  PROVE  w \in Good /\ Pairs(w.input, w.patch)
<1>1. w \in Good
    BY DEF Replacing
<1>2. Ordered(w.input, w.patch)
    BY <1>1, AppliedIs DEF AppliedOf
<1>3. DOMAIN w.patch = 1 .. Len(w.patch)
    BY <1>2, PiecesAre
<1> QED BY <1>1, <1>2, <1>3 DEF Replacing, Pairs

\* The files that are compared.
LEMMA BothFiles ==
  ASSUME ReadInv, ApplyInv, phase \in {"diff", "done"}, world \in Replacing
  PROVE  /\ Output = Patched(Input, world.patch) /\ outSize = Len(Input) /\ Len(Input) \in Nat
         /\ Pairs(Input, world.patch)
<1>1. world \in Good /\ Pairs(Input, world.patch) /\ Applied = world.patch /\ Kept = world.patch
    BY ReplacingIs DEF Input, Applied, AppliedOf, Kept, KeptOf
<1>2. Output = Patched(Input, world.patch)
    BY <1>1, GoodOutput
<1>3. PICK u : /\ Shifted(world.patch, u) /\ updown \in Int
               /\ Len(Patched(Input, world.patch)) = Len(Input) + updown
    BY <1>1, ReadDone
<1>4. u[Len(world.patch)] = 0
    BY <1>1, <1>3, PairsAddNothing
<1>5. Len(Input) \in Nat /\ Ordered(Input, world.patch)
    BY <1>1, PiecesAre DEF Pairs
<1>6. outSize = Len(Input) + updown
    BY DEF ReadInv
<1>7. Len(Patched(Input, world.patch)) = Len(Input) + 0
  <2>1. At(Input, world.patch, 0, 0)
      BY <1>5, WalkStarts
  <2> QED BY <1>3, <1>4, <1>5, <2>1, WrittenLength
<1>8. updown = 0
    BY <1>3, <1>5, <1>7
<1> QED BY <1>1, <1>2, <1>5, <1>6, <1>8

\* One byte is compared.
LEMMA DiffGoesOn ==
  ASSUME ReadInv, ApplyInv, DiffInv, diff
  PROVE  DiffInv'
<1>1. /\ phase = "diff" /\ phase' = "diff" /\ world' = world /\ Output' = Output
      /\ p # Len(Input) /\ p' = p + 1 /\ q' = q + 1
      /\ differs' = IF Input[p + 1] = Output[q + 1] THEN differs ELSE Append(differs, p)
    BY DEF diff, readVars, Output
<1> SUFFICES ASSUME world \in Replacing
             PROVE  /\ p + 1 \in 0 .. Len(Input) /\ q' = p + 1
                    /\ differs' \in Seq(Nat) /\ \A i \in 1 .. Len(differs') : differs'[i] < p + 1
                    /\ \A i, j \in 1 .. Len(differs') : i < j => differs'[i] < differs'[j]
                    /\ \A n \in 0 .. Len(Input) - 1 :
                         (\E i \in 1 .. Len(differs') : differs'[i] = n) <=> (n < p + 1 /\ Input[n + 1] # Output[n + 1])
    BY <1>1 DEF DiffInv, Input
<1>2. PICK l \in Nat, a \in Nat : l = Len(Input) /\ a = p
  <2>1. Len(Input) \in Nat
      BY <1>1, BothFiles
  <2>2. p \in 0 .. Len(Input)
      BY <1>1 DEF DiffInv
  <2> QED BY <2>1, <2>2
<1>3. PICK d \in Seq(Nat) : d = differs
    BY <1>1 DEF DiffInv
<1>4. /\ a \in 0 .. l /\ q = a /\ \A i \in 1 .. Len(d) : d[i] < a
      /\ \A i, j \in 1 .. Len(d) : i < j => d[i] < d[j]
      /\ \A n \in 0 .. l - 1 : (\E i \in 1 .. Len(d) : d[i] = n) <=> (n < a /\ Input[n + 1] # Output[n + 1])
    BY <1>1, <1>2, <1>3 DEF DiffInv
<1>5. a + 1 \in 0 .. l /\ a \in 0 .. l - 1 /\ q' = a + 1
    BY <1>1, <1>2, <1>4
<1>6. \A n \in 0 .. l - 1 : n < a + 1 <=> n < a \/ n = a
    BY <1>2
<1>7. CASE Input[a + 1] = Output[a + 1]
  <2>1. differs' = d
      BY <1>1, <1>2, <1>3, <1>4, <1>7
  <2>2. \A i \in 1 .. Len(d) : d[i] < a + 1
    <3>1. \A i \in 1 .. Len(d) : d[i] \in Nat
        OBVIOUS
    <3> QED BY <1>4, <3>1
  <2>3. ASSUME NEW n \in 0 .. l - 1
        PROVE  (\E i \in 1 .. Len(d) : d[i] = n) <=> (n < a + 1 /\ Input[n + 1] # Output[n + 1])
    <3>1. n = a => ~ (Input[n + 1] # Output[n + 1])
        BY <1>7
    <3> QED BY <1>4, <1>6, <3>1
  <2> QED BY <1>2, <1>4, <1>5, <2>1, <2>2, <2>3
<1>8. CASE Input[a + 1] # Output[a + 1]
  <2>1. PICK e \in Seq(Nat) : e = Append(d, a) /\ differs' = e
    <3>1. Append(d, a) \in Seq(Nat)
        OBVIOUS
    <3>2. differs' = Append(d, a)
        BY <1>1, <1>2, <1>3, <1>4, <1>8
    <3> QED BY <3>1, <3>2
  <2>2. PICK c \in Nat : c = Len(d) /\ Len(e) = c + 1 /\ e[c + 1] = a /\ \A i \in 1 .. c : e[i] = d[i] /\ d[i] \in Nat
      BY <2>1
  <2>3. \A i \in 1 .. c + 1 : i \in 1 .. c \/ i = c + 1
      OBVIOUS
  <2>4. \A i \in 1 .. c : e[i] < a
      BY <1>4, <2>2
  <2>5. \A i \in 1 .. c + 1 : e[i] < a + 1
      BY <2>2, <2>3, <2>4
  <2>6. ASSUME NEW i \in 1 .. c + 1, NEW j \in 1 .. c + 1, i < j PROVE e[i] < e[j]
    <3>1. i \in 1 .. c
        BY <2>6
    <3>2. CASE j \in 1 .. c
        BY <1>4, <2>2, <2>6, <3>1, <3>2
    <3>3. CASE j = c + 1
        BY <2>2, <2>4, <3>1, <3>3
    <3> QED BY <2>3, <3>2, <3>3
  <2>7. ASSUME NEW n \in 0 .. l - 1
        PROVE  (\E i \in 1 .. c + 1 : e[i] = n) <=> (n < a + 1 /\ Input[n + 1] # Output[n + 1])
    <3>1. (\E i \in 1 .. c + 1 : e[i] = n) <=> (\E i \in 1 .. c : d[i] = n) \/ a = n
      <4>1. c + 1 \in 1 .. c + 1 /\ \A i \in 1 .. c : i \in 1 .. c + 1
          OBVIOUS
      <4> QED BY <2>2, <2>3, <4>1
    <3>2. (\E i \in 1 .. c : d[i] = n) <=> (n < a /\ Input[n + 1] # Output[n + 1])
        BY <1>4, <2>2
    <3> QED BY <1>6, <1>8, <3>1, <3>2
  <2>8. Len(e) = c + 1
      BY <2>2
  <2> QED BY ONLY <1>2, <1>5, <2>1, <2>5, <2>6, <2>7, <2>8
<1> QED BY <1>7, <1>8

LEMMA DiffStep ==
  ASSUME ReadInv, ApplyInv, DiffInv, [PatchNext]_patchVars
  PROVE  DiffInv'
<1>1. CASE ReadLine \/ ReadEnds \/ map_output_file \/ ApplyInsert \/ ApplyDelete \/ Copy \/ ApplyFaults
  <2>1. phase \in {"read", "open", "apply"} /\ differs' = differs /\ phase' \notin {"diff", "done"}
      BY <1>1 DEF ReadLine, ReadEnds, map_output_file, ApplyInsert, ApplyDelete, Copy, ApplyFaults, WalkStuck, Stuck, Walking
  <2> QED BY <2>1 DEF DiffInv
<1>2. CASE save
  <2>1. phase = "apply" /\ phase' = "diff" /\ p' = 0 /\ q' = 0 /\ differs' = <<>> /\ world' = world
      BY <1>2 DEF save, DiffInv
  <2>2. world \in Replacing => Len(Input) \in Nat
    <3>1. world \in Worlds
        BY DEF ReadInv
    <3> QED BY <3>1, PatchIs
  <2>3. <<>> \in Seq(Nat) /\ Len(<<>>) = 0 /\ 1 .. 0 = {} /\ \A n \in Nat : ~ (n < 0)
      OBVIOUS
  <2>4. \A n \in 0 .. Len(Input') - 1 : ~ (n < 0)
      OBVIOUS
  <2> QED BY <2>1, <2>2, <2>3, <2>4 DEF DiffInv, Input
<1>3. CASE diff
    BY <1>3, DiffGoesOn
<1>4. CASE diff_ends
  <2>1. /\ phase = "diff" /\ phase' = "done" /\ UNCHANGED <<world, p, q, mem, outSize, differs>>
        /\ p = Len(Input) \/ q = outSize
      BY <1>4 DEF diff_ends, applyVars
  <2>2. Output' = Output
      BY <2>1 DEF Output
  <2>3. world \in Replacing => p = Len(Input)
      BY <2>1, BothFiles DEF DiffInv
  <2> QED BY <2>1, <2>2, <2>3 DEF DiffInv, Input
<1>5. CASE UNCHANGED patchVars
  <2>1. UNCHANGED <<phase, world, p, q, mem, outSize, differs>>
      BY <1>5 DEF patchVars, applyVars
  <2>2. Output' = Output
      BY <2>1 DEF Output
  <2> QED BY <2>1, <2>2 DEF DiffInv, Input
<1> QED BY <1>1, <1>2, <1>3, <1>4, <1>5 DEF PatchNext

\* bidiff (diff) of a file and what bipatch made of it with a patch that replaces bytes
\* names, in rising order, the replaced addresses whose byte is another one and no others.
THEOREM DiffNamesReplacedBytesSound == PatchSpec => []DiffNamesReplacedBytes
<1>1. PatchInit => DiffInv
    BY DEF PatchInit, DiffInv
<1>2. ReadInv /\ ApplyInv /\ DiffInv /\ [PatchNext]_patchVars => DiffInv'
    BY DiffStep
<1>3. ReadInv /\ ApplyInv /\ DiffInv => DiffNamesReplacedBytes
  <2> SUFFICES ASSUME ReadInv, ApplyInv, DiffInv, phase = "done", world \in Replacing
               PROVE  /\ \A i, j \in DOMAIN differs : i < j => differs[i] < differs[j]
                      /\ \A n \in 0 .. Len(Input) - 1 :
                           (\E i \in DOMAIN differs : differs[i] = n) <=>
                           (\E k \in DOMAIN world.patch : world.patch[k].cmd = 1
                              /\ n - world.patch[k].addr \in 0 .. world.patch[k].len - 1
                              /\ world.patch[k].bytes[n - world.patch[k].addr + 1] # Input[n + 1])
      BY DEF DiffNamesReplacedBytes
  <2>1. PICK ls, all : ls = world.patch /\ all = Output
      OBVIOUS
  <2>2. all = Patched(Input, ls) /\ Pairs(Input, ls) /\ Len(Input) \in Nat
      BY <2>1, BothFiles
  <2>3. /\ DOMAIN differs = 1 .. Len(differs) /\ p = Len(Input)
        /\ \A i, j \in 1 .. Len(differs) : i < j => differs[i] < differs[j]
        /\ \A n \in 0 .. Len(Input) - 1 :
             (\E i \in 1 .. Len(differs) : differs[i] = n) <=> (n < p /\ Input[n + 1] # all[n + 1])
      BY <2>1 DEF DiffInv
  <2>4. DOMAIN ls = 1 .. Len(ls)
      BY <2>2, PiecesAre DEF Pairs
  <2>5. ASSUME NEW n \in 0 .. Len(Input) - 1
        PROVE  (\E i \in DOMAIN differs : differs[i] = n) <=>
               (\E k \in 1 .. Len(ls) : Covers(ls[k], n) /\ ls[k].bytes[n - ls[k].addr + 1] # Input[n + 1])
    <3>1. n < p /\ n \in Nat
        BY <2>2, <2>3
    <3>2. (\E i \in DOMAIN differs : differs[i] = n) <=> Input[n + 1] # all[n + 1]
        BY <2>3, <3>1
    <3>3. \/ \E k \in 1 .. Len(ls) : Covers(ls[k], n) /\ all[n + 1] = ls[k].bytes[n - ls[k].addr + 1]
          \/ (\A k \in 1 .. Len(ls) : ~ Covers(ls[k], n)) /\ all[n + 1] = Input[n + 1]
        BY <2>2, PairsReplace
    <3>4. \A i, j \in 1 .. Len(ls) : Covers(ls[i], n) /\ Covers(ls[j], n) => i = j
        BY <2>2, <3>1, OneCovers
    <3> QED BY <3>2, <3>3, <3>4
  <2>6. \A n \in 0 .. Len(Input) - 1 :
          (\E i \in DOMAIN differs : differs[i] = n) <=>
          (\E k \in DOMAIN ls : ls[k].cmd = 1 /\ n - ls[k].addr \in 0 .. ls[k].len - 1
             /\ ls[k].bytes[n - ls[k].addr + 1] # Input[n + 1])
      BY <2>4, <2>5 DEF Covers
  <2> QED BY <2>1, <2>3, <2>6
<1> QED BY <1>1, <1>2, <1>3, PatchInv, PTL DEF PatchSpec

=============================================================================
