------------------------------ MODULE LoadOrder -----------------------------
(***************************************************************************)
(* What a run-time loader promises, without slots, lists or recursion: a   *)
(* library is mapped because somebody needs it, bound once everything it   *)
(* needs itself is mapped, and the program starts when all that it can     *)
(* reach is bound.  A reference is bound to the library itself or to one   *)
(* it names as needed, never to one further away.                          *)
(***************************************************************************)
EXTENDS Integers, Sequences, FiniteSets, Functions

CONSTANTS Files, Symbols, Loader, Program, None

VARIABLES
  world,    \* needed, defines and refers of every file
  mapped,   \* files in memory
  bound,    \* where the references of a relocated file go
  started

vars == <<world, mapped, bound, started>>

NeededBy(f) == Range(world.needed[f])

\* The files f can reach, in at most n steps.
Reachable(f) ==
  LET within[n \in 0 .. Cardinality(Files)] ==
        IF n = 0 THEN {f}
        ELSE within[n - 1] \cup UNION {NeededBy(g) : g \in within[n - 1]}
  IN  within[Cardinality(Files)]

\* A reference goes to a definition the file can see, if there is one.
RightFor(f, b) ==
  \A y \in world.refers[f] :
    LET definers == {d \in {f} \cup NeededBy(f) : y \in world.defines[d]}
    IN  IF definers = {} THEN b[y] = None ELSE b[y] \in definers

Init ==
  /\ mapped = {Loader}
  /\ bound = << >>
  /\ started = FALSE

Map(f) ==
  /\ f \notin mapped
  /\ f = Program \/ \E g \in mapped \ DOMAIN bound : f \in NeededBy(g)
  /\ mapped' = mapped \cup {f}
  /\ UNCHANGED <<bound, started>>

Bind(f) ==
  /\ f \in mapped \ DOMAIN bound
  /\ NeededBy(f) \subseteq mapped
  /\ DOMAIN bound' = DOMAIN bound \cup {f}
  /\ \A g \in DOMAIN bound : bound'[g] = bound[g]
  /\ RightFor(f, bound'[f])
  /\ UNCHANGED <<mapped, started>>

Start ==
  /\ ~started
  /\ Reachable(Program) \subseteq DOMAIN bound
  /\ started' = TRUE
  /\ UNCHANGED <<mapped, bound>>

Next == world' = world /\ (Start \/ \E f \in Files : Map(f) \/ Bind(f))

Spec == Init /\ [][Next]_vars
=============================================================================
