----------------------------- MODULE LoaderProofs ----------------------------
(***************************************************************************)
(* For any files and any way in which they need each other, the loader     *)
(* gives every name one slot, binds every library to what it sees, and     *)
(* implements LoadOrder.                                                   *)
(*                                                                         *)
(* The list behind HEAD is walked by load_direct_deps, which is a          *)
(* recursive function here: Least and Recursion below give induction and   *)
(* recursion over numbers in a form that speaks of sets and functions.     *)
(* The invariant has three parts: what is true of the slots in any world   *)
(* (Placed), of the libraries whose needs are being walked (Walking), and  *)
(* of the list when the loader finds its own libraries (Listed).           *)
(***************************************************************************)
EXTENDS Loader, FiniteSetTheorems, SequenceTheorems, NaturalsInduction, WellFoundedInduction, TLAPS

Phases == {"preload", "self", "program", "loaded", "running", "stuck"}

LoaderTypes ==
  /\ world \in Worlds
  /\ name \in [Slots -> Files \cup {None}] /\ image \in [Slots -> Files \cup {None}]
  /\ next \in [Slots -> Slots \cup {None}] /\ tail \in Slots
  /\ deps \in [Slots -> SUBSET (0 .. MaxSlots)]
  /\ bound \in [Slots -> [Symbols -> Slots \cup {None}] \cup {None}]
  /\ stack \in Seq([slot : Slots, i : Nat \ {0}])
  /\ k \in 0 .. DepsN /\ phase \in Phases

\* A slot is filled once, and only slots up to TAIL and the loader's own are.
Placed ==
  /\ name[DepsN] = Loader /\ image[DepsN] = Loader
  /\ \A s \in Slots :
       /\ image[s] \in {None, name[s]}
       /\ name[s] \in world.mappable => image[s] = name[s]
       /\ s # DepsN /\ name[s] # None => s <= tail
       /\ next[s] # None => next[s] <= tail
       /\ bound[s] # None => name[s] # None

\* Where __start is.
Started ==
  /\ phase = "preload" =>
       /\ tail <= k /\ (DepsN > 0 => tail < DepsN)
       /\ stack # <<>> => k < DepsN
       /\ \A s \in Slots : s # DepsN /\ name[s] # None => s <= k /\ (s = k => stack # <<>>)
  /\ phase = "self" => k = DepsN
  /\ phase \notin {"preload", "stuck"} => DepsN <= tail
  /\ phase \in {"self", "loaded", "running"} => stack = <<>>

\* The first i - 1 needs of the library in slot s, none of them missing, and the
\* library itself are what its bits name.
Gathered(s, i) ==
  (image[s] # None /\ Range(Needed(s)) \subseteq world.present) =>
    /\ s \in deps[s]
    /\ \A d \in deps[s] :
         d = s \/ (d \in 0 .. tail /\ name[d] \in Range(Needed(s)))
    /\ \A j \in 1 .. Len(Needed(s)) : j < i =>
         \E d \in deps[s] : d \in 0 .. tail /\ name[d] = Needed(s)[j]

Walking ==
  /\ \A p \in 1 .. Len(stack) :
       LET s == stack[p].slot IN
       /\ s # DepsN /\ name[s] # None /\ s <= tail /\ bound[s] = None
       /\ Gathered(s, stack[p].i)
       /\ \A q \in 1 .. Len(stack) : q # p => stack[q].slot # s
  /\ \A p \in 1 .. Len(stack) - 1 :
       LET s == stack[p].slot IN
       /\ stack[p].i <= Len(Needed(s))
       /\ name[stack[p + 1].slot] = Needed(s)[stack[p].i]

NamesDiffer == \A s, t \in Slots : name[s] # None /\ name[s] = name[t] => s = t

\* The list is HEAD, the slot behind it and so on.  While the first library is
\* loaded, and until there is a second, HEAD is its own successor.
Listed ==
  LET circle == phase = "preload" /\ (k > 0 \/ stack # <<>>) IN
  phase # "stuck" =>
    /\ \A s \in Slots :
         next[s] = IF s < tail THEN s + 1 ELSE IF s = 0 /\ circle THEN 0 ELSE None
    /\ \A s \in Slots : s <= tail /\ (phase = "preload" => circle) => name[s] # None
    /\ \A j \in 1 .. DepsN :
         phase # "preload" \/ j <= k \/ (j = k + 1 /\ stack # <<>>) => name[j - 1] = world.needed[Loader][j]
    /\ phase = "preload" => tail = IF stack # <<>> THEN k ELSE IF k = 0 THEN 0 ELSE k - 1
    /\ phase \in {"preload", "self"} \/ (phase = "program" /\ stack = <<>>) =>
         \A s \in Slots : name[s] # Program

LoaderInv ==
  /\ LoaderTypes /\ Placed /\ Started /\ Walking /\ BoundToWhatItSees
  /\ OwnFound => NamesDiffer /\ Listed

\* In a supported world every library that has a slot is bound or being walked.
AllBound ==
  /\ \A s \in Slots : bound[s] # None =>
       /\ s # DepsN => Range(Needed(s)) \subseteq MappedFiles
       /\ \A y \in Symbols : bound[s][y] # None => image[bound[s][y]] # None
  /\ \A s \in Slots : s # DepsN /\ name[s] # None =>
       bound[s] # None \/ \E p \in 1 .. Len(stack) : stack[p].slot = s

\* The loader is bound to its libraries, if it has some, before the program is
\* loaded, and the program is loaded before it is entered.
SelfBound ==
  /\ phase \in {"preload", "self"} => bound[DepsN] = None
  /\ DepsN > 0 /\ phase = "self" => deps[DepsN] = 0 .. DepsN - 1
  /\ DepsN > 0 /\ phase \in {"program", "loaded", "running"} => bound[DepsN] # None
  /\ phase \in {"loaded", "running"} \/ (phase = "program" /\ stack # <<>>) =>
       Program \in MappedFiles

OrderInv == LoaderInv /\ (Supported => AllBound /\ SelfBound)

----------------------------------------------------------------------------
(* Induction and recursion over numbers                                    *)

\* A set of numbers has a least one.
LEMMA Least ==
  ASSUME NEW T, T \subseteq Nat, T # {}
  PROVE  \E m \in T : \A n \in T : m <= n
<1>1. OpToRel(<, Nat) = {ss \in Nat \X Nat : ss[1] < ss[2]}
    BY DEF OpToRel
<1>2. PICK m \in T : \A n \in T : ~ (<<n, m>> \in OpToRel(<, Nat))
    BY WFMin, NatLessThanWellFounded
<1>3. ASSUME NEW n \in T PROVE ~ (n < m)
  <2>1. <<n, m>> \in Nat \X Nat
      OBVIOUS
  <2> QED BY <1>1, <1>2, <2>1
<1>4. m \in Nat /\ \A n \in T : n \in Nat
    OBVIOUS
<1> QED BY <1>3, <1>4

\* And a greatest one, if there is a bound.
LEMMA Greatest ==
  ASSUME NEW b \in Nat, NEW T, T \subseteq 0 .. b, T # {}
  PROVE  \E m \in T : \A n \in T : m >= n
<1> DEFINE U == {b - n : n \in T}
<1>1. U \subseteq Nat /\ U # {}
  <2>1. ASSUME NEW n \in T PROVE b - n \in Nat
      OBVIOUS
  <2> QED BY <2>1
<1>2. PICK u \in U : \A v \in U : u <= v
  <2> HIDE DEF U
  <2> QED BY <1>1, Least
<1>3. PICK m \in T : u = b - m
    OBVIOUS
<1>4. ASSUME NEW n \in T PROVE m >= n
  <2>1. u <= b - n
      BY <1>2
  <2> QED BY <1>3, <2>1
<1> QED BY <1>4

LEMMA SetInduction ==
  ASSUME NEW S, 0 \in S, \A n \in Nat : n \in S => n + 1 \in S
  PROVE  Nat \subseteq S
<1> SUFFICES ASSUME Nat \ S # {} PROVE FALSE
    OBVIOUS
<1>1. PICK m \in Nat \ S : \A n \in Nat \ S : m <= n
    BY Least
<1>2. m - 1 \in Nat \ S
    BY <1>1
<1> QED BY <1>1, <1>2

\* f[m] is F applied m times to b.
Repeated(F, b, f, V, n) ==
  f \in [0 .. n -> V] /\ f[0] = b /\ \A m \in 1 .. n : f[m] = F[f[m - 1]]

LEMMA RecursionExists ==
  ASSUME NEW V, NEW b \in V, NEW F \in [V -> V], NEW n \in Nat
  PROVE  \E f : Repeated(F, b, f, V, n)
<1> DEFINE S == {m \in Nat : \E f : Repeated(F, b, f, V, m)}
<1>1. 0 \in S
  <2>1. Repeated(F, b, [j \in 0 .. 0 |-> b], V, 0)
      BY DEF Repeated
  <2> QED BY <2>1
<1>2. ASSUME NEW m \in Nat, m \in S PROVE m + 1 \in S
  <2>1. PICK f : Repeated(F, b, f, V, m)
      BY <1>2
  <2> DEFINE g == [j \in 0 .. m + 1 |-> IF j = m + 1 THEN F[f[m]] ELSE f[j]]
  <2>2. f[m] \in V /\ F[f[m]] \in V
      BY <2>1 DEF Repeated
  <2>3. g \in [0 .. m + 1 -> V] /\ g[0] = b
      BY <2>1, <2>2 DEF Repeated
  <2>4. \A j \in 1 .. m + 1 : g[j] = F[g[j - 1]]
      BY <2>1 DEF Repeated
  <2>5. Repeated(F, b, g, V, m + 1)
      BY <2>3, <2>4 DEF Repeated
  <2>6. \E h : Repeated(F, b, h, V, m + 1)
    <3> HIDE DEF g
    <3> QED BY <2>5
  <2> QED BY <2>6
<1>3. n \in S
  <2> HIDE DEF S
  <2> QED BY <1>1, <1>2, SetInduction
<1> QED BY <1>3

----------------------------------------------------------------------------
(* The operators of the loader                                             *)

LEMMA SlotsTyped ==
  ASSUME LoaderTypes
  PROVE  /\ DepsN \in Nat /\ DepsN < MaxSlots - 1 /\ DepsN \in Slots /\ 0 \in Slots
         /\ Slots \subseteq Nat /\ None \notin Slots
         /\ world.needed \in [Files -> Seq(Files)]
         /\ \A j \in 1 .. DepsN : world.needed[Loader][j] \in Files
         /\ \A i, j \in 1 .. DepsN : world.needed[Loader][i] = world.needed[Loader][j] => i = j
<1>1. world.needed \in [Files -> Seq(Files)]
    BY WorldsAssumption DEF LoaderTypes
<1>2. world.needed[Loader] \in Seq(Files)
    BY <1>1, SlotsAssumption
<1>3. DepsN \in Nat /\ DOMAIN world.needed[Loader] = 1 .. DepsN
    BY <1>2, LenProperties DEF DepsN
<1>4. \A j \in 1 .. DepsN : world.needed[Loader][j] \in Files
    BY <1>2, ElementOfSeq DEF DepsN
<1>5. DepsN < MaxSlots - 1
    BY WorldsAssumption DEF LoaderTypes, DepsN
<1>6. \A i, j \in 1 .. DepsN : world.needed[Loader][i] = world.needed[Loader][j] => i = j
    BY <1>3, WorldsAssumption DEF LoaderTypes
<1> QED BY <1>1, <1>3, <1>4, <1>5, <1>6, SlotsAssumption DEF Slots

LEMMA NeededTyped ==
  ASSUME LoaderTypes, NEW s \in Slots
  PROVE  /\ Needed(s) \in Seq(Files) /\ Len(Needed(s)) \in Nat
         /\ \A j \in 1 .. Len(Needed(s)) : Needed(s)[j] \in Files
         /\ Range(Needed(s)) = {Needed(s)[j] : j \in 1 .. Len(Needed(s))}
<1>1. Needed(s) \in Seq(Files)
    BY SlotsTyped DEF Needed, LoaderTypes
<1>2. Len(Needed(s)) \in Nat /\ DOMAIN Needed(s) = 1 .. Len(Needed(s))
    BY <1>1, LenProperties
<1>3. \A j \in 1 .. Len(Needed(s)) : Needed(s)[j] \in Files
    BY <1>1, ElementOfSeq
<1> QED BY <1>1, <1>2, <1>3 DEF Range

\* The walk of load_direct_deps stays in the slots up to TAIL.
LEMMA WalkedTyped ==
  ASSUME LoaderTypes, Placed
  PROVE  /\ Walked \in [0 .. MaxSlots -> (0 .. tail) \cup {None}]
         /\ Walked[0] = 0
         /\ \A n \in 0 .. MaxSlots - 1 :
              Walked[n + 1] = IF Walked[n] = None THEN None ELSE next[Walked[n]]
         /\ DOMAIN Walked = 0 .. MaxSlots
<1> DEFINE V == (0 .. tail) \cup {None}
<1> DEFINE F == [v \in V |-> IF v = None THEN None ELSE next[v]]
<1> DEFINE Body(q) == [n \in 0 .. MaxSlots |->
                         IF n = 0 THEN 0 ELSE IF q[n - 1] = None THEN None ELSE next[q[n - 1]]]
<1>1. tail \in Nat /\ MaxSlots \in Nat /\ 0 .. tail \subseteq Slots
    BY SlotsAssumption DEF LoaderTypes, Slots
<1>2. \A v \in 0 .. tail : next[v] \in V
  <2>1. ASSUME NEW v \in 0 .. tail PROVE next[v] \in V
    <3>1. v \in Slots /\ next[v] \in Slots \cup {None}
        BY <1>1 DEF LoaderTypes
    <3>2. next[v] # None => next[v] <= tail
        BY <3>1 DEF Placed
    <3> QED BY <1>1, <3>1, <3>2 DEF Slots
  <2> QED BY <2>1
<1>3. \E q : q = Body(q)
  <2>1. F \in [V -> V] /\ 0 \in V
      BY <1>1, <1>2
  <2>2. PICK q \in [0 .. MaxSlots -> V] : q[0] = 0 /\ \A n \in 1 .. MaxSlots : q[n] = F[q[n - 1]]
    <3> HIDE DEF F, V
    <3>1. \E q : Repeated(F, 0, q, V, MaxSlots)
        BY <1>1, <2>1, RecursionExists
    <3> QED BY <3>1 DEF Repeated
  <2>3. ASSUME NEW n \in 1 .. MaxSlots
        PROVE  q[n] = IF q[n - 1] = None THEN None ELSE next[q[n - 1]]
    <3>1. q[n - 1] \in V
        BY <2>2, <1>1
    <3> QED BY <2>2, <3>1
  <2>4. q = Body(q)
      BY <2>2, <2>3
  <2> QED BY <2>4
<1>4. Walked = Body(Walked)
    BY <1>3 DEF Walked
<1>5. DOMAIN Walked = 0 .. MaxSlots /\ Walked[0] = 0
    BY <1>1, <1>4
<1>6. ASSUME NEW n \in 0 .. MaxSlots - 1
      PROVE  Walked[n + 1] = IF Walked[n] = None THEN None ELSE next[Walked[n]]
    BY <1>1, <1>4
<1> DEFINE S == {n \in Nat : n <= MaxSlots => Walked[n] \in V}
<1>7. 0 \in S
    BY <1>1, <1>5
<1>8. ASSUME NEW n \in Nat, n \in S PROVE n + 1 \in S
    BY <1>1, <1>2, <1>6, <1>8
<1>9. \A n \in 0 .. MaxSlots : Walked[n] \in V
  <2>1. Nat \subseteq S
    <3> HIDE DEF S
    <3> QED BY <1>7, <1>8, SetInduction
  <2> QED BY <1>1, <2>1
<1>10. Walked = [n \in 0 .. MaxSlots |-> Walked[n]]
    BY <1>4, <1>5
<1> QED BY <1>5, <1>6, <1>9, <1>10

LEMMA SearchStops ==
  ASSUME LoaderTypes, Placed, NEW f, Stops(f) # {}
  PROVE  \E n \in Stops(f) : /\ ListSearch(f) = Walked[n]
                             /\ \A m \in Stops(f) : n <= m
<1>1. Stops(f) \subseteq Nat
    BY WalkedTyped DEF Stops
<1>2. \E n \in Stops(f) : \A m \in Stops(f) : n <= m
    BY <1>1, Least
<1>3. Min(Stops(f)) \in Stops(f) /\ \A m \in Stops(f) : Min(Stops(f)) <= m
    BY <1>2 DEF Min
<1> QED BY <1>3 DEF ListSearch

LEMMA SearchTyped ==
  ASSUME LoaderTypes, Placed, NEW f, Stops(f) # {}
  PROVE  ListSearch(f) \in (0 .. tail) \cup {None}
<1>1. PICK n \in Stops(f) : ListSearch(f) = Walked[n]
    BY SearchStops
<1> QED BY <1>1, WalkedTyped DEF Stops

\* A name that is not found has no slot.
LEMMA SearchFindsAll ==
  ASSUME LoaderTypes, Placed, Started, Listed, phase = "program",
         NEW f \in Files, Stops(f) # {}, ListSearch(f) = None, NEW s \in Slots
  PROVE  name[s] # f
<1>1. /\ tail \in Nat /\ tail < MaxSlots /\ MaxSlots \in Nat /\ None \notin Slots
      /\ \A n \in Slots : n < tail => next[n] = n + 1
      /\ \A n \in Slots : n < tail => n + 1 \in Slots
    BY SlotsAssumption DEF LoaderTypes, Slots, Listed
<1> DEFINE S == {n \in Nat : n <= tail => Walked[n] = n}
<1>2. 0 \in S
    BY WalkedTyped
<1>3. ASSUME NEW n \in Nat, n \in S PROVE n + 1 \in S
  <2> SUFFICES ASSUME n + 1 <= tail PROVE Walked[n + 1] = n + 1
      OBVIOUS
  <2>1. n \in Slots /\ n < tail /\ n \in 0 .. MaxSlots - 1 /\ Walked[n] = n
      BY <1>1, <1>3 DEF Slots
  <2>2. Walked[n + 1] = next[n]
      BY <1>1, <2>1, WalkedTyped
  <2> QED BY <1>1, <2>1, <2>2
<1>4. \A n \in 0 .. tail : Walked[n] = n
  <2>1. Nat \subseteq S
    <3> HIDE DEF S
    <3> QED BY <1>2, <1>3, SetInduction
  <2> QED BY <1>1, <2>1
<1> SUFFICES ASSUME name[s] = f PROVE FALSE
    OBVIOUS
<1>5. s \in 0 .. tail
  <2>1. name[s] # None
      BY SlotsAssumption
  <2>2. s <= tail
      BY <2>1 DEF Placed, Started
  <2> QED BY <1>1, <2>2 DEF Slots
<1>6. s \in Stops(f)
    BY <1>1, <1>4, <1>5, WalkedTyped DEF Stops
<1>7. PICK n \in Stops(f) : ListSearch(f) = Walked[n] /\ \A m \in Stops(f) : n <= m
    BY SearchStops
<1>8. n \in 0 .. tail
  <2>1. n \in 0 .. MaxSlots
      BY WalkedTyped DEF Stops
  <2> QED BY <1>1, <1>5, <1>6, <1>7, <2>1
<1>9. Walked[n] \in Slots
    BY <1>1, <1>4, <1>8 DEF Slots
<1> QED BY <1>1, <1>7, <1>9

\* The libraries of s in which find_sym finds y.
Providers(s, y) ==
  {d \in deps[s] \cap 0 .. tail : image[d] # None /\ y \in world.defines[image[d]]}

LEMMA FindSymFinds ==
  ASSUME LoaderTypes, NEW s, NEW y
  PROVE  IF Providers(s, y) = {} THEN find_sym(s, y) = None ELSE find_sym(s, y) \in Providers(s, y)
<1>1. tail \in Nat
    BY SlotsTyped DEF LoaderTypes
<1>2. Providers(s, y) \subseteq 0 .. tail
    BY DEF Providers
<1>3. find_sym(s, y) = IF Providers(s, y) = {} THEN None ELSE Max(Providers(s, y))
    BY DEF find_sym, Providers
<1>4. ASSUME Providers(s, y) # {} PROVE Max(Providers(s, y)) \in Providers(s, y)
  <2>1. \E m \in Providers(s, y) : \A n \in Providers(s, y) : m >= n
      BY <1>1, <1>2, <1>4, Greatest
  <2> QED BY <2>1 DEF Max
<1> QED BY <1>3, <1>4

\* What BoundToWhatItSees says of one reference.
RightSlot(s, y, d) ==
  LET definers == {f \in Sees(s) : y \in world.defines[f]}
  IN  IF definers = {} THEN d = None ELSE FileIn(d) \in definers

\* When all needs of a library are gathered, find_sym is right for it.
LEMMA GatheredIsRight ==
  ASSUME LoaderTypes, Placed, NEW s \in Slots, s <= tail, image[s] # None,
         NEW i \in Nat, Gathered(s, i), i > Len(Needed(s)),
         Range(Needed(s)) \subseteq world.present \cap world.mappable, NEW y
  PROVE  RightSlot(s, y, find_sym(s, y))
<1> DEFINE definers == {f \in Sees(s) : y \in world.defines[f]}
<1>1. /\ s \in deps[s]
      /\ \A d \in deps[s] : d = s \/ (d \in 0 .. tail /\ name[d] \in Range(Needed(s)))
      /\ \A j \in 1 .. Len(Needed(s)) : \E d \in deps[s] : d \in 0 .. tail /\ name[d] = Needed(s)[j]
    BY NeededTyped DEF Gathered
<1>2. tail \in Nat /\ 0 .. tail \subseteq Slots /\ s \in 0 .. tail
    BY SlotsTyped, SlotsAssumption DEF LoaderTypes, Slots
<1>3. ASSUME NEW d \in Providers(s, y) PROVE d \in Slots /\ d # None /\ image[d] \in definers
  <2>1. d \in Slots /\ d \in deps[s] /\ image[d] # None /\ y \in world.defines[image[d]]
      BY <1>2 DEF Providers
  <2>2. image[d] = name[d]
      BY <2>1 DEF Placed
  <2>3. image[d] \in Sees(s)
      BY <1>1, <2>1, <2>2 DEF Sees
  <2> QED BY <2>1, <2>3, SlotsTyped
<1>4. ASSUME NEW f \in definers PROVE Providers(s, y) # {}
  <2>1. CASE f = image[s]
      BY <1>1, <1>2, <2>1 DEF Providers
  <2>2. CASE f \in Range(Needed(s))
    <3>1. PICK j \in 1 .. Len(Needed(s)) : f = Needed(s)[j]
        BY <2>2, NeededTyped
    <3>2. PICK d \in deps[s] : d \in 0 .. tail /\ name[d] = f
        BY <1>1, <3>1
    <3>3. image[d] = f /\ f # None
        BY <1>2, <2>2, <3>2, WorldsAssumption, SlotsAssumption DEF Placed, LoaderTypes
    <3> QED BY <3>2, <3>3 DEF Providers
  <2> QED BY <2>1, <2>2 DEF Sees
<1>5. CASE Providers(s, y) = {}
    BY <1>4, <1>5, FindSymFinds DEF RightSlot
<1>6. CASE Providers(s, y) # {}
  <2>1. find_sym(s, y) \in Providers(s, y)
      BY <1>6, FindSymFinds
  <2>2. FileIn(find_sym(s, y)) \in definers
      BY <1>3, <2>1 DEF FileIn
  <2> QED BY <2>2 DEF RightSlot
<1> QED BY <1>5, <1>6

LEMMA FindSymTyped ==
  ASSUME LoaderTypes, NEW s, NEW y
  PROVE  find_sym(s, y) \in Slots \cup {None}
<1>1. Providers(s, y) \subseteq Slots
    BY SlotsTyped, SlotsAssumption DEF LoaderTypes, Slots, Providers
<1> QED BY <1>1, FindSymFinds

LEMMA BoundMeans ==
  BoundToWhatItSees <=>
    \A s \in Slots :
      (bound[s] # None /\ image[s] # None /\ s # DepsN
       /\ Range(Needed(s)) \subseteq world.present \cap world.mappable) =>
        \A y \in world.refers[image[s]] : RightSlot(s, y, bound[s][y])
BY DEF BoundToWhatItSees, RightSlot

----------------------------------------------------------------------------
(* The invariant is kept by every step                                     *)

\* What a library has gathered stays, as others are loaded.
LEMMA GatheredKept ==
  ASSUME LoaderTypes, NEW s \in Slots, NEW i, Gathered(s, i),
         tail' \in Nat, tail <= tail', world' = world,
         image'[s] = image[s], deps'[s] = deps[s],
         \A d \in Slots : name[d] # None => name'[d] = name[d]
  PROVE  Gathered(s, i)' /\ Needed(s)' = Needed(s)
<1>1. Needed(s)' = Needed(s)
    BY DEF Needed
<1>2. tail \in Nat /\ 0 .. tail \subseteq 0 .. tail' /\ 0 .. tail \subseteq Slots
    BY SlotsTyped, SlotsAssumption DEF LoaderTypes, Slots
<1>3. None \notin Range(Needed(s)) /\ \A j \in 1 .. Len(Needed(s)) : Needed(s)[j] # None
    BY NeededTyped, SlotsAssumption
<1>4. \A d \in 0 .. tail : name[d] # None => name'[d] = name[d]
    BY <1>2
<1> SUFFICES ASSUME image'[s] # None, Range(Needed(s)') \subseteq world'.present
             PROVE  Gathered(s, i)'
    BY <1>1 DEF Gathered
<1>5. /\ s \in deps[s]
      /\ \A d \in deps[s] : d = s \/ (d \in 0 .. tail /\ name[d] \in Range(Needed(s)))
      /\ \A j \in 1 .. Len(Needed(s)) : j < i =>
           \E d \in deps[s] : d \in 0 .. tail /\ name[d] = Needed(s)[j]
    BY <1>1 DEF Gathered
<1>6. ASSUME NEW d \in deps[s], d # s
      PROVE  d \in 0 .. tail' /\ name'[d] \in Range(Needed(s))
    BY <1>2, <1>3, <1>4, <1>5, <1>6
<1>7. ASSUME NEW j \in 1 .. Len(Needed(s)), j < i
      PROVE  \E d \in deps[s] : d \in 0 .. tail' /\ name'[d] = Needed(s)[j]
    BY <1>2, <1>3, <1>4, <1>5, <1>7
<1> QED BY <1>1, <1>5, <1>6, <1>7 DEF Gathered

LEMMA TopTyped ==
  ASSUME LoaderTypes, stack # <<>>
  PROVE  /\ Len(stack) \in Nat \ {0} /\ Top \in [slot : Slots, i : Nat \ {0}]
         /\ Top.slot \in Slots /\ Top.i \in Nat \ {0}
         /\ \A p \in 1 .. Len(stack) : stack[p] \in [slot : Slots, i : Nat \ {0}]
<1>1. stack \in Seq([slot : Slots, i : Nat \ {0}])
    BY DEF LoaderTypes
<1>2. \A p \in 1 .. Len(stack) : stack[p] \in [slot : Slots, i : Nat \ {0}]
    BY <1>1, ElementOfSeq
<1>3. Len(stack) \in Nat \ {0}
    BY <1>1, EmptySeq
<1>4. Top \in [slot : Slots, i : Nat \ {0}]
    BY <1>2, <1>3 DEF Top
<1> QED BY <1>2, <1>3, <1>4

LEMMA InitLoader == Init => LoaderInv
<1> SUFFICES ASSUME Init PROVE LoaderInv
    OBVIOUS
<1>1. DepsN \in Nat /\ DepsN < MaxSlots - 1 /\ DepsN \in Slots /\ 0 \in Slots /\ None \notin Slots
  <2>1. world.needed[Loader] \in Seq(Files) /\ DepsN < MaxSlots - 1
      BY WorldsAssumption, SlotsAssumption DEF Init, DepsN
  <2>2. DepsN \in Nat
      BY <2>1 DEF DepsN
  <2> QED BY <2>1, <2>2, SlotsAssumption DEF Slots
<1>2. LoaderTypes
  <2>1. stack \in Seq([slot : Slots, i : Nat \ {0}])
      BY DEF Init
  <2>2. name \in [Slots -> Files \cup {None}]
      BY SlotsAssumption DEF Init
  <2> QED BY <1>1, <2>1, <2>2 DEF Init, LoaderTypes, Phases
<1>3. Placed
  <2>1. name[DepsN] = Loader /\ image = name
      BY <1>1 DEF Init
  <2>2. \A s \in Slots : next[s] = None /\ bound[s] = None /\ (s # DepsN => name[s] = None)
      BY DEF Init
  <2> QED BY <2>1, <2>2, <1>1 DEF Placed
<1>4. Started /\ Walking
  <2>1. \A s \in Slots : s # DepsN => name[s] = None
      BY DEF Init
  <2> QED BY <1>1, <2>1 DEF Init, Started, Walking
<1>5. BoundToWhatItSees
    BY DEF Init, BoundToWhatItSees
<1>6. ASSUME OwnFound PROVE NamesDiffer /\ Listed
  <2>1. \A s \in Slots : next[s] = None /\ name[s] = IF s = DepsN THEN Loader ELSE None
      BY DEF Init
  <2>2. Loader # Program
      BY <1>6 DEF OwnFound
  <2>3. NamesDiffer
      BY <2>1 DEF NamesDiffer
  <2>4. Listed
      BY <1>1, <2>1, <2>2, SlotsAssumption DEF Init, Listed, Slots
  <2> QED BY <2>3, <2>4
<1> QED BY <1>2, <1>3, <1>4, <1>5, <1>6 DEF LoaderInv

\* A library is bound for ever: what the names, images and bindings of filled
\* slots were, they are.
LEMMA BoundKept ==
  ASSUME LoaderTypes, Placed, BoundToWhatItSees, world' = world,
         \A t \in Slots : image[t] # None => image'[t] = image[t],
         \A t \in Slots : bound[t] = None => image'[t] = None \/ bound'[t] = None,
         \A t \in Slots : bound[t] # None => bound'[t] = bound[t] /\ image'[t] = image[t]
  PROVE  BoundToWhatItSees'
<1>1. DepsN' = DepsN /\ Slots' = Slots
    BY DEF DepsN, Slots
<1> SUFFICES ASSUME NEW s \in Slots, bound'[s] # None, image'[s] # None, s # DepsN,
                    Range(Needed(s)') \subseteq world.present \cap world.mappable,
                    NEW y \in world.refers[image'[s]]
             PROVE  RightSlot(s, y, bound[s][y])'
    BY <1>1 DEF BoundToWhatItSees, RightSlot
<1>2. bound[s] # None /\ bound'[s] = bound[s] /\ image'[s] = image[s]
    OBVIOUS
<1>3. Needed(s)' = Needed(s) /\ Sees(s)' = Sees(s)
    BY <1>2 DEF Needed, Sees
<1>4. RightSlot(s, y, bound[s][y])
    BY <1>2, <1>3, BoundMeans
<1>5. y \in Symbols
  <2>1. image[s] \in Files /\ world \in Worlds
      BY <1>2 DEF LoaderTypes
  <2>2. world.refers[image[s]] \subseteq Symbols
      BY <2>1, WorldsAssumption
  <2> QED BY <1>2, <2>2
<1>6. bound[s][y] \in Slots \cup {None}
    BY <1>2, <1>5 DEF LoaderTypes
<1>7. FileIn(bound[s][y]) \notin {None} => FileIn(bound[s][y])' = FileIn(bound[s][y])
    BY <1>2, <1>6 DEF FileIn
<1>8. None \notin Sees(s)
    BY <1>2, NeededTyped, SlotsAssumption DEF Sees
<1> DEFINE definers == {f \in Sees(s) : y \in world.defines[f]}
<1>9. CASE definers = {}
    BY <1>2, <1>3, <1>4, <1>9 DEF RightSlot
<1>10. CASE definers # {}
  <2>1. FileIn(bound[s][y]) \in definers /\ FileIn(bound[s][y]) # None
      BY <1>4, <1>8, <1>10 DEF RightSlot
  <2>2. FileIn(bound[s][y])' = FileIn(bound[s][y])
      BY <1>7, <2>1
  <2> QED BY <1>3, <1>10, <2>1, <2>2 DEF RightSlot
<1> QED BY <1>9, <1>10

\* load_library at an empty slot, for the entry on top of the stack if any.
Fits(f, s) ==
  /\ f \in Files /\ s \in Slots /\ s # DepsN /\ name[s] = None /\ tail <= s
  /\ load_library(f, s) /\ phase' = phase
  /\ stack # <<>> => Top.i <= Len(Needed(Top.slot)) /\ f = Wanted

LEMMA LoadKeepsPlaces ==
  ASSUME LoaderTypes, Placed, NEW f, NEW s, Fits(f, s)
  PROVE  /\ LoaderTypes' /\ Placed' /\ DepsN' = DepsN
         /\ \A t \in Slots : t # s => name'[t] = name[t] /\ image'[t] = image[t] /\ deps'[t] = deps[t]
         /\ \A t \in Slots : name[t] # None => t # s
         /\ name'[s] = f /\ image[s] = None /\ bound[s] = None /\ deps'[s] = {s}
<1>1. f \in Files /\ s \in Slots /\ s # DepsN /\ name[s] = None /\ tail <= s
    BY DEF Fits
<1>2. /\ name' = [name EXCEPT ![s] = f]
      /\ image' = [image EXCEPT ![s] = IF @ = None /\ f \in world.mappable THEN f ELSE @]
      /\ next' = [next EXCEPT ![tail] = s] /\ tail' = s
      /\ deps' = [deps EXCEPT ![s] = {s}]
      /\ stack' = Append(stack, [slot |-> s, i |-> 1])
      /\ world' = world /\ bound' = bound /\ k' = k /\ phase' = phase
    BY DEF Fits, load_library
<1>3. image[s] = None /\ bound[s] = None
    BY <1>1 DEF Placed
<1>4. DepsN' = DepsN
    BY <1>2 DEF DepsN
<1>5. stack' \in Seq([slot : Slots, i : Nat \ {0}])
  <2>1. [slot |-> s, i |-> 1] \in [slot : Slots, i : Nat \ {0}]
      BY <1>1
  <2>2. stack \in Seq([slot : Slots, i : Nat \ {0}])
      BY DEF LoaderTypes
  <2> QED BY <1>2, <2>1, <2>2, AppendProperties
<1>6. deps' \in [Slots -> SUBSET (0 .. MaxSlots)]
  <2>1. {s} \in SUBSET (0 .. MaxSlots)
      BY <1>1, SlotsAssumption DEF Slots
  <2> QED BY <1>2, <2>1 DEF LoaderTypes
<1>7. LoaderTypes'
    BY <1>1, <1>2, <1>4, <1>5, <1>6 DEF LoaderTypes, Slots
<1>8. \A t \in Slots : t # s => name'[t] = name[t] /\ image'[t] = image[t] /\ deps'[t] = deps[t]
    BY <1>2 DEF LoaderTypes
<1>9. name'[s] = f /\ image'[s] = (IF f \in world.mappable THEN f ELSE None) /\ deps'[s] = {s}
    BY <1>1, <1>2, <1>3 DEF LoaderTypes
<1>10. tail \in Nat /\ s \in Nat /\ Slots' = Slots /\ DepsN \in Slots
    BY <1>1, SlotsTyped DEF LoaderTypes, Slots
<1>11. ASSUME NEW t \in Slots
       PROVE  /\ image'[t] \in {None, name'[t]}
              /\ name'[t] \in world.mappable => image'[t] = name'[t]
              /\ t # DepsN /\ name'[t] # None => t <= s
              /\ next'[t] # None => next'[t] <= s
              /\ bound[t] # None => name'[t] # None
  <2>1. next'[t] = (IF t = tail THEN s ELSE next[t]) /\ next[t] \in Slots \cup {None}
      BY <1>2 DEF LoaderTypes
  <2>2. next'[t] # None => next'[t] <= s
      BY <1>1, <1>10, <2>1, SlotsTyped DEF Placed
  <2>3. CASE t = s
      BY <1>1, <1>3, <1>9, <1>10, <2>2, <2>3, SlotsAssumption
  <2>4. CASE t # s
      BY <1>1, <1>8, <1>10, <2>2, <2>4, SlotsTyped DEF Placed
  <2> QED BY <2>3, <2>4
<1>12. name'[DepsN] = Loader /\ image'[DepsN] = Loader
    BY <1>1, <1>8, <1>10 DEF Placed
<1>13. Placed'
    BY <1>2, <1>4, <1>10, <1>11, <1>12 DEF Placed
<1> QED BY <1>1, <1>3, <1>4, <1>7, <1>8, <1>9, <1>13

LEMMA LoadKeepsWalking ==
  ASSUME LoaderTypes, Placed, Walking, NEW f, NEW s, Fits(f, s)
  PROVE  Walking'
<1>1. /\ \A t \in Slots : t # s => name'[t] = name[t] /\ image'[t] = image[t] /\ deps'[t] = deps[t]
      /\ \A t \in Slots : name[t] # None => t # s
      /\ name'[s] = f /\ bound[s] = None /\ deps'[s] = {s} /\ DepsN' = DepsN
      /\ s \in Slots /\ s # DepsN /\ f # None /\ LoaderTypes'
    BY LoadKeepsPlaces, SlotsAssumption DEF Fits
<1>2. /\ stack' = Append(stack, [slot |-> s, i |-> 1]) /\ tail' = s /\ tail <= s
      /\ world' = world /\ bound' = bound /\ s \in Nat
    BY <1>1, SlotsTyped DEF Fits, load_library
<1>3. stack \in Seq([slot : Slots, i : Nat \ {0}]) /\ tail \in Nat
    BY SlotsTyped DEF LoaderTypes
<1>4. Len(stack) \in Nat /\ \A p \in 1 .. Len(stack) : stack[p].slot \in Slots /\ stack[p].i \in Nat \ {0}
  <2>1. \A p \in 1 .. Len(stack) : stack[p] \in [slot : Slots, i : Nat \ {0}]
      BY <1>3, ElementOfSeq
  <2> QED BY <1>3, <2>1, LenProperties
<1>5. /\ Len(stack') = Len(stack) + 1 /\ stack'[Len(stack) + 1] = [slot |-> s, i |-> 1]
      /\ \A p \in 1 .. Len(stack) : stack'[p] = stack[p]
    BY <1>2, <1>3, AppendProperties
<1>6. ASSUME NEW p \in 1 .. Len(stack), NEW t \in Slots, NEW j \in Nat, t = stack[p].slot, j = stack[p].i
      PROVE  /\ t # DepsN /\ name'[t] # None /\ t <= s /\ bound[t] = None /\ t # s
             /\ Gathered(t, j)' /\ Needed(t)' = Needed(t) /\ name'[t] = name[t]
             /\ \A q \in 1 .. Len(stack) : q # p => stack[q].slot # t
             /\ p # Len(stack) => j <= Len(Needed(t)) /\ name[stack[p + 1].slot] = Needed(t)[j]
  <2>1. /\ t # DepsN /\ name[t] # None /\ t <= tail /\ bound[t] = None /\ Gathered(t, j)
        /\ \A q \in 1 .. Len(stack) : q # p => stack[q].slot # t
      BY <1>6 DEF Walking
  <2>2. t # s /\ name'[t] = name[t] /\ image'[t] = image[t] /\ deps'[t] = deps[t]
      BY <1>1, <2>1
  <2>3. t <= s
      BY <1>2, <1>3, <2>1, SlotsTyped
  <2>4. Gathered(t, j)' /\ Needed(t)' = Needed(t)
      BY <1>1, <1>2, <2>1, <2>2, GatheredKept
  <2>5. p # Len(stack) => j <= Len(Needed(t)) /\ name[stack[p + 1].slot] = Needed(t)[j]
      BY <1>4, <1>6 DEF Walking
  <2> QED BY <2>1, <2>2, <2>3, <2>4, <2>5
<1>7. Gathered(s, 1)'
  <2>1. Len(Needed(s)') \in Nat /\ s \in Slots'
      BY <1>1, NeededTyped DEF Slots
  <2> QED BY <1>1, <2>1 DEF Gathered
<1>8. ASSUME NEW p \in 1 .. Len(stack')
      PROVE  /\ stack'[p].slot # DepsN /\ name'[stack'[p].slot] # None /\ stack'[p].slot <= tail'
             /\ bound'[stack'[p].slot] = None /\ Gathered(stack[p].slot, stack[p].i)'
             /\ \A q \in 1 .. Len(stack') : q # p => stack'[q].slot # stack'[p].slot
  <2>1. CASE p = Len(stack) + 1
    <3>1. stack'[p].slot = s /\ stack'[p].i = 1
        BY <1>5, <2>1
    <3>2. \A q \in 1 .. Len(stack) : stack'[q].slot # s
        BY <1>4, <1>5, <1>6
    <3>3. Gathered(stack[p].slot, stack[p].i)'
        BY <1>7, <3>1
    <3> QED BY <1>1, <1>2, <1>4, <1>5, <2>1, <3>1, <3>2, <3>3
  <2>2. CASE p \in 1 .. Len(stack)
    <3>1. PICK t \in Slots, j \in Nat : t = stack[p].slot /\ j = stack[p].i
        BY <1>4, <2>2
    <3>2. stack'[p].slot = t /\ stack'[p].i = j
        BY <1>5, <2>2, <3>1
    <3>3. Gathered(stack[p].slot, stack[p].i)'
        BY <1>6, <2>2, <3>1, <3>2
    <3>4. \A q \in 1 .. Len(stack') : q # p => stack'[q].slot # t
        BY <1>4, <1>5, <1>6, <2>2, <3>1
    <3> QED BY <1>2, <1>6, <2>2, <3>1, <3>2, <3>3, <3>4
  <2> QED BY <1>4, <1>5, <2>1, <2>2
<1>9. ASSUME NEW p \in 1 .. Len(stack') - 1
      PROVE  /\ stack'[p].i <= Len(Needed(stack[p].slot)')
             /\ name'[stack'[p + 1].slot] = (Needed(stack[p].slot)')[stack'[p].i]
  <2>1. PICK t \in Slots, j \in Nat : p \in 1 .. Len(stack) /\ t = stack[p].slot /\ j = stack[p].i
      BY <1>4, <1>5
  <2>2. stack'[p].slot = t /\ stack'[p].i = j /\ Needed(t)' = Needed(t)
      BY <1>5, <1>6, <2>1
  <2>3. CASE p = Len(stack)
    <3>1. stack # <<>> /\ Top = stack[p]
        BY <2>1, <2>3, <1>4, EmptySeq DEF Top
    <3>2. j <= Len(Needed(t)) /\ f = Needed(t)[j]
        BY <2>1, <3>1 DEF Fits, Wanted
    <3>3. stack'[p + 1].slot = s
        BY <1>5, <2>3
    <3> QED BY <1>1, <2>2, <3>2, <3>3
  <2>4. CASE p # Len(stack)
    <3>1. p + 1 \in 1 .. Len(stack)
        BY <1>4, <2>1, <2>4
    <3>2. PICK u \in Slots, l \in Nat : u = stack[p + 1].slot /\ l = stack[p + 1].i
        BY <1>4, <3>1
    <3>3. name'[u] = name[u] /\ stack'[p + 1].slot = u
        BY <1>5, <1>6, <3>1, <3>2
    <3>4. j <= Len(Needed(t)) /\ name[u] = Needed(t)[j]
        BY <1>6, <2>1, <2>4, <3>2
    <3> QED BY <2>2, <3>3, <3>4
  <2> QED BY <2>3, <2>4
<1> QED BY <1>1, <1>8, <1>9 DEF Walking

LEMMA FunctionIsSeq ==
  ASSUME NEW S, NEW n \in Nat, NEW f \in [1 .. n -> S]
  PROVE  f \in Seq(S) /\ Len(f) = n
OBVIOUS

LEMMA AdvancedTyped ==
  ASSUME LoaderTypes, NEW n \in 1 .. Len(stack), NEW st, st = SubSeq(stack, 1, n)
  PROVE  /\ st \in Seq([slot : Slots, i : Nat \ {0}]) /\ Len(st) = n
         /\ Advanced(st) \in Seq([slot : Slots, i : Nat \ {0}]) /\ Len(Advanced(st)) = n
         /\ \A p \in 1 .. n : p # n => Advanced(st)[p] = stack[p]
         /\ Advanced(st)[n].slot = stack[n].slot /\ Advanced(st)[n].i = stack[n].i + 1
<1> DEFINE Frame == [slot : Slots, i : Nat \ {0}]
<1>1. stack \in Seq(Frame) /\ Len(stack) \in Nat
    BY LenProperties DEF LoaderTypes
<1>2. st \in Seq(Frame) /\ Len(st) = n /\ \A p \in 1 .. n : st[p] = stack[p] /\ st[p] \in Frame
  <2>1. ASSUME NEW p \in 1 .. n PROVE stack[p] \in Frame
    <3>1. p \in 1 .. Len(stack)
        BY <1>1
    <3> HIDE DEF Frame
    <3> QED BY <1>1, <3>1, ElementOfSeq
  <2>2. st = [p \in 1 .. n |-> stack[p]] /\ n \in Nat
      BY <1>1
  <2> HIDE DEF Frame
  <2>3. st \in [1 .. n -> Frame]
      BY <2>1, <2>2
  <2> QED BY <2>1, <2>2, <2>3
<1>3. PICK e : e = [st[n] EXCEPT !.i = @ + 1]
    OBVIOUS
<1>4. e \in Frame /\ e.slot = stack[n].slot /\ e.i = stack[n].i + 1
  <2>1. st[n] \in Frame /\ st[n] = stack[n]
      BY <1>2
  <2> QED BY <1>3, <2>1
<1>5. Advanced(st) = [st EXCEPT ![n] = e]
    BY <1>2, <1>3 DEF Advanced
<1>6. /\ Advanced(st) \in Seq(Frame) /\ Len(Advanced(st)) = n
      /\ \A p \in 1 .. n : Advanced(st)[p] = IF p = n THEN e ELSE st[p]
  <2>1. n \in Nat /\ st = [p \in 1 .. n |-> st[p]]
      BY <1>1, <1>2
  <2> HIDE DEF Frame
  <2>2. Advanced(st) = [p \in 1 .. n |-> IF p = n THEN e ELSE st[p]]
      BY <1>5, <2>1
  <2>3. Advanced(st) \in [1 .. n -> Frame]
      BY <1>2, <1>4, <2>2
  <2>4. Advanced(st) \in Seq(Frame) /\ Len(Advanced(st)) = n
      BY <2>1, <2>3, FunctionIsSeq
  <2> QED BY <2>2, <2>4
<1> HIDE DEF Frame
<1>7. \A p \in 1 .. n : p # n => Advanced(st)[p] = stack[p]
    BY <1>2, <1>6
<1>8. Advanced(st)[n] = e
  <2>1. n \in 1 .. n
      BY <1>1
  <2> QED BY <1>6, <2>1
<1>9. Advanced(st)[n].slot = stack[n].slot /\ Advanced(st)[n].i = stack[n].i + 1
    BY <1>4, <1>8
<1>10. /\ st \in Seq(Frame) /\ Len(st) = n
       /\ Advanced(st) \in Seq(Frame) /\ Len(Advanced(st)) = n
    BY <1>2, <1>6
<1> QED BY <1>7, <1>9, <1>10 DEF Frame

\* The bit d is added for one entry of the n-th library on the stack, which is
\* now the top: it is the slot of that name, or the library is missing.
LEMMA AdvanceKeeps ==
  ASSUME LoaderTypes, Walking, NEW n \in 1 .. Len(stack), NEW d,
         stack' \in Seq([slot : Slots, i : Nat \ {0}]), Len(stack') = n,
         \A p \in 1 .. n : p # n => stack'[p] = stack[p],
         stack'[n].slot = stack[n].slot, stack'[n].i = stack[n].i + 1,
         deps' = [deps EXCEPT ![stack[n].slot] = @ \cup {d}],
         stack[n].i <= Len(Needed(stack[n].slot)),
         (d \in 0 .. tail /\ name[d] = Needed(stack[n].slot)[stack[n].i])
           \/ Needed(stack[n].slot)[stack[n].i] \notin world.present,
         UNCHANGED <<world, name, image, tail>>,
         \A p \in 1 .. n : bound[stack[p].slot] = None => bound'[stack[p].slot] = None
  PROVE  Walking'
<1>1. /\ stack' \in Seq([slot : Slots, i : Nat \ {0}]) /\ Len(stack') = n /\ n \in Nat \ {0}
      /\ \A p \in 1 .. n : stack'[p].slot = stack[p].slot /\ (p # n => stack'[p] = stack[p])
      /\ stack'[n].i = stack[n].i + 1
      /\ \A p \in 1 .. n : p \in 1 .. Len(stack)
  <2>1. Len(stack) \in Nat
      BY LenProperties DEF LoaderTypes
  <2> QED BY <2>1
<1>2. Len(stack) \in Nat /\ \A p \in 1 .. Len(stack) : stack[p].slot \in Slots /\ stack[p].i \in Nat \ {0}
  <2>1. stack # <<>>
      OBVIOUS
  <2> QED BY <2>1, TopTyped
<1>3. DepsN' = DepsN /\ tail \in Nat /\ Slots' = Slots
    BY SlotsTyped DEF DepsN, LoaderTypes, Slots
<1>4. \A t \in Slots : Needed(t)' = Needed(t)
    BY DEF Needed
<1>5. ASSUME NEW p \in 1 .. n, NEW t \in Slots, NEW j \in Nat, t = stack'[p].slot, j = stack'[p].i
      PROVE  /\ t # DepsN /\ name[t] # None /\ t <= tail /\ bound'[t] = None
             /\ Gathered(t, j)'
             /\ \A q \in 1 .. n : q # p => stack'[q].slot # t
  <2>0. t = stack[p].slot /\ p \in 1 .. Len(stack)
      BY <1>1, <1>5
  <2> PICK h : h = stack[p].i
      OBVIOUS
  <2>1. /\ t # DepsN /\ name[t] # None /\ t <= tail /\ bound[t] = None
        /\ Gathered(t, stack[p].i)
        /\ \A q \in 1 .. Len(stack) : q # p => stack[q].slot # t
      BY <2>0 DEF Walking
  <2>2. bound'[t] = None /\ \A q \in 1 .. n : q # p => stack'[q].slot # t
    <3>1. bound'[t] = None
        BY <2>0, <2>1
    <3>2. ASSUME NEW q \in 1 .. n, q # p PROVE stack'[q].slot # t
      <4>1. q \in 1 .. Len(stack) /\ stack'[q].slot = stack[q].slot
          BY <1>1, <1>2
      <4> QED BY <2>1, <3>2, <4>1
    <3> QED BY <3>1, <3>2
  <2>3. CASE p # n
    <3>1. t # stack[n].slot /\ j = stack[p].i
        BY <1>1, <1>5, <2>1, <2>3
    <3>2. deps'[t] = deps[t]
        BY <3>1 DEF LoaderTypes
    <3>3. Gathered(t, j)'
        BY <1>3, <2>1, <3>1, <3>2, GatheredKept
    <3> QED BY <2>1, <2>2, <3>3
  <2>4. CASE p = n
    <3>1. PICK i \in Nat \ {0} : i = stack[n].i /\ j = i + 1 /\ i <= Len(Needed(t))
        BY <1>1, <1>2, <1>5, <2>0, <2>4
    <3>2. deps'[t] = deps[t] \cup {d}
        BY <2>0, <2>4 DEF LoaderTypes
    <3>3. Len(Needed(t)) \in Nat /\ Range(Needed(t)) = {Needed(t)[l] : l \in 1 .. Len(Needed(t))}
        BY NeededTyped
    <3>4. Needed(t)[i] \in Range(Needed(t))
        BY <3>1, <3>3
    <3> SUFFICES ASSUME image[t] # None, Range(Needed(t)) \subseteq world.present
                 PROVE  Gathered(t, j)'
        BY <1>3, <1>4, <2>1, <2>2 DEF Gathered
    <3>5. /\ t \in deps[t]
          /\ \A e \in deps[t] : e = t \/ (e \in 0 .. tail /\ name[e] \in Range(Needed(t)))
          /\ \A l \in 1 .. Len(Needed(t)) : l < i =>
               \E e \in deps[t] : e \in 0 .. tail /\ name[e] = Needed(t)[l]
        BY <2>1, <2>4, <3>1 DEF Gathered
    <3>6. d \in 0 .. tail /\ name[d] = Needed(t)[i]
        BY <2>0, <2>4, <3>1, <3>4
    <3>7. \A e \in deps'[t] : e = t \/ (e \in 0 .. tail /\ name[e] \in Range(Needed(t)))
        BY <3>2, <3>4, <3>5, <3>6
    <3>8. ASSUME NEW l \in 1 .. Len(Needed(t)), l < j
          PROVE  \E e \in deps'[t] : e \in 0 .. tail /\ name[e] = Needed(t)[l]
      <4>1. CASE l = i
          BY <3>2, <3>6, <4>1
      <4>2. CASE l < i
          BY <3>2, <3>5, <4>2
      <4> QED BY <3>1, <3>8, <4>1, <4>2
    <3> QED BY <1>4, <3>2, <3>5, <3>7, <3>8 DEF Gathered
  <2> QED BY <2>3, <2>4
<1>6. ASSUME NEW p \in 1 .. n, p # n
      PROVE  /\ stack'[p].i <= Len(Needed(stack[p].slot)')
             /\ name'[stack'[p + 1].slot] = (Needed(stack[p].slot)')[stack'[p].i]
  <2>1. p \in 1 .. Len(stack) - 1 /\ p + 1 \in 1 .. n
      BY <1>2, <1>6
  <2>2. stack'[p] = stack[p] /\ stack'[p + 1].slot = stack[p + 1].slot
      BY <1>1, <1>6, <2>1
  <2>3. PICK t \in Slots, j \in Nat : t = stack[p].slot /\ j = stack[p].i
      BY <1>1, <1>2
  <2>4. j <= Len(Needed(t)) /\ name[stack[p + 1].slot] = Needed(t)[j]
      BY <2>1, <2>3 DEF Walking
  <2> QED BY <1>4, <2>2, <2>3, <2>4
<1>7. ASSUME NEW p \in 1 .. n
      PROVE  /\ stack'[p].slot # DepsN' /\ name'[stack'[p].slot] # None /\ stack'[p].slot <= tail'
             /\ bound'[stack'[p].slot] = None /\ Gathered(stack[p].slot, stack[p].i)'
             /\ \A q \in 1 .. Len(stack') : q # p => stack'[q].slot # stack'[p].slot
  <2>1. PICK t \in Slots, j \in Nat : t = stack'[p].slot /\ j = stack'[p].i
    <3>0. PICK Frame : Frame = [slot : Slots, i : Nat \ {0}]
        OBVIOUS
    <3>1. p \in 1 .. Len(stack') /\ stack' \in Seq(Frame)
        BY <1>1, <3>0
    <3>2. stack'[p] \in Frame
        BY <3>1, ElementOfSeq
    <3>3. stack'[p].slot \in Slots /\ stack'[p].i \in Nat
        BY <3>0, <3>2
    <3> QED BY <3>3
  <2> QED BY <1>1, <1>3, <1>5, <2>1
<1>8. \A p \in 1 .. n - 1 : p \in 1 .. n /\ p # n
    BY <1>2
<1> QED BY <1>1, <1>3, <1>6, <1>7, <1>8 DEF Walking

\* A step that leaves the slots alone: only __start moves on, or gets stuck.
LEMMA MoveOnKeeps ==
  ASSUME LoaderTypes, Placed, Walking, BoundToWhatItSees, k' \in 0 .. DepsN, phase' \in Phases,
         UNCHANGED <<world, name, image, next, tail, deps, bound, stack>>
  PROVE  LoaderTypes' /\ Placed' /\ Walking' /\ BoundToWhatItSees' /\ DepsN' = DepsN
<1>1. DepsN' = DepsN /\ Slots' = Slots /\ \A s \in Slots : Needed(s)' = Needed(s)
    BY DEF DepsN, Slots, Needed
<1>2. LoaderTypes' /\ Placed'
    BY <1>1 DEF LoaderTypes, Placed, Slots
<1>3. Walking'
    BY <1>1 DEF Walking, Gathered, Needed
<1>4. BoundToWhatItSees'
    BY <1>1 DEF BoundToWhatItSees, Sees, FileIn, Needed
<1> QED BY <1>1, <1>2, <1>3, <1>4

LEMMA GetStuckKeeps == LoaderInv /\ GetStuck => LoaderInv'
<1> SUFFICES ASSUME LoaderInv, GetStuck PROVE LoaderInv'
    OBVIOUS
<1>1. /\ UNCHANGED <<world, name, image, next, tail, deps, bound, stack, k>>
      /\ phase' = "stuck" /\ phase' \in Phases
    BY DEF GetStuck, Phases
<1>2. LoaderTypes' /\ Placed' /\ Walking' /\ BoundToWhatItSees'
    BY <1>1, MoveOnKeeps DEF LoaderInv, LoaderTypes
<1>3. Started' /\ Listed'
    BY <1>1 DEF Started, Listed
<1>4. OwnFound' => NamesDiffer'
    BY <1>1 DEF LoaderInv, OwnFound, NamesDiffer, Slots
<1> QED BY <1>2, <1>3, <1>4 DEF LoaderInv

LEMMA AddDepKeeps ==
  ASSUME LoaderInv, InLoadDeps, NEW d \in 0 .. MaxSlots, AddDep({d}),
         (d \in 0 .. tail /\ name[d] = Wanted) \/ Wanted \notin world.present
  PROVE  LoaderInv'
<1>1. LoaderTypes /\ Placed /\ Started /\ Walking /\ BoundToWhatItSees /\ stack # <<>>
    BY DEF LoaderInv, InLoadDeps
<1>0. PICK n : n = Len(stack)
    OBVIOUS
<1>2. n \in 1 .. Len(stack) /\ Top.slot \in Slots
    BY <1>0, <1>1, TopTyped
<1>3. /\ UNCHANGED <<world, name, image, next, tail, bound, k, phase>>
      /\ deps' = [deps EXCEPT ![Top.slot] = @ \cup {d}] /\ stack' = Advanced(stack)
    BY DEF AddDep
<1>4. stack = SubSeq(stack, 1, n)
    BY <1>0, <1>1, SubSeqFull DEF LoaderTypes
<1>5. /\ stack' \in Seq([slot : Slots, i : Nat \ {0}]) /\ Len(stack') = n
      /\ \A p \in 1 .. n : p # n => stack'[p] = stack[p]
      /\ stack'[n].slot = stack[n].slot /\ stack'[n].i = stack[n].i + 1
    BY <1>1, <1>2, <1>3, <1>4, AdvancedTyped
<1>6. Walking'
    BY <1>0, <1>1, <1>2, <1>3, <1>5, AdvanceKeeps DEF InLoadDeps, Top, Wanted
<1>7. stack' # <<>>
    BY <1>2, <1>5
<1>8. DepsN' = DepsN /\ Slots' = Slots
    BY <1>3 DEF DepsN, Slots
<1>9. LoaderTypes'
  <2>1. deps' \in [Slots -> SUBSET (0 .. MaxSlots)]
      BY <1>1, <1>3 DEF LoaderTypes
  <2> QED BY <1>1, <1>3, <1>5, <1>8, <2>1 DEF LoaderTypes
<1>10. Placed'
    BY <1>1, <1>3, <1>8 DEF Placed
<1>11. Started'
    BY <1>1, <1>3, <1>7, <1>8 DEF Started
<1>12. BoundToWhatItSees'
    BY <1>1, <1>3, <1>8 DEF BoundToWhatItSees, Sees, FileIn, Needed
<1>13. OwnFound' => NamesDiffer' /\ Listed'
  <2> SUFFICES ASSUME OwnFound PROVE NamesDiffer' /\ Listed'
      BY <1>3 DEF OwnFound
  <2>1. NamesDiffer /\ Listed
      BY DEF LoaderInv
  <2>2. NamesDiffer'
      BY <1>3, <1>8, <2>1 DEF NamesDiffer
  <2>3. Listed'
      BY <1>1, <1>3, <1>7, <1>8, <2>1 DEF Listed
  <2> QED BY <2>2, <2>3
<1> QED BY <1>6, <1>9, <1>10, <1>11, <1>12, <1>13 DEF LoaderInv

\* What load_library does to the facts that all its callers need.
LEMMA FitsKeeps ==
  ASSUME LoaderInv, NEW f, NEW s, Fits(f, s)
  PROVE  /\ LoaderTypes' /\ Placed' /\ Walking' /\ BoundToWhatItSees' /\ stack' # <<>>
         /\ (\A t \in Slots : name[t] # f) /\ NamesDiffer => NamesDiffer'
<1>1. LoaderTypes /\ Placed /\ Walking /\ BoundToWhatItSees
    BY DEF LoaderInv
<1>2. /\ LoaderTypes' /\ Placed' /\ Walking'
      /\ \A t \in Slots : t # s => name'[t] = name[t] /\ image'[t] = image[t]
      /\ name'[s] = f /\ image[s] = None /\ bound[s] = None
    BY <1>1, LoadKeepsPlaces, LoadKeepsWalking
<1>3. world' = world /\ bound' = bound /\ stack' = Append(stack, [slot |-> s, i |-> 1]) /\ s \in Slots
    BY DEF Fits, load_library
<1>4. BoundToWhatItSees'
  <2>1. \A t \in Slots : bound[t] # None => t # s
      BY <1>2
  <2>2. \A t \in Slots : image[t] # None => t # s
      BY <1>2
  <2> QED BY <1>1, <1>2, <1>3, <2>1, <2>2, BoundKept
<1>5. stack' # <<>>
  <2>1. stack \in Seq([slot : Slots, i : Nat \ {0}]) /\ [slot |-> s, i |-> 1] \in [slot : Slots, i : Nat \ {0}]
      BY <1>1, <1>3 DEF LoaderTypes
  <2>2. Len(stack') = Len(stack) + 1 /\ Len(stack) \in Nat
      BY <1>3, <2>1, AppendProperties, LenProperties
  <2> QED BY <2>2
<1>6. ASSUME \A t \in Slots : name[t] # f, NamesDiffer PROVE NamesDiffer'
    BY <1>2, <1>6 DEF NamesDiffer, Slots
<1> QED BY <1>2, <1>4, <1>5, <1>6

\* Behind the loader's slot: a library somebody needs, or the program.
LEMMA LoadBehindKeeps ==
  ASSUME LoaderInv, phase = "program", NEW f, Fits(f, tail + 1),
         OwnFound => \A t \in Slots : name[t] # f
  PROVE  LoaderInv'
<1>1. LoaderTypes /\ Placed /\ Started
    BY DEF LoaderInv
<1>2. LoaderTypes' /\ Placed' /\ Walking' /\ BoundToWhatItSees' /\ stack' # <<>>
    BY FitsKeeps
<1>3. /\ name' = [name EXCEPT ![tail + 1] = f] /\ f \in Files
      /\ next' = [next EXCEPT ![tail] = tail + 1] /\ tail' = tail + 1
      /\ world' = world /\ k' = k /\ phase' = phase
    BY DEF Fits, load_library
<1>4. /\ DepsN' = DepsN /\ Slots' = Slots /\ DepsN <= tail /\ tail \in Nat /\ DepsN \in Nat
      /\ tail + 1 \in Slots /\ Slots \subseteq Nat
    BY <1>1, <1>3, SlotsTyped DEF DepsN, Slots, Started, LoaderTypes, Fits
<1>5. Started'
    BY <1>1, <1>2, <1>3, <1>4 DEF Started
<1>6. OwnFound' => NamesDiffer' /\ Listed'
  <2> SUFFICES ASSUME OwnFound PROVE NamesDiffer' /\ Listed'
      BY <1>3 DEF OwnFound
  <2>1. NamesDiffer /\ Listed
      BY DEF LoaderInv
  <2>2. NamesDiffer'
      BY <2>1, FitsKeeps
  <2>3. \A s \in Slots : next'[s] = IF s < tail' THEN s + 1 ELSE None
      BY <1>1, <1>3, <1>4, <2>1 DEF LoaderTypes, Listed
  <2>4. \A s \in Slots : s <= tail' => name'[s] # None
    <3>1. \A s \in Slots : s <= tail => name[s] # None
        BY <2>1 DEF Listed
    <3> QED BY <1>1, <1>3, <1>4, <3>1, SlotsAssumption DEF LoaderTypes
  <2>5. \A j \in 1 .. DepsN : name'[j - 1] = world.needed[Loader][j]
      BY <1>1, <1>3, <1>4, <2>1 DEF LoaderTypes, Listed
  <2>6. Listed'
      BY <1>2, <1>3, <1>4, <2>3, <2>4, <2>5 DEF Listed
  <2> QED BY <2>2, <2>6
<1> QED BY <1>2, <1>5, <1>6 DEF LoaderInv

LEMMA DepLoadedFits ==
  ASSUME LoaderInv, DepLoaded, ~ GetStuck
  PROVE  /\ phase = "program" /\ stack # <<>> /\ Fits(Wanted, tail + 1)
         /\ OwnFound => \A t \in Slots : name[t] # Wanted
<1>1. LoaderTypes /\ Placed /\ Started
    BY DEF LoaderInv
<1>2. /\ phase # "preload" /\ tail + 1 \in Slots /\ load_library(Wanted, tail + 1) /\ phase' = phase
      /\ stack # <<>> /\ phase # "stuck" /\ Top.i <= Len(Needed(Top.slot))
      /\ Stops(Wanted) # {} /\ ListSearch(Wanted) = None
    BY DEF DepLoaded, DepUnlisted, InLoadDeps
<1>3. phase = "program" /\ DepsN <= tail /\ tail \in Nat /\ DepsN \in Nat
    BY <1>1, <1>2, SlotsTyped DEF Started, LoaderTypes, Phases
<1>4. Wanted \in Files
  <2>1. Top.slot \in Slots /\ Top.i \in 1 .. Len(Needed(Top.slot))
      BY <1>1, <1>2, TopTyped, NeededTyped
  <2> QED BY <1>1, <2>1, NeededTyped DEF Wanted
<1>5. name[tail + 1] = None
    BY <1>1, <1>2, <1>3 DEF Placed
<1>6. Fits(Wanted, tail + 1)
    BY <1>2, <1>3, <1>4, <1>5 DEF Fits
<1>7. ASSUME OwnFound PROVE \A t \in Slots : name[t] # Wanted
    BY <1>1, <1>2, <1>3, <1>4, <1>7, SearchFindsAll DEF LoaderInv
<1> QED BY <1>2, <1>3, <1>6, <1>7

LEMMA DepLoadedKeeps == LoaderInv /\ DepLoaded => LoaderInv'
BY GetStuckKeeps, DepLoadedFits, LoadBehindKeeps

LEMMA LoadProgramFits ==
  ASSUME LoaderInv, LoadProgram, ~ GetStuck
  PROVE  /\ phase = "program" /\ stack = <<>> /\ Fits(Program, tail + 1)
         /\ OwnFound => \A t \in Slots : name[t] # Program
<1>1. LoaderTypes /\ Placed /\ Started
    BY DEF LoaderInv
<1>2. /\ phase = "program" /\ stack = <<>> /\ tail + 1 \in Slots
      /\ load_library(Program, tail + 1) /\ phase' = phase
    BY DEF LoadProgram
<1>3. DepsN <= tail /\ tail \in Nat /\ DepsN \in Nat
    BY <1>1, <1>2, SlotsTyped DEF Started, LoaderTypes
<1>4. name[tail + 1] = None
    BY <1>1, <1>2, <1>3 DEF Placed
<1>5. Fits(Program, tail + 1)
    BY <1>2, <1>3, <1>4, SlotsAssumption DEF Fits
<1>6. ASSUME OwnFound PROVE \A t \in Slots : name[t] # Program
    BY <1>2, <1>6 DEF LoaderInv, Listed
<1> QED BY <1>2, <1>5, <1>6

LEMMA LoadProgramKeeps == LoaderInv /\ LoadProgram => LoaderInv'
BY GetStuckKeeps, LoadProgramFits, LoadBehindKeeps

LEMMA PreloadFits ==
  ASSUME LoaderInv, PreloadPresent
  PROVE  /\ phase = "preload" /\ stack = <<>> /\ k < DepsN /\ tail <= k /\ tail < DepsN /\ k \in Slots
         /\ Fits(world.needed[Loader][k + 1], k)
         /\ world.needed[Loader][k + 1] \in Range(world.needed[Loader])
         /\ OwnFound => \A t \in Slots : name[t] # world.needed[Loader][k + 1]
<1>1. LoaderTypes /\ Placed /\ Started
    BY DEF LoaderInv
<1> DEFINE f == world.needed[Loader][k + 1]
<1>2. /\ phase = "preload" /\ stack = <<>> /\ k < DepsN /\ load_library(f, k) /\ phase' = phase
      /\ DepsN \in Nat /\ k \in Nat /\ tail \in Nat /\ tail <= k /\ tail < DepsN /\ k \in Slots
      /\ Slots \subseteq Nat /\ DepsN \in Slots
  <2>1. /\ phase = "preload" /\ stack = <<>> /\ k < DepsN /\ load_library(f, k) /\ phase' = phase
        /\ k \in Nat /\ tail <= k /\ tail \in Slots /\ (DepsN > 0 => tail < DepsN)
      BY <1>1, SlotsTyped DEF PreloadPresent, LoaderTypes, Started
  <2>2. DepsN \in Nat /\ DepsN < MaxSlots - 1 /\ Slots \subseteq Nat /\ DepsN \in Slots
      BY <1>1, SlotsTyped
  <2>3. k \in Slots
      BY <2>1, <2>2, SlotsAssumption DEF Slots
  <2> QED BY <2>1, <2>2, <2>3
<1>3. f \in Files /\ name[k] = None /\ k # DepsN
  <2>1. k + 1 \in 1 .. DepsN /\ k # DepsN
      BY <1>2
  <2>2. f \in Files
      BY <1>1, <2>1, SlotsTyped
  <2>3. name[k] = None
      BY <1>1, <1>2, <2>1 DEF Started
  <2> QED BY <2>1, <2>2, <2>3
<1>4. Fits(f, k)
    BY <1>2, <1>3 DEF Fits
<1>5. f \in Range(world.needed[Loader])
  <2>1. DOMAIN world.needed[Loader] = 1 .. DepsN
      BY <1>1, SlotsTyped, SlotsAssumption, LenProperties DEF DepsN
  <2> QED BY <1>2, <2>1 DEF Range
<1>6. ASSUME OwnFound, NEW t \in Slots PROVE name[t] # f
  <2>1. \A j \in 1 .. DepsN : j <= k => name[j - 1] = world.needed[Loader][j]
      BY <1>2, <1>6 DEF LoaderInv, Listed
  <2>2. CASE t = DepsN
      BY <1>1, <1>5, <1>6, <2>2 DEF Placed, OwnFound
  <2>3. CASE t # DepsN
    <3>1. name[t] # None => t < k
        BY <1>1, <1>2, <2>3 DEF Started
    <3>2. t < k => t + 1 \in 1 .. DepsN /\ k + 1 \in 1 .. DepsN /\ t + 1 # k + 1
        BY <1>2
    <3>3. t < k => name[t] = world.needed[Loader][t + 1]
        BY <1>2, <2>1, <3>2
    <3>4. t < k => name[t] # f
        BY <1>1, <3>2, <3>3, SlotsTyped
    <3> QED BY <1>3, <3>1, <3>4, SlotsAssumption
  <2> QED BY <2>2, <2>3
<1> QED BY <1>2, <1>4, <1>5, <1>6

LEMMA PreloadPresentKeeps == LoaderInv /\ PreloadPresent => LoaderInv'
<1> SUFFICES ASSUME LoaderInv, PreloadPresent PROVE LoaderInv'
    OBVIOUS
<1>1. LoaderTypes /\ Placed /\ Started
    BY DEF LoaderInv
<1> DEFINE f == world.needed[Loader][k + 1]
<1>2. /\ phase = "preload" /\ stack = <<>> /\ k < DepsN /\ tail <= k /\ tail < DepsN /\ k \in Slots
      /\ DepsN \in Nat /\ k \in Nat /\ tail \in Nat /\ Slots \subseteq Nat /\ DepsN \in Slots
    BY <1>1, PreloadFits, SlotsTyped DEF LoaderTypes
<1>3. f \in Files /\ k # DepsN /\ load_library(f, k) /\ phase' = phase
    BY PreloadFits DEF Fits
<1>4. Fits(f, k)
    BY PreloadFits
<1>5. LoaderTypes' /\ Placed' /\ Walking' /\ BoundToWhatItSees' /\ stack' # <<>>
    BY <1>4, FitsKeeps
<1>6. /\ name' = [name EXCEPT ![k] = f] /\ next' = [next EXCEPT ![tail] = k] /\ tail' = k
      /\ world' = world /\ k' = k /\ phase' = phase
    BY <1>3 DEF load_library
<1>7. DepsN' = DepsN /\ Slots' = Slots
    BY <1>6 DEF DepsN, Slots
<1>8. Started'
  <2>1. \A s \in Slots : s # DepsN /\ name'[s] # None => s <= k
      BY <1>1, <1>2, <1>6 DEF Started, LoaderTypes
  <2> QED BY <1>2, <1>5, <1>6, <1>7, <2>1 DEF Started
<1>9. OwnFound' => NamesDiffer' /\ Listed'
  <2> SUFFICES ASSUME OwnFound PROVE NamesDiffer' /\ Listed'
      BY <1>6 DEF OwnFound
  <2>1. NamesDiffer /\ Listed
      BY DEF LoaderInv
  <2>2. f # Program
      BY PreloadFits DEF OwnFound
  <2>3. \A j \in 1 .. DepsN : j <= k => name[j - 1] = world.needed[Loader][j]
      BY <2>1, <1>2 DEF Listed
  <2>4. \A t \in Slots : name[t] # f
      BY PreloadFits
  <2>5. NamesDiffer'
      BY <1>4, <2>1, <2>4, FitsKeeps
  <2>6. tail = IF k = 0 THEN 0 ELSE k - 1
      BY <1>2, <2>1 DEF Listed
  <2>7. ASSUME NEW s \in Slots
        PROVE  next'[s] = IF s < k THEN s + 1 ELSE IF s = 0 THEN 0 ELSE None
    <3>1. next[s] = IF s < tail THEN s + 1 ELSE IF s = 0 /\ k > 0 THEN 0 ELSE None
        BY <1>2, <2>1 DEF Listed
    <3>2. next'[s] = IF s = tail THEN k ELSE next[s]
        BY <1>1, <1>2, <1>6 DEF LoaderTypes
    <3>3. s \in Nat
        BY <1>2
    <3>4. CASE s < tail
      <4>1. s < k /\ s # tail
          BY <1>2, <3>3, <3>4
      <4> QED BY <3>1, <3>2, <3>4, <4>1
    <3>5. CASE s = tail
      <4>1. CASE k = 0
          BY <1>2, <2>6, <3>2, <3>5, <4>1
      <4>2. CASE k # 0
        <5>1. tail = k - 1 /\ s < k /\ k = s + 1
            BY <1>2, <2>6, <3>5, <4>2
        <5> QED BY <3>2, <3>5, <5>1
      <4> QED BY <4>1, <4>2
    <3>6. CASE s > tail
      <4>1. ~ (s < tail) /\ s # tail /\ s # 0 /\ ~ (s < k)
          BY <1>2, <2>6, <3>3, <3>6
      <4>2. next[s] = None
          BY <3>1, <4>1
      <4> QED BY <3>2, <4>1, <4>2
    <3> QED BY <1>2, <3>3, <3>4, <3>5, <3>6
  <2>8. \A s \in Slots : s <= k => name'[s] # None
    <3>1. ASSUME NEW s \in Slots, s < k PROVE name[s] # None
      <4>1. s \in Nat /\ k > 0 /\ s <= tail
          BY <1>2, <2>6, <3>1
      <4> QED BY <1>2, <2>1, <4>1 DEF Listed
    <3>2. \A t \in Slots : name'[t] = IF t = k THEN f ELSE name[t]
        BY <1>1, <1>6 DEF LoaderTypes
    <3>3. f # None
        BY <1>3, SlotsAssumption
    <3> QED BY <1>2, <3>1, <3>2, <3>3
  <2>9. \A j \in 1 .. DepsN : j <= k + 1 => name'[j - 1] = world.needed[Loader][j]
    <3>1. \A j \in 1 .. DepsN : j - 1 \in Slots
        BY <1>2, SlotsAssumption DEF Slots
    <3>2. \A t \in Slots : name'[t] = IF t = k THEN f ELSE name[t]
        BY <1>1, <1>6 DEF LoaderTypes
    <3>3. ASSUME NEW j \in 1 .. DepsN, j <= k + 1 PROVE name'[j - 1] = world.needed[Loader][j]
      <4>1. CASE j = k + 1
          BY <1>2, <3>1, <3>2, <4>1
      <4>2. CASE j <= k
          BY <1>2, <2>3, <3>1, <3>2, <4>2
      <4> QED BY <1>2, <3>3, <4>1, <4>2
    <3> QED BY <3>3
  <2>10. \A s \in Slots : name'[s] # Program
      BY <1>1, <1>2, <1>6, <2>1, <2>2 DEF LoaderTypes, Listed
  <2>11. Listed'
      BY <1>2, <1>5, <1>6, <1>7, <2>7, <2>8, <2>9, <2>10 DEF Listed
  <2> QED BY <2>5, <2>11
<1> QED BY <1>5, <1>8, <1>9 DEF LoaderInv

LEMMA PreloadMissingKeeps == LoaderInv /\ PreloadMissing => LoaderInv'
<1> SUFFICES ASSUME LoaderInv, PreloadMissing PROVE LoaderInv'
    OBVIOUS
<1>1. LoaderTypes /\ Placed /\ Started /\ Walking /\ BoundToWhatItSees
    BY DEF LoaderInv
<1>2. /\ UNCHANGED <<world, name, image, next, tail, deps, bound, stack, phase>>
      /\ phase = "preload" /\ stack = <<>> /\ k < DepsN /\ k' = k + 1
      /\ DepsN \in Nat /\ k \in Nat /\ tail \in Nat /\ Slots \subseteq Nat /\ DepsN \in Slots
    BY <1>1, SlotsTyped DEF PreloadMissing, LoaderTypes
<1>3. LoaderTypes' /\ Placed' /\ Walking' /\ BoundToWhatItSees' /\ DepsN' = DepsN
  <2>1. k' \in 0 .. DepsN /\ phase' \in Phases
      BY <1>2 DEF Phases
  <2> QED BY <1>1, <1>2, <2>1, MoveOnKeeps
<1>4. Started'
    BY <1>1, <1>2, <1>3 DEF Started, Slots
<1>5. ~ OwnFound
  <2>1. DOMAIN world.needed[Loader] = 1 .. DepsN
      BY <1>1, SlotsTyped, SlotsAssumption, LenProperties DEF DepsN
  <2>2. world.needed[Loader][k + 1] \in Range(world.needed[Loader])
      BY <1>2, <2>1 DEF Range
  <2> QED BY <2>2 DEF OwnFound, PreloadMissing
<1>6. ~ OwnFound'
    BY <1>2, <1>5 DEF OwnFound
<1> QED BY <1>3, <1>4, <1>6 DEF LoaderInv

LEMMA LinkSelfKeeps == LoaderInv /\ LinkSelf => LoaderInv'
<1> SUFFICES ASSUME LoaderInv, LinkSelf PROVE LoaderInv'
    OBVIOUS
<1>1. LoaderTypes /\ Placed /\ Started /\ Walking /\ BoundToWhatItSees
    BY DEF LoaderInv
<1>2. /\ phase = "preload" /\ stack = <<>> /\ k = DepsN /\ tail' = DepsN /\ phase' = "self"
      /\ UNCHANGED <<world, name, image, bound, stack, k>>
      /\ next' = IF DepsN = 0 THEN next ELSE [next EXCEPT ![DepsN - 1] = DepsN]
    BY DEF LinkSelf
<1>3. /\ DepsN \in Nat /\ DepsN \in Slots /\ Slots \subseteq Nat /\ tail \in Nat /\ tail <= DepsN
      /\ DepsN > 0 => DepsN - 1 \in Slots
    BY <1>1, <1>2, SlotsTyped, SlotsAssumption DEF LoaderTypes, Started, Slots
<1>4. DepsN' = DepsN /\ Slots' = Slots /\ stack' = <<>>
    BY <1>2 DEF DepsN, Slots
<1>5. next' \in [Slots -> Slots \cup {None}] /\ \A s \in Slots :
        next'[s] = IF DepsN > 0 /\ s = DepsN - 1 THEN DepsN ELSE next[s]
    BY <1>1, <1>2, <1>3 DEF LoaderTypes
<1>6. LoaderTypes'
  <2>1. deps' \in [Slots -> SUBSET (0 .. MaxSlots)]
    <3>1. {0} \in SUBSET (0 .. MaxSlots) /\ 0 .. DepsN - 1 \in SUBSET (0 .. MaxSlots)
        BY <1>3, SlotsAssumption DEF Slots
    <3> QED BY <1>1, <3>1 DEF LoaderTypes, LinkSelf
  <2> QED BY <1>1, <1>2, <1>3, <1>4, <1>5, <2>1 DEF LoaderTypes, Phases
<1>7. Placed'
  <2>1. ASSUME NEW s \in Slots
        PROVE  (s # DepsN /\ name[s] # None => s <= DepsN) /\ (next'[s] # None => next'[s] <= DepsN)
    <3>1. /\ s # DepsN /\ name[s] # None => s <= tail
          /\ next[s] # None => next[s] <= tail /\ next[s] \in Nat
        BY <1>1, <1>3 DEF Placed, LoaderTypes
    <3>2. next'[s] = IF DepsN > 0 /\ s = DepsN - 1 THEN DepsN ELSE next[s]
        BY <1>5
    <3>3. s \in Nat
        BY <1>3
    <3> QED BY <1>3, <3>1, <3>2, <3>3
  <2> QED BY <1>1, <1>2, <1>4, <2>1 DEF Placed
<1>8. Started' /\ Walking'
    BY <1>2, <1>3, <1>4 DEF Started, Walking
<1>9. BoundToWhatItSees'
    BY <1>1, <1>2, <1>4 DEF BoundToWhatItSees, Sees, FileIn, Needed
<1>10. OwnFound' => NamesDiffer' /\ Listed'
  <2> SUFFICES ASSUME OwnFound PROVE NamesDiffer' /\ Listed'
      BY <1>2 DEF OwnFound
  <2>1. NamesDiffer /\ Listed
      BY DEF LoaderInv
  <2>2. NamesDiffer'
      BY <1>2, <1>4, <2>1 DEF NamesDiffer
  <2>3. tail = IF DepsN = 0 THEN 0 ELSE DepsN - 1
      BY <1>2, <2>1 DEF Listed
  <2>4. ASSUME NEW s \in Slots
        PROVE  next'[s] = IF s < DepsN THEN s + 1 ELSE None
    <3>1. next[s] = IF s < tail THEN s + 1 ELSE IF s = 0 /\ DepsN > 0 THEN 0 ELSE None
        BY <1>2, <2>1 DEF Listed
    <3> QED BY <1>3, <1>5, <2>3, <3>1
  <2>5. \A j \in 1 .. DepsN : name'[j - 1] = world.needed[Loader][j]
      BY <1>2, <2>1 DEF Listed
  <2>6. ASSUME NEW s \in Slots, s <= DepsN PROVE name[s] # None
    <3>1. CASE s = DepsN
        BY <1>1, <3>1, SlotsAssumption DEF Placed
    <3>2. CASE s < DepsN
      <4>1. s + 1 \in 1 .. DepsN /\ (s + 1) - 1 = s
          BY <1>3, <3>2
      <4>2. name[s] = world.needed[Loader][s + 1]
          BY <1>2, <2>5, <4>1
      <4> QED BY <1>1, <4>1, <4>2, SlotsTyped, SlotsAssumption
    <3> QED BY <1>3, <2>6, <3>1, <3>2
  <2>7. \A s \in Slots : name[s] # Program
      BY <1>2, <2>1 DEF Listed
  <2>8. Listed'
      BY <1>2, <1>4, <2>4, <2>5, <2>6, <2>7 DEF Listed
  <2> QED BY <2>2, <2>8
<1> QED BY <1>6, <1>7, <1>8, <1>9, <1>10 DEF LoaderInv

LEMMA RelocSelfKeeps == LoaderInv /\ RelocSelf => LoaderInv'
<1> SUFFICES ASSUME LoaderInv, RelocSelf PROVE LoaderInv'
    OBVIOUS
<1>1. LoaderTypes /\ Placed /\ Started /\ Walking /\ BoundToWhatItSees
    BY DEF LoaderInv
<1>2. /\ UNCHANGED <<world, name, image, next, tail, deps, stack, k>>
      /\ phase = "self" /\ phase' \in {"stuck", "program"} /\ stack = <<>>
      /\ bound' = bound \/ (DepsN > 0 /\ reloc_all(DepsN))
      /\ DepsN \in Slots
    BY <1>1, SlotsTyped DEF RelocSelf, Started
<1>3. DepsN' = DepsN /\ Slots' = Slots
    BY <1>2 DEF DepsN, Slots
<1>4. /\ bound' \in [Slots -> [Symbols -> Slots \cup {None}] \cup {None}]
      /\ \A s \in Slots : s # DepsN => bound'[s] = bound[s]
  <2>1. CASE bound' = bound
      BY <1>1, <2>1 DEF LoaderTypes
  <2>2. CASE reloc_all(DepsN)
    <3>1. [y \in Symbols |-> IF image[DepsN] # None /\ y \in world.refers[image[DepsN]]
                               THEN find_sym(DepsN, y) ELSE None] \in [Symbols -> Slots \cup {None}]
        BY <1>1, FindSymTyped
    <3> QED BY <1>1, <1>2, <2>2, <3>1 DEF LoaderTypes, reloc_all
  <2> QED BY <1>2, <2>1, <2>2
<1>5. LoaderTypes'
    BY <1>1, <1>2, <1>3, <1>4 DEF LoaderTypes, Phases
<1>6. Placed'
  <2>1. name[DepsN] # None
      BY <1>1, SlotsAssumption DEF Placed
  <2>2. \A s \in Slots : bound'[s] # None => name[s] # None
      BY <1>1, <1>4, <2>1 DEF Placed
  <2> QED BY <1>1, <1>2, <1>3, <2>2 DEF Placed
<1>7. Started' /\ Walking'
    BY <1>1, <1>2, <1>3 DEF Started, Walking
<1>8. BoundToWhatItSees'
    BY <1>1, <1>2, <1>3, <1>4 DEF BoundToWhatItSees, Sees, FileIn, Needed
<1>9. OwnFound' => NamesDiffer' /\ Listed'
  <2> SUFFICES ASSUME OwnFound PROVE NamesDiffer' /\ Listed'
      BY <1>2 DEF OwnFound
  <2>1. NamesDiffer /\ Listed
      BY DEF LoaderInv
  <2> QED BY <1>2, <1>3, <2>1 DEF NamesDiffer, Listed
<1> QED BY <1>5, <1>6, <1>7, <1>8, <1>9 DEF LoaderInv

LEMMA GoEntryKeeps == LoaderInv /\ GoEntry => LoaderInv'
<1> SUFFICES ASSUME LoaderInv, GoEntry PROVE LoaderInv'
    OBVIOUS
<1>1. LoaderTypes /\ Placed /\ Started /\ Walking /\ BoundToWhatItSees
    BY DEF LoaderInv
<1>2. /\ UNCHANGED <<world, name, image, next, tail, deps, bound, stack, k>>
      /\ phase = "loaded" /\ phase' \in {"stuck", "running"} /\ phase' \in Phases
    BY DEF GoEntry, Phases
<1>3. LoaderTypes' /\ Placed' /\ Walking' /\ BoundToWhatItSees' /\ DepsN' = DepsN /\ Slots' = Slots
    BY <1>1, <1>2, MoveOnKeeps DEF LoaderTypes, Slots
<1>4. Started'
    BY <1>1, <1>2, <1>3 DEF Started
<1>5. OwnFound' => NamesDiffer' /\ Listed'
    BY <1>2, <1>3 DEF LoaderInv, OwnFound, NamesDiffer, Listed
<1> QED BY <1>3, <1>4, <1>5 DEF LoaderInv

LEMMA ReturnKeeps == LoaderInv /\ Return => LoaderInv'
<1> SUFFICES ASSUME LoaderInv, Return PROVE LoaderInv'
    OBVIOUS
<1>1. LoaderTypes /\ Placed /\ Started /\ Walking /\ BoundToWhatItSees
    BY DEF LoaderInv
<1>2. PICK m, s, i, caller :
        m = Len(stack) /\ s = Top.slot /\ i = Top.i /\ caller = SubSeq(stack, 1, Len(stack) - 1)
    OBVIOUS
<1>3. /\ stack # <<>> /\ phase # "stuck" /\ i > Len(Needed(s)) /\ reloc_all(s)
      /\ UNCHANGED <<world, name, image, next, tail>>
      /\ IF caller # <<>>
           THEN /\ deps' = [deps EXCEPT ![caller[Len(caller)].slot] = @ \cup {s}]
                /\ stack' = Advanced(caller) /\ k' = k /\ phase' = phase
           ELSE /\ stack' = <<>> /\ deps' = deps
                /\ IF phase = "preload" THEN k' = k + 1 /\ phase' = phase ELSE k' = k /\ phase' = "loaded"
    BY <1>2 DEF Return
<1>4. /\ m \in Nat \ {0} /\ s \in Slots /\ i \in Nat \ {0} /\ s = stack[m].slot /\ i = stack[m].i
      /\ \A p \in 1 .. m : stack[p].slot \in Slots
    BY <1>1, <1>2, <1>3, TopTyped DEF Top
<1>5. /\ s # DepsN /\ name[s] # None /\ s <= tail /\ bound[s] = None /\ Gathered(s, i)
      /\ \A q \in 1 .. m : q # m => stack[q].slot # s
  <2>1. m \in 1 .. Len(stack) /\ 1 .. m = 1 .. Len(stack)
      BY <1>2, <1>4
  <2>2. /\ stack[m].slot # DepsN /\ name[stack[m].slot] # None /\ stack[m].slot <= tail
        /\ bound[stack[m].slot] = None /\ Gathered(stack[m].slot, stack[m].i)
        /\ \A q \in 1 .. Len(stack) : q # m => stack[q].slot # stack[m].slot
      BY <1>1, <2>1 DEF Walking
  <2> QED BY <1>4, <2>1, <2>2
<1>6. DepsN' = DepsN /\ Slots' = Slots /\ DepsN \in Nat /\ tail \in Nat
    BY <1>1, <1>3, SlotsTyped DEF DepsN, Slots, LoaderTypes
<1>7. PICK b : b = [y \in Symbols |-> IF image[s] # None /\ y \in world.refers[image[s]]
                                        THEN find_sym(s, y) ELSE None]
    OBVIOUS
<1>8. bound' = [bound EXCEPT ![s] = b] /\ b \in [Symbols -> Slots \cup {None}]
    BY <1>1, <1>3, <1>7, FindSymTyped DEF reloc_all
<1>9. /\ bound' \in [Slots -> [Symbols -> Slots \cup {None}] \cup {None}]
      /\ \A t \in Slots : bound'[t] = IF t = s THEN b ELSE bound[t]
    BY <1>1, <1>4, <1>8 DEF LoaderTypes
<1>10. Placed'
    BY <1>1, <1>3, <1>5, <1>6, <1>9 DEF Placed
<1>11. BoundToWhatItSees'
  <2> SUFFICES ASSUME NEW t \in Slots, bound'[t] # None, image[t] # None, t # DepsN,
                      Range(Needed(t)) \subseteq world.present \cap world.mappable,
                      NEW y \in world.refers[image[t]], NEW d, d = bound'[t][y]
               PROVE  RightSlot(t, y, d)
      BY <1>3, <1>6 DEF BoundToWhatItSees, RightSlot, Sees, FileIn, Needed
  <2>1. CASE t = s
    <3>1. world.refers[image[s]] \subseteq Symbols
        BY <1>1, <1>4, <2>1, WorldsAssumption DEF LoaderTypes
    <3>2. d = find_sym(s, y)
        BY <1>7, <1>9, <2>1, <3>1
    <3> QED BY <1>1, <1>3, <1>4, <1>5, <2>1, <3>2, GatheredIsRight
  <2>2. CASE t # s
    <3>1. bound[t] # None /\ d = bound[t][y]
        BY <1>9, <2>2
    <3> QED BY <1>1, <3>1, BoundMeans
  <2> QED BY <2>1, <2>2
<1>12. CASE caller = <<>>
  <2>1. /\ stack' = <<>> /\ deps' = deps
        /\ IF phase = "preload" THEN k' = k + 1 /\ phase' = phase ELSE k' = k /\ phase' = "loaded"
      BY <1>3, <1>12
  <2>2. k \in Nat /\ (phase = "preload" => k < DepsN)
      BY <1>1, <1>3, <1>6 DEF Started, LoaderTypes
  <2>3. LoaderTypes'
    <3>1. k' \in 0 .. DepsN /\ phase' \in Phases
        BY <1>1, <1>6, <2>1, <2>2 DEF LoaderTypes, Phases
    <3>2. stack' \in Seq([slot : Slots, i : Nat \ {0}])
        BY <2>1
    <3> QED BY <1>1, <1>3, <1>6, <1>9, <2>1, <3>1, <3>2 DEF LoaderTypes
  <2>4. Walking'
      BY <2>1 DEF Walking
  <2>5. phase \in {"preload", "program"}
      BY <1>1, <1>3 DEF Started, LoaderTypes, Phases
  <2>6. Started'
    <3>1. phase = "preload" => \A t \in Slots : t # DepsN /\ name[t] # None => t <= k /\ t < k + 1
        BY <1>1, <1>3, <1>6, <2>2, SlotsTyped DEF Started
    <3> QED BY <1>1, <1>3, <1>6, <2>1, <2>2, <2>5, <3>1, SlotsTyped DEF Started
  <2>7. ASSUME OwnFound PROVE NamesDiffer' /\ Listed'
    <3>1. NamesDiffer /\ Listed
        BY <2>7 DEF LoaderInv
    <3>2. NamesDiffer'
        BY <1>3, <1>6, <3>1 DEF NamesDiffer
    <3>3. CASE phase = "preload"
      <4>1. phase' = "preload" /\ k' = k + 1 /\ k' > 0 /\ tail = k /\ tail' = k' - 1
          BY <1>3, <2>1, <2>2, <3>1, <3>3 DEF Listed
      <4>2. \A j \in 1 .. DepsN : j <= k' => j <= k \/ j = k + 1
          BY <1>6, <2>2, <4>1
      <4> QED BY <1>3, <1>6, <2>1, <2>2, <3>1, <3>2, <3>3, <4>1, <4>2 DEF Listed
    <3>4. CASE phase = "program"
        BY <1>3, <1>6, <2>1, <3>1, <3>2, <3>4 DEF Listed
    <3> QED BY <2>5, <3>3, <3>4
  <2>8. OwnFound' = OwnFound
      BY <1>3 DEF OwnFound
  <2> QED BY <1>10, <1>11, <2>3, <2>4, <2>6, <2>7, <2>8 DEF LoaderInv
<1>13. CASE caller # <<>>
  <2>1. PICK n : n = m - 1
      OBVIOUS
  <2>2. n \in 1 .. Len(stack) /\ n + 1 = m /\ n \in 1 .. Len(stack) - 1 /\ caller = SubSeq(stack, 1, n)
    <3>1. n \in Nat /\ caller = SubSeq(stack, 1, n)
        BY <1>2, <1>4, <2>1
    <3>2. n # 0
      <4>1. stack \in Seq([slot : Slots, i : Nat \ {0}])
          BY <1>1 DEF LoaderTypes
      <4>2. SubSeq(stack, 1, 0) = <<>>
          BY <4>1
      <4> QED BY <1>13, <3>1, <4>2
    <3> QED BY <1>2, <1>4, <2>1, <3>1, <3>2
  <2>3. /\ Len(caller) = n /\ caller[n].slot = stack[n].slot
        /\ stack' \in Seq([slot : Slots, i : Nat \ {0}]) /\ Len(stack') = n
        /\ \A p \in 1 .. n : p # n => stack'[p] = stack[p]
        /\ stack'[n].slot = stack[n].slot /\ stack'[n].i = stack[n].i + 1
    <3>1. stack' = Advanced(caller)
        BY <1>3, <1>13
    <3>2. caller[n] = stack[n]
      <4>1. stack \in Seq([slot : Slots, i : Nat \ {0}]) /\ Len(stack) \in Nat
          BY <1>1, LenProperties DEF LoaderTypes
      <4> QED BY <2>2, <4>1
    <3> QED BY <1>1, <2>2, <3>1, <3>2, AdvancedTyped
  <2>4. /\ deps' = [deps EXCEPT ![stack[n].slot] = @ \cup {s}] /\ k' = k /\ phase' = phase
      BY <1>3, <1>13, <2>3
  <2>5. stack[n].i <= Len(Needed(stack[n].slot)) /\ name[s] = Needed(stack[n].slot)[stack[n].i]
      BY <1>1, <1>4, <2>2 DEF Walking
  <2>6. s \in 0 .. tail
      BY <1>1, <1>4, <1>5, <1>6, SlotsTyped
  <2>7. ASSUME NEW p \in 1 .. n PROVE bound[stack[p].slot] = None => bound'[stack[p].slot] = None
    <3>1. p \in 1 .. m /\ p # m
        BY <1>2, <1>4, <2>2
    <3> QED BY <1>4, <1>5, <1>9, <3>1
  <2>8. Walking'
      BY <1>1, <1>3, <2>2, <2>3, <2>4, <2>5, <2>6, <2>7, AdvanceKeeps
  <2>9. LoaderTypes'
    <3>1. deps' \in [Slots -> SUBSET (0 .. MaxSlots)]
      <4>1. s \in 0 .. MaxSlots
          BY <1>4, SlotsAssumption DEF Slots
      <4> QED BY <1>1, <2>4, <4>1 DEF LoaderTypes
    <3> QED BY <1>1, <1>3, <1>6, <1>9, <2>3, <2>4, <3>1 DEF LoaderTypes
  <2>10. stack' # <<>>
      BY <2>2, <2>3
  <2>11. Started'
      BY <1>1, <1>3, <1>6, <2>4, <2>10 DEF Started
  <2>12. OwnFound' => NamesDiffer' /\ Listed'
    <3> SUFFICES ASSUME OwnFound PROVE NamesDiffer' /\ Listed'
        BY <1>3 DEF OwnFound
    <3>1. NamesDiffer /\ Listed
        BY DEF LoaderInv
    <3> QED BY <1>3, <1>6, <2>4, <2>10, <3>1 DEF NamesDiffer, Listed
  <2> QED BY <1>10, <1>11, <2>8, <2>9, <2>11, <2>12 DEF LoaderInv
<1> QED BY <1>12, <1>13

LEMMA NextKeeps == LoaderInv /\ [Next]_vars => LoaderInv'
<1> SUFFICES ASSUME LoaderInv, [Next]_vars PROVE LoaderInv'
    OBVIOUS
<1>1. LoaderTypes /\ Placed /\ Walking /\ Started
    BY DEF LoaderInv
<1>2. ASSUME InLoadDeps PROVE stack # <<>>
    BY <1>2 DEF InLoadDeps
<1>3. CASE DepListed
  <2>1. /\ InLoadDeps /\ Stops(Wanted) # {} /\ AddDep({ListSearch(Wanted)})
        /\ ListSearch(Wanted) # None /\ name[ListSearch(Wanted)] = Wanted
      BY <1>3 DEF DepListed
  <2>2. ListSearch(Wanted) \in 0 .. tail
      BY <1>1, <2>1, SearchTyped
  <2>3. 0 .. tail \subseteq 0 .. MaxSlots
      BY <1>1, SlotsTyped, SlotsAssumption DEF LoaderTypes, Slots
  <2> QED BY <2>1, <2>2, <2>3, AddDepKeeps
<1>4. CASE DepSearchFails
    BY <1>4, GetStuckKeeps DEF DepSearchFails
<1>5. CASE DepMissing
  <2>1. PICK d \in 0 .. MaxSlots : AddDep({d})
      BY <1>5 DEF DepMissing
  <2>2. InLoadDeps /\ Wanted \notin world.present
      BY <1>5 DEF DepMissing, DepUnlisted
  <2> QED BY <2>1, <2>2, AddDepKeeps
<1>6. CASE UNCHANGED vars
  <2>1. UNCHANGED <<world, name, image, next, tail, deps, bound, stack, k, phase>>
      BY <1>6 DEF vars
  <2>2. LoaderTypes' /\ Placed' /\ Walking' /\ BoundToWhatItSees'
      BY <2>1, MoveOnKeeps DEF LoaderInv, LoaderTypes
  <2>3. Started'
      BY <1>1, <2>1 DEF Started, DepsN, Slots
  <2>4. OwnFound' => NamesDiffer' /\ Listed'
      BY <2>1 DEF LoaderInv, OwnFound, NamesDiffer, Listed, DepsN, Slots
  <2> QED BY <2>2, <2>3, <2>4 DEF LoaderInv
<1> QED BY <1>3, <1>4, <1>5, <1>6, DepLoadedKeeps, ReturnKeeps, PreloadPresentKeeps, PreloadMissingKeeps,
           LinkSelfKeeps, RelocSelfKeeps, LoadProgramKeeps, GoEntryKeeps
        DEF Next, __start, load_deps

----------------------------------------------------------------------------
(* The theorems                                                            *)

\* The invariant that the properties of the loader follow from.
THEOREM LoaderInvIsInvariant == Spec => []LoaderInv
<1>1. Init => LoaderInv
    BY InitLoader
<1>2. LoaderInv /\ [Next]_vars => LoaderInv'
    BY NextKeeps
<1> QED BY <1>1, <1>2, PTL DEF Spec

\* For any files, and however they need each other: if the loader finds its own
\* libraries, load_library never gives a name a second slot, nor fills a slot
\* with another file.
THEOREM NamesHaveOneSlot == Spec => []OneSlotEach
<1>1. LoaderInv => OneSlotEach
  <2> SUFFICES ASSUME LoaderInv, OwnFound, NEW s \in Slots
               PROVE  (name[s] # None => SlotOf(name[s]) = {s}) /\ image[s] \in {None, name[s]}
      BY DEF OneSlotEach
  <2> QED BY DEF LoaderInv, NamesDiffer, Placed, SlotOf
<1> QED BY <1>1, LoaderInvIsInvariant, PTL

\* find_sym over deps_index and reloc_all bind a library to itself and to what it
\* needs, in any world, although its dependencies may not be bound yet.
THEOREM LibrariesSeeTheirNeeds == Spec => []BoundToWhatItSees
<1>1. LoaderInv => BoundToWhatItSees
    BY DEF LoaderInv
<1> QED BY <1>1, LoaderInvIsInvariant, PTL

----------------------------------------------------------------------------
(* The loader implements LoadOrder in a supported world                    *)

LEMMA SupportedMeans ==
  ASSUME LoaderInv, Supported
  PROVE  /\ NamesDiffer /\ Listed /\ Files = world.present /\ Files = world.mappable
         /\ \A f \in Files : Range(world.needed[f]) \subseteq Files
         /\ \A s \in Slots : image[s] = name[s]
         /\ \A s \in Slots : name[s] # None =>
              name[s] \in Files /\ Needed(s) = world.needed[name[s]] /\ Range(Needed(s)) \subseteq Files
         /\ MappedFiles \subseteq Files /\ \A s \in Slots : name[s] # None => name[s] \in MappedFiles
         /\ \A f \in MappedFiles : \E s \in Slots : name[s] = f /\ f # None
<1>1. LoaderTypes /\ Placed /\ OwnFound /\ NamesDiffer /\ Listed
    BY DEF LoaderInv, Supported
<1>2. Files = world.present /\ Files = world.mappable
    BY DEF Supported
<1>3. ASSUME NEW f \in Files PROVE Range(world.needed[f]) \subseteq Files
  <2>1. world.needed[f] \in Seq(Files)
      BY <1>1, SlotsTyped
  <2>2. \A j \in DOMAIN world.needed[f] : world.needed[f][j] \in Files
      BY <2>1, ElementOfSeq, LenProperties
  <2> QED BY <2>2 DEF Range
<1>4. \A s \in Slots : name[s] \in Files \cup {None}
    BY <1>1 DEF LoaderTypes
<1>5. \A s \in Slots : image[s] = name[s]
    BY <1>1, <1>2, <1>4 DEF Placed
<1>6. ASSUME NEW s \in Slots, name[s] # None
      PROVE  name[s] \in Files /\ Needed(s) = world.needed[name[s]] /\ Range(Needed(s)) \subseteq Files
  <2>1. Needed(s) = world.needed[name[s]]
      BY <1>5, <1>6 DEF Needed
  <2> QED BY <1>3, <1>4, <1>6, <2>1
<1>7. DOMAIN name = Slots
    BY <1>1 DEF LoaderTypes
<1>8. /\ MappedFiles \subseteq Files /\ \A s \in Slots : name[s] # None => name[s] \in MappedFiles
      /\ \A f \in MappedFiles : \E s \in Slots : name[s] = f /\ f # None
    BY <1>4, <1>7 DEF MappedFiles, Range
<1> QED BY <1>1, <1>2, <1>3, <1>5, <1>6, <1>8

LEMMA SupportedKept == world' = world => (Supported' <=> Supported) /\ DepsN' = DepsN /\ Slots' = Slots
BY DEF Supported, OwnFound, DepsN, Slots

LEMMA AllBoundKept ==
  ASSUME AllBound, UNCHANGED <<world, name, image, bound>>,
         \A p \in 1 .. Len(stack) : \E q \in 1 .. Len(stack') : stack'[q].slot = stack[p].slot
  PROVE  AllBound'
<1>1. DepsN' = DepsN /\ Slots' = Slots /\ MappedFiles' = MappedFiles /\ \A s \in Slots : Needed(s)' = Needed(s)
    BY DEF DepsN, Slots, MappedFiles, Needed, Range
<1> QED BY <1>1 DEF AllBound

\* Loading a library keeps the others as they are.
LEMMA FitsKeepsOrder ==
  ASSUME LoaderInv, Supported, AllBound, SelfBound, NEW f, NEW s, Fits(f, s),
         phase # "self", phase = "program" /\ stack = <<>> => f = Program
  PROVE  AllBound' /\ SelfBound'
<1>1. LoaderTypes /\ Placed
    BY DEF LoaderInv
<1>2. /\ \A t \in Slots : t # s => name'[t] = name[t] /\ image'[t] = image[t]
      /\ \A t \in Slots : name[t] # None => t # s
      /\ name'[s] = f /\ image[s] = None /\ bound[s] = None /\ DepsN' = DepsN
    BY <1>1, LoadKeepsPlaces
<1>3. /\ s \in Slots /\ s # DepsN /\ f \in Files /\ world' = world /\ bound' = bound /\ phase' = phase
      /\ stack' = Append(stack, [slot |-> s, i |-> 1]) /\ name' = [name EXCEPT ![s] = f]
    BY DEF Fits, load_library
<1>4. Slots' = Slots /\ DepsN \in Slots /\ f # None
    BY <1>1, <1>3, SlotsTyped, SlotsAssumption DEF Slots
<1>5. /\ Len(stack') = Len(stack) + 1 /\ stack'[Len(stack) + 1] = [slot |-> s, i |-> 1]
      /\ \A p \in 1 .. Len(stack) : stack'[p] = stack[p]
      /\ Len(stack) \in Nat
  <2>1. stack \in Seq([slot : Slots, i : Nat \ {0}]) /\ [slot |-> s, i |-> 1] \in [slot : Slots, i : Nat \ {0}]
      BY <1>1, <1>3 DEF LoaderTypes
  <2> QED BY <1>3, <2>1, AppendProperties, LenProperties
<1>6. MappedFiles' = MappedFiles \cup {f}
  <2>1. DOMAIN name = Slots /\ DOMAIN name' = Slots
      BY <1>1, <1>3 DEF LoaderTypes
  <2>2. Range(name') = {name'[t] : t \in Slots} /\ Range(name) = {name[t] : t \in Slots}
      BY <2>1 DEF Range
  <2>3. name[s] = None
      BY DEF Fits
  <2>4. MappedFiles' = {name'[t] : t \in Slots} \ {None} /\ MappedFiles = {name[t] : t \in Slots} \ {None}
      BY <2>2 DEF MappedFiles
  <2>5. \A t \in Slots : name'[t] = IF t = s THEN f ELSE name[t]
      BY <1>2
  <2> QED BY <1>3, <1>4, <2>3, <2>4, <2>5
<1>7. ASSUME NEW t \in Slots, bound[t] # None
      PROVE  /\ t # DepsN => Range(Needed(t)') \subseteq MappedFiles'
             /\ \A y \in Symbols : bound[t][y] # None => image'[bound[t][y]] # None
  <2>1. t # s
      BY <1>2, <1>7
  <2>2. Needed(t)' = Needed(t)
      BY <1>2, <1>3, <2>1 DEF Needed
  <2>3. ASSUME NEW y \in Symbols, bound[t][y] # None PROVE image'[bound[t][y]] # None
    <3>1. bound[t][y] \in Slots /\ image[bound[t][y]] # None
        BY <1>1, <1>7, <2>3 DEF LoaderTypes, AllBound
    <3> QED BY <1>2, <3>1
  <2> QED BY <1>6, <1>7, <2>2, <2>3 DEF AllBound
<1>8. ASSUME NEW t \in Slots, t # DepsN, name'[t] # None, bound[t] = None
      PROVE  \E p \in 1 .. Len(stack') : stack'[p].slot = t
  <2>1. CASE t = s
      BY <1>5, <2>1
  <2>2. CASE t # s
    <3>1. PICK p \in 1 .. Len(stack) : stack[p].slot = t
        BY <1>2, <1>8, <2>2 DEF AllBound
    <3> QED BY <1>5, <3>1
  <2> QED BY <2>1, <2>2
<1>9. AllBound'
    BY <1>2, <1>3, <1>4, <1>7, <1>8 DEF AllBound
<1>10. SelfBound'
    BY <1>2, <1>3, <1>4, <1>6 DEF SelfBound
<1> QED BY <1>9, <1>10

\* The library in slot s is relocated: its references go to the slots c.
Binds(s, c) ==
  /\ name[s] # None /\ bound[s] = None /\ bound' = [bound EXCEPT ![s] = c]
  /\ UNCHANGED <<world, name, image>>
  /\ Range(Needed(s)) \subseteq MappedFiles
  /\ \A y \in world.refers[image[s]] : RightSlot(s, y, c[y])
  /\ \A y \in Symbols : c[y] # None => image[c[y]] # None

LEMMA BindsKeepsOrder ==
  ASSUME LoaderInv, Supported, AllBound, NEW s \in Slots, NEW c \in [Symbols -> Slots \cup {None}],
         Binds(s, c),
         \A p \in 1 .. Len(stack) :
           stack[p].slot = s \/ \E q \in 1 .. Len(stack') : stack'[q].slot = stack[p].slot
  PROVE  /\ AllBound' /\ c # None
         /\ \A t \in Slots : bound'[t] = IF t = s THEN c ELSE bound[t]
<1>1. /\ bound' = [bound EXCEPT ![s] = c] /\ UNCHANGED <<world, name, image>>
      /\ Range(Needed(s)) \subseteq MappedFiles
      /\ \A y \in Symbols : c[y] # None => image[c[y]] # None
    BY DEF Binds
<1>2. DepsN' = DepsN /\ Slots' = Slots /\ MappedFiles' = MappedFiles /\ \A t \in Slots : Needed(t)' = Needed(t)
    BY <1>1 DEF DepsN, Slots, MappedFiles, Needed, Range
<1>3. c # None
  <2>1. Slots \subseteq 0 .. MaxSlots
      BY SlotsAssumption DEF Slots
  <2>2. c \in [Symbols -> (0 .. MaxSlots) \cup {None}]
      BY <2>1
  <2> QED BY <2>2, SlotsAssumption
<1>4. \A t \in Slots : bound'[t] = IF t = s THEN c ELSE bound[t]
    BY <1>1 DEF LoaderInv, LoaderTypes
<1>5. ASSUME NEW t \in Slots, bound'[t] # None
      PROVE  /\ t # DepsN => Range(Needed(t)) \subseteq MappedFiles
             /\ \A y \in Symbols : bound'[t][y] # None => image[bound'[t][y]] # None
  <2>1. CASE t = s
      BY <1>1, <1>4, <2>1
  <2>2. CASE t # s
      BY <1>4, <1>5, <2>2 DEF AllBound
  <2> QED BY <2>1, <2>2
<1>6. ASSUME NEW t \in Slots, t # DepsN, name[t] # None, bound'[t] = None
      PROVE  \E p \in 1 .. Len(stack') : stack'[p].slot = t
  <2>1. t # s /\ bound[t] = None
      BY <1>3, <1>4, <1>6
  <2>2. PICK p \in 1 .. Len(stack) : stack[p].slot = t
      BY <1>6, <2>1 DEF AllBound
  <2> QED BY <2>1, <2>2
<1>7. AllBound'
    BY <1>1, <1>2, <1>5, <1>6 DEF AllBound
<1> QED BY <1>3, <1>4, <1>7

\* When all its needs are walked, the library on top of the stack is relocated.
LEMMA ReturnBinds ==
  ASSUME LoaderInv, Supported, Return, NEW s, s = Top.slot
  PROVE  /\ s \in Slots /\ s # DepsN
         /\ \E c \in [Symbols -> Slots \cup {None}] : Binds(s, c)
         /\ \A p \in 1 .. Len(stack) :
              stack[p].slot = s \/ \E q \in 1 .. Len(stack') : stack'[q].slot = stack[p].slot
<1>1. LoaderTypes /\ Placed /\ Walking
    BY DEF LoaderInv
<1>2. PICK m, i, caller : m = Len(stack) /\ i = Top.i /\ caller = SubSeq(stack, 1, Len(stack) - 1)
    OBVIOUS
<1>3. /\ stack # <<>> /\ i > Len(Needed(s)) /\ reloc_all(s) /\ UNCHANGED <<world, name, image, next, tail>>
      /\ caller # <<>> => stack' = Advanced(caller)
    BY <1>2 DEF Return
<1>4. m \in 1 .. Len(stack) /\ s \in Slots /\ i \in Nat \ {0} /\ s = stack[m].slot /\ i = stack[m].i
    BY <1>1, <1>2, <1>3, TopTyped DEF Top
<1>5. s # DepsN /\ name[s] # None /\ s <= tail /\ bound[s] = None /\ Gathered(s, i)
  <2>1. /\ stack[m].slot # DepsN /\ name[stack[m].slot] # None /\ stack[m].slot <= tail
        /\ bound[stack[m].slot] = None /\ Gathered(stack[m].slot, stack[m].i)
      BY <1>1, <1>4 DEF Walking
  <2> QED BY <1>4, <2>1
<1>6. PICK c : c = [y \in Symbols |-> IF image[s] # None /\ y \in world.refers[image[s]]
                                        THEN find_sym(s, y) ELSE None]
    OBVIOUS
<1>7. bound' = [bound EXCEPT ![s] = c] /\ c \in [Symbols -> Slots \cup {None}]
    BY <1>1, <1>3, <1>6, FindSymTyped DEF reloc_all
<1>8. /\ image[s] # None /\ Range(Needed(s)) \subseteq Files
      /\ Files = world.present /\ Files = world.mappable
    BY <1>4, <1>5, SupportedMeans
<1>9. Range(Needed(s)) \subseteq MappedFiles
  <2>1. ASSUME NEW j \in 1 .. Len(Needed(s)) PROVE Needed(s)[j] \in MappedFiles
    <3>1. Len(Needed(s)) \in Nat /\ Needed(s)[j] \in Files /\ j < i
        BY <1>1, <1>3, <1>4, NeededTyped
    <3>2. PICK d \in deps[s] : d \in 0 .. tail /\ name[d] = Needed(s)[j]
      <4>1. Range(Needed(s)) \subseteq world.present
          BY <1>8
      <4> QED BY <1>5, <1>8, <3>1, <4>1 DEF Gathered
    <3>3. d \in Slots /\ name[d] # None
        BY <1>1, <3>1, <3>2, SlotsTyped, SlotsAssumption DEF LoaderTypes, Slots
    <3> QED BY <3>2, <3>3, SupportedMeans
  <2> QED BY <1>1, <1>4, <2>1, NeededTyped
<1>10. ASSUME NEW y \in world.refers[image[s]] PROVE RightSlot(s, y, c[y])
  <2>1. world.refers[image[s]] \subseteq Symbols
      BY <1>1, <1>4, <1>8, WorldsAssumption DEF LoaderTypes
  <2>2. c[y] = find_sym(s, y)
      BY <1>6, <1>8, <2>1
  <2> QED BY <1>1, <1>3, <1>4, <1>5, <1>8, <2>2, GatheredIsRight
<1>11. ASSUME NEW y \in Symbols, c[y] # None PROVE image[c[y]] # None
  <2>1. c[y] = find_sym(s, y)
      BY <1>6, <1>11
  <2>2. find_sym(s, y) \in Providers(s, y)
      BY <1>1, <1>11, <2>1, FindSymFinds
  <2> QED BY <2>1, <2>2 DEF Providers
<1>12. Binds(s, c)
    BY <1>3, <1>5, <1>7, <1>9, <1>10, <1>11 DEF Binds
<1>13. ASSUME NEW p \in 1 .. Len(stack), stack[p].slot # s
       PROVE  \E q \in 1 .. Len(stack') : stack'[q].slot = stack[p].slot
  <2>1. PICK n : n = m - 1
      OBVIOUS
  <2>2. p \in 1 .. n /\ n \in 1 .. Len(stack) /\ caller = SubSeq(stack, 1, n)
      BY <1>2, <1>4, <1>13, <2>1
  <2>3. Advanced(caller)[p].slot = stack[p].slot /\ Len(Advanced(caller)) = n /\ Len(caller) = n
    <3>1. /\ Len(caller) = n /\ Len(Advanced(caller)) = n
          /\ \A q \in 1 .. n : q # n => Advanced(caller)[q] = stack[q]
          /\ Advanced(caller)[n].slot = stack[n].slot
        BY <1>1, <2>2, AdvancedTyped
    <3> QED BY <2>2, <3>1
  <2>4. caller # <<>>
      BY <2>2, <2>3
  <2> QED BY <1>3, <2>2, <2>3, <2>4
<1> QED BY <1>4, <1>5, <1>7, <1>12, <1>13

\* The loader finds what it needs in its own libraries.
LEMMA RelocSelfBinds ==
  ASSUME LoaderInv, Supported, SelfBound, RelocSelf, DepsN > 0
  PROVE  \E c \in [Symbols -> Slots \cup {None}] : Binds(DepsN, c)
<1>1. LoaderTypes /\ Placed
    BY DEF LoaderInv
<1>2. /\ phase = "self" /\ reloc_all(DepsN) /\ UNCHANGED <<world, name, image, tail>>
      /\ deps[DepsN] = 0 .. DepsN - 1 /\ bound[DepsN] = None
    BY DEF RelocSelf, SelfBound
<1>3. /\ DepsN \in Slots /\ DepsN \in Nat /\ tail \in Nat /\ DepsN <= tail /\ 0 .. tail \subseteq Slots
      /\ name[DepsN] = Loader /\ image[DepsN] = Loader /\ Loader \in Files /\ Loader # None
  <2>1. DepsN <= tail
      BY <1>2 DEF LoaderInv, Started
  <2> QED BY <1>1, <2>1, SlotsTyped, SlotsAssumption DEF Placed, LoaderTypes, Slots
<1>4. PICK c : c = [y \in Symbols |-> IF image[DepsN] # None /\ y \in world.refers[image[DepsN]]
                                        THEN find_sym(DepsN, y) ELSE None]
    OBVIOUS
<1>5. bound' = [bound EXCEPT ![DepsN] = c] /\ c \in [Symbols -> Slots \cup {None}]
    BY <1>1, <1>2, <1>4, FindSymTyped DEF reloc_all
<1>6. /\ Needed(DepsN) = world.needed[Loader]
      /\ Range(Needed(DepsN)) = {world.needed[Loader][j] : j \in 1 .. DepsN}
  <2>1. Needed(DepsN) = world.needed[Loader]
      BY <1>3 DEF Needed
  <2> QED BY <1>1, <1>3, <2>1, NeededTyped DEF DepsN
<1>7. \A j \in 1 .. DepsN : j - 1 \in Slots /\ name[j - 1] = world.needed[Loader][j] /\ name[j - 1] # None
  <2>1. \A j \in 1 .. DepsN : name[j - 1] = world.needed[Loader][j]
      BY <1>2, SupportedMeans DEF Listed
  <2> QED BY <1>1, <1>3, <2>1, SlotsTyped, SlotsAssumption
<1>8. Range(Needed(DepsN)) \subseteq MappedFiles
  <2>1. \A j \in 1 .. DepsN : world.needed[Loader][j] \in MappedFiles
      BY <1>7, SupportedMeans
  <2> QED BY <1>6, <2>1
<1>9. ASSUME NEW y, Providers(DepsN, y) # {}, NEW d, d = find_sym(DepsN, y)
      PROVE  /\ d \in Slots /\ image[d] # None /\ y \in world.defines[image[d]]
             /\ image[d] \in Range(Needed(DepsN))
  <2>1. d \in 0 .. DepsN - 1 /\ d \in 0 .. tail /\ image[d] # None /\ y \in world.defines[image[d]]
      BY <1>1, <1>2, <1>9, FindSymFinds DEF Providers
  <2>2. d \in Slots /\ image[d] = name[d] /\ d + 1 \in 1 .. DepsN /\ (d + 1) - 1 = d
      BY <1>3, <2>1, SupportedMeans
  <2>3. name[d] = world.needed[Loader][d + 1]
      BY <1>7, <2>2
  <2> QED BY <1>6, <2>1, <2>2, <2>3
<1>10. ASSUME NEW y \in world.refers[image[DepsN]] PROVE RightSlot(DepsN, y, c[y])
  <2>1. world.refers[image[DepsN]] \subseteq Symbols
      BY <1>1, <1>3, WorldsAssumption DEF LoaderTypes
  <2>2. c[y] = find_sym(DepsN, y)
      BY <1>3, <1>4, <2>1
  <2>3. PICK f \in Range(world.needed[Loader]) : y \in world.defines[f]
      BY <1>3 DEF Supported
  <2>4. PICK j \in 1 .. DepsN : f = world.needed[Loader][j]
      BY <1>6
  <2>5. j - 1 \in Providers(DepsN, y)
    <3>1. j - 1 \in 0 .. DepsN - 1 /\ j - 1 \in 0 .. tail
        BY <1>3
    <3>2. image[j - 1] = f /\ image[j - 1] # None
        BY <1>7, <2>4, SupportedMeans
    <3> QED BY <1>2, <2>3, <3>1, <3>2 DEF Providers
  <2>6. /\ c[y] \in Slots /\ image[c[y]] \in {g \in Sees(DepsN) : y \in world.defines[g]}
      BY <1>9, <2>2, <2>5 DEF Sees
  <2> QED BY <1>1, <2>6, SlotsTyped DEF RightSlot, FileIn
<1>11. ASSUME NEW y \in Symbols, c[y] # None PROVE image[c[y]] # None
  <2>1. c[y] = find_sym(DepsN, y)
      BY <1>4, <1>11
  <2>2. Providers(DepsN, y) # {}
      BY <1>1, <1>11, <2>1, FindSymFinds
  <2> QED BY <1>9, <2>1, <2>2
<1>12. Binds(DepsN, c)
    BY <1>2, <1>3, <1>5, <1>8, <1>10, <1>11 DEF Binds
<1> QED BY <1>5, <1>12

LEMMA InitOrder == Init => OrderInv
<1> SUFFICES ASSUME Init PROVE OrderInv
    OBVIOUS
<1>1. LoaderInv /\ DepsN \in Slots
    BY InitLoader, SlotsTyped DEF LoaderInv
<1>2. AllBound
  <2>1. \A s \in Slots : bound[s] = None /\ (s # DepsN => name[s] = None)
      BY DEF Init
  <2> QED BY <2>1 DEF AllBound
<1>3. SelfBound
    BY <1>1 DEF Init, SelfBound
<1> QED BY <1>1, <1>2, <1>3 DEF OrderInv

\* A step that relocates nothing and loads nothing.
LEMMA QuietKeepsOrder ==
  ASSUME LoaderInv, Supported, AllBound, SelfBound, [Next]_vars, UNCHANGED <<world, name, image, bound>>
  PROVE  AllBound' /\ SelfBound'
<1>1. LoaderTypes /\ Started /\ DepsN' = DepsN /\ Slots' = Slots /\ MappedFiles' = MappedFiles
    BY DEF LoaderInv, DepsN, Slots, MappedFiles, Range
<1>2. CASE UNCHANGED <<stack, deps, phase>>
  <2>1. AllBound'
      BY <1>2, AllBoundKept
  <2> QED BY <1>1, <1>2, <2>1 DEF SelfBound
<1>3. CASE GetStuck
  <2>1. phase' = "stuck" /\ stack' = stack
      BY <1>3 DEF GetStuck
  <2>2. AllBound'
      BY <2>1, AllBoundKept
  <2> QED BY <2>1, <2>2 DEF SelfBound
<1>4. ASSUME InLoadDeps, NEW d, AddDep({d}) PROVE AllBound' /\ SelfBound'
  <2>1. stack # <<>> /\ stack' = Advanced(stack) /\ phase' = phase /\ phase # "self"
      BY <1>1, <1>4 DEF InLoadDeps, AddDep, Started
  <2>2. PICK n : n = Len(stack)
      OBVIOUS
  <2>3. n \in 1 .. Len(stack) /\ stack = SubSeq(stack, 1, n)
      BY <1>1, <2>1, <2>2, TopTyped, SubSeqFull DEF LoaderTypes
  <2>4. /\ Len(stack') = n /\ \A p \in 1 .. n : p # n => stack'[p] = stack[p]
        /\ stack'[n].slot = stack[n].slot
      BY <1>1, <2>1, <2>3, AdvancedTyped
  <2>5. \A p \in 1 .. Len(stack) : p \in 1 .. Len(stack') /\ stack'[p].slot = stack[p].slot
      BY <2>2, <2>4
  <2>6. AllBound'
      BY <2>5, AllBoundKept
  <2> QED BY <1>1, <2>1, <2>6 DEF SelfBound
<1>5. CASE LinkSelf
  <2>1. /\ stack' = stack /\ phase = "preload" /\ phase' = "self" /\ DepsN \in Slots
        /\ DepsN > 0 => deps' = [deps EXCEPT ![DepsN] = 0 .. DepsN - 1]
      BY <1>1, <1>5, SlotsTyped DEF LinkSelf
  <2>2. AllBound'
      BY <2>1, AllBoundKept
  <2>3. DepsN > 0 => deps'[DepsN] = 0 .. DepsN - 1
      BY <1>1, <2>1 DEF LoaderTypes
  <2> QED BY <1>1, <2>1, <2>2, <2>3 DEF SelfBound
<1>6. CASE RelocSelf
  <2>1. stack' = stack /\ phase = "self" /\ stack = <<>> /\ phase' \in {"stuck", "program"}
      BY <1>1, <1>6 DEF RelocSelf, Started
  <2>2. AllBound'
      BY <2>1, AllBoundKept
  <2>3. CASE DepsN > 0
    <3>1. PICK c \in [Symbols -> Slots \cup {None}] : Binds(DepsN, c)
        BY <1>6, <2>3, RelocSelfBinds
    <3>2. DepsN \in Slots
        BY <1>1, SlotsTyped
    <3>3. bound'[DepsN] = c /\ c # None
        BY <2>1, <3>1, <3>2, BindsKeepsOrder
    <3> QED BY <1>1, <2>1, <2>2, <3>3 DEF SelfBound
  <2>4. CASE ~ (DepsN > 0)
      BY <1>1, <2>1, <2>2, <2>4 DEF SelfBound
  <2> QED BY <2>3, <2>4
<1>7. CASE GoEntry
  <2>1. stack' = stack /\ phase = "loaded" /\ phase' \in {"stuck", "running"}
      BY <1>7 DEF GoEntry
  <2>2. AllBound'
      BY <2>1, AllBoundKept
  <2> QED BY <1>1, <2>1, <2>2 DEF SelfBound
<1>8. ASSUME NEW f, NEW s, Fits(f, s) PROVE FALSE
    BY <1>1, <1>8, LoadKeepsPlaces, SlotsAssumption DEF LoaderInv, Fits
<1>9. CASE Return
  <2>1. PICK s : s = Top.slot
      OBVIOUS
  <2>2. s \in Slots /\ \E c \in [Symbols -> Slots \cup {None}] : Binds(s, c)
      BY <1>9, <2>1, ReturnBinds
  <2>3. PICK c \in [Symbols -> Slots \cup {None}] : Binds(s, c)
      BY <2>2
  <2>4. \A p \in 1 .. Len(stack) :
          stack[p].slot = s \/ \E q \in 1 .. Len(stack') : stack'[q].slot = stack[p].slot
      BY <1>9, <2>1, ReturnBinds
  <2>5. c # None /\ bound'[s] = c
      BY <2>2, <2>3, <2>4, BindsKeepsOrder
  <2>6. bound[s] = None
      BY <2>3 DEF Binds
  <2> QED BY <2>5, <2>6
<1>10. CASE PreloadMissing
    BY <1>2, <1>10 DEF PreloadMissing
<1>11. CASE DepListed \/ DepMissing
    BY <1>4, <1>11 DEF DepListed, DepMissing, DepUnlisted
<1>12. CASE PreloadPresent \/ ((DepLoaded \/ LoadProgram) /\ ~ GetStuck)
    BY <1>8, <1>12, PreloadFits, DepLoadedFits, LoadProgramFits
<1>13. CASE UNCHANGED vars
    BY <1>2, <1>13 DEF vars
<1> QED BY <1>3, <1>5, <1>6, <1>7, <1>9, <1>10, <1>11, <1>12, <1>13
        DEF Next, __start, load_deps, DepSearchFails

LEMMA OrderKept == OrderInv /\ [Next]_vars => OrderInv'
<1> SUFFICES ASSUME OrderInv, [Next]_vars PROVE OrderInv'
    OBVIOUS
<1>1. LoaderInv /\ LoaderInv'
    BY NextKeeps DEF OrderInv
<1>2. world' = world
    BY DEF Next, vars, __start, load_deps, PreloadPresent, PreloadMissing, LinkSelf, RelocSelf, LoadProgram,
           GoEntry, DepListed, DepSearchFails, DepMissing, DepLoaded, Return, AddDep, GetStuck, load_library
<1> SUFFICES ASSUME Supported PROVE AllBound' /\ SelfBound'
    BY <1>1, <1>2, SupportedKept DEF OrderInv
<1>3. AllBound /\ SelfBound /\ LoaderTypes /\ Started
    BY DEF OrderInv, LoaderInv
<1>4. CASE UNCHANGED <<world, name, image, bound>>
    BY <1>1, <1>3, <1>4, QuietKeepsOrder
<1>5. CASE PreloadPresent
    BY <1>1, <1>3, <1>5, PreloadFits, FitsKeepsOrder
<1>6. CASE DepLoaded /\ ~ GetStuck
    BY <1>1, <1>3, <1>6, DepLoadedFits, FitsKeepsOrder
<1>7. CASE LoadProgram /\ ~ GetStuck
    BY <1>1, <1>3, <1>7, LoadProgramFits, FitsKeepsOrder
<1>8. CASE Return
  <2>1. PICK s : s = Top.slot
      OBVIOUS
  <2>2. /\ s \in Slots /\ s # DepsN
        /\ \A p \in 1 .. Len(stack) :
             stack[p].slot = s \/ \E q \in 1 .. Len(stack') : stack'[q].slot = stack[p].slot
      BY <1>1, <1>8, <2>1, ReturnBinds
  <2>3. PICK c \in [Symbols -> Slots \cup {None}] : Binds(s, c)
      BY <1>1, <1>8, <2>1, ReturnBinds
  <2>4. AllBound' /\ \A t \in Slots : bound'[t] = IF t = s THEN c ELSE bound[t]
      BY <1>1, <1>3, <2>2, <2>3, BindsKeepsOrder
  <2>5. /\ phase \notin {"self", "loaded", "running", "stuck"} /\ stack # <<>>
        /\ phase' \in {phase, "loaded"} /\ (phase = "preload" => phase' = phase)
      BY <1>3, <1>8 DEF Return, Started
  <2>6. DepsN' = DepsN /\ MappedFiles' = MappedFiles /\ bound'[DepsN] = bound[DepsN] /\ DepsN \in Slots
      BY <1>2, <1>3, <2>2, <2>3, <2>4, SlotsTyped DEF DepsN, MappedFiles, Range, Binds
  <2>7. phase \in {"preload", "program"}
      BY <1>3, <2>5 DEF LoaderTypes, Phases
  <2> QED BY <1>3, <2>4, <2>5, <2>6, <2>7 DEF SelfBound
<1>9. CASE RelocSelf /\ DepsN > 0
  <2>1. PICK c \in [Symbols -> Slots \cup {None}] : Binds(DepsN, c)
      BY <1>1, <1>3, <1>9, RelocSelfBinds
  <2>2. DepsN \in Slots /\ stack = <<>> /\ stack' = stack /\ phase' \in {"stuck", "program"}
      BY <1>3, <1>9, SlotsTyped DEF RelocSelf, Started
  <2>3. AllBound' /\ c # None /\ bound'[DepsN] = c
      BY <1>1, <1>3, <2>1, <2>2, BindsKeepsOrder
  <2>4. DepsN' = DepsN
      BY <1>2 DEF DepsN
  <2> QED BY <2>2, <2>3, <2>4 DEF SelfBound
<1>10. CASE RelocSelf /\ ~ (DepsN > 0)
  <2>1. DepsN = 0
      BY <1>3, <1>10, SlotsTyped
  <2> QED BY <1>4, <1>10, <2>1 DEF RelocSelf
<1>11. CASE DepListed \/ DepMissing \/ DepSearchFails \/ GetStuck
    BY <1>4, <1>11 DEF DepListed, DepMissing, DepSearchFails, AddDep, GetStuck
<1>12. CASE PreloadMissing \/ LinkSelf \/ GoEntry
    BY <1>4, <1>12 DEF PreloadMissing, LinkSelf, GoEntry
<1>13. CASE UNCHANGED vars
    BY <1>4, <1>13 DEF vars
<1> QED BY <1>5, <1>6, <1>7, <1>8, <1>9, <1>10, <1>11, <1>12, <1>13 DEF Next, __start, load_deps

----------------------------------------------------------------------------
(* The refinement mapping                                                  *)

\* The abstract bindings, of any names n, images im and bindings b.
BindingsOf(n, im, b) ==
  [f \in {n[s] : s \in {t \in Slots : b[t] # None}} |->
     [y \in Symbols |->
        LET d == b[CHOOSE s \in {t \in Slots : n[t] = f} : TRUE][y]
        IN  IF d = None THEN None ELSE im[d]]]

LEMMA BindingsAre ==
  ASSUME NEW n, NEW im, NEW b, \A s, t \in Slots : n[s] # None /\ n[s] = n[t] => s = t,
         NEW s \in Slots, n[s] # None, b[s] # None
  PROVE  /\ n[s] \in DOMAIN BindingsOf(n, im, b)
         /\ BindingsOf(n, im, b)[n[s]] =
              [y \in Symbols |-> IF b[s][y] = None THEN None ELSE im[b[s][y]]]
<1>1. {t \in Slots : n[t] = n[s]} = {s}
    OBVIOUS
<1>2. (CHOOSE t \in {t \in Slots : n[t] = n[s]} : TRUE) = s
    BY <1>1
<1>3. n[s] \in {n[t] : t \in {u \in Slots : b[u] # None}}
    OBVIOUS
<1> QED BY <1>2, <1>3 DEF BindingsOf

LEMMA ClosedIsReached ==
  ASSUME LoaderTypes, NEW C, C \subseteq Files, Program \in C,
         \A f \in C : Range(world.needed[f]) \subseteq C
  PROVE  Abstract!Reachable(Program) \subseteq C
<1> DEFINE V == SUBSET C
<1> DEFINE Step(X) == X \cup UNION {Abstract!NeededBy(g) : g \in X}
<1> DEFINE F == [X \in V |-> Step(X)]
<1> DEFINE N == Abstract!Cardinality(Files)
<1> DEFINE Body(q) == [n \in 0 .. N |-> IF n = 0 THEN {Program} ELSE Step(q[n - 1])]
<1>1. N \in Nat
  <2>1. Abstract!Cardinality(Files) = Cardinality(Files)
      BY DEF Abstract!Cardinality, Cardinality
  <2> QED BY <2>1, FS_CardinalityType, SlotsAssumption
<1>2. \A X \in V : Step(X) \in V
  <2>1. \A g : Abstract!NeededBy(g) = Range(world.needed[g])
      BY DEF Abstract!NeededBy, Abstract!Range, Range
  <2> QED BY <2>1
<1>3. \E q : q = Body(q)
  <2>1. F \in [V -> V] /\ {Program} \in V
      BY <1>2
  <2>2. PICK q \in [0 .. N -> V] : q[0] = {Program} /\ \A n \in 1 .. N : q[n] = F[q[n - 1]]
    <3> HIDE DEF F, V, N
    <3>1. \E q : Repeated(F, {Program}, q, V, N)
        BY <1>1, <2>1, RecursionExists
    <3> QED BY <3>1 DEF Repeated
  <2>3. ASSUME NEW n \in 1 .. N PROVE q[n] = Step(q[n - 1])
    <3>1. q[n - 1] \in V
      <4> HIDE DEF V, N
      <4> QED BY <1>1, <2>2
    <3> HIDE DEF V, N, Step
    <3> QED BY <2>2, <3>1
  <2>4. q = Body(q)
    <3> HIDE DEF V, N, Step
    <3> QED BY <1>1, <2>2, <2>3
  <2> QED BY <2>4
<1>4. PICK w : w = CHOOSE q : q = Body(q)
    OBVIOUS
<1>5. w = Body(w)
  <2> HIDE DEF Body
  <2> QED BY <1>3, <1>4
<1>6. Abstract!Reachable(Program) = w[N]
    BY <1>4 DEF Abstract!Reachable
<1> DEFINE S == {n \in Nat : n <= N => w[n] \in V}
<1>7. 0 \in S
    BY <1>1, <1>5
<1>8. ASSUME NEW n \in Nat, n \in S PROVE n + 1 \in S
  <2> SUFFICES ASSUME n + 1 <= N PROVE w[n + 1] \in V
      OBVIOUS
  <2>1. w[n] \in V /\ n + 1 \in 0 .. N /\ n + 1 # 0 /\ (n + 1) - 1 = n
    <3> HIDE DEF N, V
    <3> QED BY <1>1, <1>8
  <2>2. w[n + 1] = Step(w[n])
    <3> HIDE DEF N, V, Step
    <3> QED BY <1>5, <2>1
  <2> QED BY <1>2, <2>1, <2>2
<1>9. w[N] \in V
  <2> HIDE DEF V
  <2>1. Nat \subseteq S
    <3> HIDE DEF S
    <3> QED BY <1>7, <1>8, SetInduction
  <2> QED BY <1>1, <2>1
<1> QED BY <1>6, <1>9

\* The steps of LoadOrder, in terms of the loader.
LEMMA MapIs ==
  ASSUME Supported, Supported', NEW f,
         f \notin MappedFiles, MappedFiles' = MappedFiles \cup {f},
         f = Program \/ \E g \in MappedFiles \ DOMAIN BindingsOf(name, image, bound) :
                          f \in Range(world.needed[g]),
         BindingsOf(name', image', bound') = BindingsOf(name, image, bound),
         phase # "running", phase' # "running"
  PROVE  Abstract!Map(f)
<1>1. \A g : Abstract!NeededBy(g) = Range(world.needed[g])
    BY DEF Abstract!NeededBy, Abstract!Range, Range
<1>2. (Supported /\ phase = "running") = FALSE /\ (Supported' /\ phase' = "running") = FALSE
    OBVIOUS
<1> QED BY <1>1, <1>2 DEF Abstract!Map, BindingsOf, Done, SlotOf, FileIn

RightBinding(f, b) ==
  \A y \in world.refers[f] :
    LET definers == {d \in {f} \cup Range(world.needed[f]) : y \in world.defines[d]}
    IN  IF definers = {} THEN b[y] = None ELSE b[y] \in definers

LEMMA BindIs ==
  ASSUME Supported, Supported', NEW f,
         f \in MappedFiles \ DOMAIN BindingsOf(name, image, bound),
         Range(world.needed[f]) \subseteq MappedFiles,
         DOMAIN BindingsOf(name', image', bound') = DOMAIN BindingsOf(name, image, bound) \cup {f},
         \A g \in DOMAIN BindingsOf(name, image, bound) :
           BindingsOf(name', image', bound')[g] = BindingsOf(name, image, bound)[g],
         RightBinding(f, BindingsOf(name', image', bound')[f]),
         MappedFiles' = MappedFiles, phase # "running", phase' # "running"
  PROVE  Abstract!Bind(f)
<1>1. \A g : Abstract!NeededBy(g) = Range(world.needed[g])
    BY DEF Abstract!NeededBy, Abstract!Range, Range
<1>2. (Supported /\ phase = "running") = FALSE /\ (Supported' /\ phase' = "running") = FALSE
    OBVIOUS
<1>3. PICK b : b = BindingsOf(name', image', bound')
    OBVIOUS
<1>4. Abstract!RightFor(f, b[f])
    BY <1>1, <1>3 DEF Abstract!RightFor, RightBinding
<1>5. PICK a : a = BindingsOf(name, image, bound)
    OBVIOUS
<1>6. (IF Supported THEN [g \in {name[s] : s \in Done} |->
          [y \in Symbols |-> FileIn(bound[CHOOSE s \in SlotOf(g) : TRUE][y])]] ELSE << >>) = a
    BY <1>5 DEF BindingsOf, Done, SlotOf, FileIn
<1>7. (IF Supported THEN [g \in {name[s] : s \in Done} |->
          [y \in Symbols |-> FileIn(bound[CHOOSE s \in SlotOf(g) : TRUE][y])]] ELSE << >>)' = b
    BY <1>3 DEF BindingsOf, Done, SlotOf, FileIn, Slots
<1> QED BY <1>1, <1>2, <1>3, <1>4, <1>5, <1>6, <1>7 DEF Abstract!Bind

LEMMA StartIs ==
  ASSUME Supported, Supported', phase # "running", phase' = "running",
         Abstract!Reachable(Program) \subseteq DOMAIN BindingsOf(name, image, bound),
         UNCHANGED <<name, image, bound>>
  PROVE  Abstract!Start
<1>1. (Supported /\ phase = "running") = FALSE /\ (Supported' /\ phase' = "running") = TRUE
    OBVIOUS
<1>2. /\ MappedFiles' = MappedFiles /\ Done' = Done
      /\ \A f : SlotOf(f)' = SlotOf(f)
      /\ \A d : FileIn(d)' = FileIn(d)
    BY DEF MappedFiles, Done, SlotOf, FileIn, Range, Slots
<1> QED BY <1>1, <1>2 DEF Abstract!Start, BindingsOf, Done, SlotOf, FileIn, Slots

LEMMA BindingsSame ==
  ASSUME NEW n, NEW m, NEW im, NEW jm, NEW b,
         \A s, t \in Slots : n[s] # None /\ n[s] = n[t] => s = t,
         \A s, t \in Slots : m[s] # None /\ m[s] = m[t] => s = t,
         \A s \in Slots : b[s] # None =>
           /\ n[s] # None /\ m[s] = n[s]
           /\ \A y \in Symbols : b[s][y] # None => jm[b[s][y]] = im[b[s][y]]
  PROVE  BindingsOf(m, jm, b) = BindingsOf(n, im, b)
<1> DEFINE D == {n[s] : s \in {t \in Slots : b[t] # None}}
<1>1. DOMAIN BindingsOf(n, im, b) = D /\ DOMAIN BindingsOf(m, jm, b) = D
  <2>1. {m[s] : s \in {t \in Slots : b[t] # None}} = D
      OBVIOUS
  <2>2. DOMAIN BindingsOf(n, im, b) = D
      BY DEF BindingsOf
  <2>3. DOMAIN BindingsOf(m, jm, b) = {m[s] : s \in {t \in Slots : b[t] # None}}
      BY DEF BindingsOf
  <2> QED BY <2>1, <2>2, <2>3
<1>2. ASSUME NEW f \in D PROVE BindingsOf(m, jm, b)[f] = BindingsOf(n, im, b)[f]
  <2>1. PICK s \in Slots : b[s] # None /\ f = n[s]
      OBVIOUS
  <2>2. BindingsOf(n, im, b)[f] = [y \in Symbols |-> IF b[s][y] = None THEN None ELSE im[b[s][y]]]
      BY <2>1, BindingsAre
  <2>3. BindingsOf(m, jm, b)[f] = [y \in Symbols |-> IF b[s][y] = None THEN None ELSE jm[b[s][y]]]
      BY <2>1, BindingsAre
  <2> QED BY <2>1, <2>2, <2>3
<1>3. BindingsOf(n, im, b) = [f \in D |-> BindingsOf(n, im, b)[f]]
    BY <1>1 DEF BindingsOf
<1>4. BindingsOf(m, jm, b) = [f \in D |-> BindingsOf(m, jm, b)[f]]
    BY <1>1 DEF BindingsOf
<1> HIDE DEF D
<1> QED BY <1>2, <1>3, <1>4

\* Loading a library that somebody who is not bound yet needs is a Map.
LEMMA LoadIsMap ==
  ASSUME OrderInv, Supported, NEW f, NEW s, Fits(f, s), \A t \in Slots : name[t] # f,
         f = Program \/ \E g \in Slots : /\ name[g] # None /\ bound[g] = None
                                         /\ f \in Range(world.needed[name[g]]),
         phase # "running"
  PROVE  Abstract!Map(f) /\ f \in Files /\ world' = world
<1>1. /\ LoaderInv /\ LoaderTypes /\ Placed /\ AllBound /\ NamesDiffer /\ Supported
    BY SupportedMeans DEF OrderInv, LoaderInv
<1>2. /\ f \in Files /\ s \in Slots /\ world' = world /\ bound' = bound /\ phase' = phase /\ name[s] = None
      /\ f # None
    BY SlotsAssumption DEF Fits, load_library
<1>3. /\ \A t \in Slots : t # s => name'[t] = name[t] /\ image'[t] = image[t]
      /\ name'[s] = f /\ image[s] = None /\ bound[s] = None /\ LoaderTypes' /\ Slots' = Slots
    BY <1>1, LoadKeepsPlaces DEF Slots
<1>4. NamesDiffer'
    BY <1>1, FitsKeeps
<1>5. BindingsOf(name', image', bound') = BindingsOf(name, image, bound)
  <2>1. \A t \in Slots : bound[t] # None => name[t] # None /\ t # s
      BY <1>1, <1>3 DEF Placed
  <2>2. ASSUME NEW t \in Slots, bound[t] # None, NEW y \in Symbols, bound[t][y] # None
        PROVE  image'[bound[t][y]] = image[bound[t][y]]
    <3>1. bound[t][y] \in Slots /\ image[bound[t][y]] # None
        BY <1>1, <2>2 DEF LoaderTypes, AllBound
    <3> QED BY <1>3, <3>1
  <2>3. \A t \in Slots : bound[t] # None =>
          /\ name[t] # None /\ name'[t] = name[t]
          /\ \A y \in Symbols : bound[t][y] # None => image'[bound[t][y]] = image[bound[t][y]]
      BY <1>3, <2>1, <2>2
  <2>4. BindingsOf(name', image', bound) = BindingsOf(name, image, bound)
      BY <1>1, <1>3, <1>4, <2>3, BindingsSame DEF NamesDiffer
  <2> QED BY <1>2, <2>4
<1>6. f \notin MappedFiles /\ MappedFiles' = MappedFiles \cup {f}
  <2>1. DOMAIN name = Slots /\ DOMAIN name' = Slots
      BY <1>1, <1>3 DEF LoaderTypes
  <2>2. MappedFiles' = {name'[t] : t \in Slots} \ {None} /\ MappedFiles = {name[t] : t \in Slots} \ {None}
      BY <2>1 DEF MappedFiles, Range
  <2>3. \A t \in Slots : name'[t] = IF t = s THEN f ELSE name[t]
      BY <1>3
  <2> QED BY <1>2, <2>2, <2>3
<1>7. ASSUME NEW g \in Slots, name[g] # None, bound[g] = None
      PROVE  name[g] \in MappedFiles \ DOMAIN BindingsOf(name, image, bound)
  <2>1. name[g] \in MappedFiles
      BY <1>1, <1>7, SupportedMeans
  <2>2. \A t \in Slots : bound[t] # None => name[t] # name[g]
      BY <1>1, <1>7 DEF NamesDiffer
  <2>3. DOMAIN BindingsOf(name, image, bound) = {name[t] : t \in {u \in Slots : bound[u] # None}}
      BY DEF BindingsOf
  <2> QED BY <2>1, <2>2, <2>3
<1>8. Supported'
    BY <1>2, SupportedKept
<1> QED BY <1>2, <1>5, <1>6, <1>7, <1>8, MapIs

\* Relocating a library is a Bind.
LEMMA RelocIsBind ==
  ASSUME OrderInv, Supported, NEW s \in Slots, NEW c \in [Symbols -> Slots \cup {None}], Binds(s, c),
         c # None, \A t \in Slots : bound'[t] = IF t = s THEN c ELSE bound[t],
         phase # "running", phase' # "running"
  PROVE  (\E f \in Files : Abstract!Bind(f)) /\ world' = world
<1>1. /\ LoaderInv /\ LoaderTypes /\ Placed /\ AllBound /\ NamesDiffer
    BY SupportedMeans DEF OrderInv, LoaderInv
<1>2. /\ name[s] # None /\ bound[s] = None /\ world' = world /\ name' = name /\ image' = image
      /\ Range(Needed(s)) \subseteq MappedFiles
      /\ \A y \in world.refers[image[s]] : RightSlot(s, y, c[y])
    BY DEF Binds
<1>3. image[s] = name[s] /\ Needed(s) = world.needed[name[s]] /\ name[s] \in Files /\ name[s] \in MappedFiles
    BY <1>1, <1>2, SupportedMeans
<1>4. PICK f, a, b : /\ f = name[s] /\ a = BindingsOf(name, image, bound)
                     /\ b = BindingsOf(name', image', bound')
    OBVIOUS
<1>5. /\ DOMAIN a = {name[t] : t \in {u \in Slots : bound[u] # None}}
      /\ DOMAIN b = {name[t] : t \in {u \in Slots : bound'[u] # None}}
  <2>1. DOMAIN BindingsOf(name, image, bound) = {name[t] : t \in {u \in Slots : bound[u] # None}}
      BY DEF BindingsOf
  <2>2. DOMAIN BindingsOf(name', image', bound') = {name'[t] : t \in {u \in Slots : bound'[u] # None}}
      BY DEF BindingsOf
  <2> QED BY <1>2, <1>4, <2>1, <2>2
<1>6. f \in MappedFiles \ DOMAIN a
  <2>1. \A t \in Slots : bound[t] # None => name[t] # f
      BY <1>1, <1>2, <1>4 DEF NamesDiffer
  <2> QED BY <1>3, <1>4, <1>5, <2>1
<1>7. DOMAIN b = DOMAIN a \cup {f}
    BY <1>4, <1>5
<1>8. ASSUME NEW t \in Slots, bound'[t] # None
      PROVE  b[name[t]] = [y \in Symbols |-> IF bound'[t][y] = None THEN None ELSE image[bound'[t][y]]]
  <2>1. name[t] # None
    <3>1. t # s => bound[t] # None
        BY <1>8
    <3> QED BY <1>1, <1>2, <3>1 DEF Placed
  <2>2. \A u, v \in Slots : name[u] # None /\ name[u] = name[v] => u = v
      BY <1>1 DEF NamesDiffer
  <2>3. PICK d : d = bound'
      OBVIOUS
  <2>4. b = BindingsOf(name, image, d) /\ d[t] # None
      BY <1>2, <1>4, <1>8, <2>3
  <2>5. BindingsOf(name, image, d)[name[t]] =
          [y \in Symbols |-> IF d[t][y] = None THEN None ELSE image[d[t][y]]]
      BY <2>1, <2>2, <2>4, BindingsAre
  <2> QED BY <2>3, <2>4, <2>5
<1>9. ASSUME NEW g \in DOMAIN a PROVE b[g] = a[g]
  <2>1. PICK t \in Slots : bound[t] # None /\ g = name[t]
      BY <1>5
  <2>2. name[t] # None /\ t # s /\ bound'[t] = bound[t]
      BY <1>1, <1>2, <2>1 DEF Placed
  <2>3. a[g] = [y \in Symbols |-> IF bound[t][y] = None THEN None ELSE image[bound[t][y]]]
      BY <1>1, <1>4, <2>1, <2>2, BindingsAre DEF NamesDiffer
  <2> QED BY <1>8, <2>1, <2>2, <2>3
<1>10. ASSUME NEW y \in world.refers[f]
       PROVE  LET definers == {d \in {f} \cup Range(world.needed[f]) : y \in world.defines[d]}
              IN  IF definers = {} THEN b[f][y] = None ELSE b[f][y] \in definers
  <2>1. y \in Symbols
    <3>1. world.refers[f] \subseteq Symbols
        BY <1>1, <1>3, <1>4, WorldsAssumption DEF LoaderTypes
    <3> QED BY <3>1
  <2>2. b[f] = [z \in Symbols |-> IF c[z] = None THEN None ELSE image[c[z]]]
    <3>1. bound'[s] = c
        OBVIOUS
    <3> QED BY <1>4, <1>8, <3>1
  <2>3. b[f][y] = FileIn(c[y])
      BY <2>1, <2>2 DEF FileIn
  <2>4. RightSlot(s, y, c[y])
      BY <1>2, <1>3, <1>4
  <2>5. c[y] = None => FileIn(c[y]) = None
      BY DEF FileIn
  <2> QED BY <1>3, <1>4, <2>3, <2>4, <2>5 DEF RightSlot, Sees
<1>11. MappedFiles' = MappedFiles /\ Supported' /\ Range(world.needed[f]) \subseteq MappedFiles
    BY <1>2, <1>3, <1>4, SupportedKept DEF MappedFiles
<1>12. Abstract!Bind(f)
  <2>1. f \in MappedFiles \ DOMAIN BindingsOf(name, image, bound)
      BY <1>4, <1>6
  <2>2. DOMAIN BindingsOf(name', image', bound') = DOMAIN BindingsOf(name, image, bound) \cup {f}
      BY <1>4, <1>7
  <2>3. \A g \in DOMAIN BindingsOf(name, image, bound) :
          BindingsOf(name', image', bound')[g] = BindingsOf(name, image, bound)[g]
      BY <1>4, <1>9
  <2>4. RightBinding(f, BindingsOf(name', image', bound')[f])
      BY <1>4, <1>10 DEF RightBinding
  <2> QED BY <1>11, <2>1, <2>2, <2>3, <2>4, BindIs
<1> QED BY <1>2, <1>3, <1>4, <1>12

\* When the program is entered, all that has a slot is bound, and needs only what
\* has a slot.
LEMMA AllReached ==
  ASSUME OrderInv, Supported, GoEntry
  PROVE  Abstract!Reachable(Program) \subseteq DOMAIN BindingsOf(name, image, bound)
<1>1. LoaderInv /\ LoaderTypes /\ Placed /\ Started /\ AllBound /\ SelfBound
    BY DEF OrderInv, LoaderInv
<1>2. phase = "loaded" /\ stack = <<>> /\ DepsN \in Slots /\ DepsN \in Nat /\ Program \in MappedFiles
    BY <1>1, SlotsTyped DEF GoEntry, Started, SelfBound
<1>3. /\ name[DepsN] = Loader
      /\ DepsN > 0 => bound[DepsN] # None
      /\ DepsN = 0 => \A f \in Files : Loader \notin Range(world.needed[f])
      /\ Program # Loader
    BY <1>1, <1>2 DEF Placed, SelfBound, Supported, OwnFound
<1> DEFINE C == {f \in MappedFiles : f = Loader => DepsN > 0}
<1>4. C \subseteq Files /\ Program \in C
    BY <1>1, <1>2, <1>3, SupportedMeans
<1>5. ASSUME NEW f \in C PROVE Range(world.needed[f]) \subseteq C
  <2>1. PICK s \in Slots : name[s] = f /\ f # None
      BY <1>1, SupportedMeans
  <2>2. Needed(s) = world.needed[f] /\ f \in Files
      BY <1>1, <2>1, SupportedMeans
  <2>3. CASE s # DepsN
    <3>1. bound[s] # None
      <4>1. ~ \E p \in 1 .. Len(stack) : stack[p].slot = s
          BY <1>2
      <4> QED BY <1>1, <2>1, <2>3, <4>1 DEF AllBound
    <3>2. Range(world.needed[f]) \subseteq MappedFiles
        BY <1>1, <2>2, <2>3, <3>1 DEF AllBound
    <3> QED BY <1>2, <1>3, <2>2, <3>2
  <2>4. CASE s = DepsN
    <3>1. f = Loader /\ DepsN > 0
        BY <1>3, <2>1, <2>4
    <3>2. ASSUME NEW j \in 1 .. DepsN PROVE world.needed[Loader][j] \in MappedFiles
      <4>1. j - 1 \in Slots /\ world.needed[Loader][j] \in Files
          BY <1>1, <1>2, SlotsTyped, SlotsAssumption DEF Slots
      <4>2. name[j - 1] = world.needed[Loader][j]
          BY <1>1, <1>2, SupportedMeans DEF Listed
      <4>3. name[j - 1] # None
          BY <4>1, <4>2, SlotsAssumption
      <4> QED BY <1>1, <4>1, <4>2, <4>3, SupportedMeans
    <3>3. Range(world.needed[Loader]) = {world.needed[Loader][j] : j \in 1 .. DepsN}
      <4>1. Needed(DepsN) = world.needed[Loader]
          BY <2>2, <2>4, <3>1
      <4> QED BY <1>1, <1>2, <4>1, NeededTyped DEF DepsN
    <3> QED BY <3>1, <3>2, <3>3
  <2> QED BY <2>3, <2>4
<1>6. Abstract!Reachable(Program) \subseteq C
  <2> HIDE DEF C
  <2> QED BY <1>1, <1>4, <1>5, ClosedIsReached
<1>7. ASSUME NEW f \in C PROVE f \in DOMAIN BindingsOf(name, image, bound)
  <2>1. PICK s \in Slots : name[s] = f /\ f # None
      BY <1>1, SupportedMeans
  <2>2. bound[s] # None
    <3>1. ~ \E p \in 1 .. Len(stack) : stack[p].slot = s
        BY <1>2
    <3>2. CASE s = DepsN
        BY <1>3, <1>7, <2>1, <3>2
    <3>3. CASE s # DepsN
        BY <1>1, <2>1, <3>1, <3>3 DEF AllBound
    <3> QED BY <3>2, <3>3
  <2> QED BY <2>1, <2>2 DEF BindingsOf
<1> QED BY <1>6, <1>7

\* A step that changes no slot changes nothing abstract.
LEMMA QuietIsStutter ==
  ASSUME UNCHANGED <<world, name, image, bound>>, (phase # "running" /\ phase' # "running") \/ phase' = phase
  PROVE  UNCHANGED Abstract!vars
<1>1. Supported' <=> Supported
    BY SupportedKept
<1>2. PICK r : r = (Supported /\ phase = "running")
    OBVIOUS
<1>3. (Supported' /\ phase' = "running") = r
    BY <1>1, <1>2
<1>4. CASE Supported
  <2>1. Abstract!vars = <<world, MappedFiles, BindingsOf(name, image, bound), r>>
      BY <1>2, <1>4 DEF Abstract!vars, BindingsOf, Done, SlotOf, FileIn
  <2>2. (Abstract!vars)' = <<world', MappedFiles', BindingsOf(name', image', bound'), r>>
      BY <1>1, <1>3, <1>4 DEF Abstract!vars, BindingsOf, Done, SlotOf, FileIn, Slots
  <2>3. MappedFiles' = MappedFiles
      BY DEF MappedFiles
  <2>4. BindingsOf(name', image', bound') = BindingsOf(name, image, bound)
      OBVIOUS
  <2> QED BY <2>1, <2>2, <2>3, <2>4
<1>5. CASE ~ Supported
    BY <1>1, <1>2, <1>3, <1>5 DEF Abstract!vars
<1> QED BY <1>4, <1>5

LEMMA InitImplements == Init => Abstract!Init
<1> SUFFICES ASSUME Init PROVE Abstract!Init
    OBVIOUS
<1>1. LoaderTypes /\ Placed
    BY InitLoader DEF LoaderInv
<1>2. MappedFiles = {Loader}
  <2>1. \A s \in Slots : name[s] = IF s = DepsN THEN Loader ELSE None
      BY DEF Init
  <2>2. DepsN \in Slots /\ DOMAIN name = Slots /\ Loader # None
      BY <1>1, SlotsTyped, SlotsAssumption DEF LoaderTypes
  <2>3. MappedFiles = {name[s] : s \in Slots} \ {None}
      BY <2>2 DEF MappedFiles, Range
  <2> QED BY <2>1, <2>2, <2>3
<1>3. BindingsOf(name, image, bound) = << >>
  <2>1. {t \in Slots : bound[t] # None} = {}
      BY DEF Init
  <2>2. DOMAIN BindingsOf(name, image, bound) = {}
      BY <2>1 DEF BindingsOf
  <2>3. BindingsOf(name, image, bound) = [f \in {} |-> BindingsOf(name, image, bound)[f]]
      BY <2>2 DEF BindingsOf
  <2>4. BindingsOf(name, image, bound) \in [1 .. 0 -> {}]
    <3>1. 1 .. 0 = {}
        OBVIOUS
    <3> QED BY <2>3, <3>1
  <2>5. BindingsOf(name, image, bound) \in Seq({}) /\ Len(BindingsOf(name, image, bound)) = 0
      BY <2>4, FunctionIsSeq
  <2> QED BY <2>5, EmptySeq
<1>4. (Supported /\ phase = "running") = FALSE
    BY DEF Init
<1> QED BY <1>2, <1>3, <1>4 DEF Abstract!Init, BindingsOf, Done, SlotOf, FileIn

LEMMA NextImplements ==
  ASSUME OrderInv, [Next]_vars
  PROVE  [Abstract!Next]_(Abstract!vars)
<1>1. LoaderInv /\ LoaderTypes /\ Placed /\ Started /\ Walking
    BY DEF OrderInv, LoaderInv
<1>2. world' = world
    BY DEF Next, vars, __start, load_deps, PreloadPresent, PreloadMissing, LinkSelf, RelocSelf, LoadProgram,
           GoEntry, DepListed, DepSearchFails, DepMissing, DepLoaded, Return, AddDep, GetStuck, load_library
<1>3. CASE ~ Supported
    BY <1>2, <1>3, SupportedKept DEF Abstract!vars
<1> SUFFICES ASSUME Supported PROVE [Abstract!Next]_(Abstract!vars)
    BY <1>3
<1>4. SelfBound /\ AllBound
    BY DEF OrderInv
<1>5. ASSUME UNCHANGED <<world, name, image, bound>>,
             (phase # "running" /\ phase' # "running") \/ phase' = phase
      PROVE  [Abstract!Next]_(Abstract!vars)
    BY <1>5, QuietIsStutter
<1>6. ASSUME NEW f, Abstract!Map(f) \/ Abstract!Bind(f), f \in Files PROVE [Abstract!Next]_(Abstract!vars)
    BY <1>2, <1>6 DEF Abstract!Next
<1>7. CASE PreloadPresent
  <2>1. PICK f : f = world.needed[Loader][k + 1]
      OBVIOUS
  <2>2. /\ phase = "preload" /\ Fits(f, k) /\ f \in Range(world.needed[Loader])
        /\ \A t \in Slots : name[t] # f
      BY <1>1, <1>7, <2>1, PreloadFits DEF Supported
  <2>3. /\ DepsN \in Slots /\ name[DepsN] = Loader /\ Loader # None /\ bound[DepsN] = None
        /\ phase # "running"
      BY <1>1, <1>4, <2>2, SlotsTyped, SlotsAssumption DEF Placed, SelfBound
  <2>4. Abstract!Map(f) /\ f \in Files
      BY <2>2, <2>3, LoadIsMap
  <2> QED BY <1>6, <2>4
<1>8. CASE DepLoaded /\ ~ GetStuck
  <2>1. PICK f : f = Wanted
      OBVIOUS
  <2>2. /\ phase = "program" /\ stack # <<>> /\ Fits(f, tail + 1) /\ \A t \in Slots : name[t] # f
      BY <1>1, <1>8, <2>1, DepLoadedFits DEF Supported
  <2>3. /\ Top.slot \in Slots /\ Top.i \in 1 .. Len(Needed(Top.slot))
        /\ name[Top.slot] # None /\ bound[Top.slot] = None
    <3>1. Len(stack) \in 1 .. Len(stack) /\ Top.slot \in Slots /\ Top.i \in Nat \ {0}
        BY <1>1, <2>2, TopTyped
    <3>2. name[stack[Len(stack)].slot] # None /\ bound[stack[Len(stack)].slot] = None
        BY <1>1, <3>1 DEF Walking
    <3>3. Top.i <= Len(Needed(Top.slot)) /\ Len(Needed(Top.slot)) \in Nat
        BY <1>1, <1>8, <3>1, NeededTyped DEF DepLoaded, DepUnlisted, InLoadDeps
    <3> QED BY <3>1, <3>2, <3>3 DEF Top
  <2>4. f \in Range(world.needed[name[Top.slot]])
    <3>1. f \in Range(Needed(Top.slot))
        BY <1>1, <2>1, <2>3, NeededTyped DEF Wanted
    <3> QED BY <1>1, <2>3, <3>1, SupportedMeans
  <2>5. Abstract!Map(f) /\ f \in Files
      BY <2>2, <2>3, <2>4, LoadIsMap
  <2> QED BY <1>6, <2>5
<1>9. CASE LoadProgram /\ ~ GetStuck
  <2>1. PICK f : f = Program
      OBVIOUS
  <2>2. phase = "program" /\ Fits(f, tail + 1) /\ \A t \in Slots : name[t] # f
      BY <1>1, <1>9, <2>1, LoadProgramFits DEF Supported
  <2>3. Abstract!Map(f) /\ f \in Files
      BY <2>1, <2>2, LoadIsMap
  <2> QED BY <1>6, <2>3
<1>10. ASSUME NEW s \in Slots, NEW c \in [Symbols -> Slots \cup {None}], Binds(s, c),
              \A p \in 1 .. Len(stack) :
                stack[p].slot = s \/ \E q \in 1 .. Len(stack') : stack'[q].slot = stack[p].slot,
              phase # "running", phase' # "running"
       PROVE  [Abstract!Next]_(Abstract!vars)
  <2>1. c # None /\ \A t \in Slots : bound'[t] = IF t = s THEN c ELSE bound[t]
      BY <1>1, <1>4, <1>10, BindsKeepsOrder
  <2>2. \E f \in Files : Abstract!Bind(f)
      BY <1>10, <2>1, RelocIsBind
  <2> QED BY <1>6, <2>2
<1>11. CASE Return
  <2>1. PICK s : s = Top.slot
      OBVIOUS
  <2>2. /\ s \in Slots
        /\ \A p \in 1 .. Len(stack) :
             stack[p].slot = s \/ \E q \in 1 .. Len(stack') : stack'[q].slot = stack[p].slot
      BY <1>1, <1>11, <2>1, ReturnBinds
  <2>3. PICK c \in [Symbols -> Slots \cup {None}] : Binds(s, c)
      BY <1>1, <1>11, <2>1, ReturnBinds
  <2>4. phase # "running" /\ phase' # "running"
      BY <1>1, <1>11 DEF Return, Started
  <2> QED BY <1>10, <2>2, <2>3, <2>4
<1>12. CASE RelocSelf
  <2>1. phase = "self" /\ phase' \in {"stuck", "program"} /\ stack = <<>> /\ stack' = stack /\ DepsN \in Slots
      BY <1>1, <1>12, SlotsTyped DEF RelocSelf, Started
  <2>2. CASE DepsN > 0
    <3>1. PICK c \in [Symbols -> Slots \cup {None}] : Binds(DepsN, c)
        BY <1>1, <1>4, <1>12, <2>2, RelocSelfBinds
    <3> QED BY <1>10, <2>1, <3>1
  <2>3. CASE ~ (DepsN > 0)
    <3>1. DepsN = 0
        BY <1>1, <2>3, SlotsTyped
    <3> QED BY <1>5, <1>12, <2>1, <3>1 DEF RelocSelf
  <2> QED BY <2>2, <2>3
<1>13. CASE GoEntry
  <2>1. phase = "loaded" /\ phase' \in {"stuck", "running"} /\ UNCHANGED <<world, name, image, bound>>
      BY <1>13 DEF GoEntry
  <2>2. CASE phase' = "running"
    <3>1. Abstract!Reachable(Program) \subseteq DOMAIN BindingsOf(name, image, bound)
        BY <1>13, AllReached
    <3>2. Abstract!Start
        BY <1>2, <2>1, <2>2, <3>1, SupportedKept, StartIs
    <3> QED BY <1>2, <3>2 DEF Abstract!Next
  <2>3. CASE phase' # "running"
      BY <1>5, <2>1, <2>3
  <2> QED BY <2>2, <2>3
<1>14. CASE GetStuck /\ phase # "running"
    BY <1>5, <1>14 DEF GetStuck
<1>15. CASE DepListed \/ DepMissing
    BY <1>5, <1>15 DEF DepListed, DepMissing, AddDep
<1>16. CASE DepSearchFails \/ (DepLoaded /\ GetStuck) \/ (LoadProgram /\ GetStuck)
    BY <1>1, <1>14, <1>16 DEF DepSearchFails, DepLoaded, DepUnlisted, InLoadDeps, LoadProgram, Started
<1>17. CASE PreloadMissing \/ LinkSelf
    BY <1>5, <1>17 DEF PreloadMissing, LinkSelf
<1>18. CASE UNCHANGED vars
    BY <1>5, <1>18 DEF vars
<1> QED BY <1>7, <1>8, <1>9, <1>11, <1>12, <1>13, <1>15, <1>16, <1>17, <1>18
        DEF Next, __start, load_deps

\* In every supported world the loader implements LoadOrder: whatever the files
\* need and define, each step maps one library that is needed, relocates one whose
\* needs are mapped, or, when all the program can reach is relocated, enters it.
THEOREM LoaderImplementsLoadOrder == Spec => RefinesLoadOrder
<1>1. Init => OrderInv /\ Abstract!Init
    BY InitOrder, InitImplements
<1>2. OrderInv /\ [Next]_vars => OrderInv'
    BY OrderKept
<1>3. OrderInv /\ [Next]_vars => [Abstract!Next]_(Abstract!vars)
    BY NextImplements
<1> QED BY <1>1, <1>2, <1>3, PTL DEF Spec, RefinesLoadOrder, Abstract!Spec
=============================================================================
