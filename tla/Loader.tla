------------------------------- MODULE Loader ------------------------------
(***************************************************************************)
(* The ELF run-time loader: __start, load_library, load_deps, find_sym and *)
(* reloc_all of src/core/loader/elf/loader.c, and of nodeps_loader.c,      *)
(* whose functions are the same with DEPS_N 0 and nothing to preload.      *)
(*                                                                         *)
(* Descriptors (struct dso) are slots of one page; HEAD is slot 0.  The    *)
(* recursion of load_library is `stack', one frame per library whose       *)
(* DT_NEEDED entries are being walked.  `world' are the files on disk and  *)
(* never changes.  A set of bits (deps_index) is a set of slots.           *)
(***************************************************************************)
EXTENDS Integers, Sequences, SequencesExt, FiniteSets, FiniteSetsExt, Functions

CONSTANTS
  Files, Symbols, Loader, Program, None,
  MaxSlots,   \* whole struct dso in the page: 10
  Worlds      \* needed, defines, refers of each file; present; mappable

ASSUME SlotsAssumption ==
  /\ MaxSlots \in Nat /\ IsFiniteSet(Files) /\ {Loader, Program} \subseteq Files
  /\ None \notin Files /\ None \notin 0 .. MaxSlots
  /\ None \notin [Symbols -> (0 .. MaxSlots) \cup {None}]

\* The loader has at most as many libraries as it has slots for, each once.
ASSUME WorldsAssumption ==
  \A w \in Worlds :
    /\ w.needed \in [Files -> Seq(Files)]
    /\ w.defines \in [Files -> SUBSET Symbols] /\ w.refers \in [Files -> SUBSET Symbols]
    /\ w.present \subseteq Files /\ w.mappable \subseteq Files
    /\ Len(w.needed[Loader]) < MaxSlots - 1
    /\ \A i, j \in DOMAIN w.needed[Loader] : w.needed[Loader][i] = w.needed[Loader][j] => i = j

VARIABLES
  world,
  name, image,  \* per slot: the name, and the file that base, dynv, ... describe
  next, tail,   \* the list behind HEAD, and TAIL
  deps,         \* per slot: deps_index
  bound,        \* per slot: None, or the slot each reference was relocated to
  stack,        \* frames [slot, i]: the i-th DT_NEEDED entry is next
  k,            \* libraries of the loader walked by __start
  phase

vars == <<world, name, image, next, tail, deps, bound, stack, k, phase>>

Slots == 0 .. MaxSlots - 1
DepsN == Len(world.needed[Loader])   \* DEPS_N, 4 or 0: the loader's own slot
Needed_LastSkipped(s) ==
  IF image[s] \in {None, Loader} \/ world.needed[image[s]] = <<>> THEN <<>> ELSE Front(world.needed[image[s]])
Needed(s) == IF image[s] = None THEN <<>> ELSE world.needed[image[s]]

\* __start up to the first library: the kernel has mapped the loader.
Init ==
  /\ world \in Worlds
  /\ name = [s \in Slots |-> IF s = DepsN THEN Loader ELSE None]
  /\ image = name
  /\ next = [s \in Slots |-> None]
  /\ tail = 0
  /\ deps = [s \in Slots |-> {}]
  /\ bound = [s \in Slots |-> None]
  /\ stack = <<>> /\ k = 0
  /\ phase = "preload"

----------------------------------------------------------------------------
(* Relocation                                                              *)

find_sym_Everywhere(s, y) ==
  LET c == {d \in 0 .. tail : image[d] # None /\ y \in world.defines[image[d]]}
  IN  IF c = {} THEN None ELSE Max(c)

\* From TAIL down to HEAD, the first library of deps_index that has the symbol.
find_sym(s, y) ==
  LET c == {d \in deps[s] \cap 0 .. tail :
              image[d] # None /\ y \in world.defines[image[d]]}
  IN  IF c = {} THEN None ELSE Max(c)

\* A reference that is not found is skipped and keeps what the linker wrote.
reloc_all(s) ==
  bound' = [bound EXCEPT ![s] =
              [y \in Symbols |->
                 IF image[s] # None /\ y \in world.refers[image[s]]
                   THEN find_sym(s, y) ELSE None]]

----------------------------------------------------------------------------
(* The list of libraries                                                   *)

\* The q of load_direct_deps after n steps.
Walked ==
  LET q[n \in 0 .. MaxSlots] ==
        IF n = 0 THEN 0 ELSE IF q[n - 1] = None THEN None ELSE next[q[n - 1]]
  IN  q

\* Where the search for f stops: its slot, the end, or a slot without a name.
Stops(f) ==
  {n \in DOMAIN Walked : Walked[n] = None \/ name[Walked[n]] \in {f, None}}

ListSearch(f) == Walked[Min(Stops(f))]

load_library_TailStays(f, s) ==
  /\ name' = [name EXCEPT ![s] = f]
  /\ image' = [image EXCEPT ![s] = IF @ = None /\ f \in world.mappable THEN f ELSE @]
  /\ next' = [next EXCEPT ![tail] = s]
  /\ tail' = tail
  /\ deps' = [deps EXCEPT ![s] = {s}]
  /\ stack' = Append(stack, [slot |-> s, i |-> 1])
  /\ UNCHANGED <<world, bound, k>>

load_library_NotLinked(f, s) ==
  /\ name' = [name EXCEPT ![s] = f]
  /\ image' = [image EXCEPT ![s] = IF @ = None /\ f \in world.mappable THEN f ELSE @]
  /\ tail' = s
  /\ deps' = [deps EXCEPT ![s] = {s}]
  /\ stack' = Append(stack, [slot |-> s, i |-> 1])
  /\ UNCHANGED <<world, next, bound, k>>

\* map_library fills the fields of an empty slot; a file that is neither
\* ET_DYN nor ET_EXEC leaves it without base and dynamic section.
load_library(f, s) ==
  /\ name' = [name EXCEPT ![s] = f]
  /\ image' = [image EXCEPT ![s] = IF @ = None /\ f \in world.mappable THEN f ELSE @]
  /\ next' = [next EXCEPT ![tail] = s]
  /\ tail' = s
  /\ deps' = [deps EXCEPT ![s] = {s}]
  /\ stack' = Append(stack, [slot |-> s, i |-> 1])
  /\ UNCHANGED <<world, bound, k>>

\* Endless loop, or a write outside of the page or through a wild pointer.
GetStuck ==
  /\ phase' = "stuck"
  /\ UNCHANGED <<world, name, image, next, tail, deps, bound, stack, k>>

----------------------------------------------------------------------------
(* load_deps: one DT_NEEDED entry of the library on top of the stack       *)

Top == stack[Len(stack)]
Advanced(st) == [st EXCEPT ![Len(st)].i = @ + 1]
Wanted == Needed(Top.slot)[Top.i]

InLoadDeps == stack # <<>> /\ phase # "stuck" /\ Top.i <= Len(Needed(Top.slot))

\* deps_index |= 1 << (dso - HEAD), and on to the next entry.
AddDep(bits) ==
  /\ deps' = [deps EXCEPT ![Top.slot] = @ \cup bits]
  /\ stack' = Advanced(stack)
  /\ UNCHANGED <<world, name, image, next, tail, bound, k, phase>>

DepListed ==
  /\ InLoadDeps /\ Stops(Wanted) # {}
  /\ ListSearch(Wanted) # None /\ name[ListSearch(Wanted)] = Wanted
  /\ AddDep({ListSearch(Wanted)})

\* A list that runs in a circle, or strcmp of a null name.
DepSearchFails ==
  /\ InLoadDeps
  /\ Stops(Wanted) # {} => ListSearch(Wanted) # None /\ name[ListSearch(Wanted)] = None
  /\ GetStuck

DepUnlisted == InLoadDeps /\ Stops(Wanted) # {} /\ ListSearch(Wanted) = None

\* load_library returns 0, and the shift by 0 - HEAD sets any bit of an int, or
\* one that is no slot.
DepMissing ==
  /\ DepUnlisted /\ Wanted \notin world.present
  /\ \E bit \in 0 .. MaxSlots : AddDep({bit})

\* load_library(name, 0, 1) takes the slot behind TAIL.  It logs before the loader
\* has relocated itself if __start is still at its own libraries.
DepLoaded ==
  /\ DepUnlisted /\ Wanted \in world.present
  /\ IF phase = "preload" \/ tail + 1 \notin Slots
       THEN GetStuck
       ELSE load_library(Wanted, tail + 1) /\ UNCHANGED phase

\* All entries walked: relocate, and return to load_deps of the library that
\* asked for this one, or to __start.
Return ==
  LET caller == SubSeq(stack, 1, Len(stack) - 1) IN
  /\ stack # <<>> /\ phase # "stuck" /\ Top.i > Len(Needed(Top.slot))
  /\ reloc_all(Top.slot)
  /\ UNCHANGED <<world, name, image, next, tail>>
  /\ IF caller # <<>>
       THEN /\ deps' = [deps EXCEPT ![caller[Len(caller)].slot] = @ \cup {Top.slot}]
            /\ stack' = Advanced(caller)
            /\ UNCHANGED <<k, phase>>
       ELSE /\ stack' = <<>> /\ UNCHANGED deps
            /\ IF phase = "preload"
                 THEN k' = k + 1 /\ UNCHANGED phase
                 ELSE /\ UNCHANGED k
                      /\ phase' = "loaded"

load_deps == DepListed \/ DepSearchFails \/ DepMissing \/ DepLoaded \/ Return

----------------------------------------------------------------------------
(* __start                                                                 *)

PreloadPresent ==
  /\ phase = "preload" /\ stack = <<>> /\ k < DepsN
  /\ world.needed[Loader][k + 1] \in world.present
  /\ load_library(world.needed[Loader][k + 1], k)
  /\ UNCHANGED phase

\* The result of load_library is not looked at.
PreloadMissing ==
  /\ phase = "preload" /\ stack = <<>> /\ k < DepsN
  /\ world.needed[Loader][k + 1] \notin world.present
  /\ k' = k + 1
  /\ UNCHANGED <<world, name, image, next, tail, deps, bound, stack, phase>>

\* The loader puts itself behind its libraries.
LinkSelf ==
  /\ phase = "preload" /\ stack = <<>> /\ k = DepsN
  /\ tail' = DepsN
  /\ IF DepsN = 0
       THEN deps' = [deps EXCEPT ![0] = {0}] /\ UNCHANGED next
       ELSE /\ next' = [next EXCEPT ![DepsN - 1] = DepsN]
            /\ deps' = [deps EXCEPT ![DepsN] = 0 .. DepsN - 1]
  /\ phase' = "self"
  /\ UNCHANGED <<world, name, image, bound, stack, k>>

\* The loader relocates itself and goes on with the functions of its libraries.
RelocSelf ==
  /\ phase = "self"
  /\ IF DepsN = 0 THEN UNCHANGED bound ELSE reloc_all(DepsN)
  /\ phase' = IF DepsN > 0 /\ \E y \in world.refers[Loader] : bound'[DepsN][y] = None
                THEN "stuck" ELSE "program"
  /\ UNCHANGED <<world, name, image, next, tail, deps, stack, k>>

\* A program that cannot be opened gives a null entry_dso.
LoadProgram ==
  /\ phase = "program" /\ stack = <<>>
  /\ IF Program \in world.present /\ tail + 1 \in Slots
       THEN load_library(Program, tail + 1) /\ UNCHANGED phase
       ELSE GetStuck

\* entry_dso is the slot behind the loader's.
GoEntry ==
  /\ phase = "loaded"
  /\ phase' = IF image[DepsN + 1] = None THEN "stuck" ELSE "running"
  /\ UNCHANGED <<world, name, image, next, tail, deps, bound, stack, k>>

__start ==
  \/ PreloadPresent \/ PreloadMissing \/ LinkSelf \/ RelocSelf \/ LoadProgram \/ GoEntry

Next == __start \/ load_deps

Spec == Init /\ [][Next]_vars /\ WF_vars(Next)

----------------------------------------------------------------------------
(* Properties                                                              *)

SlotOf(f) == {s \in Slots : name[s] = f}
FileIn(s) == IF s = None THEN None ELSE image[s]
Sees(s) == {image[s]} \cup Range(Needed(s))

\* The loader's own libraries exist, and neither it nor the program is one of them:
\* __start loads both without a search.
OwnFound ==
  LET own == Range(world.needed[Loader]) IN
  own \subseteq world.present /\ {Loader, Program} \cap own = {} /\ Program # Loader

\* When the loader finds its own libraries, every name has one slot and the slot
\* describes the file of that name, however libraries need each other.
OneSlotEach ==
  OwnFound =>
    \A s \in Slots :
      /\ name[s] # None => SlotOf(name[s]) = {s}
      /\ image[s] \in {None, name[s]}

\* A library none of whose own needs is missing is bound to itself and to what it
\* needs, and to nothing else, although its dependencies may not be bound yet.
BoundToWhatItSees ==
  \A s \in Slots :
    (bound[s] # None /\ image[s] # None /\ s # DepsN
     /\ Range(Needed(s)) \subseteq world.present \cap world.mappable) =>
      \A y \in world.refers[image[s]] :
        LET definers == {f \in Sees(s) : y \in world.defines[f]}
        IN  IF definers = {} THEN bound[s][y] = None ELSE FileIn(bound[s][y]) \in definers

\* The loader is used as zbuild.mk links it: each of its libraries needs only
\* those in front of it, it needs no other functions, and no file is missing.  A
\* loader without libraries is not relocated, so nothing may need it.
Supported ==
  LET own == world.needed[Loader] IN
  /\ OwnFound /\ Files = world.present /\ Files = world.mappable
  /\ \A j \in DOMAIN own : \A f \in Range(world.needed[own[j]]) : \E i \in 1 .. j - 1 : own[i] = f
  /\ DepsN = 0 => \A f \in Files : Loader \notin Range(world.needed[f])
  /\ DepsN > 0 => \A y \in world.refers[Loader] : \E f \in Range(own) : y \in world.defines[f]

MappedFiles == Range(name) \ {None}
Done == {s \in Slots : bound[s] # None}

Abstract == INSTANCE LoadOrder WITH
  mapped  <- IF Supported THEN MappedFiles ELSE {Loader},
  bound   <- IF Supported
               THEN [f \in {name[s] : s \in Done} |->
                       [y \in Symbols |-> FileIn(bound[CHOOSE s \in SlotOf(f) : TRUE][y])]]
               ELSE << >>,
  started <- Supported /\ phase = "running"

\* In a supported world the loader implements LoadOrder: the program is entered
\* only when everything it can reach is relocated, cycles of libraries included.
RefinesLoadOrder == Abstract!Spec

\* In a supported world that fits into the page the program is entered.
ProgramStarts ==
  (Supported /\ Cardinality(Abstract!Reachable(Program) \cup Abstract!Reachable(Loader)) <= MaxSlots)
    ~> (phase = "running")
=============================================================================
