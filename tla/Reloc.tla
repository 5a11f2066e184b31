-------------------------------- MODULE Reloc ------------------------------
(***************************************************************************)
(* What a reference reaches.  zld's resolve_new and fill_address           *)
(* (src/core/link/elf/reloc.c) write a word for each relocation of the     *)
(* inputs, or leave the work to a slot of .plt.got and an entry of         *)
(* .rela.plt (dynamic.c); do_relocs of the loader                          *)
(* (src/core/loader/elf/loader.c) carries those entries out wherever the   *)
(* program was mapped.                                                     *)
(*                                                                         *)
(* Addresses are those of the layout: LinkLayout shows that the file keeps *)
(* them.  base_address is 0.  The inputs are RELA objects: the words to be *)
(* relocated are 0, and there is one relocation for each.                  *)
(***************************************************************************)
EXTENDS Integers, Sequences, SequencesExt, FiniteSets, FiniteSetsExt, Functions

CONSTANTS
  Worlds,   \* objects [sections, symbols, relocs] and a library's addresses of names
  PltGot,   \* address of .plt.got
  Bases     \* where the loader may map the program

Arrays == {"init_array", "fini_array"}
Objects ==
  [sections : Seq([at : Nat, kind : STRING]),
   symbols : Seq([type : {"name", "section", "other"}, name : STRING, section : Nat, value : Nat]),
   relocs : Seq([sec : Nat, offset : Nat, type : STRING, sym : Nat, addend : Int])]

\* What the compiler wrote and the passes before left of an object.  The arrays of
\* constructors are not linked; a symbol that is defined lies in a linked section
\* (callback.c:302 spins otherwise) and .plt.got is behind all of these.
Prepared(o) ==
  /\ \A s \in Range(o.sections) : s.at < PltGot /\ (s.kind \in Arrays => s.at = 0)
  /\ \A y \in Range(o.symbols) :
       /\ y.section \in 0 .. Len(o.sections)
       /\ y.type = "section" => y.section # 0 /\ y.value = 0
       /\ y.type = "name" /\ y.section # 0 =>
            o.sections[y.section].at # 0 /\ o.sections[y.section].at + y.value < PltGot
  /\ \A r \in Range(o.relocs) :
       /\ r.sec \in DOMAIN o.sections /\ r.sym \in DOMAIN o.symbols
       /\ o.sections[r.sec].at # 0 => o.sections[r.sec].at + r.offset < PltGot

ASSUME AddressAssumption ==
  /\ PltGot \in Nat \ {0} /\ Bases \subseteq Nat
  /\ \A w \in Worlds :
       /\ w.objects \in Seq(Objects) /\ \A o \in Range(w.objects) : Prepared(o)
       /\ \A n \in DOMAIN w.library : w.library[n] \in Nat

\* Relocations r of object o and q of p of the objects os are for one word.
SameWord(os, o, r, p, q) ==
  LET a == os[o].sections[r.sec].at
      b == os[p].sections[q.sec].at
  IN  \/ o = p /\ r.sec = q.sec /\ r.offset = q.offset
      \/ a # 0 /\ b # 0 /\ a + r.offset = b + q.offset

\* Linked sections do not overlap, and each word has one relocation.
ASSUME OneRelocationEach ==
  \A w \in Worlds : \A o, p \in DOMAIN w.objects :
    \A k \in DOMAIN w.objects[o].relocs, l \in DOMAIN w.objects[p].relocs :
      SameWord(w.objects, o, w.objects[o].relocs[k], p, w.objects[p].relocs[l]) => o = p /\ k = l

VARIABLES
  world, phase,
  exports,  \* .dynsym in front of the imports: [name, value]
  relocs,   \* the relocations in the order of the objects: [obj, r]
  at,       \* relocations done; afterwards .rela.plt entries done
  word,     \* 32-bit words written, by place
  slots,    \* names of .plt.got, in order
  imports,  \* DynamicImportHashTable: [name, r]
  rela,     \* .rela.plt: [offset, type, name, addend]
  arrays,   \* .init_array and .fini_array
  base,     \* where the program is mapped
  mem       \* 64-bit cells written by the loader, by run-time address

inputs == <<world, exports, relocs>>
linkVars == <<word, slots, imports, rela, arrays>>
vars == <<inputs, phase, at, linkVars, base, mem>>

\* sh_addr: 0 for a section that is not linked.
SectionAt(o, s) == world.objects[o].sections[s].at

\* add_export_symbol for the objects in order, static symbols among theirs.
ExportsOf(o) ==
  FlattenSeq([k \in DOMAIN world.objects[o].symbols |->
    LET y == world.objects[o].symbols[k] IN
    IF y.type = "name" /\ y.section # 0
      THEN <<[name |-> y.name, value |-> SectionAt(o, y.section) + y.value]>>
      ELSE <<>>])
Exports == FlattenSeq([o \in DOMAIN world.objects |-> ExportsOf(o)])
Relocs ==
  FlattenSeq([o \in DOMAIN world.objects |->
    [k \in DOMAIN world.objects[o].relocs |-> [obj |-> o, r |-> world.objects[o].relocs[k]]]])

Init ==
  /\ world \in Worlds /\ phase = "link" /\ at = 0
  /\ exports = Exports
  /\ relocs = Relocs
  /\ word = << >> /\ slots = <<>> /\ imports = <<>> /\ rela = <<>>
  /\ arrays = [a \in Arrays |-> <<>>]
  /\ base = 0 /\ mem = << >>

SymOf(x) == world.objects[x.obj].symbols[x.r.sym]
Place(x) == <<x.obj, x.r.sec, x.r.offset>>
SrcAddr(x) == SectionAt(x.obj, x.r.sec) + x.r.offset

\* The first export of a name.
find_sym2(name) == SelectInSeq(exports, LAMBDA e : e.name = name)
ExportedAt(name) == IF find_sym2(name) = 0 THEN 0 ELSE exports[find_sym2(name)].value

----------------------------------------------------------------------------
(* resolve_new                                                             *)

X == relocs[at + 1]
Linking == phase = "link" /\ at < Len(relocs)
Named == SymOf(X).type = "name"
Dynamic == Named /\ ExportedAt(SymOf(X).name) = 0
DstAddr == IF Named THEN ExportedAt(SymOf(X).name) ELSE SectionAt(X.obj, SymOf(X).section)
ArrayOf == world.objects[X.obj].sections[X.r.sec].kind
Near == {"PC32", "PLT32", "32S"}

Done == at' = at + 1 /\ UNCHANGED <<inputs, phase, base, mem>>

\* A constructor or destructor that an object defines goes to the output's own array.
ResolveArray ==
  /\ Linking /\ Named /\ ~ Dynamic /\ ArrayOf \in Arrays
  /\ arrays' = [arrays EXCEPT ![ArrayOf] = Append(@, DstAddr)]
  /\ Done /\ UNCHANGED <<word, slots, imports, rela>>

InPlace == Linking /\ SymOf(X).type # "other" /\ ~ (Named /\ ~ Dynamic /\ ArrayOf \in Arrays)

ResolveSkipped ==
  /\ Linking /\ SymOf(X).type = "other"
  /\ Done /\ UNCHANGED linkVars

Rela(offset, type, name, addend) == [offset |-> offset, type |-> type, name |-> name, addend |-> addend]

\* R_X86_64_64: the loader fills in the import, or the base; no addend either way.
Resolve64 ==
  /\ InPlace /\ X.r.type = "64"
  /\ rela' = Append(rela, IF Dynamic THEN Rela(SrcAddr(X), "GLOB_DAT", SymOf(X).name, 0)
                          ELSE Rela(SrcAddr(X), "RELATIVE", "", DstAddr))
  /\ Done /\ UNCHANGED <<word, slots, imports, arrays>>

\* A store of v at a.
Put(f, a, v) == [p \in DOMAIN f \cup {a} |-> IF p = a THEN v ELSE f[p]]

fill_address_AddendTwice(dst) ==
  LET value == dst - SrcAddr(X) + 2 * X.r.addend IN
  /\ Place(X) \in DOMAIN word => word[Place(X)] = 0
  /\ value # 0
  /\ word' = Put(word, Place(X), value)

CanFill_ForwardOnly(dst) ==
  (Place(X) \in DOMAIN word => word[Place(X)] = 0) /\ dst - SrcAddr(X) + X.r.addend > 0

\* The distance from the place to the address with its addend.  A word that is
\* filled already, or would be 0, is refused.
CanFill(dst) == (Place(X) \in DOMAIN word => word[Place(X)] = 0) /\ dst - SrcAddr(X) + X.r.addend # 0
fill_address(dst) ==
  /\ CanFill(dst)
  /\ word' = Put(word, Place(X), dst - SrcAddr(X) + X.r.addend)

\* add_pltgot_entry: the address of the next stub; its slot is 8 bytes behind.
NextStub == PltGot + 16 * Len(slots)

NewSlot_AtStub(name, type) ==
  /\ slots' = Append(slots, name)
  /\ imports' = Append(imports, [name |-> name, r |-> NextStub])
  /\ rela' = Append(rela, Rela(NextStub, type, name, 0))

\* __z__link__add_dynamic_entry behind its search.
NewSlot(name, type) ==
  /\ slots' = Append(slots, name)
  /\ imports' = Append(imports, [name |-> name, r |-> NextStub])
  /\ rela' = Append(rela, Rela(NextStub + 8, type, name, 0))

ImportOf(name) == SelectInSeq(imports, LAMBDA i : i.name = name)

ResolveNear ==
  /\ InPlace /\ X.r.type \in Near /\ ~ Dynamic
  /\ fill_address(DstAddr)
  /\ Done /\ UNCHANGED <<slots, imports, rela, arrays>>

\* A stub for the first reference to an import, and the same for the others.
ResolveNearImport ==
  LET name == SymOf(X).name IN
  /\ InPlace /\ X.r.type \in Near /\ Dynamic
  /\ IF ImportOf(name) = 0
       THEN fill_address(NextStub) /\ NewSlot(name, "JUMP_SLOT")
       ELSE fill_address(imports[ImportOf(name)].r) /\ UNCHANGED <<slots, imports, rela>>
  /\ Done /\ UNCHANGED arrays

\* R_X86_64_REX_GOTPCRELX: a slot of its own each time, also for an export.
ResolveGot ==
  /\ InPlace /\ Named /\ X.r.type = "GOTPCRELX"
  /\ fill_address(NextStub + 8)
  /\ NewSlot(SymOf(X).name, "GLOB_DAT")
  /\ Done /\ UNCHANGED arrays

Filled ==
  IF X.r.type = "GOTPCRELX" THEN NextStub + 8
  ELSE IF ~ Dynamic THEN DstAddr
  ELSE IF ImportOf(SymOf(X).name) = 0 THEN NextStub
  ELSE imports[ImportOf(SymOf(X).name)].r

\* for (;;): a type that is not supported, the slot of a section, a refused word.
ResolveSpins ==
  /\ InPlace /\ X.r.type # "64"
  /\ \/ X.r.type \notin Near \cup {"GOTPCRELX"}
     \/ X.r.type = "GOTPCRELX" /\ ~ Named
     \/ ~ CanFill(Filled)
  /\ phase' = "spin"
  /\ UNCHANGED <<inputs, at, linkVars, base, mem>>

resolve_new ==
  \/ ResolveArray \/ ResolveSkipped \/ Resolve64
  \/ ResolveNear \/ ResolveNearImport \/ ResolveGot \/ ResolveSpins

----------------------------------------------------------------------------
(* The loader                                                              *)

Load ==
  /\ phase = "link" /\ at = Len(relocs)
  /\ phase' = "load" /\ at' = 0
  /\ base' \in Bases
  /\ UNCHANGED <<inputs, linkVars, mem>>

\* What the program and its library define under a name, at run time.
Definitions(name) ==
  (IF find_sym2(name) = 0 THEN {} ELSE {base + ExportedAt(name)})
  \cup (IF name \in DOMAIN world.library THEN {world.library[name]} ELSE {})

\* One entry; which definition find_sym meets first depends on who was loaded
\* first.  A name it does not find leaves the cell as it is.
do_relocs ==
  LET e == rela[at + 1] IN
  /\ phase = "load" /\ at < Len(rela)
  /\ \/ e.type = "RELATIVE" /\ mem' = Put(mem, base + e.offset, base + e.addend)
     \/ e.type # "RELATIVE" /\ Definitions(e.name) = {} /\ UNCHANGED mem
     \/ e.type # "RELATIVE" /\ \E d \in Definitions(e.name) :
          mem' = Put(mem, base + e.offset, d + e.addend)
  /\ at' = at + 1
  /\ UNCHANGED <<inputs, phase, linkVars, base>>

reloc_ends ==
  /\ phase = "load" /\ at = Len(rela)
  /\ phase' = "running"
  /\ UNCHANGED <<inputs, at, linkVars, base, mem>>

Next == resolve_new \/ Load \/ do_relocs \/ reloc_ends

Spec == Init /\ [][Next]_vars /\ WF_vars(Next)

----------------------------------------------------------------------------
(* Properties                                                              *)

Cell(a) == IF a \in DOMAIN mem THEN mem[a] ELSE 0

\* The address a reference arrives at: through a stub and its slot, through the
\* slot, or straight.
Stubs == {base + PltGot + 16 * (n - 1) : n \in DOMAIN slots}
Through(a) == IF a \in Stubs THEN Cell(a + 8) ELSE a
Target(x) == base + SrcAddr(x) + word[Place(x)] - x.r.addend
Reached(x) ==
  CASE x.r.type = "64"        -> Cell(base + SrcAddr(x))
    [] x.r.type = "GOTPCRELX" -> Cell(Target(x))
    [] OTHER                  -> Through(Target(x))

\* Everything that could be meant: the symbol of the object itself, or another
\* object's or the library's of that name.
Meant(x) ==
  LET y == SymOf(x)
      own == IF y.section = 0 THEN {} ELSE {base + SectionAt(x.obj, y.section) + y.value}
      others == {base + e.value : e \in {f \in Range(exports) : f.name = y.name}}
  IN  own \cup (IF y.type = "name" THEN others \cup Definitions(y.name) ELSE {})

\* A type the linker supports, in a linked section; 64-bit words have no addend.
Plain(x) ==
  /\ SectionAt(x.obj, x.r.sec) # 0
  /\ x.r.type \in {"PC32", "PLT32", "GOTPCRELX"} \/ (x.r.type = "64" /\ x.r.addend = 0)
  /\ SymOf(x).type = "name" \/ (SymOf(x).type = "section" /\ x.r.type # "GOTPCRELX")
  /\ SymOf(x).section # 0 => SectionAt(x.obj, SymOf(x).section) # 0

\* A 64-bit word of a section without an address.  resolve_new hands it to the
\* loader all the same (reloc.c:264), at its offset in the section, unless it is a
\* constructor's whose name some object defines.
Stray(x) ==
  /\ SectionAt(x.obj, x.r.sec) = 0 /\ x.r.type = "64" /\ SymOf(x).type # "other"
  /\ ~ (/\ SymOf(x).type = "name" /\ ExportedAt(SymOf(x).name) # 0
         /\ world.objects[x.obj].sections[x.r.sec].kind \in Arrays)
StraysApart ==
  \A x \in Range(relocs) : Stray(x) =>
    /\ SrcAddr(x) < PltGot
    /\ \A z \in Range(relocs) : SectionAt(z.obj, z.r.sec) # 0 => SrcAddr(z) # SrcAddr(x)

\* When a symbol has one definition, every reference to it, near, through a stub
\* or a slot, or by a 64-bit word, arrives at that definition wherever the
\* program was mapped, as long as no stray word lies at the address of another.
ReferencesReachTheirDefinition ==
  phase = "running" /\ StraysApart =>
    \A x \in Range(relocs) :
      (Plain(x) /\ Cardinality(Meant(x)) = 1) => Reached(x) \in Meant(x)

\* The loader writes to the slots and to the 64-bit words of linked sections only,
\* to each once, as long as the arrays of the inputs name symbols some object
\* defines.
LoaderWritesItsCells ==
  LET arraysNamed ==
        \A x \in Range(relocs) : SectionAt(x.obj, x.r.sec) = 0 =>
          SymOf(x).type = "name" /\ find_sym2(SymOf(x).name) # 0
          /\ world.objects[x.obj].sections[x.r.sec].kind \in Arrays
      cells == {PltGot + 16 * (n - 1) + 8 : n \in DOMAIN slots}
               \cup {SrcAddr(x) : x \in {z \in Range(relocs) : z.r.type = "64" /\ SectionAt(z.obj, z.r.sec) # 0}}
  IN  arraysNamed =>
        /\ \A i \in DOMAIN rela : rela[i].offset \in cells
        /\ \A i, j \in DOMAIN rela : i # j => rela[i].offset # rela[j].offset

\* Objects whose relocations are all plain, none of them to its own end, are
\* linked, loaded and run.
PlainObjectsRun ==
  (/\ \A x \in Range(relocs) : Plain(x)
   /\ \A x \in Range(relocs) :
        base + SrcAddr(x) - x.r.addend \notin Meant(x) \cup {PltGot, PltGot + 16})
    ~> (phase = "running")
=============================================================================
