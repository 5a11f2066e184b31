-------------------------- MODULE LinkLayoutProofs --------------------------
(***************************************************************************)
(* What the link writes agrees with what it said before, for every number  *)
(* and size of sections, containers, libraries, symbols and relocations.   *)
(*                                                                         *)
(* Addresses.  Both passes walk the same sections.  The first is summed up *)
(* by the fact that each address is the end of the section before it       *)
(* (Contiguous); the second keeps fpos at the address of the section it is *)
(* about to write (Writing).                                               *)
(*                                                                         *)
(* Dynamic table.  set_dynanmic adds up the sizes of the sections in the   *)
(* order in which gen_elf writes them (Place, EmitInv).                    *)
(*                                                                         *)
(* Slots.  The lemmas up to DataStep say what one relocation does to the   *)
(* tables; then the slots follow each other, and each has one relocation   *)
(* that names its symbol (SlotsGood).                                      *)
(*                                                                         *)
(* Strings.  They lie one behind the other (StringsGood), so the walk over *)
(* .dynstr stops at each end (NextStringIs) and meets the libraries first. *)
(*                                                                         *)
(* The last three are about sections that stay in one chunk (OneChunk).    *)
(***************************************************************************)
EXTENDS LinkLayout, SequenceTheorems, TLAPS

Phases == {"addresses", "libraries", "exports", "relocs", "dynamic", "emit", "done", "spin"}

LayoutTypes ==
  /\ pc \in Phases /\ at \in Nat \ {0}
  /\ Len(input) \in Nat /\ \A i \in 1 .. Len(input) : input[i].size \in Nat
  /\ vaddr \in Seq(Nat) /\ Len(vaddr) <= Len(input)
  /\ virtual_address_offset \in Nat /\ sc_size \in Nat /\ pltgot \in Nat
  /\ fpos \in Nat /\ infile \in Seq(Nat) /\ dynfile \in [DynamicNames -> Seq(Nat)]
  /\ D \in [DynamicNames -> Nat] /\ chunks \in [DynamicNames -> Seq(Nat)]

\* Where section i + 1 starts, or would start.
After(i) == IF i < Len(vaddr) THEN vaddr[i + 1] ELSE virtual_address_offset + sc_size

Contiguous ==
  /\ After(0) = Base + HeaderTail
  /\ \A i \in 1 .. Len(vaddr) : After(i) = vaddr[i] + input[i].size

LayingOut ==
  IF pc = "addresses"
    THEN /\ Len(vaddr) = at - 1
         /\ at = Len(input) + 1 => sc_size = 0
    ELSE /\ Len(vaddr) = Len(input) /\ sc_size = 0
         /\ pltgot = virtual_address_offset

Writing ==
  /\ pc \notin {"emit", "done"} => infile = <<>> /\ dynfile[".plt.got"] = <<>>
  /\ pc = "emit" /\ at <= Len(input) =>
       /\ Len(infile) = at - 1 /\ dynfile[".plt.got"] = <<>>
       /\ fpos + Base = vaddr[at]
  /\ pc = "emit" /\ at = Len(input) + 1 /\ dynfile[".plt.got"] = <<>> => fpos + Base = pltgot
  /\ Len(infile) <= Len(vaddr)

\* gen_elf has not run past the chunks of the dynamic sections.
Pending ==
  /\ pc \notin {"emit", "done"} => dynfile = [n \in DynamicNames |-> <<>>]
  /\ pc = "emit" => \A k \in 1 .. 8 :
       at <= Len(input) + k => Len(dynfile[Dynamic[k]]) < Len(chunks[Dynamic[k]])

LayoutInv == LayoutTypes /\ Contiguous /\ LayingOut /\ Writing /\ Pending /\ InputsAtTheirAddresses

LEMMA DynamicNamesDiffer ==
  /\ \A k \in 1 .. 8 : Dynamic[k] \in DynamicNames
  /\ \A k, l \in 1 .. 8 : Dynamic[k] = Dynamic[l] => k = l
  /\ Dynamic[1] = ".plt.got" /\ Len(Dynamic) = 8
<1>1. \A k \in 1 .. 8 : k \in {1, 2, 3, 4, 5, 6, 7, 8}
    OBVIOUS
<1>2. DOMAIN Dynamic = 1 .. 8
    BY DEF Dynamic
<1> QED BY <1>1, <1>2 DEF DynamicNames, Dynamic

\* The link starts with nothing laid out.
LEMMA InitLayout == Init => LayoutInv
<1> SUFFICES ASSUME Init PROVE LayoutInv
    OBVIOUS
<1>0. input \in Seq([sc : Nat, size : Nat])
    BY LayoutAssumption DEF Init
<1>1. LayoutTypes
  <2>1. ASSUME NEW i \in 1 .. Len(input) PROVE input[i].size \in Nat
    <3>1. input[i] \in [sc : Nat, size : Nat]
        BY <1>0, <2>1, ElementOfSeq
    <3> QED BY <3>1
  <2>2. Len(input) \in Nat
      BY <1>0
  <2> QED BY <2>1, <2>2, LayoutAssumption DEF Init, LayoutTypes, Phases
<1>2. Contiguous /\ LayingOut
    BY LayoutAssumption DEF Init, Contiguous, After, LayingOut
<1>3. Writing /\ InputsAtTheirAddresses
    BY DEF Init, Writing, InputsAtTheirAddresses, DynamicNames, Dynamic
<1>4. Pending
    BY DEF Init, Pending
<1> QED BY <1>1, <1>2, <1>3, <1>4 DEF LayoutInv

\* Steps that neither lay out nor write: only pc and at may move, and not into
\* or out of the two passes.
Between == {"libraries", "exports", "relocs", "dynamic", "spin"}
LEMMA BetweenKeeps ==
  ASSUME LayoutInv, UNCHANGED <<layout, file>>, pc \in Between, pc' \in Between, at' \in Nat \ {0},
         D' \in [DynamicNames -> Nat], chunks' \in [DynamicNames -> Seq(Nat)]
  PROVE  LayoutInv'
<1> USE DEF layout, file, Between
<1>1. LayoutTypes'
    BY DEF LayoutInv, LayoutTypes, Phases
<1>2. Contiguous' /\ LayingOut'
    BY DEF LayoutInv, Contiguous, After, LayingOut
<1>3. Writing' /\ InputsAtTheirAddresses'
    BY DEF LayoutInv, Writing, InputsAtTheirAddresses
<1>4. Pending'
    BY DEF LayoutInv, Pending
<1> QED BY <1>1, <1>2, <1>3, <1>4 DEF LayoutInv

\* Laying out one more section.
LEMMA SetVirtualAddressKeeps == LayoutInv /\ SetVirtualAddress => LayoutInv'
<1> SUFFICES ASSUME LayoutInv, SetVirtualAddress PROVE LayoutInv'
    OBVIOUS
<1> USE DEF LayoutInv
<1>1. /\ pc = "addresses" /\ at <= Len(input) /\ at' = at + 1
      /\ vaddr' = Append(vaddr, virtual_address_offset + sc_size)
      /\ UNCHANGED <<pc, input, pltgot, fpos, infile, dynfile, D, chunks>>
    BY DEF SetVirtualAddress, file, tables
<1>2. /\ at \in Nat \ {0} /\ vaddr \in Seq(Nat) /\ Len(vaddr) = at - 1
      /\ virtual_address_offset \in Nat /\ sc_size \in Nat
      /\ Len(input) \in Nat /\ at \in 1 .. Len(input)
    BY <1>1 DEF LayoutTypes, LayingOut
<1>3. input[at].size \in Nat
    BY <1>2 DEF LayoutTypes
<1>4. /\ vaddr' \in Seq(Nat) /\ Len(vaddr') = at
      /\ vaddr'[at] = virtual_address_offset + sc_size
      /\ \A i \in 1 .. at - 1 : vaddr'[i] = vaddr[i]
    BY <1>1, <1>2
<1>5. /\ virtual_address_offset' \in Nat /\ sc_size' \in Nat
      /\ virtual_address_offset' + sc_size' = virtual_address_offset + sc_size + input[at].size
      /\ at = Len(input) => sc_size' = 0
  <2>1. CASE LastOfContainer(at)
      BY <1>2, <1>3, <2>1 DEF SetVirtualAddress
  <2>2. CASE ~LastOfContainer(at)
      BY <1>2, <1>3, <2>2 DEF SetVirtualAddress, LastOfContainer
  <2> QED BY <2>1, <2>2
<1>6. LayoutTypes'
  <2>1. Len(vaddr') <= Len(input')
      BY <1>1, <1>2, <1>4
  <2> QED BY <1>1, <1>2, <1>4, <1>5, <2>1, SMTT(30) DEF LayoutTypes
<1>7. Contiguous'
  <2>1. \A i \in 0 .. at - 1 : After(i)' = After(i)
    <3> SUFFICES ASSUME NEW i \in 0 .. at - 1 PROVE After(i)' = After(i)
        OBVIOUS
    <3>1. CASE i < at - 1
        BY <1>2, <1>4, <3>1 DEF After
    <3>2. CASE i = at - 1
        BY <1>2, <1>4, <3>2 DEF After
    <3> QED BY <1>2, <3>1, <3>2
  <2>2. After(0)' = Base + HeaderTail
      BY <1>2, <2>1 DEF Contiguous
  <2>3. ASSUME NEW i \in 1 .. at PROVE After(i)' = vaddr'[i] + input'[i].size
    <3>1. CASE i = at
      <4>1. After(i)' = virtual_address_offset' + sc_size'
          BY <1>2, <1>4, <3>1 DEF After
      <4> QED BY <1>1, <1>2, <1>3, <1>4, <1>5, <3>1, <4>1
    <3>2. CASE i < at
      <4>1. After(i)' = After(i) /\ vaddr'[i] = vaddr[i]
          BY <1>2, <1>4, <2>1, <3>2
      <4> QED BY <1>1, <1>2, <3>2, <4>1, SMTT(30) DEF Contiguous
    <3> QED BY <1>2, <3>1, <3>2
  <2> QED BY <1>4, <2>2, <2>3 DEF Contiguous
<1>8. LayingOut'
    BY <1>1, <1>2, <1>4, <1>5 DEF LayingOut
<1>9. Writing' /\ InputsAtTheirAddresses'
  <2>1. infile' = <<>> /\ dynfile'[".plt.got"] = <<>>
      BY <1>1 DEF Writing
  <2> QED BY <1>1, <1>2, <1>4, <2>1 DEF Writing, InputsAtTheirAddresses
<1>10. Pending'
    BY <1>1 DEF Pending
<1> QED BY <1>6, <1>7, <1>8, <1>9, <1>10

\* The last address becomes that of .plt.got.
LEMMA AddDynamicKeeps == LayoutInv /\ add_dynamic => LayoutInv'
<1> SUFFICES ASSUME LayoutInv, add_dynamic PROVE LayoutInv'
    OBVIOUS
<1> USE DEF LayoutInv
<1>1. /\ pc = "addresses" /\ at = Len(input) + 1 /\ pc' = "libraries" /\ at' = 1
      /\ pltgot' = virtual_address_offset
      /\ UNCHANGED <<input, vaddr, virtual_address_offset, sc_size, chunks, fpos, infile, dynfile>>
    BY DEF add_dynamic, file
<1>2. LayoutTypes'
  <2>1. D' \in [DynamicNames -> Nat]
      BY LayoutAssumption DEF add_dynamic, LayoutTypes
  <2> QED BY <1>1, <2>1 DEF LayoutTypes, Phases
<1>3. Contiguous'
    BY <1>1 DEF Contiguous, After
<1>4. LayingOut'
    BY <1>1 DEF LayingOut, LayoutTypes
<1>5. Writing' /\ InputsAtTheirAddresses'
    BY <1>1 DEF Writing, InputsAtTheirAddresses
<1>6. Pending'
    BY <1>1 DEF Pending
<1> QED BY <1>2, <1>3, <1>4, <1>5, <1>6

\* gen_elf starts at program_header_tail, the first address less the base.
LEMMA SetEntriesKeeps == LayoutInv /\ SetEntries => LayoutInv'
<1> SUFFICES ASSUME LayoutInv, SetEntries PROVE LayoutInv'
    OBVIOUS
<1> USE DEF LayoutInv
<1>1. /\ pc = "dynamic" /\ pc' = "emit" /\ at' = 1 /\ fpos' = HeaderTail
      /\ UNCHANGED <<input, vaddr, virtual_address_offset, sc_size, pltgot, infile, dynfile, D>>
    BY DEF SetEntries, layout
<1>0. \A n \in DynamicNames : LastSize(n) \in Nat
  <2> SUFFICES ASSUME NEW n \in DynamicNames PROVE LastSize(n) \in Nat
      OBVIOUS
  <2>1. D[n] \in Nat /\ D[".dynamic"] \in Nat
      BY DEF LayoutTypes, DynamicNames, Dynamic
  <2>2. D[n] * 16 \in Nat /\ (13 + D[".dynamic"]) * 16 \in Nat /\ (1 + D[n]) * 24 \in Nat
      BY <2>1
  <2> QED BY <2>1, <2>2 DEF LastSize, dynamic_entry_num, PltSize, DynSize, SymSize, TagCount
<1>2. LayoutTypes'
  <2>2. chunks' \in [DynamicNames -> Seq(Nat)]
      BY <1>0 DEF SetEntries, LayoutTypes
  <2> QED BY <1>1, <2>2, LayoutAssumption DEF LayoutTypes, Phases
<1>3. Contiguous' /\ LayingOut'
    BY <1>1 DEF Contiguous, After, LayingOut
<1>4. infile = <<>> /\ dynfile[".plt.got"] = <<>>
    BY <1>1 DEF Writing
<1>5. Len(input) >= 1 => vaddr[1] = HeaderTail + Base
    BY <1>1, LayoutAssumption DEF Contiguous, After, LayingOut, LayoutTypes
<1>6. Len(input) = 0 => pltgot = HeaderTail + Base
    BY <1>1, LayoutAssumption DEF Contiguous, After, LayingOut, LayoutTypes
<1>7. Writing'
    BY <1>1, <1>4, <1>5, <1>6 DEF Writing, LayoutTypes
<1>8. InputsAtTheirAddresses'
    BY <1>1, <1>4 DEF InputsAtTheirAddresses
<1>9. Pending'
  <2> SUFFICES ASSUME NEW k \in 1 .. 8
               PROVE  Len(dynfile'[Dynamic[k]]) < Len(chunks'[Dynamic[k]])
      BY <1>1 DEF Pending
  <2> DEFINE n == Dynamic[k]
  <2>1. n \in DynamicNames
      BY DynamicNamesDiffer
  <2>2. dynfile'[n] = <<>> /\ chunks'[n] = Append(chunks[n], LastSize(n)) /\ chunks[n] \in Seq(Nat)
      BY <1>1, <2>1 DEF Pending, SetEntries, LayoutTypes
  <2> HIDE DEF n
  <2>3. LastSize(n) \in Nat
      BY <1>0, <2>1
  <2> QED BY <2>2, <2>3 DEF n
<1> QED BY <1>2, <1>3, <1>7, <1>8, <1>9

\* Writing one input section moves the file position to the next address.
LEMMA WriteInputKeeps == LayoutInv /\ WriteInput => LayoutInv'
<1> SUFFICES ASSUME LayoutInv, WriteInput PROVE LayoutInv'
    OBVIOUS
<1> USE DEF LayoutInv
<1>1. /\ pc = "emit" /\ at <= Len(input) /\ at' = at + 1
      /\ infile' = Append(infile, fpos) /\ fpos' = fpos + input[at].size
      /\ UNCHANGED <<pc, input, vaddr, virtual_address_offset, sc_size, pltgot, dynfile, D, chunks>>
    BY DEF WriteInput, layout, tables
<1>2. /\ at \in Nat \ {0} /\ fpos \in Nat /\ infile \in Seq(Nat) /\ vaddr \in Seq(Nat)
      /\ Len(vaddr) = Len(input) /\ Len(input) \in Nat /\ sc_size = 0 /\ pltgot = virtual_address_offset
      /\ virtual_address_offset \in Nat
    BY <1>1 DEF LayoutTypes, LayingOut
<1>3. input[at].size \in Nat /\ vaddr[at] \in Nat
    BY <1>1, <1>2 DEF LayoutTypes
<1>4. Len(infile) = at - 1 /\ dynfile[".plt.got"] = <<>> /\ fpos + Base = vaddr[at]
    BY <1>1 DEF Writing
<1>5. fpos' + Base = After(at)
  <2>1. After(at) = vaddr[at] + input[at].size
      BY <1>1, <1>2 DEF Contiguous
  <2>2. Base \in Nat /\ fpos' = fpos + input[at].size
      BY <1>1, LayoutAssumption
  <2> QED BY <1>2, <1>3, <1>4, <2>1, <2>2, SMTT(30)
<1>6. /\ infile' \in Seq(Nat) /\ Len(infile') = at /\ infile'[at] = fpos
      /\ \A i \in 1 .. at - 1 : infile'[i] = infile[i]
    BY <1>1, <1>2, <1>4
<1>7. LayoutTypes'
    BY <1>1, <1>2, <1>3, <1>6, SMTT(30) DEF LayoutTypes
<1>8. Contiguous' /\ LayingOut'
    BY <1>1 DEF Contiguous, After, LayingOut
<1>9. Writing'
    BY <1>1, <1>2, <1>4, <1>5, <1>6 DEF Writing, After
<1>10. InputsAtTheirAddresses'
  <2> SUFFICES ASSUME NEW i \in 1 .. at PROVE infile'[i] + Base = vaddr[i]
      BY <1>1, <1>4, <1>6 DEF InputsAtTheirAddresses
  <2>1. CASE i = at
      BY <1>4, <1>6, <2>1
  <2>2. CASE i < at
    <3>1. i \in DOMAIN infile /\ infile'[i] = infile[i]
        BY <1>2, <1>4, <1>6, <2>2
    <3> QED BY <3>1 DEF InputsAtTheirAddresses
  <2> QED BY <1>2, <2>1, <2>2
<1>11. Pending'
  <2>1. /\ pc = "emit" /\ pc' = pc /\ input' = input /\ dynfile' = dynfile /\ chunks' = chunks
        /\ at' = at + 1
      BY <1>1
  <2> SUFFICES ASSUME NEW k \in 1 .. 8, at' <= Len(input) + k
               PROVE  Len(dynfile[Dynamic[k]]) < Len(chunks[Dynamic[k]])
      BY <2>1 DEF Pending
  <2>2. at <= Len(input) + k
      BY <1>2, <2>1
  <2> QED BY <2>1, <2>2 DEF Pending
<1> QED BY <1>7, <1>8, <1>9, <1>10, <1>11

\* Of the dynamic sections only .plt.got comes directly behind the inputs.
LEMMA WriteDynamicKeeps == LayoutInv /\ WriteDynamic => LayoutInv'
<1> SUFFICES ASSUME LayoutInv, WriteDynamic PROVE LayoutInv'
    OBVIOUS
<1> USE DEF LayoutInv
<1> DEFINE m == at - Len(input)
<1> DEFINE n == Dynamic[m]
<1> DEFINE j == Len(dynfile[n]) + 1
<1>0. at \in Nat /\ Len(input) \in Nat
    BY DEF LayoutTypes
<1>1. /\ pc = "emit" /\ at \in Len(input) + 1 .. Len(input) + 8
      /\ dynfile' = [dynfile EXCEPT ![n] = Append(@, fpos)]
      /\ fpos' = fpos + chunks[n][j] /\ at' \in {at, at + 1}
      /\ UNCHANGED <<pc, input, vaddr, virtual_address_offset, sc_size, pltgot, infile, D, chunks>>
    BY DynamicNamesDiffer DEF WriteDynamic, layout, tables
<1>2. n \in DynamicNames /\ (n = ".plt.got" <=> at = Len(input) + 1)
  <2>1. m \in 1 .. 8 /\ (m = 1 => at = Len(input) + 1) /\ (at = Len(input) + 1 => m = 1)
    <3>1. at \in Len(input) + 1 .. Len(input) + 8
        BY <1>1
    <3> QED BY <1>0, <3>1
  <2> HIDE DEF m
  <2>2. Dynamic[m] \in DynamicNames /\ (Dynamic[m] = ".plt.got" <=> m = 1)
      BY <2>1, DynamicNamesDiffer
  <2> QED BY <2>1, <2>2
<1>3. dynfile[n] \in Seq(Nat) /\ chunks[n] \in Seq(Nat) /\ j \in Nat \ {0} /\ fpos \in Nat
    BY <1>2 DEF LayoutTypes
<1>4. dynfile' \in [DynamicNames -> Seq(Nat)]
    BY <1>1, <1>2, <1>3 DEF LayoutTypes
<1>5. Len(dynfile[n]) < Len(chunks[n])
  <2>1. m \in 1 .. 8 /\ at <= Len(input) + m
    <3>1. at \in Len(input) + 1 .. Len(input) + 8
        BY <1>1
    <3> QED BY <1>0, <3>1
  <2> HIDE DEF m
  <2> QED BY <1>1, <2>1 DEF Pending
<1> HIDE DEF j, n, m
<1>6. chunks[n][j] \in Nat
  <2>1. j \in 1 .. Len(chunks[n])
      BY <1>3, <1>5 DEF j
  <2> QED BY <1>3, <2>1, ElementOfSeq
<1>7. LayoutTypes'
  <2>1. at' \in Nat \ {0}
      BY <1>0, <1>1
  <2>2. fpos' \in Nat
    <3>1. fpos' = fpos + chunks[n][j]
        BY <1>1
    <3> QED BY <1>3, <1>6, <3>1
  <2> QED BY <1>1, <1>4, <2>1, <2>2 DEF LayoutTypes
<1>8. Contiguous' /\ LayingOut'
    BY <1>1 DEF Contiguous, After, LayingOut
<1>9. dynfile'[n] = Append(dynfile[n], fpos) /\ \A d \in DynamicNames \ {n} : dynfile'[d] = dynfile[d]
    BY <1>1, <1>2 DEF LayoutTypes
<1>10. dynfile'[n] # <<>>
  <2>1. Len(dynfile'[n]) = Len(dynfile[n]) + 1 /\ Len(dynfile[n]) \in Nat
      BY <1>3, <1>9
  <2> QED BY <2>1
<1>11. ".plt.got" \in DynamicNames
    BY DynamicNamesDiffer
<1>12. Writing'
  <2>1. ~(at <= Len(input)) /\ ~(at' <= Len(input))
      BY <1>0, <1>1
  <2>2. at' = Len(input) + 1 => at = Len(input) + 1
      BY <1>0, <1>1
  <2> QED BY <1>1, <1>2, <1>9, <1>10, <1>11, <2>1, <2>2 DEF Writing
<1>13. InputsAtTheirAddresses'
  <2>1. CASE n # ".plt.got"
      BY <1>1, <1>9, <1>11, <2>1 DEF InputsAtTheirAddresses
  <2>2. CASE n = ".plt.got"
    <3>1. dynfile[n] = <<>> => fpos + Base = pltgot
        BY <1>1, <1>2, <2>2 DEF Writing
    <3>2. dynfile[n] = <<>> => dynfile'[n][1] = fpos
        BY <1>3, <1>9
    <3>3. dynfile[n] # <<>> => dynfile'[n][1] = dynfile[n][1]
        BY <1>3, <1>9
    <3> QED BY <1>1, <2>2, <3>1, <3>2, <3>3 DEF InputsAtTheirAddresses
  <2> QED BY <2>1, <2>2
<1>14. Pending'
  <2> SUFFICES ASSUME NEW k \in 1 .. 8, at' <= Len(input) + k
               PROVE  Len(dynfile'[Dynamic[k]]) < Len(chunks[Dynamic[k]])
      BY <1>1 DEF Pending
  <2>1. Dynamic[k] \in DynamicNames /\ at <= Len(input) + k
      BY <1>0, <1>1, DynamicNamesDiffer
  <2>2. CASE Dynamic[k] # n
      BY <1>1, <1>9, <2>1, <2>2 DEF Pending
  <2>3. CASE Dynamic[k] = n
    <3>1. m \in 1 .. 8
        BY <1>0, <1>1 DEF m
    <3>2. k = m
        BY <2>3, <3>1, DynamicNamesDiffer DEF n
    <3>3. at' = at
        BY <1>0, <1>1, <3>2 DEF m
    <3>4. j # Len(chunks[n])
        BY <1>0, <3>3 DEF WriteDynamic, j, n, m
    <3> QED BY <1>3, <1>5, <1>9, <2>3, <3>4 DEF j
  <2> QED BY <2>2, <2>3
<1> QED BY <1>7, <1>8, <1>12, <1>13, <1>14

----------------------------------------------------------------------------
(* The tables between the two passes                                       *)

\* What is needed of the record the table operators take and return.
Typed(t) ==
  /\ {"D", "chunks", "strs", "dynsym", "rela", "slots"} \subseteq DOMAIN t
  /\ t.D \in [DynamicNames -> Nat] /\ t.chunks \in [DynamicNames -> Seq(Nat)]

LEMMA Grows ==
  ASSUME NEW t, Typed(t), NEW n \in DynamicNames
  PROVE  Typed(add_dynamic_sc(t, n)) /\ (\A size \in Nat : Typed(Grow(t, n, size)))
<1>1. ASSUME NEW u, Typed(u) PROVE Typed(add_dynamic_sc(u, n))
    BY <1>1 DEF Typed, add_dynamic_sc
<1>2. ASSUME NEW size \in Nat PROVE Typed(Grow(t, n, size))
  <2>1. Typed([t EXCEPT !.D[n] = @ + size])
      BY DEF Typed
  <2> QED BY <1>1, <2>1 DEF Grow
<1> QED BY <1>1, <1>2

\* Every operator on the tables keeps them typed.
LEMMA TablesTyped ==
  ASSUME NEW t, Typed(t)
  PROVE  /\ \A name : Typed(add_dynsym_entry(t, name))
         /\ \A name : \A len \in Nat : Typed(add_dynstr_entry(t, name, len))
         /\ Typed(add_pltgot_entry(t))
         /\ \A offset, sym : Typed(add_rela_plt_entry(t, offset, sym))
<1>0. {".dynsym", ".dynstr", ".plt.got", ".rela.plt"} \subseteq DynamicNames
    BY DEF DynamicNames, Dynamic
<1>1. ASSUME NEW name PROVE Typed(add_dynsym_entry(t, name))
  <2> DEFINE u == [t EXCEPT !.D[".dynsym"] = @ + 1, !.dynsym = Append(@, name)]
  <2>1. Typed(u)
      BY <1>0 DEF Typed
  <2> HIDE DEF u
  <2>2. Alloc[".dynsym"] \in Nat
      BY LayoutAssumption
  <2> DEFINE v == [u EXCEPT !.D[".dynsym"] = Alloc[".dynsym"]]
  <2>3. Typed(v)
      BY <1>0, <2>1, <2>2 DEF Typed
  <2> HIDE DEF v
  <2>4. Typed(add_dynamic_sc(v, ".dynsym"))
      BY <1>0, <2>3, Grows
  <2>5. add_dynsym_entry(t, name) =
          IF u.D[".dynsym"] * SymSize = Alloc[".dynsym"] THEN add_dynamic_sc(v, ".dynsym") ELSE u
      BY DEF add_dynsym_entry, u, v
  <2> QED BY <2>1, <2>4, <2>5
<1>2. ASSUME NEW name, NEW len \in Nat PROVE Typed(add_dynstr_entry(t, name, len))
  <2> DEFINE size == t.D[".dynstr"]
  <2> DEFINE full == Alloc[".dynstr"] < size + len
  <2> DEFINE u == IF full THEN add_dynamic_sc(t, ".dynstr") ELSE t
  <2> DEFINE p == IF full THEN 0 ELSE size
  <2>1. Typed(u)
      BY <1>0, Grows
  <2>2. p + len + 1 \in Nat
      BY <1>0 DEF Typed
  <2>3. add_dynstr_entry(t, name, len) =
          [u EXCEPT !.D[".dynstr"] = p + len + 1,
                    !.strs = Append(@, [name |-> name, chunk |-> Len(u.chunks[".dynstr"]) + 1,
                                        pos |-> p, len |-> len, ret |-> size])]
      BY DEF add_dynstr_entry
  <2> HIDE DEF u, p, size
  <2> QED BY <1>0, <2>1, <2>2, <2>3, SMTT(30) DEF Typed
<1>3. Typed(add_pltgot_entry(t))
    BY <1>0 DEF Typed, add_pltgot_entry
<1>4. ASSUME NEW offset, NEW sym PROVE Typed(add_rela_plt_entry(t, offset, sym))
  <2> DEFINE u == [t EXCEPT !.rela = Append(@, [offset |-> offset - Base, sym |-> sym])]
  <2>1. Typed(u)
      BY DEF Typed
  <2>2. add_rela_plt_entry(t, offset, sym) = Grow(u, ".rela.plt", RelaSize)
      BY DEF add_rela_plt_entry
  <2> HIDE DEF u
  <2> QED BY <1>0, <2>1, <2>2, Grows DEF RelaSize
<1> QED BY <1>1, <1>2, <1>3, <1>4

\* A slot of .plt.got touches four tables.
LEMMA NewSlotTyped ==
  ASSUME Typed(Tables), NEW name \in Names
  PROVE  Typed(NewSlot(name))
<1> DEFINE a == add_pltgot_entry(Tables)
<1> DEFINE b == add_dynstr_entry(a, name, Length[name])
<1> DEFINE c == add_dynsym_entry(b, name)
<1> DEFINE d == add_rela_plt_entry(c, PltSlot(Tables) + 8, c.D[".dynsym"] - 1)
<1>1. Length[name] \in Nat
    BY LayoutAssumption
<1>2. Typed(a)
    BY TablesTyped
<1> HIDE DEF a
<1>3. Typed(b)
    BY <1>1, <1>2, TablesTyped
<1> HIDE DEF b
<1>4. Typed(c)
    BY <1>3, TablesTyped
<1> HIDE DEF c
<1>5. Typed(d)
    BY <1>4, TablesTyped
<1>6. NewSlot(name) = [d EXCEPT !.slots = Append(@, [name |-> name, r |-> PltSlot(Tables)])]
    BY DEF NewSlot, a, b, c
<1> HIDE DEF d
<1> QED BY <1>5, <1>6 DEF Typed

\* A step between the two passes leaves both of them alone.
LEMMA TableStepKeeps ==
  ASSUME LayoutInv, NEW t, Typed(t), Become(t), UNCHANGED <<pc, layout, file>>,
         pc \in Between, at' = at + 1
  PROVE  LayoutInv'
<1>1. D' \in [DynamicNames -> Nat] /\ chunks' \in [DynamicNames -> Seq(Nat)]
    BY DEF Become, Typed
<1>2. at' \in Nat \ {0}
    BY DEF LayoutInv, LayoutTypes
<1> QED BY <1>1, <1>2, BetweenKeeps

LEMMA StartTyped == LayoutInv => Typed(Tables)
  BY DEF LayoutInv, LayoutTypes, Typed, Tables

LEMMA DoRelocKeeps == LayoutInv /\ do_reloc => LayoutInv'
<1> SUFFICES ASSUME LayoutInv, do_reloc PROVE LayoutInv'
    OBVIOUS
<1>0. Typed(Tables)
    BY StartTyped
<1>1. ASSUME NEW t, Typed(t), Reloc(t) PROVE LayoutInv'
    BY <1>1, TableStepKeeps DEF Reloc, Between
<1>2. ASSUME NEW name \in Names, ResolveCall(name) PROVE LayoutInv'
    BY <1>0, <1>1, <1>2, NewSlotTyped DEF ResolveCall
<1>3. ASSUME NEW name \in Names, ResolveGot(name) PROVE LayoutInv'
    BY <1>0, <1>1, <1>3, NewSlotTyped DEF ResolveGot
<1>4. ASSUME NEW name \in Names, NEW src, ResolveData(name, src) PROVE LayoutInv'
  <2> DEFINE a == add_dynstr_entry(Tables, name, Length[name])
  <2> DEFINE b == add_dynsym_entry(a, name)
  <2>1. Typed(a)
      BY <1>0, TablesTyped, LayoutAssumption
  <2> HIDE DEF a
  <2>2. Typed(b)
      BY <2>1, TablesTyped
  <2> HIDE DEF b
  <2>3. Reloc(add_rela_plt_entry(b, src, b.D[".dynsym"] - 1))
      BY <1>4 DEF ResolveData, a, b
  <2> QED BY <1>1, <2>2, <2>3, TablesTyped
<1>5. ASSUME NEW src, ResolveRelative(src) PROVE LayoutInv'
    BY <1>0, <1>1, <1>5, TablesTyped DEF ResolveRelative
<1>6. ASSUME NEW name \in Names, add_init_array(name) PROVE LayoutInv'
  <2>1. Typed(Grow(Tables, ".init_array", 8))
      BY <1>0, Grows DEF DynamicNames, Dynamic
  <2> QED BY <1>1, <1>6, <2>1 DEF add_init_array
<1>7. ASSUME NEW name \in Names, add_fini_array(name) PROVE LayoutInv'
  <2>1. Typed([Tables EXCEPT !.D[".fini_array"] = @ + 8])
      BY <1>0 DEF Typed, DynamicNames, Dynamic
  <2> QED BY <1>1, <1>7, <2>1 DEF add_fini_array
<1>8. ASSUME ResolveSkipped PROVE LayoutInv'
    BY <1>0, <1>1, <1>8 DEF ResolveSkipped
<1>9. ASSUME ResolveSpins PROVE LayoutInv'
  <2>1. /\ UNCHANGED <<layout, file, D, chunks>> /\ pc \in Between /\ pc' \in Between /\ at' = at
      BY <1>9 DEF ResolveSpins, tables, Between
  <2>2. at \in Nat \ {0} /\ D \in [DynamicNames -> Nat] /\ chunks \in [DynamicNames -> Seq(Nat)]
      BY DEF LayoutInv, LayoutTypes
  <2>3. at' \in Nat \ {0}
      BY <2>1, <2>2
  <2>4. D' \in [DynamicNames -> Nat] /\ chunks' \in [DynamicNames -> Seq(Nat)]
      BY <2>1, <2>2
  <2> QED BY <2>1, <2>3, <2>4, BetweenKeeps
<1> QED BY <1>2, <1>3, <1>4, <1>5, <1>6, <1>7, <1>8, <1>9 DEF do_reloc

\* One step of the link.
LEMMA NextKeeps == LayoutInv /\ [Next]_vars => LayoutInv'
<1> SUFFICES ASSUME LayoutInv, [Next]_vars PROVE LayoutInv'
    OBVIOUS
<1>1. CASE add_dt_needed
  <2> DEFINE a == add_dynstr_entry(Tables, "library", Libraries[at])
  <2>1. Libraries[at] \in Nat
    <3>1. at \in 1 .. Len(Libraries)
        BY <1>1, LayoutAssumption, SMTT(30) DEF add_dt_needed, LayoutInv, LayoutTypes
    <3> QED BY <3>1, LayoutAssumption, ElementOfSeq
  <2>2. Typed(a)
      BY <2>1, StartTyped, TablesTyped
  <2> HIDE DEF a
  <2>3. Typed([a EXCEPT !.D[".dynamic"] = @ + 1])
      BY <2>2 DEF Typed, DynamicNames, Dynamic
  <2> QED BY <1>1, <2>3, TableStepKeeps DEF add_dt_needed, Between, a
<1>2. ASSUME NEW name \in Names, add_export_symbol(name) PROVE LayoutInv'
  <2> DEFINE a == add_dynstr_entry(Tables, name, Length[name])
  <2> DEFINE b == add_dynsym_entry(a, name)
  <2>1. Typed(a)
      BY StartTyped, TablesTyped, LayoutAssumption
  <2> HIDE DEF a
  <2>2. Typed(b)
      BY <2>1, TablesTyped
  <2> HIDE DEF b
  <2>3. Typed([b EXCEPT !.D[".gnu.hash"] = @ + 4])
      BY <2>2 DEF Typed, DynamicNames, Dynamic
  <2>4. Become([b EXCEPT !.D[".gnu.hash"] = @ + 4])
      BY <1>2 DEF add_export_symbol, a, b
  <2> QED BY <1>2, <2>3, <2>4, TableStepKeeps DEF add_export_symbol, Between
<1>3. CASE LibrariesEnd \/ ExportsEnd \/ RelocsEnd \/ SetNeeded
  <2>1. /\ UNCHANGED <<layout, file, D, chunks>> /\ pc \in Between /\ pc' \in Between
        /\ at' \in {1, at}
      BY <1>3 DEF LibrariesEnd, ExportsEnd, RelocsEnd, SetNeeded, tables, Between
  <2>2. at \in Nat \ {0} /\ D \in [DynamicNames -> Nat] /\ chunks \in [DynamicNames -> Seq(Nat)]
      BY DEF LayoutInv, LayoutTypes
  <2>3. at' \in Nat \ {0}
      BY <2>1, <2>2
  <2>4. D' \in [DynamicNames -> Nat] /\ chunks' \in [DynamicNames -> Seq(Nat)]
      BY <2>1, <2>2
  <2> QED BY <2>1, <2>3, <2>4, BetweenKeeps
<1>4. CASE WriteEnd
  <2>1. pc = "emit" /\ pc' = "done" /\ UNCHANGED <<at, layout, D, chunks, file>>
      BY <1>4 DEF WriteEnd, tables
  <2> QED BY <2>1 DEF LayoutInv, LayoutTypes, Phases, Contiguous, After, LayingOut, Writing,
                      Pending, InputsAtTheirAddresses, layout, file
<1>5. CASE UNCHANGED vars
    BY <1>5 DEF vars, layout, tables, file, LayoutInv, LayoutTypes, Contiguous, After, LayingOut,
                Writing, Pending, InputsAtTheirAddresses
<1> QED BY <1>1, <1>2, <1>3, <1>4, <1>5, DoRelocKeeps, SetVirtualAddressKeeps, AddDynamicKeeps,
           SetEntriesKeeps, WriteInputKeeps, WriteDynamicKeeps DEF Next, Stop

\* Every input section, and .plt.got, is written at the file offset that its
\* virtual address less base_address promises (set_virtual_address in reloc.c
\* against write_raw_data in emit.c), whatever the sections, libraries, symbols
\* and relocations of the link.
THEOREM AddressesAreHonoured == Spec => []InputsAtTheirAddresses
<1>1. LayoutInv => InputsAtTheirAddresses
    BY DEF LayoutInv
<1> QED BY <1>1, InitLayout, NextKeeps, PTL DEF Spec

----------------------------------------------------------------------------
(* What the tables say, as long as they fit their first chunk              *)

SymbolNames == Names \cup {""}
StringNames == Names \cup {"library"}
Strings == [name : StringNames, chunk : Nat, pos : Nat, len : Nat, ret : Nat]
TableRecords ==
  [D : [DynamicNames -> Nat], chunks : [DynamicNames -> Seq(Nat)], strs : Seq(Strings),
   dynsym : Seq(SymbolNames), rela : Seq([offset : Int, sym : Int]),
   slots : Seq([name : Names, r : Nat])]

\* Entry k of the relocations is the only one for the address word of the slot.
Fills(t, k, slot) ==
  /\ t.rela[k].offset + Base = slot.r + 8
  /\ t.dynsym[t.rela[k].sym + 1] = slot.name
  /\ \A l \in 1 .. Len(t.rela) : t.rela[l].offset = t.rela[k].offset => l = k

\* The slots follow each other from p on; no relocation lies behind the word of
\* the last one, none names a symbol that is not there.
SlotsGood(t, p) ==
  /\ Len(t.slots) = t.D[".plt.got"]
  /\ \A i \in 1 .. Len(t.slots) : t.slots[i].r = p + (i - 1) * PltSize
  /\ \A k \in 1 .. Len(t.rela) :
       /\ t.rela[k].sym \in 0 .. Len(t.dynsym) - 1
       /\ t.rela[k].offset + Base < p + t.D[".plt.got"] * PltSize + 8
  /\ \A i \in 1 .. Len(t.slots) : \E k \in 1 .. Len(t.rela) : Fills(t, k, t.slots[i])

Below == \A i \in 1 .. Len(vaddr) : vaddr[i] <= virtual_address_offset + sc_size

\* Where gen_elf has to be when it starts on the k-th dynamic section.
Place(k) ==
  CASE k = 1 -> pltgot - Base
    [] k = 2 -> pltgot - Base + D[".plt.got"] * PltSize
    [] OTHER -> dt_at(k - 2)

EmitInv ==
  /\ pc \in {"emit", "done"} =>
       /\ dt = [k \in 1 .. 6 |-> dt_at(k)] /\ out_size = dt_at(7)
       /\ \A n \in DynamicNames : OneChunk(n) => chunks[n] = <<LastSize(n)>>
  /\ pc = "done" => at = Len(input) + 9
  /\ pc \in {"emit", "done"} /\ (\A n \in DynamicNames : OneChunk(n)) =>
       /\ \A k \in 1 .. 9 : at = Len(input) + k => fpos = Place(k)
       /\ \A k \in 1 .. 8 : at > Len(input) + k => dynfile[Dynamic[k]] = <<Place(k)>>

\* set_dynanmic adds up the sizes in the order in which gen_elf writes.
LEMMA PlacesFollow ==
  ASSUME LayoutInv
  PROVE  /\ \A k \in 1 .. 8 : Place(k + 1) = Place(k) + LastSize(Dynamic[k])
         /\ \A k \in 1 .. 9 : Place(k) \in Int
<1>1. \A n \in DynamicNames : D[n] \in Nat
    BY DEF LayoutInv, LayoutTypes
<1>2. /\ ".plt.got" \in DynamicNames /\ ".dynamic" \in DynamicNames /\ ".init_array" \in DynamicNames
      /\ ".fini_array" \in DynamicNames /\ ".gnu.hash" \in DynamicNames /\ ".rela.plt" \in DynamicNames
      /\ ".dynsym" \in DynamicNames /\ ".dynstr" \in DynamicNames
    BY DEF DynamicNames, Dynamic
<1>3. pltgot \in Nat /\ Base \in Nat
    BY LayoutAssumption DEF LayoutInv, LayoutTypes
<1>4. PICK g \in Nat : g = D[".plt.got"]
    BY <1>1, <1>2
<1>5. PICK e \in Nat : e = dynamic_entry_num
    BY <1>1, <1>2 DEF dynamic_entry_num, TagCount
<1>6. PICK s \in Nat : s = LastSize(".dynsym")
    BY <1>1, <1>2 DEF LastSize, SymSize
<1>7. /\ LastSize(".plt.got") = g * 16 /\ LastSize(".dynamic") = e * 16
      /\ LastSize(".init_array") = D[".init_array"] /\ LastSize(".fini_array") = D[".fini_array"]
      /\ LastSize(".gnu.hash") = D[".gnu.hash"] /\ LastSize(".rela.plt") = D[".rela.plt"]
      /\ LastSize(".dynstr") = D[".dynstr"]
    BY <1>4, <1>5 DEF LastSize, PltSize, DynSize
<1>8. /\ Place(1) = pltgot - Base
      /\ Place(2) = pltgot - Base + g * 16
      /\ Place(3) = pltgot + g * 16 - Base + e * 16
      /\ Place(4) = Place(3) + D[".init_array"]
      /\ Place(5) = Place(4) + D[".fini_array"]
      /\ Place(6) = Place(5) + D[".gnu.hash"]
      /\ Place(7) = Place(6) + D[".rela.plt"]
      /\ Place(8) = Place(7) + s
      /\ Place(9) = Place(8) + D[".dynstr"]
    BY <1>4, <1>5, <1>6 DEF Place, dt_at, PltSize, DynSize
<1> DEFINE p(k) == Place(k)
<1>9. /\ p(1) \in Int /\ p(2) \in Int /\ p(3) \in Int /\ p(4) \in Int /\ p(5) \in Int
      /\ p(6) \in Int /\ p(7) \in Int /\ p(8) \in Int /\ p(9) \in Int
    BY <1>1, <1>2, <1>3, <1>8
<1>10. /\ p(2) = p(1) + LastSize(".plt.got") /\ p(3) = p(2) + LastSize(".dynamic")
       /\ p(4) = p(3) + LastSize(".init_array") /\ p(5) = p(4) + LastSize(".fini_array")
       /\ p(6) = p(5) + LastSize(".gnu.hash") /\ p(7) = p(6) + LastSize(".rela.plt")
       /\ p(8) = p(7) + LastSize(".dynsym") /\ p(9) = p(8) + LastSize(".dynstr")
    BY <1>1, <1>2, <1>3, <1>6, <1>7, <1>8
<1> HIDE DEF p
<1>11. /\ Dynamic[1] = ".plt.got" /\ Dynamic[2] = ".dynamic" /\ Dynamic[3] = ".init_array"
       /\ Dynamic[4] = ".fini_array" /\ Dynamic[5] = ".gnu.hash" /\ Dynamic[6] = ".rela.plt"
       /\ Dynamic[7] = ".dynsym" /\ Dynamic[8] = ".dynstr"
    BY DEF Dynamic
<1>12. ASSUME NEW k \in 1 .. 8 PROVE p(k + 1) = p(k) + LastSize(Dynamic[k])
  <2>1. k \in {1, 2, 3, 4, 5, 6, 7, 8}
      OBVIOUS
  <2>2. CASE k \in {1, 2, 3, 4}
      BY <1>10, <1>11, <2>2
  <2>3. CASE k \in {5, 6, 7, 8}
      BY <1>10, <1>11, <2>3
  <2> QED BY <2>1, <2>2, <2>3
<1>13. ASSUME NEW k \in 1 .. 9 PROVE p(k) \in Int
  <2>1. k \in {1, 2, 3, 4, 5, 6, 7, 8, 9}
      OBVIOUS
  <2> QED BY <1>9, <2>1
<1> QED BY <1>12, <1>13 DEF p

\* The steps of gen_elf leave what Place and LastSize are made of alone.
LEMMA PlacesStay ==
  ASSUME UNCHANGED <<pltgot, D>>
  PROVE  /\ \A k : Place(k)' = Place(k) /\ dt_at(k)' = dt_at(k)
         /\ \A n : LastSize(n)' = LastSize(n)
<1>1. dynamic_entry_num' = dynamic_entry_num
    BY DEF dynamic_entry_num
<1>2. ASSUME NEW n PROVE LastSize(n)' = LastSize(n)
    BY <1>1 DEF LastSize
<1>3. ASSUME NEW k PROVE dt_at(k)' = dt_at(k)
    BY <1>1, <1>2 DEF dt_at
<1>4. ASSUME NEW k PROVE Place(k)' = Place(k)
    BY <1>3 DEF Place
<1> QED BY <1>2, <1>3, <1>4

LEMMA SetEntriesEmits ==
  ASSUME LayoutInv, LayoutInv', SetEntries
  PROVE  EmitInv'
<1>1. /\ pc = "dynamic" /\ pc' = "emit" /\ at' = 1 /\ UNCHANGED <<pltgot, D, input>>
      /\ dt' = [k \in 1 .. 6 |-> dt_at(k)] /\ out_size' = dt_at(7)
      /\ chunks' = [n \in DynamicNames |-> Append(chunks[n], LastSize(n))]
    BY DEF SetEntries, layout
<1>2. dt' = [k \in 1 .. 6 |-> dt_at(k)'] /\ out_size' = dt_at(7)'
    BY <1>1, PlacesStay
<1>3. ASSUME NEW n \in DynamicNames, OneChunk(n)' PROVE chunks'[n] = <<LastSize(n)'>>
  <2>1. PICK c \in Seq(Nat) : c = chunks[n]
      BY DEF LayoutInv, LayoutTypes
  <2>2. PICK s : s = LastSize(n)
      OBVIOUS
  <2>3. chunks'[n] = Append(c, s) /\ LastSize(n)' = s
      BY <1>1, <2>1, <2>2, PlacesStay
  <2>4. Len(Append(c, s)) = Len(c) + 1
      BY <2>1
  <2>5. Len(c) + 1 <= 1
      BY <1>1, <1>3, <2>3, <2>4 DEF OneChunk
  <2>6. c = <<>>
      BY <2>5
  <2> QED BY <2>3, <2>6
<1>4. /\ Len(input) \in Nat /\ at' = 1 /\ fpos' = HeaderTail
      /\ Place(1)' = Place(1)
    BY <1>1, PlacesStay DEF LayoutInv, LayoutTypes, SetEntries
<1>5. ASSUME NEW k \in 1 .. 9, at' = Len(input') + k PROVE fpos' = Place(k)'
  <2>1. Len(input) = 0 /\ k = 1
      BY <1>1, <1>4, <1>5
  <2>2. dynfile'[".plt.got"] = <<>>
      BY <1>1 DEF LayoutInv, Writing, SetEntries
  <2>3. fpos' + Base = pltgot'
      BY <1>1, <1>5, <2>1, <2>2 DEF LayoutInv, Writing
  <2>4. fpos' \in Nat /\ pltgot \in Nat /\ Base \in Nat
      BY LayoutAssumption DEF LayoutInv, LayoutTypes
  <2>5. PICK f \in Nat : f = fpos'
      BY <2>4
  <2>6. f + Base = pltgot
      BY <1>1, <2>3, <2>5
  <2>7. f = pltgot - Base
      BY <2>4, <2>6
  <2> QED BY <1>4, <2>1, <2>5, <2>7 DEF Place
<1>6. ASSUME NEW k \in 1 .. 8 PROVE ~(at' > Len(input') + k)
    BY <1>1, <1>4
<1>7. pc' # "done"
    BY <1>1
<1> QED BY <1>2, <1>3, <1>5, <1>6, <1>7 DEF EmitInv

LEMMA WriteInputEmits ==
  ASSUME LayoutInv, LayoutInv', EmitInv, WriteInput
  PROVE  EmitInv'
<1>1. /\ pc = "emit" /\ at <= Len(input) /\ at' = at + 1 /\ UNCHANGED <<pc, pltgot, D, input>>
      /\ UNCHANGED <<dt, out_size, chunks, dynfile>>
    BY DEF WriteInput, layout, tables, result
<1>2. /\ dt' = [k \in 1 .. 6 |-> dt_at(k)'] /\ out_size' = dt_at(7)'
      /\ \A n \in DynamicNames : OneChunk(n)' => chunks'[n] = <<LastSize(n)'>>
    BY <1>1, PlacesStay DEF EmitInv, OneChunk
<1>3. Len(input) \in Nat /\ at \in Nat /\ Place(1)' = Place(1)
    BY <1>1, PlacesStay DEF LayoutInv, LayoutTypes
<1>4. ASSUME NEW k \in 1 .. 9, at' = Len(input') + k PROVE fpos' = Place(k)'
  <2>1. k = 1 /\ at' = Len(input') + 1
      BY <1>1, <1>3, <1>4
  <2>2. dynfile'[".plt.got"] = <<>>
      BY <1>1 DEF LayoutInv, Writing
  <2>3. fpos' + Base = pltgot'
      BY <1>1, <2>1, <2>2 DEF LayoutInv, Writing
  <2>4. fpos' \in Nat /\ pltgot \in Nat /\ Base \in Nat
      BY LayoutAssumption DEF LayoutInv, LayoutTypes
  <2>5. PICK f \in Nat : f = fpos'
      BY <2>4
  <2>6. f + Base = pltgot
      BY <1>1, <2>3, <2>5
  <2>7. f = pltgot - Base
      BY <2>4, <2>6
  <2> QED BY <1>3, <2>1, <2>5, <2>7 DEF Place
<1>5. ASSUME NEW k \in 1 .. 8 PROVE ~(at' > Len(input') + k)
    BY <1>1, <1>3
<1>6. pc' = "emit"
    BY <1>1
<1> QED BY <1>2, <1>4, <1>5, <1>6 DEF EmitInv

\* With one chunk a section is written by one step, which ends where
\* set_dynanmic put the next.
LEMMA WriteDynamicEmits ==
  ASSUME LayoutInv, LayoutInv', EmitInv, WriteDynamic
  PROVE  EmitInv'
<1>0. PICK m : m = at - Len(input)
    OBVIOUS
<1> DEFINE n == Dynamic[m]
<1>1. /\ pc = "emit" /\ UNCHANGED <<pc, pltgot, D, input, dt, out_size, chunks>>
      /\ dynfile' = [dynfile EXCEPT ![n] = Append(@, fpos)]
      /\ fpos' = fpos + chunks[n][Len(dynfile[n]) + 1]
      /\ at' = IF Len(dynfile[n]) + 1 = Len(chunks[n]) THEN at + 1 ELSE at
    BY <1>0 DEF WriteDynamic, layout, tables, result
<1>2. m \in 1 .. 8 /\ Len(input) \in Nat /\ at \in Nat /\ at = Len(input) + m
  <2>1. at \in Len(input) + 1 .. Len(input) + 8
      BY DynamicNamesDiffer DEF WriteDynamic
  <2>2. Len(input) \in Nat /\ at \in Nat
      BY DEF LayoutInv, LayoutTypes
  <2> QED BY <1>0, <2>1, <2>2
<1>3. /\ dt' = [k \in 1 .. 6 |-> dt_at(k)'] /\ out_size' = dt_at(7)'
      /\ \A d \in DynamicNames : OneChunk(d)' => chunks'[d] = <<LastSize(d)'>>
    BY <1>1, PlacesStay DEF EmitInv, OneChunk
<1>4. SUFFICES ASSUME \A d \in DynamicNames : OneChunk(d)
               PROVE  /\ \A k \in 1 .. 9 : at' = Len(input) + k => fpos' = Place(k)
                      /\ \A k \in 1 .. 8 : at' > Len(input) + k => dynfile'[Dynamic[k]] = <<Place(k)>>
  <2>1. \A d : OneChunk(d)' <=> OneChunk(d)
      BY <1>1 DEF OneChunk
  <2>2. pc' = "emit" /\ input' = input /\ \A k : Place(k)' = Place(k)
      BY <1>1, PlacesStay
  <2> HIDE DEF n
  <2> QED BY <1>3, <2>1, <2>2 DEF EmitInv
<1>5. n \in DynamicNames
    BY <1>2, DynamicNamesDiffer
<1>6. chunks[n] = <<LastSize(n)>>
  <2>1. \A d \in DynamicNames : chunks[d] = <<LastSize(d)>>
      BY <1>1, <1>4 DEF EmitInv
  <2> QED BY <1>5, <2>1
<1>7. fpos = Place(m)
  <2>1. \A k \in 1 .. 9 : at = Len(input) + k => fpos = Place(k)
      BY <1>1, <1>4 DEF EmitInv
  <2> QED BY <1>2, <2>1
<1>8. dynfile[n] = <<>>
  <2>1. at <= Len(input) + m
      BY <1>2
  <2>2. Len(dynfile[n]) < Len(chunks[n])
      BY <1>1, <1>2, <2>1 DEF LayoutInv, Pending
  <2>3. dynfile[n] \in Seq(Nat)
      BY <1>5 DEF LayoutInv, LayoutTypes
  <2>4. Len(chunks[n]) = 1
      BY <1>6
  <2>5. Len(dynfile[n]) = 0
      BY <2>2, <2>3, <2>4
  <2> QED BY <2>3, <2>5
<1>9. fpos' = fpos + LastSize(n) /\ at' = at + 1
    BY <1>1, <1>6, <1>8
<1>10. dynfile'[n] = <<fpos>> /\ \A d \in DynamicNames \ {n} : dynfile'[d] = dynfile[d]
  <2>1. dynfile \in [DynamicNames -> Seq(Nat)]
      BY DEF LayoutInv, LayoutTypes
  <2> HIDE DEF n
  <2>2. dynfile'[n] = Append(dynfile[n], fpos) /\ \A d \in DynamicNames \ {n} : dynfile'[d] = dynfile[d]
      BY <1>1, <1>5, <2>1
  <2> QED BY <1>8, <2>2
<1>11. ASSUME NEW k \in 1 .. 9, at' = Len(input) + k PROVE fpos' = Place(k)
  <2>1. k = m + 1
      BY <1>2, <1>9, <1>11
  <2>2. Place(m + 1) = Place(m) + LastSize(n)
      BY <1>2, PlacesFollow
  <2> QED BY <1>7, <1>9, <2>1, <2>2
<1>12. ASSUME NEW k \in 1 .. 8, at' > Len(input) + k PROVE dynfile'[Dynamic[k]] = <<Place(k)>>
  <2>1. CASE k = m
      BY <1>7, <1>10, <2>1
  <2>2. CASE k # m
    <3>1. at > Len(input) + k
        BY <1>2, <1>9, <1>12, <2>2
    <3>2. Dynamic[k] \in DynamicNames \ {n}
        BY <1>2, <2>2, DynamicNamesDiffer
    <3>3. dynfile[Dynamic[k]] = <<Place(k)>>
        BY <1>1, <1>4, <3>1 DEF EmitInv
    <3> QED BY <1>10, <3>2, <3>3
  <2> QED BY <2>1, <2>2
<1> QED BY <1>11, <1>12

LEMMA EmitKeeps == LayoutInv /\ LayoutInv' /\ EmitInv /\ [Next]_vars => EmitInv'
<1> SUFFICES ASSUME LayoutInv, LayoutInv', EmitInv, [Next]_vars PROVE EmitInv'
    OBVIOUS
<1>1. ASSUME pc' \notin {"emit", "done"} PROVE EmitInv'
    BY <1>1 DEF EmitInv
<1>2. CASE WriteEnd
  <2>1. /\ pc = "emit" /\ pc' = "done" /\ at = Len(input) + 9
        /\ UNCHANGED <<at, input, pltgot, D, dt, out_size, chunks, fpos, dynfile>>
      BY <1>2, DynamicNamesDiffer DEF WriteEnd, layout, tables, result, file
  <2>2. \A n : OneChunk(n)' <=> OneChunk(n)
      BY <2>1 DEF OneChunk
  <2> QED BY <2>1, <2>2, PlacesStay DEF EmitInv
<1>3. CASE UNCHANGED vars
  <2>1. UNCHANGED <<pc, at, input, pltgot, D, dt, out_size, chunks, fpos, dynfile>>
      BY <1>3 DEF vars, layout, tables, result, file
  <2>2. \A n : OneChunk(n)' <=> OneChunk(n)
      BY <2>1 DEF OneChunk
  <2> QED BY <2>1, <2>2, PlacesStay DEF EmitInv
<1>4. CASE do_reloc
  <2>1. pc' \in {"relocs", "spin"}
      BY <1>4 DEF do_reloc, ResolveCall, ResolveGot, ResolveData, ResolveRelative, add_init_array,
                  add_fini_array, ResolveSkipped, ResolveSpins, Reloc
  <2> QED BY <1>1, <2>1
<1>5. CASE SetVirtualAddress \/ add_dynamic \/ add_dt_needed \/ LibrariesEnd
           \/ (\E name \in Names : add_export_symbol(name)) \/ ExportsEnd \/ RelocsEnd \/ SetNeeded
  <2>1. pc' \notin {"emit", "done"}
      BY <1>5 DEF SetVirtualAddress, add_dynamic, add_dt_needed, LibrariesEnd, add_export_symbol,
                  ExportsEnd, RelocsEnd, SetNeeded
  <2> QED BY <1>1, <2>1
<1> QED BY <1>2, <1>3, <1>4, <1>5, SetEntriesEmits, WriteInputEmits, WriteDynamicEmits DEF Next, Stop

\* The addresses set_dynanmic puts into the dynamic table and into PT_LOAD are
\* where gen_elf writes the sections, for any sections, libraries, symbols and
\* relocations; DynamicAddressesMatchFile leaves out the links in which a table
\* started a second chunk, behind which the addresses are off.
THEOREM DynamicAddressesAreRight == Spec => []DynamicAddressesMatchFile
<1>1. Init => EmitInv
    BY DEF Init, EmitInv
<1>2. ASSUME LayoutInv, EmitInv PROVE DynamicAddressesMatchFile
  <2> SUFFICES ASSUME pc = "done", \A n \in DynamicNames : OneChunk(n)
               PROVE  (\A k \in 1 .. 6 : dynfile[Dynamic[k + 2]][1] = dt[k]) /\ out_size = fpos
      BY DEF DynamicAddressesMatchFile, AddressesMatch
  <2>0. Len(input) \in Nat
      BY <1>2 DEF LayoutInv, LayoutTypes
  <2>1. at = Len(input) + 9 /\ Len(input) \in Nat
      BY <1>2, <2>0 DEF EmitInv
  <2>2. out_size = fpos
    <3>1. fpos = Place(9) /\ out_size = dt_at(7)
        BY <1>2, <2>1 DEF EmitInv
    <3> QED BY <3>1 DEF Place
  <2>3. ASSUME NEW k \in 1 .. 6 PROVE dynfile[Dynamic[k + 2]][1] = dt[k]
    <3>1. k + 2 \in 1 .. 8 /\ k + 2 # 1 /\ k + 2 # 2 /\ (k + 2) - 2 = k
        OBVIOUS
    <3>2. at > Len(input) + (k + 2)
        BY <2>1
    <3>3. dynfile[Dynamic[k + 2]] = <<Place(k + 2)>>
        BY <1>2, <3>1, <3>2 DEF EmitInv
    <3>4. Place(k + 2) = dt_at(k)
        BY <3>1 DEF Place
    <3>5. dt[k] = dt_at(k)
        BY <1>2 DEF EmitInv
    <3> QED BY <3>3, <3>4, <3>5
  <2> QED BY <2>2, <2>3
<1> QED BY <1>1, <1>2, InitLayout, NextKeeps, EmitKeeps, PTL DEF Spec

----------------------------------------------------------------------------
(* What each operator on the tables changes                                *)

Others(t, u, n) == \A d \in DynamicNames \ {n} : u.D[d] = t.D[d] /\ u.chunks[d] = t.chunks[d]
Longer(t, u, n) == Len(u.chunks[n]) > Len(t.chunks[n])

\* Table n counts size more in the same chunk, or a chunk of it is full.
Counts(t, u, n, size) == u.chunks[n] = t.chunks[n] /\ u.D[n] = t.D[n] + size

String(name, pos, len) == [name |-> name, chunk |-> 1, pos |-> pos, len |-> len, ret |-> pos]

LEMMA Parts ==
  ASSUME NEW t \in TableRecords
  PROVE  /\ t.D \in [DynamicNames -> Nat] /\ t.chunks \in [DynamicNames -> Seq(Nat)]
         /\ t.strs \in Seq(Strings) /\ t.dynsym \in Seq(SymbolNames)
         /\ t.rela \in Seq([offset : Int, sym : Int]) /\ t.slots \in Seq([name : Names, r : Nat])
  BY DEF TableRecords

\* The tables as a record of named parts.
Table(d, c, s, y, r, l) == [D |-> d, chunks |-> c, strs |-> s, dynsym |-> y, rela |-> r, slots |-> l]

LEMMA IsTable ==
  ASSUME NEW t \in TableRecords
  PROVE  \E d \in [DynamicNames -> Nat], c \in [DynamicNames -> Seq(Nat)], s \in Seq(Strings),
            y \in Seq(SymbolNames), r \in Seq([offset : Int, sym : Int]),
            l \in Seq([name : Names, r : Nat]) : t = Table(d, c, s, y, r, l)
<1>1. t = Table(t.D, t.chunks, t.strs, t.dynsym, t.rela, t.slots)
    BY DEF TableRecords, Table
<1> QED BY <1>1, Parts

SetCount(t, n, x) == [t EXCEPT !.D[n] = x]

LEMMA ScEffect ==
  ASSUME NEW t \in TableRecords, NEW n \in DynamicNames, NEW u, u = add_dynamic_sc(t, n)
  PROVE  /\ u \in TableRecords /\ u.D = t.D /\ Others(t, u, n) /\ Longer(t, u, n)
         /\ u.strs = t.strs /\ u.dynsym = t.dynsym /\ u.rela = t.rela /\ u.slots = t.slots
<1>1. PICK d \in [DynamicNames -> Nat], c \in [DynamicNames -> Seq(Nat)], s \in Seq(Strings),
           y \in Seq(SymbolNames), r \in Seq([offset : Int, sym : Int]),
           l \in Seq([name : Names, r : Nat]) : t = Table(d, c, s, y, r, l)
    BY IsTable
<1>2. t.D = d /\ t.chunks = c /\ t.strs = s /\ t.dynsym = y /\ t.rela = r /\ t.slots = l
    BY <1>1 DEF Table
<1>3. PICK x \in Seq(Nat) : x = Append(c[n], d[n])
  <2>1. PICK k \in Seq(Nat) : k = c[n]
      BY <1>1
  <2>2. PICK m \in Nat : m = d[n]
      BY <1>1
  <2>3. Append(k, m) \in Seq(Nat)
      BY <2>1, <2>2, AppendProperties
  <2> QED BY <2>1, <2>2, <2>3
<1>4. PICK e \in [DynamicNames -> Seq(Nat)] : e = [c EXCEPT ![n] = x]
    BY <1>1, <1>3
<1>5. u = Table(d, e, s, y, r, l)
  <2>1. u = [t EXCEPT !.chunks[n] = x]
      BY <1>2, <1>3 DEF add_dynamic_sc, Table
  <2> QED BY <1>1, <1>4, <2>1 DEF Table
<1>6. /\ u \in TableRecords /\ u.D = d /\ u.chunks = e /\ u.strs = s /\ u.dynsym = y
      /\ u.rela = r /\ u.slots = l
  <2>1. PICK v : v = Table(d, e, s, y, r, l)
      OBVIOUS
  <2>2. v.D = d /\ v.chunks = e /\ v.strs = s /\ v.dynsym = y /\ v.rela = r /\ v.slots = l
      BY <2>1 DEF Table
  <2>3. v \in TableRecords
      BY <1>1, <1>4, <2>1 DEF Table, TableRecords
  <2>4. u = v
      BY <1>5, <2>1
  <2> QED BY <2>2, <2>3, <2>4
<1>7. e[n] = x /\ (\A k \in DynamicNames \ {n} : e[k] = c[k])
    BY <1>1, <1>4
<1>8. Len(x) > Len(c[n])
  <2>1. PICK k \in Seq(Nat) : k = c[n]
      BY <1>1
  <2>2. PICK m \in Nat : m = d[n]
      BY <1>1
  <2>3. Len(Append(k, m)) = Len(k) + 1 /\ Len(k) \in Nat
      BY <2>1, <2>2, AppendProperties
  <2>4. Len(Append(k, m)) > Len(k)
      BY <2>3
  <2> QED BY <1>3, <2>1, <2>2, <2>4
<1> QED BY <1>2, <1>6, <1>7, <1>8 DEF Others, Longer

\* Other names for the numbers: a fact about them is then used as it stands.
Count == Nat
Index == Int

\* A new count for a table, whatever it is.
LEMMA CountEffect ==
  ASSUME NEW t \in TableRecords, NEW n \in DynamicNames, NEW x \in Count, NEW u, u = SetCount(t, n, x)
  PROVE  /\ u \in TableRecords /\ Others(t, u, n) /\ u.D[n] = x /\ u.chunks = t.chunks
         /\ u.strs = t.strs /\ u.dynsym = t.dynsym /\ u.rela = t.rela /\ u.slots = t.slots
<1>1. PICK d \in [DynamicNames -> Nat], c \in [DynamicNames -> Seq(Nat)], s \in Seq(Strings),
           y \in Seq(SymbolNames), r \in Seq([offset : Int, sym : Int]),
           l \in Seq([name : Names, r : Nat]) : t = Table(d, c, s, y, r, l)
    BY IsTable
<1>2. t.D = d /\ t.chunks = c /\ t.strs = s /\ t.dynsym = y /\ t.rela = r /\ t.slots = l
    BY <1>1 DEF Table
<1>3. PICK e \in [DynamicNames -> Nat] : e = [d EXCEPT ![n] = x]
    BY <1>1 DEF Count
<1>4. u = Table(e, c, s, y, r, l)
    BY <1>1, <1>3 DEF SetCount, Table
<1>5. /\ u \in TableRecords /\ u.D = e /\ u.chunks = c /\ u.strs = s /\ u.dynsym = y
      /\ u.rela = r /\ u.slots = l
  <2>1. PICK v : v = Table(e, c, s, y, r, l)
      OBVIOUS
  <2>2. v.D = e /\ v.chunks = c /\ v.strs = s /\ v.dynsym = y /\ v.rela = r /\ v.slots = l
      BY <2>1 DEF Table
  <2>3. v \in TableRecords
      BY <1>1, <1>3, <2>1 DEF Table, TableRecords
  <2>4. u = v
      BY <1>4, <2>1
  <2> QED BY <2>2, <2>3, <2>4
<1> QED BY <1>1, <1>2, <1>3, <1>5 DEF Others

\* Adding to a count, with the code's way of writing it.
LEMMA AddEffect ==
  ASSUME NEW t \in TableRecords, NEW n \in DynamicNames, NEW size \in Nat,
         NEW u, u = [t EXCEPT !.D[n] = @ + size]
  PROVE  /\ u \in TableRecords /\ Others(t, u, n) /\ Counts(t, u, n, size) /\ u.chunks = t.chunks
         /\ u.strs = t.strs /\ u.dynsym = t.dynsym /\ u.rela = t.rela /\ u.slots = t.slots
<1>1. PICK a \in Nat : a = t.D[n]
    BY Parts
<1>2. PICK x \in Nat : x = a + size
    BY <1>1
<1>3. u = SetCount(t, n, x)
    BY <1>1, <1>2 DEF TableRecords, SetCount
<1>4. /\ u \in TableRecords /\ Others(t, u, n) /\ u.D[n] = x /\ u.chunks = t.chunks
      /\ u.strs = t.strs /\ u.dynsym = t.dynsym /\ u.rela = t.rela /\ u.slots = t.slots
  <2>1. x \in Count
      BY <1>2 DEF Count
  <2>2. PICK v : v = SetCount(t, n, x)
      OBVIOUS
  <2>3. /\ v \in TableRecords /\ Others(t, v, n) /\ v.D[n] = x /\ v.chunks = t.chunks
        /\ v.strs = t.strs /\ v.dynsym = t.dynsym /\ v.rela = t.rela /\ v.slots = t.slots
      BY <2>1, <2>2, CountEffect
  <2>4. u = v
      BY <1>3, <2>2
  <2> QED BY <2>3, <2>4
<1> QED BY <1>1, <1>2, <1>4 DEF Counts

LEMMA GrowEffect ==
  ASSUME NEW t \in TableRecords, NEW n \in DynamicNames, NEW size \in Nat, NEW u, u = Grow(t, n, size)
  PROVE  /\ u \in TableRecords /\ Others(t, u, n)
         /\ u.strs = t.strs /\ u.dynsym = t.dynsym /\ u.rela = t.rela /\ u.slots = t.slots
<1>1. PICK v : v = [t EXCEPT !.D[n] = @ + size]
    OBVIOUS
<1>2. /\ v \in TableRecords /\ Others(t, v, n)
      /\ v.strs = t.strs /\ v.dynsym = t.dynsym /\ v.rela = t.rela /\ v.slots = t.slots
    BY <1>1, AddEffect
<1>3. u = IF v.D[n] = Alloc[n] THEN add_dynamic_sc(v, n) ELSE v
    BY <1>1 DEF Grow
<1>4. CASE u = v
    BY <1>2, <1>4
<1>5. CASE u = add_dynamic_sc(v, n)
  <2>1. /\ u \in TableRecords /\ Others(v, u, n)
        /\ u.strs = v.strs /\ u.dynsym = v.dynsym /\ u.rela = v.rela /\ u.slots = v.slots
      BY <1>2, <1>5, ScEffect
  <2> QED BY <1>2, <2>1 DEF Others
<1> QED BY <1>3, <1>4, <1>5

\* What add_dynsym_entry does when the entry is in its place.
SymChunk(u) ==
  IF u.D[".dynsym"] * SymSize = Alloc[".dynsym"]
    THEN add_dynamic_sc([u EXCEPT !.D[".dynsym"] = Alloc[".dynsym"]], ".dynsym")
    ELSE u

LEMMA SymEffect ==
  ASSUME NEW t \in TableRecords, NEW name \in Names, NEW u, u = add_dynsym_entry(t, name)
  PROVE  /\ u \in TableRecords /\ Others(t, u, ".dynsym")
         /\ Longer(t, u, ".dynsym") \/ Counts(t, u, ".dynsym", 1)
         /\ u.dynsym = Append(t.dynsym, name)
         /\ u.strs = t.strs /\ u.rela = t.rela /\ u.slots = t.slots
<1>0. ".dynsym" \in DynamicNames /\ Alloc[".dynsym"] \in Nat
    BY LayoutAssumption DEF DynamicNames, Dynamic
<1>1. PICK n : n = ".dynsym"
    OBVIOUS
<1>2. PICK v : v = [t EXCEPT !.D[n] = @ + 1]
    OBVIOUS
<1>3. /\ v \in TableRecords /\ Others(t, v, n) /\ Counts(t, v, n, 1) /\ v.chunks = t.chunks
      /\ v.strs = t.strs /\ v.dynsym = t.dynsym /\ v.rela = t.rela /\ v.slots = t.slots
    BY <1>0, <1>1, <1>2, AddEffect
<1>4. PICK y \in Seq(SymbolNames) : y = Append(t.dynsym, name)
  <2>1. t.dynsym \in Seq(SymbolNames)
      BY Parts
  <2>2. Append(t.dynsym, name) \in Seq(SymbolNames)
    <3>1. name \in SymbolNames
        BY DEF SymbolNames
    <3> QED BY <2>1, <3>1
  <2> QED BY <2>2
<1>5. PICK w : w = [v EXCEPT !.dynsym = y]
    OBVIOUS
<1>6. /\ w \in TableRecords /\ w.D = v.D /\ w.chunks = v.chunks
      /\ w.strs = v.strs /\ w.dynsym = y /\ w.rela = v.rela /\ w.slots = v.slots
    BY <1>3, <1>4, <1>5 DEF TableRecords
<1>7. [t EXCEPT !.D[".dynsym"] = @ + 1, !.dynsym = Append(@, name)] = w
    BY <1>1, <1>2, <1>4, <1>5 DEF TableRecords
<1>8. PICK x : x = SetCount(w, n, Alloc[".dynsym"])
    OBVIOUS
<1>9. u = IF w.D[n] * SymSize = Alloc[".dynsym"] THEN add_dynamic_sc(x, n) ELSE w
  <2>1. u = IF w.D[".dynsym"] * SymSize = Alloc[".dynsym"]
              THEN add_dynamic_sc([w EXCEPT !.D[".dynsym"] = Alloc[".dynsym"]], ".dynsym") ELSE w
    <3>1. u = SymChunk([t EXCEPT !.D[".dynsym"] = @ + 1, !.dynsym = Append(@, name)])
        BY DEF add_dynsym_entry, SymChunk
    <3>2. u = SymChunk(w)
        BY <1>7, <3>1
    <3> QED BY <3>2 DEF SymChunk
  <2>2. x = [w EXCEPT !.D[".dynsym"] = Alloc[".dynsym"]]
      BY <1>1, <1>8 DEF SetCount
  <2> QED BY <1>1, <2>1, <2>2
<1>10. CASE u = w
    BY <1>1, <1>3, <1>4, <1>6, <1>10 DEF Others, Counts
<1>11. CASE u = add_dynamic_sc(x, n)
  <2>1. /\ x \in TableRecords /\ Others(w, x, n) /\ x.chunks = w.chunks
        /\ x.strs = w.strs /\ x.dynsym = w.dynsym /\ x.rela = w.rela /\ x.slots = w.slots
    <3>1. Alloc[".dynsym"] \in Count
        BY <1>0 DEF Count
    <3> QED BY <1>0, <1>1, <1>6, <1>8, <3>1, CountEffect
  <2>2. /\ u \in TableRecords /\ Others(x, u, n) /\ Longer(x, u, n)
        /\ u.strs = x.strs /\ u.dynsym = x.dynsym /\ u.rela = x.rela /\ u.slots = x.slots
      BY <1>0, <1>1, <1>11, <2>1, ScEffect
  <2>3. Others(t, u, n)
    <3>1. Others(t, v, n) /\ Others(w, x, n) /\ Others(x, u, n) /\ w.D = v.D /\ w.chunks = v.chunks
        BY <1>3, <1>6, <2>1, <2>2
    <3> QED BY <3>1 DEF Others
  <2>4. Longer(t, u, n)
      BY <1>3, <1>6, <2>1, <2>2 DEF Longer
  <2> QED BY <1>1, <1>3, <1>4, <1>6, <2>1, <2>2, <2>3, <2>4
<1> QED BY <1>9, <1>10, <1>11

LEMMA StrEffect ==
  ASSUME NEW t \in TableRecords, NEW name \in StringNames, NEW len \in Nat,
         NEW u, u = add_dynstr_entry(t, name, len)
  PROVE  /\ u \in TableRecords /\ Others(t, u, ".dynstr")
         /\ \/ Longer(t, u, ".dynstr")
            \/ /\ Counts(t, u, ".dynstr", len + 1) /\ t.D[".dynstr"] + len <= Alloc[".dynstr"]
               /\ t.chunks[".dynstr"] = <<>> =>
                    u.strs = Append(t.strs, String(name, t.D[".dynstr"], len))
         /\ Len(u.strs) = Len(t.strs) + 1
         /\ u.dynsym = t.dynsym /\ u.rela = t.rela /\ u.slots = t.slots
<1>0. ".dynstr" \in DynamicNames /\ Alloc[".dynstr"] \in Nat
    BY LayoutAssumption DEF DynamicNames, Dynamic
<1>1. PICK n : n = ".dynstr"
    OBVIOUS
<1>2. PICK size \in Nat : size = t.D[n]
    BY <1>0, <1>1, Parts
<1>3. PICK full \in BOOLEAN : full <=> Alloc[n] < size + len
    OBVIOUS
<1>4. PICK v : v = IF full THEN add_dynamic_sc(t, n) ELSE t
    OBVIOUS
<1>5. PICK p \in Nat : p = IF full THEN 0 ELSE size
    BY <1>2
<1>6. /\ v \in TableRecords /\ v.D = t.D /\ Others(t, v, n)
      /\ v.strs = t.strs /\ v.dynsym = t.dynsym /\ v.rela = t.rela /\ v.slots = t.slots
      /\ IF full THEN Longer(t, v, n) ELSE v = t
    BY <1>0, <1>1, <1>4, ScEffect DEF Others
<1>7. PICK k \in Nat : k = Len(v.chunks[n]) + 1
  <2>1. v.chunks[n] \in Seq(Nat)
      BY <1>0, <1>1, <1>6, Parts
  <2>2. PICK c \in Seq(Nat) : c = v.chunks[n]
      BY <2>1
  <2>3. Len(c) + 1 \in Nat
      BY <2>2
  <2> QED BY <2>2, <2>3
<1>8. PICK e \in Strings : e = [name |-> name, chunk |-> k, pos |-> p, len |-> len, ret |-> size]
    BY <1>2, <1>5, <1>7 DEF Strings
<1>9. PICK q \in Nat : q = p + len + 1
    BY <1>5
<1>10. PICK s \in Seq(Strings) : s = Append(t.strs, e)
  <2>1. t.strs \in Seq(Strings)
      BY Parts
  <2>2. Append(t.strs, e) \in Seq(Strings)
      BY <1>8, <2>1
  <2> QED BY <2>2
<1>11. PICK w : w = SetCount(v, n, q)
    OBVIOUS
<1>12. /\ w \in TableRecords /\ Others(v, w, n) /\ w.D[n] = q /\ w.chunks = v.chunks
       /\ w.strs = v.strs /\ w.dynsym = v.dynsym /\ w.rela = v.rela /\ w.slots = v.slots
  <2>1. q \in Count
      BY <1>9 DEF Count
  <2> QED BY <1>0, <1>1, <1>6, <1>11, <2>1, CountEffect
<1>13. u = [w EXCEPT !.strs = s]
  <2>1. u = [v EXCEPT !.D[n] = p + len + 1,
                      !.strs = Append(@, [name |-> name, chunk |-> Len(v.chunks[n]) + 1,
                                          pos |-> p, len |-> len, ret |-> size])]
      BY <1>1, <1>2, <1>3, <1>4, <1>5 DEF add_dynstr_entry
  <2>2. u = [v EXCEPT !.D[n] = q, !.strs = Append(@, e)]
      BY <1>7, <1>8, <1>9, <2>1
  <2>3. v.strs = t.strs
      BY <1>6
  <2> QED BY <1>6, <1>10, <1>11, <2>2, <2>3 DEF TableRecords, SetCount
<1>14. /\ u \in TableRecords /\ u.D = w.D /\ u.chunks = w.chunks /\ u.strs = s
       /\ u.dynsym = w.dynsym /\ u.rela = w.rela /\ u.slots = w.slots
    BY <1>10, <1>12, <1>13 DEF TableRecords
<1>15. Others(t, u, n)
    BY <1>6, <1>12, <1>14 DEF Others
<1>16. Len(s) = Len(t.strs) + 1
  <2>1. PICK z \in Seq(Strings) : z = t.strs
      BY Parts
  <2> QED BY <1>8, <1>10, <2>1
<1>17. CASE full
  <2>1. Longer(t, u, n)
      BY <1>6, <1>12, <1>14, <1>17 DEF Longer
  <2> QED BY <1>1, <1>6, <1>12, <1>14, <1>15, <1>16, <2>1
<1>18. CASE ~full
  <2>1. v = t /\ p = size /\ size + len <= Alloc[n]
      BY <1>0, <1>1, <1>3, <1>5, <1>6, <1>18
  <2>2. Counts(t, u, n, len + 1)
    <3>1. u.chunks[n] = t.chunks[n] /\ u.D[n] = q
      <4>1. w.chunks = v.chunks /\ w.D[n] = q
          BY <1>12
      <4>2. u.chunks = w.chunks /\ u.D = w.D
          BY <1>14
      <4>3. v = t
          BY <2>1
      <4> QED BY <4>1, <4>2, <4>3, Zenon
    <3>2. q = size + (len + 1)
      <4>1. p = size
          BY <2>1
      <4> QED BY <1>9, <4>1, SMTT(30)
    <3> QED BY <1>2, <3>1, <3>2 DEF Counts
  <2>3. t.chunks[n] = <<>> => e = String(name, size, len)
      BY <1>7, <1>8, <2>1 DEF String
  <2> QED BY <1>1, <1>2, <1>6, <1>10, <1>12, <1>14, <1>15, <1>16, <2>1, <2>2, <2>3
<1> QED BY <1>17, <1>18

LEMMA PltEffect ==
  ASSUME NEW t \in TableRecords, NEW u, u = add_pltgot_entry(t)
  PROVE  /\ u \in TableRecords /\ Others(t, u, ".plt.got") /\ Counts(t, u, ".plt.got", 1)
         /\ u.strs = t.strs /\ u.dynsym = t.dynsym /\ u.rela = t.rela /\ u.slots = t.slots
<1>1. ".plt.got" \in DynamicNames
    BY DynamicNamesDiffer
<1> QED BY <1>1, AddEffect DEF add_pltgot_entry

----------------------------------------------------------------------------
(* What each step does to the tables, in terms of the symbols, slots and   *)
(* relocations, and of the strings                                         *)

Same(t, u, n) == u.D[n] = t.D[n] /\ u.chunks[n] = t.chunks[n]

SymStays(t, u) == u.dynsym = t.dynsym /\ Same(t, u, ".dynsym")
SymAdds(t, u, name) ==
  /\ u.dynsym = Append(t.dynsym, name)
  /\ Longer(t, u, ".dynsym") \/ Counts(t, u, ".dynsym", 1)

SlotsStay(t, u) == u.slots = t.slots /\ Same(t, u, ".plt.got")
SlotAdds(t, u, name, p) ==
  /\ u.slots = Append(t.slots, [name |-> name, r |-> p + t.D[".plt.got"] * PltSize])
  /\ Counts(t, u, ".plt.got", 1)

RelaAdds(t, u, offset, sym) == u.rela = Append(t.rela, [offset |-> offset - Base, sym |-> sym])

\* S are the addresses of the input sections, p is that of .plt.got.
SymbolStep(t, u, p, S) ==
  \/ /\ SymStays(t, u) /\ SlotsStay(t, u)
     /\ u.rela = t.rela \/ \E a \in S : RelaAdds(t, u, a, 0)
  \/ \E name \in Names :
       /\ SymAdds(t, u, name)
       /\ \/ SlotsStay(t, u) /\ u.rela = t.rela
          \/ SlotsStay(t, u) /\ \E a \in S : RelaAdds(t, u, a, u.D[".dynsym"] - 1)
          \/ /\ SlotAdds(t, u, name, p)
             /\ RelaAdds(t, u, p + t.D[".plt.got"] * PltSize + 8, u.D[".dynsym"] - 1)

StrAdds(t, u, name, len) ==
  /\ Len(u.strs) = Len(t.strs) + 1
  /\ \/ Longer(t, u, ".dynstr")
     \/ /\ Counts(t, u, ".dynstr", len + 1) /\ t.D[".dynstr"] + len <= Alloc[".dynstr"]
        /\ t.chunks[".dynstr"] = <<>> =>
             u.strs = Append(t.strs, String(name, t.D[".dynstr"], len))
StringStep(t, u) ==
  \/ u.strs = t.strs /\ Same(t, u, ".dynstr")
  \/ \E name \in StringNames, len \in Nat \ {0} : StrAdds(t, u, name, len)

LEMMA OthersSame ==
  ASSUME NEW t, NEW u, NEW n, Others(t, u, n), NEW d \in DynamicNames, d # n
  PROVE  Same(t, u, d)
  BY DEF Others, Same

LEMMA Sections ==
  /\ ".plt.got" \in DynamicNames /\ ".dynamic" \in DynamicNames /\ ".init_array" \in DynamicNames
  /\ ".fini_array" \in DynamicNames /\ ".gnu.hash" \in DynamicNames /\ ".rela.plt" \in DynamicNames
  /\ ".dynsym" \in DynamicNames /\ ".dynstr" \in DynamicNames
  BY DEF DynamicNames, Dynamic

\* A symbol and its name, as exports, slots and data references all add them.
LEMMA NamedSymbol ==
  ASSUME NEW t \in TableRecords, NEW name \in Names,
         NEW u, u = add_dynsym_entry(add_dynstr_entry(t, name, Length[name]), name)
  PROVE  /\ u \in TableRecords /\ SymAdds(t, u, name) /\ StringStep(t, u)
         /\ \A d \in DynamicNames \ {".dynsym", ".dynstr"} : Same(t, u, d)
         /\ u.rela = t.rela /\ u.slots = t.slots
<1>1. PICK len \in Nat \ {0} : len = Length[name]
    BY LayoutAssumption
<1>2. PICK v : v = add_dynstr_entry(t, name, len)
    OBVIOUS
<1>3. name \in StringNames /\ len \in Nat
    BY <1>1 DEF StringNames
<1>4. /\ v \in TableRecords /\ Others(t, v, ".dynstr") /\ StrAdds(t, v, name, len)
      /\ v.dynsym = t.dynsym /\ v.rela = t.rela /\ v.slots = t.slots
    BY <1>2, <1>3, StrEffect DEF StrAdds
<1>5. PICK w : w = add_dynsym_entry(v, name)
    OBVIOUS
<1>6. /\ w \in TableRecords /\ Others(v, w, ".dynsym")
      /\ Longer(v, w, ".dynsym") \/ Counts(v, w, ".dynsym", 1)
      /\ w.dynsym = Append(v.dynsym, name)
      /\ w.strs = v.strs /\ w.rela = v.rela /\ w.slots = v.slots
    BY <1>4, <1>5, SymEffect
<1>7. Same(t, v, ".dynsym") /\ Same(v, w, ".dynstr")
    BY <1>4, <1>6, Sections, OthersSame
<1>8. SymAdds(t, w, name)
    BY <1>4, <1>6, <1>7 DEF SymAdds, Same, Longer, Counts
<1>9. StrAdds(t, w, name, len)
    BY <1>4, <1>6, <1>7 DEF StrAdds, Same, Longer, Counts
<1>10. ASSUME NEW d \in DynamicNames \ {".dynsym", ".dynstr"} PROVE Same(t, w, d)
  <2>1. Same(t, v, d) /\ Same(v, w, d)
      BY <1>4, <1>6, OthersSame
  <2> QED BY <2>1 DEF Same
<1>11. u = w
    BY <1>1, <1>2, <1>5
<1> QED BY <1>1, <1>3, <1>4, <1>6, <1>8, <1>9, <1>10, <1>11 DEF StringStep

\* One more relocation, for the section or slot at offset.
LEMMA RelaStep ==
  ASSUME NEW t \in TableRecords, NEW offset \in Count, NEW sym \in Index,
         NEW u, u = add_rela_plt_entry(t, offset, sym)
  PROVE  /\ u \in TableRecords /\ RelaAdds(t, u, offset, sym)
         /\ \A d \in DynamicNames \ {".rela.plt"} : Same(t, u, d)
         /\ u.strs = t.strs /\ u.dynsym = t.dynsym /\ u.slots = t.slots
<1>1. PICK e \in [offset : Int, sym : Int] : e = [offset |-> offset - Base, sym |-> sym]
  <2>1. offset - Base \in Int /\ sym \in Int
      BY LayoutAssumption DEF Count, Index
  <2>2. [offset |-> offset - Base, sym |-> sym] \in [offset : Int, sym : Int]
      BY <2>1
  <2> QED BY <2>2
<1>2. PICK r \in Seq([offset : Int, sym : Int]) : r = Append(t.rela, e)
  <2>1. t.rela \in Seq([offset : Int, sym : Int])
      BY Parts
  <2>2. Append(t.rela, e) \in Seq([offset : Int, sym : Int])
      BY <1>1, <2>1
  <2> QED BY <2>2
<1>3. PICK v : v = [t EXCEPT !.rela = r]
    OBVIOUS
<1>4. /\ v \in TableRecords /\ v.D = t.D /\ v.chunks = t.chunks /\ v.strs = t.strs
      /\ v.dynsym = t.dynsym /\ v.slots = t.slots /\ v.rela = r
    BY <1>2, <1>3 DEF TableRecords
<1>5. u = Grow(v, ".rela.plt", RelaSize)
  <2>1. v = [t EXCEPT !.rela = Append(@, [offset |-> offset - Base, sym |-> sym])]
      BY <1>1, <1>2, <1>3 DEF TableRecords
  <2> QED BY <2>1 DEF add_rela_plt_entry
<1>6. ".rela.plt" \in DynamicNames /\ RelaSize \in Nat
    BY DEF DynamicNames, Dynamic, RelaSize
<1>7. /\ u \in TableRecords /\ Others(v, u, ".rela.plt")
      /\ u.strs = v.strs /\ u.dynsym = v.dynsym /\ u.rela = v.rela /\ u.slots = v.slots
    BY <1>4, <1>5, <1>6, GrowEffect
<1>8. Others(t, u, ".rela.plt")
    BY <1>4, <1>7 DEF Others
<1>9. \A d \in DynamicNames \ {".rela.plt"} : Same(t, u, d)
    BY <1>8, OthersSame
<1>10. RelaAdds(t, u, offset, sym)
    BY <1>1, <1>2, <1>4, <1>7 DEF RelaAdds
<1> QED BY <1>4, <1>7, <1>9, <1>10

\* What a step does to the tables t.
TableStep(t, u, p, S) ==
  /\ u \in TableRecords /\ Same(t, u, ".dynamic")
  /\ SymbolStep(t, u, p, S) /\ StringStep(t, u)

LEMMA NewSlotStep ==
  ASSUME Tables \in TableRecords, pltgot \in Nat, NEW name \in Names, NEW S
  PROVE  TableStep(Tables, NewSlot(name), pltgot, S)
<1>1. PICK t : t = Tables
    OBVIOUS
<1>2. PICK g \in Nat : g = t.D[".plt.got"]
    BY <1>1, Parts, Sections
<1>3. PICK r \in Nat : r = pltgot + g * PltSize
    BY <1>2 DEF PltSize
<1>4. PICK a : a = add_pltgot_entry(t)
    OBVIOUS
<1>5. /\ a \in TableRecords /\ Others(t, a, ".plt.got") /\ Counts(t, a, ".plt.got", 1)
      /\ a.strs = t.strs /\ a.dynsym = t.dynsym /\ a.rela = t.rela /\ a.slots = t.slots
    BY <1>1, <1>4, PltEffect
<1>6. PICK b : b = add_dynsym_entry(add_dynstr_entry(a, name, Length[name]), name)
    OBVIOUS
<1>7. /\ b \in TableRecords /\ SymAdds(a, b, name) /\ StringStep(a, b)
      /\ \A d \in DynamicNames \ {".dynsym", ".dynstr"} : Same(a, b, d)
      /\ b.rela = a.rela /\ b.slots = a.slots
    BY <1>5, <1>6, NamedSymbol
<1>8. PICK o \in Count : o = r + 8
    BY <1>3 DEF Count
<1>9. PICK k \in Index : k = b.D[".dynsym"] - 1
  <2>1. PICK z \in Nat : z = b.D[".dynsym"]
      BY <1>7, Parts, Sections
  <2>2. z - 1 \in Index
      BY <2>1 DEF Index
  <2> QED BY <2>1, <2>2
<1>10. PICK c : c = add_rela_plt_entry(b, o, k)
    OBVIOUS
<1>11. /\ c \in TableRecords /\ RelaAdds(b, c, o, k)
       /\ \A d \in DynamicNames \ {".rela.plt"} : Same(b, c, d)
       /\ c.strs = b.strs /\ c.dynsym = b.dynsym /\ c.slots = b.slots
    BY <1>7, <1>8, <1>9, <1>10, RelaStep
<1>12. PICK e \in [name : Names, r : Nat] : e = [name |-> name, r |-> r]
    BY <1>3
<1>13. PICK l \in Seq([name : Names, r : Nat]) : l = Append(c.slots, e)
  <2>1. c.slots \in Seq([name : Names, r : Nat])
      BY <1>11, Parts
  <2>2. Append(c.slots, e) \in Seq([name : Names, r : Nat])
      BY <1>12, <2>1
  <2> QED BY <2>2
<1>14. PICK u : u = [c EXCEPT !.slots = l]
    OBVIOUS
<1>15. /\ u \in TableRecords /\ u.D = c.D /\ u.chunks = c.chunks /\ u.strs = c.strs
       /\ u.dynsym = c.dynsym /\ u.rela = c.rela /\ u.slots = l
    BY <1>11, <1>13, <1>14 DEF TableRecords
<1>16. NewSlot(name) = u
  <2>1. PltSlot(t) = r
      BY <1>2, <1>3 DEF PltSlot
  <2>2. add_rela_plt_entry(b, PltSlot(t) + 8, b.D[".dynsym"] - 1) = c
      BY <1>8, <1>9, <1>10, <2>1
  <2>3. NewSlot(name) = [c EXCEPT !.slots = Append(@, [name |-> name, r |-> r])]
      BY <1>1, <1>4, <1>6, <2>1, <2>2 DEF NewSlot
  <2>4. NewSlot(name) = [c EXCEPT !.slots = Append(@, e)]
      BY <1>12, <2>3
  <2> QED BY <1>11, <1>13, <1>14, <2>4 DEF TableRecords
<1>17. Same(t, u, ".dynamic")
  <2>1. Same(t, a, ".dynamic") /\ Same(a, b, ".dynamic") /\ Same(b, c, ".dynamic")
      BY <1>5, <1>7, <1>11, Sections, OthersSame
  <2> QED BY <1>15, <2>1 DEF Same
<1>18. StringStep(t, u)
  <2>1. Same(t, a, ".dynstr") /\ Same(b, c, ".dynstr")
      BY <1>5, <1>11, Sections, OthersSame
  <2>2. CASE b.strs = a.strs /\ Same(a, b, ".dynstr")
      BY <1>5, <1>11, <1>15, <2>1, <2>2 DEF StringStep, Same
  <2>3. ASSUME NEW m \in StringNames, NEW len \in Nat \ {0}, StrAdds(a, b, m, len)
        PROVE  StringStep(t, u)
    <3>1. StrAdds(t, u, m, len)
        BY <1>5, <1>11, <1>15, <2>1, <2>3 DEF StrAdds, Same, Longer, Counts
    <3> QED BY <2>3, <3>1 DEF StringStep
  <2> QED BY <1>7, <2>2, <2>3 DEF StringStep
<1>19. SymAdds(t, u, name)
  <2>1. Same(t, a, ".dynsym") /\ Same(b, c, ".dynsym")
      BY <1>5, <1>11, Sections, OthersSame
  <2> QED BY <1>5, <1>7, <1>11, <1>15, <2>1 DEF SymAdds, Same, Longer, Counts
<1>20. SlotAdds(t, u, name, pltgot)
  <2>1. Same(a, b, ".plt.got") /\ Same(b, c, ".plt.got")
      BY <1>7, <1>11, Sections
  <2>2. Counts(t, u, ".plt.got", 1)
      BY <1>5, <1>15, <2>1 DEF Same, Counts
  <2>3. c.slots = t.slots
      BY <1>5, <1>7, <1>11
  <2>4. u.slots = Append(t.slots, [name |-> name, r |-> pltgot + t.D[".plt.got"] * PltSize])
      BY <1>2, <1>3, <1>12, <1>13, <1>15, <2>3
  <2> QED BY <2>2, <2>4 DEF SlotAdds
<1>21. RelaAdds(t, u, pltgot + t.D[".plt.got"] * PltSize + 8, u.D[".dynsym"] - 1)
  <2>1. Same(b, c, ".dynsym")
      BY <1>11, Sections
  <2>2. o = pltgot + t.D[".plt.got"] * PltSize + 8 /\ k = u.D[".dynsym"] - 1
      BY <1>2, <1>3, <1>8, <1>9, <1>15, <2>1 DEF Same
  <2>3. RelaAdds(t, u, o, k)
      BY <1>5, <1>7, <1>11, <1>15 DEF RelaAdds
  <2> QED BY <2>2, <2>3
<1> QED BY <1>1, <1>15, <1>16, <1>17, <1>18, <1>19, <1>20, <1>21 DEF TableStep, SymbolStep

\* A step that changes no symbol, slot, relocation or string.
LEMMA PlainStep ==
  ASSUME NEW t \in TableRecords, NEW u \in TableRecords, NEW p, NEW S,
         Same(t, u, ".dynamic"), Same(t, u, ".dynsym"), Same(t, u, ".dynstr"), Same(t, u, ".plt.got"),
         u.strs = t.strs, u.dynsym = t.dynsym, u.slots = t.slots,
         u.rela = t.rela \/ \E a \in S : RelaAdds(t, u, a, 0)
  PROVE  TableStep(t, u, p, S)
  BY DEF TableStep, SymbolStep, SymStays, SlotsStay, StringStep

\* A symbol, and no slot.
LEMMA DataStep ==
  ASSUME NEW t \in TableRecords, NEW name \in Names, NEW p, NEW S, NEW a \in S, a \in Nat,
         NEW v, v = add_dynsym_entry(add_dynstr_entry(t, name, Length[name]), name),
         NEW u, u = add_rela_plt_entry(v, a, v.D[".dynsym"] - 1)
  PROVE  TableStep(t, u, p, S)
<1>1. PICK w : w = v
    OBVIOUS
<1>2. /\ w \in TableRecords /\ SymAdds(t, w, name) /\ StringStep(t, w)
      /\ \A d \in DynamicNames \ {".dynsym", ".dynstr"} : Same(t, w, d)
      /\ w.rela = t.rela /\ w.slots = t.slots
    BY <1>1, NamedSymbol
<1>3. PICK k \in Index : k = w.D[".dynsym"] - 1
  <2>1. PICK z \in Nat : z = w.D[".dynsym"]
      BY <1>2, Parts, Sections
  <2>2. z - 1 \in Index
      BY <2>1 DEF Index
  <2> QED BY <2>1, <2>2
<1>4. PICK x : x = add_rela_plt_entry(w, a, k)
    OBVIOUS
<1>5. /\ x \in TableRecords /\ RelaAdds(w, x, a, k)
      /\ \A d \in DynamicNames \ {".rela.plt"} : Same(w, x, d)
      /\ x.strs = w.strs /\ x.dynsym = w.dynsym /\ x.slots = w.slots
  <2>1. a \in Count
      BY DEF Count
  <2> QED BY <1>2, <1>3, <1>4, <2>1, RelaStep
<1>6. u = x
    BY <1>1, <1>3, <1>4
<1>7. Same(t, x, ".dynamic") /\ SlotsStay(t, x)
    BY <1>2, <1>5, Sections DEF Same, SlotsStay
<1>8. Same(w, x, ".dynsym") /\ Same(w, x, ".dynstr")
    BY <1>5, Sections
<1>9. SymAdds(t, x, name)
    BY <1>2, <1>5, <1>8 DEF SymAdds, Same, Longer, Counts
<1>10. RelaAdds(t, x, a, x.D[".dynsym"] - 1)
  <2>1. k = x.D[".dynsym"] - 1
      BY <1>3, <1>8 DEF Same
  <2> QED BY <1>2, <1>5, <2>1 DEF RelaAdds
<1>11. StringStep(t, x)
  <2>1. CASE w.strs = t.strs /\ Same(t, w, ".dynstr")
      BY <1>5, <1>8, <2>1 DEF StringStep, Same
  <2>2. ASSUME NEW m \in StringNames, NEW len \in Nat \ {0}, StrAdds(t, w, m, len)
        PROVE  StringStep(t, x)
    <3>1. StrAdds(t, x, m, len)
        BY <1>5, <1>8, <2>2 DEF StrAdds, Same, Longer, Counts
    <3> QED BY <2>2, <3>1 DEF StringStep
  <2> QED BY <1>2, <2>1, <2>2 DEF StringStep
<1>12. TableStep(t, x, p, S)
    BY <1>5, <1>7, <1>9, <1>10, <1>11 DEF TableStep, SymbolStep
<1> QED BY <1>6, <1>12

Relas == [offset : Int, sym : Int]
SlotEntries == [name : Names, r : Nat]

\* No symbol moves; a relocation that is added is for a word of an input section.
SymsKept(t, u) ==
  /\ Len(u.dynsym) >= Len(t.dynsym)
  /\ \A i \in 1 .. Len(t.dynsym) : u.dynsym[i] = t.dynsym[i]
RelaKept(t, u, p) ==
  \/ u.rela = t.rela
  \/ \E e \in Relas :
       /\ u.rela = Append(t.rela, e) /\ e.offset + Base <= p
       /\ e.sym \in 0 .. Len(u.dynsym) - 1
SlotRela(t, u, p) == RelaAdds(t, u, p + t.D[".plt.got"] * PltSize + 8, u.D[".dynsym"] - 1)

\* A step that adds no slot keeps those there are: a relocation it adds is for a
\* word of an input section, which lies in front of .plt.got.
LEMMA SlotsKept ==
  ASSUME NEW t \in TableRecords, NEW u \in TableRecords, NEW p \in Nat, SlotsGood(t, p), SlotsStay(t, u),
         SymsKept(t, u), RelaKept(t, u, p)
  PROVE  SlotsGood(u, p)
<1>1. PICK g \in Nat : g = t.D[".plt.got"]
    BY Parts, Sections
<1>0. PICK h \in Nat : h = g * PltSize
    BY <1>1 DEF PltSize
<1>2. u.slots = t.slots /\ u.D[".plt.got"] = g
    BY <1>1 DEF SlotsStay, Same
<1>3. PICK R \in Seq(Relas) : R = t.rela
    BY Parts DEF Relas
<1>4. PICK Q \in Seq(Relas) : Q = u.rela
    BY Parts DEF Relas
<1>5. PICK l \in Seq(SlotEntries) : l = t.slots
    BY Parts DEF SlotEntries
<1>6. PICK n \in Nat : n = Len(t.dynsym)
  <2>1. PICK y \in Seq(SymbolNames) : y = t.dynsym
      BY Parts
  <2>2. Len(y) \in Nat
      BY <2>1
  <2> QED BY <2>1, <2>2
<1>7. PICK m \in Nat : m = Len(u.dynsym)
  <2>1. PICK y \in Seq(SymbolNames) : y = u.dynsym
      BY Parts
  <2>2. Len(y) \in Nat
      BY <2>1
  <2> QED BY <2>1, <2>2
<1>8. /\ Len(Q) >= Len(R) /\ \A k \in 1 .. Len(R) : Q[k] = R[k]
      /\ \A k \in 1 .. Len(Q) : k > Len(R) => Q[k].offset + Base <= p /\ Q[k].sym \in 0 .. m - 1
  <2>1. CASE u.rela = t.rela
      BY <1>3, <1>4, <2>1
  <2>2. ASSUME NEW e \in Relas, u.rela = Append(t.rela, e), e.offset + Base <= p,
               e.sym \in 0 .. Len(u.dynsym) - 1
        PROVE  /\ Len(Q) >= Len(R) /\ \A k \in 1 .. Len(R) : Q[k] = R[k]
               /\ \A k \in 1 .. Len(Q) : k > Len(R) => Q[k].offset + Base <= p /\ Q[k].sym \in 0 .. m - 1
    <3>1. Q = Append(R, e)
        BY <1>3, <1>4, <2>2
    <3>2. Len(Q) = Len(R) + 1 /\ Q[Len(R) + 1] = e /\ \A k \in 1 .. Len(R) : Q[k] = R[k]
        BY <1>3, <3>1
    <3>3. ASSUME NEW k \in 1 .. Len(Q), k > Len(R) PROVE Q[k] = e
      <4>1. k \in Nat /\ Len(R) \in Nat /\ k <= Len(R) + 1
          BY <1>3, <3>2, <3>3
      <4>2. k = Len(R) + 1
          BY <3>3, <4>1
      <4> QED BY <3>2, <4>2
    <3>4. Len(Q) >= Len(R)
        BY <1>3, <3>2
    <3> QED BY <1>7, <2>2, <3>2, <3>3, <3>4
  <2> QED BY <2>1, <2>2 DEF RelaKept
<1>9. /\ Len(l) = g
      /\ \A i \in 1 .. Len(l) : l[i].r = p + (i - 1) * PltSize
      /\ \A k \in 1 .. Len(R) : R[k].sym \in 0 .. n - 1 /\ R[k].offset + Base < p + h + 8
      /\ \A i \in 1 .. Len(l) : \E k \in 1 .. Len(R) : Fills(t, k, l[i])
    BY <1>0, <1>1, <1>3, <1>5, <1>6 DEF SlotsGood
<1>10. h \in Nat /\ Base \in Nat /\ Len(l) \in Nat
  <2>1. h \in Nat
      BY <1>0
  <2>2. Base \in Nat
      BY LayoutAssumption
  <2>3. Len(l) \in Nat
      BY <1>5
  <2> QED BY <2>1, <2>2, <2>3
<1>11. ASSUME NEW k \in 1 .. Len(Q)
       PROVE  Q[k].sym \in 0 .. m - 1 /\ Q[k].offset + Base < p + h + 8
  <2>0. Q[k].offset \in Int /\ Q[k].sym \in Int
    <3>1. Q[k] \in Relas
        BY <1>4, <1>11, ElementOfSeq
    <3> QED BY <3>1 DEF Relas
  <2>9. ASSUME k > Len(R) PROVE Q[k].sym \in 0 .. m - 1 /\ Q[k].offset + Base < p + h + 8
    <3>1. Q[k].sym \in 0 .. m - 1 /\ Q[k].offset + Base <= p
        BY <1>8, <1>11, <2>9
    <3>2. PICK o \in Int : o = Q[k].offset
        BY <2>0
    <3>3. o + Base <= p
        BY <3>1, <3>2
    <3>4. o + Base < p + h + 8
        BY <1>10, <3>3
    <3> QED BY <3>1, <3>2, <3>4
  <2>1. CASE k > Len(R)
      BY <1>11, <2>1, <2>9
  <2>2. CASE ~(k > Len(R))
    <3>1. k \in 1 .. Len(R)
        BY <1>3, <1>11, <2>2
    <3>2. Q[k] = R[k]
        BY <1>8, <3>1
    <3>3. R[k].sym \in 0 .. n - 1 /\ R[k].offset + Base < p + h + 8
        BY <1>9, <3>1
    <3>4. n <= m
        BY <1>6, <1>7 DEF SymsKept
    <3>5. R[k].sym \in 0 .. m - 1
      <4>1. PICK x : x = R[k].sym
          OBVIOUS
      <4>2. x \in 0 .. n - 1
          BY <3>3, <4>1
      <4>3. n \in Nat /\ m \in Nat
          BY <1>6, <1>7
      <4>4. x \in 0 .. m - 1
          BY <3>4, <4>2, <4>3
      <4> QED BY <4>1, <4>4
    <3> QED BY <3>2, <3>3, <3>5
  <2> QED BY <2>1, <2>2
<1>12. ASSUME NEW i \in 1 .. Len(l) PROVE \E k \in 1 .. Len(Q) : Fills(u, k, l[i])
  <2>1. PICK k \in 1 .. Len(R) : Fills(t, k, l[i])
      BY <1>9, <1>12
  <2>2. k \in 1 .. Len(Q) /\ Q[k] = R[k]
      BY <1>3, <1>4, <1>8, <2>1
  <2>3. R[k].sym \in 0 .. n - 1
      BY <1>9, <2>1
  <2>4. R[k].sym + 1 \in 1 .. n
    <3>1. PICK x : x = R[k].sym
        OBVIOUS
    <3>2. x \in 0 .. n - 1
        BY <2>3, <3>1
    <3>3. x + 1 \in 1 .. n
        BY <1>6, <3>2
    <3> QED BY <3>1, <3>3
  <2>5. u.dynsym[R[k].sym + 1] = t.dynsym[R[k].sym + 1]
      BY <1>6, <2>4 DEF SymsKept
  <2>6. R[k].offset + Base = l[i].r + 8 /\ t.dynsym[R[k].sym + 1] = l[i].name
        /\ \A j \in 1 .. Len(R) : R[j].offset = R[k].offset => j = k
      BY <1>3, <2>1 DEF Fills
  <2>7. l[i].r \in Nat /\ l[i].r >= p
    <3>1. l[i].r = p + (i - 1) * 16
        BY <1>9, <1>12 DEF PltSize
    <3>2. PICK j \in Nat : j = i - 1
        BY <1>10, <1>12
    <3>3. l[i].r = p + j * 16
        BY <3>1, <3>2
    <3>4. p + j * 16 \in Nat /\ p + j * 16 >= p
        BY <3>2
    <3> QED BY <3>3, <3>4
  <2>8. ASSUME NEW j \in 1 .. Len(Q), Q[j].offset = Q[k].offset PROVE j = k
    <3>1. CASE j > Len(R)
      <4>1. Q[j].offset + Base <= p /\ Q[j].offset + Base = l[i].r + 8
          BY <1>8, <2>2, <2>6, <2>8, <3>1
      <4>2. PICK x \in Nat : x = l[i].r
          BY <2>7
      <4>3. x + 8 <= p
          BY <4>1, <4>2
      <4>4. x >= p
          BY <2>7, <4>2
      <4> QED BY <4>3, <4>4
    <3>2. CASE ~(j > Len(R))
      <4>1. j \in 1 .. Len(R)
          BY <1>3, <2>8, <3>2
      <4>2. Q[j] = R[j]
          BY <1>8, <4>1
      <4> QED BY <2>2, <2>6, <2>8, <4>1, <4>2
    <3> QED BY <3>1, <3>2
  <2> QED BY <1>4, <2>2, <2>5, <2>6, <2>8 DEF Fills
<1> QED BY <1>0, <1>2, <1>4, <1>5, <1>7, <1>9, <1>11, <1>12 DEF SlotsGood

\* A new slot lies behind the others and so does the word its relocation fills.
LEMMA SlotAdded ==
  ASSUME NEW t \in TableRecords, NEW u \in TableRecords, NEW p \in Nat, SlotsGood(t, p),
         NEW name \in Names, SlotAdds(t, u, name, p),
         t.D[".dynsym"] = Len(t.dynsym), u.dynsym = Append(t.dynsym, name), Counts(t, u, ".dynsym", 1),
         SlotRela(t, u, p)
  PROVE  SlotsGood(u, p)
<1>1. PICK g \in Nat : g = t.D[".plt.got"]
    BY Parts, Sections
<1>2. PICK h \in Nat : h = g * PltSize
    BY <1>1 DEF PltSize
<1>0. h \in Nat
    BY <1>2
<1>3. PICK R \in Seq(Relas) : R = t.rela
    BY Parts DEF Relas
<1>4. PICK l \in Seq(SlotEntries) : l = t.slots
    BY Parts DEF SlotEntries
<1>5. PICK y \in Seq(SymbolNames) : y = t.dynsym
    BY Parts
<1>6. PICK n \in Nat : n = Len(y)
    BY <1>5
<1>7. u.D[".plt.got"] = g + 1 /\ u.D[".dynsym"] = n + 1
    BY <1>1, <1>5, <1>6 DEF SlotAdds, Counts
<1>8. Base \in Nat
    BY LayoutAssumption
<1>9. PICK e \in Relas : e = [offset |-> (p + h + 8) - Base, sym |-> n]
  <2>1. (p + h + 8) - Base \in Int
      BY <1>0, <1>8
  <2>2. n \in Int
      BY <1>6
  <2>3. [offset |-> (p + h + 8) - Base, sym |-> n] \in Relas
      BY <2>1, <2>2 DEF Relas
  <2> QED BY <2>3
<1>10. PICK f \in SlotEntries : f = [name |-> name, r |-> p + h]
  <2>1. p + h \in Nat
      BY <1>2
  <2>2. [name |-> name, r |-> p + h] \in SlotEntries
      BY <2>1 DEF SlotEntries
  <2> QED BY <2>2
<1>11. u.rela = Append(R, e)
  <2>1. u.D[".dynsym"] - 1 = n
    <3>1. n + 1 - 1 = n
        OBVIOUS
    <3> QED BY <1>7, <3>1
  <2>2. RelaAdds(t, u, p + g * PltSize + 8, n)
      BY <1>1, <2>1 DEF SlotRela
  <2>3. RelaAdds(t, u, p + h + 8, n)
      BY <1>2, <2>2
  <2>4. u.rela = Append(t.rela, e)
    <3>1. u.rela = Append(t.rela, [offset |-> (p + h + 8) - Base, sym |-> n])
        BY <2>3 DEF RelaAdds
    <3> QED BY <1>9, <3>1
  <2> QED BY <1>3, <2>4
<1>12. u.slots = Append(l, f)
    BY <1>1, <1>2, <1>4, <1>10 DEF SlotAdds
<1>13. u.dynsym = Append(y, name)
    BY <1>5
<1>14. PICK Q : Q = Append(R, e)
    OBVIOUS
<1>15. Len(Q) = Len(R) + 1 /\ Q[Len(R) + 1] = e /\ (\A k \in 1 .. Len(R) : Q[k] = R[k]) /\ Len(R) \in Nat
    BY <1>3, <1>9, <1>14
<1>16. PICK q : q = Append(l, f)
    OBVIOUS
<1>17. Len(q) = Len(l) + 1 /\ q[Len(l) + 1] = f /\ (\A i \in 1 .. Len(l) : q[i] = l[i]) /\ Len(l) \in Nat
    BY <1>4, <1>10, <1>16
<1>18. PICK z : z = Append(y, name)
    OBVIOUS
<1>19. Len(z) = n + 1 /\ z[n + 1] = name /\ \A i \in 1 .. n : z[i] = y[i]
  <2>1. name \in SymbolNames
      BY DEF SymbolNames
  <2> QED BY <1>5, <1>6, <1>18, <2>1, AppendProperties
<1>20. /\ Len(l) = g
       /\ \A i \in 1 .. g : l[i].r = p + (i - 1) * PltSize
       /\ \A k \in 1 .. Len(R) : R[k].sym \in 0 .. n - 1 /\ R[k].offset + Base < p + h + 8
       /\ \A i \in 1 .. g : \E k \in 1 .. Len(R) : Fills(t, k, l[i])
    BY <1>1, <1>2, <1>3, <1>4, <1>5, <1>6 DEF SlotsGood
<1>21. ASSUME NEW k \in 1 .. Len(R) PROVE R[k].offset \in Int /\ R[k].sym \in Int
  <2>1. R[k] \in Relas
      BY <1>3, <1>21, ElementOfSeq
  <2> QED BY <2>1 DEF Relas
<1>22. (g + 1) * PltSize = h + 16
    BY <1>1, <1>2 DEF PltSize
<1>23. ASSUME NEW i \in 1 .. g + 1 PROVE q[i].r = p + (i - 1) * PltSize
  <2>1. CASE i \in 1 .. g
      BY <1>17, <1>20, <2>1
  <2>2. CASE i = g + 1
    <3>1. q[i] = f /\ i - 1 = g
        BY <1>1, <1>17, <1>20, <2>2
    <3>2. f.r = p + h
        BY <1>10
    <3>3. f.r = p + g * PltSize
        BY <1>2, <3>2
    <3> QED BY <3>1, <3>3
  <2>3. g \in Nat
      BY <1>1
  <2>4. i \in 1 .. g \/ i = g + 1
      BY <1>23, <2>3
  <2> QED BY <2>1, <2>2, <2>4
<1>29. \A k \in 1 .. Len(R) + 1 : k \in 1 .. Len(R) \/ k = Len(R) + 1
  <2>1. Len(R) \in Nat
      BY <1>3
  <2> QED BY <2>1
<1>28. e.sym = n /\ e.offset + Base = p + h + 8
  <2>1. e.sym = n /\ e.offset = (p + h + 8) - Base
      BY <1>9
  <2>2. ((p + h + 8) - Base) + Base = p + h + 8
      BY <1>0, <1>8
  <2> QED BY <2>1, <2>2
<1>24. ASSUME NEW k \in 1 .. Len(R) + 1
       PROVE  Q[k].sym \in 0 .. n /\ Q[k].offset + Base < p + (h + 16) + 8
  <2>1. CASE k \in 1 .. Len(R)
    <3>1. Q[k] = R[k] /\ R[k].sym \in 0 .. n - 1 /\ R[k].offset + Base < p + h + 8
        BY <1>15, <1>20, <2>1
    <3>2. PICK o \in Int : o = R[k].offset
        BY <1>21, <2>1
    <3>3. o + Base < p + (h + 16) + 8
      <4>1. o + Base < p + h + 8
          BY <3>1, <3>2
      <4>2. PICK w \in Int : w = o + Base
          BY <1>8, <3>2
      <4>3. w < p + h + 8
          BY <4>1, <4>2
      <4>4. w < p + (h + 16) + 8
          BY <1>0, <4>2, <4>3
      <4> QED BY <4>2, <4>4
    <3>4. R[k].sym \in 0 .. n
      <4>1. PICK x : x = R[k].sym
          OBVIOUS
      <4>2. x \in 0 .. n - 1
          BY <3>1, <4>1
      <4>3. x \in 0 .. n
          BY <1>6, <4>2
      <4> QED BY <4>1, <4>3
    <3> QED BY <3>1, <3>2, <3>3, <3>4
  <2>2. CASE k = Len(R) + 1
    <3>1. Q[k] = e /\ e.sym = n /\ e.offset + Base = p + h + 8
        BY <1>28, <1>15, <2>2
    <3>2. n \in 0 .. n
        BY <1>6
    <3>3. p + h + 8 < p + (h + 16) + 8
        BY <1>0
    <3> QED BY <3>1, <3>2, <3>3
  <2> QED BY <1>24, <1>29, <2>1, <2>2
<1>25. ASSUME NEW i \in 1 .. g + 1 PROVE \E k \in 1 .. Len(R) + 1 : Fills(u, k, q[i])
  <2>1. CASE i \in 1 .. g
    <3>1. PICK k \in 1 .. Len(R) : Fills(t, k, l[i])
        BY <1>20, <2>1
    <3>2. /\ R[k].offset + Base = l[i].r + 8 /\ y[R[k].sym + 1] = l[i].name
          /\ \A j \in 1 .. Len(R) : R[j].offset = R[k].offset => j = k
        BY <1>3, <1>5, <3>1 DEF Fills
    <3>3. R[k].sym + 1 \in 1 .. n
      <4>1. PICK x : x = R[k].sym
          OBVIOUS
      <4>2. x \in 0 .. n - 1
          BY <1>20, <3>1, <4>1
      <4>3. x + 1 \in 1 .. n
          BY <1>6, <4>2
      <4> QED BY <4>1, <4>3
    <3>4. Q[k] = R[k] /\ q[i] = l[i] /\ z[R[k].sym + 1] = y[R[k].sym + 1]
        BY <1>15, <1>17, <1>19, <1>20, <2>1, <3>1, <3>3
    <3>5. ASSUME NEW j \in 1 .. Len(R) + 1, Q[j].offset = Q[k].offset PROVE j = k
      <4>1. CASE j \in 1 .. Len(R)
          BY <1>15, <3>2, <3>4, <3>5, <4>1
      <4>2. CASE j = Len(R) + 1
        <5>1. R[k].offset = e.offset
            BY <1>15, <3>4, <3>5, <4>2
        <5>2. R[k].offset + Base < p + h + 8
            BY <1>20, <3>1
        <5>3. p + h + 8 < p + h + 8
            BY <1>28, <5>1, <5>2
        <5>4. p + h + 8 \in Nat
            BY <1>0
        <5> QED BY <5>3, <5>4
      <4> QED BY <1>29, <3>5, <4>1, <4>2
    <3>6. k \in 1 .. Len(R) + 1
        BY <1>15, <3>1
    <3>7. u.rela = Q /\ u.dynsym = z
        BY <1>11, <1>13, <1>14, <1>18
    <3>8. /\ Q[k].offset + Base = q[i].r + 8 /\ z[Q[k].sym + 1] = q[i].name
          /\ \A j \in 1 .. Len(Q) : Q[j].offset = Q[k].offset => j = k
        BY <1>15, <3>2, <3>4, <3>5
    <3>9. Fills(u, k, q[i])
        BY <3>7, <3>8 DEF Fills
    <3> QED BY <3>6, <3>9
  <2>2. CASE i = g + 1
    <3> DEFINE k == Len(R) + 1
    <3>1. Q[k] = e /\ q[i] = f /\ k \in 1 .. Len(R) + 1
        BY <1>15, <1>17, <1>20, <2>2
    <3>2. e.offset + Base = f.r + 8 /\ z[e.sym + 1] = f.name
        BY <1>10, <1>19, <1>28
    <3>3. ASSUME NEW j \in 1 .. Len(R) + 1, Q[j].offset = e.offset PROVE j = k
      <4>1. CASE j \in 1 .. Len(R)
        <5>1. R[j].offset = e.offset
            BY <1>15, <3>3, <4>1
        <5>2. R[j].offset + Base < p + h + 8
            BY <1>20, <4>1
        <5>3. p + h + 8 < p + h + 8
            BY <1>28, <5>1, <5>2
        <5>4. p + h + 8 \in Nat
            BY <1>0
        <5> QED BY <5>3, <5>4
      <4>2. CASE j = Len(R) + 1
          BY <4>2 DEF k
      <4> QED BY <1>29, <3>3, <4>1, <4>2
    <3> HIDE DEF k
    <3>4. u.rela = Q /\ u.dynsym = z
        BY <1>11, <1>13, <1>14, <1>18
    <3>5. /\ Q[k].offset + Base = q[i].r + 8 /\ z[Q[k].sym + 1] = q[i].name
          /\ \A j \in 1 .. Len(Q) : Q[j].offset = Q[k].offset => j = k
      <4>1. /\ Q[k].offset + Base = q[i].r + 8 /\ z[Q[k].sym + 1] = q[i].name
          BY <3>1, <3>2
      <4>2. Len(Q) = Len(R) + 1
          BY <1>15
      <4>3. ASSUME NEW j \in 1 .. Len(Q), Q[j].offset = Q[k].offset PROVE j = k
        <5>1. j \in 1 .. Len(R) + 1 /\ Q[j].offset = e.offset
            BY <3>1, <4>2, <4>3
        <5> QED BY <3>3, <5>1
      <4> QED BY <4>1, <4>3
    <3>6. Fills(u, k, q[i])
        BY <3>4, <3>5 DEF Fills
    <3> QED BY <3>1, <3>6
  <2>3. i \in 1 .. g \/ i = g + 1
      BY <1>25
  <2> QED BY <2>1, <2>2, <2>3
<1>26. Len(u.slots) = g + 1 /\ Len(u.rela) = Len(R) + 1 /\ Len(u.dynsym) = n + 1
    BY <1>11, <1>12, <1>13, <1>14, <1>15, <1>16, <1>17, <1>18, <1>19, <1>20
<1>27. \A k \in 1 .. Len(R) + 1 : Q[k].sym \in 0 .. (n + 1) - 1
    BY <1>6, <1>24
<1> QED BY <1>7, <1>11, <1>12, <1>14, <1>16, <1>22, <1>23, <1>24, <1>25, <1>26, <1>27 DEF SlotsGood

\* As long as .dynsym is in one chunk, its count is the number of its symbols.
SymbolsGood(t, p) ==
  t.D[".dynsym"] = Len(t.dynsym) /\ Len(t.dynsym) >= 1 /\ SlotsGood(t, p)

LEMMA NotLonger ==
  ASSUME NEW t \in TableRecords, NEW u \in TableRecords, NEW n \in DynamicNames, u.chunks[n] = <<>>
  PROVE  ~Longer(t, u, n)
<1>1. PICK c \in Seq(Nat) : c = t.chunks[n]
    BY Parts
<1>2. Len(c) \in Nat
    OBVIOUS
<1>3. PICK k \in Nat : k = Len(c)
    BY <1>2
<1>4. Len(u.chunks[n]) = 0
    OBVIOUS
<1>5. ~(0 > k)
    OBVIOUS
<1> QED BY <1>1, <1>3, <1>4, <1>5 DEF Longer

\* A relocation of an input section is in front of .plt.got.
LEMMA InputRela ==
  ASSUME NEW t \in TableRecords, NEW u \in TableRecords, NEW p \in Nat, NEW a \in Nat, a <= p,
         NEW sym \in Nat, sym < Len(u.dynsym), RelaAdds(t, u, a, sym)
  PROVE  RelaKept(t, u, p)
<1>1. Base \in Nat
    BY LayoutAssumption
<1>2. PICK o \in Int : o = a - Base
    BY <1>1
<1>3. PICK e \in Relas : e = [offset |-> o, sym |-> sym]
  <2>1. sym \in Int
      OBVIOUS
  <2>2. [offset |-> o, sym |-> sym] \in Relas
      BY <2>1 DEF Relas
  <2> QED BY <2>2
<1>4. e.offset + Base <= p
  <2>1. o + Base = a
      BY <1>1, <1>2
  <2>2. e.offset + Base = a
      BY <1>3, <2>1
  <2> QED BY <2>2
<1>5. u.rela = Append(t.rela, e)
  <2>1. u.rela = Append(t.rela, [offset |-> a - Base, sym |-> sym])
      BY DEF RelaAdds
  <2> QED BY <1>2, <1>3, <2>1
<1>6. e.sym \in 0 .. Len(u.dynsym) - 1
  <2>1. PICK m \in Nat : m = Len(u.dynsym)
    <3>1. PICK y \in Seq(SymbolNames) : y = u.dynsym
        BY Parts
    <3>2. Len(y) \in Nat
        OBVIOUS
    <3> QED BY <3>1, <3>2
  <2>2. sym < m
      BY <2>1
  <2>3. sym \in 0 .. m - 1
      BY <2>2
  <2>4. e.sym = sym
      BY <1>3
  <2> QED BY <2>1, <2>3, <2>4
<1> QED BY <1>4, <1>5, <1>6 DEF RelaKept

\* A symbol goes behind the others.
LEMMA SymbolBehind ==
  ASSUME NEW t \in TableRecords, NEW u \in TableRecords, NEW name \in Names,
         u.dynsym = Append(t.dynsym, name)
  PROVE  /\ SymsKept(t, u) /\ Len(u.dynsym) = Len(t.dynsym) + 1 /\ Len(t.dynsym) \in Nat
         /\ Len(u.dynsym) >= 1
<1>1. PICK y \in Seq(SymbolNames) : y = t.dynsym
    BY Parts
<1>2. PICK z : z = Append(y, name)
    OBVIOUS
<1>3. name \in SymbolNames
    BY DEF SymbolNames
<1>4. /\ Len(z) = Len(y) + 1 /\ (\A i \in 1 .. Len(y) : z[i] = y[i]) /\ Len(y) \in Nat
    BY <1>2, <1>3, AppendProperties
<1>5. Len(z) >= Len(y) /\ Len(z) >= 1
    BY <1>4
<1>6. u.dynsym = z
    BY <1>1, <1>2
<1> QED BY <1>1, <1>4, <1>5, <1>6 DEF SymsKept

\* What a step leaves of the symbols, slots and relocations while .dynsym is in
\* one chunk.
LEMMA SymbolsKept ==
  ASSUME NEW t \in TableRecords, NEW u \in TableRecords, NEW p \in Nat, NEW S,
         \A a \in S : a \in Nat /\ a <= p, SymbolStep(t, u, p, S), u.chunks[".dynsym"] = <<>>
  PROVE  t.chunks[".dynsym"] = <<>> /\ (SymbolsGood(t, p) => SymbolsGood(u, p))
<1>0. u \in TableRecords /\ SymbolStep(t, u, p, S)
    OBVIOUS
<1>1. ~Longer(t, u, ".dynsym")
    BY <1>0, Sections, NotLonger
<1>2. CASE /\ SymStays(t, u) /\ SlotsStay(t, u)
           /\ u.rela = t.rela \/ \E a \in S : RelaAdds(t, u, a, 0)
  <2>1. u.dynsym = t.dynsym /\ Same(t, u, ".dynsym")
      BY <1>2 DEF SymStays
  <2>2. SlotsStay(t, u) /\ (u.rela = t.rela \/ \E a \in S : RelaAdds(t, u, a, 0))
      BY <1>2
  <2>3. t.chunks[".dynsym"] = <<>>
      BY <2>1 DEF Same
  <2>4. SUFFICES ASSUME SymbolsGood(t, p) PROVE SymbolsGood(u, p)
      BY <2>3
  <2>5. SlotsGood(t, p) /\ u.D[".dynsym"] = Len(u.dynsym) /\ Len(u.dynsym) >= 1
      BY <2>1, <2>4 DEF SymbolsGood, Same
  <2>6. SymsKept(t, u)
    <3>1. PICK y \in Seq(SymbolNames) : y = t.dynsym
        BY Parts
    <3>2. Len(y) >= Len(y)
        OBVIOUS
    <3> QED BY <2>1, <3>1, <3>2 DEF SymsKept
  <2>7. RelaKept(t, u, p)
    <3>1. ASSUME NEW a \in S, RelaAdds(t, u, a, 0) PROVE RelaKept(t, u, p)
      <4>1. a \in Nat /\ a <= p /\ 0 \in Nat
          BY <3>1
      <4>2. 0 < Len(u.dynsym)
          BY <2>5
      <4> QED BY <1>0, <3>1, <4>1, <4>2, InputRela
    <3> QED BY <2>2, <3>1 DEF RelaKept
  <2>8. SlotsGood(u, p)
      BY <1>0, <2>2, <2>5, <2>6, <2>7, SlotsKept
  <2> QED BY <2>5, <2>8 DEF SymbolsGood
<1>3. ASSUME NEW name \in Names, SymAdds(t, u, name),
             \/ SlotsStay(t, u) /\ u.rela = t.rela
             \/ SlotsStay(t, u) /\ \E a \in S : RelaAdds(t, u, a, u.D[".dynsym"] - 1)
             \/ /\ SlotAdds(t, u, name, p)
                /\ RelaAdds(t, u, p + t.D[".plt.got"] * PltSize + 8, u.D[".dynsym"] - 1)
      PROVE  t.chunks[".dynsym"] = <<>> /\ (SymbolsGood(t, p) => SymbolsGood(u, p))
  <2>1. u.dynsym = Append(t.dynsym, name) /\ Counts(t, u, ".dynsym", 1)
      BY <1>1, <1>3 DEF SymAdds
  <2>2. t.chunks[".dynsym"] = <<>>
      BY <2>1 DEF Counts
  <2>3. SUFFICES ASSUME SymbolsGood(t, p) PROVE SymbolsGood(u, p)
      BY <2>2
  <2>4. PICK n \in Nat : n = Len(t.dynsym)
      BY <1>0, <1>3, <2>1, SymbolBehind
  <2>5. SymsKept(t, u) /\ Len(u.dynsym) = n + 1
      BY <1>0, <1>3, <2>1, <2>4, SymbolBehind
  <2>6. u.D[".dynsym"] = n + 1
      BY <2>1, <2>3, <2>4 DEF SymbolsGood, Counts
  <2>7. u.D[".dynsym"] = Len(u.dynsym) /\ Len(u.dynsym) >= 1
      BY <2>5, <2>6
  <2>8. SlotsGood(t, p) /\ t.D[".dynsym"] = Len(t.dynsym)
      BY <2>3 DEF SymbolsGood
  <2>9. CASE SlotsStay(t, u) /\ u.rela = t.rela
    <3>1. RelaKept(t, u, p)
        BY <2>9 DEF RelaKept
    <3>2. SlotsGood(u, p)
        BY <1>0, <2>5, <2>8, <2>9, <3>1, SlotsKept
    <3> QED BY <2>7, <3>2 DEF SymbolsGood
  <2>10. ASSUME SlotsStay(t, u), NEW a \in S, RelaAdds(t, u, a, u.D[".dynsym"] - 1)
         PROVE  SymbolsGood(u, p)
    <3>1. n + 1 - 1 = n /\ n < n + 1
        OBVIOUS
    <3>2. RelaAdds(t, u, a, n)
        BY <2>6, <2>10, <3>1
    <3>3. a \in Nat /\ a <= p
        BY <2>10
    <3>4. n < Len(u.dynsym)
        BY <2>5, <3>1
    <3>5. RelaKept(t, u, p)
        BY <1>0, <3>2, <3>3, <3>4, InputRela
    <3>6. SlotsGood(u, p)
        BY <1>0, <2>5, <2>8, <2>10, <3>5, SlotsKept
    <3> QED BY <2>7, <3>6 DEF SymbolsGood
  <2>11. CASE /\ SlotAdds(t, u, name, p)
              /\ RelaAdds(t, u, p + t.D[".plt.got"] * PltSize + 8, u.D[".dynsym"] - 1)
    <3>1. SlotRela(t, u, p)
        BY <2>11 DEF SlotRela
    <3>2. SlotsGood(u, p)
        BY <1>0, <1>3, <2>1, <2>8, <2>11, <3>1, SlotAdded
    <3> QED BY <2>7, <3>2 DEF SymbolsGood
  <2> QED BY <1>3, <2>9, <2>10, <2>11
<1> QED BY <1>0, <1>2, <1>3 DEF SymbolStep

----------------------------------------------------------------------------
(* The steps of do_elf_task                                                *)

LEMMA Becomes ==
  ASSUME NEW t \in TableRecords, Become(t)
  PROVE  Tables' = t
<1>1. Tables' = [D |-> D', chunks |-> chunks', strs |-> strs', dynsym |-> dynsym', rela |-> rela',
                 slots |-> slots']
    BY DEF Tables
<1>2. t = [D |-> t.D, chunks |-> t.chunks, strs |-> t.strs, dynsym |-> t.dynsym, rela |-> t.rela,
           slots |-> t.slots]
    BY DEF TableRecords
<1> QED BY <1>1, <1>2 DEF Become

LEMMA DynamicEffect ==
  ASSUME NEW t \in TableRecords, NEW u, u = [t EXCEPT !.D[".dynamic"] = @ + 1]
  PROVE  /\ u \in TableRecords /\ Others(t, u, ".dynamic") /\ Counts(t, u, ".dynamic", 1)
         /\ u.strs = t.strs /\ u.dynsym = t.dynsym /\ u.rela = t.rela /\ u.slots = t.slots
<1>1. ".dynamic" \in DynamicNames
    BY Sections
<1> QED BY <1>1, AddEffect

\* A library's name goes into .dynstr and .dynamic counts one more.
LEMMA DtNeededStep ==
  ASSUME NEW t \in TableRecords, NEW len \in Nat \ {0}, NEW p, NEW S,
         NEW u, u = [add_dynstr_entry(t, "library", len) EXCEPT !.D[".dynamic"] = @ + 1]
  PROVE  /\ u \in TableRecords /\ SymbolStep(t, u, p, S)
         /\ StrAdds(t, u, "library", len) /\ Counts(t, u, ".dynamic", 1)
<1>1. PICK v : v = add_dynstr_entry(t, "library", len)
    OBVIOUS
<1>2. /\ v \in TableRecords /\ Others(t, v, ".dynstr") /\ StrAdds(t, v, "library", len)
      /\ v.dynsym = t.dynsym /\ v.rela = t.rela /\ v.slots = t.slots
  <2>1. "library" \in StringNames /\ len \in Nat
      BY DEF StringNames
  <2> QED BY <1>1, <2>1, StrEffect DEF StrAdds
<1>3. PICK w : w = [v EXCEPT !.D[".dynamic"] = @ + 1]
    OBVIOUS
<1>4. /\ w \in TableRecords /\ Others(v, w, ".dynamic") /\ Counts(v, w, ".dynamic", 1)
      /\ w.strs = v.strs /\ w.dynsym = v.dynsym /\ w.rela = v.rela /\ w.slots = v.slots
    BY <1>2, <1>3, DynamicEffect
<1>5. /\ Same(t, v, ".dynsym") /\ Same(v, w, ".dynsym") /\ Same(t, v, ".plt.got") /\ Same(v, w, ".plt.got")
      /\ Same(t, v, ".dynamic") /\ Same(v, w, ".dynstr")
    BY <1>2, <1>4, Sections, OthersSame
<1>6. SymStays(t, w) /\ SlotsStay(t, w) /\ w.rela = t.rela
    BY <1>2, <1>4, <1>5 DEF SymStays, SlotsStay, Same
<1>7. StrAdds(t, w, "library", len)
    BY <1>2, <1>4, <1>5 DEF StrAdds, Same, Longer, Counts
<1>8. Counts(t, w, ".dynamic", 1)
    BY <1>4, <1>5 DEF Same, Counts
<1>9. u = w
    BY <1>1, <1>3
<1> QED BY <1>4, <1>6, <1>7, <1>8, <1>9 DEF SymbolStep

\* An exported symbol also takes four bytes of .gnu.hash.
LEMMA ExportStep ==
  ASSUME NEW t \in TableRecords, NEW name \in Names, NEW p, NEW S,
         NEW v, v = add_dynsym_entry(add_dynstr_entry(t, name, Length[name]), name),
         NEW u, u = [v EXCEPT !.D[".gnu.hash"] = @ + 4]
  PROVE  TableStep(t, u, p, S)
<1>1. PICK w : w = v
    OBVIOUS
<1>2. /\ w \in TableRecords /\ SymAdds(t, w, name) /\ StringStep(t, w)
      /\ \A d \in DynamicNames \ {".dynsym", ".dynstr"} : Same(t, w, d)
      /\ w.rela = t.rela /\ w.slots = t.slots
    BY <1>1, NamedSymbol
<1>3. PICK x : x = [w EXCEPT !.D[".gnu.hash"] = @ + 4]
    OBVIOUS
<1>4. /\ x \in TableRecords /\ Others(w, x, ".gnu.hash")
      /\ x.strs = w.strs /\ x.dynsym = w.dynsym /\ x.rela = w.rela /\ x.slots = w.slots
    BY <1>2, <1>3, Sections, AddEffect
<1>5. /\ Same(w, x, ".dynsym") /\ Same(w, x, ".dynstr") /\ Same(w, x, ".plt.got") /\ Same(w, x, ".dynamic")
      /\ Same(t, w, ".plt.got") /\ Same(t, w, ".dynamic")
    BY <1>2, <1>4, Sections, OthersSame
<1>6. SymAdds(t, x, name) /\ SlotsStay(t, x) /\ Same(t, x, ".dynamic") /\ x.rela = t.rela
    BY <1>2, <1>4, <1>5 DEF SymAdds, SlotsStay, Same, Longer, Counts
<1>7. StringStep(t, x)
  <2>1. CASE w.strs = t.strs /\ Same(t, w, ".dynstr")
      BY <1>4, <1>5, <2>1 DEF StringStep, Same
  <2>2. ASSUME NEW m \in StringNames, NEW len \in Nat \ {0}, StrAdds(t, w, m, len)
        PROVE  StringStep(t, x)
    <3>1. StrAdds(t, x, m, len)
        BY <1>4, <1>5, <2>2 DEF StrAdds, Same, Longer, Counts
    <3> QED BY <2>2, <3>1 DEF StringStep
  <2> QED BY <1>2, <2>1, <2>2 DEF StringStep
<1>8. u = x
    BY <1>1, <1>3
<1> QED BY <1>4, <1>6, <1>7, <1>8 DEF TableStep, SymbolStep

\* Nothing happens to the tables.
LEMMA NoTableStep ==
  ASSUME NEW t \in TableRecords, NEW p, NEW S
  PROVE  TableStep(t, t, p, S)
  BY DEF TableStep, SymbolStep, SymStays, SlotsStay, StringStep, Same

\* Every kind of relocation do_reloc resolves.
LEMMA RelocStep ==
  ASSUME Tables \in TableRecords, pltgot \in Nat, vaddr \in Seq(Nat), do_reloc
  PROVE  /\ pc = "relocs" /\ pc' \in {"relocs", "spin"} /\ UNCHANGED <<layout, result, file>>
         /\ TableStep(Tables, Tables', pltgot, {vaddr[i] : i \in 1 .. Len(vaddr)})
<1>1. PICK S : S = {vaddr[i] : i \in 1 .. Len(vaddr)}
    OBVIOUS
<1>2. PICK t \in TableRecords : t = Tables
    OBVIOUS
<1> DEFINE Goal ==
      /\ pc = "relocs" /\ pc' \in {"relocs", "spin"} /\ UNCHANGED <<layout, result, file>>
      /\ TableStep(t, Tables', pltgot, S)
<1>3. ASSUME NEW u, Reloc(u), TableStep(t, u, pltgot, S) PROVE Goal
  <2>1. u \in TableRecords
      BY <1>3 DEF TableStep
  <2>2. Tables' = u
      BY <1>3, <2>1, Becomes DEF Reloc
  <2> QED BY <1>3, <2>2 DEF Reloc
<1>4. TableStep(t, t, pltgot, S)
    BY NoTableStep
<1>5. ASSUME NEW name \in Names PROVE TableStep(t, NewSlot(name), pltgot, S)
    BY <1>2, NewSlotStep
<1> HIDE DEF Goal
<1>6. ASSUME NEW name \in Names, ResolveCall(name) PROVE Goal
  <2>1. Reloc(t) \/ Reloc(NewSlot(name))
      BY <1>2, <1>6 DEF ResolveCall
  <2> QED BY <1>3, <1>4, <1>5, <2>1
<1>7. ASSUME NEW name \in Names, ResolveGot(name) PROVE Goal
    BY <1>3, <1>5, <1>7 DEF ResolveGot
<1>8. ASSUME NEW i \in 1 .. Len(vaddr) PROVE vaddr[i] \in S /\ vaddr[i] \in Nat
  <2>1. vaddr[i] \in S
      BY <1>1, <1>8
  <2>2. vaddr[i] \in Nat
      BY <1>8, ElementOfSeq
  <2> QED BY <2>1, <2>2
<1>9. ASSUME NEW name \in Names, NEW i \in 1 .. Len(vaddr), ResolveData(name, vaddr[i]) PROVE Goal
  <2>1. PICK a : a = vaddr[i]
      OBVIOUS
  <2>2. a \in S /\ a \in Nat
      BY <1>8, <1>9, <2>1
  <2>3. PICK v : v = add_dynsym_entry(add_dynstr_entry(t, name, Length[name]), name)
      OBVIOUS
  <2>4. PICK u : u = add_rela_plt_entry(v, a, v.D[".dynsym"] - 1)
      OBVIOUS
  <2>5. TableStep(t, u, pltgot, S)
      BY <1>9, <2>2, <2>3, <2>4, DataStep
  <2>6. Reloc(u)
    <3>1. ResolveData(name, a)
        BY <1>9, <2>1
    <3> QED BY <1>2, <2>3, <2>4, <3>1 DEF ResolveData
  <2> QED BY <1>3, <2>5, <2>6
<1>10. ASSUME NEW i \in 1 .. Len(vaddr), ResolveRelative(vaddr[i]) PROVE Goal
  <2>1. PICK a : a = vaddr[i]
      OBVIOUS
  <2>2. a \in S /\ a \in Count
      BY <1>8, <1>10, <2>1 DEF Count
  <2>3. PICK z \in Index : z = 0
      BY DEF Index
  <2>4. PICK u : u = add_rela_plt_entry(t, a, z)
      OBVIOUS
  <2>5. /\ u \in TableRecords /\ RelaAdds(t, u, a, z)
        /\ \A d \in DynamicNames \ {".rela.plt"} : Same(t, u, d)
        /\ u.strs = t.strs /\ u.dynsym = t.dynsym /\ u.slots = t.slots
      BY <2>2, <2>4, RelaStep
  <2>6. TableStep(t, u, pltgot, S)
    <3>1. Same(t, u, ".dynamic") /\ Same(t, u, ".dynsym") /\ Same(t, u, ".dynstr") /\ Same(t, u, ".plt.got")
        BY <2>5, Sections
    <3>2. \E b \in S : RelaAdds(t, u, b, 0)
        BY <2>2, <2>3, <2>5
    <3> QED BY <2>5, <3>1, <3>2, PlainStep
  <2>7. Reloc(u)
    <3>1. ResolveRelative(a)
        BY <1>10, <2>1
    <3> QED BY <1>2, <2>3, <2>4, <3>1 DEF ResolveRelative
  <2> QED BY <1>3, <2>6, <2>7
<1>11. ASSUME NEW u \in TableRecords, NEW n \in {".init_array", ".fini_array"}, Others(t, u, n),
              u.strs = t.strs, u.dynsym = t.dynsym, u.rela = t.rela, u.slots = t.slots
       PROVE  TableStep(t, u, pltgot, S)
  <2>1. Same(t, u, ".dynamic") /\ Same(t, u, ".dynsym") /\ Same(t, u, ".dynstr") /\ Same(t, u, ".plt.got")
      BY <1>11, Sections, OthersSame
  <2> QED BY <1>11, <2>1, PlainStep
<1>12. ASSUME NEW name \in Names, add_init_array(name) PROVE Goal
  <2>1. PICK u : u = Grow(t, ".init_array", 8)
      OBVIOUS
  <2>2. /\ u \in TableRecords /\ Others(t, u, ".init_array")
        /\ u.strs = t.strs /\ u.dynsym = t.dynsym /\ u.rela = t.rela /\ u.slots = t.slots
    <3>1. ".init_array" \in DynamicNames /\ 8 \in Nat
        BY Sections
    <3> QED BY <2>1, <3>1, GrowEffect
  <2>3. Reloc(u)
      BY <1>2, <1>12, <2>1 DEF add_init_array
  <2> QED BY <1>3, <1>11, <2>2, <2>3
<1>13. ASSUME NEW name \in Names, add_fini_array(name) PROVE Goal
  <2>1. PICK u : u = [t EXCEPT !.D[".fini_array"] = @ + 8]
      OBVIOUS
  <2>2. /\ u \in TableRecords /\ Others(t, u, ".fini_array")
        /\ u.strs = t.strs /\ u.dynsym = t.dynsym /\ u.rela = t.rela /\ u.slots = t.slots
      BY <2>1, Sections, AddEffect
  <2>3. Reloc(u)
      BY <1>2, <1>13, <2>1 DEF add_fini_array
  <2> QED BY <1>3, <1>11, <2>2, <2>3
<1>14. ASSUME ResolveSkipped PROVE Goal
    BY <1>2, <1>3, <1>4, <1>14 DEF ResolveSkipped
<1>15. ASSUME ResolveSpins PROVE Goal
  <2>1. Tables' = t /\ pc = "relocs" /\ pc' = "spin" /\ UNCHANGED <<layout, result, file>>
      BY <1>2, <1>15 DEF ResolveSpins, Tables, tables
  <2> QED BY <1>4, <2>1 DEF Goal
<1>16. Goal
  <2>1. DOMAIN vaddr = 1 .. Len(vaddr)
      OBVIOUS
  <2> QED BY <1>6, <1>7, <1>9, <1>10, <1>12, <1>13, <1>14, <1>15, <2>1 DEF do_reloc
<1> QED BY <1>1, <1>2, <1>16 DEF Goal

----------------------------------------------------------------------------
(* The slots and their relocations                                         *)

SymbolsInv ==
  IF pc = "addresses"
    THEN dynsym = <<>> /\ slots = <<>> /\ rela = <<>> /\ D[".plt.got"] = 0
    ELSE OneChunk(".dynsym") => SymbolsGood(Tables, pltgot)

SlotsAllInv == Tables \in TableRecords /\ Below /\ SymbolsInv

LEMMA InitSlots == Init => SlotsAllInv
<1> SUFFICES ASSUME Init PROVE SlotsAllInv
    OBVIOUS
<1>1. /\ D \in [DynamicNames -> Nat] /\ chunks \in [DynamicNames -> Seq(Nat)]
      /\ strs \in Seq(Strings) /\ dynsym \in Seq(SymbolNames)
      /\ rela \in Seq([offset : Int, sym : Int]) /\ slots \in Seq([name : Names, r : Nat])
    BY DEF Init
<1>2. Tables \in TableRecords
    BY <1>1 DEF Tables, TableRecords
<1>3. Below
    BY DEF Init, Below
<1>4. SymbolsInv
    BY Sections DEF Init, SymbolsInv
<1> QED BY <1>2, <1>3, <1>4 DEF SlotsAllInv

\* Nothing else of the tables matters.
LEMMA SymbolsGoodSame ==
  ASSUME NEW t, NEW u, NEW p, u.D = t.D, u.dynsym = t.dynsym, u.rela = t.rela, u.slots = t.slots,
         SymbolsGood(t, p)
  PROVE  SymbolsGood(u, p)
  BY DEF SymbolsGood, SlotsGood, Fills

\* The tables a step leaves, and what it does to the addresses.
LEMMA TablesStep ==
  ASSUME LayoutInv, SlotsAllInv, [Next]_vars
  PROVE  \/ /\ pc = "addresses" /\ pc' = "addresses" /\ Tables' = Tables
            /\ SetVirtualAddress \/ UNCHANGED layout
         \/ add_dynamic
         \/ /\ pc \in {"libraries", "exports", "relocs"} /\ pc' \notin {"addresses", "emit", "done"}
            /\ UNCHANGED layout /\ Tables' \in TableRecords
            /\ SymbolStep(Tables, Tables', pltgot, {vaddr[i] : i \in 1 .. Len(vaddr)})
         \/ /\ pc # "addresses" /\ pc' # "addresses" /\ UNCHANGED layout /\ Tables' = Tables
            /\ pc \in {"emit", "done"} <=> pc' \in {"emit", "done"}
         \/ SetEntries
<1>1. Tables \in TableRecords /\ pltgot \in Nat /\ vaddr \in Seq(Nat) /\ at \in Nat \ {0}
    BY DEF SlotsAllInv, LayoutInv, LayoutTypes
<1>2. CASE SetVirtualAddress
    BY <1>2 DEF SetVirtualAddress, Tables, tables
<1>3. CASE add_dt_needed
  <2>1. PICK len \in Nat \ {0} : len = Libraries[at]
    <3>1. at \in 1 .. Len(Libraries)
        BY <1>1, <1>3, LayoutAssumption DEF add_dt_needed
    <3> QED BY <3>1, LayoutAssumption, ElementOfSeq
  <2>2. PICK u : u = [add_dynstr_entry(Tables, "library", len) EXCEPT !.D[".dynamic"] = @ + 1]
      OBVIOUS
  <2>3. /\ u \in TableRecords
        /\ SymbolStep(Tables, u, pltgot, {vaddr[i] : i \in 1 .. Len(vaddr)})
      BY <1>1, <2>2, DtNeededStep
  <2>4. Become(u) /\ pc = "libraries" /\ pc' = "libraries" /\ UNCHANGED layout
      BY <1>3, <2>1, <2>2 DEF add_dt_needed
  <2>5. Tables' = u
      BY <2>3, <2>4, Becomes
  <2> QED BY <2>3, <2>4, <2>5
<1>4. ASSUME NEW name \in Names, add_export_symbol(name)
      PROVE  /\ pc = "exports" /\ pc' = "exports" /\ UNCHANGED layout
             /\ TableStep(Tables, Tables', pltgot, {vaddr[i] : i \in 1 .. Len(vaddr)})
  <2>1. PICK v : v = add_dynsym_entry(add_dynstr_entry(Tables, name, Length[name]), name)
      OBVIOUS
  <2>2. PICK u : u = [v EXCEPT !.D[".gnu.hash"] = @ + 4]
      OBVIOUS
  <2>3. TableStep(Tables, u, pltgot, {vaddr[i] : i \in 1 .. Len(vaddr)})
      BY <1>1, <1>4, <2>1, <2>2, ExportStep
  <2>4. Become(u) /\ pc = "exports" /\ pc' = "exports" /\ UNCHANGED layout
      BY <1>4, <2>1, <2>2 DEF add_export_symbol
  <2>5. Tables' = u
      BY <2>3, <2>4, Becomes DEF TableStep
  <2> QED BY <2>3, <2>4, <2>5
<1>5. CASE do_reloc
  <2>1. /\ pc = "relocs" /\ pc' \in {"relocs", "spin"} /\ UNCHANGED layout
        /\ TableStep(Tables, Tables', pltgot, {vaddr[i] : i \in 1 .. Len(vaddr)})
      BY <1>1, <1>5, RelocStep
  <2> QED BY <2>1 DEF TableStep
<1>6. CASE LibrariesEnd \/ ExportsEnd \/ RelocsEnd \/ SetNeeded \/ WriteInput \/ WriteDynamic \/ WriteEnd
    BY <1>6 DEF LibrariesEnd, ExportsEnd, RelocsEnd, SetNeeded, WriteInput, WriteDynamic, WriteEnd,
                Tables, tables
<1>7. CASE UNCHANGED vars
    BY <1>7 DEF vars, Tables, tables
<1> QED BY <1>2, <1>3, <1>4, <1>5, <1>6, <1>7 DEF Next, Stop, TableStep

\* No section starts behind the end of what is laid out.
LaysOut == SetVirtualAddress \/ UNCHANGED <<vaddr, virtual_address_offset, sc_size>>

LEMMA BelowKeeps ==
  ASSUME LayoutInv, LayoutInv', Below, LaysOut
  PROVE  Below'
<1>1. CASE UNCHANGED <<vaddr, virtual_address_offset, sc_size>>
    BY <1>1 DEF Below
<1>2. CASE SetVirtualAddress
  <2>1. /\ at \in Nat \ {0} /\ vaddr \in Seq(Nat) /\ virtual_address_offset \in Nat /\ sc_size \in Nat
        /\ Len(input) \in Nat
      BY DEF LayoutInv, LayoutTypes
  <2>2. at \in 1 .. Len(input) /\ vaddr' = Append(vaddr, virtual_address_offset + sc_size)
      BY <1>2, <2>1 DEF SetVirtualAddress
  <2>3. PICK size \in Nat : size = input[at].size
      BY <2>2 DEF LayoutInv, LayoutTypes
  <2>4. PICK x \in Nat : x = virtual_address_offset + sc_size
      BY <2>1
  <2>5. PICK y \in Nat : y = virtual_address_offset' + sc_size'
    <3>1. virtual_address_offset' \in Nat /\ sc_size' \in Nat
        BY DEF LayoutInv, LayoutTypes
    <3>2. PICK v \in Nat : v = virtual_address_offset'
        BY <3>1
    <3>3. PICK s \in Nat : s = sc_size'
        BY <3>1
    <3>4. PICK y \in Nat : y = v + s
        OBVIOUS
    <3> QED BY <3>2, <3>3, <3>4
  <2>6. y = x + size
    <3>1. CASE LastOfContainer(at)
      <4>1. virtual_address_offset' = virtual_address_offset + sc_size + size /\ sc_size' = 0
          BY <1>2, <2>3, <3>1 DEF SetVirtualAddress
      <4> QED BY <2>1, <2>4, <2>5, <4>1
    <3>2. CASE ~LastOfContainer(at)
      <4>1. virtual_address_offset' = virtual_address_offset /\ sc_size' = sc_size + size
          BY <1>2, <2>3, <3>2 DEF SetVirtualAddress
      <4> QED BY <2>1, <2>4, <2>5, <4>1
    <3> QED BY <3>1, <3>2
  <2>7. x <= y
      BY <2>6
  <2>8. vaddr' = Append(vaddr, x)
      BY <2>2, <2>4
  <2>9. ASSUME NEW i \in 1 .. Len(vaddr') PROVE vaddr'[i] <= y
    <3>1. Len(vaddr') = Len(vaddr) + 1 /\ Len(vaddr) \in Nat /\ vaddr'[Len(vaddr) + 1] = x
          /\ \A k \in 1 .. Len(vaddr) : vaddr'[k] = vaddr[k]
        BY <2>1, <2>8
    <3>2. i \in 1 .. Len(vaddr) \/ i = Len(vaddr) + 1
        BY <2>9, <3>1
    <3>3. CASE i = Len(vaddr) + 1
        BY <2>7, <3>1, <3>3
    <3>4. CASE i \in 1 .. Len(vaddr)
      <4>1. PICK z \in Nat : z = vaddr[i]
          BY <2>1, <3>4, ElementOfSeq
      <4>2. z <= x
          BY <2>4, <3>4, <4>1 DEF Below
      <4>3. z <= y
          BY <2>7, <4>2
      <4> QED BY <3>1, <3>4, <4>1, <4>3
    <3> QED BY <3>2, <3>3, <3>4
  <2> QED BY <2>5, <2>9 DEF Below
<1> QED BY <1>1, <1>2 DEF LaysOut

\* A section that is in one chunk has no chunk that is closed, and set_dynanmic
\* closes one.
LEMMA OneChunkEmpty ==
  ASSUME LayoutInv, NEW n \in DynamicNames
  PROVE  /\ pc \notin {"emit", "done"} => (OneChunk(n) <=> chunks[n] = <<>>)
         /\ SetEntries /\ OneChunk(n)' => OneChunk(n)
<1>1. PICK c \in Seq(Nat) : c = chunks[n]
    BY DEF LayoutInv, LayoutTypes
<1>2. Len(c) \in Nat /\ (Len(c) <= 0 <=> c = <<>>)
    OBVIOUS
<1>3. ASSUME SetEntries, OneChunk(n)' PROVE OneChunk(n)
  <2>1. chunks'[n] = Append(c, LastSize(n)) /\ pc = "dynamic" /\ pc' = "emit"
      BY <1>1, <1>3 DEF SetEntries
  <2>2. PICK x : x = LastSize(n)
      OBVIOUS
  <2>3. Len(Append(c, x)) = Len(c) + 1
      OBVIOUS
  <2>4. Len(c) + 1 <= 1
      BY <1>3, <2>1, <2>2, <2>3 DEF OneChunk
  <2>5. Len(c) <= 0
      BY <1>2, <2>4
  <2> QED BY <1>1, <2>1, <2>5 DEF OneChunk
<1> QED BY <1>1, <1>2, <1>3 DEF OneChunk

Fresh(u) ==
  /\ u.dynsym = <<"">> /\ u.slots = <<>> /\ u.rela = <<>>
  /\ u.D[".dynsym"] = 1 /\ u.D[".plt.got"] = 0

LEMMA EmptyTables ==
  ASSUME NEW u, NEW p, Fresh(u)
  PROVE  SymbolsGood(u, p)
<1>1. Len(u.slots) = 0 /\ Len(u.rela) = 0 /\ Len(u.dynsym) = 1
    BY DEF Fresh
<1>2. 1 .. 0 = {}
    OBVIOUS
<1>3. 1 .. Len(u.slots) = {} /\ 1 .. Len(u.rela) = {}
    BY <1>1, <1>2
<1>4. /\ \A i \in 1 .. Len(u.slots) : FALSE
      /\ \A k \in 1 .. Len(u.rela) : FALSE
    BY <1>3
<1>5. Len(u.slots) = u.D[".plt.got"] /\ u.D[".dynsym"] = Len(u.dynsym)
    BY <1>1 DEF Fresh
<1>6. SlotsGood(u, p)
    BY <1>4, <1>5 DEF SlotsGood
<1>7. Len(u.dynsym) >= 1
    BY <1>1
<1> QED BY <1>5, <1>6, <1>7 DEF SymbolsGood

LEMMA SlotsAllKeeps ==
  ASSUME LayoutInv, LayoutInv', SlotsAllInv, [Next]_vars
  PROVE  SlotsAllInv'
<1>1. /\ Tables \in TableRecords /\ Below /\ SymbolsInv /\ pltgot \in Nat /\ vaddr \in Seq(Nat)
      /\ virtual_address_offset \in Nat
    BY DEF SlotsAllInv, LayoutInv, LayoutTypes
<1>2. CASE /\ pc = "addresses" /\ pc' = "addresses" /\ Tables' = Tables
           /\ SetVirtualAddress \/ UNCHANGED layout
  <2>1. Below'
      BY <1>1, <1>2, BelowKeeps DEF LaysOut, layout
  <2>2. UNCHANGED <<dynsym, slots, rela, D>>
      BY <1>2 DEF Tables
  <2> QED BY <1>1, <1>2, <2>1, <2>2 DEF SlotsAllInv, SymbolsInv
<1>3. CASE add_dynamic
  <2>1. /\ pc = "addresses" /\ pc' = "libraries" /\ dynsym' = <<"">>
        /\ D' = [D EXCEPT ![".gnu.hash"] = GnuHashSize, ![".dynstr"] = 1, ![".dynsym"] = 1]
        /\ UNCHANGED <<vaddr, virtual_address_offset, sc_size, chunks, strs, rela, slots>>
      BY <1>3 DEF add_dynamic
  <2>2. Below'
      BY <1>1, <2>1, BelowKeeps DEF LaysOut
  <2>3. D \in [DynamicNames -> Nat] /\ slots = <<>> /\ rela = <<>> /\ D[".plt.got"] = 0
      BY <1>1, <2>1 DEF SymbolsInv, LayoutInv, LayoutTypes
  <2>4. D' \in [DynamicNames -> Nat] /\ D'[".dynsym"] = 1 /\ D'[".plt.got"] = 0
      BY <2>1, <2>3, Sections, LayoutAssumption
  <2>5. Tables' \in TableRecords
    <3>1. dynsym' \in Seq(SymbolNames)
      <4>1. "" \in SymbolNames
          BY DEF SymbolNames
      <4>2. PICK e \in SymbolNames : e = ""
          BY <4>1
      <4>3. <<e>> \in Seq(SymbolNames)
          OBVIOUS
      <4> QED BY <2>1, <4>2, <4>3
    <3>2. [D |-> D', chunks |-> chunks, strs |-> strs, dynsym |-> dynsym', rela |-> rela, slots |-> slots]
            \in TableRecords
        BY <1>1, <2>4, <3>1 DEF TableRecords, Tables
    <3> QED BY <2>1, <3>2 DEF Tables
  <2>6. SymbolsGood(Tables', pltgot')
    <3>1. PICK u : u = Tables'
        OBVIOUS
    <3>2. /\ u.dynsym = <<"">> /\ u.slots = <<>> /\ u.rela = <<>>
          /\ u.D[".dynsym"] = 1 /\ u.D[".plt.got"] = 0
        BY <2>1, <2>3, <2>4, <3>1 DEF Tables
    <3> QED BY <3>1, <3>2, EmptyTables DEF Fresh
  <2> QED BY <2>1, <2>2, <2>5, <2>6 DEF SlotsAllInv, SymbolsInv
<1>4. CASE /\ pc \in {"libraries", "exports", "relocs"} /\ pc' \notin {"addresses", "emit", "done"}
           /\ UNCHANGED layout /\ Tables' \in TableRecords
           /\ SymbolStep(Tables, Tables', pltgot, {vaddr[i] : i \in 1 .. Len(vaddr)})
  <2>1. Below' /\ UNCHANGED <<vaddr, pltgot>>
      BY <1>1, <1>4, BelowKeeps DEF LaysOut, layout
  <2>2. PICK S : S = {vaddr[i] : i \in 1 .. Len(vaddr)}
      OBVIOUS
  <2>3. \A a \in S : a \in Nat /\ a <= pltgot
    <3> SUFFICES ASSUME NEW i \in 1 .. Len(vaddr) PROVE vaddr[i] \in Nat /\ vaddr[i] <= pltgot
        BY <2>2
    <3>1. vaddr[i] \in Nat
        BY <1>1, ElementOfSeq
    <3>2. sc_size = 0 /\ pltgot = virtual_address_offset
        BY <1>4 DEF LayoutInv, LayingOut
    <3>3. vaddr[i] <= virtual_address_offset + sc_size
        BY <1>1 DEF Below
    <3> QED BY <1>1, <3>1, <3>2, <3>3
  <2>4. ASSUME OneChunk(".dynsym")' PROVE SymbolsGood(Tables', pltgot)
    <3>1. chunks'[".dynsym"] = <<>>
      <4>1. PICK c \in Seq(Nat) : c = chunks'[".dynsym"]
          BY Sections DEF LayoutInv, LayoutTypes
      <4>2. Len(c) <= 0
          BY <1>4, <2>4, <4>1 DEF OneChunk
      <4>3. c = <<>>
          BY <4>2
      <4> QED BY <4>1, <4>3
    <3>2. PICK u : u = Tables'
        OBVIOUS
    <3>3. u.chunks[".dynsym"] = <<>>
        BY <3>1, <3>2 DEF Tables
    <3>4. Tables.chunks[".dynsym"] = <<>> /\ (SymbolsGood(Tables, pltgot) => SymbolsGood(u, pltgot))
        BY <1>1, <1>4, <2>2, <2>3, <3>2, <3>3, SymbolsKept
    <3>5. OneChunk(".dynsym")
      <4>1. chunks[".dynsym"] = <<>>
          BY <3>4 DEF Tables
      <4> QED BY <1>4, <4>1, Sections, OneChunkEmpty
    <3> QED BY <1>1, <1>4, <3>2, <3>4, <3>5 DEF SymbolsInv
  <2> QED BY <1>4, <2>1, <2>4 DEF SlotsAllInv, SymbolsInv
<1>5. CASE /\ pc # "addresses" /\ pc' # "addresses" /\ UNCHANGED layout /\ Tables' = Tables
           /\ pc \in {"emit", "done"} <=> pc' \in {"emit", "done"}
  <2>1. Below' /\ UNCHANGED <<pltgot, chunks>>
      BY <1>1, <1>5, BelowKeeps DEF LaysOut, layout, Tables
  <2>2. OneChunk(".dynsym")' => OneChunk(".dynsym")
      BY <1>5, <2>1 DEF OneChunk
  <2> QED BY <1>1, <1>5, <2>1, <2>2 DEF SlotsAllInv, SymbolsInv
<1>6. CASE SetEntries
  <2>1. /\ pc = "dynamic" /\ pc' = "emit" /\ UNCHANGED layout
        /\ UNCHANGED <<D, strs, dynsym, rela, slots>>
      BY <1>6 DEF SetEntries
  <2>2. Below' /\ pltgot' = pltgot
      BY <1>1, <2>1, BelowKeeps DEF LaysOut, layout
  <2>3. chunks' \in [DynamicNames -> Seq(Nat)]
      BY DEF LayoutInv, LayoutTypes
  <2>4. Tables' \in TableRecords
    <3>1. [D |-> D, chunks |-> chunks', strs |-> strs, dynsym |-> dynsym, rela |-> rela, slots |-> slots]
            \in TableRecords
        BY <1>1, <2>3 DEF TableRecords, Tables
    <3> QED BY <2>1, <3>1 DEF Tables
  <2>5. ASSUME OneChunk(".dynsym")' PROVE SymbolsGood(Tables', pltgot)
    <3>1. SymbolsGood(Tables, pltgot)
        BY <1>1, <1>6, <2>1, <2>5, Sections, OneChunkEmpty DEF SymbolsInv
    <3>2. PICK u : u = Tables'
        OBVIOUS
    <3>3. PICK t : t = Tables
        OBVIOUS
    <3>4. u.D = t.D /\ u.dynsym = t.dynsym /\ u.rela = t.rela /\ u.slots = t.slots
        BY <2>1, <3>2, <3>3 DEF Tables
    <3> QED BY <3>1, <3>2, <3>3, <3>4, SymbolsGoodSame
  <2> QED BY <2>1, <2>2, <2>4, <2>5 DEF SlotsAllInv, SymbolsInv
<1> QED BY <1>2, <1>3, <1>4, <1>5, <1>6, TablesStep

\* What the invariant says of one link's slots is what the linked program needs.
LEMMA GoodSlots ==
  ASSUME LayoutInv, Tables \in TableRecords, SymbolsGood(Tables, pltgot)
  PROVE  SlotsResolveTheirNames
<1>1. PICK l \in Seq(SlotEntries) : l = slots
    BY Parts DEF Tables, SlotEntries
<1>2. PICK R \in Seq(Relas) : R = rela
    BY Parts DEF Tables, Relas
<1>3. PICK g \in Nat : g = D[".plt.got"]
    BY Sections DEF LayoutInv, LayoutTypes
<1>4. PICK p \in Nat : p = pltgot
    BY DEF LayoutInv, LayoutTypes
<1>5. /\ Len(l) = g
      /\ \A i \in 1 .. Len(l) : l[i].r = p + (i - 1) * 16
      /\ \A i \in 1 .. Len(l) : \E k \in 1 .. Len(R) :
           /\ R[k].offset + Base = l[i].r + 8
           /\ dynsym[R[k].sym + 1] = l[i].name
           /\ \A m \in 1 .. Len(R) : R[m].offset = R[k].offset => m = k
    BY <1>1, <1>2, <1>3, <1>4 DEF SymbolsGood, SlotsGood, Fills, Tables, PltSize
<1>6. Base \in Nat
    BY LayoutAssumption
<1>7. ASSUME NEW i \in 1 .. g PROVE
        /\ \E k \in 1 .. Len(R) :
             /\ R[k].offset = l[i].r + 8 - Base
             /\ dynsym[R[k].sym + 1] = l[i].name
             /\ \A m \in 1 .. Len(R) : R[m].offset = R[k].offset => m = k
        /\ \A j \in 1 .. g : i < j => l[i].r + 16 <= l[j].r
        /\ l[i].r + 16 <= p + g * 16
  <2>1. PICK k \in 1 .. Len(R) :
           /\ R[k].offset + Base = l[i].r + 8
           /\ dynsym[R[k].sym + 1] = l[i].name
           /\ \A m \in 1 .. Len(R) : R[m].offset = R[k].offset => m = k
      BY <1>5, <1>7
  <2>2. PICK e \in Nat : e = i - 1
      OBVIOUS
  <2>3. l[i].r = p + e * 16
      BY <1>5, <1>7, <2>2
  <2>4. PICK x \in Nat : x = p + e * 16
      BY <2>2
  <2>5. R[k].offset = l[i].r + 8 - Base
    <3>1. PICK o \in Int : o = R[k].offset
      <4>1. R[k] \in Relas
          BY <1>2, <2>1, ElementOfSeq
      <4> QED BY <4>1 DEF Relas
    <3>2. l[i].r = x
        BY <2>3, <2>4
    <3>3. o + Base = x + 8
        BY <2>1, <3>1, <3>2
    <3>4. o = x + 8 - Base
        BY <1>6, <3>3
    <3> QED BY <3>1, <3>2, <3>4
  <2>6. ASSUME NEW j \in 1 .. g, i < j PROVE l[i].r + 16 <= l[j].r
    <3>1. l[j].r = p + (j - 1) * 16
        BY <1>5, <2>6
    <3>2. p + e * 16 + 16 <= p + (j - 1) * 16
        BY <2>2, <2>6
    <3> QED BY <2>3, <3>1, <3>2
  <2>7. l[i].r + 16 <= p + g * 16
    <3>1. p + e * 16 + 16 <= p + g * 16
        BY <1>7, <2>2
    <3> QED BY <2>3, <3>1
  <2> QED BY <2>1, <2>5, <2>6, <2>7
<1>8. DOMAIN l = 1 .. g /\ DOMAIN R = 1 .. Len(R)
    BY <1>5
<1>9. DOMAIN slots = 1 .. g /\ DOMAIN rela = 1 .. Len(R)
    BY <1>1, <1>2, <1>8
<1>10. ASSUME NEW i \in DOMAIN slots PROVE
         /\ \E k \in DOMAIN rela :
              /\ rela[k].offset = slots[i].r + 8 - Base
              /\ dynsym[rela[k].sym + 1] = slots[i].name
              /\ \A m \in DOMAIN rela : rela[m].offset = rela[k].offset => m = k
         /\ \A j \in DOMAIN slots : i < j => slots[i].r + PltSize <= slots[j].r
         /\ slots[i].r + PltSize <= pltgot + D[".plt.got"] * PltSize
  <2>1. i \in 1 .. g
      BY <1>9, <1>10
  <2>2. \E k \in DOMAIN rela :
              /\ rela[k].offset = slots[i].r + 8 - Base
              /\ dynsym[rela[k].sym + 1] = slots[i].name
              /\ \A m \in DOMAIN rela : rela[m].offset = rela[k].offset => m = k
    <3>1. \E k \in 1 .. Len(R) :
             /\ R[k].offset = l[i].r + 8 - Base
             /\ dynsym[R[k].sym + 1] = l[i].name
             /\ \A m \in 1 .. Len(R) : R[m].offset = R[k].offset => m = k
        BY <1>7, <2>1
    <3> QED BY <1>1, <1>2, <1>9, <3>1
  <2>3. \A j \in DOMAIN slots : i < j => slots[i].r + 16 <= slots[j].r
    <3>1. \A j \in 1 .. g : i < j => l[i].r + 16 <= l[j].r
        BY <1>7, <2>1
    <3> QED BY <1>1, <1>9, <3>1
  <2>4. slots[i].r + 16 <= pltgot + D[".plt.got"] * 16
    <3>1. l[i].r + 16 <= p + g * 16
        BY <1>7, <2>1
    <3> QED BY <1>1, <1>3, <1>4, <3>1
  <2> QED BY <2>2, <2>3, <2>4 DEF PltSize
<1> QED BY <1>10 DEF SlotsResolveTheirNames

\* Every .plt.got slot has exactly one relocation for its address word, and it
\* names the symbol of the call the slot was made for, whatever is exported and
\* relocated and in whatever order (__z__link__add_dynamic_entry), as long as
\* .dynsym has one chunk (dynamic.c:286).
THEOREM SlotsAreResolved == Spec => []SlotsResolveTheirNames
<1>1. ASSUME LayoutInv, SlotsAllInv PROVE SlotsResolveTheirNames
  <2> SUFFICES ASSUME OneChunk(".dynsym") PROVE SlotsResolveTheirNames
      BY DEF SlotsResolveTheirNames
  <2>1. CASE pc = "addresses"
    <3>1. slots = <<>>
        BY <1>1, <2>1 DEF SlotsAllInv, SymbolsInv
    <3> QED BY <3>1 DEF SlotsResolveTheirNames
  <2>2. CASE pc # "addresses"
      BY <1>1, <2>2, GoodSlots DEF SlotsAllInv, SymbolsInv
  <2> QED BY <2>1, <2>2
<1> QED BY <1>1, InitLayout, NextKeeps, InitSlots, SlotsAllKeeps, PTL DEF Spec

----------------------------------------------------------------------------
(* The strings and the DT_NEEDED entries                                   *)

\* The strings lie one behind the other from 1 up to d, with a zero byte behind
\* each of them.
StringAt(s, d, i) ==
  /\ s[i].chunk = 1 /\ s[i].ret = s[i].pos
  /\ s[i].len >= 1 /\ s[i].len <= Alloc[".dynstr"]
  /\ i = 1 => s[i].pos = 1
  /\ i < Len(s) => s[i + 1].pos = s[i].pos + s[i].len + 1
  /\ i = Len(s) => d = s[i].pos + s[i].len + 1
  /\ s[i].pos + s[i].len + 1 <= d
StringsGood(s, d) ==
  /\ s = <<>> => d = 1
  /\ \A i \in 1 .. Len(s) : StringAt(s, d, i)
  /\ \A i, l \in 1 .. Len(s) : i < l => s[i].pos + s[i].len < s[l].pos

LEMMA Fields ==
  ASSUME NEW s \in Seq(Strings), NEW i \in 1 .. Len(s)
  PROVE  s[i].pos \in Nat /\ s[i].len \in Nat
<1>1. s[i] \in Strings
    BY ElementOfSeq
<1> QED BY <1>1 DEF Strings

\* A string that fits goes behind the others.
LEMMA StringBehind ==
  ASSUME NEW s \in Seq(Strings), NEW d \in Nat, NEW name \in StringNames, NEW len \in Nat \ {0},
         d + len <= Alloc[".dynstr"], StringsGood(s, d)
  PROVE  StringsGood(Append(s, String(name, d, len)), d + len + 1)
<1>0. Alloc[".dynstr"] \in Nat
    BY LayoutAssumption
<1>1. PICK n \in Nat : n = Len(s)
    OBVIOUS
<1>2. PICK e \in Strings : e = String(name, d, len)
    BY DEF String, Strings
<1>3. e.chunk = 1 /\ e.ret = d /\ e.pos = d /\ e.len = len
    BY <1>2 DEF String
<1>4. PICK z : z = Append(s, e)
    OBVIOUS
<1>5. Len(z) = n + 1 /\ z[n + 1] = e /\ \A i \in 1 .. n : z[i] = s[i]
    BY <1>1, <1>4
<1>6. PICK f \in Nat : f = d + len + 1
    OBVIOUS
<1>7. \A i \in 1 .. n + 1 : i \in 1 .. n \/ i = n + 1
    OBVIOUS
<1>8. /\ s = <<>> => d = 1
      /\ \A i \in 1 .. n : StringAt(s, d, i)
      /\ \A i, l \in 1 .. n : i < l => s[i].pos + s[i].len < s[l].pos
    BY <1>1 DEF StringsGood
<1>9. ASSUME NEW i \in 1 .. n PROVE s[i].pos \in Nat /\ s[i].len \in Nat
    BY <1>1, <1>9, Fields
<1>10. d + len <= Alloc[".dynstr"] /\ len >= 1 /\ len <= Alloc[".dynstr"]
    BY <1>0
<1>11. ASSUME NEW i \in 1 .. n + 1 PROVE StringAt(z, f, i)
  <2>1. CASE i = n + 1
    <3>1. z[i] = e
        BY <1>5, <2>1
    <3>2. f = d + len + 1 /\ d + len + 1 <= f
        BY <1>6
    <3>3. i = 1 => d = 1
      <4>1. i = 1 => s = <<>>
          BY <1>1, <2>1
      <4> QED BY <1>8, <4>1
    <3>4. ~(i < n + 1)
        BY <2>1
    <3> QED BY <1>3, <1>5, <1>10, <3>1, <3>2, <3>3, <3>4 DEF StringAt
  <2>2. CASE i \in 1 .. n
    <3>1. z[i] = s[i] /\ StringAt(s, d, i)
        BY <1>5, <1>8, <2>2
    <3>2. PICK p \in Nat : p = s[i].pos
        BY <1>9, <2>2
    <3>3. PICK l \in Nat : l = s[i].len
        BY <1>9, <2>2
    <3>4. /\ s[i].chunk = 1 /\ s[i].ret = p /\ l >= 1 /\ l <= Alloc[".dynstr"] /\ (i = 1 => p = 1)
          /\ (i < n => s[i + 1].pos = p + l + 1) /\ (i = n => d = p + l + 1) /\ p + l + 1 <= d
        BY <1>1, <3>1, <3>2, <3>3 DEF StringAt
    <3>5. p + l + 1 <= f
        BY <1>6, <3>4
    <3>6. ~(i = n + 1)
        BY <2>2
    <3>7. z[i + 1].pos = p + l + 1
      <4>1. CASE i < n
        <5>1. i + 1 \in 1 .. n
            BY <2>2, <4>1
        <5>2. z[i + 1] = s[i + 1]
            BY <1>5, <5>1
        <5> QED BY <3>4, <4>1, <5>2
      <4>2. CASE i = n
          BY <1>3, <1>5, <3>4, <4>2
      <4> QED BY <2>2, <4>1, <4>2
    <3> QED BY <1>5, <3>1, <3>2, <3>3, <3>4, <3>5, <3>6, <3>7 DEF StringAt
  <2> QED BY <1>7, <1>11, <2>1, <2>2
<1>12. ASSUME NEW i \in 1 .. n + 1, NEW l \in 1 .. n + 1, i < l
       PROVE  z[i].pos + z[i].len < z[l].pos
  <2>1. i \in 1 .. n
      BY <1>12
  <2>2. z[i] = s[i]
      BY <1>5, <2>1
  <2>3. CASE l \in 1 .. n
      BY <1>5, <1>8, <1>12, <2>1, <2>2, <2>3
  <2>4. CASE l = n + 1
    <3>1. z[l].pos = d
        BY <1>3, <1>5, <2>4
    <3>2. PICK p \in Nat : p = s[i].pos
        BY <1>9, <2>1
    <3>3. PICK x \in Nat : x = s[i].len
        BY <1>9, <2>1
    <3>4. p + x + 1 <= d
        BY <1>8, <2>1, <3>2, <3>3 DEF StringAt
    <3>5. p + x < d
        BY <3>4
    <3> QED BY <2>2, <3>1, <3>2, <3>3, <3>5
  <2> QED BY <1>7, <1>12, <2>3, <2>4
<1>13. z # <<>>
    BY <1>5
<1>14. StringsGood(z, f)
    BY <1>5, <1>11, <1>12, <1>13 DEF StringsGood
<1> QED BY <1>2, <1>4, <1>6, <1>14

\* Walking .dynstr from the start of a string finds the zero byte behind it, so
\* the next string starts where the walk says.
LEMMA NextStringIs ==
  ASSUME NEW n \in Nat \ {0}, n < Len(strs), strs \in Seq(Strings), NEW d, StringsGood(strs, d),
         Chunk = 1
  PROVE  NextString(strs[n].pos) = strs[n + 1].pos
<1>0. Alloc[".dynstr"] \in Nat
    BY LayoutAssumption
<1>1. PICK m \in Nat : m = Len(strs)
    OBVIOUS
<1>2. /\ n \in 1 .. m /\ n < m
    BY <1>1
<1>3. PICK p \in Nat : p = strs[n].pos
    BY <1>1, <1>2, Fields
<1>4. PICK l \in Nat : l = strs[n].len
    BY <1>1, <1>2, Fields
<1>5. /\ l >= 1 /\ l <= Alloc[".dynstr"] /\ strs[n].chunk = 1 /\ strs[n + 1].pos = p + l + 1
    BY <1>1, <1>2, <1>3, <1>4 DEF StringsGood, StringAt
<1>6. \A i, k \in 1 .. m : i < k => strs[i].pos + strs[i].len < strs[k].pos
    BY <1>1 DEF StringsGood
<1>7. PICK q \in Nat : q = p + l
    OBVIOUS
<1>8. IsNul(q)
  <2> SUFFICES ASSUME NEW i \in 1 .. m PROVE q \notin strs[i].pos .. strs[i].pos + strs[i].len - 1
      BY <1>1 DEF IsNul
  <2>1. PICK x \in Nat : x = strs[i].pos
      BY <1>1, Fields
  <2>2. PICK y \in Nat : y = strs[i].len
      BY <1>1, Fields
  <2>3. CASE i < n
    <3>1. x + y < p
        BY <1>2, <1>3, <1>6, <2>1, <2>2, <2>3
    <3>2. q \notin x .. x + y - 1
        BY <1>7, <3>1
    <3> QED BY <2>1, <2>2, <3>2
  <2>4. CASE i = n
    <3>1. x = p /\ y = l
        BY <1>3, <1>4, <2>1, <2>2, <2>4
    <3>2. q \notin p .. p + l - 1
        BY <1>7
    <3> QED BY <2>1, <2>2, <3>1, <3>2
  <2>5. CASE n < i
    <3>1. p + l < x
        BY <1>2, <1>3, <1>4, <1>6, <2>1, <2>5
    <3>2. q \notin x .. x + y - 1
        BY <1>7, <3>1
    <3> QED BY <2>1, <2>2, <3>2
  <2>6. i < n \/ i = n \/ n < i
      OBVIOUS
  <2> QED BY <2>3, <2>4, <2>5, <2>6
<1>9. ASSUME NEW r \in p .. q - 1 PROVE ~IsNul(r)
  <2>1. r \in p .. p + l - 1
      BY <1>7, <1>9
  <2>2. r \in strs[n].pos .. strs[n].pos + strs[n].len - 1
      BY <1>3, <1>4, <2>1
  <2> QED BY <1>1, <1>2, <1>5, <2>2 DEF IsNul
<1> DEFINE Q(x) == IsNul(x) /\ \A r \in p .. x - 1 : ~IsNul(r)
<1>10. q \in p .. p + Alloc[".dynstr"]
    BY <1>0, <1>5, <1>7
<1>11. ASSUME NEW x \in p .. p + Alloc[".dynstr"], Q(x) PROVE x = q
  <2>1. x \in Int
      BY <1>0, <1>11
  <2>2. ~(x < q)
    <3>1. ASSUME x < q PROVE FALSE
      <4>1. x \in p .. q - 1
          BY <1>0, <1>11, <2>1, <3>1
      <4> QED BY <1>9, <1>11, <4>1
    <3> QED BY <3>1
  <2>3. ~(q < x)
    <3>1. ASSUME q < x PROVE FALSE
      <4>1. q \in p .. x - 1
          BY <1>7, <2>1, <3>1
      <4> QED BY <1>8, <1>11, <4>1
    <3> QED BY <3>1
  <2> QED BY <2>1, <2>2, <2>3
<1>12. (CHOOSE x \in p .. p + Alloc[".dynstr"] : Q(x)) = q
  <2>1. Q(q)
      BY <1>8, <1>9
  <2> HIDE DEF Q
  <2> QED BY <1>10, <1>11, <2>1
<1>13. NextString(p) = 1 + q
    BY <1>12 DEF NextString
<1>14. 1 + q = p + l + 1
    BY <1>7
<1> QED BY <1>3, <1>5, <1>13, <1>14

\* Only SetNeeded adds to needed, one entry for each library.
NeededInv ==
  /\ pc = "addresses" => strs = <<>> /\ D[".dynamic"] = 0
  /\ pc = "libraries" => Len(strs) = at - 1 /\ D[".dynamic"] = at - 1 /\ at <= Len(Libraries) + 1
  /\ pc \notin {"addresses", "libraries"} =>
       Len(strs) >= Len(Libraries) /\ D[".dynamic"] = Len(Libraries)
  /\ pc \notin {"dynamic", "emit", "done"} => needed = <<>>
  /\ (\E T : needed \in Seq(T)) /\ Len(needed) <= Len(Libraries)
  /\ pc \in {"emit", "done"} => Len(needed) = Len(Libraries)

\* The offsets are those of the strings, while .dynstr is in one chunk.
OffsetsInv ==
  pc # "addresses" /\ OneChunk(".dynstr") =>
    /\ StringsGood(strs, D[".dynstr"])
    /\ \A i \in 1 .. Len(needed) : needed[i] = strs[i].pos

\* gen_elf has begun .dynstr when it is behind it.
WrittenInv ==
  /\ pc = "done" => at = Len(input) + 9
  /\ pc \in {"emit", "done"} /\ at > Len(input) + 8 => dynfile[".dynstr"] # <<>>

NamesInv == NeededInv /\ OffsetsInv /\ WrittenInv

LEMMA InitNames == Init => NamesInv
<1> SUFFICES ASSUME Init PROVE NamesInv
    OBVIOUS
<1>1. Len(Libraries) \in Nat
    BY LayoutAssumption
<1>2. NeededInv
  <2>1. needed \in Seq(Nat)
      BY DEF Init
  <2> QED BY <1>1, <2>1, Sections DEF Init, NeededInv
<1>3. OffsetsInv /\ WrittenInv
    BY DEF Init, OffsetsInv, WrittenInv
<1> QED BY <1>2, <1>3 DEF NamesInv

LEMMA WrittenKeeps ==
  ASSUME LayoutInv, WrittenInv, [Next]_vars
  PROVE  WrittenInv'
<1>0. at \in Nat \ {0} /\ Len(input) \in Nat /\ dynfile \in [DynamicNames -> Seq(Nat)] /\ fpos \in Nat
    BY DEF LayoutInv, LayoutTypes
<1>1. CASE WriteDynamic
  <2>1. PICK k \in 1 .. 8 : at = Len(input) + k
    <3>1. at \in Len(input) + 1 .. Len(input) + 8
        BY <1>1, DynamicNamesDiffer DEF WriteDynamic
    <3> QED BY <1>0, <3>1
  <2>2. k = at - Len(input)
      BY <1>0, <2>1
  <2>3. pc = "emit" /\ pc' = "emit" /\ at' \in {at, at + 1} /\ input' = input
        /\ dynfile' = [dynfile EXCEPT ![Dynamic[k]] = Append(@, fpos)]
      BY <1>1, <2>2 DEF WriteDynamic, layout
  <2> SUFFICES ASSUME at' > Len(input) + 8 PROVE dynfile'[".dynstr"] # <<>>
      BY <2>3 DEF WrittenInv
  <2>4. k = 8
      BY <1>0, <2>1, <2>3
  <2>5. Dynamic[k] = ".dynstr"
      BY <2>4 DEF Dynamic
  <2>6. dynfile'[".dynstr"] = Append(dynfile[".dynstr"], fpos)
      BY <1>0, <2>3, <2>5, Sections
  <2>7. PICK s \in Seq(Nat) : s = dynfile[".dynstr"]
      BY <1>0, Sections
  <2>8. Append(s, fpos) # <<>>
    <3>1. Len(Append(s, fpos)) = Len(s) + 1 /\ Len(s) \in Nat
        BY <1>0
    <3>2. Len(s) + 1 # 0
        BY <3>1
    <3> QED BY <3>1, <3>2
  <2> QED BY <2>6, <2>7, <2>8
<1>2. CASE SetEntries \/ WriteInput \/ WriteEnd
  <2>1. CASE SetEntries
    <3>1. pc' = "emit" /\ at' = 1 /\ input' = input
        BY <2>1 DEF SetEntries, layout
    <3>2. ~(1 > Len(input) + 8)
        BY <1>0
    <3> QED BY <3>1, <3>2 DEF WrittenInv
  <2>2. CASE WriteInput
    <3>1. pc' = "emit" /\ at' = at + 1 /\ at <= Len(input) /\ input' = input
        BY <2>2 DEF WriteInput, layout
    <3>2. ~(at + 1 > Len(input) + 8)
        BY <1>0, <3>1
    <3> QED BY <3>1, <3>2 DEF WrittenInv
  <2>3. CASE WriteEnd
    <3>1. pc = "emit" /\ at = Len(input) + 9 /\ UNCHANGED <<at, input, dynfile>>
        BY <2>3, DynamicNamesDiffer DEF WriteEnd, layout, file
    <3> QED BY <3>1 DEF WrittenInv
  <2> QED BY <1>2, <2>1, <2>2, <2>3
<1>3. CASE pc' \notin {"emit", "done"}
    BY <1>3 DEF WrittenInv
<1>4. CASE UNCHANGED vars
    BY <1>4 DEF vars, layout, file, WrittenInv
<1>5. CASE do_reloc
  <2>1. pc' \in {"relocs", "spin"}
      BY <1>5 DEF do_reloc, ResolveCall, ResolveGot, ResolveData, ResolveRelative, add_init_array,
                  add_fini_array, ResolveSkipped, ResolveSpins, Reloc
  <2> QED BY <1>3, <2>1
<1>6. CASE SetVirtualAddress \/ add_dynamic \/ add_dt_needed \/ LibrariesEnd
           \/ (\E name \in Names : add_export_symbol(name)) \/ ExportsEnd \/ RelocsEnd \/ SetNeeded
  <2>1. pc' \notin {"emit", "done"}
      BY <1>6 DEF SetVirtualAddress, add_dynamic, add_dt_needed, LibrariesEnd, add_export_symbol,
                  ExportsEnd, RelocsEnd, SetNeeded
  <2> QED BY <1>3, <2>1
<1> QED BY <1>1, <1>2, <1>4, <1>5, <1>6 DEF Next, Stop

\* The tables a step leaves, and what it does to the strings.
LEMMA NamesStep ==
  ASSUME LayoutInv, Tables \in TableRecords, [Next]_vars
  PROVE  \/ pc = "addresses" /\ pc' = "addresses" /\ Tables' = Tables /\ UNCHANGED result
         \/ add_dynamic
         \/ /\ pc = "libraries" /\ pc' = "libraries" /\ at <= Len(Libraries) /\ at' = at + 1
            /\ UNCHANGED result /\ Tables' \in TableRecords /\ Counts(Tables, Tables', ".dynamic", 1)
            /\ \E len \in Nat \ {0} : StrAdds(Tables, Tables', "library", len)
         \/ LibrariesEnd
         \/ /\ pc \in {"exports", "relocs"} /\ pc' \in {"exports", "relocs", "spin"} /\ UNCHANGED result
            /\ Tables' \in TableRecords /\ Same(Tables, Tables', ".dynamic") /\ StringStep(Tables, Tables')
         \/ UNCHANGED <<pc, at, result>> /\ Tables' = Tables
         \/ /\ pc \notin {"addresses", "libraries"} /\ pc' \notin {"addresses", "libraries"}
            /\ Tables' = Tables /\ UNCHANGED result
            /\ pc \in {"emit", "done"} <=> pc' \in {"emit", "done"}
            /\ pc' \in {"dynamic", "emit", "done"} \/ pc \notin {"dynamic", "emit", "done"}
         \/ SetNeeded \/ SetEntries
<1>1. Tables \in TableRecords /\ pltgot \in Nat /\ vaddr \in Seq(Nat) /\ at \in Nat \ {0}
    BY DEF LayoutInv, LayoutTypes
<1>2. CASE SetVirtualAddress
    BY <1>2 DEF SetVirtualAddress, Tables, tables
<1>3. CASE add_dt_needed
  <2>1. PICK len \in Nat \ {0} : len = Libraries[at]
    <3>1. at \in 1 .. Len(Libraries)
        BY <1>1, <1>3, LayoutAssumption DEF add_dt_needed
    <3> QED BY <3>1, LayoutAssumption, ElementOfSeq
  <2>2. PICK u : u = [add_dynstr_entry(Tables, "library", len) EXCEPT !.D[".dynamic"] = @ + 1]
      OBVIOUS
  <2>3. /\ u \in TableRecords /\ StrAdds(Tables, u, "library", len) /\ Counts(Tables, u, ".dynamic", 1)
      BY <1>1, <2>2, DtNeededStep
  <2>4. /\ Become(u) /\ pc = "libraries" /\ pc' = "libraries" /\ UNCHANGED result
        /\ at <= Len(Libraries) /\ at' = at + 1
      BY <1>3, <2>1, <2>2 DEF add_dt_needed
  <2>5. Tables' = u
      BY <2>3, <2>4, Becomes
  <2> QED BY <2>3, <2>4, <2>5
<1>4. ASSUME NEW name \in Names, add_export_symbol(name)
      PROVE  /\ pc = "exports" /\ pc' = "exports" /\ UNCHANGED result
             /\ TableStep(Tables, Tables', pltgot, {vaddr[i] : i \in 1 .. Len(vaddr)})
  <2>1. PICK v : v = add_dynsym_entry(add_dynstr_entry(Tables, name, Length[name]), name)
      OBVIOUS
  <2>2. PICK u : u = [v EXCEPT !.D[".gnu.hash"] = @ + 4]
      OBVIOUS
  <2>3. TableStep(Tables, u, pltgot, {vaddr[i] : i \in 1 .. Len(vaddr)})
      BY <1>1, <1>4, <2>1, <2>2, ExportStep
  <2>4. Become(u) /\ pc = "exports" /\ pc' = "exports" /\ UNCHANGED result
      BY <1>4, <2>1, <2>2 DEF add_export_symbol
  <2>5. Tables' = u
      BY <2>3, <2>4, Becomes DEF TableStep
  <2> QED BY <2>3, <2>4, <2>5
<1>5. CASE do_reloc
  <2>1. /\ pc = "relocs" /\ pc' \in {"relocs", "spin"} /\ UNCHANGED result
        /\ TableStep(Tables, Tables', pltgot, {vaddr[i] : i \in 1 .. Len(vaddr)})
      BY <1>1, <1>5, RelocStep
  <2> QED BY <2>1 DEF TableStep
<1>6. CASE ExportsEnd \/ RelocsEnd \/ WriteInput \/ WriteDynamic \/ WriteEnd
    BY <1>6 DEF ExportsEnd, RelocsEnd, WriteInput, WriteDynamic, WriteEnd, Tables, tables
<1>7. CASE UNCHANGED vars
    BY <1>7 DEF vars, Tables, tables
<1> QED BY <1>2, <1>3, <1>4, <1>5, <1>6, <1>7 DEF Next, Stop, TableStep

LEMMA NeededKeeps ==
  ASSUME LayoutInv, Tables \in TableRecords, NeededInv, [Next]_vars
  PROVE  NeededInv'
<1>0. Len(Libraries) \in Nat /\ at \in Nat \ {0}
    BY LayoutAssumption DEF LayoutInv, LayoutTypes
<1>1. PICK N \in Nat : N = Len(Libraries)
    BY <1>0
<1>2. CASE pc = "addresses" /\ pc' = "addresses" /\ Tables' = Tables /\ UNCHANGED result
  <2>1. UNCHANGED <<strs, D, needed>>
      BY <1>2 DEF Tables, result
  <2> QED BY <1>2, <2>1 DEF NeededInv
<1>3. CASE add_dynamic
  <2>1. /\ pc = "addresses" /\ pc' = "libraries" /\ at' = 1 /\ UNCHANGED <<strs, needed>>
        /\ D' = [D EXCEPT ![".gnu.hash"] = GnuHashSize, ![".dynstr"] = 1, ![".dynsym"] = 1]
      BY <1>3 DEF add_dynamic, result
  <2>2. strs = <<>> /\ D[".dynamic"] = 0 /\ needed = <<>>
      BY <2>1 DEF NeededInv
  <2>3. D'[".dynamic"] = 0
      BY <2>1, <2>2, Sections DEF LayoutInv, LayoutTypes
  <2> QED BY <1>0, <2>1, <2>2, <2>3 DEF NeededInv
<1>4. CASE /\ pc = "libraries" /\ pc' = "libraries" /\ at <= Len(Libraries) /\ at' = at + 1
           /\ UNCHANGED result /\ Tables' \in TableRecords /\ Counts(Tables, Tables', ".dynamic", 1)
           /\ \E len \in Nat \ {0} : StrAdds(Tables, Tables', "library", len)
  <2>1. Len(strs') = Len(strs) + 1 /\ D'[".dynamic"] = D[".dynamic"] + 1
      BY <1>4 DEF StrAdds, Counts, Tables
  <2>2. Len(strs) = at - 1 /\ D[".dynamic"] = at - 1
      BY <1>4 DEF NeededInv
  <2>3. /\ Len(strs') = at' - 1 /\ D'[".dynamic"] = at' - 1 /\ at' <= Len(Libraries) + 1
      BY <1>0, <1>4, <2>1, <2>2
  <2>4. needed' = needed
      BY <1>4 DEF result
  <2> QED BY <1>4, <2>3, <2>4 DEF NeededInv
<1>5. CASE LibrariesEnd
  <2>1. /\ pc = "libraries" /\ pc' = "exports" /\ at = Len(Libraries) + 1 /\ UNCHANGED <<strs, D, needed>>
      BY <1>5 DEF LibrariesEnd, tables, result
  <2>2. Len(strs) = at - 1 /\ D[".dynamic"] = at - 1
      BY <2>1 DEF NeededInv
  <2>3. at - 1 = Len(Libraries) /\ Len(Libraries) >= Len(Libraries)
      BY <1>0, <2>1
  <2> QED BY <2>1, <2>2, <2>3 DEF NeededInv
<1>6. CASE /\ pc \in {"exports", "relocs"} /\ pc' \in {"exports", "relocs", "spin"} /\ UNCHANGED result
           /\ Tables' \in TableRecords /\ Same(Tables, Tables', ".dynamic") /\ StringStep(Tables, Tables')
  <2>1. needed' = needed /\ D'[".dynamic"] = D[".dynamic"]
      BY <1>6 DEF result, Same, Tables
  <2>2. strs' = strs \/ Len(strs') = Len(strs) + 1
      BY <1>6 DEF StringStep, StrAdds, Tables
  <2>3. Len(strs) >= Len(Libraries) /\ D[".dynamic"] = Len(Libraries)
      BY <1>6 DEF NeededInv
  <2>4. PICK n \in Nat : n = Len(strs)
    <3>1. PICK s \in Seq(Strings) : s = strs
        BY Parts DEF Tables
    <3> QED BY <3>1
  <2>5. Len(strs') >= Len(Libraries)
    <3>1. CASE strs' = strs
        BY <2>3, <3>1
    <3>2. CASE Len(strs') = Len(strs) + 1
      <4>1. n + 1 >= N
          BY <1>1, <2>3, <2>4
      <4> QED BY <1>1, <2>4, <3>2, <4>1
    <3> QED BY <2>2, <3>1, <3>2
  <2> QED BY <1>6, <2>1, <2>3, <2>5 DEF NeededInv
<1>7. CASE UNCHANGED <<pc, at, result>> /\ Tables' = Tables
  <2>1. UNCHANGED <<pc, at, strs, D, needed>>
      BY <1>7 DEF Tables, result
  <2> QED BY <2>1 DEF NeededInv
<1>8. CASE /\ pc \notin {"addresses", "libraries"} /\ pc' \notin {"addresses", "libraries"}
           /\ Tables' = Tables /\ UNCHANGED result
           /\ pc \in {"emit", "done"} <=> pc' \in {"emit", "done"}
           /\ pc' \in {"dynamic", "emit", "done"} \/ pc \notin {"dynamic", "emit", "done"}
  <2>1. UNCHANGED <<strs, D, needed>>
      BY <1>8 DEF Tables, result
  <2> QED BY <1>8, <2>1 DEF NeededInv
<1>9. CASE SetNeeded
  <2>1. /\ pc = "dynamic" /\ pc' = "dynamic" /\ Len(needed) < D[".dynamic"] /\ UNCHANGED <<strs, D>>
      BY <1>9 DEF SetNeeded, tables
  <2>2. PICK x : needed' = Append(needed, x)
      BY <1>9 DEF SetNeeded
  <2>3. PICK T : needed \in Seq(T)
      BY DEF NeededInv
  <2>4. needed' \in Seq(T \cup {x}) /\ Len(needed') = Len(needed) + 1 /\ Len(needed) \in Nat
    <3>1. needed \in Seq(T \cup {x})
        BY <2>3
    <3> QED BY <2>2, <3>1
  <2>6. D[".dynamic"] = Len(Libraries)
      BY <2>1 DEF NeededInv
  <2>5. Len(needed') <= Len(Libraries)
      BY <1>0, <2>1, <2>4, <2>6
  <2> QED BY <2>1, <2>4, <2>5, <2>6 DEF NeededInv
<1>10. CASE SetEntries
  <2>1. /\ pc = "dynamic" /\ pc' = "emit" /\ Len(needed) = D[".dynamic"] /\ UNCHANGED <<strs, D, needed>>
      BY <1>10 DEF SetEntries
  <2> QED BY <2>1 DEF NeededInv
<1> QED BY <1>2, <1>3, <1>4, <1>5, <1>6, <1>7, <1>8, <1>9, <1>10, NamesStep

LEMMA OffsetsKeeps ==
  ASSUME LayoutInv, LayoutInv', Tables \in TableRecords, NeededInv, OffsetsInv, [Next]_vars
  PROVE  OffsetsInv'
<1>0. /\ strs \in Seq(Strings) /\ D \in [DynamicNames -> Nat] /\ chunks \in [DynamicNames -> Seq(Nat)]
    BY Parts DEF Tables
<1>2. CASE pc = "addresses" /\ pc' = "addresses" /\ Tables' = Tables /\ UNCHANGED result
    BY <1>2 DEF OffsetsInv
<1>3. CASE add_dynamic
  <2>1. /\ pc = "addresses" /\ pc' = "libraries" /\ UNCHANGED <<strs, needed>>
        /\ D' = [D EXCEPT ![".gnu.hash"] = GnuHashSize, ![".dynstr"] = 1, ![".dynsym"] = 1]
      BY <1>3 DEF add_dynamic, result
  <2>2. strs = <<>> /\ needed = <<>>
      BY <2>1 DEF NeededInv
  <2>3. D'[".dynstr"] = 1
      BY <1>0, <2>1, Sections
  <2>4. StringsGood(strs', D'[".dynstr"])
    <3>1. Len(strs') = 0 /\ 1 .. 0 = {}
        BY <2>1, <2>2
    <3> QED BY <2>3, <3>1 DEF StringsGood
  <2>5. \A i \in 1 .. Len(needed') : FALSE
    <3>1. Len(needed') = 0 /\ 1 .. 0 = {}
        BY <2>1, <2>2
    <3> QED BY <3>1
  <2> QED BY <2>4, <2>5 DEF OffsetsInv
<1>4. ASSUME Tables' \in TableRecords, NEW name \in StringNames, NEW len \in Nat \ {0},
             StrAdds(Tables, Tables', name, len), needed = <<>>, needed' = needed, pc # "addresses",
             pc \notin {"emit", "done"}, pc' \notin {"emit", "done"}
      PROVE  OffsetsInv'
  <2> SUFFICES ASSUME OneChunk(".dynstr")'
               PROVE  /\ StringsGood(strs', D'[".dynstr"])
                      /\ \A i \in 1 .. Len(needed') : needed'[i] = strs'[i].pos
      BY DEF OffsetsInv
  <2>1. \A i \in 1 .. Len(needed') : FALSE
    <3>1. Len(needed') = 0 /\ 1 .. 0 = {}
        BY <1>4
    <3> QED BY <3>1
  <2>2. chunks'[".dynstr"] = <<>>
    <3>1. PICK c \in Seq(Nat) : c = chunks'[".dynstr"]
        BY Sections DEF LayoutInv, LayoutTypes
    <3>2. Len(c) <= 0
        BY <1>4, <3>1 DEF OneChunk
    <3>3. c = <<>>
        BY <3>2
    <3> QED BY <3>1, <3>3
  <2>3. PICK u : u = Tables'
      OBVIOUS
  <2>4. PICK t : t = Tables
      OBVIOUS
  <2>5. ~Longer(t, u, ".dynstr")
    <3>1. u.chunks[".dynstr"] = <<>>
        BY <2>2, <2>3 DEF Tables
    <3> QED BY <1>4, <2>3, <2>4, <3>1, Sections, NotLonger
  <2>6. /\ Counts(t, u, ".dynstr", len + 1) /\ t.D[".dynstr"] + len <= Alloc[".dynstr"]
        /\ t.chunks[".dynstr"] = <<>> => u.strs = Append(t.strs, String(name, t.D[".dynstr"], len))
      BY <1>4, <2>3, <2>4, <2>5 DEF StrAdds
  <2>7. PICK d \in Nat : d = D[".dynstr"]
      BY <1>0, Sections
  <2>8. t.D[".dynstr"] = d /\ t.strs = strs /\ u.strs = strs' /\ u.D[".dynstr"] = D'[".dynstr"]
        /\ t.chunks = chunks /\ u.chunks = chunks'
      BY <2>3, <2>4, <2>7 DEF Tables
  <2>9. chunks[".dynstr"] = <<>>
      BY <2>2, <2>6, <2>8 DEF Counts
  <2>10. /\ D'[".dynstr"] = d + len + 1 /\ d + len <= Alloc[".dynstr"]
         /\ strs' = Append(strs, String(name, d, len))
    <3>1. D'[".dynstr"] = d + (len + 1) /\ d + len <= Alloc[".dynstr"]
        BY <2>6, <2>8 DEF Counts
    <3>2. d + (len + 1) = d + len + 1
        BY <1>4
    <3> QED BY <2>6, <2>8, <2>9, <3>1, <3>2
  <2>11. StringsGood(strs, d)
    <3>1. OneChunk(".dynstr")
        BY <1>4, <2>9, Sections, OneChunkEmpty
    <3> QED BY <1>4, <2>7, <3>1 DEF OffsetsInv
  <2>12. StringsGood(Append(strs, String(name, d, len)), d + len + 1)
      BY <1>0, <1>4, <2>10, <2>11, StringBehind
  <2> QED BY <2>1, <2>10, <2>12
<1>5. ASSUME UNCHANGED <<strs, D, needed>>, pc # "addresses", OneChunk(".dynstr")' => OneChunk(".dynstr")
      PROVE  OffsetsInv'
    BY <1>5 DEF OffsetsInv
<1>6. ASSUME Tables' = Tables, needed' = needed, pc # "addresses",
             pc \in {"emit", "done"} <=> pc' \in {"emit", "done"}
      PROVE  OffsetsInv'
  <2>1. UNCHANGED <<strs, D, chunks>>
      BY <1>6 DEF Tables
  <2>2. OneChunk(".dynstr")' => OneChunk(".dynstr")
      BY <1>6, <2>1 DEF OneChunk
  <2> QED BY <1>5, <1>6, <2>1, <2>2
<1>7. CASE /\ pc = "libraries" /\ pc' = "libraries" /\ at <= Len(Libraries) /\ at' = at + 1
           /\ UNCHANGED result /\ Tables' \in TableRecords /\ Counts(Tables, Tables', ".dynamic", 1)
           /\ \E len \in Nat \ {0} : StrAdds(Tables, Tables', "library", len)
  <2>1. needed = <<>> /\ needed' = needed
      BY <1>7 DEF NeededInv, result
  <2>2. "library" \in StringNames
      BY DEF StringNames
  <2> QED BY <1>4, <1>7, <2>1, <2>2
<1>8. CASE LibrariesEnd
  <2>1. pc = "libraries" /\ pc' = "exports" /\ Tables' = Tables /\ needed' = needed
      BY <1>8 DEF LibrariesEnd, tables, result, Tables
  <2> QED BY <1>6, <2>1
<1>9. CASE /\ pc \in {"exports", "relocs"} /\ pc' \in {"exports", "relocs", "spin"} /\ UNCHANGED result
           /\ Tables' \in TableRecords /\ Same(Tables, Tables', ".dynamic") /\ StringStep(Tables, Tables')
  <2>1. needed = <<>> /\ needed' = needed
      BY <1>9 DEF NeededInv, result
  <2>2. ASSUME NEW name \in StringNames, NEW len \in Nat \ {0}, StrAdds(Tables, Tables', name, len)
        PROVE  OffsetsInv'
      BY <1>4, <1>9, <2>1, <2>2
  <2>3. CASE Tables'.strs = Tables.strs /\ Same(Tables, Tables', ".dynstr")
    <3>1. strs' = strs /\ D'[".dynstr"] = D[".dynstr"] /\ chunks'[".dynstr"] = chunks[".dynstr"]
        BY <2>3 DEF Tables, Same
    <3>2. OneChunk(".dynstr")' => OneChunk(".dynstr")
        BY <1>9, <3>1 DEF OneChunk
    <3> QED BY <1>9, <2>1, <3>1, <3>2 DEF OffsetsInv
  <2> QED BY <1>9, <2>2, <2>3 DEF StringStep
<1>10. CASE UNCHANGED <<pc, at, result>> /\ Tables' = Tables
  <2>1. CASE pc = "addresses"
      BY <1>10, <2>1 DEF OffsetsInv
  <2>2. CASE pc # "addresses"
      BY <1>6, <1>10, <2>2 DEF result
  <2> QED BY <2>1, <2>2
<1>11. CASE /\ pc \notin {"addresses", "libraries"} /\ pc' \notin {"addresses", "libraries"}
            /\ Tables' = Tables /\ UNCHANGED result
            /\ pc \in {"emit", "done"} <=> pc' \in {"emit", "done"}
            /\ pc' \in {"dynamic", "emit", "done"} \/ pc \notin {"dynamic", "emit", "done"}
    BY <1>6, <1>11 DEF result
<1>12. CASE SetNeeded
  <2>1. /\ pc = "dynamic" /\ pc' = "dynamic" /\ Len(needed) < D[".dynamic"] /\ UNCHANGED <<strs, D, chunks>>
        /\ needed' = Append(needed, IF needed = <<>> THEN 1 ELSE NextString(needed[Len(needed)]))
      BY <1>12 DEF SetNeeded, tables
  <2>2. OneChunk(".dynstr")' <=> OneChunk(".dynstr")
      BY <2>1 DEF OneChunk
  <2> SUFFICES ASSUME OneChunk(".dynstr")
               PROVE  \A i \in 1 .. Len(needed') : needed'[i] = strs[i].pos
      BY <2>1, <2>2 DEF OffsetsInv
  <2>3. /\ StringsGood(strs, D[".dynstr"]) /\ \A i \in 1 .. Len(needed) : needed[i] = strs[i].pos
      BY <2>1 DEF OffsetsInv
  <2>4. Len(strs) >= Len(Libraries) /\ D[".dynamic"] = Len(Libraries)
      BY <2>1 DEF NeededInv
  <2>5. PICK T : needed \in Seq(T)
      BY DEF NeededInv
  <2>6. PICK n \in Nat : n = Len(needed)
      BY <2>5
  <2>7. n < Len(strs)
    <3>1. PICK N \in Nat : N = Len(Libraries)
        BY LayoutAssumption
    <3>2. PICK m \in Nat : m = Len(strs)
        BY <1>0
    <3>3. n < N /\ m >= N
        BY <2>1, <2>4, <2>6, <3>1, <3>2
    <3>4. n < m
        BY <3>3
    <3> QED BY <3>2, <3>4
  <2>8. Chunk = 1
    <3>1. chunks[".dynstr"] = <<>>
        BY <2>1, Sections, OneChunkEmpty
    <3> QED BY <3>1 DEF Chunk
  <2>9. PICK x : x = strs[n + 1].pos
      OBVIOUS
  <2>10. needed' = Append(needed, x)
    <3>1. CASE needed = <<>>
      <4>1. n = 0
          BY <2>6, <3>1
      <4>2. 1 \in 1 .. Len(strs)
          BY <1>0, <2>7, <4>1
      <4>3. strs[1].pos = 1
          BY <2>3, <4>2 DEF StringsGood, StringAt
      <4> QED BY <2>1, <2>9, <3>1, <4>1, <4>3
    <3>2. CASE needed # <<>>
      <4>1. n \in Nat \ {0}
          BY <2>5, <2>6, <3>2
      <4>2. needed[n] = strs[n].pos
          BY <2>3, <2>6, <4>1
      <4>3. NextString(strs[n].pos) = strs[n + 1].pos
          BY <1>0, <2>3, <2>7, <2>8, <4>1, NextStringIs
      <4> QED BY <2>1, <2>6, <2>9, <3>2, <4>2, <4>3
    <3> QED BY <3>1, <3>2
  <2>11. PICK a \in Seq(T) : a = needed
      BY <2>5
  <2>12. /\ Len(Append(a, x)) = n + 1 /\ Append(a, x)[n + 1] = x
         /\ \A i \in 1 .. n : Append(a, x)[i] = a[i]
      BY <2>6, <2>11
  <2>13. PICK b : b = Append(a, x)
      OBVIOUS
  <2>14. ASSUME NEW i \in 1 .. n + 1 PROVE b[i] = strs[i].pos
    <3>1. i \in 1 .. n \/ i = n + 1
        BY <2>14
    <3>2. CASE i \in 1 .. n
        BY <2>3, <2>6, <2>11, <2>12, <2>13, <3>2
    <3>3. CASE i = n + 1
        BY <2>9, <2>12, <2>13, <3>3
    <3> QED BY <3>1, <3>2, <3>3
  <2> QED BY <2>10, <2>11, <2>12, <2>13, <2>14
<1>13. CASE SetEntries
  <2>1. pc = "dynamic" /\ UNCHANGED <<strs, D, needed>>
      BY <1>13 DEF SetEntries
  <2>2. OneChunk(".dynstr")' => OneChunk(".dynstr")
      BY <1>13, Sections, OneChunkEmpty
  <2> QED BY <1>5, <2>1, <2>2
<1> QED BY <1>2, <1>3, <1>7, <1>8, <1>9, <1>10, <1>11, <1>12, <1>13, NamesStep

\* The offset add_dynstr_entry returns is where the name lies in the .dynstr
\* that is written, and the offsets set_dynanmic walks to, after any number of
\* symbols were put behind the libraries, are those add_dt_needed stored the
\* libraries at; as long as .dynstr has one chunk: the offsets of strings in
\* another one are wrong.
THEOREM NamesAreAtTheirOffsets == Spec => []NamesAtTheirOffsets
<1>1. ASSUME LayoutInv, SlotsAllInv, NamesInv PROVE NamesAtTheirOffsets
  <2> SUFFICES ASSUME pc = "done", OneChunk(".dynstr")
               PROVE  /\ \A i \in DOMAIN strs : strs[i].ret = InDynstr(strs[i])
                      /\ Len(needed) = Len(Libraries)
                      /\ \A i \in DOMAIN needed : needed[i] = InDynstr(strs[i])
      BY DEF NamesAtTheirOffsets
  <2>1. strs \in Seq(Strings)
      BY <1>1, Parts DEF SlotsAllInv, Tables
  <2>2. PICK w : w = dynfile[".dynstr"]
      OBVIOUS
  <2>3. w[1] \in Nat
    <3>1. w \in Seq(Nat) /\ at \in Nat /\ Len(input) \in Nat
        BY <1>1, <2>2, Sections DEF LayoutInv, LayoutTypes
    <3>2. w # <<>>
        BY <1>1, <2>2, <3>1 DEF NamesInv, WrittenInv
    <3> QED BY <3>1, <3>2
  <2>4. /\ \A i \in 1 .. Len(strs) : StringAt(strs, D[".dynstr"], i)
        /\ \A i \in 1 .. Len(needed) : needed[i] = strs[i].pos
      BY <1>1 DEF NamesInv, OffsetsInv, StringsGood
  <2>5. ASSUME NEW i \in 1 .. Len(strs)
        PROVE  InDynstr(strs[i]) = strs[i].pos /\ strs[i].ret = strs[i].pos
    <3>1. strs[i].chunk = 1 /\ strs[i].ret = strs[i].pos
        BY <2>4 DEF StringAt
    <3>2. PICK p \in Nat : p = strs[i].pos
        BY <2>1, Fields
    <3>3. PICK x \in Nat : x = w[1]
        BY <2>3
    <3>4. InDynstr(strs[i]) = x - x + p
        BY <2>2, <3>1, <3>2, <3>3 DEF InDynstr
    <3>5. x - x + p = p
        OBVIOUS
    <3> QED BY <3>1, <3>2, <3>4, <3>5
  <2>6. PICK n \in Nat : n = Len(Libraries)
      BY LayoutAssumption
  <2>7. PICK m \in Nat : m = Len(strs)
      BY <2>1
  <2>8. Len(needed) = n /\ n <= m /\ DOMAIN needed = 1 .. n /\ DOMAIN strs = 1 .. m
      BY <1>1, <2>1, <2>6, <2>7 DEF NamesInv, NeededInv
  <2> QED BY <2>4, <2>5, <2>6, <2>7, <2>8
<1>2. ASSUME LayoutInv, LayoutInv', SlotsAllInv, NamesInv, [Next]_vars PROVE NamesInv'
    BY <1>2, NeededKeeps, OffsetsKeeps, WrittenKeeps DEF NamesInv, SlotsAllInv
<1> QED BY <1>1, <1>2, InitLayout, NextKeeps, InitSlots, SlotsAllKeeps, InitNames, PTL DEF Spec
=============================================================================
