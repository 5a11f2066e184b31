----------------------------- MODULE LinkLayout -----------------------------
(***************************************************************************)
(* The second half of the ELF linker, do_elf_task of src/tools/zld.c:      *)
(* addresses are given to the input sections (elf/reloc.c), the dynamic    *)
(* sections are created behind them and filled while symbols are exported  *)
(* and relocations resolved (elf/dynamic.c), set_dynanmic computes the     *)
(* addresses of the dynamic table, and gen_elf (elf/emit.c) writes every   *)
(* section where the file offset happens to be.  The addresses are         *)
(* computed twice, by code that never compares them.                       *)
(*                                                                         *)
(* The inputs are the section chains LinkInput leaves, in container order. *)
(* A name is its identity and its length; what a relocation is against is  *)
(* chosen as it is processed.  -nodynamic and -use-dt-hash are not here.   *)
(***************************************************************************)
EXTENDS Integers, Sequences

CONSTANTS
  Base,          \* base_address
  HeaderTail,    \* program_header_tail
  Inputs,        \* the section chains: sequences of records [sc, size]
  Libraries,     \* lengths of the -l names, up to the first without ".so"
  Names, Length, \* the symbol names and strlen of each
  Alloc,         \* D[].alloc_size of the sections that grow by chunks
  GnuHashSize,   \* size of the empty hash table
  MaxExports, MaxRelocs  \* bounds

ASSUME LayoutAssumption ==
  /\ Base \in Nat /\ HeaderTail \in Nat /\ GnuHashSize \in Nat
  /\ Inputs \subseteq Seq([sc : Nat, size : Nat])
  /\ Length \in [Names -> Nat \ {0}]
  /\ Libraries \in Seq(Nat \ {0})
  /\ Alloc \in [{".init_array", ".rela.plt", ".dynsym", ".dynstr"} -> Nat]

VARIABLES
  pc,            \* which call of do_elf_task is running
  at,            \* loop index of the iteration that is running
  input,         \* the section chains of this link
  vaddr,         \* virtual_address of each input chain laid out so far
  virtual_address_offset, sc_size,
  pltgot,        \* PLT_GOT_P->virtual_address
  D,             \* D[].size, or .num where the code counts entries
  chunks,        \* sh_size of the full chunks of each dynamic section
  strs,          \* .dynstr: where each string was stored and the offset returned
  dynsym,        \* the names of the .dynsym entries, the null one first
  rela,          \* the .rela.plt entries, with offset and symbol index
  slots,         \* DynamicImportHashTable: name and .plt.got slot, in order
  needed, dt,    \* the dynamic table
  out_size,      \* p_filesz of PT_LOAD
  fpos,          \* the file position
  infile,        \* file offset of each input chain written so far
  dynfile        \* file offsets of the chunks of each dynamic section

layout == <<input, vaddr, virtual_address_offset, sc_size, pltgot>>
tables == <<D, chunks, strs, dynsym, rela, slots>>
result == <<needed, dt, out_size>>
file == <<fpos, infile, dynfile>>
vars == <<pc, at, layout, tables, result, file>>

\* The dynamic sections in the order their containers are allocated.
Dynamic == <<".plt.got", ".dynamic", ".init_array", ".fini_array",
             ".gnu.hash", ".rela.plt", ".dynsym", ".dynstr">>
DynamicNames == {Dynamic[i] : i \in DOMAIN Dynamic}

DynSize  == 16  \* sizeof(Elf64_Dyn)
SymSize  == 24  \* sizeof(Elf64_Sym)
RelaSize == 24  \* sizeof(Elf64_Rela)
PltSize  == 16
TagCount == 13  \* dynamic_entry_num: DynamicEntryTag without its first entry
FiniAlloc == 32

Init ==
  /\ pc = "addresses" /\ at = 1
  /\ input \in Inputs
  /\ vaddr = <<>> /\ virtual_address_offset = Base + HeaderTail /\ sc_size = 0 /\ pltgot = 0
  /\ D = [n \in DynamicNames |-> 0]
  /\ chunks = [n \in DynamicNames |-> <<>>]
  /\ strs = <<>> /\ dynsym = <<>> /\ rela = <<>> /\ slots = <<>>
  /\ needed = <<>> /\ dt = <<>> /\ out_size = 0
  /\ fpos = 0 /\ infile = <<>> /\ dynfile = [n \in DynamicNames |-> <<>>]

----------------------------------------------------------------------------
(* __z__link__elf_set_virtual_address over the containers                  *)

LastOfContainer(i) == i = Len(input) \/ input[i].sc # input[i + 1].sc

SetVirtualAddress_SizeKept ==
  /\ pc = "addresses" /\ at <= Len(input)
  /\ vaddr' = Append(vaddr, virtual_address_offset + sc_size)
  /\ virtual_address_offset' =
       virtual_address_offset + IF LastOfContainer(at) THEN sc_size + input[at].size ELSE 0
  /\ sc_size' = sc_size + input[at].size
  /\ at' = at + 1
  /\ UNCHANGED <<pc, input, pltgot, tables, result, file>>

\* One chain of a container; behind the last one the container's size is added
\* to virtual_address_offset (output_vaddr_alignment is 0).
SetVirtualAddress ==
  /\ pc = "addresses" /\ at <= Len(input)
  /\ vaddr' = Append(vaddr, virtual_address_offset + sc_size)
  /\ IF LastOfContainer(at)
       THEN /\ virtual_address_offset' = virtual_address_offset + sc_size + input[at].size
            /\ sc_size' = 0
       ELSE /\ sc_size' = sc_size + input[at].size
            /\ UNCHANGED virtual_address_offset
  /\ at' = at + 1
  /\ UNCHANGED <<pc, input, pltgot, tables, result, file>>

\* .plt.got was appended to the containers, empty, so it comes last.  Then
\* add_dynamic: the empty tables and the null symbol.
add_dynamic ==
  /\ pc = "addresses" /\ at = Len(input) + 1
  /\ pltgot' = virtual_address_offset
  /\ D' = [D EXCEPT ![".gnu.hash"] = GnuHashSize, ![".dynstr"] = 1, ![".dynsym"] = 1]
  /\ dynsym' = <<"">>
  /\ pc' = "libraries" /\ at' = 1
  /\ UNCHANGED <<input, vaddr, virtual_address_offset, sc_size, chunks, strs, rela, slots, result, file>>

----------------------------------------------------------------------------
(* The growing tables.  Each operator takes and returns D and chunks as a  *)
(* pair, so that an action can add to several tables.                      *)

\* add_dynamic_sc on an existing container: the full chunk gets its size.  The
\* section's size is not reset.
add_dynamic_sc(t, n) == [t EXCEPT !.chunks[n] = Append(@, t.D[n])]

Grow(t, n, size) ==
  LET u == [t EXCEPT !.D[n] = @ + size]
  IN  IF u.D[n] = Alloc[n] THEN add_dynamic_sc(u, n) ELSE u

\* size and num of a DynamicParams share their storage.
add_dynsym_entry(t, name) ==
  LET u == [t EXCEPT !.D[".dynsym"] = @ + 1, !.dynsym = Append(@, name)]
  IN  IF u.D[".dynsym"] * SymSize = Alloc[".dynsym"]
        THEN add_dynamic_sc([u EXCEPT !.D[".dynsym"] = Alloc[".dynsym"]], ".dynsym")
        ELSE u

add_dynstr_entry_NoNul(t, name, len) ==
  [t EXCEPT !.D[".dynstr"] = @ + len,
            !.strs = Append(@, [name |-> name, chunk |-> 1, pos |-> t.D[".dynstr"],
                                len |-> len, ret |-> t.D[".dynstr"]])]

\* A string that would not fit starts the next chunk.  The offset returned is
\* the size before; the size after counts from the start of the chunk.
add_dynstr_entry(t, name, len) ==
  LET size == t.D[".dynstr"]
      full == Alloc[".dynstr"] < size + len
      u    == IF full THEN add_dynamic_sc(t, ".dynstr") ELSE t
      p    == IF full THEN 0 ELSE size
  IN  [u EXCEPT !.D[".dynstr"] = p + len + 1,
                !.strs = Append(@, [name |-> name, chunk |-> Len(u.chunks[".dynstr"]) + 1,
                                    pos |-> p, len |-> len, ret |-> size])]

\* The slot's address.  alloc_size of .plt.got stays 0, so its test for a full
\* chunk never succeeds.
PltSlot(t) == pltgot + t.D[".plt.got"] * PltSize
add_pltgot_entry(t) == [t EXCEPT !.D[".plt.got"] = @ + 1]

add_rela_plt_entry(t, offset, sym) ==
  Grow([t EXCEPT !.rela = Append(@, [offset |-> offset - Base, sym |-> sym])], ".rela.plt", RelaSize)

Tables == [D |-> D, chunks |-> chunks, strs |-> strs, dynsym |-> dynsym, rela |-> rela, slots |-> slots]
Become(t) ==
  /\ D' = t.D /\ chunks' = t.chunks /\ strs' = t.strs
  /\ dynsym' = t.dynsym /\ rela' = t.rela /\ slots' = t.slots

----------------------------------------------------------------------------
\* The names of the libraries come first into .dynstr.
add_dt_needed ==
  /\ pc = "libraries" /\ at <= Len(Libraries)
  /\ Become([add_dynstr_entry(Tables, "library", Libraries[at])
               EXCEPT !.D[".dynamic"] = @ + 1])
  /\ at' = at + 1
  /\ UNCHANGED <<pc, layout, result, file>>

LibrariesEnd ==
  /\ pc = "libraries" /\ at = Len(Libraries) + 1
  /\ pc' = "exports" /\ at' = 1
  /\ UNCHANGED <<layout, tables, result, file>>

add_export_symbol(name) ==
  /\ pc = "exports" /\ at <= MaxExports
  /\ LET t == add_dynsym_entry(add_dynstr_entry(Tables, name, Length[name]), name)
     IN  Become([t EXCEPT !.D[".gnu.hash"] = @ + 4])
  /\ at' = at + 1
  /\ UNCHANGED <<pc, layout, result, file>>

ExportsEnd ==
  /\ pc = "exports" /\ pc' = "relocs" /\ at' = 1
  /\ UNCHANGED <<layout, tables, result, file>>

\* A step of do_reloc that leaves the tables as t.
Reloc(t) ==
  /\ pc = "relocs" /\ at <= MaxRelocs
  /\ Become(t)
  /\ at' = at + 1
  /\ UNCHANGED <<pc, layout, result, file>>

\* find_sym2 finds the name in the hash table, which holds the first symbols.
Exported(name) ==
  \E i \in 2 .. 1 + (D[".gnu.hash"] - GnuHashSize) \div 4 : dynsym[i] = name
Imported(name) == \E i \in DOMAIN slots : slots[i].name = name

NewSlot_SymbolOffByOne(name) ==
  LET r == PltSlot(Tables)
      t == add_dynsym_entry(add_dynstr_entry(add_pltgot_entry(Tables), name, Length[name]), name)
      u == add_rela_plt_entry(t, r + 8, t.D[".dynsym"] - 2)
  IN  [u EXCEPT !.slots = Append(@, [name |-> name, r |-> r])]

\* __z__link__add_dynamic_entry when the name is looked up and found nothing,
\* or is not looked up.
NewSlot(name) ==
  LET r == PltSlot(Tables)
      t == add_dynsym_entry(add_dynstr_entry(add_pltgot_entry(Tables), name, Length[name]), name)
      u == add_rela_plt_entry(t, r + 8, t.D[".dynsym"] - 1)
  IN  [u EXCEPT !.slots = Append(@, [name |-> name, r |-> r])]
\* R_X86_64_PC32, PLT32, 32S: the tables grow at the first use of a name no
\* object exports.
ResolveCall(name) == Reloc(IF Exported(name) \/ Imported(name) THEN Tables ELSE NewSlot(name))

\* R_X86_64_REX_GOTPCRELX: a slot of its own each time.
ResolveGot(name) == Reloc(NewSlot(name))

\* R_X86_64_64 against a name no object exports: __z__link__add_dynamic_entry2.
ResolveData(name, src) ==
  LET t == add_dynsym_entry(add_dynstr_entry(Tables, name, Length[name]), name)
  IN  ~Exported(name) /\ Reloc(add_rela_plt_entry(t, src, t.D[".dynsym"] - 1))

\* R_X86_64_64 against a name or section of the inputs: R_X86_64_RELATIVE.
ResolveRelative(src) == Reloc(add_rela_plt_entry(Tables, src, 0))

\* An entry of .rela.init_array against an exported name.
add_init_array(name) == Exported(name) /\ Reloc(Grow(Tables, ".init_array", 8))

\* The same for .rela.fini_array.  There is no test for a full buffer: the
\* model stays below it.
add_fini_array(name) ==
  /\ Exported(name) /\ D[".fini_array"] < FiniAlloc
  /\ Reloc([Tables EXCEPT !.D[".fini_array"] = @ + 8])

\* A symbol of a type that is not supported.
ResolveSkipped == Reloc(Tables)

\* A relocation type that is not supported, or fill_address finds the word
\* filled already or nothing to fill: for (;;).
ResolveSpins ==
  /\ pc = "relocs" /\ at <= MaxRelocs
  /\ pc' = "spin"
  /\ UNCHANGED <<at, layout, tables, result, file>>

RelocsEnd ==
  /\ pc = "relocs" /\ pc' = "dynamic" /\ at' = 1
  /\ UNCHANGED <<layout, tables, result, file>>

----------------------------------------------------------------------------
(* __z__link__set_dynanmic                                                 *)

\* The string of the current chunk that p points into ends at the next 0 byte.
Chunk == Len(chunks[".dynstr"]) + 1
IsNul(q) == \A i \in DOMAIN strs :
              strs[i].chunk = Chunk => q \notin strs[i].pos .. strs[i].pos + strs[i].len - 1
NextString(p) == 1 + CHOOSE q \in p .. p + Alloc[".dynstr"] :
                       IsNul(q) /\ \A r \in p .. q - 1 : ~IsNul(r)

\* One DT_NEEDED entry per library, whose offset is found by walking .dynstr.
SetNeeded ==
  /\ pc = "dynamic" /\ Len(needed) < D[".dynamic"]
  /\ needed' = Append(needed, IF needed = <<>> THEN 1 ELSE NextString(needed[Len(needed)]))
  /\ UNCHANGED <<pc, at, layout, tables, dt, out_size, file>>

dynamic_entry_num == TagCount + D[".dynamic"]

\* What set_dynamic_entry stores through size_p: the size of the last chunk.
LastSize(n) ==
  CASE n = ".plt.got" -> D[n] * PltSize
    [] n = ".dynamic" -> dynamic_entry_num * DynSize
    [] n = ".dynsym"  -> (1 + D[n]) * SymSize
    [] OTHER          -> D[n]

dt_at_NeededForgotten(k) ==
  LET from == pltgot + D[".plt.got"] * PltSize - Base + TagCount * DynSize
      init == from + D[".init_array"]
      fini == init + D[".fini_array"]
      hash == fini + D[".gnu.hash"]
      rel  == hash + D[".rela.plt"]
      sym  == rel + LastSize(".dynsym")
      str  == sym + D[".dynstr"]
  IN  <<from, init, fini, hash, rel, sym, str>>[k]

\* The running offset r of set_dynanmic: where the k-th of .init_array,
\* .fini_array, .gnu.hash, .rela.plt, .dynsym, .dynstr starts, 7 for the end.
dt_at(k) ==
  LET from == pltgot + D[".plt.got"] * PltSize - Base + dynamic_entry_num * DynSize
      init == from + D[".init_array"]
      fini == init + D[".fini_array"]
      hash == fini + D[".gnu.hash"]
      rel  == hash + D[".rela.plt"]
      sym  == rel + LastSize(".dynsym")
      str  == sym + D[".dynstr"]
  IN  <<from, init, fini, hash, rel, sym, str>>[k]

\* The loop runs over dynamic_entry_num tags but the table has TagCount of them:
\* behind it lie words that are no tag set_dynamic_entry knows, and the entries
\* made of them are behind the end of the section that is written.
SetEntries ==
  /\ pc = "dynamic" /\ Len(needed) = D[".dynamic"]
  /\ dt' = [k \in 1 .. 6 |-> dt_at(k)]
  /\ out_size' = dt_at(7)
  /\ chunks' = [n \in DynamicNames |-> Append(chunks[n], LastSize(n))]
  /\ pc' = "emit" /\ at' = 1
  /\ fpos' = HeaderTail
  /\ UNCHANGED <<layout, D, strs, dynsym, rela, slots, needed, infile, dynfile>>

----------------------------------------------------------------------------
(* gen_elf: write_raw_data over the containers                             *)

WriteInput ==
  /\ pc = "emit" /\ at <= Len(input)
  /\ infile' = Append(infile, fpos)
  /\ fpos' = fpos + input[at].size
  /\ at' = at + 1
  /\ UNCHANGED <<pc, layout, tables, result, dynfile>>

WriteDynamic ==
  /\ pc = "emit" /\ at \in Len(input) + 1 .. Len(input) + Len(Dynamic)
  /\ LET n == Dynamic[at - Len(input)]
         j == Len(dynfile[n]) + 1
     IN  /\ dynfile' = [dynfile EXCEPT ![n] = Append(@, fpos)]
         /\ fpos' = fpos + chunks[n][j]
         /\ at' = IF j = Len(chunks[n]) THEN at + 1 ELSE at
  /\ UNCHANGED <<pc, layout, tables, result, infile>>

WriteEnd ==
  /\ pc = "emit" /\ at = Len(input) + Len(Dynamic) + 1
  /\ pc' = "done"
  /\ UNCHANGED <<at, layout, tables, result, file>>

Stop == pc \in {"done", "spin"} /\ UNCHANGED vars

do_reloc ==
  \/ \E name \in Names : ResolveCall(name)
  \/ \E name \in Names : ResolveGot(name)
  \/ \E name \in Names : \E i \in DOMAIN vaddr : ResolveData(name, vaddr[i])
  \/ \E i \in DOMAIN vaddr : ResolveRelative(vaddr[i])
  \/ \E name \in Names : add_init_array(name)
  \/ \E name \in Names : add_fini_array(name)
  \/ ResolveSkipped \/ ResolveSpins

Next ==
  \/ SetVirtualAddress \/ add_dynamic
  \/ add_dt_needed \/ LibrariesEnd
  \/ (\E name \in Names : add_export_symbol(name)) \/ ExportsEnd
  \/ do_reloc \/ RelocsEnd
  \/ SetNeeded \/ SetEntries
  \/ WriteInput \/ WriteDynamic \/ WriteEnd
  \/ Stop

Spec == Init /\ [][Next]_vars

----------------------------------------------------------------------------
(* Properties                                                              *)

\* The one PT_LOAD maps the file at base_address, so what relocation assumed of
\* an input section holds only if gen_elf wrote it at its address less the base,
\* and the slots lie where add_pltgot_entry said.
InputsAtTheirAddresses ==
  /\ \A i \in DOMAIN infile : infile[i] + Base = vaddr[i]
  /\ dynfile[".plt.got"] # <<>> => dynfile[".plt.got"][1] + Base = pltgot

\* Section n has not started a second chunk; set_dynanmic closes the last one.
OneChunk(n) == Len(chunks[n]) <= IF pc \in {"emit", "done"} THEN 1 ELSE 0

AddressesMatch ==
  /\ \A k \in 1 .. 6 : dynfile[Dynamic[k + 2]][1] = dt[k]
  /\ out_size = fpos

\* set_dynanmic adds up sizes before anything is written: as long as no table
\* filled its chunk, every address it put into the dynamic table is where
\* gen_elf wrote that section, and PT_LOAD ends where the file ends.  When
\* add_init_array fills its chunk and starts another (dynamic.c:437-441),
\* add_dynamic_sc leaves D[].size as it is: gen_elf writes the old entries' bytes
\* with both chunks where set_dynanmic counted them once, and the addresses of
\* the sections behind are wrong.
DynamicAddressesMatchFile ==
  pc = "done" /\ (\A n \in DynamicNames : OneChunk(n)) => AddressesMatch

\* Where a string lies in the .dynstr that is written.
InDynstr(s) == dynfile[".dynstr"][s.chunk] - dynfile[".dynstr"][1] + s.pos

\* The offset a symbol got for its name is where the name is written, and the
\* DT_NEEDED offsets, found again by walking .dynstr long after symbols were
\* added behind the libraries, are where add_dt_needed stored their names; as
\* long as .dynstr has one chunk, since the offsets of strings behind the first
\* in another one count from the start of that chunk (dynamic.c:302-305).
NamesAtTheirOffsets ==
  pc = "done" /\ OneChunk(".dynstr") =>
    /\ \A i \in DOMAIN strs : strs[i].ret = InDynstr(strs[i])
    /\ Len(needed) = Len(Libraries)
    /\ \A i \in DOMAIN needed : needed[i] = InDynstr(strs[i])

\* Every .plt.got slot a call or GOT reference was sent to has exactly one
\* relocation that fills its address word, for a symbol of the name it was made
\* for; no two slots overlap and all of them are written.  When a chunk of
\* .dynsym is full its count becomes the chunk's size in bytes (dynamic.c:286).
SlotsResolveTheirNames ==
  OneChunk(".dynsym") => \A i \in DOMAIN slots :
    /\ \E k \in DOMAIN rela :
         /\ rela[k].offset = slots[i].r + 8 - Base
         /\ dynsym[rela[k].sym + 1] = slots[i].name
         /\ \A l \in DOMAIN rela : rela[l].offset = rela[k].offset => l = k
    /\ \A j \in DOMAIN slots : i < j => slots[i].r + PltSize <= slots[j].r
    /\ slots[i].r + PltSize <= pltgot + D[".plt.got"] * PltSize
=============================================================================
