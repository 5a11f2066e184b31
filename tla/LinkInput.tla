----------------------------- MODULE LinkInput ------------------------------
(***************************************************************************)
(* The first half of the ELF linker: main of src/tools/zld.c maps the      *)
(* object files one after the other and runs two callbacks                 *)
(* (src/core/link/elf/callback.c), the first on every section header and   *)
(* the second on every symbol.  They build the lists of link/section.c,    *)
(* link/object.c and link/elf/symbol.c that the second half works on:      *)
(*   - the section containers, one per name, each a chain of the sections  *)
(*     of that name in the order they were met;                            *)
(*   - per object, the chain of relocation sections and the chain of       *)
(*     exported symbols.                                                   *)
(*                                                                         *)
(* The content of a file is chosen as it is read.  A section is <<o, k>>,  *)
(* the k-th header of the o-th file; the null header that starts every     *)
(* section table is the action alloc_obj_chain.  SymbolChain.schain is     *)
(* always the first section of its object and is only logged, so it is     *)
(* left out.                                                               *)
(***************************************************************************)
EXTENDS Integers, Sequences, FiniteSets, FiniteSetsExt

CONSTANTS
  Sections,    \* the headers a file may hold, records [name, type]
  Symbols,     \* the symbols a file may define, records [name, kind]
  ByteMod,     \* 2^8: the container and the chain index are a uint8_t each
  InterpLen,   \* strlen(interp_name) + 1, or 0 with -nointerp
  MaxObjects, MaxSections, MaxSymbols  \* bounds on the inputs

ASSUME ByteModAssumption == ByteMod \in Nat \ {0}
ASSUME InterpLenAssumption == InterpLen \in Nat

\* As assemblers write them, sections have a name, and only a note is named
\* .note.gnu.property.
ASSUME SectionsAssumption ==
  \A s \in Sections :
    /\ s.type \in {"PROGBITS", "NOBITS", "SYMTAB", "STRTAB", "RELA", "NOTE", "OTHER"}
    /\ s.name # ""
    /\ s.name = ".note.gnu.property" => s.type = "NOTE"

VARIABLES
  pc,           \* "sections", "symbols", "spin", "refused" or "done"
  shdrs,        \* the headers read of each object
  containers,   \* the section containers; the first is the nameless one
  rela,         \* the relocation chain of each object
  exported,     \* the exported symbols of each object
  strtab,       \* how often the map base was added to str_table_p
  symbolsRead,  \* symbols read of the last object
  has_gnu_property, program_header_num, program_header_tail

headers == <<has_gnu_property, program_header_num, program_header_tail>>
vars == <<pc, shdrs, containers, rela, exported, strtab, symbolsRead, headers>>

Ehdr == 64
Phdr == 56
Property == ".note.gnu.property"
NoName == ""

current == Len(shdrs)
Section(x) == shdrs[x[1]][x[2]]
SectionsRead == UNION {{o} \X DOMAIN shdrs[o] : o \in DOMAIN shdrs}

----------------------------------------------------------------------------
(* link/section.c                                                          *)

match_section_LastOnly(name) == {c \in {Len(containers)} : containers[c].name = name}

\* The container of that name, if any; the nameless one never matches.
match_section(name) == {c \in 2 .. Len(containers) : containers[c].name = name}

\* alloc_section_container when there is none of that name, then
\* alloc_section_chain: append the section.
insert(x, name) ==
  containers' =
    IF match_section(name) = {} THEN Append(containers, [name |-> name, chain |-> <<x>>])
    ELSE [containers EXCEPT ![Min(match_section(name))].chain = Append(@, x)]

Places == UNION {{c} \X DOMAIN containers[c].chain : c \in DOMAIN containers}
At(place) == containers[place[1]].chain[place[2]]

IndexOf_ChainOnly(place) == ByteMod + ((place[2] - 1) % ByteMod)

\* Both counters start at 0 and are uint8_t.
IndexOf(place) == ((place[1] - 1) % ByteMod) * ByteMod + ((place[2] - 1) % ByteMod)
Before(p, q) == p[1] < q[1] \/ (p[1] = q[1] /\ p[2] <= q[2])
First(places) == CHOOSE p \in places : \A q \in places : Before(p, q)

\* 0 when the section is in no container of that name.
get_section_index_by_name(name, x) ==
  LET places == {p \in Places : containers[p[1]].name = name /\ At(p) = x}
  IN  IF places = {} THEN 0 ELSE IndexOf(First(places))

\* The first place the index fits.
get_section_chain_by_index(index) == First({p \in Places : IndexOf(p) = index})

----------------------------------------------------------------------------
(* Reading the object files                                                *)

Init ==
  /\ pc = "symbols" /\ symbolsRead = 0
  /\ shdrs = <<>> /\ rela = <<>> /\ exported = <<>> /\ strtab = <<>>
  /\ containers = <<[name |-> NoName, chain |-> <<>>]>>
  /\ has_gnu_property = FALSE
  /\ program_header_num = IF InterpLen = 0 THEN 3 ELSE 4
  /\ program_header_tail = Ehdr + (IF InterpLen = 0 THEN 3 ELSE 4) * Phdr + InterpLen

\* The next file: its null section header allocates the object.
alloc_obj_chain ==
  /\ pc = "symbols" /\ current < MaxObjects
  /\ pc' = "sections" /\ symbolsRead' = 0
  /\ shdrs' = Append(shdrs, <<>>)
  /\ rela' = Append(rela, <<>>)
  /\ exported' = Append(exported, <<>>)
  /\ strtab' = Append(strtab, 0)
  /\ UNCHANGED <<containers, headers>>

\* There is one .symtab, one .strtab and one of each relocation section at most.
MayFollow(s) ==
  /\ Len(shdrs[current]) < MaxSections
  /\ s.type \in {"SYMTAB", "STRTAB", "RELA"} => \A k \in DOMAIN shdrs[current] : shdrs[current][k] # s

alloc_reloc_chain(s) == s.name \in {".rela.text", ".rela.data", ".rela.init_array", ".rela.fini_array"}

\* The new entry is linked behind the head, whatever was there.
LinkRela(ends, x) == IF ends = <<>> THEN <<x>> ELSE <<ends[1], x>>

ReserveProperty_NoTail ==
  /\ has_gnu_property' = TRUE
  /\ program_header_num' = program_header_num + 1
  /\ UNCHANGED program_header_tail

\* The headers grow by one program header, the tail by the size of two.
ReserveProperty ==
  /\ has_gnu_property' = TRUE
  /\ program_header_num' = program_header_num + 1
  /\ program_header_tail' = program_header_tail + Phdr + Phdr

\* SHT_NOTE: nothing more once a property note was met.
OnNote(s, x) ==
  IF has_gnu_property THEN UNCHANGED <<containers, headers>>
  ELSE /\ insert(x, s.name)
       /\ IF s.name = Property THEN ReserveProperty ELSE UNCHANGED headers

\* SHT_SYMTAB: str_table_p is the map base plus the offset in the header of
\* .strtab, which already holds the base if .strtab was visited before.
StrTableBase == IF \E k \in DOMAIN shdrs[current] : shdrs[current][k].type = "STRTAB" THEN 2 ELSE 1

on_section_callback_for_link(s) ==
  LET x == <<current, Len(shdrs[current]) + 1>>
  IN  /\ pc = "sections" /\ MayFollow(s)
      /\ shdrs' = [shdrs EXCEPT ![current] = Append(@, s)]
      /\ rela' = IF s.type = "RELA" /\ alloc_reloc_chain(s)
                 THEN [rela EXCEPT ![current] = LinkRela(@, x)] ELSE rela
      /\ strtab' = IF s.type = "SYMTAB"
                   THEN [strtab EXCEPT ![current] = StrTableBase] ELSE strtab
      /\ CASE s.type \in {"PROGBITS", "NOBITS", "SYMTAB"} -> insert(x, s.name) /\ UNCHANGED headers
           [] s.type = "NOTE" -> OnNote(s, x)
           [] OTHER -> UNCHANGED <<containers, headers>>
      /\ UNCHANGED <<pc, exported, symbolsRead>>

SectionsEnd ==
  /\ pc = "sections" /\ pc' = "symbols"
  /\ UNCHANGED <<shdrs, containers, rela, exported, strtab, symbolsRead, headers>>

\* A symbol of default visibility that is neither undefined, absolute, common
\* nor a section symbol is exported; its st_shndx becomes the index of its
\* section.  The linker spins when the section is in no container.  Names are
\* only read here when str_table_p is right.
on_elf_symtab_callback_for_link(y, k) ==
  LET x     == <<current, k>>
      index == get_section_index_by_name(Section(x).name, x)
      isExp == y.kind = "default"
  IN  /\ pc = "symbols" /\ current > 0 /\ symbolsRead < MaxSymbols
      /\ strtab[current] = 1
      /\ symbolsRead' = symbolsRead + 1
      /\ exported' = IF isExp
           THEN [exported EXCEPT ![current] = Append(@, [name |-> y.name, section |-> x, index |-> index])]
           ELSE exported
      /\ pc' = IF isExp /\ index = 0 THEN "spin" ELSE "symbols"
      /\ UNCHANGED <<shdrs, containers, rela, strtab, headers>>

\* A file that does not exist, or of a format that is not supported, ends main.
InputRefused ==
  /\ pc = "symbols" /\ pc' = "refused"
  /\ UNCHANGED <<shdrs, containers, rela, exported, strtab, symbolsRead, headers>>

\* No file is left: do_elf_task follows.
FilesEnd ==
  /\ pc = "symbols" /\ current > 0
  /\ pc' = "done"
  /\ UNCHANGED <<shdrs, containers, rela, exported, strtab, symbolsRead, headers>>

Stop == pc \in {"spin", "refused", "done"} /\ UNCHANGED vars

Next ==
  \/ alloc_obj_chain
  \/ \E s \in Sections : on_section_callback_for_link(s)
  \/ SectionsEnd
  \/ \E y \in Symbols : \E k \in 1 .. (IF current = 0 THEN 0 ELSE Len(shdrs[current])) :
       on_elf_symtab_callback_for_link(y, k)
  \/ InputRefused
  \/ FilesEnd
  \/ Stop

Spec == Init /\ [][Next]_vars

----------------------------------------------------------------------------
(* Properties                                                              *)

\* The 16-bit index stored in st_shndx when a symbol is read still finds the
\* symbol's section, by get_section_chain_by_index, whatever containers and
\* chains later objects appended to.  "index is composed of container's index
\* and chain index" (link/section.c:110).
IndexFindsSection ==
  \A o \in DOMAIN exported : \A i \in DOMAIN exported[o] :
    exported[o][i].index # 0 =>
      At(get_section_chain_by_index(exported[o][i].index)) = exported[o][i].section

\* Every section with content is in exactly one chain, that of the container
\* of its name; there is one container per name, and a chain keeps the order
\* of the command line, so each object's part of it is contiguous.  Of an
\* object's relocation sections the first and the last are kept: every other one
\* is replaced by the next.
EverySectionPlaced ==
  /\ \A x \in SectionsRead : Section(x).type \in {"PROGBITS", "NOBITS", "SYMTAB"} =>
       \E p \in Places : At(p) = x /\ \A q \in Places : At(q) = x => q = p
  /\ \A p \in Places : containers[p[1]].name = Section(At(p)).name
  /\ \A c, d \in DOMAIN containers : containers[c].name = containers[d].name => c = d
  /\ \A p, q \in Places : p[1] = q[1] /\ p[2] < q[2] => Before(At(p), At(q))
  /\ \A o \in DOMAIN rela :
       LET relas == {x \in SectionsRead :
                      x[1] = o /\ Section(x).type = "RELA" /\ alloc_reloc_chain(Section(x))}
       IN  Range(rela[o]) = {x \in relas : (\A y \in relas : Before(x, y)) \/ (\A y \in relas : Before(y, x))}

\* write_fixed_program_header writes PT_PHDR, PT_LOAD, PT_DYNAMIC, PT_INTERP
\* unless -nointerp, and PT_GNU_PROPERTY when gen_elf meets that container.
ProgramHeadersWritten ==
  3 + (IF InterpLen = 0 THEN 0 ELSE 1) +
  (IF \E c \in DOMAIN containers : containers[c].name = Property THEN 1 ELSE 0)

\* gen_elf writes the sections from program_header_tail on and then goes back
\* to write the headers: their number is the one in e_phnum, and they and the
\* interpreter's name end before the first section.
HeadersFit ==
  /\ program_header_num = ProgramHeadersWritten
  /\ Ehdr + ProgramHeadersWritten * Phdr + InterpLen <= program_header_tail
=============================================================================
