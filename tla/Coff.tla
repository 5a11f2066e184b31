-------------------------------- MODULE Coff -------------------------------
(***************************************************************************)
(* The linker zld on COFF objects for x64 (-f win64): the callbacks of     *)
(* src/core/link/coff/callback.c on each section and symbol of an object,  *)
(* then do_coff_task of src/tools/zld.c: .edata, addresses, exports with   *)
(* their DT_HASH table, relocation with imports, .plt and .idata, and the  *)
(* bytes of the PE file.                                                   *)
(*                                                                         *)
(* `world' is the list of objects on the command line.  A section is       *)
(* <<object, number>>.  Section names are at most 8 letters; the kind of a *)
(* relocation is left out: `filled' is the address that it refers to.      *)
(***************************************************************************)
EXTENDS Integers, Sequences, SequencesExt, FiniteSets, FiniteSetsExt, Functions

CONSTANTS
  Worlds,     \* sequences of objects [sections, symbols]
  Names,      \* symbol names
  NameLen,    \* their lengths, and those of DLLs
  HashOf,     \* sysv_hash modulo nbucket
  Dll,        \* init_hashtable: the DLL of some names
  OutLen,     \* length of outfile_name
  NBucket,    \* buckets of the DT_HASH table: 100
  MaxChain    \* last index of its chains: 147, the rest of 1000 bytes

Unnamed == "name and value"   \* a name that runs into the bytes behind it

ASSUME TablesAssumption ==
  /\ HashOf \in [Names \cup {Unnamed} -> 0 .. NBucket - 1] /\ NBucket \in Nat \ {0} /\ MaxChain \in Nat
  /\ DOMAIN Dll \subseteq Names /\ OutLen \in Nat
  /\ \A n \in Names \cup Range(Dll) : NameLen[n] \in Nat \ {0}

SectionRows == [name : STRING, size : Nat, relocs : Seq(Nat)]
SymbolRows == [name : Names, class : Nat, section : Int, value : Nat, aux : Nat]
Objects == [sections : Seq(SectionRows), symbols : Seq(SymbolRows)]

\* Each object has a section and a symbol, a relocation refers to a symbol of its
\* object, and a static symbol it refers to lies in a section.
ASSUME WorldsAssumption ==
  \A w \in Worlds :
    /\ w \in Seq(Objects) /\ w # <<>>
    /\ \A o \in DOMAIN w :
         /\ w[o].sections # <<>> /\ w[o].symbols # <<>>
         /\ \A s \in DOMAIN w[o].sections : \A r \in Range(w[o].sections[s].relocs) :
              /\ r \in DOMAIN w[o].symbols
              /\ w[o].symbols[r].class = 3 => w[o].symbols[r].section \in DOMAIN w[o].sections

VARIABLES
  world, phase,
  at,           \* [obj, row]: where the running iteration is
  aux,          \* aux_symbols
  containers,   \* [name, chain, size]: chain is a sequence of sections
  exports,      \* rows [obj, row] in the objects' symbol chains
  exportLen, importLen,     \* export_directory_len, import_directory_len
  offset, plt,  \* virtual_address_offset, plt_offset
  va,           \* section -> virtual address
  names, functions,         \* AddressOfNames, AddressOfFunctions
  exportEnd,    \* where the last string of .edata ends
  bucket, chain,            \* the DT_HASH table
  ever,         \* name -> its entry's offset, 0 at first
  imports,      \* InitialImport: [dll, funcs]
  filled,       \* per relocation, in the order of Sites: the address it refers to
  pltSize,
  stubs, iat,   \* .plt: address -> slot;  .idata: slot -> name
  directory,    \* DLL -> slots that its import descriptor covers
  importEnd,    \* where the last string of .idata ends
  pieces, outSize           \* what was written: [sec, pos, size]; out_size

inputVars == <<aux, containers, exports, exportLen>>
exportVars == <<names, functions, exportEnd, bucket, chain>>
importVars == <<importLen, ever, imports>>
tableVars == <<pltSize, stubs, iat, directory, importEnd>>
outVars == <<pieces, outSize>>
vars == <<world, phase, at, inputVars, offset, plt, va, exportVars, importVars, filled,
          tableVars, outVars>>

Descriptor == 20      \* sizeof(IMAGE_IMPORT_DESCRIPTOR)
ExportDirectory == 40 \* sizeof(IMAGE_EXPORT_DIRECTORY)
Base == 4096          \* the address of the image's one section
HeaderSize == 512     \* FILE_ALIGNMENT, and get_header_size with one section

Init ==
  /\ world \in Worlds /\ phase = "sections" /\ at = [obj |-> 1, row |-> 1]
  /\ aux = 0 /\ containers = <<>> /\ exports = <<>> /\ exportLen = 0
  /\ offset = Base /\ plt = 0 /\ va = << >>
  /\ names = <<>> /\ functions = <<>> /\ exportEnd = 0
  /\ bucket = [b \in 0 .. NBucket - 1 |-> 0] /\ chain = [i \in 0 .. MaxChain |-> 0]
  /\ importLen = 0 /\ ever = [n \in DOMAIN Dll |-> 0] /\ imports = <<>>
  /\ filled = <<>> /\ pltSize = 0 /\ stubs = << >> /\ iat = << >> /\ directory = << >> /\ importEnd = 0
  /\ pieces = <<>> /\ outSize = 0

Obj == world[at.obj]
Section(s) == world[s[1]].sections[s[2]]
EData == <<Len(world), 0>>
Plt == <<Len(world), -1>>
IData == <<Len(world), -2>>

\* A name of 8 letters has no end: the symbol's value, if not 0, belongs to it.
GET_NAME(sym) == IF NameLen[sym.name] = 8 /\ sym.value # 0 THEN Unnamed ELSE sym.name
Length(name) == IF name = Unnamed THEN 9 ELSE NameLen[name]

----------------------------------------------------------------------------
(* Reading the objects                                                     *)

\* match_section, or a container of its own behind the others.
section_callback ==
  LET name == Obj.sections[at.row].name
      box  == SelectInSeq(containers, LAMBDA c : c.name = name)
      sec  == <<at.obj, at.row>>
  IN
  /\ phase = "sections"
  /\ containers' =
       IF box = 0 THEN Append(containers, [name |-> name, chain |-> <<sec>>, size |-> 0])
       ELSE [containers EXCEPT ![box].chain = Append(@, sec)]
  /\ IF at.row = Len(Obj.sections)
       THEN phase' = "symbols" /\ at' = [at EXCEPT !.row = 1]
       ELSE UNCHANGED phase /\ at' = [at EXCEPT !.row = @ + 1]
  /\ UNCHANGED <<world, aux, exports, exportLen, offset, plt, va, exportVars, importVars,
                 filled, tableVars, outVars>>

\* Rows that belong to the symbol in front of them are skipped.
AuxAfter(sym) == IF aux > 0 THEN aux - 1 ELSE sym.aux

External(sym) == sym.class = 2 /\ sym.section # 0

symtab_callback ==
  LET sym == Obj.symbols[at.row]
      counted == aux = 0 /\ External(sym)
      first == IF exportLen = 0 THEN ExportDirectory + OutLen + 1 ELSE exportLen
  IN
  /\ phase = "symbols"
  /\ aux' = AuxAfter(sym)
  /\ IF counted
       THEN /\ exports' = Append(exports, at)
            /\ exportLen' = first + 4 + 4 + 2 + Length(GET_NAME(sym)) + 1
       ELSE UNCHANGED <<exports, exportLen>>
  /\ CASE at.row < Len(Obj.symbols) -> UNCHANGED phase /\ at' = [at EXCEPT !.row = @ + 1]
       [] at.row = Len(Obj.symbols) /\ at.obj < Len(world) ->
            phase' = "sections" /\ at' = [obj |-> at.obj + 1, row |-> 1]
       [] OTHER -> phase' = "edata" /\ UNCHANGED at
  /\ UNCHANGED <<world, containers, offset, plt, va, exportVars, importVars, filled,
                 tableVars, outVars>>

----------------------------------------------------------------------------
(* do_coff_task: addresses and exports                                     *)

SizeOf(s) ==
  CASE s = EData -> exportLen [] s = Plt -> pltSize [] s = IData -> importLen
    [] OTHER -> Section(s).size

\* add_coff_section(".edata"): without an export, add_export writes its tables
\* into a block of no length.
add_edata ==
  /\ phase = "edata"
  /\ containers' = Append(containers, [name |-> ".edata", chain |-> <<EData>>, size |-> 0])
  /\ phase' = IF exportLen = 0 THEN "stuck" ELSE "addresses"
  /\ at' = [obj |-> 1, row |-> 1]
  /\ UNCHANGED <<world, aux, exports, exportLen, offset, plt, va, exportVars, importVars,
                 filled, tableVars, outVars>>

\* The first n of the numbers f, and all of them.
SumUpTo(f, n) ==
  LET sum[i \in 0 .. Len(f)] == IF i = 0 THEN 0 ELSE sum[i - 1] + f[i] IN sum[n]
Total(f) == SumUpTo(f, Len(f))

SizeUpTo(chn, n) == SumUpTo([i \in DOMAIN chn |-> SizeOf(chn[i])], n)

\* One container: its sections one behind the other, with no alignment.
set_virtual_address ==
  LET c == containers[at.row] IN
  /\ phase = "addresses"
  /\ va' = [i \in Range(c.chain) \cup DOMAIN va |->
              IF i \in Range(c.chain)
                THEN offset + SizeUpTo(c.chain, SelectInSeq(c.chain, LAMBDA s : s = i) - 1)
                ELSE va[i]]
  /\ containers' = [containers EXCEPT ![at.row].size = SizeUpTo(c.chain, Len(c.chain))]
  /\ offset' = offset + SizeUpTo(c.chain, Len(c.chain))
  /\ plt' = offset'
  /\ IF at.row = Len(containers)
       THEN phase' = "export" /\ at' = [obj |-> 1, row |-> 1]
       ELSE UNCHANGED phase /\ at' = [at EXCEPT !.row = @ + 1]
  /\ UNCHANGED <<world, aux, exports, exportLen, exportVars, importVars, filled, tableVars, outVars>>

----------------------------------------------------------------------------
(* The DT_HASH table: index 0 reads as the end of a chain.                 *)

\* The indexes from b on.
Linked(b) ==
  LET i[n \in 0 .. MaxChain + 1] ==
        IF n = 0 THEN b ELSE IF i[n - 1] = 0 THEN 0 ELSE chain[i[n - 1]]
  IN  Range(i) \ {0}

add_dt_hash_entry_Replaces(name, i) ==
  bucket' = [bucket EXCEPT ![HashOf[name]] = i] /\ UNCHANGED chain

add_dt_hash_entry(name, i) ==
  LET b == bucket[HashOf[name]] IN
  IF b = 0 THEN bucket' = [bucket EXCEPT ![HashOf[name]] = i] /\ UNCHANGED chain
  ELSE chain' = [chain EXCEPT ![Max(Linked(b))] = i] /\ UNCHANGED bucket

\* The address of the first entry of this name, or 0.
sysv_lookup(name) ==
  LET hits == {i \in Linked(bucket[HashOf[name]]) : names[i + 1] = name}
  IN  IF hits = {} THEN 0 ELSE functions[Min(hits) + 1]

Symbol(e) == world[e.obj].symbols[e.row]

\* alloc_export_symbol_chain looks for the symbol's section and stays at the
\* first of its object.
ExportAddress(e) == va[<<e.obj, 1>>] + Symbol(e).value

\* One symbol of add_export.
add_export ==
  LET i == Len(functions)
      name == GET_NAME(Symbol(exports[i + 1]))
      begin == ExportDirectory + OutLen + 1 + (2 + 4 + 4) * Len(exports)
  IN
  /\ phase = "export" /\ i < Len(exports)
  /\ names' = Append(names, name)
  /\ functions' = Append(functions, ExportAddress(exports[i + 1]))
  /\ exportEnd' = (IF i = 0 THEN begin ELSE exportEnd) + Length(name) + 1
  /\ IF i > MaxChain
       THEN phase' = "stuck" /\ UNCHANGED <<bucket, chain>>
       ELSE add_dt_hash_entry(name, i) /\ UNCHANGED phase
  /\ UNCHANGED <<world, at, inputVars, offset, plt, va, importVars, filled, tableVars, outVars>>

exported ==
  /\ phase = "export" /\ Len(functions) = Len(exports)
  /\ phase' = "reloc"
  /\ UNCHANGED <<world, at, inputVars, offset, plt, va, exportVars, importVars, filled,
                 tableVars, outVars>>

----------------------------------------------------------------------------
(* coff_do_reloc and __coff_resolve                                        *)

Relocs(s) == IF s[2] <= 0 THEN <<>> ELSE [n \in DOMAIN Section(s).relocs |-> [sec |-> s, n |-> n]]

\* Every relocation, in the order of containers and of the sections in them.
Sites == FlattenSeq([b \in DOMAIN containers |->
           FlattenSeq([k \in DOMAIN containers[b].chain |-> Relocs(containers[b].chain[k])])])

Site == Sites[at.row]
Referred(site) == world[site.sec[1]].symbols[Section(site.sec).relocs[site.n]]

Resolving(class) == phase = "reloc" /\ at.row <= Len(Sites) /\ Referred(Site).class = class
Fill(address) == filled' = Append(filled, address)
NextReloc == /\ at' = [at EXCEPT !.row = @ + 1]
             /\ UNCHANGED <<world, phase, inputVars, offset, va, exportVars, tableVars, outVars>>

resolve_static ==
  /\ Resolving(3)
  /\ Fill(Referred(Site).value + va[<<Site.sec[1], Referred(Site).section>>])
  /\ NextReloc /\ UNCHANGED <<plt, importVars>>

resolve_defined ==
  LET address == sysv_lookup(GET_NAME(Referred(Site))) IN
  /\ Resolving(2) /\ address # 0
  /\ Fill(address)
  /\ NextReloc /\ UNCHANGED <<plt, importVars>>

Importable(name) == sysv_lookup(name) = 0 /\ name \in DOMAIN Dll

resolve_imported ==
  LET name == GET_NAME(Referred(Site)) IN
  /\ Resolving(2) /\ Importable(name) /\ ever[name] # 0
  /\ Fill(ever[name])
  /\ NextReloc /\ UNCHANGED <<plt, importVars>>

add_dynamic_resolved_entry_InFront(name, d) ==
  LET entry == SelectInSeq(imports, LAMBDA e : e.dll = d) IN
  imports' = IF entry = 0 THEN Append(imports, [dll |-> d, funcs |-> <<name>>])
             ELSE [imports EXCEPT ![entry].funcs = <<name>> \o @]

add_dynamic_resolved_entry(name, d) ==
  LET entry == SelectInSeq(imports, LAMBDA e : e.dll = d) IN
  imports' = IF entry = 0 THEN Append(imports, [dll |-> d, funcs |-> <<name>>])
             ELSE [imports EXCEPT ![entry].funcs = Append(@, name)]

ImportGrows_NoLast(name, d) ==
  (IF \E e \in Range(imports) : e.dll = d THEN 0 ELSE Descriptor + 1 + NameLen[d] + 2 * 8)
  + 2 * 8 + 2 + NameLen[name] + 1

\* update_import_directory_len: a new DLL has a descriptor, the first one also
\* the empty descriptor behind them all, and each DLL two empty thunks.
ImportGrows(name, d) ==
  (IF importLen = 0 THEN Descriptor ELSE 0)
  + (IF \E e \in Range(imports) : e.dll = d THEN 0 ELSE Descriptor + 1 + NameLen[d] + 2 * 8)
  + 2 * 8 + 2 + NameLen[name] + 1

\* The next 6 bytes behind the sections are the import's stub.
resolve_new_import ==
  LET name == GET_NAME(Referred(Site)) IN
  /\ Resolving(2) /\ Importable(name) /\ ever[name] = 0
  /\ ever' = [ever EXCEPT ![name] = plt]
  /\ Fill(plt)
  /\ plt' = plt + 6
  /\ add_dynamic_resolved_entry(name, Dll[name])
  /\ importLen' = importLen + ImportGrows(name, Dll[name])
  /\ NextReloc

\* Neither static nor external, or found nowhere: 0 stands for no address.
resolve_nothing ==
  /\ phase = "reloc" /\ at.row <= Len(Sites)
  /\ LET sym == Referred(Site)
         name == GET_NAME(sym)
     IN  \/ sym.class \notin {2, 3}
         \/ sym.class = 2 /\ sysv_lookup(name) = 0 /\ name \notin DOMAIN Dll
  /\ Fill(0)
  /\ NextReloc /\ UNCHANGED <<plt, importVars>>

relocated ==
  /\ phase = "reloc" /\ at.row > Len(Sites)
  /\ phase' = "import"
  /\ UNCHANGED <<world, at, inputVars, offset, plt, va, exportVars, importVars, filled,
                 tableVars, outVars>>

----------------------------------------------------------------------------
(* add_import and gen_pe                                                   *)

\* The imports DLL by DLL, which is the order of .plt, IAT and INT.
Imported == FlattenSeq([d \in DOMAIN imports |->
              [f \in DOMAIN imports[d].funcs |-> [d |-> d, name |-> imports[d].funcs[f]]]])

\* Behind the descriptors, one empty thunk between two DLLs.
Slot(n) == plt + Descriptor * (Len(imports) + 1) + 8 * (n - 1 + Imported[n].d - 1)

Box(name, sec) == [name |-> name, chain |-> <<sec>>, size |-> 0]
ImportSections_Swapped == <<Box(".idata", IData), Box(".plt", Plt)>>
ImportSections == <<Box(".plt", Plt), Box(".idata", IData)>>

add_import ==
  /\ phase = "import" /\ importLen > 0
  /\ phase' = "emit"
  /\ containers' = containers \o ImportSections
  /\ va' = [s \in DOMAIN va \cup {Plt, IData} |->
              IF s = Plt THEN offset ELSE IF s = IData THEN plt ELSE va[s]]
  /\ pltSize' = plt - offset
  /\ offset' = plt + importLen
  /\ stubs' = [a \in {offset + 6 * (n - 1) : n \in DOMAIN Imported} |-> Slot((a - offset) \div 6 + 1)]
  /\ iat' = [a \in {Slot(n) : n \in DOMAIN Imported} |->
               Imported[CHOOSE n \in DOMAIN Imported : Slot(n) = a].name]
  /\ directory' = [d \in {imports[i].dll : i \in DOMAIN imports} |->
                     {Slot(n) : n \in {m \in DOMAIN Imported : imports[Imported[m].d].dll = d}}]
  /\ importEnd' =
       Descriptor * (Len(imports) + 1) + 2 * 8 * (Len(Imported) + Len(imports))
       + Total([d \in DOMAIN imports |->
           NameLen[imports[d].dll] + 1
           + Total([f \in DOMAIN imports[d].funcs |-> 2 + NameLen[imports[d].funcs[f]] + 1])])
  /\ UNCHANGED <<world, at, aux, exports, exportLen, plt, exportVars, importVars, filled, outVars>>

no_import ==
  /\ phase = "import" /\ importLen = 0
  /\ phase' = "emit"
  /\ UNCHANGED <<world, at, inputVars, offset, plt, va, exportVars, importVars, filled,
                 tableVars, outVars>>

\* get_out_size adds up the containers' sizes, which add_coff_section leaves 0;
\* write_raw_data writes the sections of every container one behind the other.
gen_pe ==
  LET all == FlattenSeq([b \in DOMAIN containers |-> containers[b].chain]) IN
  /\ phase = "emit"
  /\ phase' = "done"
  /\ outSize' = HeaderSize + Total([b \in DOMAIN containers |-> containers[b].size])
  /\ pieces' = [i \in DOMAIN all |->
                  [sec |-> all[i], pos |-> HeaderSize + SizeUpTo(all, i - 1), size |-> SizeOf(all[i])]]
  /\ UNCHANGED <<world, at, inputVars, offset, plt, va, exportVars, importVars, filled, tableVars>>

resolve ==
  \/ resolve_static \/ resolve_defined \/ resolve_imported \/ resolve_new_import \/ resolve_nothing

Next ==
  \/ section_callback \/ symtab_callback
  \/ add_edata \/ set_virtual_address
  \/ add_export \/ exported
  \/ resolve \/ relocated
  \/ add_import \/ no_import \/ gen_pe

Spec == Init /\ [][Next]_vars

----------------------------------------------------------------------------
(* Properties                                                              *)

\* The exported symbols of that name.
Defining(name) == {i \in DOMAIN exports : GET_NAME(Symbol(exports[i])) = name}

\* A reference to a symbol of its own object, or to one that a single object
\* exports, is filled with the address that symbol will have in the file, and
\* the symbol is not imported; the hash table loses the first export, and every
\* export is taken for one of its object's first section.
ReferencesReachTheirSymbol ==
  \A k \in DOMAIN filled :
    LET sym == Referred(Sites[k])
        at_def == Defining(GET_NAME(sym))
    IN  /\ sym.class = 3 => filled[k] = va[<<Sites[k].sec[1], sym.section>>] + sym.value
        /\ (sym.class = 2 /\ Cardinality(at_def) = 1 /\ at_def # {1}) =>
             \A i \in at_def : Symbol(exports[i]).section = 1 =>
               /\ filled[k] = va[<<exports[i].obj, 1>>] + Symbol(exports[i]).value
               /\ \A d \in DOMAIN imports : GET_NAME(sym) \notin Range(imports[d].funcs)

\* Imports referred to for the first time DLL by DLL.
Grouped ==
  \A x, y, z \in DOMAIN Dll :
    (ever[x] > 0 /\ ever[x] < ever[y] /\ ever[y] < ever[z] /\ Dll[x] = Dll[z]) => Dll[x] = Dll[y]

\* Stubs are numbered when an import is first referred to and written DLL by DLL:
\* as long as these orders are the same, a reference to an import ends at the
\* slot that its DLL's descriptor covers under its name.
ImportsReachTheirFunction ==
  (phase = "done" /\ Grouped) =>
    \A k \in DOMAIN filled :
      LET name == GET_NAME(Referred(Sites[k])) IN
      (Referred(Sites[k]).class = 2 /\ name \in DOMAIN Dll /\ Defining(name) = {}) =>
        /\ filled[k] \in DOMAIN stubs
        /\ stubs[filled[k]] \in directory[Dll[name]] /\ iat[stubs[filled[k]]] = name

\* The lengths counted symbol by symbol are those of the tables that are written.
TablesFit ==
  /\ phase \in {"reloc", "import", "emit", "done"} => exportEnd = exportLen
  /\ phase = "done" => importEnd = importLen

\* What is written at an offset of the file is what the one section header says
\* is at that address, .plt and .idata included.
PiecesAtTheirAddresses ==
  \A i \in DOMAIN pieces : pieces[i].pos - HeaderSize = va[pieces[i].sec] - Base
=============================================================================
