# A TLA+ model of bin_tools

bin_tools is a collection of binary tools written against its own small runtime:
`zld` links ELF and COFF objects, a loader runs what it linked, build tools run
makefiles, `bipatch` patches binaries; readers, loaders, emulators and a web server are around them. This
directory models the parts that keep state and can get it wrong, checks them with
TLC on small instances and proves the central results with TLAPS for all sizes.

Paths below are relative to the repository's `src/core` unless they say otherwise.

## Inventory

| Part | Source | State | Operations | Module |
|---|---|---|---|---|
| bitmap heap | `memory/__alloc.c` | list of Bins (one bitmap per page), `bin_tail`, length bytes in the pages | `mem_init`, `__malloc`, `__thalloc`, `__free` | `Alloc` |
| task pool | `std/thread.c` | shared pool: live count, queue front, rear, length | `init_thread_pool`, `do_idle`, `put_task` | `ThreadPool` |
| linker, input | `../tools/zld.c`, `link/section.c`, `link/object.c`, `link/elf/callback.c`, `link/elf/symbol.c` | section containers and chains, objects with relocation and symbol chains, program header reservation | one callback per section header and per symbol | `LinkInput` |
| linker, symbol table | `link/elf/dynamic.c`, `link/hashtable.c` | bloom filter, bucket, chain, `.dynsym` | `add_gnu_hash_entry`, `find_sym2` | `GnuHash` |
| linker, layout and output | `link/elf/reloc.c`, `dynamic.c`, `emit.c` | addresses, eight growing dynamic sections, dynamic table, file position | address pass, exports, relocation, `set_dynanmic`, `gen_elf` | `LinkLayout` |
| web server | `net/server.c` | `clients[]`, one child per connection | accept, fork, scan; recv, route, close | `Httpd` |
| linker, relocation | `link/elf/reloc.c`, `dynamic.c`, `symbol.c`; `loader/elf/loader.c` | words, stubs and slots, `.rela.plt`, the cells the loader writes | `resolve_new`, `fill_address`, `do_relocs` | `Reloc` |
| linker, COFF | `link/coff`, `link/hashtable.c` | containers, exports with a DT_HASH table, imports by DLL | callbacks, exports, relocation, imports, `gen_pe` | `Coff` |
| ELF loader | `loader/elf/loader.c` | page of descriptors, list, `deps_index` bits | `__start`, `load_library`, `load_deps`, `find_sym` | `Loader`, `LoadOrder` |
| build tool | `../tools/build.c` | rules, variables, `bind_str`, a heap of words | `parse`, `search_rule`, `resolve_deps`, `bind_cmd` | `Build` |
| patch tools | `../tools/bipatch.c`, `bidiff.c` | page of entries, two mapped files | `read_patch`, `apply`, `save`, diff | `Bipatch` |
| zbuild | `../tools/zbuild.c`, `build`, `std/hash_table.c` | rules, variables | none that returns | not modelled |
| readers, disassemblers, emulators, logger, wrappers, debuggers | the rest | next to none | | not modelled |

How they meet. `zld`'s `main` maps the object files one after the other and runs
two callbacks on each (`LinkInput`), which allocate everything with `__malloc`
(`Alloc`). `do_elf_task` then works on the lists they leave: it gives addresses,
exports every symbol into the hash table (`GnuHash`), resolves relocations by
searching it (`Reloc` for the words and cells, `LinkLayout` for the tables) and
writes the file (`LinkLayout`); `do_coff_task` does the same for COFF (`Coff`).
The loader maps the result with its libraries (`Loader`) and carries out
the entries of `.rela.plt` (`Reloc`). The heap is `MAP_SHARED`
because the task pool's workers are processes cloned with flags 0: they share
the heap and nothing else. The build tool, the patch tools and the web server stand alone.

What is hard here. The heap keeps the length of an allocation inside the
allocation in front of it. The pool has no lock. The linker computes the same
addresses twice, in passes far apart that never compare them, and keeps four
tables in step by hand. The loader recurses through libraries that may need each
other while the list it walks grows. The build tool shares one buffer between
rules that are searched while others are half done. Parent and child of the server have separate copies of
one table after `fork`. The list of hazards, each with its line and the
properties aimed at it, is in `PROJECT.json`.

## Modules

### Alloc

State: `bits[b]` are the set bits of Bin b, `linked` the Bins reachable from
`bin_head`, `tail` is `bin_tail`, `tag[b][i]` the last byte of block i (the only
bytes that ever hold a length), `big` the Bins of whole mappings, `live` the
pointers the client holds. New Bins are always written behind the last one, so
the list is a set walked in order. `uint8_t` arithmetic is modulo `Blocks`, which
is 256 in the code.

Actions: `MallocHere` (a Bin from `bin_tail` on has room), `MallocNewBin` (none
has), `MallocBig`, `__thalloc`, `__free` with its four outcomes, and `Write`, a
client's store into the bytes it asked for. `unset_bin` is modelled as written:
it clears one bit more than the run, in the wrong word when the run does not
start in the first, and does not return when its last bit is 255 (`status`
becomes `"runaway"`). Such a free lets later runs overlap, a client then stores over
a length byte, and the loop of `__free` that clears the run leaves the page for the next
mapping, which may be a page of Bins: `status` becomes `"overrun"` and what happens there is
not followed. `abused` collects the pages in which a run was freed that `unset_bin` does not
get right (`Careless`); it is a history of the model, not a variable of the code. No program of the repository calls `__free`;
`MallocSpec` is how they use the heap and `Spec` adds it.

### ThreadPool

One step per access to the shared pool: the build has no `-O`, so `++` is a load
and a store. `main` is the calling process, `worker[w]` a worker, `reg` the value it
loaded, `runs[t][w]` how often it ran task t. `spawn` looks neither at what `clone` returns, so a worker may have
`"failed"` and is counted on all the same, nor at what `mmap` returns, so the caller may fault (`"dead"`). `keep_alive` is set before the first clone and never cleared. Its specification is
`PoolSpec`, and that of `Bipatch` `PatchSpec`, so that one module can hold the proofs about two components: `RuntimeProofs` about
`Alloc` and `ThreadPool`, `ToolProofs` about `Httpd` and `Bipatch`.

### LinkInput

`containers` are the section containers, each a name and a chain of sections
`<<object, header>>`; `rela` and `exported` are the chains of each object; `strtab`
counts how often the map base was added to `str_table_p`. The content of the files
is chosen while it is read: `on_section_callback_for_link(s)` for any header s of
`Sections`, `on_elf_symtab_callback_for_link(y, k)` for a symbol of section k.
`MayFollow` is the shape of real files: one `.symtab`, one `.strtab` and one
relocation section of each name. ELF32 is not modelled. Of a symbol only whether
it is exported is kept.

### GnuHash

`names` are the `.dynsym` entries behind the null one, `chain`, `bucket` and `bloom`
the table. `nbucket` is 1 and `symoffset` is 1, as `set_elf_default_config` and
`add_dynamic` set them. The hash function is a constant, so the model
has any pattern of collisions. A hash of 0 or 1 is excluded: its chain word would
be 0 and the word would read as free. The chain has no end mark: the search for a
name that passes the bloom filter without being there runs off it (`RunsOff`).

### LinkLayout

`pc` is the call of `do_elf_task` that runs. The address pass gives `vaddr`; the
dynamic tables grow during libraries, exports and relocations (each operator of
that section of the module maps a record of all tables to the next one, so an
action can chain them as the code chains calls); `SetNeeded` and `SetEntries` are
`set_dynanmic`; `WriteInput` and `WriteDynamic` are the loop of `gen_elf`, where
nothing but the file position decides where a section lands. What a relocation is
against is chosen when it is processed. `set_dynamic_entry` is called for more
tags than the table has when there are libraries; what lies behind the table is
taken not to be a tag it knows. `.fini_array` has no test for a full buffer and
the model stays below it. A chunk that fills is followed by another as in the code, with what
`add_dynamic_sc` forgets; `OneChunk` says of a section that it has not come to that.

### Reloc

`relocs` are the relocations of two objects in the order of `zld`'s loop, `word` the
32-bit words `fill_address` wrote, `slots` and `imports` what `.plt.got` and the import
hash table hold, `rela` the entries left to the loader, `mem` the cells the loader
then wrote at run-time addresses. One action per case of `resolve_new`;
`ResolveSpins` is each of its endless loops. `find_sym` of the loader may answer
with the program's or the library's definition, as that depends on who was
loaded first (`Loader`). A stub is a jump through its slot. Static symbols are
exported as others are, since `__z__link__add_export_symbol` does not look at the binding.

`AddressAssumption` says what the compiler and the passes before leave (`Prepared`): defined names
lie in linked sections, since `callback.c:302` spins otherwise, and `.plt.got` is behind the inputs.
`OneRelocationEach` says that no two relocations are for one word. A 64-bit word of a section without an address is
handed to the loader at its offset in the section (`Stray`, e.g. a constructor given by a section symbol); with many of
them one may lie at the address of a linked word, which nothing in `zld` notices. `ReferencesReachTheirDefinition`
speaks of links where that does not happen (`StraysApart`).

### Coff

`phase` is the call of `do_coff_task` that runs, `at` the object and row its loop is
at. `containers`, `exports` and `imports` are the lists, `bucket` and `chain` the
DT_HASH table, with the 1000 bytes it is given as `MaxChain`. `va` are the addresses
and `pieces` what `gen_pe` writes where. The name of a symbol ends at a zero byte, so one of
8 letters runs into its value (`GET_NAME`). The functions of `import_list.sqlite3` are the
constant `Dll`. A section number looked up in `coff/symbol.c` is always the
first (line 27 never advances), which `ReferencesReachTheirSymbol` has to say.

### LoadOrder and Loader

`LoadOrder` is what a loader promises: a library is mapped because a mapped one
needs it, bound when all it needs is mapped, each reference to a definition it
can see, and the program starts when all it can reach is bound. `Loader` has
the page of descriptors: `name` and `image` per slot, `next` and `tail` for the list, `deps`
for `deps_index`, and the recursion of `load_library` as `stack`. `__start` gives the
slots 0 to `DEPS_N` - 1 to the loader's own libraries, the next to itself. With
`DEPS_N` 0 it is `nodeps_loader.c`. `Abstract` is the refinement mapping: the files of used
slots, and the bindings with slots replaced by files. It maps worlds
that are not `Supported` (a file missing, a library of the loader needing one behind it, a file that needs
a loader which has no libraries and so never relocates itself)
to a loader that has done nothing; for them `BoundToWhatItSees` and `OneSlotEach` say what still holds.

### Build

`parse` reads a makefile as lines with the context flags it keeps between them; words and
lines are records, since the properties never look inside. What a makefile means is read off its lines
without the program (`WellFormed` to `Spelled`): a makefile is `Readable` when each head has a target and a command,
variables are defined once and before use, no line ends in a reference, and HEAP_HEAD has room for it. Behind a
reference `retrieve` stores the next letter unseen; where it is the last word, that is the newline (or the colon of a target),
kept as the extension of the reference's word. The stored reference takes four letters whatever the length of the name, so with a
name of one letter at the end of a line the letter behind it overruns the block; names have two letters or more in the model. Words fit the 30 bytes of `bind_str`. A world is `Supported` when, in addition,
no rule needs itself, a word has one rule and no name has a `%` or `$` of its own, and a pattern rule needs no other one and
has the stem in its first dependency only, behind which the shared `bind_str` and the cuts give other commands, and when its commands fit
`CMD_P`. Lengths are counted in words: `CmdMax` stands for the 240 bytes of `CMD_P`, `FullMax` for the 100 of `bind_full_str`. A command that
does not fit, or one with an index that is no variable's, ends in `"stuck"`: what it does to the heap is not followed. `stack` is the recursion of
`search_rule` and `resolve_deps`, and `bind_str` the one stem all rules share. `_strtok`'s cuts
in the rules' text are the dependencies a frame still has. Commands create their target or fail. Wildcards and the
dot graph are left out.

### Bipatch

One action per line of the patch, per byte copied and per entry applied. Three pages lie
one below the other in memory, so `munmap` of the advanced pointer and an
entry too many reach what lies behind. The addresses in `mem` count from the start of the output mapping.
`diff` is `bidiff` on input and output.

### Httpd

`pc`, `slot` and `clients` are the parent; `child[c]`, `open[c]` (the child's
descriptors of the connection) and `clientfd[c]` its child. `peer` and `request`
are the other end, which may go away at any time. accept and fork may fail, and
SIGPIPE or a request without a URI may end a child.

## Runs

| Run | What it shows | Bounds |
|---|---|---|
| `alloc_malloc` | allocations never overlap, every length byte survives client stores, bitmaps equal what was handed out | pages of a few blocks, so that they fill, a new Bin follows a mapping, and runs end at the last block |
| `alloc_free` | with `__free`, a page in which only runs were freed that `unset_bin` gets right is exact, nothing in it overlaps, and `__free` finds the Bin and the length of every run held in it | pages of 4 blocks in words of 3, runs of 1 and 2 blocks, 3 Bins with mappings of their own between them, stores of 3 over any byte asked for, so that other pages are abused, runs overlap, and frees run away and leave the page |
| `pool` | init returns only when all workers run, and does unless a clone, an mmap or an increment is lost; only the first task runs, at most once in each worker, and it does | 2 workers, 3 tasks, `len` down to -2, any clone or mmap failing |
| `link_input` | every section is in one chain, in order; of each object's relocation sections the first and last are kept; headers fit; stored indices find their section | all pairs of files of up to 3 sections and one symbol, three relocation sections |
| `link_layout` | addresses, dynamic table, library and symbol names, slots agree with the file, those of the dynamic sections as long as no chunk is full | no, one or several sections and containers, an empty section, 2 libraries, 2 exports, 4 relocations, real chunk sizes, of which `.init_array` fills |
| `reloc` | every reference to a name with one definition arrives there; the loader writes only slots and 64-bit words, each once; plain objects are linked and run | 2 objects, 2 relocations in each, all types against defined, static, imported, section and missing symbols, two load addresses, a library that may share a name |
| `gnu_hash` | every export found at its first occurrence, nothing else found | 5 names with colliding hashes, a chain of 5 |
| `coff` | references reach their symbol, imports the slot of their function; tables have the lengths counted, sections the addresses given | 1 or 2 objects in both orders, 3 relocations each, 4 imports of 3 DLLs, names of 8 letters, a hash chain at its end |
| `loader` | `Loader` implements `LoadOrder`; one slot for each name; bindings go to what is needed; the program is entered | 7 files with chains, diamonds and cycles, the loader's own libraries or none, a file missing or not mappable, 6 slots |
| `build` | makefiles are read as written, commands are the rules', prerequisites come first, the goal is made | up to 5 rules in all orders, pattern rules through pattern rules, references inside and at the end of lines, a heap and a command buffer (5 words) that fill, failing commands, present targets |
| `bipatch` | an orderly patch is applied as it says; of a broken one the lines in front of the error are, and what was read of a broken insertion, at the cost of the end; `bidiff` lists the bytes that differ | inputs to 5 bytes, patches to 4 lines, pages of 2 bytes and 4 entries |
| `httpd` | connections keep their slots; a request that reaches a child is answered and the answer ended; the parent accepts while a slot was never used | 2 slots, 3 connections |

The bounds reach the limits of what they bound (pages full, the queue empty and
refilled, more connections than slots, hash chains, heaps, `.init_array` and entry pages full)
except the other chunk sizes of the ELF linker. `CHECK_DEADLOCK FALSE` is used where the
program ends or stops at a limit of the model. Sizes that a real build has in the
thousands (pages, blocks, slots) are constants, and the theorems hold for all of them.

Type correctness is a part of the invariants that are proved (`LoaderTypes`, `LayoutTypes`, ...); the runs spend their
properties on what can go wrong.

Fairness. `ThreadPool` and `Httpd` assume that every process the kernel runs makes
progress (weak fairness of each), since they are ordinary processes. Nobody is
obliged to put a task, connect or send. `Loader`, `Build`, `Bipatch` and `Reloc` are
sequential programs: weak fairness of `Next` says that they keep running. Their
endless loops and faults are states they do not leave (`"stuck"`, `"spin"`), so the liveness
properties say that they are not reached. The other linker modules have safety properties only.

### Disagreements between code and text

In all of these the models contain the behaviour, and the properties say what holds in spite of it.

- Four constructors fill the `.init_array` chunk ("if the remaining size is not left, allocate new section as
  another SectionChain", `dynamic.c:437`); the new chunk starts with the old size, which `gen_elf` writes with both
  chunks and `set_dynanmic` counts once, so all addresses behind differ from the file.
- A string behind the first of a second `.dynstr` chunk is given an offset from the start of that chunk, the first one
  that in the old chunk, which need not end there (`dynamic.c:302`; the comment at 293 says "returns head offset of the
  allocated string").
- A reference at the end of a line takes the newline along (`build.c:156`; "when a referred variable is used, this
  expression is expanded properly", 125).
- `num_threads_alive` ("threads currently alive", `include/thread.h:19`) loses
  increments, and `init_thread_pool` then waits for ever (`InitReturnsUnlessLost`), as it does when a
  `clone` fails, whose result `spawn` does not look at (`thread.c:78`).
- A third relocation section of an object replaces the second (`callback.c:102`;
  `zld.c:269` says ".rela section entry is going to be processed here."), see
  `EverySectionPlaced`.
- After `CONNMAX` connections the parent of the server scans for ever: the -1 that
  frees a slot (`server.c:187`) is stored in the child's copy (`KeepsAccepting`).
- `get_out_size` of the COFF linker (`coff/emit.c:44`, "grab a last virtual address and its size") leaves
  out `.plt` and `.idata`, which are appended after the pass that gives containers their size (`.edata` is appended before it and counted),
  so the one section in the header does not cover them.
- The first export of a COFF link has index 0, which ends a DT_HASH chain, so it is never
  found; references to it become imports or stay 0. Every export is taken for one of its object's first section.
- Stubs of the COFF linker are numbered at first reference and written DLL by DLL; imports of one DLL that are not
  referred to in one go get each other's slots (`Grouped`).
- Pattern rules that need each other overwrite the one `bind_str`: the outer command is bound
  with the inner stem or none, unlike make. `CommandsAsWritten` excludes these worlds.
- In `build.c` a prefix in front of `%` is never compared, a rule without a command takes the next line as its command, and
  rules that need themselves recurse without end.
- `bipatch` never applies an insertion at the end of the file, runs on behind its last entry because `info->end` is not
  set to an entry (`bipatch.c:111`), and an entry out of address order stops all behind it.
- After a parse error `bipatch` prints it and goes on (`bipatch.c:223`). An insertion that failed in its data keeps the bytes
  read so far, which `size_updown` does not count: they are inserted, and as many bytes are missing at the end.
- `bind_cmd` expands a command of any length into the 240 bytes of `CMD_P` (`build.c:61`).
- `__start` frees no slot for a missing library; the distance to null becomes a bit (`loader.c:420`).
- `find_sym` goes from the newest library to the oldest, so a library loaded after the program shadows the program's own exports.
- A constructor given by a section symbol becomes a relative relocation at offset 0, the ELF header (`reloc.c:243`); the words of
  `.init_array` hold link-time addresses that nothing relocates. A reference whose distance is 0 stops `zld` (`reloc.c:141`).
- "only globally binded symbol will be registered on hash table" (`callback.c:235`), but static ones of default visibility are too.
- `__free` does not clean what it frees in every case (`__alloc.c:288`, "real free
  will not clean up but i do"): after an earlier free has cleared foreign bits a
  length byte is overwritten.
- The index of `section.c:110` has eight bits for each half; with 257 objects it
  wraps and finds another section.
- `callback.c:91` adds the map base twice when `.strtab` comes before `.symtab`;
  gas and nasm emit `.symtab` first.
- A symbol of default visibility in a section that is skipped, such as
  `.init_array`, makes the linker loop at `callback.c:302`.
- `respond` shuts down `clientfd` after closing it, or while it is 0
  (`server.c:185`); the connection's receive side stays open.
- `R_X86_64_64` against an exported name drops the addend (`reloc.c:268`).
- `zld`'s usage text names `-use-gnu-hash`; the option parsed is `-use-dt-hash`.

## Proofs

- `RuntimeProofs.CarefulPagesAreExactSound` and `CarefulRunsAreFoundSound`: with `__free`, for all page, block and request
  sizes, up to the first free that does not return or leaves its page. The invariant says for all pages that pointers are page aligned exactly
  when they have a mapping of their own and that their page is on the list, not behind `bin_tail`, and for a page where no careless free
  happened that runs do not overlap, are what the bitmap says, and have their length in front of them. It has to say that the
  first free run never starts at block 0 of a linked page, although frees clear bit 0, because the search answers 0 then
  and nothing is carved.
- `RuntimeProofs.MallocIsSound`: `MallocSpec => [](NoOverlap /\ ...)`. The inductive
  invariant ties bitmap, live pointers and length bytes together: `NoOverlap` needs
  `Accounted` (a clear bit is nobody's), and `LengthIntact` needs that the last byte
  of a run is never one the client asked for. `AccountedSound` and `LengthIntactSound` state the two on their own.
- `RuntimeProofs.PoolReadyIsSound`: for any finite set of workers. The invariant
  bounds the counter, and every value a worker has loaded, by the number of
  workers that have stored: lost updates only undercount.
- `RuntimeProofs.OnlyFirstTaskRunsSound`: the rear of the queue is the first task
  for ever, so the front and whatever a worker takes from it is that task; nobody is past
  clearing the front while it is set. A worker that has run a task has cleared the front on the way, and nobody sets it again,
  so it takes none a second time; this is counted for each worker on its own.
- `LinkInputProofs`, for any object files:
  `HeadersFitSound` (the room is reserved exactly when the property section gets its
  container), `EverySectionPlacedSound` (a section read is behind all read before it, `insert`
  appends it to the chain of its name and moves no other; one container per name then makes its
  place the only one; a relocation chain is empty, the only one, or the first and the last) and
  `IndexFindsSectionSound` (the index is that of the section's place, which stays; below 256
  containers and entries its two digits tell the place). `SectionsAssumption` says what they need of
  the files: sections have names, and only a note is named `.note.gnu.property`; without that a
  second nameless section would get a second container and a program header would be missing.
- `ToolProofs.ChildrenKeepTheirSlotSound`: where the parent accepts, its slot is free, no
  connection is in two slots, and the one it forks for has no child yet.
  `AnswersAreEndedSound` follows each child from stage to stage: stdout is the connection until
  the flush, and from the flush on the answer is out.
- `ToolProofs.GoodPatchesApply`, `LinesBeforeAnErrorApplySound` and `DiffNamesReplacedBytesSound`, for every input, patch and
  page size. The first is the safety
  half of `PatchIsApplied`; that the end is reached stays with the run. The walk is at an address with a number of lines
  behind it (`At`), and has written what these lines make of the bytes in front of it (`Written`): the lemmas `WalkInserts`,
  `WalkDeletes` and `WalkCopies` say that each step keeps this, whatever the neighbouring lines are. `ReadInv` says that the entries
  are the lines and `updown` their sum, `ApplyInv` that `mem` is what the walk has written. The walk may stop because the output is
  full: the sum is the length of the result (`WrittenLength`, by induction over what is left of bytes and lines), so
  nothing is missing then. For a patch that broke off in the data of an insertion the entries are one more than the lines that were counted
  (`BegunIs`), and the output is the front of the result. An entry behind the last one has nothing to insert or to skip (`CurrentIs`).
  For the third, a pair of an insertion and its deletion leaves the output as long as it was (`PairsAddNothing`), so the byte at
  an address is written when the walk is there, as a part of the line that covers it or as a copy (`PairsReplace`); pairs
  do not overlap (`OneCovers`), and `DiffInv` says what is printed so far.
  `WorldsAssumption` says that files are bytes and that only a line that inserts has any.
- `LinkInputProofs.FindSymIsRight` and `OthersAreNotFoundSound`: types, `ExportedAreFound` and `OthersAreNotFound`
  for every hash function with values of at least 2 and all table sizes. The
  invariant says that chain word j holds the hash of export j + 1 and the words
  behind are 0, so the first free word is the one of the new symbol, and that the
  filter holds both bits of every export.
- `LinkLayoutProofs`, for any sections, libraries, symbols and relocations:
  - `AddressesAreHonoured`: `InputsAtTheirAddresses`. The address pass is summed up by the fact that
    each address is the end of the section before it; the write pass keeps the
    file position at the address of the section it is about to write.
  - `DynamicAddressesAreRight`: `DynamicAddressesMatchFile`. `Place(k)` is the sum `set_dynanmic` has at
    the k-th dynamic section; the invariant (`EmitInv`) says that `gen_elf` is there when it starts on it.
  - `SlotsAreResolved`: `SlotsResolveTheirNames`. `SlotsGood` says that the slots follow each other, that the
    count of `.dynsym` is the number of symbols, and that no relocation lies behind the address word of the last
    slot, so that the one a new slot gets is the only one for its word. This needs that no input section starts behind
    `.plt.got` (`Below`). The lemmas before it (`ScEffect` to `DataStep`) say what each operator changes in
    the tables and what it leaves alone.
  - `NamesAreAtTheirOffsets`: `NamesAtTheirOffsets`. The strings are contiguous from 1 on (`StringsGood`), so the
    walk's next zero byte is the end of the string it is in (`NextStringIs`), and the libraries are in front.

  The last three carry the hypothesis `OneChunk`: the sections they are about are in one chunk. It is the
  code's own limit, not the proof's: behind it the new chunk is given the size of the old one, `.dynsym` the size in
  bytes for its count, and a string an offset in its own chunk; see above. Slots only need it of `.dynsym`, names
  only of `.dynstr`; nothing is assumed of the other sections.
- `RelocProofs`, for any objects, relocations, libraries and load addresses: `ReferencesAreRight`
  (`ReferencesReachTheirDefinition`) and `LoaderWritesOnlyItsCells` (`LoaderWritesItsCells`). Each relocation that is
  resolved has its word, a slot of its name, or an entry (`ResolvedInv`); each slot has an entry for its cell (`SlotsInv`); and no
  two entries are for one cell (`OnceInv`), so what the loader puts into a cell stays (`LoadInv`). That exports and relocations are
  the objects' tables one behind the other is an induction over `FlattenSeq`, done with its sequence as a
  variable (`FlattenCovers`). The proof showed that the first property needs `StraysApart`; the run's worlds have it.
- `CoffProofs`, for any objects, names, hash values and DLLs. `LinkerInv` is the conjunction of an invariant for each
  part, each inductive given the ones before it:
  - `SpecPiecesAtTheirAddresses` (`PiecesAtTheirAddresses`): every section read is in one place of one chain (`BoxInv`), and
    its address is the sum of the sizes in front of that place (`AddrInv`); `gen_pe` writes the same chains in the same order.
  - `SpecTablesFit` (`TablesFit`): `ExportInv` and `ImportInv` give the lengths counted symbol by symbol, and where the
    tables end, as the same closed sum. A new import adds a name to a DLL in the middle of the list or a DLL at
    its end, so the lemmas on `Total` say what a changed and a longer sequence add up to.
  - `SpecReferencesReachTheirSymbol` (`ReferencesReachTheirSymbol`): chains of the hash table only lead to larger
    indices (`Upwards`), so they end, and every export but the first is on the chain of its name (`HashInv`); what a filled
    relocation holds is what the lookup finds when all exports are in the table (`RefInv`).
  - `SpecImportsReachTheirFunction` (`ImportsReachTheirFunction`): in grouped worlds the order of the stubs'
    numbers is that of the list of imports (`NumInv`), so the n-th stub that is written jumps through the n-th slot, which
    `FlattenSeq` of the DLLs' functions puts into its DLL's range.

  `WorldsAssumption` says what the objects are: a symbol and a section in each, relocations to symbols that exist, and a
  static symbol that a relocation refers to in a section. Sizes, names, values and the number of objects are free.
- `LoaderProofs`, for any files that need each other in any way:
  - `NamesHaveOneSlot` (`OneSlotEach`) and `LibrariesSeeTheirNeeds` (`BoundToWhatItSees`), from `LoaderInv`:
    slots fill from the front, the list is the slots in order up to `tail` (`Listed`), the walk over it
    stops at the name or at the end, and a frame's `deps_index` is its own slot and those of the
    needs it has walked (`Walking`). Only the first needs `OwnFound`: `__start` takes a slot for a library of its own without
    a search, so with one missing the list has a hole.
  - `LoaderImplementsLoadOrder` (`RefinesLoadOrder`): one step of the abstract loader for each mapping, relocation and
    entry, a stutter for the rest. It adds (`OrderInv`) that in a supported world every library with a slot is bound or on the stack. The
    proof found one clause of `Supported` missing: with no libraries of its own the loader never relocates itself,
    so a file that needs the loader could never be bound; the worlds of the run have no such file.

- `BuildProofs`, for any makefiles, goals, files on disk and failing commands:
  - `ReadAsWrittenSound` (`ReadAsWritten`): `ReadInv` says after each line which rules and variables are stored,
    what `parse` keeps of the line it is in, and how much of HEAP_HEAD is used. Blank lines change
    none of it, so the induction goes over the lines that are not blank. `retrieve` cuts nothing from a text whose references are known, and
    adds nothing to one that does not end in one (`RetrieveKnown`).
  - `CommandsAsWrittenSound` (`CommandsAsWritten`) and `PrerequisitesFirstSound` (`PrerequisitesFirst`), from `BuildInv`. The
    properties speak of `ran` only; the invariant needs the cuts, the stack and the disk. `CutInv`: a rule is the makefile's, or
    has its first dependency left, and then the others are handled. `StackInv`: each dependency of a search in progress is handled,
    under way in the frame above, or still to come; a frame's goal is needed by those below, so a search never meets itself; and
    `bind_str` is the stem of the one pattern under way. `RanInv`: a command that was run in vain would be in vain
    again (`Dead`), so a target that gets written is made once.

  `WorldsAssumption` says that a makefile is a sequence of lines of words.

The assumptions are those named in the modules; TLC evaluates them in the runs. Where a proof needs
an induction (the least element of a set of numbers, a function defined by recursion on a number), a lemma does it with the
set or function as a variable, which the provers can instantiate; none is over what a recursive operator computes.
Every invariant the runs check is stated by a theorem. Only model-checked: the liveness properties, which are out
of the prover's reach.

## Not modelled

- `zbuild`: `init` (`build/config.c`), `parse_makefile` and `is_file` end in `for (;;)` at this
  commit, so no behaviour behind them exists to check. `tools/build.c`, its predecessor, is modelled.
  `nodeps/build.c` never advances past the first prerequisite.
- ELF32, i386, `-nodynamic`, `-use-dt-hash` (its first store goes through a null pointer,
  `dynamic.c:670`), section headers, command lines, the bytes of headers.
- Readers and disassemblers only print or call back; wrappers are one system call each;
  the emulators are tables of instructions; `tools/debug*.c` are loops over `ptrace`, and `debug.c` does not compile.
- Two fifths of the repository's lines are vendored headers and tables (`elf.h`, `macho.h`, `linux_syscall.h`,
  `callgen/include`, the bison output `link/script.c`), with no state to model.

## Plan

1. `Zld`: `LinkInput`, `GnuHash`, `LinkLayout` and `Reloc` composed, with an abstract
   specification (every reference reaches the definition its name has).
