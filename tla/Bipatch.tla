------------------------------- MODULE Bipatch -----------------------------
(***************************************************************************)
(* The patch tools: src/tools/bipatch.c reads a patch, maps the input and  *)
(* the output file and walks the input once, inserting and leaving out     *)
(* bytes; src/tools/bidiff.c then lists where two files differ.            *)
(*                                                                         *)
(* A file is a sequence of bytes, an address counts from 0.  A line of a   *)
(* patch says whether it inserts `bytes' or deletes `len' bytes at `addr', *)
(* and how far it can be read.  Pages are mapped in falling order, so the  *)
(* page behind the entries is that of the patch's text, read only.         *)
(***************************************************************************)
EXTENDS Integers, Sequences, SequencesExt, FiniteSets

CONSTANTS
  Worlds,       \* [input: bytes, patch: lines]
  Page,         \* 4096
  EntriesMax,   \* entries in one page: 128
  DataMax       \* inserted bytes in one page: 4096

\* status: ok; where ascii_to_bin or the command fails: cmd, addr, data; or open:
\* the last line, without its newline.
Insert(a, bytes, status) == [cmd |-> 1, addr |-> a, bytes |-> bytes, len |-> Len(bytes), status |-> status]
Delete(a, n, status) == [cmd |-> 0, addr |-> a, bytes |-> <<>>, len |-> n, status |-> status]

Bytes == 0 .. 255
LineRows == [cmd : {0, 1}, addr : Nat, bytes : Seq(Bytes), len : Nat,
             status : {"ok", "cmd", "addr", "data", "open"}]

\* Files are sequences of bytes; only a line that inserts has bytes.
ASSUME WorldsAssumption ==
  \A w \in Worlds :
    /\ w.input \in Seq(Bytes) /\ w.patch \in Seq(LineRows)
    /\ \A k \in DOMAIN w.patch :
         LET l == w.patch[k] IN IF l.cmd = 1 THEN l.len = Len(l.bytes) ELSE l.bytes = <<>>
ASSUME PagesAssumption ==
  /\ Page \in Nat \ {0} /\ EntriesMax \in Nat \ {0} /\ DataMax \in Nat \ {0}

VARIABLES
  world, phase,
  line,       \* the line read_patch is at
  entries,    \* info->begin
  updown,     \* info->size_updown
  unmapped,   \* what munmap has taken: nothing, the entries or the text
  p, q, pf,   \* apply: distance from map_begin; entries used
  mem,        \* what was stored into the output mapping, from its start
  outSize,    \* size of the output file
  differs     \* what bidiff printed of input and output, in order

readVars == <<line, entries, updown, unmapped>>
applyVars == <<p, q, pf, mem>>
patchVars == <<world, phase, readVars, applyVars, outSize, differs>>

Input == world.input
Line == world.patch[line]
RoundUp(n) == Page * ((n + Page - 1) \div Page)

PatchInit ==
  /\ world \in Worlds /\ phase = "read"
  /\ line = 1 /\ entries = <<>> /\ updown = 0 /\ unmapped = "nothing"
  /\ p = 0 /\ q = 0 /\ pf = 0 /\ mem = <<>> /\ outSize = 0
  /\ differs = <<>>

Stuck == phase' = "stuck"

----------------------------------------------------------------------------
(* read_patch                                                              *)

DataUsed == FoldSeq(LAMBDA e, n : n + Len(e.bytes), 0, entries)

\* What a line leaves in its entry: all of it, or what was read in front of the
\* place where reading failed.
Entry(l) ==
  CASE l.status = "cmd"  -> [cmd |-> 0, addr |-> 0, len |-> 0, bytes |-> <<>>]
    [] l.status = "addr" -> [cmd |-> l.cmd, addr |-> 0, len |-> 0, bytes |-> <<>>]
    [] l.status = "data" /\ l.cmd = 0 -> [cmd |-> 0, addr |-> l.addr, len |-> 0, bytes |-> <<>>]
    [] OTHER -> [cmd |-> l.cmd, addr |-> l.addr, len |-> l.len, bytes |-> l.bytes]

\* The line is counted in size_updown when it was read up to its end; bytes to
\* insert end at a newline only.
Counted(l) == l.status = "ok" \/ (l.status = "open" /\ l.cmd = 0)
Grows_DeleteForgotten(l) == IF ~ Counted(l) \/ l.cmd = 0 THEN 0 ELSE l.len
Grows(l) == IF ~ Counted(l) THEN 0 ELSE IF l.cmd = 1 THEN l.len ELSE -l.len

\* An entry behind the page is written to read-only memory; bytes behind theirs
\* overwrite the entries.  A line that is not "ok" ends the reading.
ReadLine ==
  /\ phase = "read" /\ line <= Len(world.patch)
  /\ IF Len(entries) = EntriesMax \/ DataUsed + Len(Line.bytes) > DataMax
       THEN Stuck /\ UNCHANGED readVars
       ELSE /\ entries' = Append(entries, Entry(Line))
            /\ updown' = updown + Grows(Line)
            /\ line' = line + 1
            /\ phase' = IF Line.status = "ok" THEN "read" ELSE "open"
            /\ UNCHANGED unmapped
  /\ UNCHANGED <<world, applyVars, outSize, differs>>

\* munmap(q) of the advanced pointer: refused inside of the page, but a patch
\* with no entry loses the page, and a full one the page behind it.
ReadEnds ==
  /\ phase = "read" /\ line > Len(world.patch)
  /\ phase' = "open"
  /\ unmapped' = CASE entries = <<>> -> "entries"
                   [] Len(entries) = EntriesMax -> "text"
                   [] OTHER -> "nothing"
  /\ UNCHANGED <<world, line, entries, updown, applyVars, outSize, differs>>

----------------------------------------------------------------------------
(* apply_patch: map_input_file, map_output_file, apply, save               *)

\* One byte is written at size - 1.  Before the start of the file that byte is
\* its first one and nothing can be mapped.
map_output_file ==
  LET size == Len(Input) + updown IN
  /\ phase = "open"
  /\ outSize' = IF size > 0 THEN size ELSE 1
  /\ phase' = IF size > 0 THEN "apply" ELSE "stuck"
  /\ UNCHANGED <<world, readVars, applyVars, differs>>

OutEnd == RoundUp(outSize)
Walking == phase = "apply" /\ p # Len(Input) /\ q # OutEnd
OffPage == unmapped = "entries" \/ pf >= EntriesMax

ZeroEntry == [cmd |-> 0, addr |-> 0, len |-> 0, bytes |-> <<>>]
Current == IF pf < Len(entries) THEN entries[pf + 1] ELSE ZeroEntry

WalkStuck == Stuck /\ UNCHANGED <<world, readVars, applyVars, outSize, differs>>

\* case 1: the bytes, one behind the other.
ApplyInsert ==
  /\ Walking /\ ~ OffPage /\ p = Current.addr /\ Current.cmd = 1
  /\ q + Len(Current.bytes) <= OutEnd
  /\ mem' = mem \o Current.bytes /\ q' = q + Len(Current.bytes)
  /\ pf' = pf + 1
  /\ UNCHANGED <<world, phase, readVars, p, outSize, differs>>

ApplyDelete_OneMore ==
  /\ Walking /\ ~ OffPage /\ p = Current.addr /\ Current.cmd = 0
  /\ p' = p + Current.len + 1
  /\ pf' = pf + 1
  /\ UNCHANGED <<world, phase, readVars, q, mem, outSize, differs>>

\* case 0.  `_pi->end' points into the patch's text, so pf always advances: behind
\* the last entry there are zeros, which match at address 0.
ApplyDelete ==
  /\ Walking /\ ~ OffPage /\ p = Current.addr /\ Current.cmd = 0
  /\ p' = p + Current.len
  /\ pf' = pf + 1
  /\ UNCHANGED <<world, phase, readVars, q, mem, outSize, differs>>

\* Behind the input's last byte its page holds zeros.
ByteAt(n) == IF n < Len(Input) THEN Input[n + 1] ELSE 0

Copy ==
  /\ Walking /\ p < RoundUp(Len(Input))
  /\ OffPage => unmapped = "nothing"   \* the patch's text, whose bytes are no address
  /\ ~ OffPage => p # Current.addr
  /\ mem' = Append(mem, ByteAt(p)) /\ p' = p + 1 /\ q' = q + 1
  /\ UNCHANGED <<world, phase, readVars, pf, outSize, differs>>

\* No page: of the entries, behind the entries, of the input or of the output.
ApplyFaults ==
  /\ Walking
  /\ \/ OffPage
     \/ ~ OffPage /\ p # Current.addr /\ p >= RoundUp(Len(Input))
     \/ ~ OffPage /\ p = Current.addr /\ Current.cmd = 1 /\ q + Len(Current.bytes) > OutEnd
  /\ WalkStuck

save ==
  /\ phase = "apply" /\ ~ Walking
  /\ phase' = "diff"
  /\ p' = 0 /\ q' = 0
  /\ UNCHANGED <<world, readVars, pf, mem, outSize, differs>>

\* The file: what was stored, cut or filled with zeros to its size.
Output == [i \in 1 .. outSize |-> IF i <= Len(mem) THEN mem[i] ELSE 0]

----------------------------------------------------------------------------
(* bidiff, of the input and the output                                     *)

diff_AlwaysPrints ==
  /\ phase = "diff" /\ p # Len(Input) /\ q # outSize
  /\ differs' = Append(differs, p)
  /\ p' = p + 1 /\ q' = q + 1
  /\ UNCHANGED <<world, phase, readVars, pf, mem, outSize>>

diff ==
  /\ phase = "diff" /\ p # Len(Input) /\ q # outSize
  /\ differs' = IF Input[p + 1] = Output[q + 1] THEN differs ELSE Append(differs, p)
  /\ p' = p + 1 /\ q' = q + 1
  /\ UNCHANGED <<world, phase, readVars, pf, mem, outSize>>

diff_ends ==
  /\ phase = "diff" /\ (p = Len(Input) \/ q = outSize)
  /\ phase' = "done"
  /\ UNCHANGED <<world, readVars, applyVars, outSize, differs>>

PatchNext ==
  \/ ReadLine \/ ReadEnds \/ map_output_file
  \/ ApplyInsert \/ ApplyDelete \/ Copy \/ ApplyFaults \/ save
  \/ diff \/ diff_ends

PatchSpec == PatchInit /\ [][PatchNext]_patchVars /\ WF_patchVars(PatchNext)

----------------------------------------------------------------------------
(* What a patch means: docs/doc/bipatch                                    *)

Deletes(l, i) == l.cmd = 0 /\ l.addr <= i /\ i < l.addr + l.len
InsertedAt(ls, i) ==
  FlattenSeq([k \in DOMAIN ls |-> IF ls[k].cmd = 1 /\ ls[k].addr = i THEN ls[k].bytes ELSE <<>>])

\* Each byte of the input with what is inserted in front of it, unless deleted.
Patched(in, ls) ==
  FlattenSeq([n \in DOMAIN in |->
    InsertedAt(ls, n - 1)
    \o IF \E k \in DOMAIN ls : Deletes(ls[k], n - 1) THEN <<>> ELSE <<in[n]>>])

EndOf(l) == IF l.cmd = 0 THEN l.addr + l.len ELSE l.addr

\* Lines in the order of their addresses, inside of the file, one of them behind
\* its first byte, and something left to write.
Orderly(in, ls) ==
  /\ ls # <<>> /\ Len(ls) < EntriesMax
  /\ FoldSeq(LAMBDA l, n : n + Len(l.bytes), 0, ls) <= DataMax
  /\ \A k \in DOMAIN ls : ls[k].addr < Len(in) /\ EndOf(ls[k]) <= Len(in)
  /\ \A k \in 1 .. Len(ls) - 1 : EndOf(ls[k]) <= ls[k + 1].addr
  /\ \E k \in DOMAIN ls : EndOf(ls[k]) > 0
  /\ Patched(in, ls) # <<>>

Readable == {w \in Worlds : \A k \in DOMAIN w.patch : w.patch[k].status = "ok"}
Good == {w \in Readable : Orderly(w.input, w.patch)}

\* The bytes a line to insert was read with before it failed stay in its entry.
Begun(l) ==
  IF l.cmd = 1 /\ l.status \in {"data", "open"} THEN <<Insert(l.addr, l.bytes, "ok")>> ELSE <<>>
Entered(ls) == Front(ls) \o Begun(Last(ls))

\* The last line cannot be read to its end; what was entered is good.
CutOff ==
  {w \in Worlds :
     /\ w.patch # <<>> /\ ~ Counted(Last(w.patch))
     /\ \A k \in 1 .. Len(w.patch) - 1 : w.patch[k].status = "ok"
     /\ Orderly(w.input, Entered(w.patch)) /\ Patched(w.input, Front(w.patch)) # <<>>
     /\ Len(w.patch) < EntriesMax}

\* Good patches in which each deletion stands behind an insertion of its length.
Replacing ==
  {w \in Good :
     \A k \in DOMAIN w.patch :
       IF k % 2 = 1 THEN w.patch[k].cmd = 1 /\ k < Len(w.patch)
       ELSE w.patch[k].cmd = 0 /\ w.patch[k].addr = w.patch[k - 1].addr
            /\ w.patch[k].len = w.patch[k - 1].len}

----------------------------------------------------------------------------
(* Properties                                                              *)

\* A patch in the order of its addresses is applied to its end: the output is the
\* input with the bytes of each line inserted or left out at the addresses they
\* had in the input, however earlier lines shifted them, and nothing else.
PatchIsApplied ==
  (world \in Good) ~> (phase = "done" /\ Output = Patched(Input, world.patch))

\* A line that cannot be read is reported and the tool goes on.  The lines in
\* front of it are applied, and so are the bytes it was to insert as far as they
\* were read (bipatch.c:100).  These were not counted in size_updown: the output
\* has the size of the lines in front, and loses as many bytes at its end.
LinesBeforeAnErrorApply ==
  (phase = "done" /\ world \in CutOff) =>
    LET size == Len(Patched(Input, Front(world.patch)))
    IN  Output = SubSeq(Patched(Input, Entered(world.patch)), 1, size)

\* bidiff of the two files names, of a patch that replaces bytes, only replaced
\* addresses, in rising order and all of those whose byte is another one.
DiffNamesReplacedBytes ==
  (phase = "done" /\ world \in Replacing) =>
    /\ \A i, j \in DOMAIN differs : i < j => differs[i] < differs[j]
    /\ \A n \in 0 .. Len(Input) - 1 :
         (\E i \in DOMAIN differs : differs[i] = n) <=>
         (\E k \in DOMAIN world.patch : world.patch[k].cmd = 1
            /\ n - world.patch[k].addr \in 0 .. world.patch[k].len - 1
            /\ world.patch[k].bytes[n - world.patch[k].addr + 1] # Input[n + 1])
=============================================================================
