------------------------------- MODULE Alloc -------------------------------
(***************************************************************************)
(* The bitmap heap of src/core/memory/__alloc.c, the allocator behind zld  *)
(* and zbuild.  A Bin describes one page: one bit per block of BlockSize   *)
(* bytes.  A block allocation occupies a run of blocks and keeps the       *)
(* length of its run in the last byte of the block that precedes it; a     *)
(* request that does not fit a page gets a mapping of its own, described   *)
(* by a Bin whose bits are all set.                                        *)
(*                                                                         *)
(* Data abstractions.                                                      *)
(*  - Bins live side by side in one page and every new Bin is written      *)
(*    right behind the last one of the list ("c++", "pre + 1"), so the     *)
(*    `next' pointers always lead to a higher Bin: the list from bin_head  *)
(*    is the set `linked', walked in increasing order.  Bin 0 is bin_head. *)
(*  - A page is named by its Bin.  Of the bytes of a page only the last    *)
(*    byte of each block (`tag') is kept: these are the bytes in which     *)
(*    run lengths are stored.                                              *)
(*  - What lies behind a page is not modelled (another page, the page of    *)
(*    Bins or nothing at all): the model stops at the __free that clears   *)
(*    it, as at the one whose unset_bin never returns.                     *)
(*  - uint8_t arithmetic is arithmetic modulo Blocks (256 in the code, one *)
(*    bit per value of a uint8_t).                                         *)
(***************************************************************************)
EXTENDS Integers, FiniteSets

CONSTANTS
  Blocks,     \* blocks of a page, BIN_N in the code (256)
  WordBits,   \* bits of the words unset_bin walks over (64)
  BlockSize,  \* bytes of a block (0x10)
  MaxBins,    \* bound: Bins the page of Bins holds (0x1000 / sizeof(Bin) = 85)
  Sizes,      \* request sizes in bytes a client may ask for
  Bytes       \* byte values a client may store

ASSUME BlocksAssumption == Blocks \in Nat /\ Blocks >= 2
ASSUME BlockSizeAssumption == BlockSize \in Nat \ {0}
ASSUME WordBitsAssumption == WordBits \in Nat \ {0} /\ WordBits <= Blocks
ASSUME MaxBinsAssumption == MaxBins \in Nat \ {0}
ASSUME SizesAssumption == Sizes \subseteq Nat
ASSUME BytesAssumption == Bytes \subseteq 0 .. Blocks - 1

VARIABLES
  bits,    \* bits[b]: the set bits of Bin b
  linked,  \* the Bins reachable from HeapMeta.bin_head
  tail,    \* HeapMeta.bin_tail
  tag,     \* tag[b][i]: the last byte of block i of the page of Bin b
  big,     \* the Bins whose page is the mapping made by one expand_heap
  live,    \* the pointers the client holds, with the size it asked for
  status,  \* "ok"; "runaway" once unset_bin has run over the Bins; "overrun"
           \* once __free has cleared bytes behind a page
  abused   \* history: the pages with a request __free was not made for

vars == <<bits, linked, tail, tag, big, live, status, abused>>

Bins  == 0 .. MaxBins - 1
Block == 0 .. Blocks - 1

\* A pointer: block `start' of the page of Bin `bin'; the client asked for
\* `size' bytes.  (A run handed out twice with the same size is one pointer.)
Pointers == [bin : Bins, start : Block, size : Sizes]

PageSize == Blocks * BlockSize

BinsSize_RoundedUp(size) == (size + BlockSize - 1) \div BlockSize

\* bins_size = (size / 0x10) + 1
BinsSize(size) == size \div BlockSize + 1

\* The blocks of a run, and the blocks a block allocation was given.
Run(s, q) == s .. s + q - 1
Extent(p) == Run(p.start, BinsSize(p.size))

----------------------------------------------------------------------------
\* mem_init: one Bin with its page; block 0 is reserved, since 0 is the
\* "nothing found" answer of the search.
Init ==
  /\ bits   = [b \in Bins |-> IF b = 0 THEN {0} ELSE {}]
  /\ linked = {0}
  /\ tail   = 0
  /\ tag    = [b \in Bins |-> [i \in Block |-> 0]]
  /\ big    = {}
  /\ live   = {}
  /\ status = "ok"
  /\ abused = {}

\* The last Bin of the list, found by walking `next'.
Last == CHOOSE b \in linked : \A c \in linked : c <= b

\* slowest_find_consecutive_bin: the start of the first run of q clear bits,
\* 0 when there is none (and also when that run starts at block 0).
Fits(bs, s, q) == s + q <= Blocks /\ Run(s, q) \cap bs = {}
slowest_find_consecutive_bin(bs, q) ==
  IF \E s \in Block : Fits(bs, s, q)
    THEN CHOOSE s \in Block : Fits(bs, s, q) /\ \A t \in Block : Fits(bs, t, q) => s <= t
    ELSE 0

set_bin_OneShort(bs, s, q) == bs \cup Run(s, q - 1)
set_bin_OneLong(bs, s, q)  == bs \cup (Run(s, q + 1) \cap Block)

\* set_bin sets the bits s .. s+q-1; the search keeps them inside the Bin.
set_bin(bs, s, q) == bs \cup Run(s, q)

unset_bin_FirstKept(bs, s, q) ==
  LET e == (s + q) % Blocks
  IN  bs \ {i - WordBits * (s \div WordBits) : i \in s + 1 .. e}

\* unset_bin clears up to and including bit s+q (a uint8_t), and steps to the
\* next word only at positions it clears: a run that starts in word w is
\* cleared as if it started in word 0.
unset_bin(bs, s, q) ==
  LET e == (s + q) % Blocks
  IN  bs \ {i - WordBits * (s \div WordBits) : i \in s .. e}

\* With e = 255 the test i <= e of a uint8_t never fails.
UnsetRunsAway(s, q) == (s + q) % Blocks = Blocks - 1

----------------------------------------------------------------------------
(* __malloc, block allocations                                             *)

\* The Bins searched: from bin_tail to the end of the list.
Searched == {b \in linked : b >= tail}
Has(b, q) == slowest_find_consecutive_bin(bits[b], q) # 0

\* Carve a run out of Bin b and record its length in front of it.
Carve(b, bs, size) ==
  LET q == BinsSize(size)
      a == slowest_find_consecutive_bin(bs, q)
  IN  /\ bits' = [bits EXCEPT ![b] = set_bin(bs, a, q)]
      /\ tag'  = [tag EXCEPT ![b][a - 1] = q]
      /\ live' = live \cup {[bin |-> b, start |-> a, size |-> size]}

\* A Bin on the searched part of the list has room.
MallocHere(size) ==
  /\ status = "ok"
  /\ size < PageSize - BlockSize
  /\ \E b \in Searched :
       /\ Has(b, BinsSize(size))
       /\ \A c \in Searched : Has(c, BinsSize(size)) => b <= c
       /\ Carve(b, bits[b], size)
  /\ UNCHANGED <<linked, tail, big, status, abused>>

MallocNewBin_TailStays(size) ==
  /\ status = "ok"
  /\ size < PageSize - BlockSize
  /\ \A b \in Searched : ~Has(b, BinsSize(size))
  /\ Last + 1 \in Bins
  /\ Carve(Last + 1, {0}, size)
  /\ linked' = {b \in linked : b <= tail} \cup {Last + 1}
  /\ UNCHANGED <<tail, big, status, abused>>

\* No Bin has room: a Bin behind the last one becomes bin_tail's successor,
\* which drops the Bins that expand_heap had linked behind bin_tail.
MallocNewBin(size) ==
  /\ status = "ok"
  /\ size < PageSize - BlockSize
  /\ \A b \in Searched : ~Has(b, BinsSize(size))
  /\ Last + 1 \in Bins
  /\ Carve(Last + 1, {0}, size)
  /\ linked' = {b \in linked : b <= tail} \cup {Last + 1}
  /\ tail'   = Last + 1
  /\ UNCHANGED <<big, status, abused>>

\* expand_heap: a mapping of its own for a large request.  __thalloc calls it
\* too, for 1024 bytes.
expand_heap(size) ==
  /\ status = "ok"
  /\ Last + 1 \in Bins
  /\ bits'   = [bits EXCEPT ![Last + 1] = Block]
  /\ linked' = linked \cup {Last + 1}
  /\ big'    = big \cup {Last + 1}
  /\ live'   = live \cup {[bin |-> Last + 1, start |-> 0, size |-> size]}
  /\ UNCHANGED <<tail, tag, status, abused>>

__thalloc == \E size \in Sizes : size = PageSize \div 4 /\ expand_heap(size)

MallocBig(size) == size >= PageSize - BlockSize /\ expand_heap(size)

__malloc(size) == MallocHere(size) \/ MallocNewBin(size) \/ MallocBig(size)

----------------------------------------------------------------------------
(* __free                                                                  *)

\* A page-aligned pointer is taken for a whole page, any other one has its
\* length in front of it.
FreedBlocks(p) == IF p.start = 0 THEN Blocks - 1 ELSE tag[p.bin][p.start - 1]

\* What unset_bin does not get right: a run that does not start in the first
\* word, one that ends in the last two blocks, and one with another run directly
\* behind it, whose first bit is cleared too.
Careless(p) ==
  LET end == p.start + BinsSize(p.size)
  IN  \/ p.start >= WordBits
      \/ end >= Blocks - 1
      \/ \E r \in live : r.bin = p.bin /\ r.start = end

\* __free returns.
Freed(p) ==
  /\ live'   = live \ {p}
  /\ abused' = IF Careless(p) THEN abused \cup {p.bin} ELSE abused
  /\ UNCHANGED status

\* The Bin of the page is on the list: clear its bits, then the bytes.
ClearRun(p) ==
  LET q == FreedBlocks(p)
  IN  /\ p.bin \in linked
      /\ ~UnsetRunsAway(p.start, q)
      /\ bits' = [bits EXCEPT ![p.bin] = unset_bin(@, p.start, q)]
      /\ tag'  = [tag EXCEPT ![p.bin] =
                    [i \in Block |-> IF i \in Run(p.start, q) THEN 0 ELSE @[i]]]

FreeFound(p) ==
  /\ ClearRun(p)
  /\ p.start + FreedBlocks(p) <= Blocks
  /\ Freed(p)

\* A client has stored over the length byte (in a page with overlapping runs),
\* and the run it tells of leaves the page: the bytes behind are cleared as well.
FreeOverruns(p) ==
  /\ ClearRun(p)
  /\ p.start + FreedBlocks(p) > Blocks
  /\ status' = "overrun"
  /\ UNCHANGED <<live, abused>>

\* unset_bin never returns and clears what lies behind the Bin.
FreeRunsAway(p) ==
  /\ p.bin \in linked
  /\ UnsetRunsAway(p.start, FreedBlocks(p))
  /\ status' = "runaway"
  /\ UNCHANGED <<bits, tag, live, abused>>

\* The Bin was dropped from the list: nothing is found, nothing happens.
FreeUnlinked(p) == p.bin \notin linked /\ Freed(p) /\ UNCHANGED <<bits, tag>>

__free(p) ==
  /\ status = "ok"
  /\ FreeFound(p) \/ FreeOverruns(p) \/ FreeRunsAway(p) \/ FreeUnlinked(p)
  /\ UNCHANGED <<linked, tail, big>>

----------------------------------------------------------------------------
\* The last byte of block i is one of the `size' bytes the client asked for.
InRequest(p, i) == i >= p.start /\ (i - p.start + 1) * BlockSize <= p.size

\* The client stores into the bytes it asked for.  Only the last bytes of
\* blocks are kept, so only they can change.
Write(p, i, v) ==
  /\ status = "ok"
  /\ InRequest(p, i)
  /\ tag' = [tag EXCEPT ![p.bin][i] = v]
  /\ UNCHANGED <<bits, linked, tail, big, live, status, abused>>

----------------------------------------------------------------------------
\* What the programs of the repository do: none of them calls __free.
MallocNext ==
  \/ \E size \in Sizes : __malloc(size)
  \/ __thalloc
  \/ \E p \in live, i \in Block, v \in Bytes : Write(p, i, v)

\* Everything include/alloc.h exports.
Next == MallocNext \/ \E p \in live : __free(p)

MallocSpec == Init /\ [][MallocNext]_vars
Spec       == Init /\ [][Next]_vars

----------------------------------------------------------------------------
(* Properties                                                              *)

TypeOK ==
  /\ bits \in [Bins -> SUBSET Block]
  /\ linked \in SUBSET Bins /\ linked # {}
  /\ tail \in linked
  /\ tag \in [Bins -> [Block -> 0 .. Blocks - 1]]
  /\ big \in SUBSET Bins
  /\ live \in SUBSET Pointers
  /\ status \in {"ok", "runaway", "overrun"}
  /\ abused \in SUBSET Bins

BlockPointers == {p \in live : p.bin \notin big}

\* No two allocations __malloc handed out share a block, wherever the search,
\* the new Bins and the dropped Bins left them (set_bin against
\* slowest_find_consecutive_bin).
NoOverlap ==
  \A p, r \in BlockPointers :
    p.bin = r.bin /\ p # r => Extent(p) \cap Extent(r) = {}

\* The byte in front of every block allocation still holds the length of its
\* run, whatever clients stored in the bytes they asked for: this is the byte
\* __free relies on, and it lies inside the preceding allocation's last block.
LengthIntact ==
  \A p \in BlockPointers : tag[p.bin][p.start - 1] = BinsSize(p.size)

\* The bitmap of a page is exactly what was handed out from it, plus block 0:
\* __malloc never marks a block nobody owns and never leaves an owned one clear.
Accounted ==
  \A b \in Bins \ big :
    bits[b] \ {0} = UNION {Extent(p) : p \in {r \in live : r.bin = b}}

\* The shape any sequence of requests leaves, before the first overrun: a
\* pointer is page aligned exactly when it has a mapping of its own, and the page
\* of every block allocation is on the list, not behind bin_tail.
AlignedIffBig ==
  \A p \in live :
    /\ p.start = 0 <=> p.bin \in big
    /\ p.bin \notin big => p.start + BinsSize(p.size) <= Blocks
BlockPagesLinked == \A p \in BlockPointers : p.bin \in linked /\ p.bin <= tail

PageOf(b) == {p \in live : p.bin = b}
PageExact(b) ==
  /\ \A p, r \in PageOf(b) : p # r => Extent(p) \cap Extent(r) = {}
  /\ bits[b] \ {0} = UNION {Extent(p) : p \in PageOf(b)}

\* With __free, whatever happened in other pages: in a page where no run was
\* freed that starts behind the first word, ends in the last two blocks or has
\* another run directly behind it, pointers do not overlap and the bitmap is
\* exactly what is held; unset_bin clears the right bits and no other.
CarefulPagesAreExact ==
  status = "ok" => \A b \in Bins \ (big \cup abused) : PageExact(b)

\* In such a page __free finds every run that is still held: its Bin has not been
\* dropped from the list and the byte in front of the run still holds its length,
\* although __free clears runs and clients store next to it.
CarefulRunsAreFound ==
  status = "ok" =>
    \A p \in BlockPointers :
      p.bin \notin abused => p.bin \in linked /\ FreedBlocks(p) = BinsSize(p.size)
=============================================================================
