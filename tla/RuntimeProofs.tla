---------------------------- MODULE RuntimeProofs ----------------------------
(***************************************************************************)
(* Proofs about the two parts of the library a program runs with.          *)
(*                                                                         *)
(* The bitmap heap, for every page, block and word size and every set of   *)
(* requests: in a page that is only freed in the ways unset_bin gets right *)
(* (in every page, when nothing is freed) pointers do not overlap, the     *)
(* bitmap is exact and each run has its length in front of it.             *)
(*                                                                         *)
(* The task pool, for any number of workers: lost increments of            *)
(* num_threads_alive only undercount, so the pool is never reported ready  *)
(* too early; and only the first task put can run, by each worker at most  *)
(* once.                                                                   *)
(***************************************************************************)
EXTENDS Alloc, ThreadPool, FiniteSetTheorems, TLAPS, WellFoundedInduction

----------------------------------------------------------------------------
(* The bitmap heap                                                         *)

\* A non-empty set of naturals has a least element.
LEMMA LeastNatural ==
  ASSUME NEW T, T \subseteq Nat, T # {}
  PROVE  \E x \in T : \A y \in T : x <= y
<1>1. IsWellFoundedOn(OpToRel(<, Nat), Nat)
  BY NatLessThanWellFounded
<1>2. PICK x \in T : \A y \in T : <<y, x>> \notin OpToRel(<, Nat)
  BY <1>1, WFMin, Zenon
<1>3. \A y \in T : ~(y < x)
  BY <1>2 DEF OpToRel
<1>4. \A y \in T : y \in Nat /\ x \in Nat
  OBVIOUS
<1>5. \A y \in T : x <= y
  BY <1>3, <1>4
<1>6. QED
  BY <1>5

\* What fits k times d fits into k blocks of the quotient: the arithmetic
\* behind bins_size = size / 0x10 + 1.
LEMMA QuotientBounds ==
  ASSUME NEW n \in Nat, NEW d \in Nat \ {0}, NEW k \in Int
  PROVE  /\ n \div d \in Nat
         /\ k * d <= n => k <= n \div d
         /\ n < k * d => n \div d < k
<1>1. n = d * (n \div d) + (n % d) /\ n % d \in 0 .. d - 1 /\ n \div d \in Int
  OBVIOUS
<1>2. QED
  BY <1>1

LEMMA SmallModulus ==
  ASSUME NEW d \in Nat \ {0}, NEW n \in Nat, n < d
  PROVE  n \div d = 0 /\ n % d = n
<1>1. n \div d \in Nat /\ (n < 1 * d => n \div d < 1)
  BY QuotientBounds
<1>2. n \div d = 0
  BY <1>1
<1>3. n = d * (n \div d) + (n % d) /\ n % d \in 0 .. d - 1
  OBVIOUS
<1>4. QED
  BY <1>2, <1>3

\* A block request asks for at least one block and at most all but block 0,
\* and the bytes it may store into end before the last byte of its run.
LEMMA BinsSizeFacts ==
  ASSUME NEW size \in Sizes
  PROVE  /\ BinsSize(size) \in Nat /\ BinsSize(size) >= 1
         /\ size < PageSize - BlockSize => BinsSize(size) <= Blocks - 1
         /\ \A k \in Int : k * BlockSize <= size => k <= BinsSize(size) - 1
<1>1. size \in Nat
  BY SizesAssumption
<1>2. size \div BlockSize \in Nat
  BY <1>1, QuotientBounds, BlockSizeAssumption
<1>3. ASSUME size < PageSize - BlockSize PROVE size \div BlockSize < Blocks - 1
  <2>1. PageSize - BlockSize = (Blocks - 1) * BlockSize
    BY BlocksAssumption, BlockSizeAssumption DEF PageSize
  <2>2. Blocks - 1 \in Int
    BY BlocksAssumption
  <2>3. size < (Blocks - 1) * BlockSize
    BY <1>3, <2>1
  <2>4. QED
    BY <1>1, <2>2, <2>3, QuotientBounds, BlockSizeAssumption
<1>4. ASSUME NEW k \in Int, k * BlockSize <= size PROVE k <= size \div BlockSize
  BY <1>1, <1>4, QuotientBounds, BlockSizeAssumption
<1>5. QED
  BY <1>2, <1>3, <1>4, BlocksAssumption DEF BinsSize

\* A run the search reports lies in the page, off block 0, on clear bits.
LEMMA SearchFinds ==
  ASSUME NEW bs \in SUBSET Block, NEW q \in Nat,
         slowest_find_consecutive_bin(bs, q) # 0
  PROVE  LET a == slowest_find_consecutive_bin(bs, q)
         IN  a \in Block /\ a >= 1 /\ a + q <= Blocks /\ Run(a, q) \cap bs = {}
<1> DEFINE T == {s \in Block : Fits(bs, s, q)}
<1>1. \E s \in Block : Fits(bs, s, q)
  BY DEF slowest_find_consecutive_bin
<1>2. T \subseteq Nat /\ T # {}
  BY <1>1 DEF Block
<1> HIDE DEF T
<1>3. \E x \in T : \A y \in T : x <= y
  BY <1>2, LeastNatural
<1>4. \E s \in Block : Fits(bs, s, q) /\ \A t \in Block : Fits(bs, t, q) => s <= t
  BY <1>3 DEF T
<1>5. slowest_find_consecutive_bin(bs, q)
        = CHOOSE s \in Block : Fits(bs, s, q) /\ \A t \in Block : Fits(bs, t, q) => s <= t
  BY <1>1 DEF slowest_find_consecutive_bin
<1>6. slowest_find_consecutive_bin(bs, q) \in Block /\ Fits(bs, slowest_find_consecutive_bin(bs, q), q)
  BY <1>4, <1>5
<1>7. QED
  BY <1>6 DEF Fits, Block

\* A Bin whose bits are all set has no room.
LEMMA FullHasNoRoom ==
  ASSUME NEW q \in Nat, q >= 1
  PROVE  slowest_find_consecutive_bin(Block, q) = 0
<1>1. ASSUME NEW s \in Block, Fits(Block, s, q) PROVE FALSE
  <2>1. s \in Run(s, q)
    BY BlocksAssumption DEF Run, Block
  <2>2. QED
    BY <1>1, <2>1 DEF Fits
<1>2. QED
  BY <1>1 DEF slowest_find_consecutive_bin

\* A new Bin, with only block 0 reserved, has room for any block request, at
\* block 1.
LEMMA FreshHasRoom ==
  ASSUME NEW q \in Nat, q >= 1, q <= Blocks - 1
  PROVE  slowest_find_consecutive_bin({0}, q) = 1
<1>1. Fits({0}, 1, q) /\ 1 \in Block
  BY BlocksAssumption DEF Fits, Run, Block
<1>2. ~Fits({0}, 0, q)
  BY BlocksAssumption DEF Fits, Run
<1>3. \A t \in Block : Fits({0}, t, q) => 1 <= t
  BY <1>2 DEF Block
<1>4. \E s \in Block : Fits({0}, s, q)
  BY <1>1
<1>5. \A s \in Block : (Fits({0}, s, q) /\ \A t \in Block : Fits({0}, t, q) => s <= t) => s = 1
  BY <1>1, <1>3 DEF Block
<1>6. (CHOOSE s \in Block : Fits({0}, s, q) /\ \A t \in Block : Fits({0}, t, q) => s <= t) = 1
  BY <1>1, <1>3, <1>5
<1>7. QED
  BY <1>4, <1>6 DEF slowest_find_consecutive_bin

\* The list has a last Bin.
LEMMA LastIsLast ==
  ASSUME linked \in SUBSET Bins, linked # {}
  PROVE  Last \in linked /\ \A c \in linked : c <= Last
<1> DEFINE T == {MaxBins - b : b \in linked}
<1>0. \A b \in linked : b \in Bins /\ MaxBins - b \in Nat
  BY MaxBinsAssumption DEF Bins
<1>1. T \subseteq Nat /\ T # {}
  BY <1>0
<1> HIDE DEF T
<1>2. PICK x \in T : \A y \in T : x <= y
  BY <1>1, LeastNatural
<1>3. PICK b \in linked : x = MaxBins - b
  BY <1>2 DEF T
<1>4. \A c \in linked : MaxBins - c \in T
  BY DEF T
<1>5. \A c \in linked : c <= b
  BY <1>2, <1>3, <1>4, MaxBinsAssumption DEF Bins
<1>6. QED
  BY <1>5 DEF Last

\* The Bin behind the last one is on no list.
LEMMA NextBinIsNew ==
  ASSUME TypeOK
  PROVE  Last \in Int /\ \A c \in linked : c < Last + 1
<1>1. Last \in linked /\ \A c \in linked : c <= Last
  BY LastIsLast DEF TypeOK
<1>2. \A c \in linked : c \in Int
  BY MaxBinsAssumption DEF TypeOK, Bins
<1>3. QED
  BY <1>1, <1>2

----------------------------------------------------------------------------
(* The heap with __free                                                    *)

\* The shape of the list: bin_tail describes a page of blocks and only
\* mappings of expand_heap, with all bits set, follow it; nothing refers to a
\* Bin behind the last one.  It keeps __malloc from carving blocks out of a
\* mapping, and a new Bin from dropping a page of blocks.
ListShape ==
  /\ tail \notin big
  /\ \A b \in linked : b > tail => b \in big
  /\ \A b \in big : bits[b] = Block
  /\ \A b \in Bins : (\A c \in linked : c < b) =>
       b \notin big /\ \A p \in live : p.bin # b

HeapInv == TypeOK /\ ListShape /\ AlignedIffBig /\ BlockPagesLinked

LEMMA HeapInvInit == Init => HeapInv
<1> SUFFICES ASSUME Init PROVE HeapInv
  OBVIOUS
<1>1. TypeOK
  BY BlocksAssumption, MaxBinsAssumption DEF Init, TypeOK, Bins, Block
<1>2. ListShape
  BY MaxBinsAssumption DEF Init, ListShape, Bins
<1>3. AlignedIffBig /\ BlockPagesLinked
  BY DEF Init, AlignedIffBig, BlockPagesLinked, BlockPointers
<1>4. QED
  BY <1>1, <1>2, <1>3 DEF HeapInv

\* Carving a run out of Bin b keeps the types, for any bitmap with room.
LEMMA CarveTypes ==
  ASSUME TypeOK, NEW b \in Bins, NEW bs \in SUBSET Block, NEW size \in Sizes,
         size < PageSize - BlockSize,
         slowest_find_consecutive_bin(bs, BinsSize(size)) # 0,
         Carve(b, bs, size)
  PROVE  /\ bits' \in [Bins -> SUBSET Block]
         /\ tag' \in [Bins -> [Block -> 0 .. Blocks - 1]]
         /\ live' \in SUBSET Pointers
<1> DEFINE q == BinsSize(size)
           a == slowest_find_consecutive_bin(bs, q)
<1>1. q \in 1 .. Blocks - 1
  BY BinsSizeFacts, BlocksAssumption
<1>2. a \in Block /\ a >= 1 /\ a + q <= Blocks
  <2>1. q \in Nat /\ slowest_find_consecutive_bin(bs, q) # 0
    BY <1>1
  <2> HIDE DEF q
  <2>2. QED
    BY <2>1, SearchFinds
<1> HIDE DEF q, a
<1>3. a - 1 \in Block /\ Run(a, q) \subseteq Block
  BY <1>1, <1>2, BlocksAssumption DEF Block, Run
<1>4. set_bin(bs, a, q) \in SUBSET Block
  BY <1>3 DEF set_bin
<1>5. /\ bits' = [bits EXCEPT ![b] = set_bin(bs, a, q)]
      /\ tag'  = [tag EXCEPT ![b][a - 1] = q]
      /\ live' = live \cup {[bin |-> b, start |-> a, size |-> size]}
  BY DEF Carve, q, a
<1>6. bits' \in [Bins -> SUBSET Block]
  BY <1>4, <1>5 DEF TypeOK
<1>7. tag' \in [Bins -> [Block -> 0 .. Blocks - 1]]
  <2>1. q \in 0 .. Blocks - 1
    BY <1>1, BlocksAssumption
  <2>2. QED
    BY <1>3, <1>5, <2>1 DEF TypeOK
<1>8. live' \in SUBSET Pointers
  BY <1>2, <1>5 DEF TypeOK, Pointers
<1>9. QED
  BY <1>6, <1>7, <1>8

LEMMA MallocHereKeepsHeap ==
  ASSUME HeapInv, NEW size \in Sizes, MallocHere(size)
  PROVE  HeapInv'
<1> USE DEF HeapInv
<1> DEFINE q == BinsSize(size)
<1>1. PICK b \in Searched : Has(b, q) /\ Carve(b, bits[b], size)
  BY DEF MallocHere
<1> DEFINE a == slowest_find_consecutive_bin(bits[b], q)
<1>2. q \in 1 .. Blocks - 1
  BY BinsSizeFacts, BlocksAssumption DEF MallocHere
<1>3. b \in linked /\ b \in Bins /\ b >= tail /\ bits[b] \in SUBSET Block
  BY <1>1 DEF Searched, TypeOK
<1>4. a # 0 /\ a \in Block /\ a >= 1 /\ a + q <= Blocks
  BY <1>1, <1>2, <1>3, SearchFinds DEF Has
<1>5. b \notin big
  <2>1. bits[b] # Block
    BY <1>2, <1>4, FullHasNoRoom
  <2>2. QED
    BY <2>1 DEF ListShape
<1>6. b = tail
  BY <1>3, <1>5, MaxBinsAssumption DEF ListShape, TypeOK, Bins
<1>7. UNCHANGED <<linked, tail, big, status, abused>> /\ size < PageSize - BlockSize
  BY DEF MallocHere
<1>8. TypeOK'
  <2>1. /\ bits' \in [Bins -> SUBSET Block]
        /\ tag' \in [Bins -> [Block -> 0 .. Blocks - 1]]
        /\ live' \in SUBSET Pointers
    BY <1>1, <1>3, <1>4, <1>7, CarveTypes
  <2>2. QED
    BY <1>7, <2>1 DEF TypeOK
<1> HIDE DEF a, q
<1>9. /\ bits' = [bits EXCEPT ![b] = set_bin(bits[b], a, q)]
      /\ live' = live \cup {[bin |-> b, start |-> a, size |-> size]}
  BY <1>1 DEF Carve, a, q
<1>10. ListShape'
  BY <1>3, <1>5, <1>7, <1>9 DEF ListShape, TypeOK, Bins
<1>11. AlignedIffBig'
  BY <1>4, <1>5, <1>7, <1>9 DEF AlignedIffBig, q, Block
<1>12. BlockPagesLinked'
  BY <1>3, <1>6, <1>7, <1>9, MaxBinsAssumption DEF BlockPagesLinked, BlockPointers, TypeOK, Bins
<1>13. QED
  BY <1>8, <1>10, <1>11, <1>12

\* A new Bin becomes the last one and bin_tail; nothing referred to it before.
LEMMA MallocNewBinKeepsHeap ==
  ASSUME HeapInv, NEW size \in Sizes, MallocNewBin(size)
  PROVE  HeapInv'
<1> USE DEF HeapInv
<1> DEFINE q == BinsSize(size)
           n == Last + 1
<1>1. q \in 1 .. Blocks - 1 /\ q \in Nat
  BY BinsSizeFacts, BlocksAssumption DEF MallocNewBin
<1>2. slowest_find_consecutive_bin({0}, q) = 1
  BY <1>1, FreshHasRoom, BlocksAssumption
<1>3. /\ n \in Bins /\ size < PageSize - BlockSize /\ Carve(n, {0}, size)
      /\ linked' = {b \in linked : b <= tail} \cup {n}
      /\ tail' = n /\ UNCHANGED <<big, status, abused>>
  BY DEF MallocNewBin
<1>4. \A c \in linked : c < n
  BY NextBinIsNew
<1>5. n \notin big /\ \A p \in live : p.bin # n
  BY <1>3, <1>4 DEF ListShape
<1>6. /\ bits' = [bits EXCEPT ![n] = set_bin({0}, 1, q)]
      /\ live' = live \cup {[bin |-> n, start |-> 1, size |-> size]}
  BY <1>2, <1>3 DEF Carve
<1>7. {0} \in SUBSET Block
  BY BlocksAssumption DEF Block
<1>8. TypeOK'
  <2>1. /\ bits' \in [Bins -> SUBSET Block]
        /\ tag' \in [Bins -> [Block -> 0 .. Blocks - 1]]
        /\ live' \in SUBSET Pointers
    <3>1. slowest_find_consecutive_bin({0}, BinsSize(size)) # 0
      BY <1>2
    <3>2. QED
      BY <1>3, <1>7, <3>1, CarveTypes
  <2>2. QED
    BY <1>3, <2>1 DEF TypeOK
<1> HIDE DEF q, n
<1>9. ListShape'
  <2>1. tail' \notin big' /\ \A b \in linked' : ~(b > tail')
    BY <1>3, <1>4, <1>5, MaxBinsAssumption DEF TypeOK, Bins
  <2>2. \A b \in big' : bits'[b] = Block
    BY <1>3, <1>5, <1>6 DEF ListShape, TypeOK
  <2>3. ASSUME NEW b \in Bins, \A c \in linked' : c < b
        PROVE  b \notin big' /\ \A p \in live' : p.bin # b
    <3>1. n < b
      BY <1>3, <2>3
    <3>2. \A c \in linked : c < b
      BY <1>3, <1>4, <3>1, MaxBinsAssumption DEF TypeOK, Bins
    <3>3. QED
      BY <1>3, <1>6, <3>1, <3>2, MaxBinsAssumption DEF ListShape, Bins
  <2>4. QED
    BY <2>1, <2>2, <2>3 DEF ListShape
<1>10. AlignedIffBig'
  BY <1>1, <1>3, <1>5, <1>6, BlocksAssumption DEF AlignedIffBig, q
<1>11. BlockPagesLinked'
  <2>1. ASSUME NEW p \in BlockPointers' PROVE p.bin \in linked' /\ p.bin <= tail'
    <3>1. CASE p \in live
      <4>1. p.bin \in linked /\ p.bin <= tail
        BY <1>3, <2>1, <3>1 DEF BlockPagesLinked, BlockPointers
      <4>2. p.bin < n
        BY <1>4, <4>1
      <4>3. p.bin \in Int /\ n \in Int
        <5>1. p.bin \in Bins /\ n \in Bins
          BY <1>3, <4>1 DEF TypeOK
        <5>2. QED
          BY <5>1, MaxBinsAssumption DEF Bins
      <4>4. p.bin <= n
        BY <4>2, <4>3
      <4>5. p.bin \in linked'
        BY <1>3, <4>1
      <4>6. QED
        BY <1>3, <4>4, <4>5
    <3>2. CASE p.bin = n
      BY <1>3, <3>2, MaxBinsAssumption DEF Bins
    <3>3. QED
      BY <1>6, <2>1, <3>1, <3>2 DEF BlockPointers
  <2>2. QED
    BY <2>1 DEF BlockPagesLinked
<1>12. QED
  BY <1>8, <1>9, <1>10, <1>11

LEMMA ExpandHeapKeepsHeap ==
  ASSUME HeapInv, NEW size \in Sizes, expand_heap(size)
  PROVE  HeapInv'
<1> USE DEF HeapInv
<1> DEFINE n == Last + 1
<1>1. /\ n \in Bins
      /\ bits'   = [bits EXCEPT ![n] = Block]
      /\ linked' = linked \cup {n}
      /\ big'    = big \cup {n}
      /\ live'   = live \cup {[bin |-> n, start |-> 0, size |-> size]}
      /\ UNCHANGED <<tail, tag, status, abused>>
  BY DEF expand_heap
<1>2. \A c \in linked : c < n
  BY NextBinIsNew
<1>3. n \notin big /\ \A p \in live : p.bin # n
  BY <1>1, <1>2 DEF ListShape
<1> HIDE DEF n
<1>4. TypeOK'
  <2>1. 0 \in Block
    BY BlocksAssumption DEF Block
  <2>2. live' \in SUBSET Pointers
    BY <1>1, <2>1 DEF TypeOK, Pointers
  <2>3. QED
    BY <1>1, <2>2 DEF TypeOK
<1>5. ListShape'
  <2>1. tail' \notin big' /\ \A b \in linked' : b > tail' => b \in big'
    BY <1>1, <1>2, MaxBinsAssumption DEF ListShape, TypeOK, Bins
  <2>2. \A b \in big' : bits'[b] = Block
    BY <1>1 DEF ListShape, TypeOK
  <2>3. ASSUME NEW b \in Bins, \A c \in linked' : c < b
        PROVE  b \notin big' /\ \A p \in live' : p.bin # b
    BY <1>1, <2>3, MaxBinsAssumption DEF ListShape, Bins
  <2>4. QED
    BY <2>1, <2>2, <2>3 DEF ListShape
<1>6. AlignedIffBig'
  BY <1>1, <1>3 DEF AlignedIffBig
<1>7. BlockPagesLinked'
  BY <1>1, <1>3 DEF BlockPagesLinked, BlockPointers
<1>8. QED
  BY <1>4, <1>5, <1>6, <1>7

\* __free of a mapping always runs away, so the bits of a mapping stay set.
LEMMA FreeKeepsHeap ==
  ASSUME HeapInv, NEW p \in live, __free(p)
  PROVE  HeapInv'
<1> USE DEF HeapInv
<1>1. /\ live' = live \/ live' = live \ {p}
      /\ abused' \in SUBSET Bins
      /\ status' \in {"ok", "runaway", "overrun"}
      /\ UNCHANGED <<linked, tail, big>>
  BY DEF __free, FreeFound, FreeOverruns, FreeRunsAway, FreeUnlinked, Freed, TypeOK, Pointers
<1>2. p.bin \in Bins /\ p.start \in Block
  BY DEF TypeOK, Pointers
<1>3. /\ bits' \in [Bins -> SUBSET Block]
      /\ tag' \in [Bins -> [Block -> 0 .. Blocks - 1]]
      /\ \A b \in big : bits'[b] = bits[b]
  <2>1. CASE ClearRun(p)
    <3> DEFINE q == FreedBlocks(p)
    <3>1. p.bin \notin big
      <4>1. SUFFICES ASSUME p.bin \in big PROVE FALSE
        OBVIOUS
      <4>2. p.start = 0
        BY <4>1 DEF AlignedIffBig
      <4>3. UnsetRunsAway(p.start, q)
        BY <4>2, BlocksAssumption DEF UnsetRunsAway, FreedBlocks
      <4>4. QED
        BY <2>1, <4>3 DEF ClearRun
    <3>2. unset_bin(bits[p.bin], p.start, q) \in SUBSET Block
      BY <1>2 DEF unset_bin, TypeOK
    <3>3. /\ bits' = [bits EXCEPT ![p.bin] = unset_bin(bits[p.bin], p.start, q)]
          /\ tag'  = [tag EXCEPT ![p.bin] =
                        [i \in Block |-> IF i \in Run(p.start, q) THEN 0 ELSE tag[p.bin][i]]]
      BY <2>1 DEF ClearRun
    <3> HIDE DEF q
    <3>4. [i \in Block |-> IF i \in Run(p.start, q) THEN 0 ELSE tag[p.bin][i]]
            \in [Block -> 0 .. Blocks - 1]
      BY <1>2, BlocksAssumption DEF TypeOK
    <3>5. QED
      BY <1>2, <3>1, <3>2, <3>3, <3>4 DEF TypeOK
  <2>2. CASE UNCHANGED <<bits, tag>>
    BY <2>2 DEF TypeOK
  <2>3. QED
    BY <2>1, <2>2 DEF __free, FreeFound, FreeOverruns, FreeRunsAway, FreeUnlinked
<1>4. TypeOK'
  BY <1>1, <1>3 DEF TypeOK
<1>5. ListShape'
  BY <1>1, <1>3 DEF ListShape
<1>6. AlignedIffBig' /\ BlockPagesLinked'
  BY <1>1 DEF AlignedIffBig, BlockPagesLinked, BlockPointers
<1>7. QED
  BY <1>4, <1>5, <1>6

LEMMA WriteKeepsHeap ==
  ASSUME HeapInv, NEW p \in live, NEW i \in Block, NEW v \in Bytes, Write(p, i, v)
  PROVE  HeapInv'
<1>1. TypeOK'
  BY BytesAssumption DEF HeapInv, Write, TypeOK, Pointers
<1>2. ListShape' /\ AlignedIffBig' /\ BlockPagesLinked'
  BY DEF HeapInv, Write, ListShape, AlignedIffBig, BlockPagesLinked, BlockPointers
<1>3. QED
  BY <1>1, <1>2 DEF HeapInv

LEMMA HeapInvNext == HeapInv /\ [Next]_vars => HeapInv'
<1> SUFFICES ASSUME HeapInv, [Next]_vars PROVE HeapInv'
  OBVIOUS
<1>1. ASSUME NEW size \in Sizes, __malloc(size) PROVE HeapInv'
  BY <1>1, MallocHereKeepsHeap, MallocNewBinKeepsHeap, ExpandHeapKeepsHeap
     DEF __malloc, MallocBig
<1>2. CASE __thalloc
  BY <1>2, ExpandHeapKeepsHeap DEF __thalloc
<1>3. ASSUME NEW p \in live, NEW i \in Block, NEW v \in Bytes, Write(p, i, v)
      PROVE  HeapInv'
  BY <1>3, WriteKeepsHeap
<1>4. ASSUME NEW p \in live, __free(p) PROVE HeapInv'
  BY <1>4, FreeKeepsHeap
<1>5. CASE UNCHANGED vars
  BY <1>5 DEF vars, HeapInv, TypeOK, ListShape, AlignedIffBig, BlockPagesLinked, BlockPointers
<1>6. QED
  BY <1>1, <1>2, <1>3, <1>4, <1>5 DEF Next, MallocNext

----------------------------------------------------------------------------
(* One page of blocks, whatever happens in the others                      *)

\* The books of a page: its bitmap is exactly what is held, and each run has its
\* length in front of it.
PageSound(c) ==
  /\ PageExact(c)
  /\ \A p \in PageOf(c) : tag[c][p.start - 1] = BinsSize(p.size)

LEMMA PageUntouched ==
  ASSUME NEW c, PageSound(c), PageOf(c)' = PageOf(c), bits'[c] = bits[c], tag'[c] = tag[c]
  PROVE  PageSound(c)'
BY DEF PageSound, PageExact, Extent, Run, BinsSize

\* The blocks of a pointer that is held start at its start and are not clear.
LEMMA OwnedBitsAreSet ==
  ASSUME HeapInv, NEW c \in Bins, PageSound(c), NEW p \in PageOf(c)
  PROVE  /\ p \in live /\ p.bin = c /\ p.start \in Block /\ p.size \in Sizes
         /\ BinsSize(p.size) \in Nat /\ BinsSize(p.size) >= 1
         /\ p.start \in Extent(p)
         /\ Extent(p) \subseteq bits[c]
<1>1. p \in live /\ p.bin = c /\ p.start \in Block /\ p.size \in Sizes
  BY DEF PageOf, HeapInv, TypeOK, Pointers
<1>2. BinsSize(p.size) \in Nat /\ BinsSize(p.size) >= 1
  BY <1>1, BinsSizeFacts
<1>3. p.start \in Extent(p)
  BY <1>1, <1>2 DEF Extent, Run, Block
<1>4. Extent(p) \subseteq bits[c]
  BY DEF PageSound, PageExact
<1>5. QED
  BY <1>1, <1>2, <1>3, <1>4

\* One new pointer, carved out of clear blocks of a page of blocks, keeps the
\* books of every page in order.
LEMMA CarveKeepsPage ==
  ASSUME HeapInv, NEW c \in Bins, PageSound(c),
         NEW b \in Bins,
         NEW size \in Sizes, NEW q, q = BinsSize(size), q \in 1 .. Blocks - 1,
         NEW a \in Block, a >= 1, a + q <= Blocks,
         NEW bs \in SUBSET Block, Run(a, q) \cap bs = {},
         b = c => bs \ {0} = bits[b] \ {0},
         bits' = [bits EXCEPT ![b] = set_bin(bs, a, q)],
         tag'  = [tag EXCEPT ![b][a - 1] = q],
         live' = live \cup {[bin |-> b, start |-> a, size |-> size]}
  PROVE  PageSound(c)'
<1> DEFINE new == [bin |-> b, start |-> a, size |-> size]
<1>1. Extent(new) = Run(a, q) /\ new.bin = b /\ new.start = a /\ new.size = size
  BY DEF Extent
<1>2. 0 \notin Run(a, q) /\ a \in Run(a, q)
  BY DEF Run, Block
<1>3. live' = live \cup {new}
  OBVIOUS
<1>4. /\ bits \in [Bins -> SUBSET Block] /\ tag \in [Bins -> [Block -> 0 .. Blocks - 1]]
      /\ a - 1 \in Block
  <2>1. a - 1 \in Block
    BY BlocksAssumption DEF Block
  <2>2. QED
    BY <2>1 DEF HeapInv, TypeOK
<1> HIDE DEF new
<1>5. CASE b # c
  BY <1>1, <1>3, <1>4, <1>5, PageUntouched DEF PageOf
<1>6. CASE b = c
  <2>1. PageOf(c)' = PageOf(c) \cup {new}
    BY <1>1, <1>3, <1>6 DEF PageOf
  <2>2. ASSUME NEW r \in PageOf(c)
        PROVE  Extent(r) \cap Run(a, q) = {} /\ r.start # a
    <3>1. Extent(r) \subseteq bits[c] /\ r.start \in Extent(r)
      BY OwnedBitsAreSet
    <3>2. QED
      BY <1>2, <1>6, <3>1
  <2>3. \A p, r \in PageOf(c)' : p # r => Extent(p) \cap Extent(r) = {}
    <3>1. SUFFICES ASSUME NEW p \in PageOf(c)', NEW r \in PageOf(c)', p # r
                   PROVE  Extent(p) \cap Extent(r) = {}
      OBVIOUS
    <3>2. CASE p \in PageOf(c) /\ r \in PageOf(c)
      BY <3>1, <3>2 DEF PageSound, PageExact
    <3>3. CASE p = new /\ r \in PageOf(c)
      BY <1>1, <2>2, <3>3
    <3>4. CASE r = new /\ p \in PageOf(c)
      BY <1>1, <2>2, <3>4
    <3>5. QED
      BY <2>1, <3>1, <3>2, <3>3, <3>4
  <2>4. bits'[c] \ {0} = UNION {Extent(p) : p \in PageOf(c)'}
    <3>1. bits[c] \ {0} = UNION {Extent(p) : p \in PageOf(c)}
      BY DEF PageSound, PageExact
    <3>2. bits'[c] = bs \cup Run(a, q)
      BY <1>4, <1>6 DEF set_bin
    <3>3. bits'[c] \ {0} = (bits[c] \ {0}) \cup Run(a, q)
      BY <1>2, <1>6, <3>2
    <3>4. QED
      BY <1>1, <2>1, <3>1, <3>3
  <2>5. ASSUME NEW p \in PageOf(c)' PROVE tag'[c][p.start - 1] = BinsSize(p.size)
    <3>1. CASE p = new
      BY <1>1, <1>4, <1>6, <3>1
    <3>2. CASE p \in PageOf(c)
      <4>1. tag[c][p.start - 1] = BinsSize(p.size)
        BY <3>2 DEF PageSound
      <4>2. p.start \in Block /\ p.start - 1 # a - 1
        BY <2>2, <3>2, OwnedBitsAreSet DEF Block
      <4>3. QED
        BY <1>4, <1>6, <4>1, <4>2
    <3>3. QED
      BY <2>1, <3>1, <3>2
  <2>6. QED
    BY <2>3, <2>4, <2>5 DEF PageSound, PageExact, Extent, Run, BinsSize
<1>7. QED
  BY <1>5, <1>6

LEMMA MallocHereKeepsPage ==
  ASSUME HeapInv, NEW c \in Bins, PageSound(c), NEW size \in Sizes, MallocHere(size)
  PROVE  PageSound(c)'
<1> DEFINE q == BinsSize(size)
<1>1. PICK b \in Searched : Has(b, q) /\ Carve(b, bits[b], size)
  BY DEF MallocHere
<1> DEFINE a == slowest_find_consecutive_bin(bits[b], q)
<1>2. q \in 1 .. Blocks - 1 /\ q \in Nat
  BY BinsSizeFacts, BlocksAssumption DEF MallocHere
<1>3. b \in Bins /\ bits[b] \in SUBSET Block
  BY <1>1 DEF Searched, HeapInv, TypeOK
<1>4. a \in Block /\ a >= 1 /\ a + q <= Blocks /\ Run(a, q) \cap bits[b] = {}
  BY <1>1, <1>2, <1>3, SearchFinds DEF Has
<1>5. /\ bits' = [bits EXCEPT ![b] = set_bin(bits[b], a, q)]
      /\ tag'  = [tag EXCEPT ![b][a - 1] = q]
      /\ live' = live \cup {[bin |-> b, start |-> a, size |-> size]}
  BY <1>1 DEF Carve
<1> HIDE DEF a
<1>6. QED
  BY <1>2, <1>3, <1>4, <1>5, CarveKeepsPage

\* The new Bin's own bitmap is reset; nothing was held in its page.
LEMMA MallocNewBinKeepsPage ==
  ASSUME HeapInv, NEW c \in Bins, PageSound(c), NEW size \in Sizes, MallocNewBin(size)
  PROVE  PageSound(c)'
<1> DEFINE q == BinsSize(size)
           n == Last + 1
<1>1. q \in 1 .. Blocks - 1 /\ q \in Nat /\ q >= 1
  BY BinsSizeFacts, BlocksAssumption DEF MallocNewBin
<1>2. slowest_find_consecutive_bin({0}, q) = 1
  BY <1>1, FreshHasRoom, BlocksAssumption
<1>3. n \in Bins /\ \A d \in linked : d < n
  BY NextBinIsNew DEF HeapInv, MallocNewBin
<1>4. \A p \in live : p.bin # n
  BY <1>3 DEF HeapInv, ListShape
<1>5. n = c => {0} \ {0} = bits[n] \ {0}
  <2>1. ASSUME n = c PROVE PageOf(c) = {}
    BY <1>4, <2>1 DEF PageOf
  <2>2. QED
    BY <2>1 DEF PageSound, PageExact
<1>6. /\ bits' = [bits EXCEPT ![n] = set_bin({0}, 1, q)]
      /\ tag'  = [tag EXCEPT ![n][1 - 1] = q]
      /\ live' = live \cup {[bin |-> n, start |-> 1, size |-> size]}
  BY <1>2 DEF Carve, MallocNewBin
<1>7. /\ {0} \in SUBSET Block /\ Run(1, q) \cap {0} = {}
      /\ 1 \in Block /\ 1 >= 1 /\ 1 + q <= Blocks
  BY <1>1, BlocksAssumption DEF Block, Run
<1> HIDE DEF n, q
<1>8. q = BinsSize(size)
  BY DEF q
<1>9. QED
  BY <1>1, <1>3, <1>5, <1>6, <1>7, <1>8, CarveKeepsPage

LEMMA ExpandHeapKeepsPage ==
  ASSUME HeapInv, NEW c \in Bins, PageSound(c), NEW size \in Sizes, expand_heap(size),
         c \notin big'
  PROVE  PageSound(c)'
<1> DEFINE n == Last + 1
           new == [bin |-> n, start |-> 0, size |-> size]
<1>1. /\ bits' = [bits EXCEPT ![n] = Block]
      /\ big'  = big \cup {n}
      /\ live' = live \cup {new}
      /\ tag'  = tag
  BY DEF expand_heap
<1>2. c # n /\ new.bin = n
  BY <1>1
<1> HIDE DEF n, new
<1>3. bits'[c] = bits[c] /\ PageOf(c)' = PageOf(c)
  BY <1>1, <1>2 DEF HeapInv, TypeOK, PageOf
<1>4. QED
  BY <1>1, <1>3, PageUntouched

\* A client's store reaches no length byte of its page: the last byte of its run
\* is behind the bytes it asked for, and the other bytes belong to nobody else.
LEMMA WriteKeepsPage ==
  ASSUME HeapInv, NEW c \in Bins, PageSound(c),
         NEW p \in live, NEW i \in Block, NEW v \in Bytes, Write(p, i, v)
  PROVE  PageSound(c)'
<1>1. /\ UNCHANGED <<bits, live>>
      /\ tag' = [tag EXCEPT ![p.bin][i] = v]
      /\ i >= p.start /\ (i - p.start + 1) * BlockSize <= p.size
  BY DEF Write, InRequest
<1>2. /\ tag \in [Bins -> [Block -> 0 .. Blocks - 1]]
      /\ p.bin \in Bins /\ p.start \in Block /\ p.size \in Sizes
  BY DEF HeapInv, TypeOK, Pointers
<1>3. PageOf(c)' = PageOf(c)
  BY <1>1 DEF PageOf
<1>4. CASE p.bin # c
  BY <1>1, <1>2, <1>3, <1>4, PageUntouched
<1>5. CASE p.bin = c
  <2>1. p \in PageOf(c)
    BY <1>5 DEF PageOf
  <2>2. i - p.start + 1 \in Int
    BY <1>2 DEF Block
  <2>3. BinsSize(p.size) \in Nat /\ i - p.start + 1 <= BinsSize(p.size) - 1
    BY <1>1, <1>2, <2>2, BinsSizeFacts
  <2>4. i + 1 \in Extent(p)
    BY <1>1, <1>2, <2>3 DEF Extent, Run, Block
  <2>5. ASSUME NEW r \in PageOf(c) PROVE tag'[c][r.start - 1] = BinsSize(r.size)
    <3>1. tag[c][r.start - 1] = BinsSize(r.size)
      BY DEF PageSound
    <3>2. r.start \in Block /\ r.start \in Extent(r)
      BY OwnedBitsAreSet
    <3>3. i # r.start - 1
      <4>1. CASE r = p
        BY <1>1, <1>2, <4>1 DEF Block
      <4>2. CASE r # p
        <5>1. Extent(r) \cap Extent(p) = {}
          BY <2>1, <4>2 DEF PageSound, PageExact
        <5>2. QED
          BY <2>4, <3>2, <5>1 DEF Block
      <4>3. QED
        BY <4>1, <4>2
    <3>4. QED
      BY <1>1, <1>2, <1>5, <3>1, <3>2, <3>3
  <2>6. PageExact(c)'
    BY <1>1, <1>3 DEF PageSound, PageExact, Extent, Run, BinsSize
  <2>7. QED
    BY <1>3, <2>5, <2>6 DEF PageSound, BinsSize
<1>6. QED
  BY <1>4, <1>5

\* A careful free clears the bits of its run and one that is clear already, and
\* the bytes it zeroes are the length bytes of no other run.
LEMMA FreeKeepsPage ==
  ASSUME HeapInv, NEW c \in Bins, c \notin big, PageSound(c),
         NEW p \in live, __free(p), status' = "ok", c \notin abused'
  PROVE  PageSound(c)'
<1>1. /\ bits \in [Bins -> SUBSET Block]
      /\ tag \in [Bins -> [Block -> 0 .. Blocks - 1]]
      /\ p.bin \in Bins /\ p.start \in Block /\ p.size \in Sizes
  BY DEF HeapInv, TypeOK, Pointers
<1>2. FreeFound(p) \/ FreeUnlinked(p)
  BY DEF __free, FreeOverruns, FreeRunsAway
<1>3. CASE p.bin # c
  <2>1. PageOf(c)' = PageOf(c)
    BY <1>2, <1>3 DEF FreeFound, FreeUnlinked, Freed, PageOf
  <2>2. bits'[c] = bits[c] /\ tag'[c] = tag[c]
    BY <1>1, <1>2, <1>3 DEF FreeFound, ClearRun, FreeUnlinked
  <2>3. QED
    BY <2>1, <2>2, PageUntouched
<1>4. CASE p.bin = c
  <2> DEFINE q == BinsSize(p.size)
             end == p.start + q
  <2>1. p \in PageOf(c) /\ p \in BlockPointers
    BY <1>4 DEF PageOf, BlockPointers
  <2>2. p.start >= 1 /\ p.bin \in linked
    BY <1>1, <1>4, <2>1 DEF HeapInv, AlignedIffBig, BlockPagesLinked, Block
  <2>3. /\ live' = live \ {p} /\ ~Careless(p)
    BY <1>2, <1>4 DEF FreeFound, FreeUnlinked, Freed
  <2>4. FreedBlocks(p) = q /\ q \in Nat /\ q >= 1
    BY <1>4, <2>1, <2>2, OwnedBitsAreSet DEF FreedBlocks, PageSound
  <2>5. /\ end < Blocks - 1 /\ p.start < WordBits
        /\ \A r \in PageOf(c) : r.start # end
    BY <1>1, <1>4, <2>3, <2>4, BlocksAssumption, WordBitsAssumption DEF Careless, PageOf, Block
  <2>6. unset_bin(bits[c], p.start, q) = bits[c] \ (p.start .. end)
    <3>1. end \in Nat /\ end % Blocks = end
      <4>1. end \in Nat /\ end < Blocks /\ Blocks \in Nat \ {0}
        <5>1. p.start \in Nat /\ q \in Nat /\ p.start + q < Blocks - 1
          BY <1>1, <2>4, <2>5 DEF Block
        <5> HIDE DEF q
        <5>2. QED
          BY <5>1, BlocksAssumption
      <4> HIDE DEF end
      <4>2. QED
        BY <4>1, SmallModulus
    <3>2. p.start \div WordBits = 0
      BY <1>1, <2>5, WordBitsAssumption, SmallModulus DEF Block
    <3>3. {i - WordBits * 0 : i \in p.start .. end} = p.start .. end
      <4>1. \A i \in p.start .. end : i - WordBits * 0 = i
        BY <1>1, <3>1, WordBitsAssumption DEF Block
      <4>2. QED
        BY <4>1
    <3>4. QED
      BY <3>1, <3>2, <3>3 DEF unset_bin
  <2>7. /\ bits'[c] = bits[c] \ (p.start .. end)
        /\ tag'[c] = [i \in Block |-> IF i \in Run(p.start, q) THEN 0 ELSE tag[c][i]]
    <3>1. ClearRun(p)
      BY <1>2, <2>2 DEF FreeFound, FreeUnlinked
    <3> HIDE DEF q, end
    <3>2. QED
      BY <1>1, <1>4, <2>4, <2>6, <3>1 DEF ClearRun
  <2>8. PageOf(c)' = PageOf(c) \ {p}
    BY <2>3 DEF PageOf
  <2>9. ASSUME NEW r \in PageOf(c), r # p
        PROVE  /\ Extent(r) \cap (p.start .. end) = {}
               /\ r.start - 1 \in Block /\ r.start - 1 \notin Run(p.start, q)
    <3>1. /\ Extent(r) \cap Extent(p) = {}
      BY <2>1, <2>9 DEF PageSound, PageExact
    <3>2. /\ r.start \in Block /\ BinsSize(r.size) \in Nat /\ BinsSize(r.size) >= 1
          /\ r.start \in Extent(r)
          /\ Extent(r) = r.start .. r.start + BinsSize(r.size) - 1
      BY OwnedBitsAreSet DEF Extent, Run
    <3>3. Extent(p) = p.start .. end - 1 /\ p.start \in Nat /\ end \in Nat /\ p.start < end
      BY <1>1, <2>4 DEF Extent, Run, Block
    <3>4. r.start # end
      BY <2>5
    <3>5. end \notin Extent(r)
      <4>1. SUFFICES ASSUME end \in Extent(r) PROVE FALSE
        OBVIOUS
      <4>2. end - 1 \in Extent(r)
        BY <3>2, <3>3, <3>4, <4>1 DEF Block
      <4>3. end - 1 \in Extent(p)
        BY <3>3
      <4>4. QED
        BY <3>1, <4>2, <4>3
    <3>6. Extent(r) \cap (p.start .. end) = {}
      BY <3>1, <3>3, <3>5
    <3>7. r.start >= 1
      <4>1. r \in live /\ r.bin = c
        BY DEF PageOf
      <4>2. QED
        BY <3>2, <4>1 DEF HeapInv, AlignedIffBig, Block
    <3>8. r.start \notin p.start .. end
      BY <3>2, <3>6
    <3>9. r.start - 1 \in Block
      BY <3>2, <3>7, BlocksAssumption DEF Block
    <3>10. Run(p.start, q) = p.start .. end - 1
      BY <3>3, <2>4 DEF Run
    <3> HIDE DEF end, q
    <3>11. QED
      BY <3>2, <3>3, <3>6, <3>8, <3>9, <3>10 DEF Block
  <2>10. bits'[c] \ {0} = UNION {Extent(r) : r \in PageOf(c)'}
    <3>1. bits[c] \ {0} = UNION {Extent(r) : r \in PageOf(c)}
      BY DEF PageSound, PageExact
    <3>2. Extent(p) \subseteq p.start .. end
      BY <1>1, <2>4 DEF Extent, Run, Block
    <3> HIDE DEF end, q
    <3>3. QED
      BY <2>1, <2>7, <2>8, <2>9, <3>1, <3>2
  <2>11. \A r \in PageOf(c)' : tag'[c][r.start - 1] = BinsSize(r.size)
    BY <2>7, <2>8, <2>9 DEF PageSound
  <2>12. \A r, t \in PageOf(c)' : r # t => Extent(r) \cap Extent(t) = {}
    BY <2>8 DEF PageSound, PageExact
  <2>13. QED
    BY <2>10, <2>11, <2>12 DEF PageSound, PageExact, Extent, Run, BinsSize
<1>5. QED
  BY <1>3, <1>4

----------------------------------------------------------------------------
(* The heap                                                                *)

HeapBooks ==
  /\ HeapInv
  /\ status = "ok" => \A c \in Bins \ (big \cup abused) : PageSound(c)

LEMMA HeapBooksInit == Init => HeapBooks
<1> SUFFICES ASSUME Init PROVE HeapBooks
  OBVIOUS
<1>1. ASSUME NEW c \in Bins PROVE PageSound(c)
  BY DEF Init, PageSound, PageExact, PageOf
<1>2. QED
  BY <1>1, HeapInvInit DEF HeapBooks

LEMMA HeapBooksNext == HeapBooks /\ [Next]_vars => HeapBooks'
<1> SUFFICES ASSUME HeapBooks, [Next]_vars PROVE HeapBooks'
  OBVIOUS
<1>1. HeapInv /\ HeapInv'
  BY HeapInvNext DEF HeapBooks
<1>2. ASSUME status' = "ok", NEW c \in Bins, c \notin big', c \notin abused'
      PROVE  PageSound(c)'
  <2>1. CASE UNCHANGED vars
    BY <1>2, <2>1, PageUntouched DEF vars, HeapBooks, PageOf
  <2>2. CASE Next
    <3>1. status = "ok" /\ c \notin big /\ c \notin abused
      BY <1>2, <2>2 DEF Next, MallocNext, __malloc, __thalloc, MallocHere, MallocNewBin, MallocBig,
         expand_heap, Write, __free, FreeFound, FreeOverruns, FreeRunsAway, FreeUnlinked, Freed
    <3>2. PageSound(c)
      BY <3>1 DEF HeapBooks
    <3>3. ASSUME NEW size \in Sizes, __malloc(size) PROVE PageSound(c)'
      BY <1>1, <1>2, <3>2, <3>3, MallocHereKeepsPage, MallocNewBinKeepsPage, ExpandHeapKeepsPage
         DEF __malloc, MallocBig
    <3>4. CASE __thalloc
      BY <1>1, <1>2, <3>2, <3>4, ExpandHeapKeepsPage DEF __thalloc
    <3>5. ASSUME NEW p \in live, NEW i \in Block, NEW v \in Bytes, Write(p, i, v)
          PROVE  PageSound(c)'
      BY <1>1, <3>2, <3>5, WriteKeepsPage
    <3>6. ASSUME NEW p \in live, __free(p) PROVE PageSound(c)'
      BY <1>1, <1>2, <3>1, <3>2, <3>6, FreeKeepsPage
    <3>7. QED
      BY <2>2, <3>3, <3>4, <3>5, <3>6 DEF Next, MallocNext
  <2>3. QED
    BY <2>1, <2>2
<1>3. QED
  BY <1>1, <1>2 DEF HeapBooks

LEMMA HeapBooksInvariant == Spec => []HeapBooks
BY HeapBooksInit, HeapBooksNext, PTL DEF Spec

\* Whatever a client does with include/alloc.h: in a page where every run that was
\* freed lay in the first word, ended before the last two blocks and had no other
\* run directly behind it, pointers do not overlap and the bitmap is exactly what
\* is held.
THEOREM CarefulPagesAreExactSound == Spec => []CarefulPagesAreExact
<1>1. HeapBooks => CarefulPagesAreExact
  BY DEF HeapBooks, CarefulPagesAreExact, PageSound
<1>2. QED
  BY HeapBooksInvariant, <1>1, PTL

\* In such a page __free finds the Bin and the length of every run that is held.
THEOREM CarefulRunsAreFoundSound == Spec => []CarefulRunsAreFound
<1>1. HeapBooks => CarefulRunsAreFound
  <2> SUFFICES ASSUME HeapBooks, status = "ok", NEW p \in BlockPointers, p.bin \notin abused
               PROVE  p.bin \in linked /\ FreedBlocks(p) = BinsSize(p.size)
    BY DEF CarefulRunsAreFound
  <2>1. HeapInv /\ p \in live /\ p.bin \notin big /\ p.bin \in Bins
    BY DEF HeapBooks, HeapInv, TypeOK, BlockPointers, Pointers
  <2>2. p.start # 0 /\ p.bin \in linked
    BY <2>1 DEF HeapInv, AlignedIffBig, BlockPagesLinked
  <2>3. PageSound(p.bin)
    BY <2>1 DEF HeapBooks
  <2>4. QED
    BY <2>1, <2>2, <2>3 DEF PageSound, PageOf, FreedBlocks
<1>2. QED
  BY HeapBooksInvariant, <1>1, PTL

----------------------------------------------------------------------------
(* The heap as the programs of the repository use it: nothing is freed     *)

LEMMA NothingFreed == MallocSpec => [](status = "ok" /\ abused = {})
<1>1. Init => status = "ok" /\ abused = {}
  BY DEF Init
<1>2. (status = "ok" /\ abused = {}) /\ [MallocNext]_vars => (status = "ok" /\ abused = {})'
  BY DEF MallocNext, __malloc, __thalloc, MallocHere, MallocNewBin, MallocBig, expand_heap,
         Write, vars
<1>3. QED
  BY <1>1, <1>2, PTL DEF MallocSpec

\* As long as nothing is freed, no two block allocations share a block, every
\* length byte survives what clients store in their memory, and each bitmap is
\* exactly what was handed out.
THEOREM MallocIsSound == MallocSpec => [](NoOverlap /\ LengthIntact /\ Accounted)
<1>1. MallocSpec => Spec
  <2>1. [MallocNext]_vars => [Next]_vars
    BY DEF Next
  <2>2. QED
    BY <2>1, PTL DEF MallocSpec, Spec
<1>2. HeapBooks /\ status = "ok" /\ abused = {} => NoOverlap /\ LengthIntact /\ Accounted
  <2> SUFFICES ASSUME HeapBooks, status = "ok", abused = {}
               PROVE  NoOverlap /\ LengthIntact /\ Accounted
    OBVIOUS
  <2>1. \A c \in Bins \ big : PageSound(c)
    BY DEF HeapBooks
  <2>2. \A p \in BlockPointers : p.bin \in Bins \ big /\ p \in PageOf(p.bin)
    BY DEF HeapBooks, HeapInv, TypeOK, Pointers, BlockPointers, PageOf
  <2>3. NoOverlap
    <3>1. SUFFICES ASSUME NEW p \in BlockPointers, NEW r \in BlockPointers, p.bin = r.bin, p # r
                   PROVE  Extent(p) \cap Extent(r) = {}
      BY DEF NoOverlap
    <3>2. PageSound(p.bin) /\ p \in PageOf(p.bin) /\ r \in PageOf(p.bin)
      BY <2>1, <2>2, <3>1
    <3>3. QED
      BY <3>1, <3>2 DEF PageSound, PageExact
  <2>4. LengthIntact
    BY <2>1, <2>2 DEF PageSound, LengthIntact
  <2>5. Accounted
    BY <2>1 DEF PageSound, PageExact, PageOf, Accounted
  <2>6. QED
    BY <2>3, <2>4, <2>5
<1>3. QED
  BY <1>1, <1>2, NothingFreed, HeapBooksInvariant, PTL

\* The byte in front of an allocation, from which __free would take the length of
\* the run, is never overwritten by the allocation that ends there.
THEOREM LengthIntactSound == MallocSpec => []LengthIntact
BY MallocIsSound, PTL

\* No block is marked that nobody owns, and none that somebody owns is clear.
THEOREM AccountedSound == MallocSpec => []Accounted
BY MallocIsSound, PTL

----------------------------------------------------------------------------
(* The task pool: PoolInv, TaskInv                                         *)

WorkerTypes ==
  /\ worker \in [Workers -> WorkerAt]
  /\ reg \in [Workers -> Int]
  /\ num_threads_alive \in Int
  /\ len \in Int /\ mainReg \in Int

\* What a worker is about to store never exceeds the workers past theirs by
\* more than one, and it is not one of them yet.
Undercount ==
  /\ num_threads_alive <= Cardinality(Alive)
  /\ \A w \in Workers : worker[w] = "storeAlive" => reg[w] <= Cardinality(Alive)

PoolInv == WorkerTypes /\ Undercount /\ ReadyMeansAllAlive

LEMMA AliveFinite ==
  /\ Alive \subseteq Workers /\ IsFiniteSet(Alive)
  /\ Cardinality(Alive) \in Nat /\ num \in Nat
  /\ (Cardinality(Alive) >= num => Alive = Workers)
<1>1. Alive \subseteq Workers
  BY DEF Alive
<1>2. IsFiniteSet(Alive) /\ Cardinality(Alive) <= num
  BY <1>1, WorkersAssumption, FS_Subset DEF num
<1>3. Cardinality(Alive) \in Nat /\ num \in Nat
  BY <1>2, WorkersAssumption, FS_CardinalityType DEF num
<1>4. Cardinality(Alive) = num => Alive = Workers
  BY <1>1, WorkersAssumption, FS_Subset DEF num
<1>5. QED
  BY <1>1, <1>2, <1>3, <1>4

\* A step that leaves the increments alone, and brings nobody back before them.
LEMMA AliveGrows ==
  ASSUME PoolInv, WorkerTypes', Alive' = Alive,
         num_threads_alive' = num_threads_alive,
         \A w \in Workers : worker'[w] = "storeAlive" =>
            worker[w] = "storeAlive" /\ reg'[w] = reg[w],
         main' \notin {"spawn", "wait", "dead"} => main \notin {"spawn", "wait", "dead"}
  PROVE  PoolInv'
<1>1. Undercount'
  BY DEF PoolInv, Undercount
<1>2. ReadyMeansAllAlive'
  BY DEF PoolInv, ReadyMeansAllAlive
<1>3. QED
  BY <1>1, <1>2 DEF PoolInv

LEMMA PoolInvNext == PoolInv /\ [PoolNext]_poolVars => PoolInv'
<1> SUFFICES ASSUME PoolInv, [PoolNext]_poolVars PROVE PoolInv'
  OBVIOUS
<1> USE DEF pool, Main
<1>0. WorkerTypes
  BY DEF PoolInv
<1>1. ASSUME NEW w \in Workers, spawn(w) PROVE PoolInv'
  <2>1. WorkerTypes' /\ Alive' = Alive
    BY <1>0, <1>1 DEF spawn, SpawnClones, SpawnFaults, WorkerTypes, WorkerAt, Alive
  <2>2. QED
    BY <1>0, <1>1, <2>1, AliveGrows DEF spawn, SpawnClones, SpawnFaults, WorkerTypes
<1>2. CASE InitReturns
  <2>1. WorkerTypes' /\ Alive' = Alive
    BY <1>0, <1>2 DEF InitReturns, WorkerTypes, Alive
  <2>2. Undercount'
    BY <1>2, <2>1 DEF InitReturns, PoolInv, Undercount
  <2>3. Alive = Workers
    BY <1>0, <1>2, AliveFinite DEF InitReturns, PoolInv, Undercount, WorkerTypes
  <2>4. QED
    BY <2>1, <2>2, <2>3 DEF PoolInv, ReadyMeansAllAlive
<1>3. ASSUME NEW t \in Tasks, enqueue(t) PROVE PoolInv'
  <2>1. WorkerTypes' /\ Alive' = Alive
    BY <1>0, <1>3 DEF enqueue, WorkerTypes, Alive
  <2>2. QED
    BY <1>0, <1>3, <2>1, AliveGrows DEF enqueue
<1>4. CASE EnqueueLen
  <2>1. WorkerTypes' /\ Alive' = Alive
    BY <1>0, <1>4 DEF EnqueueLen, EnqueueLoadLen, EnqueueStoreLen, WorkerTypes, Alive
  <2>2. QED
    BY <1>0, <1>4, <2>1, AliveGrows DEF EnqueueLen, EnqueueLoadLen, EnqueueStoreLen
<1>5. ASSUME NEW w \in Workers, AliveLoad(w) PROVE PoolInv'
  <2>1. WorkerTypes' /\ Alive' = Alive
    BY <1>0, <1>5 DEF AliveLoad, Step, WorkerTypes, WorkerAt, Alive
  <2>2. Undercount'
    BY <1>0, <1>5, <2>1 DEF AliveLoad, Step, PoolInv, Undercount, WorkerTypes
  <2>3. ReadyMeansAllAlive'
    BY <1>5, <2>1 DEF AliveLoad, PoolInv, ReadyMeansAllAlive
  <2>4. QED
    BY <2>1, <2>2, <2>3 DEF PoolInv
<1>6. ASSUME NEW w \in Workers, AliveStore(w) PROVE PoolInv'
  <2>1. WorkerTypes'
    BY <1>0, <1>6 DEF AliveStore, Step, WorkerTypes, WorkerAt
  <2>2. Alive' = Alive \cup {w} /\ w \notin Alive
    BY <1>0, <1>6 DEF AliveStore, Step, WorkerTypes, Alive
  <2>3. Cardinality(Alive') = Cardinality(Alive) + 1
    BY <2>2, AliveFinite, FS_AddElement
  <2>4. reg[w] <= Cardinality(Alive) /\ reg[w] \in Int
    BY <1>0, <1>6 DEF AliveStore, Step, PoolInv, Undercount, WorkerTypes
  <2>5. \A v \in Workers : worker'[v] = "storeAlive" => reg'[v] <= Cardinality(Alive)
    BY <1>0, <1>6 DEF AliveStore, Step, PoolInv, Undercount, WorkerTypes
  <2>6. \A v \in Workers : reg'[v] \in Int
    BY <2>1 DEF WorkerTypes
  <2>7. num_threads_alive' <= Cardinality(Alive)'
    BY <1>6, <2>3, <2>4, AliveFinite DEF AliveStore
  <2>8. \A v \in Workers : worker'[v] = "storeAlive" => reg'[v] <= Cardinality(Alive)'
    BY <2>3, <2>5, <2>6, AliveFinite
  <2>9. Undercount'
    BY <2>7, <2>8 DEF Undercount
  <2>10. ReadyMeansAllAlive'
    BY <1>6, <2>2, AliveFinite DEF AliveStore, PoolInv, ReadyMeansAllAlive
  <2>11. QED
    BY <2>1, <2>9, <2>10 DEF PoolInv
<1>7. ASSUME NEW w \in Workers,
             \/ DequeueTest(w) \/ DequeueLoadLen(w) \/ DequeueStoreLen(w)
             \/ DequeueTakeFront(w) \/ DequeueClearFront(w) \/ Work(w)
      PROVE PoolInv'
  <2> USE DEF DequeueTest, DequeueLoadLen, DequeueStoreLen, DequeueTakeFront,
              DequeueClearFront, Work, Step
  <2>1. WorkerTypes'
    BY <1>0, <1>7 DEF WorkerTypes, WorkerAt
  <2>2. Alive' = Alive
    BY <1>0, <1>7 DEF WorkerTypes, Alive
  <2>3. num_threads_alive' = num_threads_alive /\ main' = main
    BY <1>7
  <2>4. \A v \in Workers : worker'[v] = "storeAlive" => worker[v] = "storeAlive" /\ reg'[v] = reg[v]
    BY <1>0, <1>7 DEF WorkerTypes
  <2>5. QED
    BY <2>1, <2>2, <2>3, <2>4, AliveGrows
<1>8. CASE UNCHANGED poolVars
  <2>1. WorkerTypes' /\ Alive' = Alive
    BY <1>0, <1>8 DEF poolVars, WorkerTypes, Alive
  <2>2. QED
    BY <1>8, <2>1, AliveGrows DEF poolVars
<1>9. QED
  BY <1>1, <1>2, <1>3, <1>4, <1>5, <1>6, <1>7, <1>8 DEF PoolNext, do_idle

\* __z__std__init_thread_pool never returns before every worker has entered
\* do_idle, for any number of workers and any interleaving of their unlocked
\* increments.
THEOREM PoolReadyIsSound == PoolSpec => []ReadyMeansAllAlive
<1>1. PoolInit => PoolInv
  <2> SUFFICES ASSUME PoolInit PROVE PoolInv
    OBVIOUS
  <2>1. WorkerTypes
    BY DEF PoolInit, WorkerTypes, WorkerAt
  <2>2. Undercount
    BY AliveFinite DEF PoolInit, Undercount
  <2>3. QED
    BY <2>1, <2>2 DEF PoolInit, PoolInv, ReadyMeansAllAlive
<1>2. PoolInv => ReadyMeansAllAlive
  BY DEF PoolInv
<1>3. QED
  BY <1>1, <1>2, PoolInvNext, PTL DEF PoolSpec

----------------------------------------------------------------------------
(* Which task runs, and how often                                          *)

TaskTypes ==
  /\ worker \in [Workers -> WorkerAt]
  /\ got \in [Workers -> Tasks \cup {NoTask}]
  /\ front \in Tasks \cup {NoTask} /\ rear \in Tasks \cup {NoTask}
  /\ put \in Seq(Tasks)
  /\ runs \in [Tasks -> [Workers -> Nat]]

IsFirst(t) == put # <<>> /\ put[1] = t

\* rear is set with the first task and for ever, so front, and all that was ever
\* taken from it, is that task.
OnlyFirst ==
  /\ rear = NoTask => put = <<>>
  /\ front # NoTask => IsFirst(front)
  /\ \A w \in Workers : got[w] # NoTask => IsFirst(got[w])
  /\ \A t \in Tasks, w \in Workers : runs[t][w] > 0 => IsFirst(t)

\* Nobody has got past its clearing of front while front is set.
Untouched ==
  /\ \A w \in Workers : worker[w] = "run" => got[w] # NoTask
  /\ front # NoTask => \A w \in Workers : worker[w] # "run" /\ \A t \in Tasks : runs[t][w] = 0

\* The worker took t and has not run it yet.
Holds(w, t) == worker[w] \in {"clear", "run"} /\ got[w] = t
Once ==
  \A t \in Tasks, w \in Workers : runs[t][w] <= 1 /\ (runs[t][w] > 0 => ~Holds(w, t))

TaskInv == TaskTypes /\ OnlyFirst /\ Untouched /\ Once

\* A step of a worker that neither takes nor runs a task.
LEMMA TaskInvElsewhere ==
  ASSUME TaskInv, NEW w \in Workers, NEW to \in WorkerAt \ {"clear", "run"},
         worker[w] \notin {"clear", "run"}, worker' = [worker EXCEPT ![w] = to],
         UNCHANGED <<front, rear, got, put, runs>>
  PROVE  TaskInv'
<1>1. TaskTypes' /\ OnlyFirst' /\ Untouched'
  BY DEF TaskInv, TaskTypes, OnlyFirst, IsFirst, Untouched
<1>2. Once'
  BY DEF TaskInv, TaskTypes, Once, Holds
<1>3. QED
  BY <1>1, <1>2 DEF TaskInv

\* A step that touches neither workers nor tasks.
LEMMA TaskInvStutters ==
  ASSUME TaskInv, UNCHANGED <<worker, front, rear, got, put, runs>>
  PROVE  TaskInv'
BY DEF TaskInv, TaskTypes, OnlyFirst, IsFirst, Untouched, Once, Holds

LEMMA TaskInvEnqueue ==
  ASSUME TaskInv, NEW t \in Tasks, enqueue(t)
  PROVE  TaskInv'
<1> USE DEF TaskInv, TaskTypes
<1>1. TaskTypes'
  BY DEF enqueue
<1>2. ASSUME put # <<>> PROVE put' # <<>> /\ put'[1] = put[1] /\ front' = front
  BY <1>2 DEF enqueue, OnlyFirst
<1>3. ASSUME put = <<>>
      PROVE  /\ put' # <<>> /\ put'[1] = t
             /\ \A w \in Workers : got[w] = NoTask /\ worker[w] # "run"
             /\ \A u \in Tasks, w \in Workers : runs[u][w] = 0
             /\ front = NoTask
  BY <1>3 DEF enqueue, OnlyFirst, IsFirst, Untouched
<1>4. OnlyFirst'
  <2>1. CASE put = <<>>
    BY <1>3, <2>1, NoTaskAssumption DEF enqueue, OnlyFirst, IsFirst
  <2>2. CASE put # <<>>
    BY <1>2, <2>2, NoTaskAssumption DEF enqueue, OnlyFirst, IsFirst
  <2>3. QED
    BY <2>1, <2>2
<1>5. Untouched'
  <2>1. CASE put = <<>>
    BY <1>3, <2>1 DEF enqueue, Untouched
  <2>2. CASE put # <<>>
    BY <1>2, <2>2 DEF enqueue, Untouched
  <2>3. QED
    BY <2>1, <2>2
<1>6. Once'
  BY DEF enqueue, Once, Holds
<1>7. QED
  BY <1>1, <1>4, <1>5, <1>6

LEMMA TaskInvTake ==
  ASSUME TaskInv, NEW w \in Workers, DequeueTakeFront(w)
  PROVE  TaskInv'
<1> USE DEF TaskInv, TaskTypes, DequeueTakeFront, Step, pool, Main
<1>1. TaskTypes'
  BY DEF WorkerAt
<1>2. OnlyFirst'
  BY DEF OnlyFirst, IsFirst
<1>3. Untouched'
  BY DEF Untouched
<1>4. Once'
  <2>1. CASE front = NoTask
    BY <2>1, NoTaskAssumption DEF Once, Holds
  <2>2. CASE front # NoTask
    BY <2>2 DEF Once, Untouched
  <2>3. QED
    BY <2>1, <2>2
<1>5. QED
  BY <1>1, <1>2, <1>3, <1>4

LEMMA TaskInvClear ==
  ASSUME TaskInv, NEW w \in Workers, DequeueClearFront(w)
  PROVE  TaskInv'
<1> USE DEF TaskInv, TaskTypes, DequeueClearFront, Step, Main
<1>1. TaskTypes'
  BY DEF WorkerAt
<1>2. OnlyFirst'
  BY DEF OnlyFirst, IsFirst
<1>3. Untouched'
  BY DEF Untouched
<1>4. Once'
  BY NoTaskAssumption DEF Once, Holds
<1>5. QED
  BY <1>1, <1>2, <1>3, <1>4

LEMMA TaskInvWork ==
  ASSUME TaskInv, NEW w \in Workers, Work(w)
  PROVE  TaskInv'
<1> USE DEF TaskInv, TaskTypes, Work, Step, pool, Main
<1>1. got[w] \in Tasks /\ IsFirst(got[w]) /\ front = NoTask
  BY DEF Untouched, OnlyFirst
<1>2. TaskTypes'
  BY <1>1 DEF WorkerAt
<1>3. OnlyFirst'
  BY <1>1 DEF OnlyFirst, IsFirst
<1>4. Untouched'
  BY <1>1 DEF Untouched
<1>5. Once'
  <2>1. runs[got[w]][w] = 0
    BY <1>1 DEF Once, Holds
  <2>2. ASSUME NEW t \in Tasks, NEW v \in Workers
        PROVE  runs'[t][v] = IF t = got[w] /\ v = w THEN 1 ELSE runs[t][v]
    BY <1>1, <2>1
  <2>3. QED
    BY <1>1, <2>2 DEF Once, Holds
<1>6. QED
  BY <1>2, <1>3, <1>4, <1>5

LEMMA TaskInvNext == TaskInv /\ [PoolNext]_poolVars => TaskInv'
<1> SUFFICES ASSUME TaskInv, [PoolNext]_poolVars PROVE TaskInv'
  OBVIOUS
<1>1. ASSUME NEW w \in Workers, spawn(w) PROVE TaskInv'
  BY <1>1, TaskInvElsewhere, TaskInvStutters DEF spawn, SpawnClones, SpawnFaults, pool, WorkerAt
<1>2. CASE InitReturns
  BY <1>2, TaskInvStutters DEF InitReturns, pool
<1>3. ASSUME NEW t \in Tasks, enqueue(t) PROVE TaskInv'
  BY <1>3, TaskInvEnqueue
<1>4. CASE EnqueueLen
  BY <1>4, TaskInvStutters DEF EnqueueLen, EnqueueLoadLen, EnqueueStoreLen, pool
<1>5. ASSUME NEW w \in Workers,
             AliveLoad(w) \/ AliveStore(w) \/ DequeueTest(w) \/ DequeueLoadLen(w) \/ DequeueStoreLen(w)
      PROVE  TaskInv'
  BY <1>5, TaskInvElsewhere
     DEF AliveLoad, AliveStore, DequeueTest, DequeueLoadLen, DequeueStoreLen, Step, pool, Main, WorkerAt
<1>6. CASE UNCHANGED poolVars
  BY <1>6, TaskInvStutters DEF poolVars, pool
<1>7. QED
  BY <1>1, <1>2, <1>3, <1>4, <1>5, <1>6, TaskInvTake, TaskInvClear, TaskInvWork DEF PoolNext, do_idle

\* Whatever the processes' interleaving, no task but the first one put is ever run,
\* and that one by each worker at most once: dequeue and enqueue share front, rear
\* and len without a lock.
THEOREM OnlyFirstTaskRunsSound == PoolSpec => []OnlyFirstTaskRuns
<1>1. PoolInit => TaskInv
  <2> SUFFICES ASSUME PoolInit PROVE TaskInv
    OBVIOUS
  <2>1. TaskTypes /\ OnlyFirst /\ Untouched
    BY DEF PoolInit, TaskTypes, WorkerAt, OnlyFirst, Untouched
  <2>2. Once
    BY DEF PoolInit, Once
  <2>3. QED
    BY <2>1, <2>2 DEF TaskInv
<1>2. TaskInv => OnlyFirstTaskRuns
  BY DEF TaskInv, OnlyFirst, IsFirst, Once, OnlyFirstTaskRuns
<1>3. QED
  BY <1>1, <1>2, TaskInvNext, PTL DEF PoolSpec
=============================================================================
