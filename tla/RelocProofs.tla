----------------------------- MODULE RelocProofs ----------------------------
(***************************************************************************)
(* Where references arrive, for any objects, relocations, libraries and    *)
(* load addresses.                                                         *)
(*                                                                         *)
(* The exports and the relocations are the objects' tables one behind the  *)
(* other; the first lemmas say what FlattenSeq makes of them.  InputsInv   *)
(* is what the rest needs of the inputs.  Behind a resolved relocation     *)
(* there is a word, a slot with its entry of .rela.plt or an entry of its  *)
(* own (ResolvedInv), entries are for different cells (OnceInv), and one   *)
(* that was carried out left a definition in its cell (LoadInv).           *)
(***************************************************************************)
EXTENDS Reloc, SequenceTheorems, NaturalsInduction, WellFoundedInduction, FiniteSetTheorems, TLAPS

(* FlattenSeq                                                              *)

LEMMA SetInduction ==
  ASSUME NEW S, 0 \in S, \A n \in Nat : n \in S => n + 1 \in S
  PROVE  Nat \subseteq S
<1> SUFFICES ASSUME Nat \ S # {} PROVE FALSE
    OBVIOUS
<1>1. OpToRel(<, Nat) = {ss \in Nat \X Nat : ss[1] < ss[2]}
    BY DEF OpToRel
<1>2. PICK m \in Nat \ S : \A n \in Nat \ S : ~ (<<n, m>> \in OpToRel(<, Nat))
  <2>1. Nat \ S \subseteq Nat
      OBVIOUS
  <2> QED BY <2>1, WFMin, NatLessThanWellFounded
<1>3. m - 1 \in Nat \ S
  <2>1. m # 0
      OBVIOUS
  <2>2. m - 1 \in Nat /\ (m - 1) + 1 = m
      BY <2>1
  <2> QED BY <2>2
<1>4. <<m - 1, m>> \in Nat \X Nat /\ m - 1 < m
    BY <1>3
<1> QED BY <1>1, <1>2, <1>3, <1>4

\* The elements of the first i sequences are those of f, once each if they differ.
Differ(ss) ==
  \A o, p \in 1 .. Len(ss) : \A k \in 1 .. Len(ss[o]), l \in 1 .. Len(ss[p]) :
    ss[o][k] = ss[p][l] => o = p /\ k = l
Covers(f, ss, i) ==
  /\ \A j \in 1 .. Len(f) : \E o \in 1 .. i : \E k \in 1 .. Len(ss[o]) : f[j] = ss[o][k]
  /\ \A o \in 1 .. i : \A k \in 1 .. Len(ss[o]) : \E j \in 1 .. Len(f) : f[j] = ss[o][k]
  /\ Differ(ss) => \A j, l \in 1 .. Len(f) : f[j] = f[l] => j = l

LEMMA CoversMore ==
  ASSUME NEW T, NEW ss \in Seq(Seq(T)), NEW f \in Seq(T), NEW i \in Nat, i < Len(ss), Covers(f, ss, i)
  PROVE  f \o ss[i + 1] \in Seq(T) /\ Covers(f \o ss[i + 1], ss, i + 1)
<1>1. i + 1 \in 1 .. Len(ss) /\ i \in 0 .. Len(ss) /\ \A o \in 1 .. i + 1 : o \in 1 .. i \/ o = i + 1
    OBVIOUS
<1>2. PICK s \in Seq(T) : s = ss[i + 1]
    BY <1>1
<1>3. PICK n \in Nat : n = Len(f)
    OBVIOUS
<1>4. PICK m \in Nat : m = Len(s)
    OBVIOUS
<1>5. PICK g : g = f \o s
    OBVIOUS
<1>6. /\ g \in Seq(T) /\ Len(g) = n + m
      /\ \A j \in 1 .. n : g[j] = f[j]
      /\ \A k \in 1 .. m : g[n + k] = s[k]
      /\ \A j \in 1 .. n + m : j \in 1 .. n \/ \E k \in 1 .. m : j = n + k
  <2>1. /\ f \o s \in Seq(T) /\ Len(f \o s) = n + m
        /\ \A j \in 1 .. n : (f \o s)[j] = f[j]
        /\ \A k \in 1 .. m : (f \o s)[n + k] = s[k]
        /\ \A j \in 1 .. n + m : j \in 1 .. n \/ \E k \in 1 .. m : j = n + k
    <3>1. /\ f \o s \in Seq(T) /\ Len(f \o s) = Len(f) + Len(s)
          /\ \A j \in 1 .. Len(f) : (f \o s)[j] = f[j]
          /\ \A k \in 1 .. Len(s) : (f \o s)[Len(f) + k] = s[k]
        OBVIOUS
    <3>2. \A j \in 1 .. n + m : j \in 1 .. n \/ \E k \in 1 .. m : j = n + k
      <4> SUFFICES ASSUME NEW j \in 1 .. n + m, j > n PROVE \E k \in 1 .. m : j = n + k
          OBVIOUS
      <4>1. j - n \in 1 .. m /\ j = n + (j - n)
          OBVIOUS
      <4> QED BY <4>1
    <3> QED BY <1>3, <1>4, <3>1, <3>2, Zenon
  <2> QED BY <1>5, <2>1
<1>7. /\ \A j \in 1 .. n : j \in 1 .. n + m
      /\ \A k \in 1 .. m : n + k \in 1 .. n + m
      /\ \A o \in 1 .. i : o \in 1 .. i + 1
    OBVIOUS
<1>8. ASSUME NEW j \in 1 .. n + m
      PROVE  \E o \in 1 .. i + 1 : \E k \in 1 .. Len(ss[o]) : g[j] = ss[o][k]
  <2>1. CASE j \in 1 .. n
    <3>1. PICK o \in 1 .. i : \E k \in 1 .. Len(ss[o]) : f[j] = ss[o][k]
        BY <1>3, <2>1 DEF Covers
    <3> QED BY <1>6, <1>7, <2>1, <3>1
  <2>2. CASE \E k \in 1 .. m : j = n + k
    <3>1. PICK k \in 1 .. m : g[j] = s[k]
        BY <1>6, <2>2
    <3>2. i + 1 \in 1 .. i + 1 /\ k \in 1 .. Len(ss[i + 1]) /\ ss[i + 1][k] = s[k]
        BY <1>2, <1>4
    <3> QED BY <3>1, <3>2
  <2> QED BY <1>6, <2>1, <2>2
<1>9. ASSUME NEW o \in 1 .. i + 1, NEW k \in 1 .. Len(ss[o])
      PROVE  \E j \in 1 .. n + m : g[j] = ss[o][k]
  <2>1. CASE o \in 1 .. i
    <3>1. PICK j \in 1 .. n : f[j] = ss[o][k]
        BY <1>3, <2>1 DEF Covers
    <3> QED BY <1>6, <1>7, <3>1
  <2>2. CASE o = i + 1
    <3>1. k \in 1 .. m /\ ss[o][k] = s[k]
        BY <1>2, <1>4, <2>2
    <3> QED BY <1>6, <1>7, <3>1
  <2> QED BY <1>1, <2>1, <2>2
<1>10. ASSUME Differ(ss), NEW j \in 1 .. n, NEW k \in 1 .. m PROVE f[j] # s[k]
  <2>1. PICK o \in 1 .. i : \E l \in 1 .. Len(ss[o]) : f[j] = ss[o][l]
      BY <1>3 DEF Covers
  <2>2. PICK l \in 1 .. Len(ss[o]) : f[j] = ss[o][l]
      BY <2>1
  <2>3. o \in 1 .. Len(ss) /\ o # i + 1
      BY <1>1
  <2> QED BY <1>1, <1>2, <1>4, <1>10, <2>2, <2>3 DEF Differ
<1>11. ASSUME Differ(ss), NEW j \in 1 .. n + m, NEW l \in 1 .. n + m, g[j] = g[l] PROVE j = l
  <2>1. \A a, b \in 1 .. n : f[a] = f[b] => a = b
      BY <1>3, <1>11 DEF Covers
  <2>2. \A a, b \in 1 .. m : s[a] = s[b] => a = b
      BY <1>1, <1>2, <1>4, <1>11 DEF Differ
  <2>3. CASE j \in 1 .. n /\ l \in 1 .. n
      BY <1>6, <1>11, <2>1, <2>3
  <2>4. ASSUME NEW a \in 1 .. m, j = n + a, l \in 1 .. n PROVE FALSE
      BY <1>6, <1>10, <1>11, <2>4
  <2>5. ASSUME NEW a \in 1 .. m, l = n + a, j \in 1 .. n PROVE FALSE
      BY <1>6, <1>10, <1>11, <2>5
  <2>6. ASSUME NEW a \in 1 .. m, NEW b \in 1 .. m, j = n + a, l = n + b PROVE j = l
    <3>1. g[n + a] = s[a] /\ g[n + b] = s[b]
        BY <1>6
    <3>2. s[a] = s[b]
        BY <1>11, <2>6, <3>1
    <3>3. a = b
        BY <2>2, <3>2
    <3> QED BY <2>6, <3>3
  <2> QED BY <1>6, <2>3, <2>4, <2>5, <2>6
<1>12. Covers(g, ss, i + 1)
    BY <1>6, <1>8, <1>9, <1>11 DEF Covers
<1> QED BY <1>2, <1>5, <1>6, <1>12

\* g[i] are the first i sequences, one behind the other.
Flat(ss, g, n) == g = [i \in 1 .. n |-> IF i = 1 THEN ss[i] ELSE g[i - 1] \o ss[i]]

LEMMA FlatExists ==
  ASSUME NEW ss, NEW n \in Nat PROVE \E g : Flat(ss, g, n)
<1> DEFINE S == {m \in Nat : \E g : Flat(ss, g, m)}
<1>1. 0 \in S
  <2>1. Flat(ss, [i \in 1 .. 0 |-> ss], 0)
      BY DEF Flat
  <2> QED BY <2>1
<1>2. ASSUME NEW m \in Nat, m \in S PROVE m + 1 \in S
  <2>1. PICK g : Flat(ss, g, m)
      BY <1>2
  <2> DEFINE h == [i \in 1 .. m + 1 |-> IF i = m + 1 THEN IF i = 1 THEN ss[i] ELSE g[m] \o ss[i] ELSE g[i]]
  <2>2. \A i \in 1 .. m : g[i] = IF i = 1 THEN ss[i] ELSE g[i - 1] \o ss[i]
      BY <2>1 DEF Flat
  <2>3. ASSUME NEW i \in 1 .. m + 1 PROVE h[i] = IF i = 1 THEN ss[i] ELSE h[i - 1] \o ss[i]
    <3>1. CASE i = m + 1
      <4>1. i # 1 => i - 1 \in 1 .. m + 1 /\ i - 1 = m /\ m # m + 1
          BY <3>1
      <4>2. i # 1 => h[i - 1] = g[m]
          BY <4>1
      <4>3. h[i] = IF i = 1 THEN ss[i] ELSE g[m] \o ss[i]
          BY <3>1
      <4> QED BY <4>2, <4>3
    <3>2. CASE i # m + 1
      <4>1. i \in 1 .. m /\ (i # 1 => i - 1 \in 1 .. m + 1 /\ i - 1 # m + 1)
          BY <3>2
      <4>2. h[i] = g[i] /\ (i # 1 => h[i - 1] = g[i - 1])
          BY <3>2, <4>1
      <4> HIDE DEF h
      <4> QED BY <2>2, <4>1, <4>2
    <3> QED BY <3>1, <3>2
  <2>4. h = [i \in 1 .. m + 1 |-> h[i]]
      OBVIOUS
  <2>5. \E g1 : Flat(ss, g1, m + 1)
    <3> HIDE DEF h
    <3>1. Flat(ss, h, m + 1)
        BY <2>3, <2>4 DEF Flat
    <3> QED BY <3>1
  <2> QED BY <2>5
<1>3. n \in S
  <2> HIDE DEF S
  <2> QED BY <1>1, <1>2, SetInduction
<1> QED BY <1>3

LEMMA FlattenCovers ==
  ASSUME NEW T, NEW ss \in Seq(Seq(T))
  PROVE  FlattenSeq(ss) \in Seq(T) /\ Covers(FlattenSeq(ss), ss, Len(ss))
<1>1. CASE Len(ss) = 0
  <2>1. FlattenSeq(ss) = ss
      BY <1>1 DEF FlattenSeq
  <2>2. ss = <<>>
      BY <1>1
  <2> QED BY <2>1, <2>2 DEF Covers
<1>2. CASE Len(ss) # 0
  <2>1. PICK n \in Nat \ {0} : n = Len(ss)
      BY <1>2
  <2>2. PICK g : Flat(ss, g, n) /\ FlattenSeq(ss) = g[n]
    <3> DEFINE h == CHOOSE g : Flat(ss, g, n)
    <3>1. \E g : Flat(ss, g, n)
        BY FlatExists
    <3>2. Flat(ss, h, n)
        BY <3>1
    <3>3. FlattenSeq(ss) = h[n]
        BY <1>2, <2>1 DEF FlattenSeq, Flat
    <3> HIDE DEF h
    <3> QED BY <3>2, <3>3
  <2>3. \A i \in 1 .. n : g[i] = IF i = 1 THEN ss[i] ELSE g[i - 1] \o ss[i]
      BY <2>2 DEF Flat
  <2> DEFINE S == {i \in Nat : i + 1 \in 1 .. n => g[i + 1] \in Seq(T) /\ Covers(g[i + 1], ss, i + 1)}
  <2>4. 0 \in S
    <3>1. Covers(<<>>, ss, 0) /\ <<>> \in Seq(T)
        BY DEF Covers
    <3>2. <<>> \o ss[1] \in Seq(T) /\ Covers(<<>> \o ss[1], ss, 1)
      <4>1. 0 \in Nat /\ 0 < Len(ss) /\ 0 + 1 = 1
          BY <2>1
      <4> QED BY <3>1, <4>1, CoversMore
    <3>3. <<>> \o ss[1] = ss[1] /\ g[1] = ss[1]
        BY <2>1, <2>3
    <3> QED BY <3>2, <3>3
  <2>5. ASSUME NEW i \in Nat, i \in S PROVE i + 1 \in S
    <3> SUFFICES ASSUME i + 2 \in 1 .. n
                 PROVE  g[i + 2] \in Seq(T) /\ Covers(g[i + 2], ss, i + 2)
      <4>1. (i + 1) + 1 = i + 2
          OBVIOUS
      <4> QED BY <4>1
    <3>1. g[i + 1] \in Seq(T) /\ Covers(g[i + 1], ss, i + 1)
        BY <2>5
    <3>2. g[i + 2] = g[i + 1] \o ss[i + 2]
      <4>1. i + 2 # 1 /\ (i + 2) - 1 = i + 1
          OBVIOUS
      <4> QED BY <2>3, <4>1
    <3>3. i + 1 \in Nat /\ i + 1 < Len(ss) /\ (i + 1) + 1 = i + 2
        BY <2>1
    <3>4. g[i + 1] \o ss[i + 2] \in Seq(T) /\ Covers(g[i + 1] \o ss[i + 2], ss, i + 2)
        BY <3>1, <3>3, CoversMore
    <3> QED BY <3>2, <3>4
  <2>6. n - 1 \in S
    <3> HIDE DEF S
    <3>1. Nat \subseteq S
        BY <2>4, <2>5, SetInduction
    <3> QED BY <3>1
  <2>7. g[n] \in Seq(T) /\ Covers(g[n], ss, n)
    <3>1. (n - 1) + 1 = n /\ n \in 1 .. n
        OBVIOUS
    <3> QED BY <2>6, <3>1
  <2> QED BY <2>1, <2>2, <2>7
<1> QED BY <1>1, <1>2

----------------------------------------------------------------------------
(* What is true of the inputs                                              *)

Linked(x) == SectionAt(x.obj, x.r.sec) # 0
Kind(x) == world.objects[x.obj].sections[x.r.sec].kind
IsName(x) == SymOf(x).type = "name"
Imported(x) == IsName(x) /\ ExportedAt(SymOf(x).name) = 0
Dst(x) == IF IsName(x) THEN ExportedAt(SymOf(x).name) ELSE SectionAt(x.obj, SymOf(x).section)
InArray(x) == IsName(x) /\ ~ Imported(x) /\ Kind(x) \in Arrays

Sections == [at : Nat, kind : STRING]
SymbolTypes == {"name", "section", "other"}
SymbolRecords == [type : SymbolTypes, name : STRING, section : Nat, value : Nat]
RelocRecords == [sec : Nat, offset : Nat, type : STRING, sym : Nat, addend : Int]
Relocations == [obj : Nat, r : RelocRecords]
ExportEntries == [name : STRING, value : Nat]

Sound(x) ==
  /\ SrcAddr(x) \in Nat /\ x.r.addend \in Int /\ x.r.type \in STRING
  /\ SymOf(x).type \in SymbolTypes /\ SymOf(x).name \in STRING
  /\ Linked(x) => SrcAddr(x) < PltGot /\ Kind(x) \notin Arrays
  /\ IsName(x) /\ SymOf(x).section # 0 =>
       \E j \in 1 .. Len(exports) : exports[j].name = SymOf(x).name
  /\ SymOf(x).type = "section" =>
       /\ SymOf(x).section # 0 /\ SymOf(x).value = 0
       /\ SectionAt(x.obj, SymOf(x).section) \in Nat
       /\ SectionAt(x.obj, SymOf(x).section) < PltGot

\* An address of a linked section has one relocation.
InputsInv ==
  /\ exports \in Seq(ExportEntries)
  /\ \A j \in 1 .. Len(exports) : exports[j].value # 0 /\ exports[j].value < PltGot
  /\ relocs \in Seq(Relocations)
  /\ \A m \in 1 .. Len(relocs) : Sound(relocs[m])
  /\ \A m, l \in 1 .. Len(relocs) :
       Linked(relocs[m]) /\ Linked(relocs[l]) /\ SrcAddr(relocs[m]) = SrcAddr(relocs[l]) => m = l
  /\ \A n \in DOMAIN world.library : world.library[n] \in Nat

LEMMA InputsKept == InputsInv /\ UNCHANGED inputs => InputsInv'
<1> SUFFICES ASSUME InputsInv, UNCHANGED inputs PROVE InputsInv'
    OBVIOUS
<1>1. UNCHANGED <<world, exports, relocs>>
    BY DEF inputs
<1>2. \A x : /\ Sound(x)' <=> Sound(x)
             /\ Linked(x)' <=> Linked(x)
             /\ SrcAddr(x)' = SrcAddr(x)
    BY <1>1 DEF Sound, Linked, SrcAddr, SectionAt, SymOf, IsName, Kind
<1> QED BY <1>1, <1>2 DEF InputsInv

LEMMA ObjectIs ==
  ASSUME world \in Worlds, NEW o \in DOMAIN world.objects
  PROVE  /\ world.objects \in Seq(Objects) /\ o \in Nat
         /\ world.objects[o].sections \in Seq(Sections)
         /\ world.objects[o].symbols \in Seq(SymbolRecords)
         /\ world.objects[o].relocs \in Seq(RelocRecords)
         /\ Prepared(world.objects[o])
<1>1. world.objects \in Seq(Objects)
    BY AddressAssumption
<1>2. o \in Nat /\ world.objects[o] \in Objects
    BY <1>1
<1>3. world.objects[o] \in Range(world.objects)
    BY DEF Range
<1>4. Prepared(world.objects[o])
    BY <1>3, AddressAssumption
<1> QED BY <1>1, <1>2, <1>4 DEF Objects, Sections, SymbolRecords, SymbolTypes, RelocRecords

\* The export of symbol k, if it is one.
Defined(o, k) ==
  LET y == world.objects[o].symbols[k] IN y.type = "name" /\ y.section # 0
EntryOf(o, k) ==
  LET y == world.objects[o].symbols[k] IN
  [name |-> y.name, value |-> SectionAt(o, y.section) + y.value]

LEMMA EntryIs ==
  ASSUME world \in Worlds, NEW o \in DOMAIN world.objects, NEW k \in DOMAIN world.objects[o].symbols,
         Defined(o, k)
  PROVE  EntryOf(o, k) \in ExportEntries /\ EntryOf(o, k).value # 0 /\ EntryOf(o, k).value < PltGot
<1>1. PICK y \in SymbolRecords : y = world.objects[o].symbols[k]
    BY ObjectIs
<1>2. PICK s \in Seq(Sections) : s = world.objects[o].sections
    BY ObjectIs
<1>3. y \in Range(world.objects[o].symbols)
    BY <1>1 DEF Range
<1>4. y.section \in 0 .. Len(s) /\ y.section # 0 /\ s[y.section].at # 0 /\ s[y.section].at + y.value < PltGot
    BY <1>1, <1>2, <1>3, ObjectIs DEF Prepared, Defined
<1>5. y.section \in 1 .. Len(s)
    BY <1>4
<1>6. s[y.section] \in Sections
    BY <1>5
<1>7. s[y.section].at \in Nat /\ y.value \in Nat /\ y.name \in STRING
    BY <1>6 DEF Sections, SymbolRecords
<1>8. EntryOf(o, k) = [name |-> y.name, value |-> s[y.section].at + y.value]
    BY <1>1, <1>2 DEF EntryOf, SectionAt
<1>9. s[y.section].at + y.value \in Nat /\ s[y.section].at + y.value # 0
    BY <1>4, <1>7
<1> QED BY <1>4, <1>7, <1>8, <1>9 DEF ExportEntries

LEMMA ExportsOfAre ==
  ASSUME world \in Worlds, NEW o \in DOMAIN world.objects
  PROVE  /\ ExportsOf(o) \in Seq(ExportEntries)
         /\ \A j \in 1 .. Len(ExportsOf(o)) :
              ExportsOf(o)[j].value # 0 /\ ExportsOf(o)[j].value < PltGot
         /\ \A k \in DOMAIN world.objects[o].symbols :
              Defined(o, k) => \E j \in 1 .. Len(ExportsOf(o)) : ExportsOf(o)[j] = EntryOf(o, k)
<1>1. PICK n \in Nat : DOMAIN world.objects[o].symbols = 1 .. n
    BY ObjectIs
<1>2. PICK ss : ss = [k \in 1 .. n |-> IF Defined(o, k) THEN <<EntryOf(o, k)>> ELSE <<>>]
    OBVIOUS
<1>3. ExportsOf(o) = FlattenSeq(ss)
    BY <1>1, <1>2 DEF ExportsOf, Defined, EntryOf
<1>4. \A k \in 1 .. n : ss[k] = IF Defined(o, k) THEN <<EntryOf(o, k)>> ELSE <<>>
    BY <1>2
<1>5. \A k \in 1 .. n : Defined(o, k) =>
        EntryOf(o, k) \in ExportEntries /\ EntryOf(o, k).value # 0 /\ EntryOf(o, k).value < PltGot
    BY <1>1, EntryIs
<1>6. /\ ss \in Seq(Seq(ExportEntries)) /\ Len(ss) = n
      /\ \A k \in 1 .. n : IF Defined(o, k) THEN Len(ss[k]) = 1 /\ ss[k][1] = EntryOf(o, k)
                            ELSE Len(ss[k]) = 0
  <2>1. ASSUME NEW k \in 1 .. n
        PROVE  /\ ss[k] \in Seq(ExportEntries)
               /\ Defined(o, k) => Len(ss[k]) = 1 /\ ss[k][1] = EntryOf(o, k)
               /\ ~ Defined(o, k) => Len(ss[k]) = 0
    <3>1. CASE Defined(o, k)
      <4>1. PICK e \in ExportEntries : e = EntryOf(o, k)
          BY <1>5, <3>1
      <4>2. ss[k] = <<e>>
          BY <1>4, <3>1, <4>1
      <4>3. <<e>> \in Seq(ExportEntries) /\ Len(<<e>>) = 1 /\ <<e>>[1] = e
          OBVIOUS
      <4> QED BY <3>1, <4>1, <4>2, <4>3
    <3>2. CASE ~ Defined(o, k)
      <4>1. ss[k] = <<>>
          BY <1>4, <3>2
      <4> QED BY <3>2, <4>1
    <3> QED BY <3>1, <3>2
  <2> QED BY <1>2, <2>1
<1>7. PICK f : f = FlattenSeq(ss)
    OBVIOUS
<1>8. f \in Seq(ExportEntries) /\ Covers(f, ss, n)
    BY <1>6, <1>7, FlattenCovers
<1>9. ASSUME NEW j \in 1 .. Len(f) PROVE f[j].value # 0 /\ f[j].value < PltGot
  <2>1. PICK k \in 1 .. n : \E l \in 1 .. Len(ss[k]) : f[j] = ss[k][l]
      BY <1>8 DEF Covers
  <2>2. Defined(o, k) /\ f[j] = EntryOf(o, k)
    <3>1. PICK l \in 1 .. Len(ss[k]) : f[j] = ss[k][l]
        BY <2>1
    <3>2. Len(ss[k]) # 0
        BY <3>1
    <3>3. Defined(o, k) /\ Len(ss[k]) = 1 /\ ss[k][1] = EntryOf(o, k)
        BY <1>6, <3>2
    <3>4. l = 1
        BY <3>1, <3>3
    <3> QED BY <3>1, <3>3, <3>4
  <2> QED BY <1>5, <2>2
<1>10. ASSUME NEW k \in 1 .. n, Defined(o, k) PROVE \E j \in 1 .. Len(f) : f[j] = EntryOf(o, k)
  <2>1. 1 \in 1 .. Len(ss[k]) /\ ss[k][1] = EntryOf(o, k)
      BY <1>6, <1>10
  <2>2. \A a \in 1 .. n : \A b \in 1 .. Len(ss[a]) : \E j \in 1 .. Len(f) : f[j] = ss[a][b]
      BY <1>8 DEF Covers
  <2>3. PICK j \in 1 .. Len(f) : f[j] = ss[k][1]
      BY <2>1, <2>2
  <2> QED BY <2>1, <2>3
<1> QED BY <1>1, <1>3, <1>7, <1>8, <1>9, <1>10

LEMMA ExportsAre ==
  ASSUME world \in Worlds
  PROVE  /\ Exports \in Seq(ExportEntries)
         /\ \A j \in 1 .. Len(Exports) : Exports[j].value # 0 /\ Exports[j].value < PltGot
         /\ \A o \in DOMAIN world.objects : \A k \in DOMAIN world.objects[o].symbols :
              Defined(o, k) =>
                \E j \in 1 .. Len(Exports) : Exports[j].name = world.objects[o].symbols[k].name
<1>1. PICK n \in Nat : DOMAIN world.objects = 1 .. n
  <2>1. world.objects \in Seq(Objects)
      BY AddressAssumption
  <2> QED BY <2>1
<1>2. PICK ss : ss = [o \in 1 .. n |-> ExportsOf(o)]
    OBVIOUS
<1>3. Exports = FlattenSeq(ss)
    BY <1>1, <1>2 DEF Exports
<1>4. \A o \in 1 .. n : ss[o] = ExportsOf(o) /\ ss[o] \in Seq(ExportEntries)
    BY <1>1, <1>2, ExportsOfAre
<1>5. ss \in Seq(Seq(ExportEntries)) /\ Len(ss) = n
    BY <1>2, <1>4
<1>6. PICK f : f = FlattenSeq(ss)
    OBVIOUS
<1>7. f \in Seq(ExportEntries) /\ Covers(f, ss, n)
    BY <1>5, <1>6, FlattenCovers
<1>8. /\ \A j \in 1 .. Len(f) : \E o \in 1 .. n : \E k \in 1 .. Len(ss[o]) : f[j] = ss[o][k]
      /\ \A o \in 1 .. n : \A k \in 1 .. Len(ss[o]) : \E j \in 1 .. Len(f) : f[j] = ss[o][k]
    BY <1>7 DEF Covers
<1>9. ASSUME NEW j \in 1 .. Len(f) PROVE f[j].value # 0 /\ f[j].value < PltGot
  <2>1. PICK o \in 1 .. n : \E k \in 1 .. Len(ss[o]) : f[j] = ss[o][k]
      BY <1>8
  <2> QED BY <1>1, <1>4, <2>1, ExportsOfAre
<1>10. ASSUME NEW o \in 1 .. n, NEW k \in DOMAIN world.objects[o].symbols, Defined(o, k)
       PROVE  \E j \in 1 .. Len(f) : f[j].name = world.objects[o].symbols[k].name
  <2>1. PICK l \in 1 .. Len(ss[o]) : ss[o][l] = EntryOf(o, k)
      BY <1>1, <1>4, <1>10, ExportsOfAre
  <2>2. PICK j \in 1 .. Len(f) : f[j] = ss[o][l]
      BY <1>8
  <2>3. EntryOf(o, k).name = world.objects[o].symbols[k].name
      BY DEF EntryOf
  <2> QED BY <2>1, <2>2, <2>3
<1> QED BY <1>1, <1>3, <1>6, <1>7, <1>9, <1>10

LEMMA NoClash ==
  ASSUME world \in Worlds, NEW o \in DOMAIN world.objects, NEW p \in DOMAIN world.objects,
         NEW k \in DOMAIN world.objects[o].relocs, NEW l \in DOMAIN world.objects[p].relocs,
         SameWord(world.objects, o, world.objects[o].relocs[k], p, world.objects[p].relocs[l])
  PROVE  o = p /\ k = l
  BY OneRelocationEach

\* Each relocation is one of its object, and appears once.
LEMMA RelocsAre ==
  ASSUME world \in Worlds
  PROVE  /\ Relocs \in Seq(Relocations)
         /\ \A m \in 1 .. Len(Relocs) :
              /\ Relocs[m].obj \in DOMAIN world.objects
              /\ \E k \in DOMAIN world.objects[Relocs[m].obj].relocs :
                   Relocs[m].r = world.objects[Relocs[m].obj].relocs[k]
         /\ \A m, l \in 1 .. Len(Relocs) : Relocs[m] = Relocs[l] => m = l
<1>1. PICK n \in Nat : DOMAIN world.objects = 1 .. n
  <2>1. world.objects \in Seq(Objects)
      BY AddressAssumption
  <2> QED BY <2>1
<1>2. PICK ss : ss = [o \in 1 .. n |-> [k \in DOMAIN world.objects[o].relocs |->
                        [obj |-> o, r |-> world.objects[o].relocs[k]]]]
    OBVIOUS
<1>3. Relocs = FlattenSeq(ss)
    BY <1>1, <1>2 DEF Relocs
<1>4. ASSUME NEW o \in 1 .. n
      PROVE  /\ ss[o] \in Seq(Relocations)
             /\ \A k \in 1 .. Len(ss[o]) : /\ k \in DOMAIN world.objects[o].relocs
                                           /\ ss[o][k].obj = o
                                           /\ ss[o][k].r = world.objects[o].relocs[k]
  <2>1. PICK z \in Seq(RelocRecords) : z = world.objects[o].relocs
      BY <1>1, ObjectIs
  <2>2. PICK m \in Nat : m = Len(z) /\ DOMAIN z = 1 .. m
      OBVIOUS
  <2>3. ss[o] = [k \in 1 .. m |-> [obj |-> o, r |-> z[k]]]
      BY <1>2, <2>1, <2>2
  <2>4. \A k \in 1 .. m : ss[o][k] = [obj |-> o, r |-> z[k]] /\ [obj |-> o, r |-> z[k]] \in Relocations
      BY <2>2, <2>3 DEF Relocations
  <2>5. ss[o] \in Seq(Relocations) /\ Len(ss[o]) = m
      BY <2>3, <2>4
  <2>6. \A k \in 1 .. m : ss[o][k].obj = o /\ ss[o][k].r = z[k]
    <3> SUFFICES ASSUME NEW k \in 1 .. m PROVE ss[o][k].obj = o /\ ss[o][k].r = z[k]
        OBVIOUS
    <3>1. ss[o][k] = [obj |-> o, r |-> z[k]]
        BY <2>4
    <3> QED BY <3>1
  <2> QED BY <2>1, <2>2, <2>5, <2>6
<1>5. ss \in Seq(Seq(Relocations)) /\ Len(ss) = n
    BY <1>2, <1>4
<1>6. Differ(ss)
  <2> SUFFICES ASSUME NEW o \in 1 .. n, NEW p \in 1 .. n,
                      NEW k \in 1 .. Len(ss[o]), NEW l \in 1 .. Len(ss[p]), ss[o][k] = ss[p][l]
               PROVE  o = p /\ k = l
      BY <1>5 DEF Differ
  <2>1. /\ ss[o][k].obj = o /\ ss[o][k].r = world.objects[o].relocs[k]
        /\ k \in DOMAIN world.objects[o].relocs
      BY <1>4
  <2>2. /\ ss[p][l].obj = p /\ ss[p][l].r = world.objects[p].relocs[l]
        /\ l \in DOMAIN world.objects[p].relocs
      BY <1>4
  <2>3. o = p /\ world.objects[o].relocs[k] = world.objects[p].relocs[l]
      BY <2>1, <2>2
  <2>4. o \in DOMAIN world.objects /\ p \in DOMAIN world.objects
      BY <1>1
  <2>5. SameWord(world.objects, o, world.objects[o].relocs[k], p, world.objects[p].relocs[l])
      BY <2>3 DEF SameWord
  <2> QED BY <2>1, <2>2, <2>4, <2>5, NoClash
<1>7. PICK f : f = FlattenSeq(ss)
    OBVIOUS
<1>8. f \in Seq(Relocations) /\ Covers(f, ss, n)
    BY <1>5, <1>7, FlattenCovers
<1>9. /\ \A j \in 1 .. Len(f) : \E o \in 1 .. n : \E k \in 1 .. Len(ss[o]) : f[j] = ss[o][k]
      /\ \A j, l \in 1 .. Len(f) : f[j] = f[l] => j = l
    BY <1>6, <1>8 DEF Covers
<1>10. ASSUME NEW m \in 1 .. Len(f)
       PROVE  /\ f[m].obj \in 1 .. n
              /\ \E k \in DOMAIN world.objects[f[m].obj].relocs :
                   f[m].r = world.objects[f[m].obj].relocs[k]
  <2>1. PICK o \in 1 .. n : \E k \in 1 .. Len(ss[o]) : f[m] = ss[o][k]
      BY <1>9
  <2>2. PICK k \in 1 .. Len(ss[o]) : f[m] = ss[o][k]
      BY <2>1
  <2>3. ss[o][k].obj = o /\ ss[o][k].r = world.objects[o].relocs[k] /\ k \in DOMAIN world.objects[o].relocs
      BY <1>4
  <2>4. f[m].obj = o /\ f[m].r = world.objects[o].relocs[k]
      BY <2>2, <2>3
  <2> QED BY <2>3, <2>4
<1> QED BY <1>1, <1>3, <1>7, <1>8, <1>9, <1>10

LEMMA InitInputs == Init => InputsInv
<1> SUFFICES ASSUME Init PROVE InputsInv
    OBVIOUS
<1>1. world \in Worlds /\ exports = Exports /\ relocs = Relocs
    BY DEF Init
<1>2. ASSUME NEW m \in 1 .. Len(relocs)
      PROVE  /\ relocs[m].obj \in DOMAIN world.objects
             /\ \E k \in DOMAIN world.objects[relocs[m].obj].relocs :
                  relocs[m].r = world.objects[relocs[m].obj].relocs[k]
    BY <1>1, RelocsAre
<1>3. ASSUME NEW m \in 1 .. Len(relocs) PROVE Sound(relocs[m])
  <2>1. PICK o \in DOMAIN world.objects : o = relocs[m].obj
      BY <1>2
  <2>2. PICK k \in DOMAIN world.objects[o].relocs : relocs[m].r = world.objects[o].relocs[k]
      BY <1>2, <2>1
  <2>3. PICK r \in RelocRecords : r = world.objects[o].relocs[k]
      BY <1>1, ObjectIs
  <2>4. PICK s \in Seq(Sections) : s = world.objects[o].sections
      BY <1>1, ObjectIs
  <2>5. PICK ys \in Seq(SymbolRecords) : ys = world.objects[o].symbols
      BY <1>1, ObjectIs
  <2>6. r \in Range(world.objects[o].relocs)
      BY <2>3 DEF Range
  <2>7. /\ r.sec \in DOMAIN s /\ r.sym \in DOMAIN ys
        /\ s[r.sec].at # 0 => s[r.sec].at + r.offset < PltGot
      BY <1>1, <2>4, <2>5, <2>6, ObjectIs DEF Prepared
  <2>8. s[r.sec] \in Sections /\ ys[r.sym] \in SymbolRecords
      BY <2>7
  <2>9. /\ s[r.sec].at \in Nat /\ r.offset \in Nat /\ r.addend \in Int /\ r.type \in STRING
        /\ ys[r.sym].type \in SymbolTypes /\ ys[r.sym].name \in STRING
        /\ ys[r.sym].section \in Nat /\ ys[r.sym].value \in Nat
      BY <2>8 DEF Sections, SymbolRecords, RelocRecords
  <2>10. /\ s[r.sec] \in Range(s) /\ ys[r.sym] \in Range(ys)
      BY <2>7 DEF Range
  <2>11. s[r.sec].kind \in Arrays => s[r.sec].at = 0
      BY <1>1, <2>4, <2>10, ObjectIs DEF Prepared
  <2>12. /\ ys[r.sym].section \in 0 .. Len(s)
         /\ ys[r.sym].type = "section" => ys[r.sym].section # 0 /\ ys[r.sym].value = 0
      BY <1>1, <2>4, <2>5, <2>10, ObjectIs DEF Prepared
  <2>13. /\ SrcAddr(relocs[m]) = s[r.sec].at + r.offset /\ SymOf(relocs[m]) = ys[r.sym]
         /\ (Linked(relocs[m]) <=> s[r.sec].at # 0) /\ Kind(relocs[m]) = s[r.sec].kind
         /\ relocs[m].r = r
         /\ SectionAt(relocs[m].obj, SymOf(relocs[m]).section) = s[ys[r.sym].section].at
      BY <2>1, <2>2, <2>3, <2>4, <2>5 DEF SrcAddr, SymOf, Linked, Kind, SectionAt
  <2>14. ASSUME ys[r.sym].type = "section"
         PROVE  s[ys[r.sym].section].at \in Nat /\ s[ys[r.sym].section].at < PltGot
    <3>1. ys[r.sym].section \in DOMAIN s
        BY <2>9, <2>12, <2>14
    <3>2. s[ys[r.sym].section] \in Sections /\ s[ys[r.sym].section] \in Range(s)
        BY <3>1 DEF Range
    <3> QED BY <1>1, <2>4, <3>2, ObjectIs DEF Prepared, Sections
  <2>15. ASSUME ys[r.sym].type = "name", ys[r.sym].section # 0
         PROVE  \E j \in 1 .. Len(exports) : exports[j].name = ys[r.sym].name
    <3>1. r.sym \in DOMAIN world.objects[o].symbols /\ Defined(o, r.sym)
        BY <2>5, <2>7, <2>15 DEF Defined
    <3> QED BY <1>1, <2>5, <3>1, ExportsAre
  <2>16. s[r.sec].at + r.offset \in Nat
    <3>1. PICK a \in Nat : a = s[r.sec].at
        BY <2>9
    <3>2. PICK b \in Nat : b = r.offset
        BY <2>9
    <3> QED BY <3>1, <3>2
  <2> QED BY <2>7, <2>9, <2>11, <2>12, <2>13, <2>14, <2>15, <2>16 DEF Sound, IsName
<1>4. ASSUME NEW m \in 1 .. Len(relocs), NEW l \in 1 .. Len(relocs),
             Linked(relocs[m]), Linked(relocs[l]), SrcAddr(relocs[m]) = SrcAddr(relocs[l])
      PROVE  m = l
  <2>1. PICK o \in DOMAIN world.objects : o = relocs[m].obj
      BY <1>2
  <2>2. PICK k \in DOMAIN world.objects[o].relocs : relocs[m].r = world.objects[o].relocs[k]
      BY <1>2, <2>1
  <2>3. PICK p \in DOMAIN world.objects : p = relocs[l].obj
      BY <1>2
  <2>4. PICK q \in DOMAIN world.objects[p].relocs : relocs[l].r = world.objects[p].relocs[q]
      BY <1>2, <2>3
  <2>5. o = p /\ k = q
    <3>1. SameWord(world.objects, o, world.objects[o].relocs[k], p, world.objects[p].relocs[q])
        BY <1>4, <2>1, <2>2, <2>3, <2>4 DEF Linked, SrcAddr, SectionAt, SameWord
    <3> QED BY <1>1, <3>1, NoClash
  <2>6. relocs[m].obj = relocs[l].obj /\ relocs[m].r = relocs[l].r
      BY <2>1, <2>2, <2>3, <2>4, <2>5
  <2>7. relocs[m] \in Relocations /\ relocs[l] \in Relocations
      BY <1>1, RelocsAre
  <2>8. relocs[m] = relocs[l]
      BY <2>6, <2>7 DEF Relocations
  <2> QED BY <1>1, <2>8, RelocsAre
<1>5. \A n \in DOMAIN world.library : world.library[n] \in Nat
    BY <1>1, AddressAssumption
<1> QED BY <1>1, <1>3, <1>4, <1>5, ExportsAre, RelocsAre DEF InputsInv

----------------------------------------------------------------------------
(* Looking names up                                                        *)

\* A set of numbers has a least one.
LEMMA Least ==
  ASSUME NEW T, T \subseteq Nat, T # {}
  PROVE  \E m \in T : \A n \in T : m <= n
<1>1. OpToRel(<, Nat) = {ss \in Nat \X Nat : ss[1] < ss[2]}
    BY DEF OpToRel
<1>2. PICK m \in T : \A n \in T : ~ (<<n, m>> \in OpToRel(<, Nat))
    BY WFMin, NatLessThanWellFounded
<1>3. ASSUME NEW n \in T PROVE ~ (n < m)
  <2>1. <<n, m>> \in Nat \X Nat
      OBVIOUS
  <2> QED BY <1>1, <1>2, <2>1
<1>4. m \in Nat /\ \A n \in T : n \in Nat
    OBVIOUS
<1> QED BY <1>3, <1>4

LEMMA MinIsLeast ==
  ASSUME NEW T, T \subseteq Nat, T # {}
  PROVE  Min(T) \in T
<1>1. PICK m \in T : \A n \in T : m <= n
    BY Least
<1> QED BY <1>1 DEF Min

LEMMA FoundIn ==
  ASSUME InputsInv, NEW nm
  PROVE  /\ \/ find_sym2(nm) = 0 /\ \A j \in 1 .. Len(exports) : exports[j].name # nm
            \/ find_sym2(nm) \in 1 .. Len(exports) /\ exports[find_sym2(nm)].name = nm
         /\ ExportedAt(nm) \in Nat /\ ExportedAt(nm) < PltGot
         /\ ExportedAt(nm) = 0 <=> find_sym2(nm) = 0
         /\ find_sym2(nm) # 0 =>
              \E j \in 1 .. Len(exports) : exports[j].name = nm /\ exports[j].value = ExportedAt(nm)
<1>1. exports \in Seq(ExportEntries)
    BY DEF InputsInv
<1>2. \/ find_sym2(nm) = 0 /\ \A j \in 1 .. Len(exports) : exports[j].name # nm
      \/ find_sym2(nm) \in 1 .. Len(exports) /\ exports[find_sym2(nm)].name = nm
  <2> DEFINE T == {j \in 1 .. Len(exports) : exports[j].name = nm}
  <2>1. find_sym2(nm) = IF T # {} THEN Min(T) ELSE 0
      BY DEF SelectInSeq, find_sym2
  <2>2. CASE T = {}
      BY <2>1, <2>2
  <2>3. CASE T # {}
    <3>1. T \subseteq Nat
        OBVIOUS
    <3>2. Min(T) \in T
      <4> HIDE DEF T
      <4> QED BY <2>3, <3>1, MinIsLeast
    <3> QED BY <2>1, <2>3, <3>2
  <2> QED BY <2>2, <2>3
<1>3. PICK i : i = find_sym2(nm)
    OBVIOUS
<1>4. ExportedAt(nm) = IF i = 0 THEN 0 ELSE exports[i].value
    BY <1>3 DEF ExportedAt
<1>5. PltGot \in Nat /\ PltGot # 0
    BY AddressAssumption
<1>6. CASE i = 0
    BY <1>2, <1>3, <1>4, <1>5, <1>6
<1>7. CASE i # 0
  <2>1. i \in 1 .. Len(exports) /\ exports[i].name = nm
      BY <1>2, <1>3, <1>7
  <2>2. exports[i] \in ExportEntries
      BY <1>1, <2>1
  <2>3. exports[i].value \in Nat /\ exports[i].value # 0 /\ exports[i].value < PltGot
      BY <2>1, <2>2 DEF InputsInv, ExportEntries
  <2> QED BY <1>2, <1>3, <1>4, <1>7, <2>1, <2>3
<1> QED BY <1>6, <1>7

ImportEntries == [name : STRING, r : Nat]

LEMMA ImportFound ==
  ASSUME imports \in Seq(ImportEntries), NEW nm, ImportOf(nm) # 0
  PROVE  ImportOf(nm) \in 1 .. Len(imports) /\ imports[ImportOf(nm)].name = nm
<1> DEFINE T == {j \in 1 .. Len(imports) : imports[j].name = nm}
<1>1. ImportOf(nm) = IF T # {} THEN Min(T) ELSE 0
    BY DEF SelectInSeq, ImportOf
<1>2. T # {} /\ T \subseteq Nat
    BY <1>1
<1>3. Min(T) \in T
  <2> HIDE DEF T
  <2> QED BY <1>2, MinIsLeast
<1> QED BY <1>1, <1>2, <1>3

\* A relocation of the link.
LEMMA CurrentIs ==
  ASSUME InputsInv, Linking, at \in Nat
  PROVE  /\ at + 1 \in 1 .. Len(relocs) /\ X = relocs[at + 1] /\ Sound(X)
         /\ SrcAddr(X) \in Nat /\ X.r.addend \in Int
         /\ SymOf(X).name \in STRING
         /\ (Named <=> IsName(X)) /\ (Dynamic <=> Imported(X)) /\ DstAddr = Dst(X)
         /\ InPlace <=> SymOf(X).type # "other" /\ ~ InArray(X)
         /\ SymOf(X).type # "other" => Dst(X) \in Nat /\ Dst(X) < PltGot
<1>1. at + 1 \in 1 .. Len(relocs) /\ X = relocs[at + 1]
    BY DEF Linking, InputsInv, X
<1>2. Sound(X)
    BY <1>1 DEF InputsInv
<1>3. (Named <=> IsName(X)) /\ (Dynamic <=> Imported(X)) /\ DstAddr = Dst(X)
    BY DEF Named, IsName, Dynamic, Imported, DstAddr, Dst
<1>4. InPlace <=> SymOf(X).type # "other" /\ ~ InArray(X)
    BY <1>3 DEF InPlace, InArray, ArrayOf, Kind
<1>5. SymOf(X).type # "other" => Dst(X) \in Nat /\ Dst(X) < PltGot
  <2>1. CASE IsName(X)
      BY <2>1, FoundIn DEF Dst
  <2>2. CASE ~ IsName(X)
    <3>1. SymOf(X).type # "other" => SymOf(X).type = "section"
        BY <1>2, <2>2 DEF Sound, SymbolTypes, IsName
    <3> QED BY <1>2, <2>2, <3>1 DEF Sound, Dst
  <2> QED BY <2>1, <2>2
<1> QED BY <1>1, <1>2, <1>3, <1>4, <1>5 DEF Sound

----------------------------------------------------------------------------
(* The invariant                                                           *)

RelaTypes == {"RELATIVE", "GLOB_DAT", "JUMP_SLOT"}
RelaRecords == [offset : Nat, type : RelaTypes, name : STRING \cup {""}, addend : Nat]

RelocTypes ==
  /\ phase \in {"link", "spin", "load", "running"} /\ at \in Nat
  /\ slots \in Seq(STRING) /\ imports \in Seq(ImportEntries) /\ rela \in Seq(RelaRecords)

\* The stub of slot n, with the slot 8 bytes behind.
Slot(n) == PltGot + 16 * (n - 1)
Processed(m) == phase \in {"link", "spin"} => m <= at

\* Each slot has an entry of .rela.plt, each import a slot.
SlotsInv ==
  /\ \A n \in 1 .. Len(slots) : \E i \in 1 .. Len(rela) :
       /\ rela[i].offset = Slot(n) + 8 /\ rela[i].type # "RELATIVE"
       /\ rela[i].name = slots[n] /\ rela[i].addend = 0
  /\ \A j \in 1 .. Len(imports) : \E n \in 1 .. Len(slots) :
       slots[n] = imports[j].name /\ imports[j].r = Slot(n)

\* Each entry is for a slot, or a 64-bit word that is resolved.
OfSlot(a) == \E n \in 1 .. Len(slots) : a = Slot(n) + 8
OfWord(a) ==
  \E m \in 1 .. Len(relocs) :
    /\ Processed(m) /\ relocs[m].r.type = "64" /\ a = SrcAddr(relocs[m])
    /\ SymOf(relocs[m]).type # "other" /\ ~ InArray(relocs[m])
EntriesInv == \A i \in 1 .. Len(rela) : \A a : rela[i].offset = a => OfSlot(a) \/ OfWord(a)

\* One entry each, apart from the words of sections that are not linked.
Own(a) == a >= PltGot \/ \E m \in 1 .. Len(relocs) : Linked(relocs[m]) /\ SrcAddr(relocs[m]) = a
OnceInv ==
  StraysApart => \A i, j \in 1 .. Len(rela) : \A a :
    rela[i].offset = a /\ rela[j].offset = a /\ Own(a) => i = j

\* What resolving a relocation left.
Answered64(x) ==
  \E i \in 1 .. Len(rela) :
    /\ rela[i].offset = SrcAddr(x)
    /\ IF Imported(x)
         THEN rela[i].type # "RELATIVE" /\ rela[i].name = SymOf(x).name /\ rela[i].addend = 0
         ELSE rela[i].type = "RELATIVE" /\ rela[i].addend = Dst(x)
Reaches(x, a) == Place(x) \in DOMAIN word /\ word[Place(x)] = (a - SrcAddr(x)) + x.r.addend
ReachesSlot(x, d) == \E n \in 1 .. Len(slots) : slots[n] = SymOf(x).name /\ Reaches(x, Slot(n) + d)
Answered(x) ==
  /\ x.r.type = "64" => Answered64(x)
  /\ x.r.type = "GOTPCRELX" => ReachesSlot(x, 8)
  /\ x.r.type \in Near => IF Imported(x) THEN ReachesSlot(x, 0) ELSE Reaches(x, Dst(x))
ResolvedInv ==
  \A m \in 1 .. Len(relocs) :
    Processed(m) /\ Linked(relocs[m]) /\ SymOf(relocs[m]).type # "other" => Answered(relocs[m])

\* What an entry left, when it was carried out.
Written(e) ==
  Own(e.offset) =>
    /\ e.type = "RELATIVE" => Cell(base + e.offset) = base + e.addend
    /\ e.type # "RELATIVE" /\ Definitions(e.name) # {} =>
         \E d \in Definitions(e.name) : Cell(base + e.offset) = d + e.addend
Loaded(i) == (phase = "load" /\ i <= at) \/ phase = "running"
LoadInv ==
  /\ base \in Nat
  /\ phase = "load" => at <= Len(rela)
  /\ \A i \in 1 .. Len(rela) : \A e : StraysApart /\ Loaded(i) /\ e = rela[i] => Written(e)

RelocInv ==
  /\ InputsInv /\ RelocTypes /\ SlotsInv /\ EntriesInv /\ OnceInv /\ ResolvedInv /\ LoadInv

----------------------------------------------------------------------------
(* The link                                                                *)

Grows(a, b) == \A i \in 1 .. Len(a) : i \in 1 .. Len(b) /\ b[i] = a[i]

LEMMA Appended ==
  ASSUME NEW T, NEW s \in Seq(T), NEW e \in T
  PROVE  /\ Append(s, e) \in Seq(T) /\ Len(Append(s, e)) = Len(s) + 1
         /\ Grows(s, Append(s, e)) /\ Append(s, e)[Len(s) + 1] = e
         /\ Len(s) + 1 \in 1 .. Len(Append(s, e))
         /\ \A i \in 1 .. Len(Append(s, e)) : i \in 1 .. Len(s) \/ i = Len(s) + 1
<1>1. /\ Append(s, e) \in Seq(T) /\ Len(Append(s, e)) = Len(s) + 1
      /\ \A i \in 1 .. Len(s) : Append(s, e)[i] = s[i]
      /\ Append(s, e)[Len(s) + 1] = e
    OBVIOUS
<1>2. Len(s) \in Nat
    OBVIOUS
<1> QED BY <1>1, <1>2 DEF Grows

LEMMA InputsSame ==
  ASSUME UNCHANGED inputs, NEW x
  PROVE  /\ Linked(x)' = Linked(x) /\ SrcAddr(x)' = SrcAddr(x) /\ Place(x)' = Place(x)
         /\ SymOf(x)' = SymOf(x) /\ Imported(x)' = Imported(x) /\ Dst(x)' = Dst(x)
         /\ InArray(x)' = InArray(x)
<1>1. UNCHANGED <<world, exports, relocs>>
    BY DEF inputs
<1>2. \A nm : find_sym2(nm)' = find_sym2(nm)
    BY <1>1 DEF find_sym2, SelectInSeq
<1>3. \A nm : ExportedAt(nm)' = ExportedAt(nm)
    BY <1>1, <1>2 DEF ExportedAt
<1> QED BY <1>1, <1>3 DEF Linked, SrcAddr, SectionAt, Place, SymOf, Imported, IsName, Dst, InArray, Kind

LEMMA OwnSame ==
  ASSUME UNCHANGED inputs, NEW a PROVE Own(a)' = Own(a)
<1>1. relocs' = relocs
    BY DEF inputs
<1> QED BY <1>1, InputsSame DEF Own

LEMMA StraysSame == UNCHANGED inputs => StraysApart' = StraysApart
<1> SUFFICES ASSUME UNCHANGED inputs PROVE StraysApart' = StraysApart
    OBVIOUS
<1>1. world' = world /\ relocs' = relocs
    BY DEF inputs
<1>2. ASSUME NEW x PROVE Stray(x)' = Stray(x)
  <2>1. UNCHANGED <<world, exports, relocs>>
      BY DEF inputs
  <2>2. \A nm : ExportedAt(nm)' = ExportedAt(nm)
      BY <2>1 DEF ExportedAt, find_sym2, SelectInSeq
  <2> QED BY <2>1, <2>2 DEF Stray, SectionAt, SymOf
<1> QED BY <1>1, <1>2, InputsSame DEF StraysApart, SectionAt

\* The addresses of the 64-bit words lie below .plt.got.
LEMMA WordsBelow ==
  ASSUME RelocInv, StraysApart, NEW a, OfWord(a)
  PROVE  a < PltGot
<1>1. PICK m \in 1 .. Len(relocs) :
        /\ relocs[m].r.type = "64" /\ a = SrcAddr(relocs[m])
        /\ SymOf(relocs[m]).type # "other" /\ ~ InArray(relocs[m])
    BY DEF OfWord
<1>2. PICK x \in Range(relocs) : x = relocs[m]
    BY DEF Range, RelocInv, InputsInv
<1>3. CASE Linked(x)
    BY <1>1, <1>2, <1>3 DEF RelocInv, InputsInv, Sound
<1>4. CASE ~ Linked(x)
    BY <1>1, <1>2, <1>4 DEF StraysApart, Stray, Linked, InArray, IsName, Imported, Kind
<1> QED BY <1>3, <1>4

LEMMA AnsweredKept ==
  ASSUME UNCHANGED inputs, NEW x, Answered(x), Grows(rela, rela'), Grows(slots, slots'),
         Place(x) \in DOMAIN word => Place(x) \in DOMAIN word' /\ word'[Place(x)] = word[Place(x)]
  PROVE  Answered(x)'
<1>1. Answered64(x) => Answered64(x)'
    BY InputsSame DEF Answered64, Grows
<1>2. \A a : Reaches(x, a) => Reaches(x, a)'
    BY InputsSame DEF Reaches
<1>3. \A d : ReachesSlot(x, d) => ReachesSlot(x, d)'
  <2> SUFFICES ASSUME NEW d, ReachesSlot(x, d) PROVE ReachesSlot(x, d)'
      OBVIOUS
  <2>1. PICK n \in 1 .. Len(slots) : slots[n] = SymOf(x).name /\ Reaches(x, Slot(n) + d)
      BY DEF ReachesSlot
  <2>2. n \in 1 .. Len(slots') /\ slots'[n] = slots[n]
      BY DEF Grows
  <2>3. Reaches(x, Slot(n) + d)'
      BY <1>2, <2>1 DEF Slot
  <2> QED BY <2>1, <2>2, <2>3, InputsSame DEF ReachesSlot, Slot
<1> QED BY <1>1, <1>2, <1>3, InputsSame DEF Answered, Near

LEMMA ResolvedKept ==
  ASSUME RelocInv, Linking, Done, NEW x, x = X,
         Grows(rela, rela'), Grows(slots, slots'),
         \A p \in DOMAIN word : p # Place(x) => p \in DOMAIN word' /\ word'[p] = word[p],
         Linked(x) /\ SymOf(x).type # "other" => Answered(x)'
  PROVE  ResolvedInv'
<1>1. UNCHANGED inputs /\ relocs' = relocs /\ phase = "link" /\ phase' = "link" /\ at \in Nat /\ at' = at + 1
    BY DEF Done, Linking, inputs, RelocInv, RelocTypes
<1> SUFFICES ASSUME NEW m \in 1 .. Len(relocs), Processed(m)', Linked(relocs[m]), SymOf(relocs[m]).type # "other"
             PROVE  Answered(relocs[m])'
    BY <1>1, InputsSame DEF ResolvedInv
<1>2. m <= at + 1 /\ x = relocs[at + 1]
    BY <1>1 DEF Processed, X
<1>3. CASE m = at + 1
  <2>1. relocs[m] = x
      BY <1>2, <1>3
  <2> QED BY <1>1, <2>1
<1>4. CASE m <= at
  <2>1. PICK y : y = relocs[m]
      OBVIOUS
  <2>2. Answered(y)
      BY <1>4, <2>1 DEF RelocInv, ResolvedInv, Processed
  <2>3. Place(y) # Place(x)
    <3> SUFFICES ASSUME Place(y) = Place(x) PROVE FALSE
        OBVIOUS
    <3>1. SrcAddr(y) = SrcAddr(x) /\ Linked(x) /\ Linked(y)
        BY <2>1 DEF Place, SrcAddr, SectionAt, Linked
    <3>2. at + 1 \in 1 .. Len(relocs)
        BY <1>1, CurrentIs DEF RelocInv
    <3>3. m = at + 1
        BY <1>2, <2>1, <3>1, <3>2 DEF RelocInv, InputsInv
    <3> QED BY <1>1, <1>4, <3>3
  <2>4. Answered(y)'
      BY <1>1, <2>2, <2>3, AnsweredKept
  <2> QED BY <1>1, <2>1, <2>4
<1> QED BY <1>1, <1>2, <1>3, <1>4

\* Steps that leave .rela.plt alone.
LEMMA EntriesKept ==
  ASSUME RelocInv, Linking, Done, UNCHANGED <<slots, imports, rela>>
  PROVE  InputsInv' /\ RelocTypes' /\ SlotsInv' /\ EntriesInv' /\ OnceInv' /\ LoadInv'
<1>1. UNCHANGED inputs /\ relocs' = relocs /\ phase = "link" /\ phase' = "link" /\ at \in Nat /\ at' = at + 1
      /\ UNCHANGED <<base, mem>>
    BY DEF Done, Linking, inputs, RelocInv, RelocTypes
<1>2. InputsInv' /\ RelocTypes' /\ SlotsInv'
  <2>1. InputsInv'
      BY <1>1, InputsKept DEF RelocInv
  <2>2. RelocTypes'
      BY <1>1 DEF RelocInv, RelocTypes
  <2>3. SlotsInv'
      BY DEF RelocInv, SlotsInv, Slot
  <2> QED BY <2>1, <2>2, <2>3
<1>3. \A a : OfWord(a) => OfWord(a)'
  <2> SUFFICES ASSUME NEW a, OfWord(a) PROVE OfWord(a)'
      OBVIOUS
  <2>1. \A m \in 1 .. Len(relocs) : Processed(m) => Processed(m)'
      BY <1>1 DEF Processed, RelocInv, InputsInv
  <2> QED BY <1>1, <2>1, InputsSame DEF OfWord
<1>4. EntriesInv'
    BY <1>3 DEF RelocInv, EntriesInv, OfSlot, Slot
<1>5. OnceInv'
    BY <1>1, OwnSame, StraysSame DEF RelocInv, OnceInv
<1>6. LoadInv'
    BY <1>1 DEF RelocInv, LoadInv, Loaded
<1> QED BY <1>2, <1>4, <1>5, <1>6

\* add_dynamic_entry for a slot of its own.
LEMMA SlotAdded ==
  ASSUME RelocInv, Linking, Done, NEW name \in STRING, NEW type \in {"JUMP_SLOT", "GLOB_DAT"}, NewSlot(name, type)
  PROVE  /\ InputsInv' /\ RelocTypes' /\ SlotsInv' /\ EntriesInv' /\ OnceInv' /\ LoadInv'
         /\ Grows(rela, rela') /\ Grows(slots, slots')
         /\ \E n \in 1 .. Len(slots') : slots'[n] = name /\ Slot(n) = NextStub
<1>1. UNCHANGED inputs /\ relocs' = relocs /\ phase = "link" /\ phase' = "link" /\ at \in Nat /\ at' = at + 1
      /\ UNCHANGED <<base, mem>>
    BY DEF Done, Linking, inputs, RelocInv, RelocTypes
<1>2. PICK n \in Nat : n = Len(slots)
    BY DEF RelocInv, RelocTypes
<1>3. PltGot \in Nat
    BY AddressAssumption
<1>4. PICK stub \in Nat : stub = NextStub /\ stub = PltGot + 16 * n
    BY <1>2, <1>3 DEF NextStub
<1>5. \A i \in Nat : Slot(i + 1) = PltGot + 16 * i
    BY <1>3 DEF Slot
<1>6. Slot(n + 1) = stub
    BY <1>4, <1>5
<1>7. PICK e \in RelaRecords : e = Rela(stub + 8, type, name, 0)
  <2>1. stub + 8 \in Nat /\ type \in RelaTypes
      BY <1>4 DEF RelaTypes
  <2> QED BY <2>1 DEF Rela, RelaRecords
<1>8. e.offset = stub + 8 /\ e.type = type /\ e.name = name /\ e.addend = 0
    BY <1>7 DEF Rela
<1>9. rela' = Append(rela, e)
    BY <1>4, <1>7 DEF NewSlot
<1>10. PICK q \in ImportEntries : q = [name |-> name, r |-> stub]
    BY <1>4 DEF ImportEntries
<1>11. q.name = name /\ q.r = stub
    BY <1>10
<1>12. imports' = Append(imports, q)
    BY <1>4, <1>10 DEF NewSlot
<1>13. slots' = Append(slots, name)
    BY DEF NewSlot
<1>14. /\ rela' \in Seq(RelaRecords) /\ Grows(rela, rela')
       /\ Len(rela) + 1 \in 1 .. Len(rela') /\ rela'[Len(rela) + 1] = e
       /\ \A i \in 1 .. Len(rela') : i \in 1 .. Len(rela) \/ i = Len(rela) + 1
    BY <1>9, Appended DEF RelocInv, RelocTypes
<1>15. /\ slots' \in Seq(STRING) /\ Grows(slots, slots') /\ Len(slots') = n + 1
       /\ n + 1 \in 1 .. Len(slots') /\ slots'[n + 1] = name
       /\ \A i \in 1 .. Len(slots') : i \in 1 .. Len(slots) \/ i = n + 1
    BY <1>2, <1>13, Appended DEF RelocInv, RelocTypes
<1>16. /\ imports' \in Seq(ImportEntries) /\ Grows(imports, imports')
       /\ imports'[Len(imports) + 1] = q
       /\ \A i \in 1 .. Len(imports') : i \in 1 .. Len(imports) \/ i = Len(imports) + 1
    BY <1>12, Appended DEF RelocInv, RelocTypes
<1>17. SlotsInv'
  <2>1. ASSUME NEW i \in 1 .. Len(slots')
        PROVE  \E j \in 1 .. Len(rela') : /\ rela'[j].offset = Slot(i) + 8 /\ rela'[j].type # "RELATIVE"
                                          /\ rela'[j].name = slots'[i] /\ rela'[j].addend = 0
    <3>1. CASE i \in 1 .. Len(slots)
      <4>1. PICK j \in 1 .. Len(rela) : /\ rela[j].offset = Slot(i) + 8 /\ rela[j].type # "RELATIVE"
                                        /\ rela[j].name = slots[i] /\ rela[j].addend = 0
          BY <3>1 DEF RelocInv, SlotsInv
      <4> QED BY <1>14, <1>15, <3>1, <4>1 DEF Grows
    <3>2. CASE i = n + 1
        BY <1>6, <1>8, <1>14, <1>15, <3>2
    <3> QED BY <1>15, <3>1, <3>2
  <2>2. ASSUME NEW j \in 1 .. Len(imports')
        PROVE  \E i \in 1 .. Len(slots') : slots'[i] = imports'[j].name /\ imports'[j].r = Slot(i)
    <3>1. CASE j \in 1 .. Len(imports)
      <4>1. PICK i \in 1 .. Len(slots) : slots[i] = imports[j].name /\ imports[j].r = Slot(i)
          BY <3>1 DEF RelocInv, SlotsInv
      <4> QED BY <1>15, <1>16, <3>1, <4>1 DEF Grows
    <3>2. CASE j = Len(imports) + 1
        BY <1>6, <1>11, <1>15, <1>16, <3>2
    <3> QED BY <1>16, <3>1, <3>2
  <2> QED BY <2>1, <2>2 DEF SlotsInv, Slot
<1>18. EntriesInv'
  <2>1. \A a : OfWord(a) => OfWord(a)'
    <3> SUFFICES ASSUME NEW a, OfWord(a) PROVE OfWord(a)'
        OBVIOUS
    <3>1. \A m \in 1 .. Len(relocs) : Processed(m) => Processed(m)'
        BY <1>1 DEF Processed, RelocInv, InputsInv
    <3> QED BY <1>1, <3>1, InputsSame DEF OfWord
  <2>2. \A a : OfSlot(a) => OfSlot(a)'
      BY <1>15 DEF OfSlot, Slot, Grows
  <2>3. OfSlot(stub + 8)'
      BY <1>6, <1>15 DEF OfSlot, Slot
  <2>4. ASSUME NEW i \in 1 .. Len(rela'), NEW a, rela'[i].offset = a PROVE OfSlot(a)' \/ OfWord(a)'
    <3>1. CASE i \in 1 .. Len(rela)
        BY <1>14, <2>1, <2>2, <2>4, <3>1 DEF Grows, RelocInv, EntriesInv
    <3>2. CASE i = Len(rela) + 1
        BY <1>8, <1>14, <2>3, <2>4, <3>2
    <3> QED BY <1>14, <3>1, <3>2
  <2> QED BY <2>4 DEF EntriesInv
<1>19. ASSUME StraysApart, NEW i \in 1 .. Len(rela), rela[i].offset = stub + 8 PROVE FALSE
  <2>1. CASE OfSlot(stub + 8)
    <3>1. PICK l \in 1 .. Len(slots) : stub + 8 = Slot(l) + 8
        BY <2>1 DEF OfSlot
    <3>2. l \in Nat /\ l # n + 1 /\ stub + 8 = (PltGot + 16 * (l - 1)) + 8
        BY <1>2, <3>1 DEF Slot
    <3> QED BY <1>3, <1>4, <3>2
  <2>2. CASE OfWord(stub + 8)
    <3>1. stub + 8 < PltGot
        BY <1>19, <2>2, WordsBelow
    <3> QED BY <1>3, <1>4, <3>1
  <2> QED BY <1>19, <2>1, <2>2 DEF RelocInv, EntriesInv
<1>20. OnceInv'
  <2> SUFFICES ASSUME StraysApart, NEW i \in 1 .. Len(rela'), NEW j \in 1 .. Len(rela'), NEW a,
                      rela'[i].offset = a, rela'[j].offset = a, Own(a)'
               PROVE  i = j
      BY <1>1, StraysSame DEF OnceInv
  <2>1. Own(a)
      BY <1>1, OwnSame
  <2>2. CASE i \in 1 .. Len(rela) /\ j \in 1 .. Len(rela)
      BY <1>14, <2>1, <2>2 DEF Grows, RelocInv, OnceInv
  <2>3. CASE i \in 1 .. Len(rela) /\ j = Len(rela) + 1
      BY <1>8, <1>14, <1>19, <2>3 DEF Grows
  <2>4. CASE j \in 1 .. Len(rela) /\ i = Len(rela) + 1
      BY <1>8, <1>14, <1>19, <2>4 DEF Grows
  <2> QED BY <1>14, <2>2, <2>3, <2>4
<1>21. InputsInv' /\ RelocTypes' /\ LoadInv'
    BY <1>1, <1>14, <1>15, <1>16, InputsKept DEF RelocInv, RelocTypes, LoadInv, Loaded
<1>22. \E i \in 1 .. Len(slots') : slots'[i] = name /\ Slot(i) = NextStub
    BY <1>4, <1>6, <1>15
<1> QED BY <1>14, <1>15, <1>17, <1>18, <1>20, <1>21, <1>22

LEMMA StepResolve64 == RelocInv /\ Resolve64 => RelocInv'
<1> SUFFICES ASSUME RelocInv, Resolve64 PROVE RelocInv'
    OBVIOUS
<1>1. /\ UNCHANGED inputs /\ relocs' = relocs /\ phase = "link" /\ phase' = "link" /\ at \in Nat /\ at' = at + 1
      /\ UNCHANGED <<base, mem, word, slots, imports>> /\ Linking /\ Done
    BY DEF Resolve64, InPlace, Done, Linking, inputs, RelocInv, RelocTypes
<1>2. PICK x : x = X
    OBVIOUS
<1>3. /\ at + 1 \in 1 .. Len(relocs) /\ x = relocs[at + 1] /\ Sound(x)
      /\ SrcAddr(x) \in Nat /\ SymOf(x).name \in STRING
      /\ (Dynamic <=> Imported(x)) /\ DstAddr = Dst(x) /\ SymOf(x).type # "other" /\ ~ InArray(x)
      /\ Dst(x) \in Nat /\ x.r.type = "64"
    BY <1>1, <1>2, CurrentIs DEF Resolve64, RelocInv
<1>4. PICK e : e = IF Imported(x) THEN Rela(SrcAddr(x), "GLOB_DAT", SymOf(x).name, 0)
                   ELSE Rela(SrcAddr(x), "RELATIVE", "", Dst(x))
    OBVIOUS
<1>5. /\ e \in RelaRecords /\ e.offset = SrcAddr(x)
      /\ IF Imported(x) THEN e.type # "RELATIVE" /\ e.name = SymOf(x).name /\ e.addend = 0
         ELSE e.type = "RELATIVE" /\ e.addend = Dst(x)
  <2>1. CASE Imported(x)
      BY <1>3, <1>4, <2>1 DEF Rela, RelaRecords, RelaTypes
  <2>2. CASE ~ Imported(x)
    <3>1. e = Rela(SrcAddr(x), "RELATIVE", "", Dst(x))
        BY <1>4, <2>2
    <3>2. "" \in STRING \cup {""} /\ "RELATIVE" \in RelaTypes
        BY DEF RelaTypes
    <3> QED BY <1>3, <2>2, <3>1, <3>2 DEF Rela, RelaRecords
  <2> QED BY <2>1, <2>2
<1>6. rela' = Append(rela, e)
    BY <1>2, <1>3, <1>4 DEF Resolve64
<1>7. /\ rela' \in Seq(RelaRecords) /\ Grows(rela, rela')
      /\ Len(rela) + 1 \in 1 .. Len(rela') /\ rela'[Len(rela) + 1] = e
      /\ \A i \in 1 .. Len(rela') : i \in 1 .. Len(rela) \/ i = Len(rela) + 1
    BY <1>5, <1>6, Appended DEF RelocInv, RelocTypes
<1>8. SlotsInv'
  <2>1. ASSUME NEW n \in 1 .. Len(slots)
        PROVE  \E i \in 1 .. Len(rela') : /\ rela'[i].offset = Slot(n) + 8 /\ rela'[i].type # "RELATIVE"
                                          /\ rela'[i].name = slots[n] /\ rela'[i].addend = 0
    <3>1. PICK i \in 1 .. Len(rela) : /\ rela[i].offset = Slot(n) + 8 /\ rela[i].type # "RELATIVE"
                                      /\ rela[i].name = slots[n] /\ rela[i].addend = 0
        BY DEF RelocInv, SlotsInv
    <3> QED BY <1>7, <3>1 DEF Grows
  <2> QED BY <1>1, <2>1 DEF RelocInv, SlotsInv, Slot
<1>9. EntriesInv'
  <2>1. \A m \in 1 .. Len(relocs) : m <= at + 1 => Processed(m)'
      BY <1>1 DEF Processed
  <2>2. \A a : OfWord(a) => OfWord(a)'
    <3> SUFFICES ASSUME NEW a, OfWord(a) PROVE OfWord(a)'
        OBVIOUS
    <3>1. \A m \in 1 .. Len(relocs) : Processed(m) => Processed(m)'
        BY <1>1 DEF Processed, RelocInv, InputsInv
    <3> QED BY <1>1, <3>1, InputsSame DEF OfWord
  <2>3. ASSUME NEW a, a = SrcAddr(x) PROVE OfWord(a)'
      BY <1>1, <1>3, <2>1, <2>3, InputsSame DEF OfWord
  <2>4. ASSUME NEW i \in 1 .. Len(rela'), NEW a, rela'[i].offset = a PROVE OfSlot(a)' \/ OfWord(a)'
    <3>1. OfSlot(a) => OfSlot(a)'
        BY <1>1 DEF OfSlot, Slot
    <3>2. CASE i \in 1 .. Len(rela)
        BY <1>7, <2>2, <2>4, <3>1, <3>2 DEF Grows, RelocInv, EntriesInv
    <3>3. CASE i = Len(rela) + 1
        BY <1>5, <1>7, <2>3, <2>4, <3>3
    <3> QED BY <1>7, <3>2, <3>3
  <2> QED BY <2>4 DEF EntriesInv
<1>10. ASSUME StraysApart, NEW i \in 1 .. Len(rela), rela[i].offset = SrcAddr(x), Own(SrcAddr(x)) PROVE FALSE
  <2>1. PltGot \in Nat
      BY AddressAssumption
  <2>2. SrcAddr(x) < PltGot
    <3>1. CASE Linked(x)
        BY <1>3, <3>1 DEF Sound
    <3>2. CASE ~ Linked(x)
      <4>1. x \in Range(relocs)
          BY <1>3 DEF Range, RelocInv, InputsInv
      <4>2. Stray(x)
          BY <1>3, <3>2 DEF Stray, Linked, InArray, IsName, Imported, Kind
      <4> QED BY <1>10, <4>1, <4>2 DEF StraysApart
    <3> QED BY <3>1, <3>2
  <2>3. PICK l \in 1 .. Len(relocs) : Linked(relocs[l]) /\ SrcAddr(relocs[l]) = SrcAddr(x)
      BY <1>3, <1>10, <2>1, <2>2 DEF Own
  <2>4. \A z \in Range(relocs) : Stray(z) => SrcAddr(z) # SrcAddr(x)
    <3>1. PICK y \in Range(relocs) : y = relocs[l]
        BY DEF Range, RelocInv, InputsInv
    <3> QED BY <1>10, <2>3, <3>1 DEF StraysApart, Linked
  <2>5. ASSUME NEW m \in 1 .. Len(relocs), SrcAddr(relocs[m]) = SrcAddr(x), relocs[m].r.type = "64",
               SymOf(relocs[m]).type # "other", ~ InArray(relocs[m])
        PROVE  m = l
    <3>1. PICK y \in Range(relocs) : y = relocs[m]
        BY DEF Range, RelocInv, InputsInv
    <3>2. Linked(y)
        BY <2>4, <2>5, <3>1 DEF Stray, Linked, InArray, IsName, Imported, Kind
    <3> QED BY <2>3, <2>5, <3>1, <3>2 DEF RelocInv, InputsInv
  <2>6. l = at + 1
      BY <1>3, <2>5
  <2>7. CASE OfSlot(SrcAddr(x))
    <3>1. PICK n \in 1 .. Len(slots) : SrcAddr(x) = Slot(n) + 8
        BY <2>7 DEF OfSlot
    <3>2. n \in Nat /\ n >= 1 /\ SrcAddr(x) = (PltGot + 16 * (n - 1)) + 8
        BY <3>1 DEF Slot
    <3> QED BY <1>3, <2>1, <2>2, <3>2
  <2>8. CASE OfWord(SrcAddr(x))
    <3>1. PICK m \in 1 .. Len(relocs) :
            /\ Processed(m) /\ relocs[m].r.type = "64" /\ SrcAddr(x) = SrcAddr(relocs[m])
            /\ SymOf(relocs[m]).type # "other" /\ ~ InArray(relocs[m])
        BY <2>8 DEF OfWord
    <3>2. m = at + 1
        BY <2>5, <2>6, <3>1
    <3> QED BY <1>1, <3>1, <3>2 DEF Processed
  <2> QED BY <1>10, <2>7, <2>8 DEF RelocInv, EntriesInv
<1>11. OnceInv'
  <2> SUFFICES ASSUME StraysApart, NEW i \in 1 .. Len(rela'), NEW j \in 1 .. Len(rela'), NEW a,
                      rela'[i].offset = a, rela'[j].offset = a, Own(a)'
               PROVE  i = j
      BY <1>1, StraysSame DEF OnceInv
  <2>1. Own(a)
      BY <1>1, OwnSame
  <2>2. CASE i \in 1 .. Len(rela) /\ j \in 1 .. Len(rela)
      BY <1>7, <2>1, <2>2 DEF Grows, RelocInv, OnceInv
  <2>3. CASE i \in 1 .. Len(rela) /\ j = Len(rela) + 1
      BY <1>5, <1>7, <1>10, <2>1, <2>3 DEF Grows
  <2>4. CASE j \in 1 .. Len(rela) /\ i = Len(rela) + 1
      BY <1>5, <1>7, <1>10, <2>1, <2>4 DEF Grows
  <2> QED BY <1>7, <2>2, <2>3, <2>4
<1>12. InputsInv' /\ RelocTypes' /\ LoadInv'
    BY <1>1, <1>7, InputsKept DEF RelocInv, RelocTypes, LoadInv, Loaded
<1>13. Answered64(x)'
    BY <1>1, <1>5, <1>7, InputsSame DEF Answered64
<1>14. Answered(x)'
    BY <1>3, <1>13 DEF Answered, Near
<1>15. Grows(slots, slots')
    BY <1>1 DEF Grows, RelocInv, RelocTypes
<1>16. ResolvedInv'
    BY <1>1, <1>2, <1>7, <1>14, <1>15, ResolvedKept
<1> QED BY <1>8, <1>9, <1>11, <1>12, <1>16 DEF RelocInv

LEMMA Filling ==
  ASSUME NEW a, NEW x, x = X, fill_address(a), UNCHANGED inputs
  PROVE  /\ Reaches(x, a)'
         /\ \A p \in DOMAIN word : p # Place(x) => p \in DOMAIN word' /\ word'[p] = word[p]
<1>1. word' = Put(word, Place(x), (a - SrcAddr(x)) + x.r.addend)
    BY DEF fill_address
<1>2. PICK p : p = Place(x)
    OBVIOUS
<1>3. PICK v : v = (a - SrcAddr(x)) + x.r.addend
    OBVIOUS
<1>4. /\ p \in DOMAIN word' /\ word'[p] = v
      /\ \A b \in DOMAIN word : b # p => b \in DOMAIN word' /\ word'[b] = word[b]
    BY <1>1, <1>2, <1>3 DEF Put
<1> QED BY <1>2, <1>3, <1>4, InputsSame DEF Reaches

LEMMA StepResolveArray == RelocInv /\ ResolveArray => RelocInv'
<1> SUFFICES ASSUME RelocInv, ResolveArray PROVE RelocInv'
    OBVIOUS
<1>1. Linking /\ Done /\ UNCHANGED <<word, slots, imports, rela>> /\ at \in Nat
    BY DEF ResolveArray, RelocInv, RelocTypes
<1>2. PICK x : x = X
    OBVIOUS
<1>3. ~ Linked(x)
  <2>1. Sound(x)
      BY <1>1, <1>2, CurrentIs DEF RelocInv
  <2>2. Kind(x) \in Arrays
      BY <1>2 DEF ResolveArray, ArrayOf, Kind
  <2> QED BY <2>1, <2>2 DEF Sound
<1>4. Grows(rela, rela') /\ Grows(slots, slots')
    BY <1>1 DEF Grows
<1>5. ResolvedInv'
    BY <1>1, <1>2, <1>3, <1>4, ResolvedKept
<1> QED BY <1>1, <1>5, EntriesKept DEF RelocInv

LEMMA StepResolveSkipped == RelocInv /\ ResolveSkipped => RelocInv'
<1> SUFFICES ASSUME RelocInv, ResolveSkipped PROVE RelocInv'
    OBVIOUS
<1>1. Linking /\ Done /\ UNCHANGED <<word, slots, imports, rela>> /\ at \in Nat
    BY DEF ResolveSkipped, linkVars, RelocInv, RelocTypes
<1>2. PICK x : x = X /\ SymOf(x).type = "other"
    BY DEF ResolveSkipped
<1>3. Grows(rela, rela') /\ Grows(slots, slots')
    BY <1>1 DEF Grows
<1>4. ResolvedInv'
    BY <1>1, <1>2, <1>3, ResolvedKept
<1> QED BY <1>1, <1>4, EntriesKept DEF RelocInv

LEMMA StepResolveNear == RelocInv /\ ResolveNear => RelocInv'
<1> SUFFICES ASSUME RelocInv, ResolveNear PROVE RelocInv'
    OBVIOUS
<1>1. /\ Linking /\ Done /\ UNCHANGED <<slots, imports, rela>> /\ UNCHANGED inputs /\ at \in Nat
      /\ fill_address(DstAddr)
    BY DEF ResolveNear, InPlace, Done, inputs, RelocInv, RelocTypes
<1>2. PICK x : x = X /\ x.r.type \in Near
    BY DEF ResolveNear
<1>3. DstAddr = Dst(x) /\ ~ Imported(x)
    BY <1>1, <1>2, CurrentIs DEF RelocInv, ResolveNear
<1>4. PICK a : a = DstAddr
    OBVIOUS
<1>5. /\ Reaches(x, a)'
      /\ \A p \in DOMAIN word : p # Place(x) => p \in DOMAIN word' /\ word'[p] = word[p]
    BY <1>1, <1>2, <1>4, Filling
<1>6. Answered(x)'
  <2>1. Dst(x)' = a /\ ~ Imported(x)'
      BY <1>1, <1>3, <1>4, InputsSame
  <2>2. Reaches(x, Dst(x))'
      BY <1>5, <2>1 DEF Reaches
  <2>3. x.r.type # "64" /\ x.r.type # "GOTPCRELX"
      BY <1>2 DEF Near
  <2> QED BY <2>1, <2>2, <2>3 DEF Answered
<1>7. Grows(rela, rela') /\ Grows(slots, slots')
    BY <1>1 DEF Grows
<1>8. ResolvedInv'
    BY <1>1, <1>2, <1>5, <1>6, <1>7, ResolvedKept
<1> QED BY <1>1, <1>8, EntriesKept DEF RelocInv

LEMMA StepResolveNearImport == RelocInv /\ ResolveNearImport => RelocInv'
<1> SUFFICES ASSUME RelocInv, ResolveNearImport PROVE RelocInv'
    OBVIOUS
<1>1. Linking /\ Done /\ UNCHANGED inputs /\ at \in Nat
    BY DEF ResolveNearImport, InPlace, Done, inputs, RelocInv, RelocTypes
<1>2. PICK x : x = X /\ x.r.type \in Near
    BY DEF ResolveNearImport
<1>3. Imported(x) /\ SymOf(x).name \in STRING
    BY <1>1, <1>2, CurrentIs DEF RelocInv, ResolveNearImport
<1>4. PICK nm \in STRING : nm = SymOf(x).name
    BY <1>3
<1>5. ASSUME NEW a, NEW n \in 1 .. Len(slots'), Reaches(x, a)', slots'[n] = nm, Slot(n) = a
      PROVE  Answered(x)'
  <2>1. Imported(x)' /\ SymOf(x)'.name = nm
      BY <1>1, <1>3, <1>4, InputsSame
  <2>2. Slot(n)' + 0 = a
      BY <1>5, AddressAssumption DEF Slot
  <2>3. ReachesSlot(x, 0)'
      BY <1>5, <2>1, <2>2 DEF ReachesSlot, Reaches
  <2>4. x.r.type # "64" /\ x.r.type # "GOTPCRELX"
      BY <1>2 DEF Near
  <2> QED BY <2>1, <2>3, <2>4 DEF Answered
<1>6. CASE ImportOf(nm) = 0
  <2>1. fill_address(NextStub) /\ NewSlot(nm, "JUMP_SLOT")
      BY <1>2, <1>4, <1>6 DEF ResolveNearImport
  <2>2. PICK a : a = NextStub
      OBVIOUS
  <2>3. /\ Reaches(x, a)'
        /\ \A p \in DOMAIN word : p # Place(x) => p \in DOMAIN word' /\ word'[p] = word[p]
      BY <1>1, <1>2, <2>1, <2>2, Filling
  <2>4. /\ InputsInv' /\ RelocTypes' /\ SlotsInv' /\ EntriesInv' /\ OnceInv' /\ LoadInv'
        /\ Grows(rela, rela') /\ Grows(slots, slots')
        /\ \E n \in 1 .. Len(slots') : slots'[n] = nm /\ Slot(n) = NextStub
      BY <1>1, <2>1, SlotAdded
  <2>5. Answered(x)'
      BY <1>5, <2>2, <2>3, <2>4
  <2>6. ResolvedInv'
      BY <1>1, <1>2, <2>3, <2>4, <2>5, ResolvedKept
  <2> QED BY <2>4, <2>6 DEF RelocInv
<1>7. CASE ImportOf(nm) # 0
  <2>1. fill_address(imports[ImportOf(nm)].r) /\ UNCHANGED <<slots, imports, rela>>
      BY <1>2, <1>4, <1>7 DEF ResolveNearImport
  <2>2. PICK a : a = imports[ImportOf(nm)].r
      OBVIOUS
  <2>3. /\ Reaches(x, a)'
        /\ \A p \in DOMAIN word : p # Place(x) => p \in DOMAIN word' /\ word'[p] = word[p]
      BY <1>1, <1>2, <2>1, <2>2, Filling
  <2>4. PICK n \in 1 .. Len(slots) : slots[n] = nm /\ a = Slot(n)
    <3>1. ImportOf(nm) \in 1 .. Len(imports) /\ imports[ImportOf(nm)].name = nm
        BY <1>7, ImportFound DEF RelocInv, RelocTypes
    <3> QED BY <2>2, <3>1 DEF RelocInv, SlotsInv
  <2>5. Answered(x)'
      BY <1>5, <2>1, <2>3, <2>4
  <2>6. Grows(rela, rela') /\ Grows(slots, slots')
      BY <2>1 DEF Grows
  <2>7. ResolvedInv'
      BY <1>1, <1>2, <2>3, <2>5, <2>6, ResolvedKept
  <2> QED BY <1>1, <2>1, <2>7, EntriesKept DEF RelocInv
<1> QED BY <1>6, <1>7

LEMMA StepResolveGot == RelocInv /\ ResolveGot => RelocInv'
<1> SUFFICES ASSUME RelocInv, ResolveGot PROVE RelocInv'
    OBVIOUS
<1>1. Linking /\ Done /\ UNCHANGED inputs /\ at \in Nat
    BY DEF ResolveGot, InPlace, Done, inputs, RelocInv, RelocTypes
<1>2. PICK x : x = X /\ x.r.type = "GOTPCRELX"
    BY DEF ResolveGot
<1>3. SymOf(x).name \in STRING
    BY <1>1, <1>2, CurrentIs DEF RelocInv
<1>4. PICK nm \in STRING : nm = SymOf(x).name
    BY <1>3
<1>5. fill_address(NextStub + 8) /\ NewSlot(nm, "GLOB_DAT")
    BY <1>2, <1>4 DEF ResolveGot
<1>6. PICK a : a = NextStub + 8
    OBVIOUS
<1>7. /\ Reaches(x, a)'
      /\ \A p \in DOMAIN word : p # Place(x) => p \in DOMAIN word' /\ word'[p] = word[p]
    BY <1>1, <1>2, <1>5, <1>6, Filling
<1>8. /\ InputsInv' /\ RelocTypes' /\ SlotsInv' /\ EntriesInv' /\ OnceInv' /\ LoadInv'
      /\ Grows(rela, rela') /\ Grows(slots, slots')
      /\ \E n \in 1 .. Len(slots') : slots'[n] = nm /\ Slot(n) = NextStub
    BY <1>1, <1>5, SlotAdded
<1>9. Answered(x)'
  <2>1. PICK n \in 1 .. Len(slots') : slots'[n] = nm /\ Slot(n) = NextStub
      BY <1>8
  <2>2. SymOf(x)'.name = nm /\ Slot(n)' + 8 = a
      BY <1>1, <1>4, <1>6, <2>1, InputsSame DEF Slot
  <2>3. ReachesSlot(x, 8)'
      BY <1>7, <2>1, <2>2 DEF ReachesSlot, Reaches
  <2> QED BY <1>2, <2>3 DEF Answered, Near
<1>10. ResolvedInv'
    BY <1>1, <1>2, <1>7, <1>8, <1>9, ResolvedKept
<1> QED BY <1>8, <1>10 DEF RelocInv

\* Steps that leave everything of the link as it is.
LEMMA LinkKept ==
  ASSUME RelocInv, UNCHANGED <<inputs, linkVars>>, \A m \in 1 .. Len(relocs) : Processed(m)' <=> Processed(m),
         phase' \in {"link", "spin", "load", "running"}, at' \in Nat
  PROVE  InputsInv' /\ RelocTypes' /\ SlotsInv' /\ EntriesInv' /\ OnceInv' /\ ResolvedInv'
<1>1. UNCHANGED <<inputs, relocs, word, slots, imports, rela>>
    BY DEF inputs, linkVars
<1>2. InputsInv' /\ RelocTypes' /\ SlotsInv'
  <2>1. InputsInv'
      BY <1>1, InputsKept DEF RelocInv
  <2>2. RelocTypes'
      BY <1>1 DEF RelocInv, RelocTypes
  <2>3. SlotsInv'
      BY <1>1 DEF RelocInv, SlotsInv, Slot
  <2> QED BY <2>1, <2>2, <2>3
<1>3. EntriesInv'
  <2>1. \A a : OfWord(a) => OfWord(a)'
      BY <1>1, InputsSame DEF OfWord
  <2>2. \A a : OfSlot(a) => OfSlot(a)'
      BY <1>1 DEF OfSlot, Slot
  <2> QED BY <1>1, <2>1, <2>2 DEF RelocInv, EntriesInv
<1>4. OnceInv'
    BY <1>1, OwnSame, StraysSame DEF RelocInv, OnceInv
<1>5. Grows(rela, rela') /\ Grows(slots, slots')
    BY <1>1 DEF Grows
<1>6. ASSUME NEW m \in 1 .. Len(relocs), Processed(m), Linked(relocs[m]), SymOf(relocs[m]).type # "other"
      PROVE  Answered(relocs[m])'
  <2>1. PICK y : y = relocs[m]
      OBVIOUS
  <2>2. Answered(y)
      BY <1>6, <2>1 DEF RelocInv, ResolvedInv
  <2>3. Answered(y)'
      BY <1>1, <1>5, <2>2, AnsweredKept
  <2> QED BY <1>1, <2>1, <2>3
<1>7. ResolvedInv'
    BY <1>1, <1>6, InputsSame DEF ResolvedInv
<1> QED BY <1>2, <1>3, <1>4, <1>7

LEMMA StepResolveSpins == RelocInv /\ ResolveSpins => RelocInv'
<1> SUFFICES ASSUME RelocInv, ResolveSpins PROVE RelocInv'
    OBVIOUS
<1>1. /\ UNCHANGED <<inputs, at, linkVars, base, mem>> /\ phase = "link" /\ phase' = "spin" /\ at \in Nat
    BY DEF ResolveSpins, InPlace, Linking, RelocInv, RelocTypes
<1>2. \A m \in 1 .. Len(relocs) : Processed(m)' <=> Processed(m)
    BY <1>1 DEF Processed
<1>3. LoadInv'
    BY <1>1 DEF RelocInv, LoadInv, Loaded
<1> QED BY <1>1, <1>2, <1>3, LinkKept DEF RelocInv

----------------------------------------------------------------------------
(* The loader                                                              *)

LEMMA StepLoad == RelocInv /\ Load => RelocInv'
<1> SUFFICES ASSUME RelocInv, Load PROVE RelocInv'
    OBVIOUS
<1>1. /\ UNCHANGED <<inputs, linkVars, mem>> /\ phase = "link" /\ phase' = "load"
      /\ at = Len(relocs) /\ at' = 0 /\ base' \in Nat
    BY AddressAssumption DEF Load
<1>2. \A m \in 1 .. Len(relocs) : Processed(m)' <=> Processed(m)
    BY <1>1 DEF Processed, RelocInv, InputsInv
<1>3. LoadInv'
  <2>1. rela' = rela /\ Len(rela) \in Nat
      BY <1>1 DEF linkVars, RelocInv, RelocTypes
  <2>2. \A i \in 1 .. Len(rela) : ~ Loaded(i)'
      BY <1>1, <2>1 DEF Loaded
  <2> QED BY <1>1, <2>1, <2>2 DEF LoadInv
<1> QED BY <1>1, <1>2, <1>3, LinkKept DEF RelocInv

LEMMA DefinitionsSame ==
  ASSUME UNCHANGED inputs, base' = base, NEW nm PROVE Definitions(nm)' = Definitions(nm)
<1>1. UNCHANGED <<world, exports>>
    BY DEF inputs
<1>2. find_sym2(nm)' = find_sym2(nm)
    BY <1>1 DEF find_sym2, SelectInSeq
<1>3. ExportedAt(nm)' = ExportedAt(nm)
    BY <1>1, <1>2 DEF ExportedAt
<1> QED BY <1>1, <1>2, <1>3 DEF Definitions

LEMMA WrittenKept ==
  ASSUME UNCHANGED inputs, base' = base, NEW e, Written(e),
         Own(e.offset) => Cell(base + e.offset)' = Cell(base + e.offset)
  PROVE  Written(e)'
<1>1. Own(e.offset)' = Own(e.offset)
    BY OwnSame
<1> QED BY <1>1, DefinitionsSame DEF Written

LEMMA OffsetIs == ASSUME NEW e \in RelaRecords PROVE e.offset \in Nat
  BY DEF RelaRecords

LEMMA StepDoRelocs == RelocInv /\ do_relocs => RelocInv'
<1> SUFFICES ASSUME RelocInv, do_relocs PROVE RelocInv'
    OBVIOUS
<1>1. /\ UNCHANGED <<inputs, linkVars>> /\ rela' = rela /\ base' = base /\ base \in Nat
      /\ phase = "load" /\ phase' = "load"
      /\ at \in Nat /\ at' = at + 1 /\ at + 1 \in 1 .. Len(rela)
    BY DEF do_relocs, linkVars, RelocInv, RelocTypes, LoadInv
<1>2. \A m \in 1 .. Len(relocs) : Processed(m)' <=> Processed(m)
    BY <1>1 DEF Processed
<1>3. PICK e \in RelaRecords : e = rela[at + 1]
    BY <1>1 DEF RelocInv, RelocTypes
<1>4. PICK c \in Nat : c = base + e.offset
  <2>1. e.offset \in Nat
      BY OffsetIs
  <2>2. base + e.offset \in Nat
      BY <1>1, <2>1
  <2> QED BY <2>2
<1>5. ASSUME NEW b, b # c PROVE Cell(b)' = Cell(b)
    BY <1>3, <1>4, <1>5 DEF do_relocs, Put, Cell
<1>6. Written(e)'
  <2>1. CASE e.type = "RELATIVE"
    <3>1. mem' = Put(mem, c, base + e.addend)
        BY <1>3, <1>4, <2>1 DEF do_relocs
    <3>2. Cell(c)' = base + e.addend
        BY <3>1 DEF Cell, Put
    <3> QED BY <1>1, <1>4, <2>1, <3>2 DEF Written
  <2>2. CASE e.type # "RELATIVE" /\ Definitions(e.name) = {}
    <3>1. Definitions(e.name)' = {}
        BY <1>1, <2>2, DefinitionsSame
    <3> QED BY <2>2, <3>1 DEF Written
  <2>3. CASE e.type # "RELATIVE" /\ Definitions(e.name) # {}
    <3>1. PICK d \in Definitions(e.name) : mem' = Put(mem, c, d + e.addend)
        BY <1>3, <1>4, <2>3 DEF do_relocs
    <3>2. Cell(c)' = d + e.addend
        BY <3>1 DEF Cell, Put
    <3>3. d \in Definitions(e.name)'
        BY <1>1, DefinitionsSame
    <3> QED BY <1>1, <1>4, <2>3, <3>2, <3>3 DEF Written
  <2> QED BY <2>1, <2>2, <2>3
<1>7. ASSUME StraysApart, NEW i \in 1 .. Len(rela), Loaded(i)', NEW f, f = rela[i] PROVE Written(f)'
  <2>1. i <= at + 1
      BY <1>1, <1>7 DEF Loaded
  <2>2. CASE i = at + 1
      BY <1>3, <1>6, <1>7, <2>2
  <2>3. CASE i <= at
    <3>1. Written(f)
        BY <1>1, <1>7, <2>3 DEF RelocInv, LoadInv, Loaded
    <3>2. ASSUME Own(f.offset) PROVE Cell(base + f.offset)' = Cell(base + f.offset)
      <4>1. f.offset # e.offset
          BY <1>1, <1>3, <1>7, <2>3, <3>2 DEF RelocInv, OnceInv
      <4>2. f.offset \in Nat /\ e.offset \in Nat
        <5>1. rela[i] \in RelaRecords
            BY DEF RelocInv, RelocTypes
        <5> QED BY <1>7, <5>1, OffsetIs
      <4>3. PICK b : b = base + f.offset
          OBVIOUS
      <4>4. b # c
          BY <1>1, <1>4, <4>1, <4>2, <4>3
      <4>5. Cell(b)' = Cell(b)
          BY <1>5, <4>4
      <4> QED BY <1>1, <4>3, <4>5
    <3> QED BY <1>1, <3>1, <3>2, WrittenKept
  <2> QED BY <1>1, <2>1, <2>2, <2>3
<1>8. LoadInv'
    BY <1>1, <1>7, StraysSame DEF LoadInv
<1> QED BY <1>1, <1>2, <1>8, LinkKept DEF RelocInv

LEMMA StepRelocEnds == RelocInv /\ reloc_ends => RelocInv'
<1> SUFFICES ASSUME RelocInv, reloc_ends PROVE RelocInv'
    OBVIOUS
<1>1. /\ UNCHANGED <<inputs, linkVars, base, mem>> /\ rela' = rela
      /\ phase = "load" /\ phase' = "running" /\ at = Len(rela) /\ at' = at /\ at \in Nat
    BY DEF reloc_ends, linkVars, RelocInv, RelocTypes
<1>2. \A m \in 1 .. Len(relocs) : Processed(m)' <=> Processed(m)
    BY <1>1 DEF Processed
<1>3. ASSUME StraysApart, NEW i \in 1 .. Len(rela), NEW e, e = rela[i] PROVE Written(e)'
  <2>1. Written(e)
      BY <1>1, <1>3 DEF RelocInv, LoadInv, Loaded
  <2>2. \A b : Cell(b)' = Cell(b)
      BY <1>1 DEF Cell
  <2> QED BY <1>1, <2>1, <2>2, WrittenKept
<1>4. LoadInv'
    BY <1>1, <1>3, StraysSame DEF RelocInv, LoadInv
<1> QED BY <1>1, <1>2, <1>4, LinkKept DEF RelocInv

LEMMA StepStutters == RelocInv /\ UNCHANGED vars => RelocInv'
<1> SUFFICES ASSUME RelocInv, UNCHANGED vars PROVE RelocInv'
    OBVIOUS
<1>1. UNCHANGED <<inputs, phase, at, linkVars, base, mem>> /\ rela' = rela
    BY DEF vars, linkVars
<1>2. \A m \in 1 .. Len(relocs) : Processed(m)' <=> Processed(m)
    BY <1>1 DEF Processed
<1>3. ASSUME StraysApart, NEW i \in 1 .. Len(rela), Loaded(i), NEW e, e = rela[i] PROVE Written(e)'
  <2>1. Written(e)
      BY <1>1, <1>3 DEF RelocInv, LoadInv
  <2>2. \A b : Cell(b)' = Cell(b)
      BY <1>1 DEF Cell
  <2> QED BY <1>1, <2>1, <2>2, WrittenKept
<1>4. LoadInv'
    BY <1>1, <1>3, StraysSame DEF RelocInv, LoadInv, Loaded
<1>5. phase' \in {"link", "spin", "load", "running"} /\ at' \in Nat
    BY <1>1 DEF RelocInv, RelocTypes
<1> QED BY <1>1, <1>2, <1>4, <1>5, LinkKept DEF RelocInv

LEMMA InitReloc == Init => RelocInv
<1> SUFFICES ASSUME Init PROVE RelocInv
    OBVIOUS
<1>1. /\ phase = "link" /\ at = 0 /\ slots = <<>> /\ imports = <<>> /\ rela = <<>> /\ base = 0
    BY DEF Init
<1>2. RelocTypes
    BY <1>1 DEF RelocTypes
<1>3. SlotsInv /\ EntriesInv /\ OnceInv
    BY <1>1 DEF SlotsInv, EntriesInv, OnceInv
<1>4. InputsInv
    BY InitInputs
<1>5. ResolvedInv
    BY <1>1, <1>4 DEF ResolvedInv, Processed, InputsInv
<1>6. LoadInv
    BY <1>1 DEF LoadInv
<1> QED BY <1>2, <1>3, <1>4, <1>5, <1>6 DEF RelocInv

\* What the link and the loader have done of the relocations is right after each
\* step: resolve_new, add_dynamic_entry and do_relocs.
THEOREM RelocInvIsInvariant == Spec => []RelocInv
<1>1. RelocInv /\ [Next]_vars => RelocInv'
    BY StepResolveArray, StepResolveSkipped, StepResolve64, StepResolveNear, StepResolveNearImport,
       StepResolveGot, StepResolveSpins, StepLoad, StepDoRelocs, StepRelocEnds, StepStutters
       DEF Next, resolve_new
<1> QED BY <1>1, InitReloc, PTL DEF Spec

----------------------------------------------------------------------------
(* What a reference arrives at                                             *)

LEMMA DefinitionsAre ==
  ASSUME RelocInv, NEW nm
  PROVE  /\ Definitions(nm) \subseteq Nat
         /\ find_sym2(nm) # 0 => base + ExportedAt(nm) \in Definitions(nm)
<1>1. base \in Nat /\ ExportedAt(nm) \in Nat
    BY FoundIn DEF RelocInv, LoadInv
<1>2. nm \in DOMAIN world.library => world.library[nm] \in Nat
    BY DEF RelocInv, InputsInv
<1>3. base + ExportedAt(nm) \in Nat
    BY <1>1
<1> QED BY <1>2, <1>3 DEF Definitions

\* A name that is meant by a reference is defined.
LEMMA MeantIsDefined ==
  ASSUME RelocInv, NEW m \in 1 .. Len(relocs), NEW x, x = relocs[m], IsName(x), Meant(x) # {}
  PROVE  Definitions(SymOf(x).name) # {} /\ Definitions(SymOf(x).name) \subseteq Meant(x)
<1>1. PICK nm : nm = SymOf(x).name
    OBVIOUS
<1>2. Definitions(nm) \subseteq Meant(x)
    BY <1>1 DEF Meant, IsName
<1>3. CASE find_sym2(nm) # 0
    BY <1>1, <1>2, <1>3, DefinitionsAre
<1>4. CASE find_sym2(nm) = 0
  <2>1. \A j \in 1 .. Len(exports) : exports[j].name # nm
      BY <1>4, FoundIn DEF RelocInv
  <2>2. SymOf(x).section = 0
    <3>1. Sound(x)
        BY DEF RelocInv, InputsInv
    <3> QED BY <1>1, <2>1, <3>1 DEF Sound
  <2>3. \A f \in Range(exports) : f.name # nm
    <3>1. exports \in Seq(ExportEntries)
        BY DEF RelocInv, InputsInv
    <3> QED BY <2>1, <3>1 DEF Range
  <2>4. {f \in Range(exports) : f.name = SymOf(x).name} = {}
      BY <1>1, <2>3
  <2>5. {base + e.value : e \in {f \in Range(exports) : f.name = SymOf(x).name}} = {}
      BY <2>4
  <2>6. Meant(x) = Definitions(nm)
      BY <1>1, <2>2, <2>5 DEF Meant, IsName
  <2> QED BY <1>1, <2>6
<1> QED BY <1>3, <1>4

\* What the linker takes for the address of a symbol is meant.
LEMMA DstIsMeant ==
  ASSUME RelocInv, NEW m \in 1 .. Len(relocs), NEW x, x = relocs[m], Plain(x), ~ Imported(x)
  PROVE  base + Dst(x) \in Meant(x) /\ Dst(x) \in Nat /\ Dst(x) < PltGot
<1>1. CASE IsName(x)
  <2>1. PICK nm : nm = SymOf(x).name
      OBVIOUS
  <2>2. Dst(x) = ExportedAt(nm) /\ ExportedAt(nm) # 0
      BY <1>1, <2>1 DEF Dst, Imported
  <2>3. ExportedAt(nm) \in Nat /\ ExportedAt(nm) < PltGot /\ find_sym2(nm) # 0
      BY <2>2, FoundIn DEF RelocInv
  <2>4. base + ExportedAt(nm) \in Definitions(nm)
      BY <2>3, DefinitionsAre
  <2>5. base + ExportedAt(nm) \in Meant(x)
      BY <1>1, <2>1, <2>4 DEF Meant, IsName
  <2> QED BY <2>2, <2>3, <2>5
<1>2. CASE ~ IsName(x)
  <2>1. SymOf(x).type = "section"
      BY <1>2 DEF Plain, IsName
  <2>2. Sound(x)
      BY DEF RelocInv, InputsInv
  <2>3. PICK a : a = SectionAt(x.obj, SymOf(x).section)
      OBVIOUS
  <2>4. Dst(x) = a /\ a \in Nat /\ a < PltGot /\ SymOf(x).section # 0 /\ SymOf(x).value = 0
      BY <1>2, <2>1, <2>2, <2>3 DEF Dst, Sound
  <2>5. base + a + SymOf(x).value = base + a
      BY <2>4 DEF RelocInv, LoadInv
  <2>6. base + a \in Meant(x)
      BY <2>3, <2>4, <2>5 DEF Meant
  <2> QED BY <2>4, <2>6
<1> QED BY <1>1, <1>2

\* A slot holds a definition of its name.
LEMMA SlotLeads ==
  ASSUME RelocInv, StraysApart, phase = "running", NEW n \in 1 .. Len(slots), NEW nm, slots[n] = nm, Definitions(nm) # {}
  PROVE  Cell((base + Slot(n)) + 8) \in Definitions(nm)
<1>1. PICK i \in 1 .. Len(rela) : /\ rela[i].offset = Slot(n) + 8 /\ rela[i].type # "RELATIVE"
                                  /\ rela[i].name = nm /\ rela[i].addend = 0
    BY DEF RelocInv, SlotsInv
<1>2. PICK e : e = rela[i]
    OBVIOUS
<1>3. PltGot \in Nat /\ base \in Nat /\ n \in Nat /\ n >= 1
    BY AddressAssumption DEF RelocInv, LoadInv
<1>4. Slot(n) \in Nat /\ Slot(n) >= PltGot
    BY <1>3 DEF Slot
<1>5. Own(e.offset)
  <2>1. e.offset >= PltGot
      BY <1>1, <1>2, <1>3, <1>4
  <2> QED BY <2>1 DEF Own
<1>6. Written(e)
    BY <1>2 DEF RelocInv, LoadInv, Loaded
<1>7. PICK d \in Definitions(nm) : Cell(base + e.offset) = d + e.addend
    BY <1>1, <1>2, <1>5, <1>6 DEF Written
<1>8. d + e.addend = d
    BY <1>1, <1>2, DefinitionsAre
<1>9. base + e.offset = (base + Slot(n)) + 8
  <2>1. PICK s \in Nat : s = Slot(n)
      BY <1>4
  <2>2. PICK b \in Nat : b = base
      BY <1>3
  <2>3. e.offset = s + 8
      BY <1>1, <1>2, <2>1
  <2>4. b + (s + 8) = (b + s) + 8
      OBVIOUS
  <2> QED BY <2>1, <2>2, <2>3, <2>4
<1> QED BY <1>7, <1>8, <1>9

LEMMA WordLeads ==
  ASSUME RelocInv, StraysApart, phase = "running", NEW m \in 1 .. Len(relocs), NEW x, x = relocs[m], Plain(x), Meant(x) # {},
         x.r.type = "64"
  PROVE  Cell(base + SrcAddr(x)) \in Meant(x)
<1>1. Linked(x) /\ SymOf(x).type # "other"
    BY DEF Plain, Linked
<1>2. Answered64(x)
    BY <1>1 DEF RelocInv, ResolvedInv, Processed, Answered
<1>3. PICK i \in 1 .. Len(rela) :
        /\ rela[i].offset = SrcAddr(x)
        /\ IF Imported(x)
             THEN rela[i].type # "RELATIVE" /\ rela[i].name = SymOf(x).name /\ rela[i].addend = 0
             ELSE rela[i].type = "RELATIVE" /\ rela[i].addend = Dst(x)
    BY <1>2 DEF Answered64
<1>4. PICK e : e = rela[i]
    OBVIOUS
<1>5. Own(e.offset)
    BY <1>1, <1>3, <1>4 DEF Own
<1>6. Written(e)
    BY <1>4 DEF RelocInv, LoadInv, Loaded
<1>7. CASE Imported(x)
  <2>1. IsName(x)
      BY <1>7 DEF Imported
  <2>2. PICK nm : nm = SymOf(x).name
      OBVIOUS
  <2>3. Definitions(nm) # {} /\ Definitions(nm) \subseteq Meant(x)
      BY <2>1, <2>2, MeantIsDefined
  <2>4. PICK d \in Definitions(nm) : Cell(base + e.offset) = d + e.addend
      BY <1>3, <1>4, <1>5, <1>6, <1>7, <2>2, <2>3 DEF Written
  <2>5. d + e.addend = d
      BY <1>3, <1>4, <1>7, DefinitionsAre
  <2> QED BY <1>3, <1>4, <2>3, <2>4, <2>5
<1>8. CASE ~ Imported(x)
  <2>1. Cell(base + e.offset) = base + Dst(x)
      BY <1>3, <1>4, <1>5, <1>6, <1>8 DEF Written
  <2> QED BY <1>3, <1>4, <1>8, <2>1, DstIsMeant
<1> QED BY <1>7, <1>8

LEMMA TargetIs ==
  ASSUME RelocInv, NEW m \in 1 .. Len(relocs), NEW x, x = relocs[m], NEW a \in Nat, Reaches(x, a)
  PROVE  Target(x) = base + a
<1>1. Sound(x) /\ base \in Nat
    BY DEF RelocInv, InputsInv, LoadInv
<1>2. PICK s \in Nat : s = SrcAddr(x)
    BY <1>1 DEF Sound
<1>3. PICK d \in Int : d = x.r.addend
    BY <1>1 DEF Sound
<1>4. word[Place(x)] = (a - s) + d
    BY <1>2, <1>3 DEF Reaches
<1>5. Target(x) = (base + s) + (((a - s) + d) - d)
    BY <1>1, <1>2, <1>3, <1>4 DEF Target
<1> QED BY <1>1, <1>5

LEMMA ReachedIsMeant ==
  ASSUME RelocInv, StraysApart, phase = "running", NEW m \in 1 .. Len(relocs), NEW x, x = relocs[m], Plain(x), Meant(x) # {}
  PROVE  Reached(x) \in Meant(x)
<1>1. Linked(x) /\ SymOf(x).type # "other"
    BY DEF Plain, Linked
<1>2. Answered(x)
    BY <1>1 DEF RelocInv, ResolvedInv, Processed
<1>3. PltGot \in Nat /\ base \in Nat
    BY AddressAssumption DEF RelocInv, LoadInv
<1>4. \A n \in 1 .. Len(slots) : n \in Nat /\ Slot(n) \in Nat /\ Slot(n) >= PltGot /\ Slot(n) + 0 = Slot(n)
    BY <1>3 DEF Slot
<1>5. Stubs = {base + Slot(n) : n \in 1 .. Len(slots)}
  <2>1. DOMAIN slots = 1 .. Len(slots)
      BY DEF RelocInv, RelocTypes
  <2>2. \A n \in 1 .. Len(slots) : base + PltGot + 16 * (n - 1) = base + Slot(n)
      BY <1>3 DEF Slot
  <2> QED BY <2>1, <2>2 DEF Stubs
<1>6. CASE x.r.type = "64"
    BY <1>6, WordLeads DEF Reached
<1>7. CASE x.r.type = "GOTPCRELX"
  <2>1. PICK n \in 1 .. Len(slots) : slots[n] = SymOf(x).name /\ Reaches(x, Slot(n) + 8)
      BY <1>2, <1>7 DEF Answered, ReachesSlot
  <2>2. IsName(x)
      BY <1>7 DEF Plain, IsName
  <2>3. PICK nm : nm = SymOf(x).name
      OBVIOUS
  <2>4. Definitions(nm) # {} /\ Definitions(nm) \subseteq Meant(x)
      BY <2>2, <2>3, MeantIsDefined
  <2>5. Cell((base + Slot(n)) + 8) \in Definitions(nm)
      BY <2>1, <2>3, <2>4, SlotLeads
  <2>6. Slot(n) + 8 \in Nat /\ base + (Slot(n) + 8) = (base + Slot(n)) + 8
      BY <1>3, <1>4
  <2>7. Target(x) = (base + Slot(n)) + 8
      BY <2>1, <2>6, TargetIs
  <2>8. Reached(x) = Cell(Target(x))
      BY <1>7 DEF Reached
  <2> QED BY <2>4, <2>5, <2>7, <2>8
<1>8. CASE x.r.type # "64" /\ x.r.type # "GOTPCRELX"
  <2>1. x.r.type \in Near /\ Reached(x) = Through(Target(x))
      BY <1>8 DEF Plain, Near, Reached
  <2>2. CASE Imported(x)
    <3>1. PICK n \in 1 .. Len(slots) : slots[n] = SymOf(x).name /\ Reaches(x, Slot(n) + 0)
        BY <1>2, <2>1, <2>2 DEF Answered, ReachesSlot
    <3>2. PICK nm : nm = SymOf(x).name
        OBVIOUS
    <3>3. Definitions(nm) # {} /\ Definitions(nm) \subseteq Meant(x)
        BY <2>2, <3>2, MeantIsDefined DEF Imported
    <3>4. Cell((base + Slot(n)) + 8) \in Definitions(nm)
        BY <3>1, <3>2, <3>3, SlotLeads
    <3>5. Slot(n) + 0 \in Nat /\ Slot(n) + 0 = Slot(n)
        BY <1>4
    <3>6. Target(x) = base + Slot(n)
        BY <3>1, <3>5, TargetIs
    <3>7. Through(base + Slot(n)) = Cell((base + Slot(n)) + 8)
        BY <1>5 DEF Through
    <3> QED BY <2>1, <3>3, <3>4, <3>6, <3>7
  <2>3. CASE ~ Imported(x)
    <3>1. Reaches(x, Dst(x))
        BY <1>2, <2>1, <2>3 DEF Answered
    <3>2. base + Dst(x) \in Meant(x) /\ Dst(x) \in Nat /\ Dst(x) < PltGot
        BY <2>3, DstIsMeant
    <3>3. Target(x) = base + Dst(x)
        BY <3>1, <3>2, TargetIs
    <3>4. base + Dst(x) \notin Stubs
      <4> SUFFICES ASSUME NEW n \in 1 .. Len(slots), base + Dst(x) = base + Slot(n) PROVE FALSE
          BY <1>5
      <4>1. Slot(n) \in Nat /\ Slot(n) >= PltGot
          BY <1>4
      <4> QED BY <1>3, <3>2, <4>1
    <3>5. Through(base + Dst(x)) = base + Dst(x)
        BY <3>4 DEF Through
    <3> QED BY <2>1, <3>2, <3>3, <3>5
  <2> QED BY <2>2, <2>3
<1> QED BY <1>6, <1>7, <1>8

\* A reference to a symbol that has one definition arrives there: near, through
\* the stub of an import, through a slot of its own or by a 64-bit word
\* (resolve_new, fill_address, add_dynamic_entry, do_relocs), for any number of
\* objects, wherever the program is mapped.
THEOREM ReferencesAreRight == Spec => []ReferencesReachTheirDefinition
<1>1. RelocInv => ReferencesReachTheirDefinition
  <2> SUFFICES ASSUME RelocInv, phase = "running", StraysApart, NEW x \in Range(relocs), Plain(x), Cardinality(Meant(x)) = 1
               PROVE  Reached(x) \in Meant(x)
      BY DEF ReferencesReachTheirDefinition
  <2>1. PICK m \in 1 .. Len(relocs) : x = relocs[m]
      BY DEF Range, RelocInv, InputsInv
  <2>2. Meant(x) # {}
      BY FS_EmptySet
  <2> QED BY <2>1, <2>2, ReachedIsMeant
<1> QED BY <1>1, RelocInvIsInvariant, PTL

\* The loader is told of the slots and of 64-bit words of linked sections, of each
\* once: what dynamic.c and resolve_new put into .rela.plt.
THEOREM LoaderWritesOnlyItsCells == Spec => []LoaderWritesItsCells
<1>1. RelocInv => LoaderWritesItsCells
  <2> SUFFICES ASSUME RelocInv,
                      \A x \in Range(relocs) : SectionAt(x.obj, x.r.sec) = 0 =>
                        SymOf(x).type = "name" /\ find_sym2(SymOf(x).name) # 0
                        /\ world.objects[x.obj].sections[x.r.sec].kind \in Arrays
               PROVE  /\ \A i \in DOMAIN rela : rela[i].offset \in
                           {PltGot + 16 * (n - 1) + 8 : n \in DOMAIN slots} \cup
                           {SrcAddr(x) : x \in {z \in Range(relocs) : z.r.type = "64" /\ SectionAt(z.obj, z.r.sec) # 0}}
                      /\ \A i, j \in DOMAIN rela : i # j => rela[i].offset # rela[j].offset
      BY DEF LoaderWritesItsCells
  <2>0. StraysApart
    <3> SUFFICES ASSUME NEW x \in Range(relocs), Stray(x) PROVE FALSE
        BY DEF StraysApart
    <3>1. SymOf(x).type = "name" /\ find_sym2(SymOf(x).name) # 0
          /\ world.objects[x.obj].sections[x.r.sec].kind \in Arrays
        BY DEF Stray
    <3>2. ExportedAt(SymOf(x).name) # 0
        BY <3>1, FoundIn DEF RelocInv
    <3> QED BY <3>1, <3>2 DEF Stray
  <2>1. /\ DOMAIN rela = 1 .. Len(rela) /\ DOMAIN slots = 1 .. Len(slots)
        /\ PltGot \in Nat
      BY AddressAssumption DEF RelocInv, RelocTypes
  <2>2. ASSUME NEW a, OfSlot(a)
        PROVE  Own(a) /\ a \in {PltGot + 16 * (n - 1) + 8 : n \in DOMAIN slots}
    <3>1. PICK n \in 1 .. Len(slots) : a = Slot(n) + 8
        BY <2>2 DEF OfSlot
    <3>2. n \in Nat /\ n >= 1 /\ a = PltGot + 16 * (n - 1) + 8
        BY <2>1, <3>1 DEF Slot
    <3>3. a >= PltGot
        BY <2>1, <3>2
    <3> QED BY <2>1, <3>2, <3>3 DEF Own
  <2>3. ASSUME NEW a, OfWord(a)
        PROVE  Own(a) /\ a \in {SrcAddr(x) : x \in {z \in Range(relocs) : z.r.type = "64" /\ SectionAt(z.obj, z.r.sec) # 0}}
    <3>1. PICK m \in 1 .. Len(relocs) :
            /\ relocs[m].r.type = "64" /\ a = SrcAddr(relocs[m]) /\ ~ InArray(relocs[m])
        BY <2>3 DEF OfWord
    <3>2. relocs[m] \in Range(relocs)
        BY DEF Range, RelocInv, InputsInv
    <3>3. PICK x \in Range(relocs) : x = relocs[m]
        BY <3>2
    <3>4. Linked(x)
      <4> SUFFICES ASSUME SectionAt(x.obj, x.r.sec) = 0 PROVE FALSE
          BY DEF Linked
      <4>1. SymOf(x).type = "name" /\ find_sym2(SymOf(x).name) # 0
            /\ world.objects[x.obj].sections[x.r.sec].kind \in Arrays
          OBVIOUS
      <4>2. ExportedAt(SymOf(x).name) # 0
          BY <4>1, FoundIn DEF RelocInv
      <4> QED BY <3>1, <3>3, <4>1, <4>2 DEF InArray, IsName, Imported, Kind
    <3>5. Own(a)
        BY <3>1, <3>3, <3>4 DEF Own
    <3> QED BY <3>1, <3>3, <3>4, <3>5 DEF Linked
  <2>4. ASSUME NEW i \in 1 .. Len(rela), NEW a, a = rela[i].offset PROVE OfSlot(a) \/ OfWord(a)
      BY <2>4 DEF RelocInv, EntriesInv
  <2>5. ASSUME NEW i \in 1 .. Len(rela), NEW j \in 1 .. Len(rela), rela[i].offset = rela[j].offset PROVE i = j
    <3>1. PICK a : a = rela[i].offset
        OBVIOUS
    <3>2. Own(a)
        BY <2>2, <2>3, <2>4, <3>1
    <3> QED BY <2>0, <2>5, <3>1, <3>2 DEF RelocInv, OnceInv
  <2> QED BY <2>1, <2>2, <2>3, <2>4, <2>5
<1> QED BY <1>1, RelocInvIsInvariant, PTL
=============================================================================
