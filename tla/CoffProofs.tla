------------------------------ MODULE CoffProofs ----------------------------
(***************************************************************************)
(* zld on COFF objects, for any objects, names and DLLs.                   *)
(*                                                                         *)
(* Lengths are sums: SumUpTo is a recursive function, and the first lemmas *)
(* say what it makes of longer, changed and joined sequences, and what     *)
(* FlattenSeq makes of the sizes of its parts.                             *)
(***************************************************************************)
EXTENDS Coff, SequenceTheorems, NaturalsInduction, WellFoundedInduction, FiniteSetTheorems, TLAPS

(* Numbers                                                                 *)

\* A set of numbers has a least one.
LEMMA Least ==
  ASSUME NEW T, T \subseteq Nat, T # {}
  PROVE  \E m \in T : \A n \in T : m <= n
<1>1. OpToRel(<, Nat) = {ss \in Nat \X Nat : ss[1] < ss[2]}
    BY DEF OpToRel
<1>2. PICK m \in T : \A n \in T : ~ (<<n, m>> \in OpToRel(<, Nat))
    BY WFMin, NatLessThanWellFounded
<1>3. ASSUME NEW n \in T PROVE ~ (n < m)
  <2>1. <<n, m>> \in Nat \X Nat
      OBVIOUS
  <2> QED BY <1>1, <1>2, <2>1
<1>4. m \in Nat /\ \A n \in T : n \in Nat
    OBVIOUS
<1> QED BY <1>3, <1>4

LEMMA MinIsLeast ==
  ASSUME NEW T, T \subseteq Nat, T # {}
  PROVE  Min(T) \in T /\ \A n \in T : Min(T) <= n
<1>1. PICK m \in T : \A n \in T : m <= n
    BY Least
<1> QED BY <1>1 DEF Min

\* And a greatest one, if there is a bound.
LEMMA MaxIsGreatest ==
  ASSUME NEW b \in Nat, NEW T, T \subseteq 0 .. b, T # {}
  PROVE  Max(T) \in T /\ \A n \in T : Max(T) >= n
<1> DEFINE U == {b - n : n \in T}
<1>1. U \subseteq Nat /\ U # {}
  <2>1. ASSUME NEW n \in T PROVE b - n \in Nat
      OBVIOUS
  <2> QED BY <2>1
<1>2. PICK u \in U : \A v \in U : u <= v
  <2> HIDE DEF U
  <2> QED BY <1>1, Least
<1>3. PICK m \in T : u = b - m
    OBVIOUS
<1>4. ASSUME NEW n \in T PROVE m >= n
  <2>1. u <= b - n
      BY <1>2
  <2> QED BY <1>3, <2>1
<1> QED BY <1>4 DEF Max

LEMMA SetInduction ==
  ASSUME NEW S, 0 \in S, \A n \in Nat : n \in S => n + 1 \in S
  PROVE  Nat \subseteq S
<1> SUFFICES ASSUME Nat \ S # {} PROVE FALSE
    OBVIOUS
<1>1. PICK m \in Nat \ S : \A n \in Nat \ S : m <= n
    BY Least
<1>2. m - 1 \in Nat \ S
    BY <1>1
<1> QED BY <1>1, <1>2

\* f[i] is step[i] applied to f[i - 1], from b on.
Stepwise(step, b, f, V, n) ==
  f \in [0 .. n -> V] /\ f[0] = b /\ \A i \in 1 .. n : f[i] = step[i][f[i - 1]]

LEMMA StepwiseExists ==
  ASSUME NEW V, NEW b \in V, NEW n \in Nat, NEW step \in [1 .. n -> [V -> V]]
  PROVE  \E f : Stepwise(step, b, f, V, n)
<1> DEFINE S == {m \in Nat : m <= n => \E f : Stepwise(step, b, f, V, m)}
<1>1. 0 \in S
  <2>1. Stepwise(step, b, [j \in 0 .. 0 |-> b], V, 0)
      BY DEF Stepwise
  <2> QED BY <2>1
<1>2. ASSUME NEW m \in Nat, m \in S PROVE m + 1 \in S
  <2> SUFFICES ASSUME m + 1 <= n PROVE \E f : Stepwise(step, b, f, V, m + 1)
      OBVIOUS
  <2>1. PICK f : Stepwise(step, b, f, V, m)
      BY <1>2
  <2> DEFINE g == [j \in 0 .. m + 1 |-> IF j = m + 1 THEN step[m + 1][f[m]] ELSE f[j]]
  <2>2. f[m] \in V /\ step[m + 1] \in [V -> V] /\ step[m + 1][f[m]] \in V
    <3>1. f[m] \in V
        BY <2>1 DEF Stepwise
    <3>2. m + 1 \in 1 .. n
        OBVIOUS
    <3>3. step[m + 1] \in [V -> V]
        BY <3>2
    <3> QED BY <3>1, <3>3
  <2>3. g \in [0 .. m + 1 -> V] /\ g[0] = b
      BY <2>1, <2>2 DEF Stepwise
  <2>4. \A j \in 1 .. m + 1 : g[j] = step[j][g[j - 1]]
      BY <2>1 DEF Stepwise
  <2>5. Stepwise(step, b, g, V, m + 1)
      BY <2>3, <2>4 DEF Stepwise
  <2> HIDE DEF g
  <2> QED BY <2>5
<1>3. n \in S
  <2> HIDE DEF S
  <2> QED BY <1>1, <1>2, SetInduction
<1> QED BY <1>3

----------------------------------------------------------------------------
(* Sums                                                                    *)

Summing(f, s) == s = [i \in 0 .. Len(f) |-> IF i = 0 THEN 0 ELSE s[i - 1] + f[i]]

LEMMA SumIs ==
  ASSUME NEW f \in Seq(Nat)
  PROVE  /\ SumUpTo(f, 0) = 0
         /\ \A i \in 0 .. Len(f) : SumUpTo(f, i) \in Nat
         /\ \A i \in 1 .. Len(f) : SumUpTo(f, i) = SumUpTo(f, i - 1) + f[i]
<1>1. PICK n \in Nat : n = Len(f)
    OBVIOUS
<1> DEFINE step == [i \in 1 .. n |-> [v \in Nat |-> v + f[i]]]
<1>2. \A i \in 1 .. n : f[i] \in Nat
    BY <1>1
<1>3. step \in [1 .. n -> [Nat -> Nat]]
    BY <1>2
<1>4. PICK g : Stepwise(step, 0, g, Nat, n)
  <2> HIDE DEF step
  <2> QED BY <1>3, StepwiseExists
<1>5. \A i \in 1 .. n : g[i - 1] \in Nat
    BY <1>4 DEF Stepwise
<1>6. \A i \in 1 .. n : g[i] = g[i - 1] + f[i]
    BY <1>4, <1>5 DEF Stepwise
<1>7. g = [i \in 0 .. n |-> IF i = 0 THEN 0 ELSE g[i - 1] + f[i]]
  <2>1. g = [i \in 0 .. n |-> g[i]]
      BY <1>4 DEF Stepwise
  <2>2. \A i \in 0 .. n : g[i] = IF i = 0 THEN 0 ELSE g[i - 1] + f[i]
    <3>1. \A i \in 0 .. n : i = 0 \/ i \in 1 .. n
        OBVIOUS
    <3>2. g[0] = 0
        BY <1>4 DEF Stepwise
    <3> QED BY <1>6, <3>1, <3>2
  <2> QED BY <2>1, <2>2
<1>8. \E s : Summing(f, s)
    BY <1>1, <1>7 DEF Summing
<1>9. PICK s : Summing(f, s) /\ \A i : SumUpTo(f, i) = s[i]
  <2> DEFINE h == CHOOSE s : Summing(f, s)
  <2>1. Summing(f, h)
      BY <1>8
  <2>2. \A i : SumUpTo(f, i) = h[i]
      BY DEF SumUpTo, Summing
  <2> HIDE DEF h
  <2> QED BY <2>1, <2>2
<1>10. s[0] = 0 /\ \A i \in 1 .. n : s[i] = s[i - 1] + f[i]
  <2>1. \A i \in 0 .. n : s[i] = IF i = 0 THEN 0 ELSE s[i - 1] + f[i]
      BY <1>1, <1>9 DEF Summing
  <2> QED BY <2>1
<1> DEFINE S == {i \in Nat : i <= n => s[i] \in Nat}
<1>11. 0 \in S
    BY <1>10
<1>12. ASSUME NEW i \in Nat, i \in S PROVE i + 1 \in S
  <2> SUFFICES ASSUME i + 1 <= n PROVE s[i + 1] \in Nat
      OBVIOUS
  <2>1. i + 1 \in 1 .. n /\ (i + 1) - 1 = i /\ s[i] \in Nat
      BY <1>12
  <2>2. s[i + 1] = s[i] + f[i + 1]
      BY <1>10, <2>1
  <2> QED BY <1>2, <2>1, <2>2
<1>13. \A i \in 0 .. n : s[i] \in Nat
  <2>1. Nat \subseteq S
    <3> HIDE DEF S
    <3> QED BY <1>11, <1>12, SetInduction
  <2> QED BY <2>1
<1> QED BY <1>1, <1>9, <1>10, <1>13

\* Sums of equal numbers are equal.
LEMMA SumSame ==
  ASSUME NEW f \in Seq(Nat), NEW g \in Seq(Nat), NEW n \in Nat, n <= Len(f), n <= Len(g),
         \A i \in 1 .. n : f[i] = g[i]
  PROVE  SumUpTo(f, n) = SumUpTo(g, n)
<1>1. Len(f) \in Nat /\ Len(g) \in Nat
    OBVIOUS
<1> DEFINE S == {i \in Nat : i <= n => SumUpTo(f, i) = SumUpTo(g, i)}
<1>2. 0 \in S
    BY SumIs
<1>3. ASSUME NEW i \in Nat, i \in S PROVE i + 1 \in S
  <2> SUFFICES ASSUME i + 1 <= n PROVE SumUpTo(f, i + 1) = SumUpTo(g, i + 1)
      OBVIOUS
  <2>1. i + 1 \in 1 .. n /\ i + 1 \in 1 .. Len(f) /\ i + 1 \in 1 .. Len(g) /\ (i + 1) - 1 = i
      BY <1>1
  <2>2. SumUpTo(f, i + 1) = SumUpTo(f, i) + f[i + 1] /\ SumUpTo(g, i + 1) = SumUpTo(g, i) + g[i + 1]
      BY <2>1, SumIs
  <2>3. SumUpTo(f, i) = SumUpTo(g, i)
      BY <1>3
  <2> QED BY <2>1, <2>2, <2>3
<1>4. n \in S
  <2> HIDE DEF S
  <2> QED BY <1>2, <1>3, SetInduction
<1> QED BY <1>4

LEMMA TotalIsNat ==
  ASSUME NEW f \in Seq(Nat)
  PROVE  Total(f) \in Nat
<1>1. Len(f) \in 0 .. Len(f)
    OBVIOUS
<1> QED BY <1>1, SumIs DEF Total

LEMMA TotalAppend ==
  ASSUME NEW f \in Seq(Nat), NEW x \in Nat
  PROVE  Total(Append(f, x)) = Total(f) + x
<1>1. PICK n \in Nat : n = Len(f)
    OBVIOUS
<1>2. PICK g : g = Append(f, x) /\ g \in Seq(Nat)
  <2>1. Append(f, x) \in Seq(Nat)
      OBVIOUS
  <2> QED BY <2>1
<1>3. Len(g) = n + 1 /\ g[n + 1] = x /\ \A i \in 1 .. n : g[i] = f[i]
    BY <1>1, <1>2
<1>4. SumUpTo(g, n) = SumUpTo(f, n)
  <2>1. n <= Len(g) /\ n <= Len(f) /\ g \in Seq(Nat)
      BY <1>1, <1>2, <1>3
  <2> QED BY <1>3, <2>1, SumSame
<1>5. SumUpTo(g, n + 1) = SumUpTo(g, n) + g[n + 1]
  <2>1. n + 1 \in 1 .. Len(g) /\ (n + 1) - 1 = n
      BY <1>3
  <2> QED BY <1>2, <2>1, SumIs
<1> QED BY <1>1, <1>2, <1>3, <1>4, <1>5 DEF Total

\* One of the numbers grows by x.
LEMMA TotalGrows ==
  ASSUME NEW f \in Seq(Nat), NEW g \in Seq(Nat), Len(g) = Len(f), NEW e \in 1 .. Len(f), NEW x \in Nat,
         g[e] = f[e] + x, \A i \in 1 .. Len(f) : i # e => g[i] = f[i]
  PROVE  Total(g) = Total(f) + x
<1>1. PICK n \in Nat : n = Len(f)
    OBVIOUS
<1> DEFINE S == {i \in Nat : i <= n => SumUpTo(g, i) = SumUpTo(f, i) + (IF i < e THEN 0 ELSE x)}
<1>2. 0 \in S
    BY <1>1, SumIs
<1>3. ASSUME NEW i \in Nat, i \in S PROVE i + 1 \in S
  <2> SUFFICES ASSUME i + 1 <= n PROVE SumUpTo(g, i + 1) = SumUpTo(f, i + 1) + (IF i + 1 < e THEN 0 ELSE x)
      OBVIOUS
  <2>1. i + 1 \in 1 .. n /\ (i + 1) - 1 = i /\ i \in 0 .. n
      OBVIOUS
  <2>2. PICK a \in Nat : a = SumUpTo(f, i)
      BY <1>1, <2>1, SumIs
  <2>3. PICK c \in Nat : c = f[i + 1]
      BY <1>1, <2>1
  <2>4. SumUpTo(f, i + 1) = a + c /\ SumUpTo(g, i + 1) = SumUpTo(g, i) + g[i + 1]
      BY <1>1, <2>1, <2>2, <2>3, SumIs
  <2>5. SumUpTo(g, i) = a + (IF i < e THEN 0 ELSE x)
      BY <1>3, <2>1, <2>2
  <2>6. CASE i + 1 = e
    <3>1. g[i + 1] = c + x
        BY <2>3, <2>6
    <3>2. i < e /\ ~ (i + 1 < e)
        BY <2>6
    <3> QED BY <2>4, <2>5, <3>1, <3>2
  <2>7. CASE i + 1 # e
    <3>1. g[i + 1] = c /\ (i < e <=> i + 1 < e)
        BY <1>1, <2>1, <2>3, <2>7
    <3>2. CASE i < e
        BY <2>4, <2>5, <3>1, <3>2
    <3>3. CASE ~ (i < e)
      <4>1. SumUpTo(g, i + 1) = (a + x) + c /\ SumUpTo(f, i + 1) + x = (a + c) + x
          BY <2>4, <2>5, <3>1, <3>3
      <4>2. (a + x) + c = (a + c) + x
          OBVIOUS
      <4> QED BY <3>1, <3>3, <4>1, <4>2
    <3> QED BY <3>2, <3>3
  <2> QED BY <2>6, <2>7
<1>4. n \in S
  <2> HIDE DEF S
  <2> QED BY <1>2, <1>3, SetInduction
<1> QED BY <1>1, <1>4 DEF Total

LEMMA SumJoined ==
  ASSUME NEW f \in Seq(Nat), NEW g \in Seq(Nat), NEW k \in 0 .. Len(g)
  PROVE  /\ SumUpTo(f \o g, Len(f) + k) = Total(f) + SumUpTo(g, k)
         /\ \A i \in 0 .. Len(f) : SumUpTo(f \o g, i) = SumUpTo(f, i)
<1>1. PICK n \in Nat : n = Len(f)
    OBVIOUS
<1>2. PICK m \in Nat : m = Len(g)
    OBVIOUS
<1>3. PICK h : h = f \o g /\ h \in Seq(Nat)
  <2>1. f \o g \in Seq(Nat)
      OBVIOUS
  <2> QED BY <2>1
<1>4. /\ Len(h) = n + m
      /\ \A i \in 1 .. n : h[i] = f[i]
      /\ \A i \in 1 .. m : h[n + i] = g[i]
  <2>1. /\ Len(f \o g) = Len(f) + Len(g)
        /\ \A i \in 1 .. Len(f) : (f \o g)[i] = f[i]
        /\ \A i \in 1 .. Len(g) : (f \o g)[Len(f) + i] = g[i]
      OBVIOUS
  <2> QED BY <1>1, <1>2, <1>3, <2>1, Zenon
<1>5. ASSUME NEW i \in 0 .. n PROVE SumUpTo(h, i) = SumUpTo(f, i)
  <2>1. i \in Nat /\ i <= Len(f) /\ i <= Len(h) /\ \A j \in 1 .. i : h[j] = f[j]
      BY <1>1, <1>4
  <2> QED BY <1>3, <2>1, SumSame
<1> DEFINE S == {i \in Nat : i <= m => SumUpTo(h, n + i) = SumUpTo(f, n) + SumUpTo(g, i)}
<1>6. 0 \in S
  <2>1. SumUpTo(h, n) = SumUpTo(f, n) /\ SumUpTo(g, 0) = 0 /\ n + 0 = n
      BY <1>5, SumIs
  <2>2. n \in 0 .. Len(f)
      BY <1>1
  <2>3. SumUpTo(f, n) \in Nat
      BY <2>2, SumIs
  <2> QED BY <2>1, <2>3
<1>7. ASSUME NEW i \in Nat, i \in S PROVE i + 1 \in S
  <2> SUFFICES ASSUME i + 1 <= m PROVE SumUpTo(h, n + (i + 1)) = SumUpTo(f, n) + SumUpTo(g, i + 1)
      OBVIOUS
  <2>1. /\ i + 1 \in 1 .. m /\ (i + 1) - 1 = i /\ i \in 0 .. m
        /\ n + (i + 1) \in 1 .. n + m /\ (n + (i + 1)) - 1 = n + i /\ n \in 0 .. n
      OBVIOUS
  <2>2. PICK a \in Nat : a = SumUpTo(f, n)
      BY <1>1, <2>1, SumIs
  <2>3. PICK c \in Nat : c = SumUpTo(g, i)
      BY <1>2, <2>1, SumIs
  <2>4. PICK d \in Nat : d = g[i + 1]
      BY <1>2, <2>1
  <2>5. SumUpTo(h, n + (i + 1)) = SumUpTo(h, n + i) + h[n + (i + 1)]
      BY <1>3, <1>4, <2>1, SumIs
  <2>6. SumUpTo(g, i + 1) = c + d
      BY <1>2, <2>1, <2>3, <2>4, SumIs
  <2>7. SumUpTo(h, n + i) = a + c /\ h[n + (i + 1)] = d
      BY <1>4, <1>7, <2>1, <2>2, <2>3, <2>4
  <2> QED BY <2>2, <2>5, <2>6, <2>7
<1>8. k \in S
  <2>1. k \in Nat
      OBVIOUS
  <2> HIDE DEF S
  <2> QED BY <1>6, <1>7, <2>1, SetInduction
<1> QED BY <1>1, <1>2, <1>3, <1>5, <1>8 DEF Total

----------------------------------------------------------------------------
(* FlattenSeq                                                              *)

\* h[i] are the first i sequences, one behind the other.
Joins(T, ss, h) ==
  /\ h \in [0 .. Len(ss) -> Seq(T)] /\ h[0] = <<>>
  /\ \A i \in 1 .. Len(ss) : h[i] = h[i - 1] \o ss[i]

Joining(ss, f) == f = [i \in 1 .. Len(ss) |-> IF i = 1 THEN ss[i] ELSE f[i - 1] \o ss[i]]

LEMMA FlattenIs ==
  ASSUME NEW T, NEW ss \in Seq(Seq(T))
  PROVE  \E h : Joins(T, ss, h) /\ FlattenSeq(ss) = h[Len(ss)]
<1>1. PICK n \in Nat : n = Len(ss)
    OBVIOUS
<1>2. \A i \in 1 .. n : ss[i] \in Seq(T)
    BY <1>1
<1> DEFINE step == [i \in 1 .. n |-> [v \in Seq(T) |-> v \o ss[i]]]
<1>3. step \in [1 .. n -> [Seq(T) -> Seq(T)]]
  <2>1. ASSUME NEW i \in 1 .. n, NEW v \in Seq(T) PROVE v \o ss[i] \in Seq(T)
      BY <1>2
  <2> QED BY <2>1
<1>4. PICK h : Stepwise(step, <<>>, h, Seq(T), n)
  <2> HIDE DEF step
  <2>1. <<>> \in Seq(T)
      OBVIOUS
  <2> QED BY <1>3, <2>1, StepwiseExists
<1>5. h \in [0 .. n -> Seq(T)] /\ h[0] = <<>>
    BY <1>4 DEF Stepwise
<1>6. \A i \in 1 .. n : h[i] = h[i - 1] \o ss[i]
  <2> SUFFICES ASSUME NEW i \in 1 .. n PROVE h[i] = h[i - 1] \o ss[i]
      OBVIOUS
  <2>1. i - 1 \in 0 .. n
      OBVIOUS
  <2>2. h[i - 1] \in Seq(T)
      BY <1>5, <2>1
  <2>3. h[i] = step[i][h[i - 1]]
      BY <1>4 DEF Stepwise
  <2> QED BY <2>2, <2>3
<1> HIDE DEF step
<1>7. Joins(T, ss, h)
    BY <1>1, <1>5, <1>6 DEF Joins
<1>8. CASE n = 0
  <2>1. FlattenSeq(ss) = ss
      BY <1>1, <1>8 DEF FlattenSeq
  <2>2. ss = <<>>
    <3>1. Len(ss) = 0
        BY <1>1, <1>8
    <3> QED BY <3>1
  <2> QED BY <1>1, <1>5, <1>7, <1>8, <2>1, <2>2
<1>9. CASE n # 0
  <2>1. h[1] = ss[1]
    <3>1. 1 \in 1 .. n /\ 1 - 1 = 0
        BY <1>9
    <3>2. h[1] = <<>> \o ss[1]
        BY <1>5, <1>6, <3>1
    <3> QED BY <1>2, <3>1, <3>2
  <2> DEFINE g == [i \in 1 .. n |-> h[i]]
  <2>2. \A i \in 1 .. n : g[i] = IF i = 1 THEN ss[i] ELSE g[i - 1] \o ss[i]
    <3> SUFFICES ASSUME NEW i \in 1 .. n PROVE g[i] = IF i = 1 THEN ss[i] ELSE g[i - 1] \o ss[i]
        OBVIOUS
    <3>1. CASE i = 1
        BY <2>1, <3>1
    <3>2. CASE i # 1
      <4>1. i - 1 \in 1 .. n
          BY <3>2
      <4>2. g[i - 1] = h[i - 1] /\ g[i] = h[i]
          BY <4>1
      <4> HIDE DEF g
      <4> QED BY <1>6, <3>2, <4>2
    <3> QED BY <3>1, <3>2
  <2>3. g = [i \in 1 .. n |-> g[i]]
      OBVIOUS
  <2>4. \E f : Joining(ss, f)
    <3>1. g = [i \in 1 .. n |-> IF i = 1 THEN ss[i] ELSE g[i - 1] \o ss[i]]
      <4> HIDE DEF g
      <4> QED BY <2>2, <2>3
    <3>2. Joining(ss, g)
      <4> HIDE DEF g
      <4> QED BY <1>1, <3>1 DEF Joining
    <3> QED BY <3>2
  <2>5. PICK f : Joining(ss, f) /\ FlattenSeq(ss) = f[n]
    <3> DEFINE c == CHOOSE f : Joining(ss, f)
    <3>1. Joining(ss, c)
        BY <2>4
    <3>2. FlattenSeq(ss) = c[n]
        BY <1>1, <1>9 DEF FlattenSeq, Joining
    <3> HIDE DEF c
    <3> QED BY <3>1, <3>2
  <2>6. \A i \in 1 .. n : f[i] = IF i = 1 THEN ss[i] ELSE f[i - 1] \o ss[i]
      BY <1>1, <2>5 DEF Joining
  <2> DEFINE S == {i \in Nat : i + 1 <= n => f[i + 1] = h[i + 1]}
  <2>7. 0 \in S
    <3>1. f[1] = ss[1]
        BY <1>9, <2>6
    <3> QED BY <2>1, <3>1
  <2>8. ASSUME NEW i \in Nat, i \in S PROVE i + 1 \in S
    <3> SUFFICES ASSUME i + 2 <= n PROVE f[i + 2] = h[i + 2]
      <4>1. (i + 1) + 1 = i + 2
          OBVIOUS
      <4> QED BY <4>1
    <3>1. i + 2 \in 1 .. n /\ i + 2 # 1 /\ (i + 2) - 1 = i + 1 /\ i + 1 <= n
        OBVIOUS
    <3>2. f[i + 1] = h[i + 1]
        BY <2>8, <3>1
    <3>3. f[i + 2] = f[i + 1] \o ss[i + 2]
        BY <2>6, <3>1
    <3>4. h[i + 2] = h[i + 1] \o ss[i + 2]
        BY <1>6, <3>1
    <3> QED BY <3>2, <3>3, <3>4
  <2>9. f[n] = h[n]
    <3>1. n - 1 \in Nat /\ (n - 1) + 1 = n
        BY <1>9
    <3>2. n - 1 \in S
      <4> HIDE DEF S
      <4> QED BY <2>7, <2>8, <3>1, SetInduction
    <3> QED BY <3>1, <3>2
  <2> QED BY <1>1, <1>7, <2>5, <2>9
<1> QED BY <1>8, <1>9

\* The first i prefixes agree if the first i sequences do.
LEMMA PrefixesSame ==
  ASSUME NEW T, NEW ss \in Seq(Seq(T)), NEW tt \in Seq(Seq(T)), NEW g, NEW h,
         Joins(T, ss, g), Joins(T, tt, h), NEW n \in Nat, n <= Len(ss), n <= Len(tt),
         \A i \in 1 .. n : ss[i] = tt[i]
  PROVE  g[n] = h[n]
<1> DEFINE S == {i \in Nat : i <= n => g[i] = h[i]}
<1>1. 0 \in S
    BY DEF Joins
<1>2. ASSUME NEW i \in Nat, i \in S PROVE i + 1 \in S
  <2> SUFFICES ASSUME i + 1 <= n PROVE g[i + 1] = h[i + 1]
      OBVIOUS
  <2>1. i + 1 \in 1 .. Len(ss) /\ i + 1 \in 1 .. Len(tt) /\ (i + 1) - 1 = i /\ i + 1 \in 1 .. n
      OBVIOUS
  <2>2. g[i + 1] = g[i] \o ss[i + 1] /\ h[i + 1] = h[i] \o tt[i + 1]
      BY <2>1 DEF Joins
  <2>3. g[i] = h[i]
      BY <1>2
  <2> QED BY <2>1, <2>2, <2>3
<1>3. n \in S
  <2> HIDE DEF S
  <2> QED BY <1>1, <1>2, SetInduction
<1> QED BY <1>3

LEMMA FlattenIsSeq ==
  ASSUME NEW T, NEW ss \in Seq(Seq(T))
  PROVE  FlattenSeq(ss) \in Seq(T)
<1>1. PICK h : Joins(T, ss, h) /\ FlattenSeq(ss) = h[Len(ss)]
    BY FlattenIs
<1>2. Len(ss) \in 0 .. Len(ss)
    OBVIOUS
<1> QED BY <1>1, <1>2 DEF Joins

LEMMA FlattenAppend ==
  ASSUME NEW T, NEW ss \in Seq(Seq(T)), NEW s \in Seq(T)
  PROVE  FlattenSeq(Append(ss, s)) = FlattenSeq(ss) \o s
<1>1. PICK g : Joins(T, ss, g) /\ FlattenSeq(ss) = g[Len(ss)]
    BY FlattenIs
<1>2. PICK tt : tt = Append(ss, s) /\ tt \in Seq(Seq(T))
  <2>1. Append(ss, s) \in Seq(Seq(T))
      OBVIOUS
  <2> QED BY <2>1
<1>3. PICK h : Joins(T, tt, h) /\ FlattenSeq(tt) = h[Len(tt)]
    BY <1>2, FlattenIs
<1>4. PICK n \in Nat : n = Len(ss)
    OBVIOUS
<1>5. Len(tt) = n + 1 /\ tt[n + 1] = s /\ \A i \in 1 .. n : ss[i] = tt[i]
    BY <1>2, <1>4
<1>6. g[n] = h[n]
  <2>0. tt \in Seq(Seq(T)) /\ Joins(T, ss, g) /\ Joins(T, tt, h) /\ \A i \in 1 .. n : ss[i] = tt[i]
      BY <1>1, <1>2, <1>3, <1>5
  <2>1. n <= Len(ss) /\ n <= Len(tt)
      BY <1>4, <1>5
  <2> QED BY <2>0, <2>1, PrefixesSame
<1>7. h[n + 1] = h[n] \o s
  <2>1. n + 1 \in 1 .. Len(tt) /\ (n + 1) - 1 = n
      BY <1>5
  <2> QED BY <1>3, <1>5, <2>1 DEF Joins
<1> QED BY <1>1, <1>2, <1>3, <1>4, <1>5, <1>6, <1>7

\* A prefix is the beginning of each later one; its length is a sum, and so is
\* the weight of its elements.
Lens(ss) == [i \in DOMAIN ss |-> Len(ss[i])]
Weights(w, s) == [i \in DOMAIN s |-> w[s[i]]]
Loads(w, ss) == [i \in DOMAIN ss |-> Total(Weights(w, ss[i]))]

LEMMA WeightsAre ==
  ASSUME NEW T, NEW w \in [T -> Nat], NEW s \in Seq(T)
  PROVE  /\ Weights(w, s) \in Seq(Nat) /\ Len(Weights(w, s)) = Len(s)
         /\ \A i \in 1 .. Len(s) : Weights(w, s)[i] = w[s[i]]
<1>1. PICK n \in Nat : n = Len(s) /\ DOMAIN s = 1 .. n
    OBVIOUS
<1>2. \A i \in 1 .. n : w[s[i]] \in Nat
    BY <1>1
<1>3. Weights(w, s) = [i \in 1 .. n |-> w[s[i]]]
    BY <1>1 DEF Weights
<1> QED BY <1>1, <1>2, <1>3

LEMMA WeightsJoined ==
  ASSUME NEW T, NEW w \in [T -> Nat], NEW s \in Seq(T), NEW t \in Seq(T)
  PROVE  Weights(w, s \o t) = Weights(w, s) \o Weights(w, t)
<1>0. \A v \in Seq(T) : /\ Weights(w, v) \in Seq(Nat) /\ Len(Weights(w, v)) = Len(v)
                        /\ \A i \in 1 .. Len(v) : Weights(w, v)[i] = w[v[i]]
  <2>1. \A v \in Seq(T) : Weights(w, v) \in Seq(Nat)
      BY WeightsAre
  <2>2. \A v \in Seq(T) : Len(Weights(w, v)) = Len(v)
      BY WeightsAre
  <2>3. ASSUME NEW v \in Seq(T), NEW i \in 1 .. Len(v) PROVE Weights(w, v)[i] = w[v[i]]
    <3>1. i \in DOMAIN v
        OBVIOUS
    <3> QED BY <3>1 DEF Weights
  <2> QED BY <2>1, <2>2, <2>3
<1>1. PICK n \in Nat : n = Len(s)
    OBVIOUS
<1>2. PICK m \in Nat : m = Len(t)
    OBVIOUS
<1>3. PICK u : u = s \o t /\ u \in Seq(T)
  <2>1. s \o t \in Seq(T)
      OBVIOUS
  <2> QED BY <2>1
<1>4. /\ Len(u) = n + m
      /\ \A i \in 1 .. n : u[i] = s[i]
      /\ \A i \in 1 .. m : u[n + i] = t[i]
  <2>1. /\ Len(s \o t) = Len(s) + Len(t)
        /\ \A i \in 1 .. Len(s) : (s \o t)[i] = s[i]
        /\ \A i \in 1 .. Len(t) : (s \o t)[Len(s) + i] = t[i]
      OBVIOUS
  <2> QED BY <1>1, <1>2, <1>3, <2>1, Zenon
<1>5. PICK a : a \in Seq(Nat) /\ a = Weights(w, s) /\ Len(a) = n /\ \A i \in 1 .. n : a[i] = w[s[i]]
    BY <1>1, WeightsAre
<1>6. PICK b : b \in Seq(Nat) /\ b = Weights(w, t) /\ Len(b) = m /\ \A i \in 1 .. m : b[i] = w[t[i]]
    BY <1>2, WeightsAre
<1>7. PICK c : c \in Seq(Nat) /\ c = Weights(w, u) /\ Len(c) = n + m /\ \A i \in 1 .. n + m : c[i] = w[u[i]]
  <2>1. /\ Weights(w, u) \in Seq(Nat) /\ Len(Weights(w, u)) = Len(u)
        /\ \A i \in 1 .. Len(u) : Weights(w, u)[i] = w[u[i]]
      BY <1>0, <1>3
  <2> HIDE DEF Weights
  <2> QED BY <1>4, <2>1
<1>8. PICK d : d = a \o b /\ d \in Seq(Nat)
  <2>1. a \o b \in Seq(Nat)
      BY <1>5, <1>6
  <2> QED BY <2>1
<1>9. /\ Len(d) = n + m
      /\ \A i \in 1 .. n : d[i] = a[i]
      /\ \A i \in 1 .. m : d[n + i] = b[i]
  <2>1. /\ Len(a \o b) = Len(a) + Len(b)
        /\ \A i \in 1 .. Len(a) : (a \o b)[i] = a[i]
        /\ \A i \in 1 .. Len(b) : (a \o b)[Len(a) + i] = b[i]
      OBVIOUS
  <2> QED BY <1>5, <1>6, <1>8, <2>1, Zenon
<1>10. \A i \in 1 .. n + m : c[i] = d[i]
  <2> SUFFICES ASSUME NEW i \in 1 .. n + m PROVE c[i] = d[i]
      OBVIOUS
  <2>1. CASE i \in 1 .. n
    <3>1. c[i] = w[u[i]] /\ u[i] = s[i] /\ d[i] = a[i] /\ a[i] = w[s[i]]
        BY <1>4, <1>5, <1>7, <1>9, <2>1
    <3> QED BY <3>1
  <2>2. CASE i \notin 1 .. n
    <3>1. PICK k \in 1 .. m : i = n + k
      <4>1. i - n \in 1 .. m /\ i = n + (i - n)
          BY <2>2
      <4> QED BY <4>1
    <3>2. d[i] = b[k] /\ u[i] = t[k]
        BY <1>4, <1>9, <3>1
    <3> QED BY SMTT(30), <1>6, <1>7, <3>1, <3>2
  <2> QED BY <2>1, <2>2
<1>11. c = d
  <2>1. c \in Seq(Nat) /\ d \in Seq(Nat) /\ Len(c) = Len(d) /\ \A i \in 1 .. Len(c) : c[i] = d[i]
      BY <1>7, <1>8, <1>9, <1>10
  <2> QED BY <2>1, SeqEqual
<1> QED BY <1>3, <1>5, <1>6, <1>7, <1>8, <1>11

LEMMA LensAre ==
  ASSUME NEW T, NEW ss \in Seq(Seq(T))
  PROVE  /\ Lens(ss) \in Seq(Nat) /\ Len(Lens(ss)) = Len(ss)
         /\ \A i \in 1 .. Len(ss) : Lens(ss)[i] = Len(ss[i]) /\ Len(ss[i]) \in Nat
<1>1. PICK n \in Nat : n = Len(ss) /\ DOMAIN ss = 1 .. n
    OBVIOUS
<1>2. \A i \in 1 .. n : Len(ss[i]) \in Nat
  <2>1. \A i \in 1 .. n : ss[i] \in Seq(T)
      BY <1>1
  <2> QED BY <2>1
<1>3. Lens(ss) = [i \in 1 .. n |-> Len(ss[i])]
    BY <1>1 DEF Lens
<1> QED BY <1>1, <1>2, <1>3

LEMMA LoadsAre ==
  ASSUME NEW T, NEW w \in [T -> Nat], NEW ss \in Seq(Seq(T))
  PROVE  /\ Loads(w, ss) \in Seq(Nat) /\ Len(Loads(w, ss)) = Len(ss)
         /\ \A i \in 1 .. Len(ss) : Loads(w, ss)[i] = Total(Weights(w, ss[i]))
<1>1. PICK n \in Nat : n = Len(ss) /\ DOMAIN ss = 1 .. n
    OBVIOUS
<1>2. ASSUME NEW i \in 1 .. n PROVE Total(Weights(w, ss[i])) \in Nat
  <2>1. ss[i] \in Seq(T)
      BY <1>1
  <2>2. Weights(w, ss[i]) \in Seq(Nat)
      BY <2>1, WeightsAre
  <2> QED BY <2>2, TotalIsNat
<1>3. Loads(w, ss) = [i \in 1 .. n |-> Total(Weights(w, ss[i]))]
    BY <1>1 DEF Loads
<1> QED BY <1>1, <1>2, <1>3

LEMMA PrefixMeasures ==
  ASSUME NEW T, NEW w \in [T -> Nat], NEW ss \in Seq(Seq(T)), NEW h, Joins(T, ss, h),
         NEW n \in 0 .. Len(ss)
  PROVE  /\ Len(h[n]) = SumUpTo(Lens(ss), n)
         /\ Total(Weights(w, h[n])) = SumUpTo(Loads(w, ss), n)
<1> DEFINE Good(i) == /\ Len(h[i]) = SumUpTo(Lens(ss), i)
                      /\ Total(Weights(w, h[i])) = SumUpTo(Loads(w, ss), i)
           S == {i \in Nat : i <= Len(ss) => Good(i)}
<1>0. /\ Lens(ss) \in Seq(Nat) /\ Len(Lens(ss)) = Len(ss)
      /\ Loads(w, ss) \in Seq(Nat) /\ Len(Loads(w, ss)) = Len(ss)
  <2>1. Lens(ss) \in Seq(Nat) /\ Len(Lens(ss)) = Len(ss)
      BY LensAre
  <2>2. Loads(w, ss) \in Seq(Nat) /\ Len(Loads(w, ss)) = Len(ss)
      BY LoadsAre
  <2> QED BY <2>1, <2>2
<1>1. 0 \in S
  <2>1. h[0] = <<>> /\ Len(h[0]) = 0
      BY DEF Joins
  <2>2. Weights(w, h[0]) \in Seq(Nat) /\ Len(Weights(w, h[0])) = 0
    <3>1. <<>> \in Seq(T) /\ Len(<<>>) = 0
        OBVIOUS
    <3>2. Weights(w, <<>>) \in Seq(Nat) /\ Len(Weights(w, <<>>)) = Len(<<>>)
        BY <3>1, WeightsAre
    <3> QED BY <2>1, <3>1, <3>2
  <2>3. Total(Weights(w, h[0])) = 0
      BY <2>2, SumIs DEF Total
  <2>4. SumUpTo(Lens(ss), 0) = 0 /\ SumUpTo(Loads(w, ss), 0) = 0
      BY <1>0, SumIs
  <2> QED BY <2>1, <2>3, <2>4
<1>2. ASSUME NEW i \in Nat, i \in S PROVE i + 1 \in S
  <2> SUFFICES ASSUME i + 1 <= Len(ss) PROVE Good(i + 1)
      OBVIOUS
  <2>1. i + 1 \in 1 .. Len(ss) /\ (i + 1) - 1 = i /\ i \in 0 .. Len(ss)
      OBVIOUS
  <2>2. Good(i)
      BY <1>2, <2>1
  <2>3. h[i] \in Seq(T) /\ ss[i + 1] \in Seq(T) /\ h[i + 1] = h[i] \o ss[i + 1]
    <3>1. h[i] \in Seq(T)
        BY <2>1 DEF Joins
    <3>2. ss[i + 1] \in Seq(T)
        BY <2>1
    <3>3. h[i + 1] = h[i] \o ss[i + 1]
        BY <2>1 DEF Joins
    <3> QED BY <3>1, <3>2, <3>3
  <2>4. Len(h[i + 1]) = Len(h[i]) + Len(ss[i + 1])
      BY <2>3
  <2>5. SumUpTo(Lens(ss), i + 1) = SumUpTo(Lens(ss), i) + Len(ss[i + 1])
    <3>1. Lens(ss)[i + 1] = Len(ss[i + 1])
        BY <2>1, LensAre
    <3>2. SumUpTo(Lens(ss), i + 1) = SumUpTo(Lens(ss), i) + Lens(ss)[i + 1]
        BY <1>0, <2>1, SumIs
    <3> QED BY <3>1, <3>2
  <2>6. Len(h[i + 1]) = SumUpTo(Lens(ss), i + 1)
      BY <2>2, <2>4, <2>5
  <2>7. Total(Weights(w, h[i + 1])) = Total(Weights(w, h[i])) + Total(Weights(w, ss[i + 1]))
    <3>0. \A s, t \in Seq(T) : Weights(w, s \o t) = Weights(w, s) \o Weights(w, t)
        BY WeightsJoined
    <3>1. PICK f \in Seq(Nat) : f = Weights(w, h[i])
        BY <2>3, WeightsAre
    <3>2. PICK g \in Seq(Nat) : g = Weights(w, ss[i + 1])
        BY <2>3, WeightsAre
    <3>3. Weights(w, h[i + 1]) = f \o g
        BY <2>3, <3>0, <3>1, <3>2
    <3>4. Len(f \o g) = Len(f) + Len(g) /\ Len(g) \in 0 .. Len(g)
        OBVIOUS
    <3>5. Total(f \o g) = Total(f) + Total(g)
        BY <3>4, SumJoined DEF Total
    <3> QED BY <3>1, <3>2, <3>3, <3>5
  <2>8. SumUpTo(Loads(w, ss), i + 1) = SumUpTo(Loads(w, ss), i) + Total(Weights(w, ss[i + 1]))
    <3>1. Loads(w, ss)[i + 1] = Total(Weights(w, ss[i + 1]))
        BY <2>1, LoadsAre
    <3>2. SumUpTo(Loads(w, ss), i + 1) = SumUpTo(Loads(w, ss), i) + Loads(w, ss)[i + 1]
        BY <1>0, <2>1, SumIs
    <3> QED BY <3>1, <3>2
  <2> QED BY <2>2, <2>6, <2>7, <2>8
<1>3. n \in S
  <2>1. n \in Nat
      OBVIOUS
  <2> HIDE DEF S
  <2> QED BY <1>1, <1>2, <2>1, SetInduction
<1> QED BY <1>3

LEMMA PrefixBegins ==
  ASSUME NEW T, NEW ss \in Seq(Seq(T)), NEW h, Joins(T, ss, h),
         NEW n \in 0 .. Len(ss), NEW b \in 0 .. n
  PROVE  Len(h[b]) <= Len(h[n]) /\ \A j \in 1 .. Len(h[b]) : h[n][j] = h[b][j]
<1> DEFINE Good(i) == Len(h[b]) <= Len(h[i]) /\ \A j \in 1 .. Len(h[b]) : h[i][j] = h[b][j]
           S == {i \in Nat : b + i <= Len(ss) => Good(b + i)}
<1>0. h[b] \in Seq(T) /\ Len(h[b]) \in Nat /\ b \in Nat
  <2>1. b \in 0 .. Len(ss)
      OBVIOUS
  <2>2. h[b] \in Seq(T)
      BY <2>1 DEF Joins
  <2> QED BY <2>2
<1>1. 0 \in S
    BY <1>0
<1>2. ASSUME NEW i \in Nat, i \in S PROVE i + 1 \in S
  <2> SUFFICES ASSUME b + i + 1 <= Len(ss) PROVE Good(b + i + 1)
    <3>1. b + (i + 1) = b + i + 1
        BY <1>0
    <3> QED BY <3>1
  <2>1. PICK m \in 0 .. Len(ss) : m = b + i
      BY <1>0
  <2>2. m + 1 \in 1 .. Len(ss) /\ (m + 1) - 1 = m /\ b + i + 1 = m + 1
      BY <1>0, <2>1
  <2>3. Good(m)
      BY <1>2, <2>1
  <2>4. PICK s \in Seq(T) : s = h[m]
      BY DEF Joins
  <2>5. PICK t \in Seq(T) : t = ss[m + 1]
      BY <2>2
  <2>6. h[m + 1] = s \o t
      BY <2>2, <2>4, <2>5 DEF Joins
  <2>7. Len(s \o t) = Len(s) + Len(t) /\ Len(t) \in Nat /\ Len(s) \in Nat
        /\ \A j \in 1 .. Len(s) : (s \o t)[j] = s[j]
      OBVIOUS
  <2>8. \A j \in 1 .. Len(h[b]) : j \in 1 .. Len(s)
      BY <1>0, <2>3, <2>4, <2>7
  <2>9. \A j \in 1 .. Len(h[b]) : h[m + 1][j] = h[b][j]
      BY <2>3, <2>4, <2>6, <2>7, <2>8
  <2>10. Len(h[b]) <= Len(h[m + 1])
      BY SMTT(30), <1>0, <2>3, <2>4, <2>6, <2>7
  <2> QED BY <2>2, <2>9, <2>10
<1>3. n - b \in S
  <2>1. n - b \in Nat
      OBVIOUS
  <2> HIDE DEF S
  <2> QED BY <1>1, <1>2, <2>1, SetInduction
<1>4. b + (n - b) = n
    OBVIOUS
<1> QED BY <1>3, <1>4

LEMMA FlattenLen ==
  ASSUME NEW T, NEW w \in [T -> Nat], NEW ss \in Seq(Seq(T))
  PROVE  /\ Len(FlattenSeq(ss)) = Total(Lens(ss))
         /\ Total(Weights(w, FlattenSeq(ss))) = Total(Loads(w, ss))
<1>1. PICK h : Joins(T, ss, h) /\ FlattenSeq(ss) = h[Len(ss)]
    BY FlattenIs
<1>2. Len(ss) \in 0 .. Len(ss) /\ Len(Lens(ss)) = Len(ss) /\ Len(Loads(w, ss)) = Len(ss)
    BY SMTT(30), LensAre, LoadsAre
<1>3. /\ Len(h[Len(ss)]) = SumUpTo(Lens(ss), Len(ss))
      /\ Total(Weights(w, h[Len(ss)])) = SumUpTo(Loads(w, ss), Len(ss))
    BY <1>1, <1>2, PrefixMeasures
<1> QED BY <1>1, <1>2, <1>3 DEF Total

LEMMA FlattenMeasures ==
  ASSUME NEW T, NEW w \in [T -> Nat], NEW ss \in Seq(Seq(T))
  PROVE  \E h : /\ Joins(T, ss, h) /\ FlattenSeq(ss) = h[Len(ss)]
               /\ \A c \in 0 .. Len(ss) : /\ Len(h[c]) = SumUpTo(Lens(ss), c)
                                          /\ Total(Weights(w, h[c])) = SumUpTo(Loads(w, ss), c)
<1>1. PICK h : Joins(T, ss, h) /\ FlattenSeq(ss) = h[Len(ss)]
    BY FlattenIs
<1>2. ASSUME NEW c \in 0 .. Len(ss)
      PROVE  Len(h[c]) = SumUpTo(Lens(ss), c) /\ Total(Weights(w, h[c])) = SumUpTo(Loads(w, ss), c)
    BY <1>1, PrefixMeasures
<1> QED BY <1>1, <1>2

\* Where element k of sequence b comes to stand.
Place(ss, b, k) == SumUpTo(Lens(ss), b - 1) + k

\* It is there, with the elements in front of it.
Flat(w, ss) ==
  \A b \in 1 .. Len(ss) : \A k \in 1 .. Len(ss[b]) :
    /\ Place(ss, b, k) \in 1 .. Len(FlattenSeq(ss))
    /\ FlattenSeq(ss)[Place(ss, b, k)] = ss[b][k]
    /\ SumUpTo(Weights(w, FlattenSeq(ss)), Place(ss, b, k) - 1)
         = SumUpTo(Loads(w, ss), b - 1) + SumUpTo(Weights(w, ss[b]), k - 1)

LEMMA FlattenAt ==
  ASSUME NEW T, NEW w \in [T -> Nat], NEW ss \in Seq(Seq(T))
  PROVE  Flat(w, ss)
<1>0. \A x \in Seq(T) : \A i \in 1 .. Len(x) : Weights(w, x)[i] = w[x[i]]
  <2> SUFFICES ASSUME NEW x \in Seq(T), NEW i \in 1 .. Len(x) PROVE Weights(w, x)[i] = w[x[i]]
      OBVIOUS
  <2>1. i \in DOMAIN x
      OBVIOUS
  <2> QED BY <2>1 DEF Weights
<1>1. PICK h : /\ Joins(T, ss, h) /\ FlattenSeq(ss) = h[Len(ss)]
               /\ \A c \in 0 .. Len(ss) : /\ Len(h[c]) = SumUpTo(Lens(ss), c)
                                          /\ Total(Weights(w, h[c])) = SumUpTo(Loads(w, ss), c)
    BY FlattenMeasures
<1> SUFFICES ASSUME NEW b \in 1 .. Len(ss), NEW k \in 1 .. Len(ss[b])
             PROVE  /\ Place(ss, b, k) \in 1 .. Len(FlattenSeq(ss))
                    /\ FlattenSeq(ss)[Place(ss, b, k)] = ss[b][k]
                    /\ SumUpTo(Weights(w, FlattenSeq(ss)), Place(ss, b, k) - 1)
                         = SumUpTo(Loads(w, ss), b - 1) + SumUpTo(Weights(w, ss[b]), k - 1)
    BY DEF Flat
<1>2. b \in 0 .. Len(ss) /\ b - 1 \in 0 .. Len(ss) /\ Len(ss) \in 0 .. Len(ss)
    OBVIOUS
<1>3. PICK s \in Seq(T) : s = h[b - 1]
    BY <1>1, <1>2 DEF Joins
<1>4. PICK t \in Seq(T) : t = ss[b]
    OBVIOUS
<1>5. PICK u \in Seq(T) : u = h[b]
    BY <1>1, <1>2 DEF Joins
<1>6. PICK v \in Seq(T) : v = h[Len(ss)]
    BY <1>1, <1>2 DEF Joins
<1>7. PICK n \in Nat : n = Len(s)
    OBVIOUS
<1>8. u = s \o t
    BY <1>1, <1>3, <1>4, <1>5 DEF Joins
<1>9. Place(ss, b, k) = n + k
  <2>1. Len(h[b - 1]) = SumUpTo(Lens(ss), b - 1)
      BY <1>1, <1>2
  <2> QED BY <1>3, <1>7, <2>1 DEF Place
<1>10. Len(u) <= Len(v) /\ \A j \in 1 .. Len(u) : v[j] = u[j]
  <2>1. PICK m \in 0 .. Len(ss) : m = Len(ss)
      BY <1>2
  <2>2. b \in 0 .. m /\ Joins(T, ss, h)
      BY <1>1, <2>1
  <2>3. Len(h[b]) <= Len(h[m]) /\ \A j \in 1 .. Len(h[b]) : h[m][j] = h[b][j]
      BY SMTT(30), <2>2, PrefixBegins
  <2> QED BY <1>5, <1>6, <2>1, <2>3
<1>11. k \in Nat \ {0} /\ k \in 1 .. Len(t) /\ Len(t) \in Nat /\ Len(v) \in Nat
    BY <1>4
<1>12. Len(u) = n + Len(t) /\ u[n + k] = t[k]
  <2>1. Len(s \o t) = Len(s) + Len(t) /\ \A j \in 1 .. Len(t) : (s \o t)[Len(s) + j] = t[j]
      OBVIOUS
  <2> QED BY <1>7, <1>8, <1>11, <2>1, Zenon
<1>13. n + k \in 1 .. Len(u) /\ n + k \in 1 .. Len(v)
    BY <1>10, <1>11, <1>12
<1>14. SumUpTo(Weights(w, v), n + k - 1) = SumUpTo(Loads(w, ss), b - 1) + SumUpTo(Weights(w, t), k - 1)
  <2>1. PICK f \in Seq(Nat) : f = Weights(w, s)
      BY WeightsAre
  <2>2. PICK g \in Seq(Nat) : g = Weights(w, t)
      BY WeightsAre
  <2>3. Len(f) = n /\ Len(g) = Len(t)
      BY <1>7, <2>1, <2>2, WeightsAre
  <2>4. Weights(w, u) = f \o g
      BY <1>8, <2>1, <2>2, WeightsJoined
  <2>5. PICK x \in Seq(Nat) : x = Weights(w, u)
      BY WeightsAre
  <2>6. PICK y \in Seq(Nat) : y = Weights(w, v)
      BY WeightsAre
  <2>7. SumUpTo(x, n + (k - 1)) = Total(f) + SumUpTo(g, k - 1)
    <3>1. k - 1 \in 0 .. Len(g)
        BY <1>11, <2>3
    <3>2. SumUpTo(f \o g, Len(f) + (k - 1)) = Total(f) + SumUpTo(g, k - 1)
        BY <3>1, SumJoined
    <3> QED BY <2>3, <2>4, <2>5, <3>2
  <2>8. SumUpTo(y, n + (k - 1)) = SumUpTo(x, n + (k - 1))
    <3>1. Len(x) = Len(u) /\ Len(y) = Len(v)
        BY <2>5, <2>6, WeightsAre
    <3>4. PICK p \in Nat : p = n + (k - 1) /\ p + 1 = n + k
      <4>1. n + (k - 1) \in Nat /\ (n + (k - 1)) + 1 = n + k
          BY <1>11
      <4> QED BY <4>1
    <3>7. PICK d \in Nat : d = Len(u)
        OBVIOUS
    <3>8. PICK e \in Nat : e = Len(v)
        OBVIOUS
    <3>9. n + k <= d /\ n + k <= e
        BY <1>13, <3>7, <3>8
    <3>5. p + 1 <= d /\ p + 1 <= e
        BY <3>4, <3>9
    <3>10. p <= d /\ p <= e
        BY <3>5
    <3>2. p \in Nat /\ p <= Len(x) /\ p <= Len(y)
        BY <3>1, <3>7, <3>8, <3>10
    <3>3. ASSUME NEW j \in 1 .. p PROVE y[j] = x[j]
      <4>1. j \in 1 .. Len(u) /\ j \in 1 .. Len(v)
        <5>1. j \in 1 .. d /\ j \in 1 .. e
            BY <3>10
        <5> QED BY <3>7, <3>8, <5>1
      <4>2. x[j] = w[u[j]]
        <5>1. \A i \in 1 .. Len(u) : Weights(w, u)[i] = w[u[i]]
            BY <1>0
        <5> QED BY <2>5, <4>1, <5>1
      <4>3. y[j] = w[v[j]]
        <5>1. \A i \in 1 .. Len(v) : Weights(w, v)[i] = w[v[i]]
            BY <1>0
        <5> QED BY <2>6, <4>1, <5>1
      <4> QED BY <1>10, <4>1, <4>2, <4>3
    <3>6. SumUpTo(y, p) = SumUpTo(x, p)
        BY <3>2, <3>3, SumSame
    <3> QED BY <3>4, <3>6
  <2>9. Total(f) = SumUpTo(Loads(w, ss), b - 1)
    <3>1. Total(Weights(w, h[b - 1])) = SumUpTo(Loads(w, ss), b - 1)
        BY <1>1, <1>2
    <3> QED BY <1>3, <2>1, <3>1
  <2>10. n + k - 1 = n + (k - 1)
      BY <1>11
  <2> QED BY <2>2, <2>6, <2>7, <2>8, <2>9, <2>10
<1> QED BY <1>1, <1>4, <1>6, <1>9, <1>10, <1>12, <1>13, <1>14

LEMMA FlattenFrom ==
  ASSUME NEW T, NEW ss \in Seq(Seq(T)), NEW j \in 1 .. Len(FlattenSeq(ss))
  PROVE  \E b \in 1 .. Len(ss) : \E k \in 1 .. Len(ss[b]) : j = Place(ss, b, k)
<1> DEFINE w == [x \in T |-> 0]
<1>0. w \in [T -> Nat]
    OBVIOUS
<1> HIDE DEF w
<1>1. PICK h : Joins(T, ss, h) /\ FlattenSeq(ss) = h[Len(ss)]
    BY FlattenIs
<1>2. \A i \in 0 .. Len(ss) : Len(h[i]) = SumUpTo(Lens(ss), i) /\ h[i] \in Seq(T) /\ Len(h[i]) \in Nat
  <2> SUFFICES ASSUME NEW i \in 0 .. Len(ss)
               PROVE  Len(h[i]) = SumUpTo(Lens(ss), i) /\ h[i] \in Seq(T) /\ Len(h[i]) \in Nat
      OBVIOUS
  <2>1. h[i] \in Seq(T)
      BY <1>1 DEF Joins
  <2>2. Len(h[i]) = SumUpTo(Lens(ss), i)
      BY <1>0, <1>1, PrefixMeasures
  <2> QED BY <2>1, <2>2
<1> DEFINE Found(x, i) == \E b \in 1 .. i : \E k \in 1 .. Len(ss[b]) : x = Place(ss, b, k)
           S == {i \in Nat : i <= Len(ss) => \A x \in 1 .. Len(h[i]) : Found(x, i)}
<1>3. 0 \in S
  <2>1. Len(h[0]) = 0
      BY <1>1 DEF Joins
  <2> QED BY <2>1
<1>4. ASSUME NEW i \in Nat, i \in S PROVE i + 1 \in S
  <2> SUFFICES ASSUME i + 1 <= Len(ss), NEW x \in 1 .. Len(h[i + 1]) PROVE Found(x, i + 1)
      OBVIOUS
  <2>1. i + 1 \in 1 .. Len(ss) /\ (i + 1) - 1 = i /\ i \in 0 .. Len(ss) /\ i + 1 \in 0 .. Len(ss)
      OBVIOUS
  <2>2. PICK s \in Seq(T) : s = h[i]
      BY <1>2, <2>1
  <2>3. PICK t \in Seq(T) : t = ss[i + 1]
      BY <2>1
  <2>4. h[i + 1] = s \o t
      BY <1>1, <2>1, <2>2, <2>3 DEF Joins
  <2>5. Len(h[i + 1]) = Len(s) + Len(t) /\ Len(s) \in Nat /\ Len(t) \in Nat
    <3>1. Len(s \o t) = Len(s) + Len(t) /\ Len(s) \in Nat /\ Len(t) \in Nat
        OBVIOUS
    <3> QED BY <2>4, <3>1
  <2>6. CASE x <= Len(s)
    <3>1. x \in 1 .. Len(h[i])
        BY <2>2, <2>5, <2>6
    <3>2. PICK b \in 1 .. i : \E k \in 1 .. Len(ss[b]) : x = Place(ss, b, k)
        BY <1>4, <2>1, <3>1
    <3>3. b \in 1 .. i + 1
        OBVIOUS
    <3> QED BY <3>2, <3>3
  <2>7. CASE ~ (x <= Len(s))
    <3>1. PICK k \in 1 .. Len(t) : x = Len(s) + k
      <4>1. x - Len(s) \in 1 .. Len(t) /\ x = Len(s) + (x - Len(s))
          BY <2>5, <2>7
      <4> QED BY <4>1
    <3>2. Len(s) = SumUpTo(Lens(ss), i)
        BY <1>2, <2>1, <2>2
    <3>3. x = Place(ss, i + 1, k)
        BY <2>1, <3>1, <3>2 DEF Place
    <3>4. i + 1 \in 1 .. i + 1 /\ k \in 1 .. Len(ss[i + 1])
        BY <2>3
    <3> QED BY <3>3, <3>4
  <2> QED BY <2>6, <2>7
<1>5. Len(ss) \in S
  <2>1. Len(ss) \in Nat
      OBVIOUS
  <2> HIDE DEF S
  <2> QED BY <1>3, <1>4, <2>1, SetInduction
<1>6. Len(ss) \in Nat
    OBVIOUS
<1> QED BY <1>1, <1>5, <1>6

----------------------------------------------------------------------------
(* The containers                                                          *)

Phases == {"sections", "symbols", "edata", "stuck", "addresses", "export", "reloc", "import", "emit", "done"}
Reading == {"sections", "symbols"}
Late == {"emit", "done"}

\* The sections of the objects, and .edata.
Rows == {s \in Nat \X Nat : s[1] \in DOMAIN world /\ s[2] \in DOMAIN world[s[1]].sections}
Ids == Rows \cup {EData}
BoxNames == STRING \cup {".edata"}
Boxes == [name : BoxNames, chain : Seq(Ids), size : Nat]

\* The containers without the two that add_import puts behind them.
Laid == IF phase \in Late /\ importLen > 0 THEN SubSeq(containers, 1, Len(containers) - 2) ELSE containers

Cursor == [obj : Nat, row : Nat]
AtTypes ==
  /\ world \in Worlds /\ phase \in Phases /\ at \in Cursor /\ importLen \in Nat /\ exportLen \in Nat
  /\ phase \in Reading => at.obj \in DOMAIN world
  /\ phase = "sections" => at.row \in DOMAIN world[at.obj].sections
  /\ phase = "symbols" => at.row \in DOMAIN world[at.obj].symbols
  /\ phase = "addresses" => at.row \in 1 .. Len(containers)

ReadSoFar(s) ==
  /\ s \in Rows
  /\ phase = "sections" => s[1] < at.obj \/ (s[1] = at.obj /\ s[2] < at.row)
  /\ phase = "symbols" => s[1] <= at.obj

Holds(cs, s) == \E b \in 1 .. Len(cs) : \E k \in 1 .. Len(cs[b].chain) : cs[b].chain[k] = s
Once(cs) ==
  \A a, b \in 1 .. Len(cs) : \A k \in 1 .. Len(cs[a].chain) : \A l \in 1 .. Len(cs[b].chain) :
    cs[a].chain[k] = cs[b].chain[l] => a = b /\ k = l

\* Every section that was read has one place in one chain.
BoxInv ==
  /\ AtTypes
  /\ Laid \in Seq(Boxes)
  /\ (phase \in Late /\ importLen > 0) => containers = Laid \o ImportSections
  /\ Once(Laid)
  /\ \A s : Holds(Laid, s) => ReadSoFar(s) \/ (s = EData /\ phase \notin Reading \cup {"edata"})
  /\ \A s : ReadSoFar(s) => Holds(Laid, s)

LEMMA WorldIs ==
  ASSUME world \in Worlds
  PROVE  /\ world \in Seq(Objects) /\ world # <<>>
         /\ \A o \in DOMAIN world :
              /\ world[o] \in Objects
              /\ world[o].sections \in Seq(SectionRows) /\ world[o].sections # <<>>
              /\ world[o].symbols \in Seq(SymbolRows) /\ world[o].symbols # <<>>
<1>1. world \in Seq(Objects) /\ world # <<>>
    BY WorldsAssumption
<1>2. ASSUME NEW o \in DOMAIN world
      PROVE  /\ world[o] \in Objects
             /\ world[o].sections \in Seq(SectionRows) /\ world[o].sections # <<>>
             /\ world[o].symbols \in Seq(SymbolRows) /\ world[o].symbols # <<>>
  <2>1. world[o] \in Objects
      BY <1>1
  <2>2. world[o].sections \in Seq(SectionRows) /\ world[o].symbols \in Seq(SymbolRows)
      BY <2>1 DEF Objects
  <2>3. world[o].sections # <<>> /\ world[o].symbols # <<>>
      BY WorldsAssumption
  <2> QED BY <2>1, <2>2, <2>3
<1> QED BY <1>1, <1>2

\* ds is cs with s at one more place, behind the others of its chain.
Adds(cs, ds, s) ==
  \E c \in 1 .. Len(ds) : \E m \in 1 .. Len(ds[c].chain) :
    /\ ds[c].chain[m] = s
    /\ \A b \in 1 .. Len(ds) : \A k \in 1 .. Len(ds[b].chain) :
         \/ b = c /\ k = m
         \/ b \in 1 .. Len(cs) /\ k \in 1 .. Len(cs[b].chain) /\ ds[b].chain[k] = cs[b].chain[k]
    /\ \A b \in 1 .. Len(cs) : \A k \in 1 .. Len(cs[b].chain) :
         b \in 1 .. Len(ds) /\ k \in 1 .. Len(ds[b].chain) /\ ds[b].chain[k] = cs[b].chain[k]

\* Boxes, without their fields.
LEMMA BoxIs ==
  ASSUME NEW T, NEW x \in [name : BoxNames, chain : Seq(T), size : Nat]
  PROVE  x.chain \in Seq(T) /\ x.size \in Nat /\ x.name \in BoxNames
OBVIOUS

LEMMA BoxMade ==
  ASSUME NEW T, NEW nm \in BoxNames, NEW c \in Seq(T), NEW n \in Nat
  PROVE  [name |-> nm, chain |-> c, size |-> n] \in [name : BoxNames, chain : Seq(T), size : Nat]
OBVIOUS

\* What can be done with a box without knowing its fields.
BoxLike(B, T) ==
  \A x \in B : x.chain \in Seq(T) /\ \A t \in Seq(T) : [x EXCEPT !.chain = t] \in B /\ [x EXCEPT !.chain = t].chain = t

LEMMA BoxesAreBoxLike ==
  ASSUME NEW T
  PROVE  BoxLike([name : BoxNames, chain : Seq(T), size : Nat], T)
<1> SUFFICES ASSUME NEW x \in [name : BoxNames, chain : Seq(T), size : Nat], NEW t \in Seq(T)
             PROVE  /\ x.chain \in Seq(T)
                    /\ [x EXCEPT !.chain = t] \in [name : BoxNames, chain : Seq(T), size : Nat]
                    /\ [x EXCEPT !.chain = t].chain = t
    BY DEF BoxLike
<1>1. [x EXCEPT !.chain = t] = [name |-> x.name, chain |-> t, size |-> x.size]
    OBVIOUS
<1> QED BY <1>1

LEMMA AddsBox ==
  ASSUME NEW T, NEW cs \in Seq(T), NEW x \in T, NEW s, x.chain = <<s>>
  PROVE  Adds(cs, Append(cs, x), s)
<1>1. PICK n \in Nat : n = Len(cs)
    OBVIOUS
<1>2. PICK ds : ds = Append(cs, x)
    OBVIOUS
<1>3. Len(ds) = n + 1 /\ ds[n + 1] = x /\ \A i \in 1 .. n : ds[i] = cs[i]
    BY <1>1, <1>2
<1>4. Len(x.chain) = 1 /\ x.chain[1] = s
    OBVIOUS
<1>5. n + 1 \in 1 .. Len(ds) /\ 1 \in 1 .. Len(ds[n + 1].chain) /\ ds[n + 1].chain[1] = s
  <2>1. n + 1 \in 1 .. Len(ds) /\ 1 \in 1 .. Len(x.chain)
      BY <1>3, <1>4
  <2>2. ds[n + 1] = x
      BY <1>3
  <2> QED BY <1>4, <2>1, <2>2
<1>6. ASSUME NEW b \in 1 .. Len(ds), NEW k \in 1 .. Len(ds[b].chain)
      PROVE  \/ b = n + 1 /\ k = 1
             \/ b \in 1 .. Len(cs) /\ k \in 1 .. Len(cs[b].chain) /\ ds[b].chain[k] = cs[b].chain[k]
  <2>1. CASE b = n + 1
    <3>1. k \in 1 .. 1
        BY <1>3, <1>4, <2>1
    <3> QED BY <2>1, <3>1
  <2>2. CASE b # n + 1
    <3>1. b \in 1 .. n
        BY <1>3, <2>2
    <3>2. ds[b] = cs[b]
        BY <1>3, <3>1
    <3> QED BY <1>1, <3>1, <3>2
  <2> QED BY <2>1, <2>2
<1>7. ASSUME NEW b \in 1 .. Len(cs), NEW k \in 1 .. Len(cs[b].chain)
      PROVE  b \in 1 .. Len(ds) /\ k \in 1 .. Len(ds[b].chain) /\ ds[b].chain[k] = cs[b].chain[k]
  <2>1. b \in 1 .. n /\ b \in 1 .. Len(ds)
      BY <1>1, <1>3
  <2>2. ds[b] = cs[b]
      BY <1>3, <2>1
  <2> QED BY <2>1, <2>2
<1> QED BY <1>2, <1>5, <1>6, <1>7 DEF Adds

\* A section is put into chain c.
LEMMA AddsToChain ==
  ASSUME NEW T, NEW B, BoxLike(B, T),
         NEW cs \in Seq(B), NEW c \in 1 .. Len(cs), NEW s \in T
  PROVE  /\ Adds(cs, [cs EXCEPT ![c].chain = Append(@, s)], s)
         /\ [cs EXCEPT ![c].chain = Append(@, s)] \in Seq(B)
<1>1. PICK n \in Nat : n = Len(cs) /\ DOMAIN cs = 1 .. n
    OBVIOUS
<1>2. PICK x \in B : x = cs[c]
    OBVIOUS
<1>3. PICK y : y = [x EXCEPT !.chain = Append(@, s)]
    OBVIOUS
<1>4. PICK ds : ds = [cs EXCEPT ![c].chain = Append(@, s)]
    OBVIOUS
<1>5. x.chain \in Seq(T)
    BY DEF BoxLike
<1>6. y \in B /\ y.chain = Append(x.chain, s)
  <2>1. Append(x.chain, s) \in Seq(T)
      BY <1>5
  <2> QED BY <1>3, <2>1 DEF BoxLike
<1>7. ds = [i \in 1 .. n |-> IF i = c THEN y ELSE cs[i]]
    BY <1>1, <1>2, <1>3, <1>4
<1>8. ds \in Seq(B) /\ Len(ds) = n /\ \A i \in 1 .. n : ds[i] = IF i = c THEN y ELSE cs[i]
  <2>1. \A i \in 1 .. n : (IF i = c THEN y ELSE cs[i]) \in B
      BY <1>1, <1>6
  <2> QED BY <1>7, <2>1
<1>9. PICK m \in Nat : m = Len(x.chain)
    BY <1>5
<1>10. Len(y.chain) = m + 1 /\ y.chain[m + 1] = s /\ \A i \in 1 .. m : y.chain[i] = x.chain[i]
    BY <1>5, <1>6, <1>9
<1>11. c \in 1 .. Len(ds) /\ m + 1 \in 1 .. Len(ds[c].chain) /\ ds[c].chain[m + 1] = s
  <2>1. c \in 1 .. n /\ c \in 1 .. Len(ds)
      BY <1>1, <1>8
  <2>2. ds[c] = y
      BY <1>8, <2>1
  <2>3. m + 1 \in 1 .. Len(y.chain)
      BY <1>10
  <2> QED BY <1>10, <2>1, <2>2, <2>3
<1>12. ASSUME NEW b \in 1 .. Len(ds), NEW k \in 1 .. Len(ds[b].chain)
       PROVE  \/ b = c /\ k = m + 1
              \/ b \in 1 .. Len(cs) /\ k \in 1 .. Len(cs[b].chain) /\ ds[b].chain[k] = cs[b].chain[k]
  <2>1. b \in 1 .. n
      BY <1>8
  <2>2. CASE b = c
    <3>1. ds[b] = y /\ cs[b] = x
        BY <1>2, <1>8, <2>1, <2>2
    <3>2. k \in 1 .. m + 1
        BY <1>10, <3>1
    <3>3. k = m + 1 \/ k \in 1 .. m
        BY <3>2
    <3> QED BY <1>1, <1>9, <1>10, <2>1, <2>2, <3>1, <3>3
  <2>3. CASE b # c
    <3>1. ds[b] = cs[b]
        BY <1>8, <2>1, <2>3
    <3> QED BY <1>1, <2>1, <3>1
  <2> QED BY <2>2, <2>3
<1>13. ASSUME NEW b \in 1 .. Len(cs), NEW k \in 1 .. Len(cs[b].chain)
       PROVE  b \in 1 .. Len(ds) /\ k \in 1 .. Len(ds[b].chain) /\ ds[b].chain[k] = cs[b].chain[k]
  <2>1. b \in 1 .. n /\ b \in 1 .. Len(ds)
      BY <1>1, <1>8
  <2>2. CASE b = c
    <3>1. ds[b] = y /\ cs[b] = x
        BY <1>2, <1>8, <2>1, <2>2
    <3>2. k \in 1 .. m /\ k \in 1 .. m + 1
        BY <1>9, <3>1
    <3> QED BY <1>10, <2>1, <3>1, <3>2
  <2>3. CASE b # c
    <3>1. ds[b] = cs[b]
        BY <1>8, <2>1, <2>3
    <3> QED BY <2>1, <3>1
  <2> QED BY <2>2, <2>3
<1>14. Adds(cs, ds, s)
    BY <1>11, <1>12, <1>13 DEF Adds
<1> QED BY <1>4, <1>8, <1>14

LEMMA AddsHolds ==
  ASSUME NEW cs, NEW ds, NEW s, Adds(cs, ds, s)
  PROVE  /\ \A x : Holds(ds, x) <=> (Holds(cs, x) \/ x = s)
         /\ (Once(cs) /\ ~ Holds(cs, s)) => Once(ds)
<1>1. PICK c \in 1 .. Len(ds) : \E m \in 1 .. Len(ds[c].chain) :
        /\ ds[c].chain[m] = s
        /\ \A b \in 1 .. Len(ds) : \A k \in 1 .. Len(ds[b].chain) :
             \/ b = c /\ k = m
             \/ b \in 1 .. Len(cs) /\ k \in 1 .. Len(cs[b].chain) /\ ds[b].chain[k] = cs[b].chain[k]
        /\ \A b \in 1 .. Len(cs) : \A k \in 1 .. Len(cs[b].chain) :
             b \in 1 .. Len(ds) /\ k \in 1 .. Len(ds[b].chain) /\ ds[b].chain[k] = cs[b].chain[k]
    BY DEF Adds
<1>2. PICK m \in 1 .. Len(ds[c].chain) :
        /\ ds[c].chain[m] = s
        /\ \A b \in 1 .. Len(ds) : \A k \in 1 .. Len(ds[b].chain) :
             \/ b = c /\ k = m
             \/ b \in 1 .. Len(cs) /\ k \in 1 .. Len(cs[b].chain) /\ ds[b].chain[k] = cs[b].chain[k]
        /\ \A b \in 1 .. Len(cs) : \A k \in 1 .. Len(cs[b].chain) :
             b \in 1 .. Len(ds) /\ k \in 1 .. Len(ds[b].chain) /\ ds[b].chain[k] = cs[b].chain[k]
    BY <1>1
<1>3. ASSUME NEW x, Holds(ds, x) PROVE Holds(cs, x) \/ x = s
  <2>1. PICK b \in 1 .. Len(ds) : \E k \in 1 .. Len(ds[b].chain) : ds[b].chain[k] = x
      BY <1>3 DEF Holds
  <2>2. PICK k \in 1 .. Len(ds[b].chain) : ds[b].chain[k] = x
      BY <2>1
  <2> QED BY <1>2, <2>2 DEF Holds
<1>4. ASSUME NEW x, Holds(cs, x) \/ x = s PROVE Holds(ds, x)
  <2>1. CASE x = s
      BY <1>2, <2>1 DEF Holds
  <2>2. CASE Holds(cs, x)
    <3>1. PICK b \in 1 .. Len(cs) : \E k \in 1 .. Len(cs[b].chain) : cs[b].chain[k] = x
        BY <2>2 DEF Holds
    <3>2. PICK k \in 1 .. Len(cs[b].chain) : cs[b].chain[k] = x
        BY <3>1
    <3>3. b \in 1 .. Len(ds) /\ k \in 1 .. Len(ds[b].chain) /\ ds[b].chain[k] = x
        BY <1>2, <3>2
    <3> QED BY <3>3 DEF Holds
  <2> QED BY <1>4, <2>1, <2>2
<1>5. ASSUME Once(cs), ~ Holds(cs, s),
             NEW a \in 1 .. Len(ds), NEW k \in 1 .. Len(ds[a].chain),
             NEW b \in 1 .. Len(ds), NEW l \in 1 .. Len(ds[b].chain), ds[a].chain[k] = ds[b].chain[l]
      PROVE  a = b /\ k = l
  <2>1. \/ a = c /\ k = m
        \/ a \in 1 .. Len(cs) /\ k \in 1 .. Len(cs[a].chain) /\ ds[a].chain[k] = cs[a].chain[k]
      BY <1>2
  <2>2. \/ b = c /\ l = m
        \/ b \in 1 .. Len(cs) /\ l \in 1 .. Len(cs[b].chain) /\ ds[b].chain[l] = cs[b].chain[l]
      BY <1>2
  <2>3. CASE a = c /\ k = m /\ ~ (b = c /\ l = m)
    <3>1. cs[b].chain[l] = s /\ b \in 1 .. Len(cs) /\ l \in 1 .. Len(cs[b].chain)
        BY <1>2, <1>5, <2>2, <2>3
    <3> QED BY <1>5, <3>1 DEF Holds
  <2>4. CASE b = c /\ l = m /\ ~ (a = c /\ k = m)
    <3>1. cs[a].chain[k] = s /\ a \in 1 .. Len(cs) /\ k \in 1 .. Len(cs[a].chain)
        BY <1>2, <1>5, <2>1, <2>4
    <3> QED BY <1>5, <3>1 DEF Holds
  <2>5. CASE ~ (a = c /\ k = m) /\ ~ (b = c /\ l = m)
    <3>1. /\ a \in 1 .. Len(cs) /\ k \in 1 .. Len(cs[a].chain)
          /\ b \in 1 .. Len(cs) /\ l \in 1 .. Len(cs[b].chain)
          /\ cs[a].chain[k] = cs[b].chain[l]
        BY <1>5, <2>1, <2>2, <2>5
    <3>2. Once(cs)
        BY <1>5
    <3> QED BY SMTT(30), <3>1, <3>2 DEF Once
  <2> QED BY <2>3, <2>4, <2>5
<1>6. (Once(cs) /\ ~ Holds(cs, s)) => Once(ds)
    BY <1>5 DEF Once
<1> QED BY <1>3, <1>4, <1>6


LEMMA NamesAre ==
  ASSUME NEW sym \in SymbolRows
  PROVE  GET_NAME(sym) \in Names \cup {Unnamed} /\ Length(GET_NAME(sym)) \in Nat \ {0}
<1>1. sym.name \in Names /\ NameLen[sym.name] \in Nat \ {0}
    BY TablesAssumption DEF SymbolRows
<1> QED BY <1>1 DEF GET_NAME, Length

LEMMA CursorIs ==
  ASSUME NEW c \in Cursor, NEW n \in Nat
  PROVE  /\ c.obj \in Nat /\ c.row \in Nat
         /\ [c EXCEPT !.row = n] \in Cursor /\ [c EXCEPT !.row = n].row = n /\ [c EXCEPT !.row = n].obj = c.obj
         /\ \A o \in Nat : /\ [obj |-> o, row |-> n] \in Cursor /\ [obj |-> o, row |-> n].obj = o
                           /\ [obj |-> o, row |-> n].row = n
BY DEF Cursor

LEMMA CursorSteps ==
  ASSUME at \in Cursor
  PROVE  /\ at.obj \in Nat /\ at.row \in Nat
         /\ [at EXCEPT !.row = 1] \in Cursor /\ [at EXCEPT !.row = 1].row = 1 /\ [at EXCEPT !.row = 1].obj = at.obj
         /\ [at EXCEPT !.row = @ + 1] \in Cursor /\ [at EXCEPT !.row = @ + 1].row = at.row + 1
         /\ [at EXCEPT !.row = @ + 1].obj = at.obj
<1>1. at.obj \in Nat /\ at.row \in Nat /\ at = [obj |-> at.obj, row |-> at.row]
    BY DEF Cursor
<1>2. [at EXCEPT !.row = 1] = [obj |-> at.obj, row |-> 1] /\ [at EXCEPT !.row = @ + 1] = [obj |-> at.obj, row |-> at.row + 1]
    BY <1>1
<1>3. at.row + 1 \in Nat /\ 1 \in Nat
    BY <1>1
<1> QED BY <1>1, <1>2, <1>3 DEF Cursor

LEMMA RowsKept == ASSUME world' = world PROVE Rows' = Rows /\ Ids' = Ids /\ Boxes' = Boxes
BY DEF Rows, Ids, Boxes, EData

LEMMA InitBoxes == Init => BoxInv
<1> SUFFICES ASSUME Init PROVE BoxInv
    OBVIOUS
<1>1. /\ world \in Worlds /\ phase = "sections" /\ at = [obj |-> 1, row |-> 1]
      /\ containers = <<>> /\ importLen = 0 /\ exportLen = 0
    BY DEF Init
<1>2. at \in Cursor /\ at.obj = 1 /\ at.row = 1
  <2>1. 1 \in Nat
      OBVIOUS
  <2> QED BY <1>1, <2>1 DEF Cursor
<1>3. world \in Seq(Objects) /\ world # <<>>
    BY <1>1, WorldIs
<1>4. 1 \in DOMAIN world
    BY <1>3
<1>5. world[1].sections \in Seq(SectionRows) /\ world[1].sections # <<>>
    BY <1>1, <1>4, WorldIs
<1>6. 1 \in DOMAIN world[1].sections
    BY <1>5
<1>7. AtTypes
    BY <1>1, <1>2, <1>4, <1>6 DEF AtTypes, Phases, Reading
<1>8. Laid = <<>> /\ Len(Laid) = 0
    BY <1>1 DEF Laid, Late
<1>9. \A s : ~ ReadSoFar(s)
  <2> SUFFICES ASSUME NEW s, ReadSoFar(s) PROVE FALSE
      OBVIOUS
  <2>1. s \in Nat \X Nat /\ s[1] \in DOMAIN world /\ s[2] \in DOMAIN world[s[1]].sections
      BY DEF ReadSoFar, Rows
  <2>2. s[1] \in 1 .. Len(world)
      BY <1>3, <2>1
  <2>3. s[1] < 1 \/ (s[1] = 1 /\ s[2] < 1)
      BY <1>1, <1>2 DEF ReadSoFar
  <2>4. s[1] = 1 /\ s[2] < 1
      BY <2>1, <2>2, <2>3
  <2>5. s[2] \in 1 .. Len(world[1].sections)
      BY <1>5, <2>1, <2>4
  <2> QED BY <2>1, <2>4, <2>5
<1>10. \A s : ~ Holds(Laid, s)
    BY <1>8 DEF Holds
<1>11. Once(Laid)
    BY <1>8 DEF Once
<1>12. <<>> \in Seq(Boxes)
    OBVIOUS
<1> QED BY <1>1, <1>7, <1>8, <1>9, <1>10, <1>11, <1>12 DEF BoxInv, Late

\* The same sections in the same chains.
SameChains(cs, ds) ==
  Len(ds) = Len(cs) /\ \A b \in 1 .. Len(cs) : ds[b].chain = cs[b].chain

LEMMA HoldsSame ==
  ASSUME NEW cs, NEW ds, SameChains(cs, ds)
  PROVE  (\A s : Holds(ds, s) <=> Holds(cs, s)) /\ (Once(cs) <=> Once(ds))
<1>1. PICK n : n = Len(cs)
    OBVIOUS
<1>2. Len(cs) = n /\ Len(ds) = n /\ \A b \in 1 .. n : ds[b].chain = cs[b].chain
    BY <1>1 DEF SameChains
<1>3. ASSUME NEW s, Holds(cs, s) PROVE Holds(ds, s)
  <2>1. PICK b \in 1 .. n : \E k \in 1 .. Len(cs[b].chain) : cs[b].chain[k] = s
      BY <1>2, <1>3 DEF Holds
  <2>2. ds[b].chain = cs[b].chain
      BY <1>2
  <2> QED BY <1>2, <2>1, <2>2 DEF Holds
<1>4. ASSUME NEW s, Holds(ds, s) PROVE Holds(cs, s)
  <2>1. PICK b \in 1 .. n : \E k \in 1 .. Len(ds[b].chain) : ds[b].chain[k] = s
      BY <1>2, <1>4 DEF Holds
  <2>2. ds[b].chain = cs[b].chain
      BY <1>2
  <2> QED BY <1>2, <2>1, <2>2 DEF Holds
<1>5. Once(cs) => Once(ds)
  <2> SUFFICES ASSUME Once(cs), NEW a \in 1 .. n, NEW b \in 1 .. n, NEW k \in 1 .. Len(ds[a].chain),
                      NEW l \in 1 .. Len(ds[b].chain), ds[a].chain[k] = ds[b].chain[l]
               PROVE  a = b /\ k = l
      BY <1>2 DEF Once
  <2>1. ds[a].chain = cs[a].chain /\ ds[b].chain = cs[b].chain
      BY <1>2
  <2> QED BY <1>2, <2>1 DEF Once
<1>6. Once(ds) => Once(cs)
  <2> SUFFICES ASSUME Once(ds), NEW a \in 1 .. n, NEW b \in 1 .. n, NEW k \in 1 .. Len(cs[a].chain),
                      NEW l \in 1 .. Len(cs[b].chain), cs[a].chain[k] = cs[b].chain[l]
               PROVE  a = b /\ k = l
      BY <1>2 DEF Once
  <2>1. ds[a].chain = cs[a].chain /\ ds[b].chain = cs[b].chain
      BY <1>2
  <2> QED BY <1>2, <2>1 DEF Once
<1> QED BY <1>3, <1>4, <1>5, <1>6

LEMMA BoxKept ==
  ASSUME BoxInv, world' = world, AtTypes', Laid' \in Seq(Boxes), SameChains(Laid, Laid'),
         (phase \in Late /\ importLen > 0)' => containers' = Laid' \o ImportSections',
         phase' # "edata", phase \notin Reading, phase' \notin Reading
  PROVE  BoxInv'
<1>1. Rows' = Rows /\ Boxes' = Boxes /\ EData' = EData
    BY RowsKept DEF EData
<1>2. \A s : ReadSoFar(s)' <=> ReadSoFar(s)
    BY <1>1 DEF ReadSoFar, Reading
<1>3. \A s : Holds(Laid', s) <=> Holds(Laid, s)
    BY HoldsSame
<1>4. Once(Laid')
    BY HoldsSame DEF BoxInv
<1>5. \A s : Holds(Laid', s) => ReadSoFar(s)' \/ (s = EData' /\ phase' \notin Reading \cup {"edata"})
  <2> SUFFICES ASSUME NEW s, Holds(Laid', s)
               PROVE ReadSoFar(s)' \/ (s = EData' /\ phase' \notin Reading \cup {"edata"})
      OBVIOUS
  <2>1. ReadSoFar(s) \/ (s = EData /\ phase \notin Reading \cup {"edata"})
      BY <1>3 DEF BoxInv
  <2> QED BY <1>1, <1>2, <2>1 DEF Reading
<1> QED BY <1>1, <1>2, <1>3, <1>4, <1>5 DEF BoxInv

LEMMA StepSection == BoxInv /\ section_callback => BoxInv'
<1> SUFFICES ASSUME BoxInv, section_callback PROVE BoxInv'
    OBVIOUS
<1> DEFINE sec == <<at.obj, at.row>>
           o == at.obj
           r == at.row
           n == Len(world[at.obj].sections)
<1>1. /\ phase = "sections" /\ world' = world /\ importLen' = importLen /\ exportLen' = exportLen
      /\ r = n => phase' = "symbols" /\ at' = [at EXCEPT !.row = 1]
      /\ r # n => phase' = phase /\ at' = [at EXCEPT !.row = @ + 1]
    BY DEF section_callback, Obj, importVars
<1>2. /\ world \in Worlds /\ at \in Cursor /\ importLen \in Nat /\ exportLen \in Nat
      /\ o \in DOMAIN world /\ r \in DOMAIN world[o].sections
    BY <1>1 DEF BoxInv, AtTypes, Reading
<1>3. /\ world \in Seq(Objects) /\ world[o].sections \in Seq(SectionRows)
      /\ world[o].symbols \in Seq(SymbolRows) /\ world[o].symbols # <<>>
    BY <1>2, WorldIs
<1>4. o \in Nat /\ r \in Nat /\ n \in Nat /\ r \in 1 .. n /\ o \in 1 .. Len(world)
    BY SMTT(30), <1>2, <1>3, CursorSteps
<1>5. sec \in Rows
  <2>1. sec \in Nat \X Nat /\ sec[1] = o /\ sec[2] = r
      BY <1>4
  <2> QED BY <1>2, <2>1 DEF Rows
<1>6. at' \in Cursor /\ at'.obj = o /\ (r = n => at'.row = 1) /\ (r # n => at'.row = r + 1)
    BY <1>1, <1>2, CursorSteps
<1>7. AtTypes'
  <2>1. CASE r = n
    <3>1. 1 \in DOMAIN world[o].symbols
        BY <1>3
    <3> QED BY <1>1, <1>2, <1>6, <2>1, <3>1 DEF AtTypes, Phases, Reading
  <2>2. CASE r # n
    <3>1. r + 1 \in DOMAIN world[o].sections
        BY <1>3, <1>4, <2>2
    <3> QED BY <1>1, <1>2, <1>6, <2>2, <3>1 DEF AtTypes, Phases, Reading
  <2> QED BY <2>1, <2>2
<1>8. Laid = containers /\ Laid' = containers'
    BY <1>1 DEF Laid, Late
<1>9. Rows' = Rows /\ Boxes' = Boxes /\ EData' = EData
    BY <1>1, RowsKept DEF EData
<1>10. containers \in Seq(Boxes)
    BY <1>8 DEF BoxInv
<1>11. Adds(containers, containers', sec) /\ containers' \in Seq(Boxes)
  <2> DEFINE nm == Obj.sections[at.row].name
             box == SelectInSeq(containers, LAMBDA c : c.name = nm)
             x == [name |-> nm, chain |-> <<sec>>, size |-> 0]
  <2>1. containers' = IF box = 0 THEN Append(containers, x)
                      ELSE [containers EXCEPT ![box].chain = Append(@, sec)]
      BY DEF section_callback
  <2>2. box \in 0 .. Len(containers)
    <3> DEFINE I == {j \in 1 .. Len(containers) : containers[j].name = nm}
    <3>1. box = IF I # {} THEN Min(I) ELSE 0
        BY DEF SelectInSeq
    <3>2. I \subseteq 1 .. Len(containers) /\ I \subseteq Nat
        OBVIOUS
    <3>3. Len(containers) \in Nat
        BY <1>10
    <3> HIDE DEF I, box
    <3>4. I # {} => Min(I) \in I
        BY <3>2, MinIsLeast
    <3>5. I # {} => box \in 1 .. Len(containers)
        BY <3>1, <3>2, <3>4
    <3> QED BY <3>1, <3>3, <3>5
  <2>3. nm \in BoxNames
    <3>1. world[o].sections[r] \in SectionRows
        BY <1>2, <1>3
    <3> QED BY <3>1 DEF SectionRows, Obj, BoxNames
  <2>4. sec \in Ids
      BY <1>5 DEF Ids
  <2> HIDE DEF nm, box, sec
  <2>5. x \in Boxes /\ x.chain = <<sec>>
    <3>1. <<sec>> \in Seq(Ids) /\ 0 \in Nat
        BY <2>4
    <3> QED BY <2>3, <3>1, BoxMade DEF Boxes
  <2> HIDE DEF x
  <2>6. CASE box = 0
    <3>1. Adds(containers, Append(containers, x), sec)
        BY <1>10, <2>5, AddsBox
    <3>2. Append(containers, x) \in Seq(Boxes)
        BY <1>10, <2>5
    <3> QED BY <2>1, <2>6, <3>1, <3>2
  <2>7. CASE box # 0
    <3>1. box \in 1 .. Len(containers)
        BY <1>10, <2>2, <2>7
    <3>2. BoxLike(Boxes, Ids)
        BY BoxesAreBoxLike DEF Boxes
    <3>3. Adds(containers, [containers EXCEPT ![box].chain = Append(@, sec)], sec)
          /\ [containers EXCEPT ![box].chain = Append(@, sec)] \in Seq(Boxes)
        BY <1>10, <2>4, <3>1, <3>2, AddsToChain
    <3> QED BY <2>1, <2>7, <3>3
  <2> QED BY <2>6, <2>7
<1>12. \A s : ReadSoFar(s)' <=> ReadSoFar(s) \/ s = sec
  <2> SUFFICES ASSUME NEW s \in Rows PROVE ReadSoFar(s)' <=> ReadSoFar(s) \/ s = sec
      BY <1>5, <1>9 DEF ReadSoFar
  <2>1. s \in Nat \X Nat /\ s[1] \in Nat /\ s[2] \in Nat /\ s = <<s[1], s[2]>>
      BY DEF Rows
  <2>2. s[1] = o => s[2] \in 1 .. n
      BY <1>3 DEF Rows
  <2>3. s = sec <=> s[1] = o /\ s[2] = r
      BY <2>1
  <2>4. ReadSoFar(s) <=> (s[1] < o \/ (s[1] = o /\ s[2] < r))
      BY <1>1 DEF ReadSoFar
  <2> HIDE DEF sec
  <2>5. CASE r = n
    <3>1. ReadSoFar(s)' <=> s[1] <= o
        BY <1>1, <1>6, <1>9, <2>5 DEF ReadSoFar
    <3>2. s[1] = o => s[2] <= n
        BY <1>4, <2>2
    <3>3. s[1] <= o <=> (s[1] < o \/ s[1] = o)
        BY <1>4, <2>1
    <3>4. s[1] = o => (s[2] < r \/ s[2] = r)
        BY <1>4, <2>1, <2>5, <3>2
    <3> QED BY <2>3, <2>4, <3>1, <3>3, <3>4
  <2>6. CASE r # n
    <3>1. ReadSoFar(s)' <=> (s[1] < o \/ (s[1] = o /\ s[2] < r + 1))
        BY <1>1, <1>6, <1>9, <2>6 DEF ReadSoFar
    <3>2. s[2] < r + 1 <=> (s[2] < r \/ s[2] = r)
        BY <1>4, <2>1
    <3> QED BY <2>3, <2>4, <3>1, <3>2
  <2> QED BY <2>5, <2>6
<1>13. ~ ReadSoFar(sec)
  <2>1. sec[1] = o /\ sec[2] = r
      OBVIOUS
  <2> QED BY <1>1, <1>4, <2>1 DEF ReadSoFar
<1> HIDE DEF sec
<1>14. ~ Holds(containers, sec)
    BY <1>1, <1>8, <1>13 DEF BoxInv, Reading
<1>15. Once(containers') /\ \A s : Holds(containers', s) <=> (Holds(containers, s) \/ s = sec)
    BY <1>8, <1>11, <1>14, AddsHolds DEF BoxInv
<1>16. \A s : Holds(containers, s) => ReadSoFar(s)
    BY <1>1, <1>8 DEF BoxInv, Reading
<1>17. phase' \notin Late
    BY <1>1 DEF Late
<1>18. \A s : ReadSoFar(s) => Holds(containers, s)
    BY <1>8 DEF BoxInv
<1> QED BY <1>7, <1>8, <1>9, <1>11, <1>12, <1>15, <1>16, <1>17, <1>18 DEF BoxInv

LEMMA SymtabIs ==
  ASSUME BoxInv, symtab_callback
  PROVE  LET o == at.obj
             r == at.row
             n == Len(world[at.obj].symbols)
         IN  /\ o \in Nat /\ r \in Nat /\ n \in Nat /\ r \in 1 .. n /\ o \in 1 .. Len(world) /\ Len(world) \in Nat
             /\ \/ r < n /\ phase' = "symbols" /\ at' = [at EXCEPT !.row = @ + 1]
                \/ r = n /\ o < Len(world) /\ phase' = "sections" /\ at' = [obj |-> o + 1, row |-> 1]
                \/ r = n /\ o = Len(world) /\ phase' = "edata" /\ at' = at
<1> DEFINE o == at.obj
           r == at.row
           n == Len(world[at.obj].symbols)
<1>1. phase = "symbols" /\ UNCHANGED <<world, containers, importLen>>
    BY DEF symtab_callback, importVars
<1>2. /\ world \in Worlds /\ at \in Cursor /\ importLen \in Nat /\ exportLen \in Nat
      /\ o \in DOMAIN world /\ r \in DOMAIN world[o].symbols
    BY <1>1 DEF BoxInv, AtTypes, Reading
<1>3. /\ world \in Seq(Objects) /\ world[o].symbols \in Seq(SymbolRows)
      /\ \A p \in DOMAIN world : world[p].sections \in Seq(SectionRows) /\ world[p].sections # <<>>
    BY <1>2, WorldIs
<1>4. o \in Nat /\ r \in Nat /\ n \in Nat /\ r \in 1 .. n /\ o \in 1 .. Len(world) /\ Len(world) \in Nat
    BY <1>2, <1>3, CursorSteps
<1>5. \/ r < n /\ phase' = "symbols" /\ at' = [at EXCEPT !.row = @ + 1]
      \/ r = n /\ o < Len(world) /\ phase' = "sections" /\ at' = [obj |-> o + 1, row |-> 1]
      \/ r = n /\ o = Len(world) /\ phase' = "edata" /\ at' = at
  <2>1. CASE r < n
      BY <1>1, <1>4, <2>1 DEF symtab_callback, Obj
  <2>2. CASE r = n /\ o < Len(world)
      BY <1>1, <1>4, <2>2 DEF symtab_callback, Obj
  <2>3. CASE r = n /\ ~ (o < Len(world))
    <3>1. o = Len(world)
        BY <1>4, <2>3
    <3> QED BY <1>1, <1>4, <2>3, <3>1 DEF symtab_callback, Obj
  <2> QED BY <1>4, <2>1, <2>2, <2>3
<1> QED BY <1>4, <1>5

LEMMA StepSymtab == BoxInv /\ symtab_callback => BoxInv'
<1> SUFFICES ASSUME BoxInv, symtab_callback PROVE BoxInv'
    OBVIOUS
<1> DEFINE o == at.obj
           r == at.row
           n == Len(world[at.obj].symbols)
<1>1. phase = "symbols" /\ UNCHANGED <<world, containers, importLen>>
    BY DEF symtab_callback, importVars
<1>2. /\ world \in Worlds /\ at \in Cursor /\ importLen \in Nat /\ exportLen \in Nat
      /\ o \in DOMAIN world /\ r \in DOMAIN world[o].symbols
    BY <1>1 DEF BoxInv, AtTypes, Reading
<1>3. /\ world \in Seq(Objects) /\ world[o].symbols \in Seq(SymbolRows)
      /\ \A p \in DOMAIN world : world[p].sections \in Seq(SectionRows) /\ world[p].sections # <<>>
    BY <1>2, WorldIs
<1>4. o \in Nat /\ r \in Nat /\ n \in Nat /\ r \in 1 .. n /\ o \in 1 .. Len(world) /\ Len(world) \in Nat
    BY SymtabIs
<1>5. \/ r < n /\ phase' = "symbols" /\ at' = [at EXCEPT !.row = @ + 1]
      \/ r = n /\ o < Len(world) /\ phase' = "sections" /\ at' = [obj |-> o + 1, row |-> 1]
      \/ r = n /\ o = Len(world) /\ phase' = "edata" /\ at' = at
    BY SymtabIs
<1>6. Laid = containers /\ Laid' = containers
    BY <1>1, <1>5 DEF Laid, Late
<1>7. Rows' = Rows /\ Boxes' = Boxes /\ EData' = EData
    BY <1>1, RowsKept DEF EData
<1>10. exportLen' \in Nat
  <2>1. world[o].symbols[r] \in SymbolRows
      BY <1>2, <1>3
  <2>2. PICK l \in Nat : l = Length(GET_NAME(world[o].symbols[r]))
      BY <2>1, NamesAre
  <2>3. OutLen \in Nat /\ exportLen \in Nat
      BY <1>2, TablesAssumption
  <2>4. \/ exportLen' = exportLen
        \/ exportLen' = (IF exportLen = 0 THEN 40 + OutLen + 1 ELSE exportLen) + 4 + 4 + 2 + l + 1
      BY <2>2 DEF symtab_callback, Obj, ExportDirectory
  <2> QED BY <2>2, <2>3, <2>4
<1>8. AtTypes' /\ \A s : ReadSoFar(s)' <=> ReadSoFar(s)
  <2>1. \A s \in Rows : /\ s[1] \in Nat /\ s[2] \in Nat /\ s[1] \in 1 .. Len(world)
                        /\ s[2] \in 1 .. Len(world[s[1]].sections)
    <3> SUFFICES ASSUME NEW s \in Rows
                 PROVE  /\ s[1] \in Nat /\ s[2] \in Nat /\ s[1] \in 1 .. Len(world)
                        /\ s[2] \in 1 .. Len(world[s[1]].sections)
        OBVIOUS
    <3>1. s[1] \in Nat /\ s[2] \in Nat /\ s[1] \in DOMAIN world /\ s[2] \in DOMAIN world[s[1]].sections
        BY DEF Rows
    <3>2. world[s[1]].sections \in Seq(SectionRows)
        BY <1>3, <3>1
    <3> QED BY <1>3, <3>1, <3>2
  <2>2. \A s : ReadSoFar(s) <=> s \in Rows /\ s[1] <= o
      BY <1>1 DEF ReadSoFar
  <2>3. CASE r < n /\ phase' = "symbols" /\ at' = [at EXCEPT !.row = @ + 1]
    <3>1. at' \in Cursor /\ at'.obj = o /\ at'.row = r + 1
        BY <1>2, <2>3, CursorSteps
    <3>2. r + 1 \in DOMAIN world[o].symbols
        BY <1>3, <1>4, <2>3
    <3>3. \A s : ReadSoFar(s)' <=> s \in Rows /\ s[1] <= o
        BY <1>7, <2>3, <3>1 DEF ReadSoFar
    <3> QED BY <1>1, <1>2, <1>10, <2>2, <2>3, <3>1, <3>2, <3>3 DEF AtTypes, Phases, Reading
  <2>4. CASE r = n /\ o < Len(world) /\ phase' = "sections" /\ at' = [obj |-> o + 1, row |-> 1]
    <3>1. at' \in Cursor /\ at'.obj = o + 1 /\ at'.row = 1
      <4>1. o + 1 \in Nat /\ 1 \in Nat
          BY <1>4
      <4> QED BY <1>2, <2>4, <4>1 DEF Cursor
    <3>2. o + 1 \in DOMAIN world
        BY <1>3, <1>4, <2>4
    <3>3. 1 \in DOMAIN world[o + 1].sections
      <4>1. world[o + 1].sections \in Seq(SectionRows) /\ world[o + 1].sections # <<>>
          BY <1>3, <3>2
      <4> QED BY <4>1
    <3>4. \A s : ReadSoFar(s)' <=> s \in Rows /\ (s[1] < o + 1 \/ (s[1] = o + 1 /\ s[2] < 1))
        BY <1>7, <2>4, <3>1 DEF ReadSoFar
    <3>5. \A s \in Rows : ~ (s[2] < 1) /\ (s[1] < o + 1 <=> s[1] <= o)
        BY <1>4, <2>1
    <3>6. AtTypes'
        BY <1>1, <1>2, <1>10, <2>4, <3>1, <3>2, <3>3 DEF AtTypes, Phases, Reading
    <3> QED BY <2>2, <3>4, <3>5, <3>6
  <2>5. CASE r = n /\ o = Len(world) /\ phase' = "edata" /\ at' = at
    <3>1. \A s : ReadSoFar(s)' <=> s \in Rows
        BY <1>7, <2>5 DEF ReadSoFar
    <3>2. \A s \in Rows : s[1] <= o
        BY <1>4, <2>1, <2>5
    <3>3. AtTypes'
        BY <1>1, <1>2, <1>10, <2>5 DEF AtTypes, Phases, Reading
    <3> QED BY <2>2, <3>1, <3>2, <3>3
  <2> QED BY <1>5, <2>3, <2>4, <2>5
<1>9. phase' \notin Late /\ phase \in Reading
    BY <1>1, <1>5 DEF Late, Reading
<1> QED BY <1>6, <1>7, <1>8, <1>9 DEF BoxInv

LEMMA StepEdata == BoxInv /\ add_edata => BoxInv'
<1> SUFFICES ASSUME BoxInv, add_edata PROVE BoxInv'
    OBVIOUS
<1> DEFINE x == [name |-> ".edata", chain |-> <<EData>>, size |-> 0]
<1>1. /\ phase = "edata" /\ UNCHANGED <<world, exportLen, importLen>>
      /\ containers' = Append(containers, x) /\ phase' \in {"stuck", "addresses"} /\ at' = [obj |-> 1, row |-> 1]
    BY DEF add_edata, importVars
<1>2. Laid = containers /\ Laid' = containers' /\ containers \in Seq(Boxes)
    BY <1>1 DEF Laid, Late, BoxInv
<1>3. Rows' = Rows /\ Boxes' = Boxes /\ EData' = EData
    BY <1>1, RowsKept DEF EData
<1>4. x \in Boxes /\ x.chain = <<EData>>
  <2>1. EData \in Ids
      BY DEF Ids
  <2>2. <<EData>> \in Seq(Ids)
      BY <2>1
  <2>3. ".edata" \in BoxNames
      BY DEF BoxNames
  <2>4. 0 \in Nat
      OBVIOUS
  <2> QED BY <2>2, <2>3, <2>4, BoxMade DEF Boxes
<1> HIDE DEF x
<1>5. Adds(containers, containers', EData)
    BY <1>1, <1>2, <1>4, AddsBox
<1>6. containers' \in Seq(Boxes) /\ 1 \in 1 .. Len(containers')
    BY <1>1, <1>2, <1>4
<1>7. ~ Holds(containers, EData) /\ \A s : Holds(containers, s) <=> s \in Rows
  <2>1. \A s : Holds(containers, s) <=> s \in Rows
      BY <1>1, <1>2 DEF BoxInv, ReadSoFar
  <2>2. EData \notin Rows
    <3>1. world \in Worlds
        BY DEF BoxInv, AtTypes
    <3>2. \A o \in DOMAIN world : world[o].sections \in Seq(SectionRows)
        BY <3>1, WorldIs
    <3> QED BY <3>2 DEF Rows, EData
  <2> QED BY <2>1, <2>2
<1>8. Once(containers') /\ \A s : Holds(containers', s) <=> (Holds(containers, s) \/ s = EData)
    BY <1>2, <1>5, <1>7, AddsHolds DEF BoxInv
<1>9. \A s : ReadSoFar(s)' <=> s \in Rows
    BY <1>1, <1>3 DEF ReadSoFar
<1>10. AtTypes'
  <2>1. 1 \in Nat
      OBVIOUS
  <2>2. at' \in Cursor /\ at'.row = 1
      BY <1>1, <2>1 DEF Cursor
  <2> QED BY <1>1, <1>6, <2>2 DEF BoxInv, AtTypes, Phases, Reading
<1>11. phase' \notin Late /\ phase' \notin Reading \cup {"edata"}
    BY <1>1 DEF Late, Reading
<1> QED BY <1>2, <1>3, <1>6, <1>7, <1>8, <1>9, <1>10, <1>11 DEF BoxInv

LEMMA SizesAre ==
  ASSUME AtTypes, NEW s \in Ids
  PROVE  SizeOf(s) \in Nat /\ SizeOf(s) = IF s = EData THEN exportLen ELSE Section(s).size
<1>1. world \in Worlds /\ exportLen \in Nat
    BY DEF AtTypes
<1>2. CASE s = EData
  <2>1. EData # Plt /\ EData # IData
      BY DEF EData, Plt, IData
  <2> QED BY <1>1, <1>2, <2>1 DEF SizeOf
<1>3. CASE s # EData
  <2>1. s[1] \in DOMAIN world /\ s[2] \in DOMAIN world[s[1]].sections
      BY <1>3 DEF Ids, Rows
  <2>2. world[s[1]].sections \in Seq(SectionRows)
      BY <1>1, <2>1, WorldIs
  <2>3. world[s[1]].sections[s[2]] \in SectionRows /\ s[2] \in 1 .. Len(world[s[1]].sections)
      BY <2>1, <2>2
  <2>4. s # Plt /\ s # IData
      BY <2>3 DEF Plt, IData
  <2>5. Section(s).size \in Nat
      BY <2>3 DEF SectionRows, Section
  <2> QED BY <1>3, <2>4, <2>5 DEF SizeOf
<1> QED BY <1>2, <1>3

\* How much room a section takes.
Room == [s \in Ids |-> IF s = EData THEN exportLen ELSE Section(s).size]

LEMMA RoomIs ==
  ASSUME AtTypes
  PROVE  Room \in [Ids -> Nat] /\ \A s \in Ids : Room[s] = SizeOf(s)
<1>1. \A s \in Ids : SizeOf(s) \in Nat /\ SizeOf(s) = IF s = EData THEN exportLen ELSE Section(s).size
    BY SizesAre
<1> QED BY <1>1 DEF Room

LEMMA SizeUpToIs ==
  ASSUME AtTypes, NEW c \in Seq(Ids)
  PROVE  \A n : SizeUpTo(c, n) = SumUpTo(Weights(Room, c), n)
<1> SUFFICES ASSUME NEW n PROVE SizeUpTo(c, n) = SumUpTo(Weights(Room, c), n)
    OBVIOUS
<1>1. \A i \in DOMAIN c : c[i] \in Ids
    OBVIOUS
<1>2. \A i \in DOMAIN c : Room[c[i]] = SizeOf(c[i])
    BY <1>1, RoomIs
<1>3. [i \in DOMAIN c |-> SizeOf(c[i])] = Weights(Room, c)
    BY <1>2 DEF Weights
<1> QED BY <1>3 DEF SizeUpTo

LEMMA SizedBox ==
  ASSUME NEW T, NEW cs \in Seq([name : BoxNames, chain : Seq(T), size : Nat]), NEW r \in 1 .. Len(cs), NEW n \in Nat
  PROVE  /\ [cs EXCEPT ![r].size = n] \in Seq([name : BoxNames, chain : Seq(T), size : Nat])
         /\ SameChains(cs, [cs EXCEPT ![r].size = n])
<1> DEFINE B == [name : BoxNames, chain : Seq(T), size : Nat]
<1>1. PICK m \in Nat : m = Len(cs) /\ DOMAIN cs = 1 .. m
    OBVIOUS
<1>2. PICK x : x = cs[r] /\ x \in B
  <2>1. cs \in Seq(B)
      OBVIOUS
  <2> HIDE DEF B
  <2> QED BY <2>1
<1>3. PICK y : y = [x EXCEPT !.size = n]
    OBVIOUS
<1>4. y \in B /\ y.chain = x.chain
  <2>1. y = [name |-> x.name, chain |-> x.chain, size |-> n]
      BY <1>2, <1>3
  <2>2. x.chain \in Seq(T) /\ x.name \in BoxNames
      BY <1>2
  <2> QED BY <2>1, <2>2
<1>5. PICK ds : ds = [cs EXCEPT ![r].size = n]
    OBVIOUS
<1> HIDE DEF B
<1>6. ds = [i \in 1 .. m |-> IF i = r THEN y ELSE cs[i]]
    BY <1>1, <1>2, <1>3, <1>5
<1>7. cs \in Seq(B)
    BY DEF B
<1>8. \A i \in 1 .. m : (IF i = r THEN y ELSE cs[i]) \in B
    BY <1>1, <1>4, <1>7
<1>9. ds \in Seq(B) /\ Len(ds) = m /\ \A i \in 1 .. m : ds[i] = IF i = r THEN y ELSE cs[i]
    BY <1>6, <1>8
<1>10. \A i \in 1 .. m : ds[i].chain = cs[i].chain
    BY <1>2, <1>4, <1>9
<1> QED BY <1>1, <1>5, <1>9, <1>10 DEF SameChains, B

LEMMA StepAddresses == BoxInv /\ set_virtual_address => BoxInv'
<1> SUFFICES ASSUME BoxInv, set_virtual_address PROVE BoxInv'
    OBVIOUS
<1> DEFINE r == at.row
           c == containers[at.row].chain
           n == SizeUpTo(c, Len(c))
<1>1. /\ phase = "addresses" /\ UNCHANGED <<world, exportLen, importLen>>
      /\ containers' = [containers EXCEPT ![r].size = n]
      /\ \/ r = Len(containers) /\ phase' = "export" /\ at' = [obj |-> 1, row |-> 1]
         \/ r # Len(containers) /\ phase' = phase /\ at' = [at EXCEPT !.row = @ + 1]
    BY DEF set_virtual_address, importVars
<1>2. Laid = containers /\ Laid' = containers' /\ containers \in Seq(Boxes) /\ AtTypes
    BY <1>1 DEF Laid, Late, BoxInv
<1>3. r \in 1 .. Len(containers) /\ at \in Cursor /\ Len(containers) \in Nat
    BY <1>1, <1>2 DEF AtTypes
<1>4. c \in Seq(Ids)
  <2>1. containers[r] \in Boxes
      BY <1>2, <1>3
  <2> QED BY <2>1, BoxIs DEF Boxes
<1>5. n \in Nat
  <2>1. Room \in [Ids -> Nat]
      BY <1>2, RoomIs
  <2>2. Weights(Room, c) \in Seq(Nat) /\ Len(Weights(Room, c)) = Len(c)
      BY <1>4, <2>1, WeightsAre
  <2>3. n = Total(Weights(Room, c))
      BY <1>2, <1>4, <2>2, SizeUpToIs DEF Total
  <2> QED BY <2>2, <2>3, TotalIsNat
<1> HIDE DEF n
<1>6. containers' \in Seq(Boxes) /\ SameChains(containers, containers')
    BY <1>1, <1>2, <1>3, <1>5, SizedBox DEF Boxes
<1>7. AtTypes'
  <2>1. CASE r = Len(containers) /\ phase' = "export" /\ at' = [obj |-> 1, row |-> 1]
    <3>1. 1 \in Nat
        OBVIOUS
    <3>2. at' \in Cursor
        BY <2>1, <3>1 DEF Cursor
    <3> QED BY <1>1, <1>2, <2>1, <3>2 DEF AtTypes, Phases, Reading
  <2>2. CASE r # Len(containers) /\ phase' = phase /\ at' = [at EXCEPT !.row = @ + 1]
    <3>1. at' \in Cursor /\ at'.row = r + 1
        BY <1>3, <2>2, CursorSteps
    <3>2. r + 1 \in 1 .. Len(containers) /\ Len(containers') = Len(containers)
        BY <1>3, <1>6, <2>2 DEF SameChains
    <3> QED BY <1>1, <1>2, <2>2, <3>1, <3>2 DEF AtTypes, Phases, Reading
  <2> QED BY <1>1, <2>1, <2>2
<1>8. Boxes' = Boxes /\ phase' \notin Late /\ phase' # "edata" /\ phase \notin Reading /\ phase' \notin Reading
    BY <1>1, RowsKept DEF Late, Reading
<1> QED BY <1>1, <1>2, <1>6, <1>7, <1>8, BoxKept

\* The steps from "export" on that leave the containers alone.
LEMMA StepLate ==
  ASSUME BoxInv, UNCHANGED <<world, containers, exportLen>>, at' \in Cursor, importLen' \in Nat,
         phase \in {"export", "reloc", "import", "emit"}, phase' \in {"stuck", "export", "reloc", "import", "emit", "done"},
         phase \in Late => phase' \in Late, (phase \in Late \/ phase' \in Late) => importLen' = importLen,
         (phase' \in Late /\ phase \notin Late) => importLen = 0
  PROVE  BoxInv'
<1>1. Laid' = Laid
    BY DEF Laid, Late
<1>2. Boxes' = Boxes
    BY RowsKept
<1>3. SameChains(Laid, Laid)
    BY DEF SameChains
<1>4. AtTypes'
    BY DEF BoxInv, AtTypes, Phases, Reading
<1>5. (phase \in Late /\ importLen > 0)' => containers' = Laid' \o ImportSections'
  <2>1. ImportSections' = ImportSections
      BY DEF ImportSections, Box, Plt, IData
  <2> QED BY <1>1, <2>1 DEF BoxInv, Late
<1>6. phase' # "edata" /\ phase \notin Reading /\ phase' \notin Reading /\ Laid \in Seq(Boxes)
    BY DEF Reading, BoxInv
<1> QED BY <1>1, <1>2, <1>3, <1>4, <1>5, <1>6, BoxKept

LEMMA ImportLaid == BoxInv /\ add_import => Laid' = Laid
<1> SUFFICES ASSUME BoxInv, add_import PROVE Laid' = Laid
    OBVIOUS
<1>1. /\ phase = "import" /\ phase' = "emit" /\ importLen > 0
      /\ UNCHANGED <<world, exportLen, importLen, at>> /\ containers' = containers \o ImportSections
    BY DEF add_import, importVars
<1>2. Laid = containers /\ containers \in Seq(Boxes)
    BY <1>1 DEF Laid, Late, BoxInv
<1>3. PICK t : t = ImportSections
    OBVIOUS
<1>4. PICK T : t \in Seq(T) /\ Len(t) = 2 /\ containers \in Seq(T)
  <2>1. PICK a, b : t = <<a, b>>
      BY <1>3 DEF ImportSections
  <2>2. t \in Seq(Boxes \cup {a, b}) /\ Len(t) = 2 /\ containers \in Seq(Boxes \cup {a, b})
      BY <1>2, <2>1
  <2> QED BY <2>2
<1>5. SubSeq(containers \o t, 1, Len(containers \o t) - 2) = containers
  <2>1. PICK n \in Nat : n = Len(containers)
      BY <1>2
  <2>3. containers \o t \in Seq(T) /\ Len(containers \o t) = Len(containers) + Len(t)
      BY <1>4, ConcatProperties
  <2>2. Len(containers \o t) = n + 2 /\ \A i \in 1 .. n : (containers \o t)[i] = containers[i]
    <3>1. Len(containers \o t) = n + 2
        BY <1>4, <2>1, <2>3
    <3>2. ASSUME NEW i \in 1 .. n PROVE (containers \o t)[i] = containers[i]
      <4>1. i \in 1 .. Len(containers) + Len(t) /\ i <= Len(containers)
          BY <1>4, <2>1
      <4> QED BY <1>4, <4>1
    <3> QED BY <3>1, <3>2
  <2>4. PICK u \in Seq(T) : u = containers \o t
      BY <2>3
  <2>5. SubSeq(u, 1, n) \in Seq(T) /\ Len(SubSeq(u, 1, n)) = n /\ \A i \in 1 .. n : SubSeq(u, 1, n)[i] = u[i]
      BY <2>1, <2>2, <2>4
  <2>6. SubSeq(u, 1, n) = containers
      BY <1>4, <2>1, <2>2, <2>4, <2>5, SeqEqual
  <2>7. Len(u) - 2 = n
      BY <2>2, <2>4
  <2> QED BY <2>4, <2>6, <2>7
<1>6. Laid' = containers
    BY <1>1, <1>3, <1>5 DEF Laid, Late
<1> QED BY <1>2, <1>6

LEMMA StepImport == BoxInv /\ add_import => BoxInv'
<1> SUFFICES ASSUME BoxInv, add_import PROVE BoxInv'
    OBVIOUS
<1>1. /\ phase = "import" /\ phase' = "emit" /\ importLen > 0
      /\ UNCHANGED <<world, exportLen, importLen, at>> /\ containers' = containers \o ImportSections
    BY DEF add_import, importVars
<1>2. Laid = containers /\ containers \in Seq(Boxes)
    BY <1>1 DEF Laid, Late, BoxInv
<1>6. Laid' = containers
    BY <1>2, ImportLaid
<1>7. Boxes' = Boxes /\ ImportSections' = ImportSections
    BY <1>1, RowsKept DEF ImportSections, Box, Plt, IData
<1>8. AtTypes'
    BY <1>1 DEF BoxInv, AtTypes, Phases, Reading
<1>9. SameChains(containers, containers) /\ phase' # "edata" /\ phase \notin Reading /\ phase' \notin Reading
    BY <1>1 DEF SameChains, Reading
<1> QED BY <1>1, <1>2, <1>6, <1>7, <1>8, <1>9, BoxKept

LEMMA ResolveIs ==
  ASSUME resolve
  PROVE  /\ phase = "reloc" /\ UNCHANGED <<world, phase, inputVars, offset, va, exportVars, tableVars, outVars>>
         /\ at' = [at EXCEPT !.row = @ + 1]
         /\ UNCHANGED <<plt, importVars>> \/ resolve_new_import
BY DEF resolve, resolve_static, resolve_defined, resolve_imported, resolve_new_import, resolve_nothing,
       Resolving, NextReloc

LEMMA GrowsIs ==
  ASSUME NEW name \in DOMAIN Dll
  PROVE  /\ Dll[name] \in Range(Dll) /\ NameLen[Dll[name]] \in Nat /\ NameLen[name] \in Nat
         /\ ImportGrows(name, Dll[name]) \in Nat
<1>1. Dll[name] \in Range(Dll)
    BY DEF Range
<1>2. NameLen[Dll[name]] \in Nat /\ NameLen[name] \in Nat
    BY <1>1, TablesAssumption
<1>3. PICK a, b : a \in Nat /\ b \in Nat /\ NameLen[Dll[name]] = a /\ NameLen[name] = b
    BY <1>2
<1>4. \/ ImportGrows(name, Dll[name]) = 20 + (20 + 1 + a + 2 * 8) + 2 * 8 + 2 + b + 1
      \/ ImportGrows(name, Dll[name]) = 0 + (20 + 1 + a + 2 * 8) + 2 * 8 + 2 + b + 1
      \/ ImportGrows(name, Dll[name]) = 20 + 0 + 2 * 8 + 2 + b + 1
      \/ ImportGrows(name, Dll[name]) = 0 + 0 + 2 * 8 + 2 + b + 1
    BY <1>3 DEF ImportGrows, Descriptor
<1> QED BY <1>1, <1>2, <1>3, <1>4

LEMMA NewImportIs ==
  ASSUME resolve_new_import
  PROVE  GET_NAME(Referred(Site)) \in DOMAIN Dll /\ importLen' = importLen + ImportGrows(GET_NAME(Referred(Site)), Dll[GET_NAME(Referred(Site))])
BY DEF resolve_new_import, Importable

LEMMA BoxStep == BoxInv /\ [Next]_vars => BoxInv'
<1> SUFFICES ASSUME BoxInv, [Next]_vars PROVE BoxInv'
    OBVIOUS
<1>1. at \in Cursor /\ importLen \in Nat
    BY DEF BoxInv, AtTypes
<1>2. CASE section_callback
    BY <1>2, StepSection
<1>3. CASE symtab_callback
    BY <1>3, StepSymtab
<1>4. CASE add_edata
    BY <1>4, StepEdata
<1>5. CASE set_virtual_address
    BY <1>5, StepAddresses
<1>6. CASE add_export
  <2>1. /\ phase = "export" /\ UNCHANGED <<world, at, inputVars, importVars>>
        /\ phase' = "stuck" \/ phase' = phase
      BY <1>6 DEF add_export
  <2> QED BY <1>1, <2>1, StepLate DEF inputVars, importVars, Late
<1>7. CASE exported
    BY <1>1, <1>7, StepLate DEF exported, inputVars, importVars, Late
<1>8. CASE resolve
  <2>1. /\ phase = "reloc" /\ phase' = phase /\ UNCHANGED <<world, inputVars>> /\ at' = [at EXCEPT !.row = @ + 1]
        /\ importLen' = importLen \/ resolve_new_import
      BY <1>8, ResolveIs DEF importVars
  <2>2. at' \in Cursor
      BY <1>1, <2>1, CursorSteps
  <2>3. importLen' \in Nat
    <3>1. CASE resolve_new_import
      <4>1. PICK g \in Nat : importLen' = importLen + g
          BY <3>1, NewImportIs, GrowsIs
      <4> QED BY <1>1, <4>1
    <3> QED BY <1>1, <2>1, <3>1
  <2> QED BY <2>1, <2>2, <2>3, StepLate DEF inputVars, Late
<1>9. CASE relocated
    BY <1>1, <1>9, StepLate DEF relocated, inputVars, importVars, Late
<1>10. CASE add_import
    BY <1>10, StepImport
<1>11. CASE no_import
    BY <1>1, <1>11, StepLate DEF no_import, inputVars, importVars, Late
<1>12. CASE gen_pe
  <2>1. /\ phase = "emit" /\ phase' = "done" /\ UNCHANGED <<world, at, inputVars, importVars>>
      BY <1>12 DEF gen_pe
  <2> QED BY <1>1, <2>1, StepLate DEF inputVars, importVars, Late
<1>13. CASE UNCHANGED vars
  <2>1. UNCHANGED <<world, phase, at, containers, exportLen, importLen>>
      BY <1>13 DEF vars, inputVars, importVars
  <2> QED BY <2>1 DEF BoxInv, AtTypes, Laid, Boxes, Ids, Rows, EData, ReadSoFar, ImportSections, Box, Plt, IData
<1> QED BY <1>2, <1>3, <1>4, <1>5, <1>6, <1>7, <1>8, <1>9, <1>10, <1>11, <1>12, <1>13 DEF Next

----------------------------------------------------------------------------
(* Addresses                                                               *)

Chains == [b \in 1 .. Len(Laid) |-> Laid[b].chain]

\* The room of the first b containers, and of the first k sections of container b.
Before(b) == SumUpTo(Loads(Room, Chains), b)
Within(b, k) == SumUpTo(Weights(Room, Chains[b]), k)

Placing == {"addresses", "export", "reloc", "import", "emit", "done"}
Upto == IF phase = "addresses" THEN at.row - 1 ELSE Len(Laid)

Placed(n) ==
  \A b \in 1 .. n : \A k \in 1 .. Len(Chains[b]) :
    Chains[b][k] \in DOMAIN va /\ va[Chains[b][k]] = Base + (Before(b - 1) + Within(b, k - 1))

\* Every section up to the running container is behind all in front of it, and
\* .plt and .idata are behind them all.
AddrInv ==
  /\ phase \in Reading \cup {"edata"} => offset = Base
  /\ phase \in Placing => Placed(Upto)
  /\ phase \in Placing \ Late => offset = Base + Before(Upto)
  /\ phase \in {"export", "reloc", "import"} => \E d \in Nat : plt = offset + d
  /\ (phase \in Late /\ importLen > 0) =>
       /\ pltSize \in Nat /\ Plt \in DOMAIN va /\ IData \in DOMAIN va
       /\ va[Plt] = Base + Before(Len(Laid)) /\ va[IData] = va[Plt] + pltSize
  /\ phase # "done" => pieces = <<>>

LEMMA ChainsAre ==
  ASSUME BoxInv
  PROVE  /\ Chains \in Seq(Seq(Ids)) /\ Len(Chains) = Len(Laid) /\ Len(Laid) \in Nat
         /\ \A b \in 1 .. Len(Laid) : Chains[b] = Laid[b].chain /\ Chains[b] \in Seq(Ids)
<1>1. Laid \in Seq(Boxes)
    BY DEF BoxInv
<1>2. PICK n \in Nat : n = Len(Laid)
    BY <1>1
<1>3. ASSUME NEW b \in 1 .. n PROVE Laid[b].chain \in Seq(Ids)
  <2>1. Laid[b] \in Boxes
      BY <1>1, <1>2
  <2> QED BY <2>1, BoxIs DEF Boxes
<1>4. Chains \in Seq(Seq(Ids)) /\ Len(Chains) = n /\ \A b \in 1 .. n : Chains[b] = Laid[b].chain
    BY <1>2, <1>3 DEF Chains
<1> QED BY <1>2, <1>3, <1>4

LEMMA RoomsAre ==
  ASSUME BoxInv
  PROVE  /\ Room \in [Ids -> Nat]
         /\ Before(0) = 0
         /\ \A b \in 0 .. Len(Laid) : Before(b) \in Nat
         /\ \A b \in 1 .. Len(Laid) :
              /\ Before(b) = Before(b - 1) + Total(Weights(Room, Chains[b]))
              /\ Total(Weights(Room, Chains[b])) \in Nat
              /\ \A k \in 0 .. Len(Chains[b]) : Within(b, k) \in Nat
<1>1. PICK R \in [Ids -> Nat] : R = Room
    BY RoomIs DEF BoxInv
<1>2. PICK cs \in Seq(Seq(Ids)) : cs = Chains /\ Len(cs) = Len(Laid)
    BY ChainsAre
<1>3. Loads(R, cs) \in Seq(Nat) /\ Len(Loads(R, cs)) = Len(cs)
      /\ \A i \in 1 .. Len(cs) : Loads(R, cs)[i] = Total(Weights(R, cs[i]))
    BY LoadsAre
<1>4. PICK l \in Seq(Nat) : l = Loads(R, cs)
    BY <1>3
<1>5. /\ SumUpTo(l, 0) = 0
      /\ \A i \in 0 .. Len(l) : SumUpTo(l, i) \in Nat
      /\ \A i \in 1 .. Len(l) : SumUpTo(l, i) = SumUpTo(l, i - 1) + l[i]
    BY SumIs
<1>6. \A b : Before(b) = SumUpTo(l, b)
    BY <1>1, <1>2, <1>4 DEF Before
<1>7. ASSUME NEW b \in 1 .. Len(Laid)
      PROVE  /\ Total(Weights(R, cs[b])) \in Nat
             /\ \A k \in 0 .. Len(cs[b]) : SumUpTo(Weights(R, cs[b]), k) \in Nat
  <2>1. PICK c \in Seq(Ids) : c = cs[b]
      BY <1>2
  <2>2. Weights(R, c) \in Seq(Nat) /\ Len(Weights(R, c)) = Len(c)
      BY WeightsAre
  <2>3. PICK w \in Seq(Nat) : w = Weights(R, c) /\ Len(w) = Len(c)
      BY <2>2
  <2>4. \A k \in 0 .. Len(w) : SumUpTo(w, k) \in Nat
      BY SumIs
  <2>5. Total(w) \in Nat
      BY TotalIsNat
  <2> QED BY <2>1, <2>3, <2>4, <2>5
<1>8. \A b \in 1 .. Len(Laid) : l[b] = Total(Weights(R, cs[b]))
    BY <1>2, <1>3, <1>4
<1> QED BY <1>1, <1>2, <1>3, <1>4, <1>5, <1>6, <1>7, <1>8 DEF Within

LEMMA RoomKept ==
  ASSUME UNCHANGED <<world, exportLen>>, SameChains(Laid, Laid')
  PROVE  /\ Chains' = Chains /\ Len(Laid') = Len(Laid) /\ Room' = Room
         /\ \A b : Before(b)' = Before(b)
         /\ \A b, k : Within(b, k)' = Within(b, k)
<1>1. Room' = Room
    BY RowsKept DEF Room, EData, Section
<1>2. Len(Laid') = Len(Laid) /\ \A b \in 1 .. Len(Laid) : Laid'[b].chain = Laid[b].chain
    BY DEF SameChains
<1>3. Chains' = Chains
    BY <1>2 DEF Chains
<1> QED BY <1>1, <1>2, <1>3 DEF Before, Within

\* Nothing that AddrInv reads changes.
LEMMA AddrKept ==
  ASSUME AddrInv, UNCHANGED <<world, exportLen, containers, va, offset>>,
         phase \in {"export", "reloc", "import", "emit"}, phase' \in {"stuck", "export", "reloc", "import", "emit", "done"},
         phase \in Late => phase' \in Late, phase' \in {"export", "reloc", "import"} => phase \in {"export", "reloc", "import"},
         phase' \in {"export", "reloc", "import"} => plt' = plt \/ plt' = plt + 6,
         (phase \in Late \/ phase' \in Late) => UNCHANGED <<importLen, pltSize>>,
         (phase' \in Late /\ phase \notin Late) => importLen = 0,
         phase' # "done" => pieces' = pieces
  PROVE  AddrInv'
<1>1. Laid' = Laid /\ SameChains(Laid, Laid')
    BY DEF Laid, Late, SameChains
<1>2. /\ Chains' = Chains /\ Len(Laid') = Len(Laid)
      /\ \A b : Before(b)' = Before(b)
      /\ \A b, k : Within(b, k)' = Within(b, k)
    BY <1>1, RoomKept
<1>3. Upto' = Upto /\ phase \in Placing
    BY <1>1 DEF Upto, Placing
<1>4. Placed(Upto)'
    BY <1>2, <1>3 DEF AddrInv, Placed
<1>5. phase' \in Placing \ Late => offset' = Base + Before(Upto)'
    BY <1>2, <1>3 DEF AddrInv, Late, Placing
<1>6. phase' \in {"export", "reloc", "import"} => \E d \in Nat : plt' = offset' + d
  <2> SUFFICES ASSUME phase' \in {"export", "reloc", "import"} PROVE \E d \in Nat : plt' = offset + d
      OBVIOUS
  <2>1. PICK d \in Nat : plt = offset + d
      BY DEF AddrInv
  <2>2. PICK o \in Int : o = offset
    <3>1. phase \notin Late
        BY DEF Late
    <3>2. offset = Base + Before(Upto)
        BY <1>3, <3>1 DEF AddrInv
    <3> QED BY <3>2 DEF Base
  <2>3. d + 6 \in Nat /\ o + d + 6 = o + (d + 6) /\ plt = o + d
      BY <2>1, <2>2
  <2>4. CASE plt' = plt
      BY <2>1, <2>4
  <2>5. CASE plt' = plt + 6
    <3>1. plt' = offset + (d + 6)
        BY <2>2, <2>3, <2>5
    <3> QED BY <2>3, <3>1
  <2> QED BY <2>4, <2>5
<1>7. (phase' \in Late /\ importLen' > 0) =>
       /\ pltSize' \in Nat /\ Plt' \in DOMAIN va' /\ IData' \in DOMAIN va'
       /\ va'[Plt'] = Base + Before(Len(Laid))' /\ va'[IData'] = va'[Plt'] + pltSize'
  <2> SUFFICES ASSUME phase' \in Late, importLen' > 0
               PROVE  /\ pltSize' \in Nat /\ Plt' \in DOMAIN va' /\ IData' \in DOMAIN va'
                      /\ va'[Plt'] = Base + Before(Len(Laid))' /\ va'[IData'] = va'[Plt'] + pltSize'
      OBVIOUS
  <2>1. phase \in Late /\ importLen > 0
      OBVIOUS
  <2>2. Plt' = Plt /\ IData' = IData
      BY DEF Plt, IData
  <2> QED BY <1>1, <1>2, <2>1, <2>2 DEF AddrInv
<1>8. phase' \notin Reading \cup {"edata"}
    BY DEF Reading
<1>9. phase' # "done" => pieces' = <<>>
    BY DEF AddrInv
<1> QED BY <1>4, <1>5, <1>6, <1>7, <1>8, <1>9 DEF AddrInv

RoomFacts ==
  /\ Chains \in Seq(Seq(Ids)) /\ Len(Chains) = Len(Laid) /\ Len(Laid) \in Nat
  /\ Before(0) = 0 /\ \A b \in 0 .. Len(Laid) : Before(b) \in Nat

LEMMA RoomFactsHold == BoxInv => RoomFacts
BY ChainsAre, RoomsAre DEF RoomFacts

LEMMA RoomFactsHoldNext == BoxInv' => RoomFacts'
BY RoomFactsHold, PTL

LEMMA AddrReading == BoxInv /\ AddrInv /\ (section_callback \/ symtab_callback) => AddrInv'
<1> SUFFICES ASSUME BoxInv, AddrInv, section_callback \/ symtab_callback PROVE AddrInv'
    OBVIOUS
<1>1. /\ phase \in Reading /\ phase' \in Reading \cup {"edata"}
      /\ UNCHANGED <<offset, pieces>>
  <2>1. CASE section_callback
      BY <2>1 DEF section_callback, Reading, outVars
  <2>2. CASE symtab_callback
    <3>1. phase = "symbols" /\ UNCHANGED <<offset, pieces>>
        BY <2>2 DEF symtab_callback, outVars
    <3>2. phase' \in {"symbols", "sections", "edata"}
        BY <2>2, SymtabIs
    <3> QED BY <3>1, <3>2 DEF Reading
  <2> QED BY <2>1, <2>2
<1>2. phase' \notin Placing /\ phase' \notin Late /\ phase' # "done" /\ phase' \notin {"export", "reloc", "import"}
    BY <1>1 DEF Reading, Placing, Late
<1>3. offset' = Base /\ pieces' = <<>>
    BY <1>1 DEF AddrInv, Reading
<1> QED BY <1>2, <1>3 DEF AddrInv

LEMMA AddrEdata == BoxInv' /\ AddrInv /\ add_edata => AddrInv'
<1> SUFFICES ASSUME BoxInv', AddrInv, add_edata PROVE AddrInv'
    OBVIOUS
<1>1. /\ phase = "edata" /\ phase' \in {"stuck", "addresses"} /\ at' = [obj |-> 1, row |-> 1]
      /\ UNCHANGED <<offset, pieces>>
    BY DEF add_edata, outVars
<1>2. offset' = Base /\ pieces' = <<>>
    BY <1>1 DEF AddrInv
<1>3. phase' \notin Late /\ phase' \notin Reading \cup {"edata"} /\ phase' \notin {"export", "reloc", "import"} /\ phase' # "done"
    BY <1>1 DEF Late, Reading
<1>4. CASE phase' = "addresses"
  <2>1. Upto' = 0
      BY <1>1, <1>4 DEF Upto
  <2>2. Placed(Upto)'
      BY <2>1 DEF Placed
  <2>3. Before(0)' = 0
      BY RoomFactsHoldNext DEF RoomFacts
  <2>4. Before(Upto)' = 0
      BY <2>1, <2>3 DEF Before
  <2>5. offset' = Base + Before(Upto)'
      BY <1>2, <2>4 DEF Base
  <2> QED BY <1>2, <1>3, <2>2, <2>5 DEF AddrInv
<1>5. CASE phase' = "stuck"
  <2>1. phase' \notin Placing
      BY <1>5 DEF Placing
  <2> QED BY <1>2, <1>3, <2>1 DEF AddrInv
<1> QED BY <1>1, <1>4, <1>5

LEMMA AddrPlace == BoxInv /\ AddrInv /\ set_virtual_address => AddrInv'
<1> SUFFICES ASSUME BoxInv, AddrInv, set_virtual_address PROVE AddrInv'
    OBVIOUS
<1> DEFINE r == at.row
           c == containers[at.row].chain
           x == SizeUpTo(c, Len(c))
<1>1. /\ phase = "addresses" /\ UNCHANGED <<world, exportLen, importLen, pieces>>
      /\ containers' = [containers EXCEPT ![r].size = x]
      /\ \/ r = Len(containers) /\ phase' = "export" /\ at' = [obj |-> 1, row |-> 1]
         \/ r # Len(containers) /\ phase' = phase /\ at' = [at EXCEPT !.row = @ + 1]
      /\ offset' = offset + x /\ plt' = offset'
      /\ va' = [i \in Range(c) \cup DOMAIN va |->
                  IF i \in Range(c) THEN offset + SizeUpTo(c, SelectInSeq(c, LAMBDA s : s = i) - 1) ELSE va[i]]
    BY DEF set_virtual_address, importVars, outVars
<1>2. Laid = containers /\ Laid' = containers' /\ AtTypes /\ containers \in Seq(Boxes)
    BY <1>1 DEF Laid, Late, BoxInv
<1>3. r \in 1 .. Len(Laid) /\ at \in Cursor
    BY <1>1, <1>2 DEF AtTypes
<1>4. PICK n \in Nat : n = Len(Laid)
    BY ChainsAre
<1>5. c = Chains[r] /\ c \in Seq(Ids)
    BY <1>2, <1>3, ChainsAre
<1>6. \A i : SizeUpTo(c, i) = Within(r, i)
    BY <1>2, <1>5, SizeUpToIs DEF Within
<1>7. x = Total(Weights(Room, Chains[r])) /\ x \in Nat /\ Before(r) = Before(r - 1) + x
      /\ Before(r) \in Nat /\ Before(r - 1) \in Nat
  <2>1. Room \in [Ids -> Nat]
      BY RoomsAre
  <2>2. Len(Weights(Room, c)) = Len(c)
      BY <1>5, <2>1, WeightsAre
  <2>3. x = Total(Weights(Room, Chains[r]))
      BY <1>5, <1>6, <2>2 DEF Total, Within
  <2>4. r \in 0 .. Len(Laid) /\ r - 1 \in 0 .. Len(Laid)
      BY <1>3, <1>4
  <2> HIDE DEF x, r, c
  <2> QED BY <1>3, <2>3, <2>4, RoomsAre
<1>8. SameChains(Laid, Laid')
  <2>1. SameChains(containers, [containers EXCEPT ![r].size = x])
      BY <1>2, <1>3, <1>7, SizedBox DEF Boxes
  <2> QED BY <1>1, <1>2, <2>1
<1>9. /\ Chains' = Chains /\ Len(Laid') = Len(Laid)
      /\ \A b : Before(b)' = Before(b)
      /\ \A b, k : Within(b, k)' = Within(b, k)
    BY <1>1, <1>8, RoomKept
<1>10. Upto' = r
  <2>1. CASE r = Len(containers) /\ phase' = "export"
      BY <1>2, <1>9, <2>1 DEF Upto
  <2>2. CASE phase' = phase /\ at' = [at EXCEPT !.row = @ + 1]
    <3>1. at'.row = r + 1 /\ r \in Nat
        BY <1>3, <2>2, CursorSteps
    <3> QED BY <1>1, <2>2, <3>1 DEF Upto
  <2> QED BY <1>1, <2>1, <2>2
<1>11. offset = Base + Before(r - 1) /\ Placed(r - 1)
    BY <1>1 DEF AddrInv, Upto, Placing, Late
<1>12. offset' = Base + Before(r)
  <2> HIDE DEF x, r
  <2>1. PICK d \in Nat : d = Before(r - 1)
      BY <1>7
  <2>2. offset = 4096 + d /\ offset' = offset + x
      BY <1>1, <1>11, <2>1 DEF Base
  <2>3. Before(r) = d + x
      BY <1>7, <2>1
  <2> QED BY <1>7, <2>2, <2>3 DEF Base
<1>13. ASSUME NEW b \in 1 .. r, NEW k \in 1 .. Len(Chains[b])
       PROVE  Chains[b][k] \in DOMAIN va' /\ va'[Chains[b][k]] = Base + (Before(b - 1) + Within(b, k - 1))
  <2>1. Once(Laid)
      BY DEF BoxInv
  <2>2. b \in 1 .. Len(Laid) /\ Chains[b] = Laid[b].chain /\ Chains[r] = Laid[r].chain
    <3>1. b \in 1 .. Len(Laid)
        BY <1>3, <1>4
    <3> QED BY <1>3, <3>1, ChainsAre
  <2>3. CASE b = r
    <3>1. k \in 1 .. Len(c) /\ Chains[b][k] = c[k]
        BY <1>5, <2>3
    <3>2. c[k] \in Range(c) /\ c[k] \in DOMAIN va'
      <4>1. c[k] \in Range(c)
          BY <1>5, <3>1 DEF Range
      <4> QED BY <1>1, <4>1
    <3>3. va'[c[k]] = offset + SizeUpTo(c, SelectInSeq(c, LAMBDA s : s = c[k]) - 1)
        BY <1>1, <3>2
    <3>4. SelectInSeq(c, LAMBDA s : s = c[k]) = k
      <4> DEFINE I == {j \in 1 .. Len(c) : c[j] = c[k]}
      <4>1. \A j \in 1 .. Len(c) : c[j] = c[k] => j = k
          BY <1>3, <1>5, <2>1, <2>2, <3>1 DEF Once
      <4>2. SelectInSeq(c, LAMBDA s : s = c[k]) = IF I # {} THEN Min(I) ELSE 0
          BY DEF SelectInSeq
      <4>3. k \in I /\ I \subseteq Nat /\ \A j \in I : j = k
          BY <3>1, <4>1
      <4> HIDE DEF I
      <4>4. Min(I) \in I /\ I # {}
          BY <4>3, MinIsLeast
      <4> QED BY <4>2, <4>3, <4>4
    <3>5. va'[c[k]] = offset + Within(r, k - 1)
        BY <1>6, <3>3, <3>4
    <3>6. Within(r, k - 1) \in Nat
      <4>1. k - 1 \in 0 .. Len(Chains[r])
          BY <1>5, <3>1
      <4> QED BY <1>3, <4>1, RoomsAre
    <3> HIDE DEF r, c
    <3>7. PICK d, e : d \in Nat /\ e \in Nat /\ d = Before(r - 1) /\ e = Within(r, k - 1)
        BY <1>7, <3>6
    <3>8. va'[c[k]] = (4096 + d) + e
        BY <1>11, <3>5, <3>7 DEF Base
    <3>9. va'[c[k]] = 4096 + (d + e)
        BY <3>7, <3>8
    <3> QED BY <2>3, <3>1, <3>2, <3>7, <3>9 DEF Base
  <2>4. CASE b # r
    <3>1. b \in 1 .. r - 1
        BY <1>3, <1>4, <2>4
    <3>2. Chains[b][k] \in DOMAIN va /\ va[Chains[b][k]] = Base + (Before(b - 1) + Within(b, k - 1))
        BY <1>11, <3>1 DEF Placed
    <3>3. Chains[b][k] \notin Range(c)
      <4> SUFFICES ASSUME Chains[b][k] \in Range(c) PROVE FALSE
          OBVIOUS
      <4>1. PICK l \in 1 .. Len(c) : c[l] = Chains[b][k]
          BY <1>5 DEF Range
      <4>2. b = r
          BY <1>3, <1>5, <2>1, <2>2, <4>1 DEF Once
      <4> QED BY <2>4, <4>2
    <3> QED BY <1>1, <3>2, <3>3
  <2> QED BY <2>3, <2>4
<1>14. Placed(Upto)'
  <2> HIDE DEF r
  <2>1. \A b : b - 1 = b - 1
      OBVIOUS
  <2> QED BY <1>9, <1>10, <1>13 DEF Placed
<1>15. offset' = Base + Before(Upto)'
  <2>1. PICK q : q = r
      OBVIOUS
  <2>2. Before(Upto)' = Before(q)'
      BY <1>10, <2>1 DEF Before
  <2> QED BY <1>9, <1>12, <2>1, <2>2
<1>16. \E d \in Nat : plt' = offset' + d
  <2>1. offset' = offset' + 0
    <3> HIDE DEF r
    <3> QED BY <1>7, <1>12 DEF Base
  <2> QED BY <1>1, <2>1
<1>17. phase' \notin Late /\ phase' \notin Reading \cup {"edata"} /\ phase' # "done"
    BY <1>1 DEF Late, Reading
<1>18. pieces' = <<>>
    BY <1>1 DEF AddrInv
<1> QED BY <1>14, <1>15, <1>16, <1>17, <1>18 DEF AddrInv

LEMMA NotImportSections ==
  ASSUME world \in Worlds, NEW s \in Ids
  PROVE  s # Plt /\ s # IData
<1>1. \A o \in DOMAIN world : world[o].sections \in Seq(SectionRows)
    BY WorldIs
<1>2. CASE s = EData
    BY <1>2 DEF EData, Plt, IData
<1>3. CASE s \in Rows
  <2>1. s[2] \in 1 .. Len(world[s[1]].sections)
      BY <1>1, <1>3 DEF Rows
  <2> QED BY <2>1 DEF Plt, IData
<1> QED BY <1>2, <1>3 DEF Ids

LEMMA AddrImport == BoxInv /\ AddrInv /\ add_import => AddrInv'
<1> SUFFICES ASSUME BoxInv, AddrInv, add_import PROVE AddrInv'
    OBVIOUS
<1>1. /\ phase = "import" /\ phase' = "emit" /\ importLen > 0
      /\ UNCHANGED <<world, exportLen, importLen, pieces>>
      /\ va' = [s \in DOMAIN va \cup {Plt, IData} |->
                  IF s = Plt THEN offset ELSE IF s = IData THEN plt ELSE va[s]]
      /\ pltSize' = plt - offset
    BY DEF add_import, importVars, outVars
<1>2. Laid' = Laid /\ SameChains(Laid, Laid')
    BY ImportLaid DEF SameChains
<1>3. /\ Chains' = Chains /\ Len(Laid') = Len(Laid)
      /\ \A b : Before(b)' = Before(b)
      /\ \A b, k : Within(b, k)' = Within(b, k)
    BY <1>1, <1>2, RoomKept
<1>4. Upto = Len(Laid) /\ Upto' = Len(Laid)
    BY <1>1, <1>2 DEF Upto
<1>5. PICK n \in Nat : n = Len(Laid)
    BY ChainsAre
<1>6. Placed(n) /\ offset = Base + Before(n)
    BY <1>1, <1>4, <1>5 DEF AddrInv, Placing, Late
<1>7. ASSUME NEW b \in 1 .. n, NEW k \in 1 .. Len(Chains[b])
      PROVE  Chains[b][k] \in DOMAIN va' /\ va'[Chains[b][k]] = va[Chains[b][k]]
  <2>1. Chains[b] \in Seq(Ids)
      BY <1>5, ChainsAre
  <2>2. PICK s \in Ids : s = Chains[b][k]
      BY <2>1
  <2>3. s # Plt /\ s # IData
      BY NotImportSections DEF BoxInv, AtTypes
  <2>4. s \in DOMAIN va
      BY <1>6, <2>2 DEF Placed
  <2> QED BY <1>1, <2>2, <2>3, <2>4
<1>8. Placed(Upto)'
  <2>1. \A b \in 1 .. n : \A k \in 1 .. Len(Chains[b]) :
          Chains[b][k] \in DOMAIN va' /\ va'[Chains[b][k]] = Base + (Before(b - 1) + Within(b, k - 1))
      BY <1>6, <1>7 DEF Placed
  <2> QED BY <1>3, <1>4, <1>5, <2>1 DEF Placed
<1>9. Plt' = Plt /\ IData' = IData /\ Plt # IData
    BY <1>1 DEF Plt, IData
<1>10. va'[Plt] = offset /\ va'[IData] = plt /\ Plt \in DOMAIN va' /\ IData \in DOMAIN va'
    BY <1>1, <1>9
<1>11. PICK d \in Nat : plt = offset + d
    BY <1>1 DEF AddrInv
<1>12. PICK o \in Nat : o = offset
  <2>1. Before(n) \in Nat
      BY <1>5, RoomsAre
  <2> QED BY <1>6, <2>1 DEF Base
<1>13. pltSize' = d /\ plt = o + d
    BY <1>1, <1>11, <1>12
<1>14. Before(Len(Laid))' = Before(n)
  <2>1. Before(Len(Laid))' = Before(n)'
      BY <1>2, <1>5 DEF Before
  <2> QED BY <1>3, <2>1
<1>15. phase' \in Late /\ phase' \notin Reading \cup {"edata"} /\ phase' \notin {"export", "reloc", "import"}
    BY <1>1 DEF Late, Reading
<1>16. pieces' = <<>>
    BY <1>1 DEF AddrInv
<1> QED BY <1>6, <1>8, <1>9, <1>10, <1>11, <1>13, <1>14, <1>15, <1>16 DEF AddrInv

LEMMA AddrStep == BoxInv /\ BoxInv' /\ AddrInv /\ [Next]_vars => AddrInv'
<1> SUFFICES ASSUME BoxInv, BoxInv', AddrInv, [Next]_vars PROVE AddrInv'
    OBVIOUS
<1>1. CASE section_callback \/ symtab_callback
    BY <1>1, AddrReading
<1>2. CASE add_edata
    BY <1>2, AddrEdata
<1>3. CASE set_virtual_address
    BY <1>3, AddrPlace
<1>4. CASE add_export
  <2>1. /\ phase = "export" /\ UNCHANGED <<world, inputVars, va, offset, plt, outVars>>
        /\ phase' = "stuck" \/ phase' = phase
      BY <1>4 DEF add_export
  <2> QED BY <2>1, AddrKept DEF inputVars, outVars, Late
<1>5. CASE exported
  <2>1. phase = "export" /\ phase' = "reloc" /\ UNCHANGED <<world, inputVars, va, offset, plt, outVars>>
      BY <1>5 DEF exported
  <2> QED BY <2>1, AddrKept DEF inputVars, outVars, Late
<1>6. CASE resolve
  <2>1. /\ phase = "reloc" /\ phase' = phase /\ UNCHANGED <<world, inputVars, va, offset, outVars>>
        /\ plt' = plt \/ resolve_new_import
      BY <1>6, ResolveIs
  <2>2. resolve_new_import => plt' = plt + 6
      BY DEF resolve_new_import
  <2> QED BY <2>1, <2>2, AddrKept DEF inputVars, outVars, Late
<1>7. CASE relocated
  <2>1. phase = "reloc" /\ phase' = "import" /\ UNCHANGED <<world, inputVars, va, offset, plt, outVars>>
      BY <1>7 DEF relocated
  <2> QED BY <2>1, AddrKept DEF inputVars, outVars, Late
<1>8. CASE add_import
    BY <1>8, AddrImport
<1>9. CASE no_import
  <2>1. /\ phase = "import" /\ phase' = "emit" /\ importLen = 0
        /\ UNCHANGED <<world, inputVars, va, offset, plt, outVars, importVars, tableVars>>
      BY <1>9 DEF no_import
  <2> QED BY <2>1, AddrKept DEF inputVars, outVars, Late, importVars, tableVars
<1>10. CASE gen_pe
  <2>1. phase = "emit" /\ phase' = "done" /\ UNCHANGED <<world, inputVars, va, offset, plt, importVars, tableVars>>
      BY <1>10 DEF gen_pe
  <2> QED BY <2>1, AddrKept DEF inputVars, Late, importVars, tableVars
<1>11. CASE UNCHANGED vars
  <2>1. UNCHANGED <<world, phase, at, containers, exportLen, importLen, offset, plt, va, pltSize, pieces>>
      BY <1>11 DEF vars, inputVars, importVars, tableVars, outVars
  <2>2. Laid' = Laid /\ SameChains(Laid, Laid')
      BY <2>1 DEF Laid, Late, SameChains
  <2>3. /\ Chains' = Chains /\ \A b : Before(b)' = Before(b)
        /\ \A b, k : Within(b, k)' = Within(b, k)
      BY <2>1, <2>2, RoomKept
  <2>4. Upto' = Upto /\ Plt' = Plt /\ IData' = IData
      BY <2>1, <2>2 DEF Upto, Plt, IData
  <2>5. Placed(Upto)' <=> Placed(Upto)
      BY <2>1, <2>3, <2>4 DEF Placed
  <2>6. Before(Upto)' = Before(Upto) /\ Before(Len(Laid))' = Before(Len(Laid))
      BY <2>1, <2>2, <2>3, <2>4 DEF Before
  <2> QED BY <2>1, <2>4, <2>5, <2>6 DEF AddrInv
<1> QED BY <1>1, <1>2, <1>3, <1>4, <1>5, <1>6, <1>7, <1>8, <1>9, <1>10, <1>11 DEF Next

\* What has a place in the file, how much room it takes, and the chains written.
Parts == Ids \cup (IF importLen > 0 THEN {Plt, IData} ELSE {})
Takes == [s \in Parts |-> SizeOf(s)]
AllChains == [b \in DOMAIN containers |-> containers[b].chain]

LEMMA TakesIs ==
  ASSUME BoxInv, AddrInv, phase = "emit"
  PROVE  /\ Takes \in [Parts -> Nat] /\ \A s \in Ids : Takes[s] = Room[s]
         /\ importLen > 0 => Takes[Plt] = pltSize /\ pltSize \in Nat
<1>1. \A s \in Ids : SizeOf(s) \in Nat /\ Room[s] = SizeOf(s) /\ s \in Parts
    BY SizesAre, RoomIs DEF BoxInv, Parts
<1>2. importLen \in Nat
    BY DEF BoxInv, AtTypes
<1>3. SizeOf(IData) = importLen /\ SizeOf(Plt) = pltSize
  <2>1. Plt # IData /\ Plt # EData /\ IData # EData
      BY DEF Plt, IData, EData
  <2> QED BY <2>1 DEF SizeOf
<1>4. importLen > 0 => pltSize \in Nat /\ Plt \in Parts
    BY DEF AddrInv, Late, Parts
<1>5. \A s \in Parts : SizeOf(s) \in Nat
    BY <1>1, <1>2, <1>3, <1>4 DEF Parts
<1> QED BY <1>1, <1>3, <1>4, <1>5 DEF Takes

LEMMA AllChainsAre ==
  ASSUME BoxInv, phase = "emit"
  PROVE  /\ AllChains \in Seq(Seq(Parts)) /\ Len(Laid) <= Len(AllChains)
         /\ \A b \in 1 .. Len(Laid) : AllChains[b] = Chains[b]
         /\ importLen > 0 => Len(AllChains) = Len(Laid) + 2 /\ AllChains[Len(Laid) + 1] = <<Plt>>
         /\ \A b \in 1 .. Len(AllChains) :
              \/ b \in 1 .. Len(Laid)
              \/ importLen > 0 /\ b = Len(Laid) + 1 /\ AllChains[b] = <<Plt>>
              \/ importLen > 0 /\ b = Len(Laid) + 2 /\ AllChains[b] = <<IData>>
<1>1. PICK n \in Nat : n = Len(Laid)
    BY ChainsAre
<1>2. \A b \in 1 .. n : Chains[b] = Laid[b].chain /\ Chains[b] \in Seq(Ids)
    BY <1>1, ChainsAre
<1>3. Ids \subseteq Parts
    BY DEF Parts
<1>4. \A b \in 1 .. n : Chains[b] \in Seq(Parts)
    BY <1>2, <1>3
<1>5. Laid \in Seq(Boxes) /\ importLen \in Nat
    BY DEF BoxInv, AtTypes
<1>6. CASE ~ (importLen > 0)
  <2>1. Laid = containers
      BY <1>6 DEF Laid
  <2>2. DOMAIN containers = 1 .. n
      BY <1>1, <1>5, <2>1
  <2>3. AllChains = [b \in 1 .. n |-> containers[b].chain]
      BY <2>2 DEF AllChains
  <2>4. \A b \in 1 .. n : AllChains[b] = Chains[b]
      BY <1>2, <2>1, <2>3
  <2>5. AllChains \in Seq(Seq(Parts)) /\ Len(AllChains) = n
    <3>1. \A b \in 1 .. n : containers[b].chain \in Seq(Parts)
        BY <1>2, <1>4, <2>1
    <3> QED BY <1>1, <2>3, <3>1
  <2> QED BY <1>1, <1>6, <2>4, <2>5
<1>7. CASE importLen > 0
  <2>1. containers = Laid \o ImportSections
      BY <1>7 DEF BoxInv, Late
  <2>2. PICK a, b : ImportSections = <<a, b>> /\ a.chain = <<Plt>> /\ b.chain = <<IData>>
    <3>1. PICK a, b : a = Box(".plt", Plt) /\ b = Box(".idata", IData)
        OBVIOUS
    <3>2. a.chain = <<Plt>> /\ b.chain = <<IData>>
        BY <3>1 DEF Box
    <3>3. ImportSections = <<a, b>>
        BY <3>1 DEF ImportSections
    <3> QED BY <3>2, <3>3
  <2>3. PICK T : Laid \in Seq(T) /\ ImportSections \in Seq(T)
    <3>1. Laid \in Seq(Boxes \cup {a, b}) /\ ImportSections \in Seq(Boxes \cup {a, b})
        BY <1>5, <2>2
    <3> QED BY <3>1
  <2>4. PICK t \in Seq(T) : t = ImportSections /\ Len(t) = 2 /\ t[1] = a /\ t[2] = b
      BY <2>2, <2>3
  <2>5. /\ Laid \o t \in Seq(T) /\ Len(Laid \o t) = n + 2
        /\ \A i \in 1 .. n + 2 : (Laid \o t)[i] = IF i <= n THEN Laid[i] ELSE t[i - n]
    <3>1. Laid \in Seq(T) /\ t \in Seq(T)
        BY <2>3
    <3>2. /\ Laid \o t \in Seq(T) /\ Len(Laid \o t) = Len(Laid) + Len(t)
          /\ \A i \in 1 .. Len(Laid) + Len(t) : (Laid \o t)[i] = IF i <= Len(Laid) THEN Laid[i] ELSE t[i - Len(Laid)]
        BY <3>1, ConcatProperties
    <3> QED BY <1>1, <2>4, <3>2
  <2>6. PICK cs \in Seq(T) : cs = containers /\ Len(cs) = n + 2
      BY <2>1, <2>4, <2>5
  <2>7. /\ \A i \in 1 .. n : cs[i] = Laid[i]
        /\ cs[n + 1] = a /\ cs[n + 2] = b
    <3>1. ASSUME NEW i \in 1 .. n PROVE cs[i] = Laid[i]
      <4>1. i \in 1 .. n + 2 /\ i <= n
          BY <1>1
      <4> QED BY <2>1, <2>4, <2>5, <2>6, <4>1
    <3>2. cs[n + 1] = a
      <4>1. n + 1 \in 1 .. n + 2 /\ ~ (n + 1 <= n) /\ (n + 1) - n = 1
          BY <1>1
      <4> QED BY <2>1, <2>4, <2>5, <2>6, <4>1
    <3>3. cs[n + 2] = b
      <4>1. n + 2 \in 1 .. n + 2 /\ ~ (n + 2 <= n) /\ (n + 2) - n = 2
          BY <1>1
      <4> QED BY <2>1, <2>4, <2>5, <2>6, <4>1
    <3> QED BY <3>1, <3>2, <3>3
  <2>8. AllChains = [i \in 1 .. n + 2 |-> cs[i].chain]
    <3>1. DOMAIN cs = 1 .. n + 2
        BY <2>6
    <3> QED BY <2>6, <3>1 DEF AllChains
  <2>9. /\ \A i \in 1 .. n : AllChains[i] = Chains[i]
        /\ AllChains[n + 1] = <<Plt>> /\ AllChains[n + 2] = <<IData>>
    <3>1. \A i \in 1 .. n : i \in 1 .. n + 2
        BY <1>1
    <3>2. n + 1 \in 1 .. n + 2 /\ n + 2 \in 1 .. n + 2
        BY <1>1
    <3> QED BY <1>2, <2>2, <2>7, <2>8, <3>1, <3>2
  <2>10. \A i \in 1 .. n + 2 : i \in 1 .. n \/ i = n + 1 \/ i = n + 2
      BY <1>1
  <2>11. <<Plt>> \in Seq(Parts) /\ <<IData>> \in Seq(Parts)
    <3>1. Plt \in Parts /\ IData \in Parts
        BY <1>7 DEF Parts
    <3> QED BY <3>1
  <2>12. \A i \in 1 .. n + 2 : AllChains[i] \in Seq(Parts)
      BY <1>4, <2>9, <2>10, <2>11
  <2>13. AllChains \in Seq(Seq(Parts)) /\ Len(AllChains) = n + 2
    <3>1. \A i \in 1 .. n + 2 : cs[i].chain \in Seq(Parts)
        BY <2>8, <2>12
    <3> QED BY <1>1, <2>8, <3>1
  <2>14. n <= n + 2
      BY <1>1
  <2> QED BY <1>1, <1>7, <2>9, <2>10, <2>13, <2>14
<1> QED BY <1>6, <1>7

LEMMA WeightsAlike ==
  ASSUME NEW T, NEW v, NEW w, NEW c \in Seq(T), \A t \in T : v[t] = w[t]
  PROVE  Weights(v, c) = Weights(w, c)
<1>1. \A i \in DOMAIN c : v[c[i]] = w[c[i]]
    OBVIOUS
<1> QED BY <1>1 DEF Weights

\* Up to .edata, the file is laid out as the addresses are.
LEMMA LoadsAlike ==
  ASSUME BoxInv, AddrInv, phase = "emit"
  PROVE  /\ \A b \in 0 .. Len(Laid) : SumUpTo(Loads(Takes, AllChains), b) = Before(b)
         /\ \A b \in 1 .. Len(Laid) : Weights(Takes, AllChains[b]) = Weights(Room, Chains[b])
<1>1. PICK V, W : V \in [Ids -> Nat] /\ W \in [Parts -> Nat] /\ V = Room /\ W = Takes /\ \A s \in Ids : V[s] = W[s]
    BY RoomsAre, TakesIs
<1>2. PICK n \in Nat : n = Len(Laid)
    BY ChainsAre
<1>3. PICK cs \in Seq(Seq(Ids)) : cs = Chains /\ Len(cs) = n
    BY <1>2, ChainsAre
<1>4. PICK ds \in Seq(Seq(Parts)) : ds = AllChains /\ n <= Len(ds) /\ \A b \in 1 .. n : ds[b] = cs[b]
    BY <1>2, <1>3, AllChainsAre
<1>5. ASSUME NEW b \in 1 .. n PROVE Weights(W, ds[b]) = Weights(V, cs[b])
  <2>1. PICK c \in Seq(Ids) : c = cs[b]
      BY <1>3
  <2>0. \A s \in Ids : V[s] = W[s]
      BY <1>1
  <2>2. Weights(V, c) = Weights(W, c)
      BY <2>0, WeightsAlike
  <2> QED BY <1>4, <2>1, <2>2
<1>6. /\ Loads(V, cs) \in Seq(Nat) /\ Len(Loads(V, cs)) = n
      /\ \A i \in 1 .. n : Loads(V, cs)[i] = Total(Weights(V, cs[i]))
  <2>1. V \in [Ids -> Nat] /\ cs \in Seq(Seq(Ids))
      BY <1>1
  <2>2. /\ Loads(V, cs) \in Seq(Nat) /\ Len(Loads(V, cs)) = Len(cs)
        /\ \A i \in 1 .. Len(cs) : Loads(V, cs)[i] = Total(Weights(V, cs[i]))
      BY <2>1, LoadsAre
  <2> QED BY <1>3, <2>2
<1>7. /\ Loads(W, ds) \in Seq(Nat) /\ Len(Loads(W, ds)) = Len(ds)
      /\ \A i \in 1 .. Len(ds) : Loads(W, ds)[i] = Total(Weights(W, ds[i]))
  <2>1. W \in [Parts -> Nat] /\ ds \in Seq(Seq(Parts))
      BY <1>1
  <2> QED BY <2>1, LoadsAre
<1>8. PICK f, g : f \in Seq(Nat) /\ g \in Seq(Nat) /\ f = Loads(W, ds) /\ g = Loads(V, cs)
    BY <1>6, <1>7
<1>9. ASSUME NEW i \in 1 .. n PROVE f[i] = g[i]
  <2>1. i \in 1 .. Len(ds)
      BY <1>2, <1>4
  <2>2. f[i] = Total(Weights(W, ds[i])) /\ g[i] = Total(Weights(V, cs[i]))
      BY <1>6, <1>7, <1>8, <2>1
  <2> QED BY <1>5, <2>2
<1>10. ASSUME NEW b \in 0 .. n PROVE SumUpTo(f, b) = SumUpTo(g, b)
  <2>1. b \in Nat /\ b <= Len(f) /\ b <= Len(g) /\ \A i \in 1 .. b : i \in 1 .. n
      BY <1>2, <1>4, <1>6, <1>7, <1>8
  <2>2. \A i \in 1 .. b : f[i] = g[i]
      BY <1>9, <2>1
  <2> QED BY <1>8, <2>1, <2>2, SumSame
<1>11. \A b : Before(b) = SumUpTo(g, b)
    BY <1>1, <1>3, <1>8 DEF Before
<1> QED BY <1>1, <1>2, <1>3, <1>4, <1>5, <1>8, <1>10, <1>11

LEMMA WeightOfOne ==
  ASSUME NEW T, NEW w \in [T -> Nat], NEW x \in T
  PROVE  Total(Weights(w, <<x>>)) = w[x]
<1>0. <<x>> \in Seq(T) /\ Len(<<x>>) = 1 /\ <<x>>[1] = x
    OBVIOUS
<1>1. PICK c \in Seq(T) : c = <<x>>
    BY <1>0
<1>2. Weights(w, c) \in Seq(Nat) /\ Len(Weights(w, c)) = Len(c) /\ \A i \in 1 .. Len(c) : Weights(w, c)[i] = w[c[i]]
    BY WeightsAre
<1>3. PICK f \in Seq(Nat) : f = Weights(w, c) /\ Len(f) = 1
    BY <1>0, <1>1, <1>2
<1>4. Len(f) = 1 /\ f[1] = w[x]
  <2>1. 1 \in 1 .. Len(c) /\ c[1] = x
      BY <1>0, <1>1
  <2>2. f[1] = w[c[1]]
      BY <1>2, <1>3, <2>1
  <2> QED BY <1>3, <2>1, <2>2
<1>5. SumUpTo(f, 0) = 0 /\ SumUpTo(f, 1) = SumUpTo(f, 0) + f[1]
  <2>1. 1 \in 1 .. Len(f) /\ 1 - 1 = 0
      BY <1>4
  <2> QED BY <2>1, SumIs
<1>6. w[x] \in Nat
    OBVIOUS
<1>7. SumUpTo(f, 1) = w[x]
    BY <1>4, <1>5, <1>6
<1>8. Total(f) = w[x]
    BY <1>3, <1>7 DEF Total
<1> QED BY <1>1, <1>3, <1>8

\* Where the file has element k of chain b.
LEMMA AtItsAddress ==
  ASSUME BoxInv, AddrInv, phase = "emit",
         NEW b \in 1 .. Len(AllChains), NEW k \in 1 .. Len(AllChains[b])
  PROVE  LET x == SumUpTo(Loads(Takes, AllChains), b - 1)
             y == SumUpTo(Weights(Takes, AllChains[b]), k - 1)
         IN  x \in Nat /\ y \in Nat /\ va[AllChains[b][k]] = Base + (x + y)
<1> DEFINE x == SumUpTo(Loads(Takes, AllChains), b - 1)
           y == SumUpTo(Weights(Takes, AllChains[b]), k - 1)
<1>1. PICK n \in Nat : n = Len(Laid)
    BY ChainsAre
<1>2. PICK W \in [Parts -> Nat] : W = Takes /\ (importLen > 0 => W[Plt] = pltSize /\ pltSize \in Nat)
    BY TakesIs
<1>3. PICK ds \in Seq(Seq(Parts)) : ds = AllChains
    BY AllChainsAre
<1>4. /\ \A i \in 1 .. n : ds[i] = Chains[i]
      /\ importLen > 0 => Len(ds) = n + 2 /\ ds[n + 1] = <<Plt>>
      /\ \A i \in 1 .. Len(ds) :
           \/ i \in 1 .. n
           \/ importLen > 0 /\ i = n + 1 /\ ds[i] = <<Plt>>
           \/ importLen > 0 /\ i = n + 2 /\ ds[i] = <<IData>>
    BY <1>1, <1>3, AllChainsAre
<1>5. /\ Loads(W, ds) \in Seq(Nat) /\ Len(Loads(W, ds)) = Len(ds)
      /\ \A i \in 1 .. Len(ds) : Loads(W, ds)[i] = Total(Weights(W, ds[i]))
    BY LoadsAre
<1>6. PICK f \in Seq(Nat) : f = Loads(W, ds)
    BY <1>5
<1>7. \A i \in 0 .. n : SumUpTo(f, i) = Before(i) /\ Before(i) \in Nat
    BY <1>1, <1>2, <1>3, <1>6, LoadsAlike, RoomsAre
<1>8. Placed(n)
    BY <1>1 DEF AddrInv, Upto, Placing
<1>9. importLen > 0 => va[Plt] = Base + Before(n) /\ va[IData] = va[Plt] + pltSize
    BY <1>1 DEF AddrInv, Late
<1>10. CASE b \in 1 .. n
  <2>1. b - 1 \in 0 .. n
      BY <1>10
  <2>2. x = Before(b - 1) /\ x \in Nat
      BY <1>2, <1>3, <1>6, <1>7, <2>1
  <2>3. AllChains[b] = Chains[b]
      BY <1>3, <1>4, <1>10
  <2>4. k - 1 \in 0 .. Len(Chains[b])
    <3>1. Chains[b] \in Seq(Ids)
        BY <1>1, <1>10, ChainsAre
    <3> QED BY <2>3, <3>1
  <2>5. Weights(Takes, AllChains[b]) = Weights(Room, Chains[b])
      BY <1>1, <1>10, LoadsAlike
  <2>6. y = Within(b, k - 1)
      BY <2>5 DEF Within
  <2>7. y \in Nat
      BY <1>1, <1>10, <2>4, <2>6, RoomsAre
  <2>8. va[AllChains[b][k]] = Base + (x + y)
      BY <1>8, <1>10, <2>2, <2>3, <2>6 DEF Placed
  <2> QED BY <2>2, <2>7, <2>8
<1>11. CASE importLen > 0 /\ b = n + 1 /\ ds[b] = <<Plt>>
  <2>1. b - 1 = n /\ n \in 0 .. n
      BY <1>11
  <2>2. x = Before(n) /\ x \in Nat
      BY <1>2, <1>3, <1>6, <1>7, <2>1
  <2>3. k = 1 /\ AllChains[b][k] = Plt
      BY <1>3, <1>11
  <2>4. y = 0
    <3>1. ds[b] \in Seq(Parts)
        BY <1>3
    <3>2. Weights(W, ds[b]) \in Seq(Nat)
        BY <3>1, WeightsAre
    <3>3. SumUpTo(Weights(W, ds[b]), 0) = 0
        BY <3>2, SumIs
    <3> QED BY <1>2, <1>3, <2>3, <3>3
  <2>5. PICK d \in Nat : d = x
      BY <2>2
  <2>6. va[AllChains[b][k]] = Base + d /\ d + 0 = d
      BY <1>9, <1>11, <2>2, <2>3, <2>5
  <2> QED BY <2>4, <2>5, <2>6
<1>12. CASE importLen > 0 /\ b = n + 2 /\ ds[b] = <<IData>>
  <2>0. Len(ds) = n + 2
      BY <1>4, <1>12
  <2>1. b - 1 = n + 1 /\ n \in 0 .. n /\ n + 1 \in 1 .. Len(ds) /\ (n + 1) - 1 = n
      BY <1>12, <2>0
  <2>2. k = 1 /\ AllChains[b][k] = IData
      BY <1>3, <1>12
  <2>3. y = 0
    <3>1. ds[b] \in Seq(Parts)
        BY <1>3
    <3>2. Weights(W, ds[b]) \in Seq(Nat)
        BY <3>1, WeightsAre
    <3>3. SumUpTo(Weights(W, ds[b]), 0) = 0
        BY <3>2, SumIs
    <3> QED BY <1>2, <1>3, <2>2, <3>3
  <2>4. Total(Weights(W, <<Plt>>)) = pltSize
    <3>1. Plt \in Parts
        BY <1>12 DEF Parts
    <3>2. Total(Weights(W, <<Plt>>)) = W[Plt]
        BY <3>1, WeightOfOne
    <3> QED BY <1>2, <1>12, <3>2
  <2>5. x = SumUpTo(f, n) + f[n + 1]
    <3>1. n + 1 \in 1 .. Len(f)
        BY <1>5, <1>6, <2>1
    <3>2. SumUpTo(f, n + 1) = SumUpTo(f, (n + 1) - 1) + f[n + 1]
        BY <3>1, SumIs
    <3> QED BY <1>2, <1>3, <1>6, <2>1, <3>2
  <2>6. f[n + 1] = pltSize
      BY <1>4, <1>5, <1>6, <1>12, <2>1, <2>4
  <2>7. PICK d, e : d \in Nat /\ e \in Nat /\ d = Before(n) /\ e = pltSize
      BY <1>2, <1>7, <1>12, <2>1
  <2>8. x = d + e
      BY <1>7, <2>1, <2>5, <2>6, <2>7
  <2>9. va[AllChains[b][k]] = (4096 + d) + e
      BY SMTT(30), <1>9, <1>12, <2>2, <2>7 DEF Base
  <2>10. PICK z : z = x
      OBVIOUS
  <2>11. z = d + e /\ z \in Nat /\ z + 0 = z
      BY <2>7, <2>8, <2>10
  <2>12. va[AllChains[b][k]] = Base + (z + 0)
      BY <2>7, <2>9, <2>11 DEF Base
  <2> QED BY <2>3, <2>10, <2>11, <2>12
<1>13. \/ b \in 1 .. n
       \/ importLen > 0 /\ b = n + 1 /\ ds[b] = <<Plt>>
       \/ importLen > 0 /\ b = n + 2 /\ ds[b] = <<IData>>
    BY <1>3, <1>4
<1> QED BY <1>10, <1>11, <1>12, <1>13

LEMMA PiecesWritten == BoxInv /\ AddrInv /\ gen_pe => PiecesAtTheirAddresses'
<1> SUFFICES ASSUME BoxInv, AddrInv, gen_pe PROVE PiecesAtTheirAddresses'
    OBVIOUS
<1>1. phase = "emit" /\ UNCHANGED va
    BY DEF gen_pe
<1>2. PICK W \in [Parts -> Nat] : W = Takes
    BY <1>1, TakesIs
<1>3. PICK ds \in Seq(Seq(Parts)) : ds = AllChains
    BY <1>1, AllChainsAre
<1>4. PICK all \in Seq(Parts) : all = FlattenSeq(ds)
    BY FlattenIsSeq
<1>8. \A b \in 1 .. Len(ds) : \A k \in 1 .. Len(ds[b]) :
         /\ Place(ds, b, k) \in 1 .. Len(FlattenSeq(ds))
         /\ FlattenSeq(ds)[Place(ds, b, k)] = ds[b][k]
         /\ SumUpTo(Weights(W, FlattenSeq(ds)), Place(ds, b, k) - 1)
              = SumUpTo(Loads(W, ds), b - 1) + SumUpTo(Weights(W, ds[b]), k - 1)
  <2>1. Flat(W, ds)
      BY FlattenAt
  <2> QED BY <2>1 DEF Flat
<1>5. pieces' = [i \in DOMAIN all |-> [sec |-> all[i], pos |-> HeaderSize + SizeUpTo(all, i - 1), size |-> SizeOf(all[i])]]
    BY <1>3, <1>4 DEF gen_pe, AllChains
<1>6. \A i : SizeUpTo(all, i) = SumUpTo(Weights(W, all), i)
  <2>1. \A i \in DOMAIN all : all[i] \in Parts
      OBVIOUS
  <2>2. \A s \in Parts : Takes[s] = SizeOf(s)
      BY DEF Takes
  <2>3. [i \in DOMAIN all |-> SizeOf(all[i])] = Weights(W, all)
      BY <1>2, <2>1, <2>2 DEF Weights
  <2> QED BY <2>3 DEF SizeUpTo
<1>7. ASSUME NEW i \in DOMAIN pieces'
      PROVE  pieces'[i].pos - HeaderSize = va'[pieces'[i].sec] - Base
  <2>1. i \in DOMAIN all /\ i \in 1 .. Len(FlattenSeq(ds))
      BY <1>4, <1>5, <1>7
  <2>2. PICK b \in 1 .. Len(ds) : \E k \in 1 .. Len(ds[b]) : i = Place(ds, b, k)
      BY <2>1, FlattenFrom
  <2>3. PICK k \in 1 .. Len(ds[b]) : i = Place(ds, b, k)
      BY <2>2
  <2>4. /\ all[i] = ds[b][k]
        /\ SumUpTo(Weights(W, all), i - 1) = SumUpTo(Loads(W, ds), b - 1) + SumUpTo(Weights(W, ds[b]), k - 1)
      BY <1>4, <1>8, <2>3
  <2>5. /\ SumUpTo(Loads(W, ds), b - 1) \in Nat /\ SumUpTo(Weights(W, ds[b]), k - 1) \in Nat
        /\ va[ds[b][k]] = Base + (SumUpTo(Loads(W, ds), b - 1) + SumUpTo(Weights(W, ds[b]), k - 1))
      BY <1>1, <1>2, <1>3, AtItsAddress
  <2>6. PICK x, y : x \in Nat /\ y \in Nat /\ x = SumUpTo(Loads(W, ds), b - 1) /\ y = SumUpTo(Weights(W, ds[b]), k - 1)
      BY <2>5
  <2>7. pieces'[i].sec = all[i] /\ pieces'[i].pos = HeaderSize + SizeUpTo(all, i - 1)
      BY <1>5, <2>1
  <2>8. SizeUpTo(all, i - 1) = x + y
      BY <1>6, <2>4, <2>6
  <2>9. va'[pieces'[i].sec] = 4096 + (x + y) /\ pieces'[i].pos = 512 + (x + y)
      BY <1>1, <2>4, <2>5, <2>6, <2>7, <2>8 DEF Base, HeaderSize
  <2> QED BY <2>6, <2>9 DEF Base, HeaderSize
<1> QED BY <1>7 DEF PiecesAtTheirAddresses

LEMMA InitAddr == Init => AddrInv /\ PiecesAtTheirAddresses
BY DEF Init, AddrInv, PiecesAtTheirAddresses, Reading, Placing, Late

\* What the section header says is at an address is what the file has there,
\* whatever the objects, their sections' names and sizes and the imports are.
THEOREM SpecPiecesAtTheirAddresses == Spec => []PiecesAtTheirAddresses
<1> DEFINE I == BoxInv /\ AddrInv /\ PiecesAtTheirAddresses
<1>1. Init => I
    BY InitBoxes, InitAddr
<1>2. I /\ [Next]_vars => I'
  <2> SUFFICES ASSUME BoxInv, AddrInv, PiecesAtTheirAddresses, [Next]_vars
               PROVE  BoxInv' /\ AddrInv' /\ PiecesAtTheirAddresses'
      OBVIOUS
  <2>1. BoxInv' /\ AddrInv'
      BY BoxStep, AddrStep
  <2>2. CASE gen_pe
      BY <2>1, <2>2, PiecesWritten
  <2>3. CASE ~ gen_pe
    <3>1. pieces' = pieces
      <4>1. CASE resolve
          BY <4>1, ResolveIs DEF outVars
      <4> QED BY <2>3, <4>1 DEF Next, section_callback, symtab_callback, add_edata, set_virtual_address, add_export,
                 exported, relocated, add_import, no_import, outVars, vars
    <3>2. CASE phase # "done"
      <4>1. pieces' = <<>>
          BY <3>1, <3>2 DEF AddrInv
      <4> QED BY <2>1, <4>1 DEF PiecesAtTheirAddresses
    <3>3. CASE phase = "done"
      <4>1. va' = va
        <5>1. ~ resolve
            BY <3>3, ResolveIs
        <5> QED BY <2>3, <3>3, <5>1 DEF Next, section_callback, symtab_callback, add_edata, set_virtual_address, add_export,
                   exported, relocated, add_import, no_import, vars
      <4> QED BY <2>1, <3>1, <4>1 DEF PiecesAtTheirAddresses
    <3> QED BY <3>2, <3>3
  <2> QED BY <2>1, <2>2, <2>3
<1> QED BY <1>1, <1>2, PTL DEF Spec

----------------------------------------------------------------------------
(* Exports                                                                 *)

\* The rows of the objects' symbols.
SymRows == {e \in Cursor : e.obj \in DOMAIN world /\ e.row \in DOMAIN world[e.obj].symbols}

Exporting == {"export", "reloc", "import", "emit", "done"}

\* The room of each exported name, and of the tables in front of them.
NameRooms == [i \in 1 .. Len(exports) |-> Length(GET_NAME(Symbol(exports[i]))) + 1]
Tables == 41 + OutLen + 10 * Len(exports)

\* The counted length is that of the tables and all names; names are written
\* one behind the other.
ExportInv ==
  /\ exports \in Seq(SymRows)
  /\ exportLen = IF Len(exports) = 0 THEN 0 ELSE Tables + Total(NameRooms)
  /\ phase \in Placing => exportLen # 0
  /\ phase \in Reading \cup {"edata", "addresses"} => names = <<>> /\ functions = <<>>
  /\ phase \in Exporting =>
       /\ names \in Seq(Names \cup {Unnamed}) /\ functions \in Seq(Nat \ {0})
       /\ Len(names) = Len(functions) /\ Len(functions) <= Len(exports)
       /\ \A i \in 1 .. Len(functions) :
            names[i] = GET_NAME(Symbol(exports[i])) /\ functions[i] = ExportAddress(exports[i])
       /\ Len(functions) > 0 => exportEnd = Tables + SumUpTo(NameRooms, Len(functions))
  /\ phase \in Exporting \ {"export"} => Len(functions) = Len(exports)

LEMMA SymbolIs ==
  ASSUME world \in Worlds, NEW e \in SymRows
  PROVE  /\ Symbol(e) \in SymbolRows /\ Symbol(e).value \in Nat
         /\ GET_NAME(Symbol(e)) \in Names \cup {Unnamed} /\ Length(GET_NAME(Symbol(e))) \in Nat \ {0}
<1>1. e.obj \in DOMAIN world /\ e.row \in DOMAIN world[e.obj].symbols
    BY DEF SymRows
<1>2. world[e.obj].symbols \in Seq(SymbolRows)
    BY <1>1, WorldIs
<1>3. Symbol(e) \in SymbolRows
    BY <1>1, <1>2 DEF Symbol
<1>4. Symbol(e).value \in Nat
    BY <1>3 DEF SymbolRows
<1> QED BY <1>3, <1>4, NamesAre

LEMMA NameRoomsAre ==
  ASSUME world \in Worlds, exports \in Seq(SymRows)
  PROVE  /\ NameRooms \in Seq(Nat) /\ Len(NameRooms) = Len(exports) /\ Len(exports) \in Nat
         /\ \A i \in 1 .. Len(exports) : NameRooms[i] = Length(GET_NAME(Symbol(exports[i]))) + 1
<1>1. PICK n \in Nat : n = Len(exports)
    OBVIOUS
<1>2. ASSUME NEW i \in 1 .. n PROVE Length(GET_NAME(Symbol(exports[i]))) + 1 \in Nat
  <2>1. exports[i] \in SymRows
      BY <1>1
  <2>2. PICK l \in Nat : l = Length(GET_NAME(Symbol(exports[i])))
      BY <2>1, SymbolIs
  <2> QED BY <2>2
<1> QED BY <1>1, <1>2 DEF NameRooms

\* One more export.
LEMMA StepExports == BoxInv /\ ExportInv /\ symtab_callback => ExportInv'
<1> SUFFICES ASSUME BoxInv, ExportInv, symtab_callback PROVE ExportInv'
    OBVIOUS
<1>1. /\ phase = "symbols" /\ UNCHANGED <<world, names, functions, exportEnd>>
      /\ phase' \in Reading \cup {"edata"}
  <2>1. phase' \in {"symbols", "sections", "edata"}
      BY SymtabIs
  <2> QED BY <2>1 DEF symtab_callback, exportVars, Reading
<1>2. world \in Worlds /\ at \in SymRows
    BY <1>1 DEF BoxInv, AtTypes, SymRows, Reading
<1>3. exports \in Seq(SymRows) /\ SymRows' = SymRows
    BY <1>1 DEF ExportInv, SymRows
<1>4. PICK n \in Nat : n = Len(exports)
    BY <1>3
<1>5. phase' \notin Placing /\ phase' \notin Exporting /\ names' = <<>> /\ functions' = <<>>
    BY <1>1 DEF Placing, Exporting, Reading, ExportInv
<1>6. CASE UNCHANGED <<exports, exportLen>>
  <2>1. Tables' = Tables /\ NameRooms' = NameRooms
      BY <1>1, <1>6 DEF Tables, NameRooms, Symbol
  <2> QED BY <1>3, <1>5, <1>6, <2>1 DEF ExportInv
<1>7. CASE ~ UNCHANGED <<exports, exportLen>>
  <2>1. PICK l \in Nat : l = Length(GET_NAME(Symbol(at)))
      BY <1>2, SymbolIs
  <2>2. /\ exports' = Append(exports, at)
        /\ exportLen' = (IF exportLen = 0 THEN 40 + OutLen + 1 ELSE exportLen) + 4 + 4 + 2 + l + 1
      BY <1>7, <2>1 DEF symtab_callback, Obj, Symbol, ExportDirectory
  <2>3. exports' \in Seq(SymRows) /\ Len(exports') = n + 1 /\ exports'[n + 1] = at /\ \A i \in 1 .. n : exports'[i] = exports[i]
      BY <1>2, <1>3, <1>4, <2>2
  <2>4. NameRooms \in Seq(Nat) /\ Len(NameRooms) = n
        /\ \A i \in 1 .. n : NameRooms[i] = Length(GET_NAME(Symbol(exports[i]))) + 1
      BY <1>2, <1>3, <1>4, NameRoomsAre
  <2>5. PICK f \in Seq(Nat) : f = NameRooms /\ Len(f) = n
      BY <2>4
  <2>6. NameRooms' = Append(f, l + 1)
    <3>1. NameRooms' = [i \in 1 .. n + 1 |-> Length(GET_NAME(Symbol(exports'[i]))) + 1]
        BY <1>1, <2>3 DEF NameRooms, Symbol
    <3>2. PICK g : g = NameRooms'
        OBVIOUS
    <3>3. ASSUME NEW i \in 1 .. n + 1 PROVE g[i] = Append(f, l + 1)[i]
      <4>1. g[i] = Length(GET_NAME(Symbol(exports'[i]))) + 1
          BY <3>1, <3>2
      <4>2. CASE i = n + 1
          BY <2>1, <2>3, <2>5, <4>1, <4>2
      <4>3. CASE i # n + 1
        <5>1. i \in 1 .. n
            BY <1>4, <4>3
        <5>2. Append(f, l + 1)[i] = f[i]
            BY <2>5, <5>1
        <5>3. g[i] = f[i]
            BY <2>3, <2>4, <2>5, <4>1, <5>1
        <5> QED BY <5>2, <5>3
      <4> QED BY <4>2, <4>3
    <3>4. Append(f, l + 1) = [i \in 1 .. n + 1 |-> Append(f, l + 1)[i]]
        BY <2>5
    <3>5. g = [i \in 1 .. n + 1 |-> g[i]]
        BY <3>1, <3>2
    <3> QED BY <3>2, <3>3, <3>4, <3>5
  <2>7. Total(NameRooms') = Total(f) + (l + 1) /\ Total(f) \in Nat
    <3>1. l + 1 \in Nat
        OBVIOUS
    <3>2. Total(Append(f, l + 1)) = Total(f) + (l + 1) /\ Total(f) \in Nat
        BY <3>1, TotalAppend, TotalIsNat
    <3> QED BY <2>6, <3>2
  <2>8. PICK s, o : s \in Nat /\ s = Total(f) /\ o \in Nat /\ o = OutLen
      BY <2>7, TablesAssumption
  <2>9. Tables = 41 + o + 10 * n /\ Tables' = 41 + o + 10 * (n + 1)
      BY <1>4, <2>3, <2>8 DEF Tables
  <2>10. exportLen' = Tables' + Total(NameRooms')
    <3>1. CASE n = 0
      <4>1. exportLen = 0
          BY <1>4, <3>1 DEF ExportInv
      <4>2. s = 0
        <5>1. SumUpTo(f, 0) = 0
            BY SumIs
        <5> QED BY <2>5, <2>8, <3>1, <5>1 DEF Total
      <4> QED BY <2>2, <2>7, <2>8, <2>9, <3>1, <4>1, <4>2
    <3>2. CASE n # 0
      <4>1. exportLen = 41 + o + 10 * n + s
        <5>1. exportLen = Tables + Total(NameRooms)
            BY <1>4, <3>2 DEF ExportInv
        <5> QED BY <2>5, <2>8, <2>9, <5>1
      <4>2. exportLen # 0
          BY <2>8, <4>1
      <4>3. exportLen' = exportLen + 4 + 4 + 2 + l + 1
          BY <2>2, <4>2
      <4>4. Total(NameRooms') = s + (l + 1)
          BY <2>7, <2>8
      <4>5. PICK x \in Nat : x = 41 + o + 10 * n + s
          BY <2>8
      <4>6. exportLen = x
          BY <4>1, <4>5
      <4>7. exportLen' = x + 11 + l
          BY <4>3, <4>6
      <4>8. Tables' = 41 + o + 10 * n + 10
          BY <2>8, <2>9
      <4> QED BY SMTT(30), <2>8, <4>4, <4>5, <4>7, <4>8
    <3> QED BY <3>1, <3>2
  <2>11. Len(exports') # 0
      BY <2>3
  <2> QED BY <1>3, <1>5, <2>3, <2>10, <2>11 DEF ExportInv
<1> QED BY <1>6, <1>7

LEMMA RowPlaced ==
  ASSUME BoxInv, AddrInv, phase \in Exporting, NEW s \in Rows
  PROVE  s \in DOMAIN va /\ va[s] \in Nat \ {0}
<1>1. phase \in Placing /\ phase \notin Reading /\ phase # "addresses"
    BY DEF Exporting, Placing, Reading
<1>2. Holds(Laid, s)
  <2>1. ReadSoFar(s)
      BY <1>1 DEF ReadSoFar, Reading
  <2> QED BY <2>1 DEF BoxInv
<1>3. PICK n \in Nat : n = Len(Laid)
    BY ChainsAre
<1>4. PICK b \in 1 .. n : \E k \in 1 .. Len(Laid[b].chain) : Laid[b].chain[k] = s
    BY <1>2, <1>3 DEF Holds
<1>5. PICK k \in 1 .. Len(Laid[b].chain) : Laid[b].chain[k] = s
    BY <1>4
<1>6. Chains[b] = Laid[b].chain /\ Chains[b] \in Seq(Ids)
    BY <1>3, ChainsAre
<1>7. Placed(n)
    BY <1>1, <1>3 DEF AddrInv, Upto
<1>8. s \in DOMAIN va /\ va[s] = Base + (Before(b - 1) + Within(b, k - 1))
    BY <1>5, <1>6, <1>7 DEF Placed
<1>9. Before(b - 1) \in Nat /\ Within(b, k - 1) \in Nat
  <2>1. b \in 1 .. Len(Laid) /\ b - 1 \in 0 .. Len(Laid) /\ k - 1 \in 0 .. Len(Chains[b])
      BY <1>3, <1>6
  <2> QED BY <2>1, RoomsAre
<1>10. PICK x, y : x \in Nat /\ y \in Nat /\ x = Before(b - 1) /\ y = Within(b, k - 1)
    BY <1>9
<1>11. va[s] = 4096 + (x + y)
    BY <1>8, <1>10 DEF Base
<1> QED BY SMTT(30), <1>8, <1>10, <1>11

LEMMA FirstSection ==
  ASSUME world \in Worlds, NEW e \in SymRows
  PROVE  <<e.obj, 1>> \in Rows
<1>1. e.obj \in DOMAIN world /\ e.obj \in Nat
    BY DEF SymRows, Cursor
<1>2. world[e.obj].sections \in Seq(SectionRows) /\ world[e.obj].sections # <<>>
    BY <1>1, WorldIs
<1>3. 1 \in DOMAIN world[e.obj].sections
    BY <1>2
<1> QED BY <1>1, <1>3 DEF Rows

LEMMA ExportAddressIs ==
  ASSUME BoxInv, AddrInv, phase \in Exporting, NEW e \in SymRows
  PROVE  <<e.obj, 1>> \in DOMAIN va /\ ExportAddress(e) \in Nat \ {0}
<1>1. world \in Worlds
    BY DEF BoxInv, AtTypes
<1>2. <<e.obj, 1>> \in DOMAIN va /\ va[<<e.obj, 1>>] \in Nat \ {0}
    BY <1>1, FirstSection, RowPlaced
<1>3. PICK v \in Nat : v = Symbol(e).value
    BY <1>1, SymbolIs
<1> QED BY <1>2, <1>3 DEF ExportAddress

\* Places in the file do not change once addresses are given.
LEMMA AddressesKept ==
  ASSUME BoxInv, AddrInv, phase \in Exporting, [Next]_vars, NEW s \in Rows
  PROVE  va'[s] = va[s]
<1>1. CASE add_import
  <2>1. s # Plt /\ s # IData
      BY NotImportSections DEF BoxInv, AtTypes, Ids
  <2>2. s \in DOMAIN va
      BY RowPlaced
  <2>3. va' = [i \in DOMAIN va \cup {Plt, IData} |->
                IF i = Plt THEN offset ELSE IF i = IData THEN plt ELSE va[i]]
      BY <1>1 DEF add_import
  <2> QED BY <2>1, <2>2, <2>3
<1>2. CASE resolve
    BY <1>2, ResolveIs
<1>3. CASE ~ add_import /\ ~ resolve
    BY <1>3 DEF Next, Exporting, section_callback, symtab_callback, add_edata, set_virtual_address, add_export,
         exported, relocated, no_import, gen_pe, vars
<1> QED BY <1>1, <1>2, <1>3

LEMMA ExportKept ==
  ASSUME ExportInv, UNCHANGED <<world, exports, exportLen, names, functions, exportEnd>>,
         phase' \in Placing => phase \in Placing \/ exportLen # 0,
         phase' \in Reading \cup {"edata", "addresses"} => phase \in Reading \cup {"edata", "addresses"},
         phase' \in Exporting => phase \in Exporting,
         phase' \in Exporting \ {"export"} => phase \in Exporting \ {"export"} \/ Len(functions) = Len(exports),
         phase' \in Exporting => \A i \in 1 .. Len(functions) : ExportAddress(exports[i])' = ExportAddress(exports[i])
  PROVE  ExportInv'
<1>1. /\ Tables' = Tables /\ NameRooms' = NameRooms /\ SymRows' = SymRows
      /\ \A i \in 1 .. Len(functions) : Symbol(exports[i])' = Symbol(exports[i])
    BY DEF Tables, NameRooms, Symbol, SymRows
<1>2. exports' \in Seq(SymRows') /\ exportLen' = IF Len(exports') = 0 THEN 0 ELSE Tables' + Total(NameRooms)'
  <2>1. Total(NameRooms)' = Total(NameRooms)
      BY <1>1
  <2> QED BY <1>1, <2>1 DEF ExportInv
<1>3. phase' \in Exporting =>
       /\ names' \in Seq(Names \cup {Unnamed}) /\ functions' \in Seq(Nat \ {0})
       /\ Len(names') = Len(functions') /\ Len(functions') <= Len(exports')
       /\ \A i \in 1 .. Len(functions') :
            names'[i] = GET_NAME(Symbol(exports[i]))' /\ functions'[i] = ExportAddress(exports[i])'
       /\ Len(functions') > 0 => exportEnd' = Tables' + SumUpTo(NameRooms, Len(functions))'
  <2> SUFFICES ASSUME phase' \in Exporting
               PROVE  /\ names' \in Seq(Names \cup {Unnamed}) /\ functions' \in Seq(Nat \ {0})
                      /\ Len(names') = Len(functions') /\ Len(functions') <= Len(exports')
                      /\ \A i \in 1 .. Len(functions') :
                           names'[i] = GET_NAME(Symbol(exports[i]))' /\ functions'[i] = ExportAddress(exports[i])'
                      /\ Len(functions') > 0 => exportEnd' = Tables' + SumUpTo(NameRooms, Len(functions))'
      OBVIOUS
  <2>1. phase \in Exporting
      OBVIOUS
  <2>2. /\ names \in Seq(Names \cup {Unnamed}) /\ functions \in Seq(Nat \ {0})
        /\ Len(names) = Len(functions) /\ Len(functions) <= Len(exports)
        /\ \A i \in 1 .. Len(functions) :
             names[i] = GET_NAME(Symbol(exports[i])) /\ functions[i] = ExportAddress(exports[i])
        /\ Len(functions) > 0 => exportEnd = Tables + SumUpTo(NameRooms, Len(functions))
      BY <2>1 DEF ExportInv
  <2>3. SumUpTo(NameRooms, Len(functions))' = SumUpTo(NameRooms, Len(functions))
      BY <1>1
  <2>4. \A i \in 1 .. Len(functions) : GET_NAME(Symbol(exports[i]))' = GET_NAME(Symbol(exports[i]))
      BY <1>1 DEF GET_NAME
  <2> QED BY <1>1, <2>2, <2>3, <2>4
<1>4. phase' \in Exporting \ {"export"} => Len(functions') = Len(exports')
    BY DEF ExportInv
<1>5. phase' \in Placing => exportLen' # 0
    BY DEF ExportInv
<1>6. phase' \in Reading \cup {"edata", "addresses"} => names' = <<>> /\ functions' = <<>>
    BY DEF ExportInv, Reading
<1> QED BY <1>2, <1>3, <1>4, <1>5, <1>6 DEF ExportInv

\* One exported symbol is written.
LEMMA StepWriteExport == BoxInv /\ AddrInv /\ ExportInv /\ add_export => ExportInv'
<1> SUFFICES ASSUME BoxInv, AddrInv, ExportInv, add_export PROVE ExportInv'
    OBVIOUS
<1> DEFINE m == Len(functions)
           e == exports[Len(functions) + 1]
<1>1. /\ phase = "export" /\ m < Len(exports) /\ UNCHANGED <<world, exports, exportLen, va>>
      /\ names' = Append(names, GET_NAME(Symbol(e)))
      /\ functions' = Append(functions, ExportAddress(e))
      /\ phase' = phase \/ phase' = "stuck"
    BY DEF add_export, inputVars
<1>2. exportEnd' = (IF m = 0 THEN ExportDirectory + OutLen + 1 + (2 + 4 + 4) * Len(exports) ELSE exportEnd)
                   + Length(GET_NAME(Symbol(e))) + 1
    BY DEF add_export
<1>3. /\ names \in Seq(Names \cup {Unnamed}) /\ functions \in Seq(Nat \ {0}) /\ exports \in Seq(SymRows)
      /\ Len(names) = m /\ exportLen # 0
      /\ \A i \in 1 .. m :
           names[i] = GET_NAME(Symbol(exports[i])) /\ functions[i] = ExportAddress(exports[i])
      /\ m > 0 => exportEnd = Tables + SumUpTo(NameRooms, m)
    BY <1>1 DEF ExportInv, Exporting, Placing
<1>4. PICK n \in Nat : n = Len(exports)
    BY <1>3
<1>5. m \in Nat /\ m < n /\ m + 1 \in 1 .. n
    BY <1>1, <1>3, <1>4
<1>6. e \in SymRows /\ world \in Worlds
    BY <1>3, <1>4, <1>5 DEF BoxInv, AtTypes
<1>7. PICK g : g = GET_NAME(Symbol(e)) /\ g \in Names \cup {Unnamed} /\ Length(g) \in Nat \ {0}
    BY <1>6, SymbolIs
<1>8. PICK a : a = ExportAddress(e) /\ a \in Nat \ {0}
    BY <1>1, <1>6, ExportAddressIs DEF Exporting
<1>9. /\ names' \in Seq(Names \cup {Unnamed}) /\ functions' \in Seq(Nat \ {0})
      /\ Len(names') = m + 1 /\ Len(functions') = m + 1
    BY <1>1, <1>3, <1>7, <1>8
<1>10. /\ Tables' = Tables /\ NameRooms' = NameRooms /\ SymRows' = SymRows
       /\ \A i : Symbol(exports[i])' = Symbol(exports[i]) /\ ExportAddress(exports[i])' = ExportAddress(exports[i])
    BY <1>1 DEF Tables, NameRooms, Symbol, SymRows, ExportAddress
<1>11. ASSUME NEW i \in 1 .. m + 1
       PROVE  names'[i] = GET_NAME(Symbol(exports[i])) /\ functions'[i] = ExportAddress(exports[i])
  <2>1. CASE i = m + 1
    <3>1. names'[i] = g /\ functions'[i] = a
        BY <1>1, <1>3, <1>7, <1>8, <2>1
    <3> QED BY <1>7, <1>8, <2>1, <3>1
  <2>2. CASE i # m + 1
    <3>1. i \in 1 .. m
        BY <1>5, <2>2
    <3>2. names'[i] = names[i] /\ functions'[i] = functions[i]
        BY <1>1, <1>3, <1>7, <1>8, <3>1
    <3> QED BY <1>3, <3>1, <3>2
  <2> QED BY <2>1, <2>2
<1>12. exportEnd' = Tables + SumUpTo(NameRooms, m + 1)
  <2>1. PICK f \in Seq(Nat) : f = NameRooms /\ Len(f) = n /\ \A i \in 1 .. n : f[i] = Length(GET_NAME(Symbol(exports[i]))) + 1
      BY <1>3, <1>4, <1>6, NameRoomsAre
  <2>2. f[m + 1] = Length(g) + 1
      BY <1>5, <1>7, <2>1
  <2>3. SumUpTo(f, 0) = 0 /\ SumUpTo(f, m) \in Nat /\ SumUpTo(f, m + 1) = SumUpTo(f, m) + f[m + 1]
    <3>1. m \in 0 .. Len(f) /\ m + 1 \in 1 .. Len(f) /\ (m + 1) - 1 = m
        BY <1>5, <2>1
    <3> HIDE DEF m
    <3> QED BY <3>1, SumIs
  <2>4. PICK l, s, o : l \in Nat /\ l = Length(g) /\ s \in Nat /\ s = SumUpTo(f, m) /\ o \in Nat /\ o = OutLen
      BY <1>7, <2>3, TablesAssumption
  <2>5. Tables = 41 + o + 10 * n
      BY <1>4, <2>4 DEF Tables
  <2>6. PICK x \in Nat : x = 41 + o + 10 * n
      BY <2>4
  <2>7. exportEnd' = (IF m = 0 THEN 40 + o + 1 + 10 * n ELSE exportEnd) + l + 1
      BY <1>2, <1>4, <1>7, <2>4 DEF ExportDirectory
  <2>8. exportEnd' = (x + s) + l + 1
    <3>1. CASE m = 0
      <4>1. s = 0
          BY <2>3, <2>4, <3>1
      <4>2. exportEnd' = x + l + 1
          BY <2>4, <2>6, <2>7, <3>1
      <4> QED BY <2>4, <4>1, <4>2
    <3>2. CASE m # 0
      <4>1. exportEnd = Tables + SumUpTo(NameRooms, m)
          BY <1>3, <1>5, <3>2
      <4>2. exportEnd = x + s
          BY <2>1, <2>4, <2>5, <2>6, <4>1
      <4> QED BY <2>4, <2>7, <3>2, <4>2
    <3> QED BY <3>1, <3>2
  <2>9. SumUpTo(NameRooms, m + 1) = s + (l + 1)
      BY <2>1, <2>2, <2>3, <2>4
  <2>10. Tables = x
      BY <2>5, <2>6
  <2> HIDE DEF m
  <2> QED BY <2>4, <2>8, <2>9, <2>10
<1>13. exports' \in Seq(SymRows') /\ exportLen' = (IF Len(exports') = 0 THEN 0 ELSE Tables' + Total(NameRooms)') /\ exportLen' # 0
  <2>1. Total(NameRooms)' = Total(NameRooms)
      BY <1>10
  <2> QED BY <1>1, <1>3, <1>10, <2>1 DEF ExportInv
<1>14. phase' \notin Reading \cup {"edata", "addresses"} /\ phase' \notin Exporting \ {"export"}
    BY <1>1 DEF Reading, Exporting
<1>15. \A i : GET_NAME(Symbol(exports[i]))' = GET_NAME(Symbol(exports[i]))
    BY <1>10 DEF GET_NAME
<1>16. \A i \in 1 .. Len(functions') : names'[i] = GET_NAME(Symbol(exports[i]))' /\ functions'[i] = ExportAddress(exports[i])'
    BY <1>9, <1>10, <1>11, <1>15
<1>17. exportEnd' = Tables' + SumUpTo(NameRooms, Len(functions))'
  <2>1. SumUpTo(NameRooms, Len(functions))' = SumUpTo(NameRooms, m + 1)
      BY <1>9, <1>10
  <2> QED BY <1>10, <1>12, <2>1
<1>18. Len(names') = Len(functions') /\ Len(functions') <= Len(exports')
    BY <1>1, <1>4, <1>5, <1>9
<1> QED BY <1>9, <1>13, <1>14, <1>16, <1>17, <1>18 DEF ExportInv

LEMMA ExportStep == BoxInv /\ AddrInv /\ ExportInv /\ [Next]_vars => ExportInv'
<1> SUFFICES ASSUME BoxInv, AddrInv, ExportInv, [Next]_vars PROVE ExportInv'
    OBVIOUS
<1>0. phase \in Exporting /\ UNCHANGED <<world, exports, functions>> =>
        \A i \in 1 .. Len(functions) : ExportAddress(exports[i])' = ExportAddress(exports[i])
  <2> SUFFICES ASSUME phase \in Exporting, UNCHANGED <<world, exports, functions>>, NEW i \in 1 .. Len(functions)
               PROVE  ExportAddress(exports[i])' = ExportAddress(exports[i])
      OBVIOUS
  <2>1. exports[i] \in SymRows
    <3>1. i \in 1 .. Len(exports) /\ exports \in Seq(SymRows)
      <4>1. Len(functions) <= Len(exports) /\ functions \in Seq(Nat \ {0}) /\ exports \in Seq(SymRows)
          BY DEF ExportInv
      <4> QED BY <4>1
    <3> QED BY <3>1
  <2>2. <<exports[i].obj, 1>> \in Rows
      BY <2>1, FirstSection DEF BoxInv, AtTypes
  <2>3. va'[<<exports[i].obj, 1>>] = va[<<exports[i].obj, 1>>]
      BY <2>2, AddressesKept
  <2> QED BY <2>3 DEF ExportAddress, Symbol
<1>1. CASE section_callback
  <2>1. /\ phase \in Reading /\ phase' \in Reading /\ UNCHANGED <<world, exports, exportLen, exportVars>>
      BY <1>1 DEF section_callback, Reading
  <2> QED BY <2>1, ExportKept DEF Reading, Placing, Exporting, exportVars
<1>2. CASE symtab_callback
    BY <1>2, StepExports
<1>3. CASE add_edata
  <2>1. /\ phase = "edata" /\ UNCHANGED <<world, exports, exportLen, exportVars>>
        /\ phase' = "stuck" \/ (phase' = "addresses" /\ exportLen # 0)
      BY <1>3 DEF add_edata
  <2> QED BY <2>1, ExportKept DEF Reading, Placing, Exporting, exportVars
<1>4. CASE set_virtual_address
  <2>1. /\ phase = "addresses" /\ UNCHANGED <<world, exports, exportLen, exportVars>>
        /\ phase' = phase \/ phase' = "export"
      BY <1>4 DEF set_virtual_address
  <2>2. CASE phase' = phase
      BY <2>1, <2>2, ExportKept DEF Reading, Placing, Exporting, exportVars
  <2>3. CASE phase' = "export"
    <3>1. names' = <<>> /\ functions' = <<>> /\ exportLen' # 0 /\ Len(functions') = 0 /\ Len(names') = 0
        BY <2>1 DEF ExportInv, Placing, exportVars
    <3>2. /\ Tables' = Tables /\ NameRooms' = NameRooms /\ SymRows' = SymRows
        BY <2>1 DEF Tables, NameRooms, Symbol, SymRows
    <3>3. Total(NameRooms)' = Total(NameRooms)
        BY <3>2
    <3>4. exports' \in Seq(SymRows') /\ exportLen' = IF Len(exports') = 0 THEN 0 ELSE Tables' + Total(NameRooms)'
        BY <2>1, <3>2, <3>3 DEF ExportInv
    <3>5. Len(functions') <= Len(exports')
      <4>1. Len(exports) \in Nat
          BY DEF ExportInv
      <4> QED BY <2>1, <3>1, <4>1
    <3> QED BY <2>1, <2>3, <3>1, <3>4, <3>5 DEF ExportInv, Reading, Exporting
  <2> QED BY <2>1, <2>2, <2>3
<1>5. CASE add_export
    BY <1>5, StepWriteExport
<1>6. CASE exported
  <2>1. /\ phase = "export" /\ phase' = "reloc" /\ UNCHANGED <<world, exports, exportLen, exportVars>>
        /\ Len(functions) = Len(exports)
      BY <1>6 DEF exported, inputVars
  <2> QED BY <1>0, <2>1, ExportKept DEF Reading, Placing, Exporting, exportVars
<1>7. CASE resolve
  <2>1. /\ phase = "reloc" /\ phase' = phase /\ UNCHANGED <<world, exports, exportLen, exportVars>>
      BY <1>7, ResolveIs DEF inputVars
  <2> QED BY <1>0, <2>1, ExportKept DEF Reading, Placing, Exporting, exportVars
<1>8. CASE relocated \/ add_import \/ no_import \/ gen_pe
  <2>1. /\ phase \in Exporting \ {"export"} /\ phase' \in Exporting \ {"export"}
        /\ UNCHANGED <<world, exports, exportLen, exportVars>>
      BY <1>8 DEF relocated, add_import, no_import, gen_pe, inputVars, Exporting
  <2> QED BY <1>0, <2>1, ExportKept DEF Reading, Placing, Exporting, exportVars
<1>9. CASE UNCHANGED vars
  <2>1. UNCHANGED <<phase, world, exports, exportLen, exportVars>>
      BY <1>9 DEF vars, inputVars
  <2> QED BY <1>0, <2>1, ExportKept DEF exportVars, Placing
<1> QED BY <1>1, <1>2, <1>3, <1>4, <1>5, <1>6, <1>7, <1>8, <1>9 DEF Next

LEMMA InitExports == Init => ExportInv
<1> SUFFICES ASSUME Init PROVE ExportInv
    OBVIOUS
<1>1. exports = <<>> /\ exportLen = 0 /\ names = <<>> /\ functions = <<>> /\ phase = "sections"
    BY DEF Init
<1>2. exports \in Seq(SymRows) /\ Len(exports) = 0
    BY <1>1
<1> QED BY <1>1, <1>2 DEF ExportInv, Reading, Placing, Exporting

----------------------------------------------------------------------------
(* Imports                                                                 *)

Entries == [dll : Range(Dll), funcs : Seq(DOMAIN Dll)]

FuncRooms(fs) == [f \in DOMAIN fs |-> 2 + NameLen[fs[f]] + 1]
EntryRoom(e) == NameLen[e.dll] + 1 + Total(FuncRooms(e.funcs))
EntryRooms(es) == [d \in DOMAIN es |-> EntryRoom(es[d])]
Counts(es) == [d \in DOMAIN es |-> Len(es[d].funcs)]
ImportRoom(es) ==
  Descriptor * (Len(es) + 1) + 2 * 8 * (Total(Counts(es)) + Len(es)) + Total(EntryRooms(es))

\* The counted length is that of the tables add_import writes.
ImportInv ==
  /\ imports \in Seq(Entries)
  /\ importLen = IF Len(imports) = 0 THEN 0 ELSE ImportRoom(imports)
  /\ phase \notin Exporting \ {"export"} => imports = <<>>
  /\ (phase \in Late /\ importLen > 0) => importEnd = ImportRoom(imports)
  /\ (phase \in Late /\ ~ (importLen > 0)) => importEnd = 0
  /\ phase \notin Late => importEnd = 0

LEMMA FuncRoomsAre ==
  ASSUME NEW fs \in Seq(DOMAIN Dll)
  PROVE  /\ FuncRooms(fs) \in Seq(Nat) /\ Len(FuncRooms(fs)) = Len(fs)
         /\ \A f \in 1 .. Len(fs) : FuncRooms(fs)[f] = 2 + NameLen[fs[f]] + 1
<1>1. PICK n \in Nat : n = Len(fs) /\ DOMAIN fs = 1 .. n
    OBVIOUS
<1>2. ASSUME NEW f \in 1 .. n PROVE 2 + NameLen[fs[f]] + 1 \in Nat
  <2>1. fs[f] \in DOMAIN Dll
      BY <1>1
  <2>2. PICK l \in Nat : l = NameLen[fs[f]]
      BY <2>1, TablesAssumption
  <2> QED BY <2>2
<1>3. FuncRooms(fs) = [f \in 1 .. n |-> 2 + NameLen[fs[f]] + 1]
    BY <1>1 DEF FuncRooms
<1> QED BY <1>1, <1>2, <1>3

LEMMA EntryIs ==
  ASSUME NEW e \in Entries
  PROVE  /\ e.dll \in Range(Dll) /\ NameLen[e.dll] \in Nat /\ e.funcs \in Seq(DOMAIN Dll)
         /\ Total(FuncRooms(e.funcs)) \in Nat /\ EntryRoom(e) \in Nat
<1>1. e.dll \in Range(Dll) /\ e.funcs \in Seq(DOMAIN Dll)
    BY DEF Entries
<1>2. NameLen[e.dll] \in Nat
    BY <1>1, TablesAssumption
<1>3. Total(FuncRooms(e.funcs)) \in Nat
    BY <1>1, FuncRoomsAre, TotalIsNat
<1>4. PICK a, b : a \in Nat /\ b \in Nat /\ a = NameLen[e.dll] /\ b = Total(FuncRooms(e.funcs))
    BY <1>2, <1>3
<1>5. EntryRoom(e) = a + 1 + b
    BY <1>4 DEF EntryRoom
<1> QED BY <1>1, <1>2, <1>3, <1>4, <1>5

LEMMA RoomsOfEntries ==
  ASSUME NEW es \in Seq(Entries)
  PROVE  /\ EntryRooms(es) \in Seq(Nat) /\ Len(EntryRooms(es)) = Len(es)
         /\ \A d \in 1 .. Len(es) : EntryRooms(es)[d] = EntryRoom(es[d])
         /\ Counts(es) \in Seq(Nat) /\ Len(Counts(es)) = Len(es)
         /\ \A d \in 1 .. Len(es) : Counts(es)[d] = Len(es[d].funcs)
<1>1. PICK n \in Nat : n = Len(es) /\ DOMAIN es = 1 .. n
    OBVIOUS
<1>2. ASSUME NEW d \in 1 .. n PROVE EntryRoom(es[d]) \in Nat /\ Len(es[d].funcs) \in Nat
  <2>1. es[d] \in Entries
      BY <1>1
  <2>2. es[d].funcs \in Seq(DOMAIN Dll) /\ EntryRoom(es[d]) \in Nat
      BY <2>1, EntryIs
  <2> QED BY <2>2
<1>3. EntryRooms(es) = [d \in 1 .. n |-> EntryRoom(es[d])] /\ Counts(es) = [d \in 1 .. n |-> Len(es[d].funcs)]
    BY <1>1 DEF EntryRooms, Counts
<1>4. EntryRooms(es) \in Seq(Nat) /\ Len(EntryRooms(es)) = n /\ \A d \in 1 .. n : EntryRooms(es)[d] = EntryRoom(es[d])
    BY <1>1, <1>2, <1>3
<1>5. Counts(es) \in Seq(Nat) /\ Len(Counts(es)) = n /\ \A d \in 1 .. n : Counts(es)[d] = Len(es[d].funcs)
    BY <1>1, <1>2, <1>3
<1> QED BY <1>1, <1>4, <1>5

LEMMA MadeEntry ==
  ASSUME NEW name \in DOMAIN Dll
  PROVE  /\ [dll |-> Dll[name], funcs |-> <<name>>] \in Entries
         /\ EntryRoom([dll |-> Dll[name], funcs |-> <<name>>]) = NameLen[Dll[name]] + NameLen[name] + 4
<1> DEFINE fs == <<name>>
           e == [dll |-> Dll[name], funcs |-> fs]
<1>1. fs \in Seq(DOMAIN Dll) /\ Len(fs) = 1 /\ fs[1] = name
    OBVIOUS
<1>2. Dll[name] \in Range(Dll) /\ NameLen[Dll[name]] \in Nat /\ NameLen[name] \in Nat
    BY GrowsIs
<1> HIDE DEF fs
<1>3. e \in Entries
    BY <1>1, <1>2 DEF Entries
<1>4. PICK f \in Seq(Nat) : f = FuncRooms(fs) /\ Len(f) = 1 /\ f[1] = 2 + NameLen[name] + 1
    BY <1>1, FuncRoomsAre
<1>5. SumUpTo(f, 0) = 0 /\ SumUpTo(f, 1) = SumUpTo(f, 0) + f[1]
  <2>1. 1 \in 1 .. Len(f) /\ 1 - 1 = 0
      BY <1>4
  <2> QED BY <2>1, SumIs
<1>6. PICK a \in Nat : a = NameLen[Dll[name]]
    BY <1>2
<1>11. PICK b \in Nat : b = NameLen[name]
    BY <1>2
<1>7. SumUpTo(f, 1) = 2 + b + 1
    BY <1>4, <1>5, <1>11
<1>8. Total(FuncRooms(fs)) = 2 + b + 1
    BY <1>4, <1>7 DEF Total
<1>9. EntryRoom(e) = a + 1 + (2 + b + 1)
    BY <1>6, <1>8 DEF EntryRoom
<1>10. a + 1 + (2 + b + 1) = a + b + 4
    OBVIOUS
<1> QED BY <1>3, <1>6, <1>9, <1>10, <1>11 DEF fs

LEMMA EntryAdded ==
  ASSUME NEW es \in Seq(Entries), NEW name \in DOMAIN Dll
  PROVE  LET ds == Append(es, [dll |-> Dll[name], funcs |-> <<name>>]) IN
         /\ ds \in Seq(Entries) /\ Len(ds) = Len(es) + 1
         /\ ImportRoom(ds) = ImportRoom(es) + (NameLen[Dll[name]] + NameLen[name] + 56)
         /\ ImportRoom(es) \in Nat \ {0} /\ ImportRoom(<<>>) = 20
         /\ Total(Counts(ds)) = Total(Counts(es)) + 1
<1>1. PICK e \in Entries : e = [dll |-> Dll[name], funcs |-> <<name>>]
    BY MadeEntry
<1>2. PICK n \in Nat : n = Len(es)
    OBVIOUS
<1>0. Append(es, e) \in Seq(Entries)
    OBVIOUS
<1>3. PICK ds \in Seq(Entries) : ds = Append(es, e)
    BY <1>0
<1>4. Len(ds) = n + 1 /\ ds[n + 1] = e /\ \A i \in 1 .. n : ds[i] = es[i]
    BY <1>2, <1>3
<1>5. PICK f, g : f \in Seq(Nat) /\ f = EntryRooms(es) /\ g \in Seq(Nat) /\ g = Counts(es)
    BY RoomsOfEntries
<1>6. /\ Len(f) = n /\ \A i \in 1 .. n : f[i] = EntryRoom(es[i])
      /\ Len(g) = n /\ \A i \in 1 .. n : g[i] = Len(es[i].funcs)
    BY <1>2, <1>5, RoomsOfEntries
<1>7. PICK u, v : u \in Seq(Nat) /\ u = EntryRooms(ds) /\ v \in Seq(Nat) /\ v = Counts(ds)
    BY RoomsOfEntries
<1>8. /\ Len(u) = n + 1 /\ \A i \in 1 .. n + 1 : u[i] = EntryRoom(ds[i])
      /\ Len(v) = n + 1 /\ \A i \in 1 .. n + 1 : v[i] = Len(ds[i].funcs)
    BY <1>4, <1>7, RoomsOfEntries
<1>9. PICK r \in Nat : r = EntryRoom(e)
    BY EntryIs
<1>10. Len(e.funcs) = 1
    BY <1>1
<1>11. u = Append(f, r)
  <2>1. Append(f, r) \in Seq(Nat) /\ Len(Append(f, r)) = n + 1
      BY <1>5, <1>6
  <2>2. ASSUME NEW i \in 1 .. n + 1 PROVE u[i] = Append(f, r)[i]
    <3>1. CASE i = n + 1
        BY <1>4, <1>5, <1>6, <1>8, <1>9, <3>1
    <3>2. CASE i # n + 1
      <4>1. i \in 1 .. n
          BY <3>2
      <4> QED BY <1>4, <1>5, <1>6, <1>8, <4>1
    <3> QED BY <3>1, <3>2
  <2> QED BY <1>7, <1>8, <2>1, <2>2, SeqEqual
<1>12. v = Append(g, 1)
  <2>1. Append(g, 1) \in Seq(Nat) /\ Len(Append(g, 1)) = n + 1
      BY <1>5, <1>6
  <2>3. Append(g, 1)[n + 1] = 1
      BY <1>5, <1>6
  <2>4. \A i \in 1 .. n : Append(g, 1)[i] = g[i]
      BY <1>5, <1>6
  <2>5. n + 1 \in 1 .. n + 1 /\ \A i \in 1 .. n : i \in 1 .. n + 1
      OBVIOUS
  <2>2. ASSUME NEW i \in 1 .. n + 1 PROVE v[i] = Append(g, 1)[i]
    <3>1. CASE i = n + 1
        BY <1>4, <1>8, <1>10, <2>3, <2>5, <3>1
    <3>2. CASE i # n + 1
      <4>1. i \in 1 .. n
          BY <3>2
      <4>2. v[i] = Len(ds[i].funcs) /\ ds[i] = es[i]
          BY <1>4, <1>8, <2>5, <4>1
      <4>3. g[i] = Len(es[i].funcs)
          BY <1>6, <4>1
      <4> QED BY <2>4, <4>1, <4>2, <4>3
    <3> QED BY <3>1, <3>2
  <2> QED BY <1>7, <1>8, <2>1, <2>2, SeqEqual
<1>13. Total(u) = Total(f) + r /\ Total(v) = Total(g) + 1 /\ Total(f) \in Nat /\ Total(g) \in Nat
    BY <1>5, <1>11, <1>12, TotalAppend, TotalIsNat
<1>14. PICK s \in Nat : s = Total(f)
    BY <1>13
<1>22. PICK t \in Nat : t = Total(g)
    BY <1>13
<1>15. ImportRoom(es) = 20 * (n + 1) + 16 * (t + n) + s
    BY <1>2, <1>5, <1>14, <1>22 DEF ImportRoom, Descriptor
<1>16. ImportRoom(ds) = 20 * ((n + 1) + 1) + 16 * ((t + 1) + (n + 1)) + (s + r)
    BY <1>4, <1>7, <1>13, <1>14, <1>22 DEF ImportRoom, Descriptor
<1>17. PICK a \in Nat : a = NameLen[Dll[name]]
    BY GrowsIs
<1>23. PICK b \in Nat : b = NameLen[name]
    BY GrowsIs
<1>18. r = a + b + 4
    BY <1>1, <1>9, <1>17, <1>23, MadeEntry
<1>19. ImportRoom(ds) = ImportRoom(es) + (a + b + 56)
  <2>1. PICK x \in Nat : x = 20 * (n + 1) + 16 * (t + n) + s
      OBVIOUS
  <2>2. ImportRoom(es) = x
      BY <1>15, <2>1
  <2>3. 20 * ((n + 1) + 1) + 16 * ((t + 1) + (n + 1)) + (s + r) = x + (52 + r)
      BY <2>1
  <2>4. 52 + r = a + b + 56
      BY <1>18
  <2> QED BY <1>16, <2>2, <2>3, <2>4
<1>20. ImportRoom(es) \in Nat \ {0}
    BY <1>15
<1>21. ImportRoom(<<>>) = 20
  <2>1. <<>> \in Seq(Entries) /\ Len(<<>>) = 0
      OBVIOUS
  <2>2. PICK z : z = <<>>
      OBVIOUS
  <2>3. z \in Seq(Entries) /\ Len(z) = 0
      BY <2>1, <2>2
  <2>4. Total(EntryRooms(z)) = 0
    <3>1. EntryRooms(z) \in Seq(Nat) /\ Len(EntryRooms(z)) = 0
        BY <2>3, RoomsOfEntries
    <3>2. SumUpTo(EntryRooms(z), 0) = 0
        BY <3>1, SumIs
    <3> QED BY <3>1, <3>2 DEF Total
  <2>5. Total(Counts(z)) = 0
    <3>1. Counts(z) \in Seq(Nat) /\ Len(Counts(z)) = 0
        BY <2>3, RoomsOfEntries
    <3>2. SumUpTo(Counts(z), 0) = 0
        BY <3>1, SumIs
    <3> QED BY <3>1, <3>2 DEF Total
  <2>6. ImportRoom(z) = 20 * (0 + 1) + 16 * (0 + 0) + 0
      BY <2>3, <2>4, <2>5 DEF ImportRoom, Descriptor
  <2> QED BY <2>2, <2>6
<1>24. Total(Counts(ds)) = Total(Counts(es)) + 1
    BY <1>5, <1>7, <1>13
<1> QED BY <1>1, <1>2, <1>3, <1>4, <1>17, <1>19, <1>20, <1>21, <1>23, <1>24

LEMMA LongerEntry ==
  ASSUME NEW e \in Entries, NEW name \in DOMAIN Dll
  PROVE  LET x == [e EXCEPT !.funcs = Append(@, name)] IN
         /\ x \in Entries /\ x.dll = e.dll /\ x.funcs = Append(e.funcs, name)
         /\ EntryRoom(x) = EntryRoom(e) + (NameLen[name] + 3)
<1>1. PICK fs \in Seq(DOMAIN Dll) : fs = e.funcs
    BY EntryIs
<1>2. PICK x : x = [e EXCEPT !.funcs = Append(@, name)]
    OBVIOUS
<1>3. Append(fs, name) \in Seq(DOMAIN Dll)
    OBVIOUS
<1>4. x = [dll |-> e.dll, funcs |-> Append(fs, name)]
    BY <1>1, <1>2 DEF Entries
<1>5. x \in Entries /\ x.dll = e.dll /\ x.funcs = Append(fs, name)
  <2>1. e.dll \in Range(Dll)
      BY EntryIs
  <2> QED BY <1>3, <1>4, <2>1 DEF Entries
<1>6. PICK b \in Nat : b = NameLen[name]
    BY GrowsIs
<1>7. PICK f \in Seq(Nat) : f = FuncRooms(fs) /\ Len(f) = Len(fs)
    BY FuncRoomsAre
<1>8. FuncRooms(Append(fs, name)) = Append(f, b + 3)
  <2>1. PICK gs \in Seq(DOMAIN Dll) : gs = Append(fs, name)
      BY <1>3
  <2>2. PICK n \in Nat : n = Len(fs)
      OBVIOUS
  <2>3. Len(gs) = n + 1 /\ gs[n + 1] = name /\ \A i \in 1 .. n : gs[i] = fs[i]
      BY <2>1, <2>2
  <2>4. /\ FuncRooms(gs) \in Seq(Nat) /\ Len(FuncRooms(gs)) = n + 1
        /\ \A i \in 1 .. n + 1 : FuncRooms(gs)[i] = 2 + NameLen[gs[i]] + 1
      BY <2>3, FuncRoomsAre
  <2>5. \A i \in 1 .. n : f[i] = 2 + NameLen[fs[i]] + 1
      BY <1>7, <2>2, FuncRoomsAre
  <2>6. b + 3 \in Nat /\ 2 + b + 1 = b + 3
      OBVIOUS
  <2>7. Append(f, b + 3) \in Seq(Nat) /\ Len(Append(f, b + 3)) = n + 1 /\ Append(f, b + 3)[n + 1] = b + 3
        /\ \A i \in 1 .. n : Append(f, b + 3)[i] = f[i]
      BY <1>7, <2>2, <2>6
  <2>8. ASSUME NEW i \in 1 .. n + 1 PROVE FuncRooms(gs)[i] = Append(f, b + 3)[i]
    <3>1. CASE i = n + 1
        BY <1>6, <2>3, <2>4, <2>6, <2>7, <3>1
    <3>2. CASE i # n + 1
      <4>1. i \in 1 .. n
          BY <3>2
      <4> QED BY <2>3, <2>4, <2>5, <2>7, <4>1
    <3> QED BY <3>1, <3>2
  <2>9. PICK g \in Seq(Nat) : g = FuncRooms(gs)
      BY <2>4
  <2>10. g = Append(f, b + 3)
      BY <2>4, <2>7, <2>8, <2>9, SeqEqual
  <2> QED BY <2>1, <2>9, <2>10
<1>9. Total(FuncRooms(Append(fs, name))) = Total(f) + (b + 3)
  <2>1. b + 3 \in Nat
      OBVIOUS
  <2> QED BY <1>8, <2>1, TotalAppend
<1>10. PICK t \in Nat : t = Total(f)
    BY TotalIsNat
<1>11. PICK a \in Nat : a = NameLen[e.dll]
    BY EntryIs
<1>12. EntryRoom(e) = a + 1 + t
    BY <1>1, <1>7, <1>10, <1>11 DEF EntryRoom
<1>13. EntryRoom(x) = a + 1 + (t + (b + 3))
    BY <1>5, <1>9, <1>10, <1>11 DEF EntryRoom
<1>14. a + 1 + (t + (b + 3)) = (a + 1 + t) + (b + 3)
    OBVIOUS
<1> QED BY <1>1, <1>2, <1>5, <1>6, <1>12, <1>13, <1>14

\* The list with another function behind those of one entry.
WithFunc(es, entry, name) == [es EXCEPT ![entry].funcs = Append(@, name)]

LEMMA FuncAdded ==
  ASSUME NEW es \in Seq(Entries), NEW entry \in 1 .. Len(es), NEW name \in DOMAIN Dll
  PROVE  LET ds == WithFunc(es, entry, name) IN
         /\ ds \in Seq(Entries) /\ Len(ds) = Len(es)
         /\ ds[entry].dll = es[entry].dll /\ ds[entry].funcs = Append(es[entry].funcs, name)
         /\ \A i \in 1 .. Len(es) : i # entry => ds[i] = es[i]
         /\ ImportRoom(ds) = ImportRoom(es) + (NameLen[name] + 19)
         /\ Total(Counts(ds)) = Total(Counts(es)) + 1
<1>1. PICK n \in Nat : n = Len(es) /\ DOMAIN es = 1 .. n
    OBVIOUS
<1>2. PICK e \in Entries : e = es[entry]
    OBVIOUS
<1>3. PICK x : x = [e EXCEPT !.funcs = Append(@, name)]
    OBVIOUS
<1>4. x \in Entries /\ x.dll = e.dll /\ x.funcs = Append(e.funcs, name) /\ EntryRoom(x) = EntryRoom(e) + (NameLen[name] + 3)
    BY <1>3, LongerEntry
<1>5. PICK ds : ds = WithFunc(es, entry, name) /\ ds = [es EXCEPT ![entry].funcs = Append(@, name)]
    BY DEF WithFunc
<1>6. ds = [i \in 1 .. n |-> IF i = entry THEN x ELSE es[i]]
    BY <1>1, <1>2, <1>3, <1>5
<1>7. ds \in Seq(Entries) /\ Len(ds) = n /\ ds[entry] = x /\ \A i \in 1 .. n : i # entry => ds[i] = es[i]
  <2>1. \A i \in 1 .. n : (IF i = entry THEN x ELSE es[i]) \in Entries
      BY <1>1, <1>4
  <2>2. ds \in Seq(Entries) /\ Len(ds) = n
      BY <1>6, <2>1
  <2>3. entry \in 1 .. n
      BY <1>1
  <2> QED BY <1>6, <2>2, <2>3
<1>8. PICK b \in Nat : b = NameLen[name]
    BY GrowsIs
<1>9. /\ EntryRooms(es) \in Seq(Nat) /\ Len(EntryRooms(es)) = n /\ Counts(es) \in Seq(Nat) /\ Len(Counts(es)) = n
      /\ \A i \in 1 .. n : EntryRooms(es)[i] = EntryRoom(es[i]) /\ Counts(es)[i] = Len(es[i].funcs)
    BY <1>1, RoomsOfEntries
<1>10. /\ EntryRooms(ds) \in Seq(Nat) /\ Len(EntryRooms(ds)) = n /\ Counts(ds) \in Seq(Nat) /\ Len(Counts(ds)) = n
       /\ \A i \in 1 .. n : EntryRooms(ds)[i] = EntryRoom(ds[i]) /\ Counts(ds)[i] = Len(ds[i].funcs)
    BY <1>7, RoomsOfEntries
<1>11. Total(EntryRooms(ds)) = Total(EntryRooms(es)) + (b + 3)
  <2>1. PICK f \in Seq(Nat) : f = EntryRooms(es)
      BY <1>9
  <2>2. PICK g \in Seq(Nat) : g = EntryRooms(ds)
      BY <1>10
  <2>3. b + 3 \in Nat /\ entry \in 1 .. Len(f) /\ Len(g) = Len(f)
      BY <1>1, <1>9, <1>10, <2>1, <2>2
  <2>4. g[entry] = f[entry] + (b + 3)
      BY <1>1, <1>2, <1>4, <1>7, <1>8, <1>9, <1>10, <2>1, <2>2
  <2>5. \A i \in 1 .. Len(f) : i # entry => g[i] = f[i]
      BY <1>7, <1>9, <1>10, <2>1, <2>2
  <2>6. Total(g) = Total(f) + (b + 3)
      BY <2>3, <2>4, <2>5, TotalGrows
  <2> QED BY <2>1, <2>2, <2>6
<1>12. Total(Counts(ds)) = Total(Counts(es)) + 1
  <2>1. PICK f \in Seq(Nat) : f = Counts(es)
      BY <1>9
  <2>2. PICK g \in Seq(Nat) : g = Counts(ds)
      BY <1>10
  <2>3. 1 \in Nat /\ entry \in 1 .. Len(f) /\ Len(g) = Len(f)
      BY <1>1, <1>9, <1>10, <2>1, <2>2
  <2>4. g[entry] = f[entry] + 1
    <3>1. f[entry] = Len(e.funcs) /\ g[entry] = Len(x.funcs)
        BY <1>1, <1>2, <1>7, <1>9, <1>10, <2>1, <2>2
    <3>2. e.funcs \in Seq(DOMAIN Dll)
        BY EntryIs
    <3> QED BY <1>4, <3>1, <3>2
  <2>5. \A i \in 1 .. Len(f) : i # entry => g[i] = f[i]
      BY <1>7, <1>9, <1>10, <2>1, <2>2
  <2>6. Total(g) = Total(f) + 1
      BY <2>3, <2>4, <2>5, TotalGrows
  <2> QED BY <2>1, <2>2, <2>6
<1>13. PICK s \in Nat : s = Total(EntryRooms(es))
    BY <1>9, TotalIsNat
<1>14. PICK t \in Nat : t = Total(Counts(es))
    BY <1>9, TotalIsNat
<1>15. ImportRoom(es) = 20 * (n + 1) + 16 * (t + n) + s
    BY <1>1, <1>13, <1>14 DEF ImportRoom, Descriptor
<1>16. ImportRoom(ds) = 20 * (n + 1) + 16 * ((t + 1) + n) + (s + (b + 3))
    BY <1>7, <1>11, <1>12, <1>13, <1>14 DEF ImportRoom, Descriptor
<1>17. 20 * (n + 1) + 16 * ((t + 1) + n) + (s + (b + 3)) = (20 * (n + 1) + 16 * (t + n) + s) + (b + 19)
    OBVIOUS
<1>18. ImportRoom(ds) = ImportRoom(es) + (b + 19)
    BY <1>15, <1>16, <1>17
<1> QED BY <1>1, <1>2, <1>4, <1>5, <1>7, <1>8, <1>12, <1>18

LEMMA NewEntryIs ==
  ASSUME imports \in Seq(Entries), NEW name \in DOMAIN Dll, add_dynamic_resolved_entry(name, Dll[name])
  PROVE  \/ /\ \A i \in 1 .. Len(imports) : imports[i].dll # Dll[name]
            /\ imports' = Append(imports, [dll |-> Dll[name], funcs |-> <<name>>])
         \/ \E entry \in 1 .. Len(imports) :
              /\ imports[entry].dll = Dll[name]
              /\ imports' = [imports EXCEPT ![entry].funcs = Append(@, name)]
<1> DEFINE d == Dll[name]
           entry == SelectInSeq(imports, LAMBDA e : e.dll = d)
           I == {j \in 1 .. Len(imports) : imports[j].dll = d}
<1>1. imports' = IF entry = 0 THEN Append(imports, [dll |-> d, funcs |-> <<name>>])
                 ELSE [imports EXCEPT ![entry].funcs = Append(@, name)]
    BY DEF add_dynamic_resolved_entry
<1>2. entry = IF I # {} THEN Min(I) ELSE 0
    BY DEF SelectInSeq
<1>3. I \subseteq Nat /\ 0 \notin I
    OBVIOUS
<1>4. I # {} => Min(I) \in I
  <2> HIDE DEF I
  <2> QED BY <1>3, MinIsLeast
<1>5. CASE I = {}
  <2>1. entry = 0
      BY <1>2, <1>5
  <2>2. \A i \in 1 .. Len(imports) : imports[i].dll # d
      BY <1>5
  <2> QED BY <1>1, <2>1, <2>2
<1>6. CASE I # {}
  <2>1. entry \in I /\ entry # 0
      BY <1>2, <1>3, <1>4, <1>6
  <2>2. entry \in 1 .. Len(imports) /\ imports[entry].dll = d
    <3> HIDE DEF entry
    <3> QED BY <2>1
  <2>3. imports' = [imports EXCEPT ![entry].funcs = Append(@, name)]
      BY <1>1, <2>1
  <2> HIDE DEF entry
  <2> QED BY <2>2, <2>3
<1> QED BY <1>5, <1>6

LEMMA StepNewImport == ImportInv /\ resolve_new_import => ImportInv'
<1> SUFFICES ASSUME ImportInv, resolve_new_import PROVE ImportInv'
    OBVIOUS
<1>1. PICK name : name = GET_NAME(Referred(Site))
    OBVIOUS
<1>2. /\ phase = "reloc" /\ phase' = phase /\ UNCHANGED importEnd /\ name \in DOMAIN Dll
      /\ add_dynamic_resolved_entry(name, Dll[name])
      /\ importLen' = importLen + ImportGrows(name, Dll[name])
    BY <1>1 DEF resolve_new_import, Resolving, Importable, NextReloc, tableVars
<1>3. imports \in Seq(Entries) /\ importEnd = 0 /\ importLen = IF Len(imports) = 0 THEN 0 ELSE ImportRoom(imports)
    BY <1>2 DEF ImportInv, Late
<1>4. PICK es \in Seq(Entries) : es = imports
    BY <1>3
<1>5. PICK n \in Nat : n = Len(es)
    OBVIOUS
<1>6. PICK a \in Nat : a = NameLen[Dll[name]]
    BY <1>2, GrowsIs
<1>7. PICK b \in Nat : b = NameLen[name]
    BY <1>2, GrowsIs
<1>8. PICK r \in Nat \ {0} : r = ImportRoom(es)
    BY <1>2, EntryAdded
<1>9. ImportRoom(<<>>) = 20 /\ (n = 0 => r = 20)
  <2>1. ImportRoom(<<>>) = 20
      BY <1>2, EntryAdded
  <2>2. ASSUME n = 0 PROVE es = <<>>
    <3>1. Len(es) = 0
        BY <1>5, <2>2
    <3> QED BY <3>1
  <2> QED BY <1>8, <2>1, <2>2
<1>10. importLen = IF n = 0 THEN 0 ELSE r
    BY <1>3, <1>4, <1>5, <1>8
<1>11. CASE /\ \A i \in 1 .. n : es[i].dll # Dll[name]
            /\ imports' = Append(es, [dll |-> Dll[name], funcs |-> <<name>>])
  <2>1. ~ \E e \in Range(imports) : e.dll = Dll[name]
      BY <1>4, <1>5, <1>11 DEF Range
  <2>2. ImportGrows(name, Dll[name]) = (IF importLen = 0 THEN 20 ELSE 0) + (20 + 1 + a + 2 * 8) + 2 * 8 + 2 + b + 1
      BY <1>6, <1>7, <2>1 DEF ImportGrows, Descriptor
  <2>3. imports' \in Seq(Entries) /\ Len(imports') = n + 1 /\ ImportRoom(imports') = r + (a + b + 56)
      BY <1>2, <1>5, <1>6, <1>7, <1>8, <1>11, EntryAdded
  <2>4. importLen' = r + (a + b + 56)
    <3>1. CASE n = 0
      <4>1. importLen = 0 /\ r = 20
          BY <1>9, <1>10, <3>1
      <4>2. importLen' = 0 + (20 + (20 + 1 + a + 2 * 8) + 2 * 8 + 2 + b + 1)
          BY <1>2, <2>2, <4>1
      <4>3. 0 + (20 + (20 + 1 + a + 2 * 8) + 2 * 8 + 2 + b + 1) = 20 + (a + b + 56)
          OBVIOUS
      <4> QED BY <4>1, <4>2, <4>3
    <3>2. CASE n # 0
      <4>1. importLen = r /\ r # 0
          BY <1>10, <3>2
      <4>2. importLen' = r + (0 + (20 + 1 + a + 2 * 8) + 2 * 8 + 2 + b + 1)
          BY <1>2, <2>2, <4>1
      <4>3. r + (0 + (20 + 1 + a + 2 * 8) + 2 * 8 + 2 + b + 1) = r + (a + b + 56)
          OBVIOUS
      <4> QED BY <4>2, <4>3
    <3> QED BY <3>1, <3>2
  <2>5. Len(imports') # 0
      BY <2>3
  <2> QED BY <1>2, <1>3, <2>3, <2>4, <2>5 DEF ImportInv, Exporting, Late
<1>12. CASE \E entry \in 1 .. n :
              /\ es[entry].dll = Dll[name]
              /\ imports' = [es EXCEPT ![entry].funcs = Append(@, name)]
  <2>1. PICK entry \in 1 .. n : es[entry].dll = Dll[name] /\ imports' = [es EXCEPT ![entry].funcs = Append(@, name)]
      BY <1>12
  <2>2. n # 0
      OBVIOUS
  <2>3. \E e \in Range(imports) : e.dll = Dll[name]
      BY <1>4, <1>5, <2>1 DEF Range
  <2>4. importLen = r /\ r # 0
      BY <1>10, <2>2
  <2>5. ImportGrows(name, Dll[name]) = 0 + 0 + 2 * 8 + 2 + b + 1
      BY <1>7, <2>3, <2>4 DEF ImportGrows
  <2>6. imports' \in Seq(Entries) /\ Len(imports') = n /\ ImportRoom(imports') = r + (b + 19)
    <3>1. entry \in 1 .. Len(es)
        BY <1>5
    <3>2. imports' = WithFunc(es, entry, name)
        BY <2>1 DEF WithFunc
    <3>4. name \in DOMAIN Dll
        BY <1>2
    <3>3. /\ WithFunc(es, entry, name) \in Seq(Entries) /\ Len(WithFunc(es, entry, name)) = Len(es)
          /\ ImportRoom(WithFunc(es, entry, name)) = ImportRoom(es) + (NameLen[name] + 19)
        BY <3>1, <3>4, FuncAdded
    <3> QED BY <1>5, <1>7, <1>8, <3>2, <3>3
  <2>7. importLen' = r + (b + 19)
    <3>1. importLen' = r + (0 + 0 + 2 * 8 + 2 + b + 1)
        BY <1>2, <2>4, <2>5
    <3>2. r + (0 + 0 + 2 * 8 + 2 + b + 1) = r + (b + 19)
        OBVIOUS
    <3> QED BY <3>1, <3>2
  <2> QED BY <1>2, <1>3, <2>2, <2>6, <2>7 DEF ImportInv, Exporting, Late
<1> QED BY <1>2, <1>3, <1>4, <1>5, <1>11, <1>12, NewEntryIs

\* The names of .plt, DLL by DLL.
Items == [d : Nat, name : DOMAIN Dll]
ImportedRows ==
  [d \in DOMAIN imports |-> [f \in DOMAIN imports[d].funcs |-> [d |-> d, name |-> imports[d].funcs[f]]]]

LEMMA ImportedRowsAre ==
  ASSUME imports \in Seq(Entries)
  PROVE  /\ ImportedRows \in Seq(Seq(Items)) /\ Len(ImportedRows) = Len(imports)
         /\ Imported = FlattenSeq(ImportedRows)
         /\ \A d \in 1 .. Len(imports) :
              /\ Len(ImportedRows[d]) = Len(imports[d].funcs) /\ imports[d].funcs \in Seq(DOMAIN Dll)
              /\ \A f \in 1 .. Len(imports[d].funcs) : ImportedRows[d][f] = [d |-> d, name |-> imports[d].funcs[f]]
<1>1. PICK n \in Nat : n = Len(imports) /\ DOMAIN imports = 1 .. n
    OBVIOUS
<1>2. ASSUME NEW d \in 1 .. n
      PROVE  /\ [f \in DOMAIN imports[d].funcs |-> [d |-> d, name |-> imports[d].funcs[f]]] \in Seq(Items)
             /\ DOMAIN imports[d].funcs = 1 .. Len(imports[d].funcs) /\ Len(imports[d].funcs) \in Nat
             /\ imports[d].funcs \in Seq(DOMAIN Dll)
  <2>1. imports[d] \in Entries
      BY <1>1
  <2>2. PICK fs \in Seq(DOMAIN Dll) : fs = imports[d].funcs
      BY <2>1, EntryIs
  <2>3. PICK m \in Nat : m = Len(fs) /\ DOMAIN fs = 1 .. m
      OBVIOUS
  <2>4. \A f \in 1 .. m : [d |-> d, name |-> fs[f]] \in Items
      BY <2>3 DEF Items
  <2>5. [f \in 1 .. m |-> [d |-> d, name |-> fs[f]]] \in Seq(Items)
      BY <2>4
  <2> QED BY <2>2, <2>3, <2>5
<1>3. ImportedRows = [d \in 1 .. n |-> [f \in DOMAIN imports[d].funcs |-> [d |-> d, name |-> imports[d].funcs[f]]]]
    BY <1>1 DEF ImportedRows
<1>4. ImportedRows \in Seq(Seq(Items)) /\ Len(ImportedRows) = n
    BY <1>2, <1>3
<1>5. ASSUME NEW d \in 1 .. n
      PROVE  /\ Len(ImportedRows[d]) = Len(imports[d].funcs)
             /\ \A f \in 1 .. Len(imports[d].funcs) : ImportedRows[d][f] = [d |-> d, name |-> imports[d].funcs[f]]
  <2>1. ImportedRows[d] = [f \in 1 .. Len(imports[d].funcs) |-> [d |-> d, name |-> imports[d].funcs[f]]]
      BY <1>2, <1>3
  <2> QED BY <1>2, <2>1
<1>6. Imported = FlattenSeq(ImportedRows)
    BY DEF Imported, ImportedRows
<1> QED BY <1>1, <1>2, <1>4, <1>5, <1>6

LEMMA ImportedLen ==
  ASSUME imports \in Seq(Entries)
  PROVE  Len(Imported) = Total(Counts(imports)) /\ Imported \in Seq(Items)
<1>1. PICK ss \in Seq(Seq(Items)) : ss = ImportedRows /\ Imported = FlattenSeq(ss) /\ Len(ss) = Len(imports)
    BY ImportedRowsAre
<1>2. PICK w \in [Items -> Nat] : w = [x \in Items |-> 0]
  <2>1. [x \in Items |-> 0] \in [Items -> Nat]
      OBVIOUS
  <2> QED BY <2>1
<1>3. Len(FlattenSeq(ss)) = Total(Lens(ss))
    BY FlattenLen
<1>4. Lens(ss) \in Seq(Nat) /\ Len(Lens(ss)) = Len(ss) /\ \A i \in 1 .. Len(ss) : Lens(ss)[i] = Len(ss[i])
    BY LensAre
<1>5. /\ Counts(imports) \in Seq(Nat) /\ Len(Counts(imports)) = Len(imports)
      /\ \A d \in 1 .. Len(imports) : Counts(imports)[d] = Len(imports[d].funcs)
    BY RoomsOfEntries
<1>6. \A i \in 1 .. Len(ss) : Lens(ss)[i] = Counts(imports)[i]
    BY <1>1, <1>4, <1>5, ImportedRowsAre
<1>7. Lens(ss) = Counts(imports)
    BY <1>1, <1>4, <1>5, <1>6, SeqEqual
<1>8. FlattenSeq(ss) \in Seq(Items)
    BY FlattenIsSeq
<1> QED BY <1>1, <1>3, <1>7, <1>8

LEMMA StepImportTables == ImportInv /\ add_import => ImportInv'
<1> SUFFICES ASSUME ImportInv, add_import PROVE ImportInv'
    OBVIOUS
<1>1. /\ phase = "import" /\ phase' = "emit" /\ importLen > 0 /\ UNCHANGED <<importLen, imports>>
      /\ importEnd' =
           Descriptor * (Len(imports) + 1) + 2 * 8 * (Len(Imported) + Len(imports))
           + Total([d \in DOMAIN imports |->
               NameLen[imports[d].dll] + 1
               + Total([f \in DOMAIN imports[d].funcs |-> 2 + NameLen[imports[d].funcs[f]] + 1])])
    BY DEF add_import, importVars
<1>2. imports \in Seq(Entries)
    BY DEF ImportInv
<1>3. [d \in DOMAIN imports |->
         NameLen[imports[d].dll] + 1 + Total([f \in DOMAIN imports[d].funcs |-> 2 + NameLen[imports[d].funcs[f]] + 1])]
        = EntryRooms(imports)
    BY DEF EntryRooms, EntryRoom, FuncRooms
<1>4. importEnd' = ImportRoom(imports)
    BY <1>1, <1>2, <1>3, ImportedLen DEF ImportRoom
<1>5. ImportRoom(imports)' = ImportRoom(imports)
    BY <1>1 DEF ImportRoom, EntryRooms, Counts, EntryRoom, FuncRooms
<1> QED BY <1>1, <1>4, <1>5 DEF ImportInv, Exporting, Late

LEMMA ImportStep == ImportInv /\ [Next]_vars => ImportInv'
<1> SUFFICES ASSUME ImportInv, [Next]_vars PROVE ImportInv'
    OBVIOUS
<1>1. CASE add_import
    BY <1>1, StepImportTables
<1>2. CASE resolve_new_import
    BY <1>2, StepNewImport
<1>3. CASE ~ add_import /\ ~ resolve_new_import
  <2>1. UNCHANGED <<imports, importLen, importEnd>>
    <3>1. CASE resolve
        BY <1>3, <3>1, ResolveIs DEF importVars, tableVars
    <3> QED BY <1>3, <3>1 DEF Next, section_callback, symtab_callback, add_edata, set_virtual_address, add_export,
               exported, relocated, no_import, gen_pe, vars, importVars, tableVars
  <2>2. ImportRoom(imports)' = ImportRoom(imports)
      BY <2>1 DEF ImportRoom, EntryRooms, Counts, EntryRoom, FuncRooms
  <2>3. /\ phase' \notin Exporting \ {"export"} => imports = <<>>
        /\ phase' \in Late => phase \in Late \/ (phase = "import" /\ ~ (importLen > 0))
        /\ phase \in Late => phase' \in Late
    <3>0. CASE symtab_callback
        BY <3>0 DEF symtab_callback, Exporting, Late, ImportInv
    <3>1. CASE resolve
        BY <3>1, ResolveIs DEF Exporting, Late, ImportInv
    <3>2. CASE add_export
        BY <2>1, <3>2 DEF add_export, Exporting, Late, ImportInv
    <3>3. CASE section_callback \/ add_edata \/ set_virtual_address
        BY <2>1, <3>3 DEF section_callback, add_edata, set_virtual_address, Exporting, Late, ImportInv
    <3>4. CASE exported \/ relocated \/ no_import \/ gen_pe
        BY <3>4 DEF exported, relocated, no_import, gen_pe, Exporting, Late, ImportInv
    <3>5. CASE UNCHANGED vars
        BY <3>5 DEF vars, ImportInv
    <3> QED BY <1>3, <3>0, <3>1, <3>2, <3>3, <3>4, <3>5 DEF Next
  <2> QED BY <2>1, <2>2, <2>3 DEF ImportInv, Late, Exporting
<1> QED BY <1>1, <1>2, <1>3


LEMMA RoomPositive ==
  ASSUME NEW es \in Seq(Entries)
  PROVE  ImportRoom(es) \in Nat \ {0}
<1>1. PICK n \in Nat : n = Len(es)
    OBVIOUS
<1>2. EntryRooms(es) \in Seq(Nat) /\ Counts(es) \in Seq(Nat)
    BY RoomsOfEntries
<1>3. PICK s \in Nat : s = Total(EntryRooms(es))
    BY <1>2, TotalIsNat
<1>4. PICK t \in Nat : t = Total(Counts(es))
    BY <1>2, TotalIsNat
<1>5. ImportRoom(es) = 20 * (n + 1) + 16 * (t + n) + s
    BY <1>1, <1>3, <1>4 DEF ImportRoom, Descriptor
<1>6. 20 * (n + 1) + 16 * (t + n) + s \in Nat \ {0}
    OBVIOUS
<1> QED BY <1>5, <1>6

LEMMA InitImports == Init => ImportInv
<1> SUFFICES ASSUME Init PROVE ImportInv
    OBVIOUS
<1>1. imports = <<>> /\ importLen = 0 /\ importEnd = 0 /\ phase = "sections"
    BY DEF Init
<1>2. imports \in Seq(Entries) /\ Len(imports) = 0
    BY <1>1
<1> QED BY <1>1, <1>2 DEF ImportInv, Exporting, Late

\* What the linker counts symbol by symbol and import by import is what the
\* tables it then writes take, for every list of objects, names and DLLs.
THEOREM SpecTablesFit == Spec => []TablesFit
<1> DEFINE I == BoxInv /\ AddrInv /\ ExportInv /\ ImportInv
<1>1. Init => I
    BY InitBoxes, InitAddr, InitExports, InitImports
<1>2. I /\ [Next]_vars => I'
    BY BoxStep, AddrStep, ExportStep, ImportStep
<1>3. I => TablesFit
  <2> SUFFICES ASSUME I PROVE TablesFit
      OBVIOUS
  <2>1. ASSUME phase \in {"reloc", "import", "emit", "done"} PROVE exportEnd = exportLen
    <3>1. phase \in Exporting \ {"export"} /\ phase \in Exporting /\ phase \in Placing
        BY <2>1 DEF Exporting, Placing
    <3>2. PICK n \in Nat : n = Len(exports)
        BY DEF ExportInv
    <3>3. n # 0
        BY <3>1, <3>2 DEF ExportInv
    <3>4. Len(functions) = n
        BY <3>1, <3>2 DEF ExportInv
    <3>5. exportLen = Tables + Total(NameRooms)
        BY <3>2, <3>3 DEF ExportInv
    <3>6. exportEnd = Tables + SumUpTo(NameRooms, n)
        BY <3>1, <3>3, <3>4 DEF ExportInv
    <3>7. Len(NameRooms) = n
        BY <3>2, NameRoomsAre DEF ExportInv, BoxInv, AtTypes
    <3> QED BY <3>5, <3>6, <3>7 DEF Total
  <2>2. ASSUME phase = "done" PROVE importEnd = importLen
    <3>1. phase \in Late
        BY <2>2 DEF Late
    <3>2. imports \in Seq(Entries) /\ importLen = IF Len(imports) = 0 THEN 0 ELSE ImportRoom(imports)
        BY DEF ImportInv
    <3>3. CASE Len(imports) = 0
        BY <3>1, <3>2, <3>3 DEF ImportInv
    <3>4. CASE Len(imports) # 0
      <4>1. importLen > 0
        <5>1. importLen = ImportRoom(imports) /\ ImportRoom(imports) \in Nat \ {0}
            BY <3>2, <3>4, RoomPositive
        <5> QED BY <5>1
      <4> QED BY <3>1, <3>2, <3>4, <4>1 DEF ImportInv
    <3> QED BY <3>3, <3>4
  <2> QED BY <2>1, <2>2 DEF TablesFit
<1> QED BY <1>1, <1>2, <1>3, PTL DEF Spec

----------------------------------------------------------------------------
(* The DT_HASH table                                                       *)

\* What one goes through from b on.
Following(c, b, s) ==
  s = [n \in 0 .. MaxChain + 1 |-> IF n = 0 THEN b ELSE IF s[n - 1] = 0 THEN 0 ELSE c[s[n - 1]]]
Follow(c, b) == Range(CHOOSE s : Following(c, b, s)) \ {0}

LEMMA LinkedIsFollow == \A b : Linked(b) = Follow(chain, b)
BY DEF Linked, Follow, Following

\* Links that lead upwards, and the numbers found by following them.
Places == 0 .. MaxChain
Upwards(c) == c \in [Places -> Places] /\ \A x \in Places : c[x] = 0 \/ c[x] > x
Links(c, b, L) ==
  /\ L \subseteq Places \ {0}
  /\ b # 0 => b \in L
  /\ \A x \in L : c[x] # 0 => c[x] \in L
  /\ \A S : ((b = 0 \/ b \in S) /\ \A x \in S \cap Places : c[x] = 0 \/ c[x] \in S) => L \subseteq S

LEMMA FollowIs ==
  ASSUME NEW c, Upwards(c), NEW b \in Places
  PROVE  Links(c, b, Follow(c, b))
<1>1. MaxChain \in Nat /\ c \in [Places -> Places] /\ \A x \in Places : c[x] = 0 \/ c[x] > x
    BY TablesAssumption DEF Upwards
<1>2. PICK m \in Nat : m = MaxChain + 1
    BY <1>1
<1> DEFINE step == [i \in 1 .. m |-> [x \in Places |-> IF x = 0 THEN 0 ELSE c[x]]]
<1>3. step \in [1 .. m -> [Places -> Places]]
    BY <1>1 DEF Places
<1>4. PICK g : Stepwise(step, b, g, Places, m)
  <2> HIDE DEF step
  <2> QED BY <1>3, StepwiseExists
<1>5. \A i \in 1 .. m : g[i - 1] \in Places
    BY <1>4 DEF Stepwise
<1>6. \A i \in 1 .. m : g[i] = IF g[i - 1] = 0 THEN 0 ELSE c[g[i - 1]]
    BY <1>4, <1>5 DEF Stepwise
<1>7. g = [n \in 0 .. m |-> IF n = 0 THEN b ELSE IF g[n - 1] = 0 THEN 0 ELSE c[g[n - 1]]]
  <2>1. g = [n \in 0 .. m |-> g[n]]
      BY <1>4 DEF Stepwise
  <2>2. \A n \in 0 .. m : g[n] = IF n = 0 THEN b ELSE IF g[n - 1] = 0 THEN 0 ELSE c[g[n - 1]]
    <3>1. \A n \in 0 .. m : n = 0 \/ n \in 1 .. m
        OBVIOUS
    <3>2. g[0] = b
        BY <1>4 DEF Stepwise
    <3> QED BY <1>6, <3>1, <3>2
  <2> QED BY <2>1, <2>2
<1>8. \E s : Following(c, b, s)
    BY <1>2, <1>7 DEF Following
<1>9. PICK s : Following(c, b, s) /\ Follow(c, b) = Range(s) \ {0}
    BY <1>8 DEF Follow
<1>10. /\ DOMAIN s = 0 .. m /\ s[0] = b
       /\ \A n \in 1 .. m : s[n] = IF s[n - 1] = 0 THEN 0 ELSE c[s[n - 1]]
  <2>1. s = [n \in 0 .. m |-> IF n = 0 THEN b ELSE IF s[n - 1] = 0 THEN 0 ELSE c[s[n - 1]]]
      BY <1>2, <1>9 DEF Following
  <2> QED BY <2>1
<1> DEFINE L == {x \in Range(s) : x # 0}
<1>11. Follow(c, b) = L
    BY <1>9
<1> DEFINE A == {n \in Nat : n <= m => s[n] \in Places /\ (s[n] = 0 \/ s[n] > n)}
<1>12. \A n \in 0 .. m : s[n] \in Places /\ (s[n] = 0 \/ s[n] > n)
  <2>1. 0 \in A
      BY <1>10 DEF Places
  <2>2. ASSUME NEW n \in Nat, n \in A PROVE n + 1 \in A
    <3> SUFFICES ASSUME n + 1 <= m PROVE s[n + 1] \in Places /\ (s[n + 1] = 0 \/ s[n + 1] > n + 1)
        OBVIOUS
    <3>1. n + 1 \in 1 .. m /\ (n + 1) - 1 = n /\ s[n] \in Places /\ (s[n] = 0 \/ s[n] > n)
        BY <2>2
    <3>2. s[n + 1] = IF s[n] = 0 THEN 0 ELSE c[s[n]]
        BY <1>10, <3>1
    <3>3. CASE s[n] = 0
        BY <1>1, <3>2, <3>3 DEF Places
    <3>4. CASE s[n] # 0
      <4>1. PICK x \in Places : x = s[n]
          BY <3>1
      <4>2. PICK y \in Places : y = c[x]
          BY <1>1
      <4>3. s[n + 1] = y /\ x > n /\ (y = 0 \/ y > x)
          BY <1>1, <3>1, <3>2, <3>4, <4>1, <4>2
      <4> QED BY <1>1, <4>3 DEF Places
    <3> QED BY <3>3, <3>4
  <2>3. Nat \subseteq A
    <3> HIDE DEF A
    <3> QED BY <2>1, <2>2, SetInduction
  <2> QED BY <2>3
<1>13. \A n \in 0 .. m : s[n] \in Range(s)
    BY <1>10 DEF Range
<1>14. \A x \in L : \E n \in 0 .. m : x = s[n]
    BY <1>10 DEF Range
<1>15. L \subseteq Places \ {0}
    BY <1>12, <1>14
<1>16. b # 0 => b \in L
    BY <1>10, <1>13
<1>17. ASSUME NEW x \in L, c[x] # 0 PROVE c[x] \in L
  <2>1. PICK n \in 0 .. m : x = s[n]
      BY <1>14
  <2>2. n # m
    <3> SUFFICES ASSUME n = m PROVE FALSE
        OBVIOUS
    <3>1. s[n] > n /\ s[n] \in Places
        BY <1>12, <2>1
    <3> QED BY <1>1, <1>2, <3>1 DEF Places
  <2>3. n + 1 \in 1 .. m /\ (n + 1) - 1 = n /\ n + 1 \in 0 .. m
      BY <2>2
  <2>4. s[n + 1] = c[x]
      BY <1>10, <2>1, <2>3
  <2> QED BY <1>13, <1>17, <2>3, <2>4
<1>18. ASSUME NEW S, b = 0 \/ b \in S, \A x \in S \cap Places : c[x] = 0 \/ c[x] \in S
       PROVE  L \subseteq S
  <2> DEFINE B == {n \in Nat : n <= m => s[n] = 0 \/ s[n] \in S}
  <2>1. 0 \in B
      BY <1>10, <1>18
  <2>2. ASSUME NEW n \in Nat, n \in B PROVE n + 1 \in B
    <3> SUFFICES ASSUME n + 1 <= m PROVE s[n + 1] = 0 \/ s[n + 1] \in S
        OBVIOUS
    <3>1. n + 1 \in 1 .. m /\ (n + 1) - 1 = n /\ n \in 0 .. m /\ (s[n] = 0 \/ s[n] \in S)
        BY <2>2
    <3>2. s[n + 1] = IF s[n] = 0 THEN 0 ELSE c[s[n]]
        BY <1>10, <3>1
    <3> QED BY <1>12, <1>18, <3>1, <3>2
  <2>3. Nat \subseteq B
    <3> HIDE DEF B
    <3> QED BY <2>1, <2>2, SetInduction
  <2> QED BY <1>14, <2>3
<1> HIDE DEF L
<1> QED BY <1>11, <1>15, <1>16, <1>17, <1>18 DEF Links

\* The end of a chain.
LEMMA LastLink ==
  ASSUME NEW c, Upwards(c), NEW b \in Places \ {0}
  PROVE  Max(Follow(c, b)) \in Follow(c, b) /\ Max(Follow(c, b)) \in Places \ {0} /\ c[Max(Follow(c, b))] = 0
<1>1. PICK L : L = Follow(c, b) /\ Links(c, b, L)
    BY FollowIs
<1>2. L \subseteq 0 .. MaxChain /\ L # {} /\ L \subseteq Places \ {0}
    BY <1>1 DEF Links, Places
<1>3. Max(L) \in L /\ \A n \in L : Max(L) >= n
    BY <1>2, TablesAssumption, MaxIsGreatest
<1>4. PICK k \in L : k = Max(L)
    BY <1>3
<1>5. k \in Places /\ c[k] \in Places /\ (c[k] = 0 \/ c[k] > k)
    BY <1>2, <1>4 DEF Upwards
<1>6. c[k] # 0 => c[k] \in L
    BY <1>1, <1>4 DEF Links
<1>7. c[k] # 0 => k >= c[k]
    BY <1>3, <1>4, <1>6
<1>8. c[k] = 0
    BY <1>5, <1>7, TablesAssumption DEF Places
<1> QED BY <1>1, <1>2, <1>4, <1>8

\* One link more takes nothing from any chain.
LEMMA LinkAdded ==
  ASSUME NEW c, Upwards(c), NEW k \in Places, c[k] = 0, NEW i \in Places \ {0}, i > k
  PROVE  LET d == [c EXCEPT ![k] = i] IN
         /\ Upwards(d)
         /\ \A b \in Places : Follow(c, b) \subseteq Follow(d, b) /\ (k \in Follow(c, b) => i \in Follow(d, b))
<1>1. PICK d : d = [c EXCEPT ![k] = i]
    OBVIOUS
<1>2. Upwards(d) /\ d[k] = i /\ \A x \in Places : x # k => d[x] = c[x]
    BY <1>1 DEF Upwards
<1>3. ASSUME NEW b \in Places
      PROVE  Follow(c, b) \subseteq Follow(d, b) /\ (k \in Follow(c, b) => i \in Follow(d, b))
  <2>1. PICK K : K = Follow(c, b) /\ Links(c, b, K)
      BY FollowIs
  <2>2. PICK L : L = Follow(d, b) /\ Links(d, b, L)
      BY <1>2, FollowIs
  <2>3. \A x \in L \cap Places : c[x] = 0 \/ c[x] \in L
      BY <1>2, <2>2 DEF Links
  <2>4. b = 0 \/ b \in L
      BY <2>2 DEF Links
  <2>5. K \subseteq L
      BY <2>1, <2>3, <2>4 DEF Links
  <2>6. k \in K => i \in L
      BY <1>2, <2>2, <2>5 DEF Links
  <2> QED BY <2>1, <2>2, <2>5, <2>6
<1> QED BY <1>1, <1>2, <1>3

\* The name of an export, and where its chain begins.
HashBucket(b, name) == b[HashOf[name]]
Buckets == [0 .. NBucket - 1 -> Places]

\* Every export but the first is found behind its name's bucket, and nothing
\* is linked that was not exported yet.
Hashed(m, c, b, ns) ==
  /\ Upwards(c) /\ b \in Buckets /\ m \in Nat /\ m <= MaxChain + 1
  /\ \A x \in Places : c[x] = 0 \/ c[x] < m
  /\ \A h \in 0 .. NBucket - 1 : b[h] = 0 \/ b[h] < m
  /\ \A j \in 1 .. m - 1 : j \in Follow(c, HashBucket(b, ns[j + 1]))

HashInv ==
  /\ phase \in Exporting => Hashed(Len(functions), chain, bucket, names)
  /\ phase \in Reading \cup {"edata", "addresses"} =>
       bucket = [b \in 0 .. NBucket - 1 |-> 0] /\ chain = [i \in 0 .. MaxChain |-> 0]

LEMMA BucketIs ==
  ASSUME NEW b \in Buckets, NEW name \in Names \cup {Unnamed}
  PROVE  HashOf[name] \in 0 .. NBucket - 1 /\ HashBucket(b, name) \in Places
BY TablesAssumption DEF Buckets, HashBucket

LEMMA HashedMore ==
  ASSUME NEW m, NEW c, NEW b, NEW ns \in Seq(Names \cup {Unnamed}), Len(ns) = m, Hashed(m, c, b, ns),
         NEW name \in Names \cup {Unnamed}, m <= MaxChain
  PROVE  /\ HashBucket(b, name) = 0 => Hashed(m + 1, c, [b EXCEPT ![HashOf[name]] = m], Append(ns, name))
         /\ HashBucket(b, name) # 0 =>
              Hashed(m + 1, [c EXCEPT ![Max(Follow(c, HashBucket(b, name)))] = m], b, Append(ns, name))
<1>1. /\ Upwards(c) /\ b \in Buckets /\ m \in Nat /\ m \in Places /\ MaxChain \in Nat
      /\ \A x \in Places : c[x] = 0 \/ c[x] < m
      /\ \A h \in 0 .. NBucket - 1 : b[h] = 0 \/ b[h] < m
      /\ \A j \in 1 .. m - 1 : j \in Follow(c, HashBucket(b, ns[j + 1]))
    BY TablesAssumption DEF Hashed, Places
<1>2. PICK h \in 0 .. NBucket - 1 : h = HashOf[name]
    BY <1>1, BucketIs
<1>3. PICK e \in Places : e = HashBucket(b, name) /\ e = b[h]
    BY <1>1, <1>2, BucketIs DEF HashBucket
<1>4. PICK more \in Seq(Names \cup {Unnamed}) : more = Append(ns, name)
  <2>1. Append(ns, name) \in Seq(Names \cup {Unnamed})
      OBVIOUS
  <2> QED BY <2>1
<1>5. \A j \in 1 .. m : more[j] = ns[j] /\ ns[j] \in Names \cup {Unnamed}
    BY <1>1, <1>4
<1>6. more[m + 1] = name
    BY <1>1, <1>4
<1>7. \A x \in Places : c[x] \in Places
    BY <1>1 DEF Upwards
<1>8. \A g \in 0 .. NBucket - 1 : b[g] \in Places
    BY <1>1 DEF Buckets
<1>9. ASSUME e = 0 PROVE Hashed(m + 1, c, [b EXCEPT ![HashOf[name]] = m], more)
  <2>1. PICK d \in Buckets : d = [b EXCEPT ![h] = m]
    <3>1. [b EXCEPT ![h] = m] \in Buckets
        BY <1>1 DEF Buckets
    <3> QED BY <3>1
  <2>2. d[h] = m /\ \A g \in 0 .. NBucket - 1 : g # h => d[g] = b[g]
      BY <1>1, <2>1 DEF Buckets
  <2>3. \A x \in Places : c[x] = 0 \/ c[x] < m + 1
      BY <1>1, <1>7 DEF Places
  <2>4. \A g \in 0 .. NBucket - 1 : d[g] = 0 \/ d[g] < m + 1
      BY <1>1, <1>8, <2>2 DEF Places
  <2>5. ASSUME NEW j \in 1 .. (m + 1) - 1 PROVE j \in Follow(c, HashBucket(d, more[j + 1]))
    <3>1. CASE j = m
      <4>1. HashBucket(d, more[j + 1]) = m
          BY <1>2, <1>6, <2>2, <3>1 DEF HashBucket
      <4>2. Links(c, m, Follow(c, m)) /\ m # 0
          BY <1>1, <2>5, <3>1, FollowIs
      <4> QED BY <3>1, <4>1, <4>2 DEF Links
    <3>2. CASE j # m
      <4>1. j \in 1 .. m - 1 /\ j + 1 \in 1 .. m
          BY <1>1, <3>2
      <4>2. PICK n \in Names \cup {Unnamed} : n = ns[j + 1] /\ n = more[j + 1]
          BY <1>5, <4>1
      <4>3. j \in Follow(c, HashBucket(b, n))
          BY <1>1, <4>1, <4>2
      <4>4. HashOf[n] # h
        <5> SUFFICES ASSUME HashOf[n] = h PROVE FALSE
            OBVIOUS
        <5>1. HashBucket(b, n) = 0
            BY <1>3, <1>9 DEF HashBucket
        <5>2. Links(c, 0, Follow(c, 0))
          <6>1. 0 \in Places
              BY <1>1 DEF Places
          <6> QED BY <1>1, <6>1, FollowIs
        <5>3. (0 = 0 \/ 0 \in {}) /\ \A x \in {} \cap Places : c[x] = 0 \/ c[x] \in {}
            OBVIOUS
        <5>4. Follow(c, 0) \subseteq {}
            BY <5>2, <5>3 DEF Links
        <5> QED BY <4>3, <5>1, <5>4
      <4>5. HashBucket(d, n) = HashBucket(b, n)
          BY <1>1, <2>2, <4>4, BucketIs DEF HashBucket
      <4> QED BY <4>2, <4>3, <4>5
    <3> QED BY <3>1, <3>2
  <2>6. m + 1 \in Nat /\ m + 1 <= MaxChain + 1
      BY <1>1
  <2> QED BY <1>1, <1>2, <2>1, <2>3, <2>4, <2>5, <2>6 DEF Hashed
<1>10. ASSUME e # 0 PROVE Hashed(m + 1, [c EXCEPT ![Max(Follow(c, e))] = m], b, more)
  <2>1. PICK k \in Places \ {0} : k = Max(Follow(c, e)) /\ k \in Follow(c, e) /\ c[k] = 0
      BY <1>1, <1>3, <1>10, LastLink
  <2>2. k < m
    <3>1. Links(c, e, Follow(c, e))
        BY <1>1, FollowIs
    <3> DEFINE S == {x \in Places : x < m}
    <3>2. e \in S
        BY <1>1, <1>3, <1>10
    <3>3. \A x \in S \cap Places : c[x] = 0 \/ c[x] \in S
        BY <1>1, <1>7
    <3>4. Follow(c, e) \subseteq S
      <4> HIDE DEF S
      <4> QED BY <3>1, <3>2, <3>3 DEF Links
    <3> QED BY <2>1, <3>4
  <2>3. m \in Places \ {0} /\ m > k /\ k \in Places
      BY <1>1, <2>1, <2>2 DEF Places
  <2>4. PICK d : d = [c EXCEPT ![k] = m]
      OBVIOUS
  <2>5. /\ Upwards(d)
        /\ \A f \in Places : Follow(c, f) \subseteq Follow(d, f) /\ (k \in Follow(c, f) => m \in Follow(d, f))
      BY <1>1, <2>1, <2>3, <2>4, LinkAdded
  <2>6. \A x \in Places : d[x] = 0 \/ d[x] < m + 1
    <3>1. \A x \in Places : x # k => d[x] = c[x]
        BY <1>1, <2>4 DEF Upwards
    <3>2. d[k] = m
        BY <1>1, <2>3, <2>4 DEF Upwards
    <3>3. ASSUME NEW x \in Places, x # k PROVE d[x] = 0 \/ d[x] < m + 1
      <4>1. PICK y \in Places : y = c[x] /\ y = d[x]
          BY <1>7, <3>1, <3>3
      <4>2. y = 0 \/ y < m
          BY <1>1, <4>1
      <4> QED BY <1>1, <4>1, <4>2 DEF Places
    <3> QED BY <1>1, <3>2, <3>3
  <2>7. \A g \in 0 .. NBucket - 1 : b[g] = 0 \/ b[g] < m + 1
      BY <1>1, <1>8 DEF Places
  <2>8. ASSUME NEW j \in 1 .. (m + 1) - 1 PROVE j \in Follow(d, HashBucket(b, more[j + 1]))
    <3>1. CASE j = m
      <4>1. HashBucket(b, more[j + 1]) = e
          BY <1>3, <1>6, <3>1
      <4> QED BY <2>1, <2>5, <3>1, <4>1
    <3>2. CASE j # m
      <4>1. j \in 1 .. m - 1 /\ j + 1 \in 1 .. m
          BY <1>1, <3>2
      <4>2. PICK n \in Names \cup {Unnamed} : n = ns[j + 1] /\ n = more[j + 1]
          BY <1>5, <4>1
      <4>3. j \in Follow(c, HashBucket(b, n)) /\ HashBucket(b, n) \in Places
          BY <1>1, <4>1, <4>2, BucketIs
      <4> QED BY <2>5, <4>2, <4>3
    <3> QED BY <3>1, <3>2
  <2>9. m + 1 \in Nat /\ m + 1 <= MaxChain + 1
      BY <1>1
  <2> QED BY <1>1, <2>1, <2>4, <2>5, <2>6, <2>7, <2>8, <2>9 DEF Hashed
<1> QED BY <1>3, <1>4, <1>9, <1>10

LEMMA HashedFirst ==
  ASSUME NEW ns
  PROVE  Hashed(0, [i \in 0 .. MaxChain |-> 0], [b \in 0 .. NBucket - 1 |-> 0], ns)
<1>1. MaxChain \in Nat
    BY TablesAssumption
<1>2. Upwards([i \in 0 .. MaxChain |-> 0]) /\ [b \in 0 .. NBucket - 1 |-> 0] \in Buckets
    BY <1>1 DEF Upwards, Buckets, Places
<1> QED BY <1>1, <1>2 DEF Hashed, Places

LEMMA StepHash == BoxInv /\ ExportInv /\ ExportInv' /\ HashInv /\ add_export => HashInv'
<1> SUFFICES ASSUME BoxInv, ExportInv, ExportInv', HashInv, add_export PROVE HashInv'
    OBVIOUS
<1>1. phase = "export" /\ phase' \notin Reading \cup {"edata", "addresses"} /\ Len(functions) < Len(exports)
    BY DEF add_export, Reading
<1> SUFFICES ASSUME phase' # "stuck" PROVE Hashed(Len(functions), chain, bucket, names)'
    BY <1>1 DEF HashInv, add_export, Exporting
<1>2. PICK name : name = GET_NAME(Symbol(exports[Len(functions) + 1]))
    OBVIOUS
<1>3. /\ names' = Append(names, name) /\ functions' = Append(functions, ExportAddress(exports[Len(functions) + 1]))
      /\ ~ (Len(functions) > MaxChain) /\ add_dt_hash_entry(name, Len(functions))
    BY <1>2 DEF add_export
<1>4. /\ names \in Seq(Names \cup {Unnamed}) /\ functions \in Seq(Nat \ {0}) /\ Len(names) = Len(functions)
      /\ exports \in Seq(SymRows) /\ Hashed(Len(functions), chain, bucket, names)
    BY <1>1 DEF ExportInv, HashInv, Exporting
<1>5. PICK m \in Nat : m = Len(functions) /\ m < Len(exports) /\ m <= MaxChain
  <2>1. Len(functions) \in Nat /\ MaxChain \in Nat
      BY <1>4, TablesAssumption
  <2> QED BY <1>1, <1>3, <2>1
<1>6. name \in Names \cup {Unnamed}
  <2>1. exports[m + 1] \in SymRows
      BY <1>4, <1>5
  <2> QED BY <1>2, <1>5, <2>1, SymbolIs DEF BoxInv, AtTypes
<1>7. Len(functions') = m + 1
    BY <1>3, <1>4, <1>5
<1>8. PICK e : e = HashBucket(bucket, name)
    OBVIOUS
<1>9. /\ e = 0 => bucket' = [bucket EXCEPT ![HashOf[name]] = m] /\ chain' = chain
      /\ e # 0 => chain' = [chain EXCEPT ![Max(Follow(chain, e))] = m] /\ bucket' = bucket
    BY <1>3, <1>5, <1>8, LinkedIsFollow DEF add_dt_hash_entry, HashBucket
<1>10. /\ e = 0 => Hashed(m + 1, chain, [bucket EXCEPT ![HashOf[name]] = m], Append(names, name))
       /\ e # 0 => Hashed(m + 1, [chain EXCEPT ![Max(Follow(chain, e))] = m], bucket, Append(names, name))
    BY <1>4, <1>5, <1>6, <1>8, HashedMore
<1>11. Hashed(m + 1, chain', bucket', names')
    BY <1>3, <1>9, <1>10
<1> QED BY <1>7, <1>11

LEMMA HashStep == BoxInv /\ ExportInv /\ ExportInv' /\ HashInv /\ [Next]_vars => HashInv'
<1> SUFFICES ASSUME BoxInv, ExportInv, ExportInv', HashInv, [Next]_vars PROVE HashInv'
    OBVIOUS
<1>1. CASE add_export
    BY <1>1, StepHash
<1>2. CASE set_virtual_address
  <2>1. /\ phase = "addresses" /\ (phase' = phase \/ phase' = "export")
        /\ UNCHANGED <<bucket, chain, names, functions>>
      BY <1>2 DEF set_virtual_address, exportVars
  <2>2. /\ bucket = [b \in 0 .. NBucket - 1 |-> 0] /\ chain = [i \in 0 .. MaxChain |-> 0]
        /\ functions = <<>>
    <3>1. phase \in Reading \cup {"edata", "addresses"}
        BY <2>1
    <3> QED BY <3>1 DEF HashInv, ExportInv
  <2>3. Hashed(0, chain, bucket, names)
      BY <2>2, HashedFirst
  <2>4. Len(functions') = 0
      BY <2>1, <2>2
  <2> QED BY <2>1, <2>2, <2>3, <2>4 DEF HashInv, Exporting, Reading
<1>3. CASE ~ add_export /\ ~ set_virtual_address
  <2>1. UNCHANGED <<bucket, chain, names, functions>>
    <3>1. CASE resolve
        BY <3>1, ResolveIs DEF exportVars
    <3> QED BY <1>3, <3>1 DEF Next, section_callback, symtab_callback, add_edata,
               exported, relocated, add_import, no_import, gen_pe, vars, exportVars
  <2>2. /\ phase' \in Exporting => phase \in Exporting
        /\ phase' \in Reading \cup {"edata", "addresses"} => phase \in Reading \cup {"edata", "addresses"}
    <3>0. CASE symtab_callback
        BY <3>0, SymtabIs DEF symtab_callback, Exporting, Reading
    <3>1. CASE resolve
        BY <3>1, ResolveIs DEF Exporting, Reading
    <3>2. CASE section_callback \/ add_edata
        BY <3>2 DEF section_callback, add_edata, Exporting, Reading
    <3>3. CASE exported \/ relocated \/ add_import \/ no_import \/ gen_pe
        BY <3>3 DEF exported, relocated, add_import, no_import, gen_pe, Exporting, Reading
    <3>4. CASE UNCHANGED vars
        BY <3>4 DEF vars
    <3> QED BY <1>3, <3>0, <3>1, <3>2, <3>3, <3>4 DEF Next
  <2> QED BY <2>1, <2>2 DEF HashInv
<1> QED BY <1>1, <1>2, <1>3

LEMMA InitHash == Init => HashInv
BY DEF Init, HashInv, Exporting, Reading

----------------------------------------------------------------------------
(* References                                                              *)

HashFound(b, c, ns, name) == {x \in Follow(c, HashBucket(b, name)) : ns[x + 1] = name}

LEMMA LookupIs ==
  ASSUME ExportInv, HashInv, phase \in Exporting \ {"export"}, NEW name \in Names \cup {Unnamed}
  PROVE  LET H == HashFound(bucket, chain, names, name)
             n == Len(exports)
         IN  /\ n \in Nat /\ H \subseteq 1 .. n - 1
             /\ \A x \in 1 .. n - 1 : x \in H <=> GET_NAME(Symbol(exports[x + 1])) = name
             /\ sysv_lookup(name) = IF H = {} THEN 0 ELSE functions[Min(H) + 1]
             /\ \A i \in 1 .. n : functions[i] \in Nat \ {0} /\ functions[i] = ExportAddress(exports[i])
<1>1. /\ phase \in Exporting /\ Len(functions) = Len(exports) /\ functions \in Seq(Nat \ {0})
      /\ names \in Seq(Names \cup {Unnamed}) /\ Len(names) = Len(functions)
      /\ \A i \in 1 .. Len(functions) :
           names[i] = GET_NAME(Symbol(exports[i])) /\ functions[i] = ExportAddress(exports[i])
    BY DEF ExportInv
<1>2. PICK n \in Nat : n = Len(exports) /\ n = Len(functions) /\ n = Len(names)
    BY <1>1
<1>3. Hashed(n, chain, bucket, names)
    BY <1>1, <1>2 DEF HashInv
<1>4. PICK L : L = Follow(chain, HashBucket(bucket, name)) /\ Links(chain, HashBucket(bucket, name), L)
    BY <1>3, BucketIs, FollowIs DEF Hashed
<1>5. L \subseteq 1 .. n - 1
  <2> DEFINE S == {x \in Places \ {0} : x < n}
  <2>1. \A x \in S \cap Places : chain[x] = 0 \/ chain[x] \in S
      BY <1>3 DEF Hashed, Upwards
  <2>2. HashBucket(bucket, name) = 0 \/ HashBucket(bucket, name) \in S
    <3>1. HashBucket(bucket, name) = 0 \/ HashBucket(bucket, name) < n
        BY <1>3, BucketIs DEF Hashed, HashBucket
    <3>2. HashBucket(bucket, name) \in Places
        BY <1>3, BucketIs DEF Hashed
    <3> QED BY <3>1, <3>2
  <2>3. L \subseteq S
    <3> HIDE DEF S
    <3> QED BY <1>4, <2>1, <2>2 DEF Links
  <2> QED BY <2>3, TablesAssumption DEF Places
<1>6. PICK H : H = HashFound(bucket, chain, names, name) /\ H = {x \in L : names[x + 1] = name}
    BY <1>4 DEF HashFound
<1>7. H \subseteq 1 .. n - 1
    BY <1>5, <1>6
<1>8. \A x \in 1 .. n - 1 : x + 1 \in 1 .. n /\ names[x + 1] = GET_NAME(Symbol(exports[x + 1]))
    BY <1>1, <1>2
<1>9. ASSUME NEW x \in 1 .. n - 1, names[x + 1] = name PROVE x \in L
    BY <1>3, <1>4, <1>9 DEF Hashed
<1>10. \A x \in 1 .. n - 1 : x \in H <=> GET_NAME(Symbol(exports[x + 1])) = name
    BY <1>6, <1>8, <1>9
<1>11. sysv_lookup(name) = IF H = {} THEN 0 ELSE functions[Min(H) + 1]
  <2>1. Linked(bucket[HashOf[name]]) = L
      BY <1>4, LinkedIsFollow DEF HashBucket
  <2> QED BY <1>6, <2>1 DEF sysv_lookup
<1>12. \A i \in 1 .. n : functions[i] \in Nat \ {0} /\ functions[i] = ExportAddress(exports[i])
    BY <1>1, <1>2
<1> QED BY <1>2, <1>6, <1>7, <1>10, <1>11, <1>12

LEMMA LookupFinds ==
  ASSUME ExportInv, HashInv, phase \in Exporting \ {"export"}, NEW name \in Names \cup {Unnamed}
  PROVE  /\ sysv_lookup(name) \in Nat
         /\ Defining(name) = {} => sysv_lookup(name) = 0
         /\ \A i \in Defining(name) : (Defining(name) = {i} /\ i # 1) =>
              sysv_lookup(name) = ExportAddress(exports[i]) /\ sysv_lookup(name) # 0
<1>1. PICK n \in Nat : n = Len(exports)
    BY LookupIs
<1>2. PICK H \in SUBSET (1 .. n - 1) :
             /\ \A x \in 1 .. n - 1 : x \in H <=> GET_NAME(Symbol(exports[x + 1])) = name
             /\ sysv_lookup(name) = IF H = {} THEN 0 ELSE functions[Min(H) + 1]
    BY <1>1, LookupIs
<1>3. \A i \in 1 .. n : functions[i] \in Nat \ {0} /\ functions[i] = ExportAddress(exports[i])
    BY <1>1, LookupIs
<1>4. Defining(name) = {i \in 1 .. n : GET_NAME(Symbol(exports[i])) = name}
  <2>1. DOMAIN exports = 1 .. n
      BY <1>1 DEF ExportInv
  <2> QED BY <2>1 DEF Defining
<1>5. H # {} => Min(H) \in H
  <2>1. H \subseteq Nat
      BY <1>1
  <2> QED BY <2>1, MinIsLeast
<1>6. CASE H = {}
  <2>1. sysv_lookup(name) = 0
      BY <1>2, <1>6
  <2>2. ASSUME NEW i \in Defining(name) PROVE i = 1
    <3>1. i \in 1 .. n /\ GET_NAME(Symbol(exports[i])) = name
        BY <1>4
    <3>2. i # 1 => i - 1 \in 1 .. n - 1 /\ (i - 1) + 1 = i
        BY <3>1
    <3> QED BY <1>2, <1>6, <3>1, <3>2
  <2> QED BY <2>1, <2>2
<1>7. CASE H # {}
  <2>1. PICK x \in 1 .. n - 1 : x = Min(H) /\ x \in H
      BY <1>5, <1>7
  <2>2. x + 1 \in 1 .. n /\ GET_NAME(Symbol(exports[x + 1])) = name
      BY <1>2, <2>1
  <2>3. x + 1 \in Defining(name)
      BY <1>4, <2>2
  <2>4. sysv_lookup(name) = functions[x + 1]
      BY <1>2, <1>7, <2>1
  <2>5. sysv_lookup(name) \in Nat \ {0} /\ sysv_lookup(name) = ExportAddress(exports[x + 1])
      BY <1>3, <2>2, <2>4
  <2>6. \A i \in Defining(name) : Defining(name) = {i} => i = x + 1
      BY <2>3
  <2> QED BY <2>3, <2>5, <2>6
<1> QED BY <1>6, <1>7

\* Relocations: their sections are those of the objects, their symbols too.
SiteRows ==
  {t \in [sec : Rows, n : Nat] :
     /\ t.n \in DOMAIN Section(t.sec).relocs
     /\ Section(t.sec).relocs[t.n] \in DOMAIN world[t.sec[1]].symbols}
ChainSites(c) == FlattenSeq([k \in DOMAIN c |-> Relocs(c[k])])
BoxSites(cs) == [b \in DOMAIN cs |-> ChainSites(cs[b].chain)]

LEMMA SitesAreBoxSites == Sites = FlattenSeq(BoxSites(containers))
BY DEF Sites, BoxSites, ChainSites

LEMMA RelocsAre ==
  ASSUME world \in Worlds
  PROVE  /\ \A s \in Ids : Relocs(s) \in Seq(SiteRows)
         /\ Relocs(Plt) = <<>> /\ Relocs(IData) = <<>>
<1>1. Relocs(Plt) = <<>> /\ Relocs(IData) = <<>> /\ Relocs(EData) = <<>>
  <2>1. \A o : Relocs(<<o, 0>>) = <<>> /\ Relocs(<<o, -1>>) = <<>> /\ Relocs(<<o, -2>>) = <<>>
      BY DEF Relocs
  <2> QED BY <2>1 DEF Plt, IData, EData
<1>2. <<>> \in Seq(SiteRows)
    OBVIOUS
<1>3. ASSUME NEW s \in Rows PROVE Relocs(s) \in Seq(SiteRows)
  <2>1. s[1] \in DOMAIN world /\ s[2] \in DOMAIN world[s[1]].sections /\ s[2] \in Nat
      BY DEF Rows
  <2>2. Section(s) \in SectionRows
      BY <2>1, WorldIs DEF Section
  <2>3. PICK rs \in Seq(Nat) : rs = Section(s).relocs
      BY <2>2 DEF SectionRows
  <2>4. PICK n \in Nat : n = Len(rs) /\ DOMAIN rs = 1 .. n
      OBVIOUS
  <2>5. ASSUME NEW i \in 1 .. n PROVE rs[i] \in DOMAIN world[s[1]].symbols
    <3>1. rs[i] \in Range(Section(s).relocs)
        BY <2>3, <2>4 DEF Range
    <3> QED BY <2>1, <3>1, WorldsAssumption DEF Section
  <2>6. \A i \in 1 .. n : [sec |-> s, n |-> i] \in SiteRows
      BY <2>3, <2>4, <2>5 DEF SiteRows
  <2>7. [i \in 1 .. n |-> [sec |-> s, n |-> i]] \in Seq(SiteRows)
      BY <2>6
  <2>8. Relocs(s) = <<>> \/ Relocs(s) = [i \in 1 .. n |-> [sec |-> s, n |-> i]]
      BY <2>3, <2>4 DEF Relocs
  <2> QED BY <1>2, <2>7, <2>8
<1> QED BY <1>1, <1>2, <1>3 DEF Ids

LEMMA BoxSitesAre ==
  ASSUME BoxInv
  PROVE  /\ BoxSites(Laid) \in Seq(Seq(SiteRows)) /\ Len(BoxSites(Laid)) = Len(Laid)
         /\ \A b \in 1 .. Len(Laid) : BoxSites(Laid)[b] = ChainSites(Laid[b].chain)
<1>1. Laid \in Seq(Boxes) /\ world \in Worlds
    BY DEF BoxInv, AtTypes
<1>2. PICK n \in Nat : n = Len(Laid) /\ DOMAIN Laid = 1 .. n
    BY <1>1
<1>3. ASSUME NEW b \in 1 .. n PROVE ChainSites(Laid[b].chain) \in Seq(SiteRows)
  <2>9. Laid[b] \in Boxes
      BY <1>1, <1>2
  <2>0. Laid[b] \in [name : BoxNames, chain : Seq(Ids), size : Nat]
      BY <2>9 DEF Boxes
  <2>1. PICK c \in Seq(Ids) : c = Laid[b].chain
      BY <2>0, BoxIs
  <2>2. PICK m \in Nat : m = Len(c) /\ DOMAIN c = 1 .. m
      OBVIOUS
  <2>3. \A k \in 1 .. m : Relocs(c[k]) \in Seq(SiteRows)
      BY <1>1, <2>2, RelocsAre
  <2>4. [k \in 1 .. m |-> Relocs(c[k])] \in Seq(Seq(SiteRows))
      BY <2>3
  <2>5. FlattenSeq([k \in 1 .. m |-> Relocs(c[k])]) \in Seq(SiteRows)
      BY <2>4, FlattenIsSeq
  <2> QED BY <2>1, <2>2, <2>5 DEF ChainSites
<1>4. BoxSites(Laid) = [b \in 1 .. n |-> ChainSites(Laid[b].chain)]
    BY <1>2 DEF BoxSites
<1> QED BY <1>2, <1>3, <1>4

\* .plt and .idata have no relocations.
LEMMA SitesAre ==
  ASSUME BoxInv
  PROVE  Sites = FlattenSeq(BoxSites(Laid)) /\ Sites \in Seq(SiteRows)
<1>1. PICK ss \in Seq(Seq(SiteRows)) : ss = BoxSites(Laid) /\ Len(ss) = Len(Laid)
    BY BoxSitesAre
<1>2. FlattenSeq(ss) \in Seq(SiteRows)
    BY FlattenIsSeq
<1>3. CASE ~ (phase \in Late /\ importLen > 0)
  <2>1. Laid = containers
      BY <1>3 DEF Laid
  <2> QED BY <1>1, <1>2, <2>1, SitesAreBoxSites
<1>4. CASE phase \in Late /\ importLen > 0
  <2>1. containers = Laid \o ImportSections /\ Laid \in Seq(Boxes) /\ world \in Worlds
      BY <1>4 DEF BoxInv, AtTypes
  <2>2. PICK n \in Nat : n = Len(Laid) /\ DOMAIN Laid = 1 .. n
      BY <2>1
  <2>3. ChainSites(<<Plt>>) = <<>> /\ ChainSites(<<IData>>) = <<>>
    <3>1. ASSUME NEW s, Relocs(s) = <<>> PROVE ChainSites(<<s>>) = <<>>
      <4>1. [k \in DOMAIN <<s>> |-> Relocs(<<s>>[k])] = <<<<>>>>
          BY <3>1
      <4>2. <<>> \in Seq(Seq(SiteRows)) /\ <<>> \in Seq(SiteRows)
          OBVIOUS
      <4>3. FlattenSeq(Append(<<>>, <<>>)) = FlattenSeq(<<>>) \o <<>>
          BY <4>2, FlattenAppend
      <4>4. FlattenSeq(<<>>) = <<>>
        <5>1. FlattenSeq(<<>>) \in Seq(SiteRows) /\ Len(FlattenSeq(<<>>)) = 0
          <6>1. PICK w \in [SiteRows -> Nat] : w = [x \in SiteRows |-> 0]
            <7>1. [x \in SiteRows |-> 0] \in [SiteRows -> Nat]
                OBVIOUS
            <7> QED BY <7>1
          <6>2. Len(FlattenSeq(<<>>)) = Total(Lens(<<>>)) /\ FlattenSeq(<<>>) \in Seq(SiteRows)
              BY <4>2, <6>1, FlattenLen, FlattenIsSeq
          <6>3. Lens(<<>>) \in Seq(Nat) /\ Len(Lens(<<>>)) = 0
              BY <4>2, LensAre
          <6>4. Total(Lens(<<>>)) = 0
              BY <6>3, SumIs DEF Total
          <6> QED BY <6>2, <6>4
        <5> QED BY <5>1
      <4>5. Append(<<>>, <<>>) = <<<<>>>> /\ <<>> \o <<>> = <<>>
          OBVIOUS
      <4> QED BY <4>1, <4>3, <4>4, <4>5 DEF ChainSites
    <3> QED BY <2>1, <3>1, RelocsAre
  <2>4. /\ Len(containers) = n + 2 /\ DOMAIN containers = 1 .. n + 2
        /\ \A b \in 1 .. n : containers[b] = Laid[b]
        /\ containers[n + 1].chain = <<Plt>> /\ containers[n + 2].chain = <<IData>>
      BY <2>1, <2>2 DEF ImportSections, Box
  <2>5. PICK tt \in Seq(Seq(SiteRows)) : tt = Append(Append(ss, <<>>), <<>>)
    <3>1. Append(Append(ss, <<>>), <<>>) \in Seq(Seq(SiteRows))
        OBVIOUS
    <3> QED BY <3>1
  <2>6. Len(tt) = n + 2 /\ tt[n + 1] = <<>> /\ tt[n + 2] = <<>> /\ \A b \in 1 .. n : tt[b] = ss[b]
      BY <1>1, <2>2, <2>5
  <2>7. BoxSites(containers) = [b \in 1 .. n + 2 |-> ChainSites(containers[b].chain)]
      BY <2>4 DEF BoxSites
  <2>8. ASSUME NEW b \in 1 .. n + 2 PROVE ChainSites(containers[b].chain) = tt[b]
    <3>1. b \in 1 .. n \/ b = n + 1 \/ b = n + 2
        OBVIOUS
    <3>2. CASE b \in 1 .. n
        BY <1>1, <2>2, <2>4, <2>6, <3>2, BoxSitesAre
    <3>3. CASE b = n + 1
        BY <2>3, <2>4, <2>6, <3>3
    <3>4. CASE b = n + 2
        BY <2>3, <2>4, <2>6, <3>4
    <3> QED BY <3>1, <3>2, <3>3, <3>4
  <2>9. tt = [b \in 1 .. n + 2 |-> tt[b]]
      BY <2>6
  <2>10. BoxSites(containers) = tt
      BY <2>7, <2>8, <2>9
  <2>11. FlattenSeq(tt) = FlattenSeq(ss)
    <3>1. <<>> \in Seq(SiteRows)
        OBVIOUS
    <3>0. Append(ss, <<>>) \in Seq(Seq(SiteRows))
        OBVIOUS
    <3>2. PICK uu \in Seq(Seq(SiteRows)) : uu = Append(ss, <<>>)
        BY <3>0
    <3>3. FlattenSeq(uu) = FlattenSeq(ss) \o <<>>
        BY <3>1, <3>2, FlattenAppend
    <3>4. FlattenSeq(tt) = FlattenSeq(uu) \o <<>>
        BY <2>5, <3>1, <3>2, FlattenAppend
    <3>5. FlattenSeq(uu) \in Seq(SiteRows)
        BY FlattenIsSeq
    <3> QED BY <1>2, <3>3, <3>4, <3>5
  <2> QED BY <1>1, <1>2, <2>10, <2>11, SitesAreBoxSites
<1> QED BY <1>3, <1>4

SitesFact == Sites = FlattenSeq(BoxSites(Laid))

LEMMA SitesFactHolds == BoxInv => SitesFact
BY SitesAre DEF SitesFact

LEMMA SitesFactNext == BoxInv' => SitesFact'
BY SitesFactHolds, PTL

LEMMA SitesKept ==
  ASSUME BoxInv, BoxInv', phase \in Exporting, [Next]_vars
  PROVE  /\ Sites' = Sites /\ UNCHANGED <<world, exports>>
         /\ \A t : Referred(t)' = Referred(t)
<1>1. UNCHANGED <<world, exports>>
  <2>1. CASE resolve
      BY <2>1, ResolveIs DEF inputVars
  <2> QED BY <2>1 DEF Next, Exporting, section_callback, symtab_callback, add_edata, set_virtual_address, add_export,
             exported, relocated, add_import, no_import, gen_pe, vars, inputVars
<1>2. \A s : Section(s)' = Section(s) /\ Relocs(s)' = Relocs(s)
    BY <1>1 DEF Section, Relocs
<1>3. \A t : Referred(t)' = Referred(t)
    BY <1>1, <1>2 DEF Referred
<1>4. CASE ~ add_import
  <2>1. containers' = containers
    <3>1. CASE resolve
        BY <3>1, ResolveIs DEF inputVars
    <3> QED BY <1>4, <3>1 DEF Next, Exporting, section_callback, symtab_callback, add_edata, set_virtual_address,
               add_export, exported, relocated, no_import, gen_pe, vars, inputVars
  <2>2. Sites' = Sites
      BY <1>1, <2>1 DEF Sites, Relocs, Section
  <2> QED BY <1>1, <1>3, <2>2
<1>5. CASE add_import
  <2>1. Laid' = Laid
      BY <1>5, ImportLaid
  <2>2. Sites' = FlattenSeq(BoxSites(Laid))'
      BY SitesFactNext DEF SitesFact
  <2>3. BoxSites(Laid)' = BoxSites(Laid)
      BY <1>1, <2>1 DEF BoxSites, ChainSites, Relocs, Section
  <2>4. Sites' = Sites
      BY <2>2, <2>3, SitesAre
  <2> QED BY <1>1, <1>3, <2>4
<1> QED BY <1>4, <1>5

----------------------------------------------------------------------------
(* The order of imports                                                    *)

\* es lists the imports that have a stub; the stubs are numbered from base on in
\* the order of their first references.
Numbered(es, ev, base, n) ==
  /\ es \in Seq(Entries) /\ ev \in [DOMAIN Dll -> Nat] /\ base \in Nat \ {0} /\ n \in Nat
  /\ \A d, e \in 1 .. Len(es) : es[d].dll = es[e].dll => d = e
  /\ \A d \in 1 .. Len(es) :
       /\ Len(es[d].funcs) # 0
       /\ \A f \in 1 .. Len(es[d].funcs) : Dll[es[d].funcs[f]] = es[d].dll /\ ev[es[d].funcs[f]] # 0
       /\ \A f, g \in 1 .. Len(es[d].funcs) : f < g => ev[es[d].funcs[f]] < ev[es[d].funcs[g]]
       /\ \A e \in 1 .. Len(es) : d < e => ev[es[d].funcs[1]] < ev[es[e].funcs[1]]
  /\ \A x \in DOMAIN Dll : ev[x] # 0 =>
       /\ \E d \in 1 .. Len(es) : \E f \in 1 .. Len(es[d].funcs) : es[d].funcs[f] = x
       /\ \E j \in 0 .. n - 1 : ev[x] = base + 6 * j
  /\ \A x, y \in DOMAIN Dll : (ev[x] # 0 /\ ev[x] = ev[y]) => x = y

\* ds is es with the function nm behind those of its DLL.
MoreFuncs(es, ds, nm) ==
  \E c \in 1 .. Len(ds) : \E m \in 1 .. Len(ds[c].funcs) :
    /\ m = Len(ds[c].funcs) /\ ds[c].dll = Dll[nm] /\ ds[c].funcs[m] = nm
    /\ \/ m = 1 /\ c = Len(ds) /\ Len(ds) = Len(es) + 1 /\ \A i \in 1 .. Len(es) : es[i].dll # Dll[nm]
       \/ m # 1 /\ Len(ds) = Len(es)
    /\ \A d \in 1 .. Len(ds) : \A f \in 1 .. Len(ds[d].funcs) :
         \/ d = c /\ f = m
         \/ d \in 1 .. Len(es) /\ f \in 1 .. Len(es[d].funcs) /\ ds[d].funcs[f] = es[d].funcs[f]
    /\ \A d \in 1 .. Len(es) :
         /\ d \in 1 .. Len(ds) /\ ds[d].dll = es[d].dll
         /\ \A f \in 1 .. Len(es[d].funcs) : f \in 1 .. Len(ds[d].funcs) /\ ds[d].funcs[f] = es[d].funcs[f]

LEMMA FuncsOf ==
  ASSUME NEW es \in Seq(Entries), NEW d \in 1 .. Len(es)
  PROVE  /\ es[d].dll \in Range(Dll) /\ es[d].funcs \in Seq(DOMAIN Dll) /\ Len(es[d].funcs) \in Nat
         /\ \A f \in 1 .. Len(es[d].funcs) : es[d].funcs[f] \in DOMAIN Dll
<1>1. es[d] \in Entries
    OBVIOUS
<1>2. PICK fs \in Seq(DOMAIN Dll) : fs = es[d].funcs /\ es[d].dll \in Range(Dll)
    BY <1>1, EntryIs
<1> QED BY <1>2

LEMMA MoreOfNewDll ==
  ASSUME NEW es \in Seq(Entries), NEW nm \in DOMAIN Dll, \A i \in 1 .. Len(es) : es[i].dll # Dll[nm],
         \A d \in 1 .. Len(es) : Len(es[d].funcs) # 0
  PROVE  MoreFuncs(es, Append(es, [dll |-> Dll[nm], funcs |-> <<nm>>]), nm)
<1>1. PICK e \in Entries : e = [dll |-> Dll[nm], funcs |-> <<nm>>] /\ Len(e.funcs) = 1 /\ e.funcs[1] = nm /\ e.dll = Dll[nm]
    BY MadeEntry
<1>2. PICK n \in Nat : n = Len(es)
    OBVIOUS
<1>10. PICK ds : ds = Append(es, e)
    OBVIOUS
<1>3. Len(ds) = n + 1 /\ ds[n + 1] = e /\ \A i \in 1 .. n : ds[i] = es[i]
    BY <1>2, <1>10
<1>4. n + 1 \in 1 .. n + 1 /\ \A i \in 1 .. n : i \in 1 .. n + 1
    OBVIOUS
<1>5. \A d \in 1 .. n + 1 : d = n + 1 \/ d \in 1 .. n
    OBVIOUS
<1>6. \A d \in 1 .. Len(ds) : \A f \in 1 .. Len(ds[d].funcs) :
         \/ d = n + 1 /\ f = 1
         \/ d \in 1 .. n /\ f \in 1 .. Len(es[d].funcs) /\ ds[d].funcs[f] = es[d].funcs[f]
  <2> SUFFICES ASSUME NEW d \in 1 .. Len(ds), NEW f \in 1 .. Len(ds[d].funcs)
               PROVE  \/ d = n + 1 /\ f = 1
                      \/ d \in 1 .. n /\ f \in 1 .. Len(es[d].funcs) /\ ds[d].funcs[f] = es[d].funcs[f]
      OBVIOUS
  <2>1. CASE d = n + 1
    <3>1. f \in 1 .. Len(e.funcs)
        BY <1>3, <2>1
    <3> QED BY <1>1, <2>1, <3>1
  <2>2. CASE d # n + 1
    <3>1. d \in 1 .. n /\ ds[d] = es[d]
        BY <1>3, <1>5, <2>2
    <3> QED BY <3>1
  <2> QED BY <2>1, <2>2
<1>7. \A d \in 1 .. n :
         /\ d \in 1 .. Len(ds) /\ ds[d].dll = es[d].dll
         /\ \A f \in 1 .. Len(es[d].funcs) : f \in 1 .. Len(ds[d].funcs) /\ ds[d].funcs[f] = es[d].funcs[f]
    BY <1>3, <1>4
<1>8. /\ n + 1 \in 1 .. Len(ds) /\ 1 \in 1 .. Len(ds[n + 1].funcs) /\ 1 = Len(ds[n + 1].funcs)
      /\ ds[n + 1].dll = Dll[nm] /\ ds[n + 1].funcs[1] = nm /\ n + 1 = Len(ds) /\ Len(ds) = Len(es) + 1
    BY <1>1, <1>2, <1>3, <1>4
<1>9. MoreFuncs(es, ds, nm)
  <2>1. PICK c \in 1 .. Len(ds) : c = n + 1
      BY <1>8
  <2>2. /\ 1 \in 1 .. Len(ds[c].funcs) /\ 1 = Len(ds[c].funcs)
        /\ ds[c].dll = Dll[nm] /\ ds[c].funcs[1] = nm /\ c = Len(ds) /\ Len(ds) = Len(es) + 1
      BY <1>8, <2>1
  <2>3. \A i \in 1 .. Len(es) : es[i].dll # Dll[nm]
      BY <1>2
  <2>4. \A d \in 1 .. Len(ds) : \A f \in 1 .. Len(ds[d].funcs) :
         \/ d = c /\ f = 1
         \/ d \in 1 .. Len(es) /\ f \in 1 .. Len(es[d].funcs) /\ ds[d].funcs[f] = es[d].funcs[f]
      BY <1>2, <1>6, <2>1
  <2>5. \A d \in 1 .. Len(es) :
         /\ d \in 1 .. Len(ds) /\ ds[d].dll = es[d].dll
         /\ \A f \in 1 .. Len(es[d].funcs) : f \in 1 .. Len(ds[d].funcs) /\ ds[d].funcs[f] = es[d].funcs[f]
      BY <1>2, <1>7
  <2> QED BY <2>2, <2>3, <2>4, <2>5, ZenonT(30) DEF MoreFuncs
<1> QED BY <1>1, <1>9, <1>10

LEMMA MoreOfKnownDll ==
  ASSUME NEW es \in Seq(Entries), NEW nm \in DOMAIN Dll, NEW c \in 1 .. Len(es), es[c].dll = Dll[nm],
         \A d \in 1 .. Len(es) : Len(es[d].funcs) # 0
  PROVE  MoreFuncs(es, WithFunc(es, c, nm), nm)
<1>1. PICK n \in Nat : n = Len(es) /\ c \in 1 .. n
    OBVIOUS
<1>2. PICK fs \in Seq(DOMAIN Dll) : fs = es[c].funcs
    BY FuncsOf
<1>3. PICK l \in Nat : l = Len(fs) /\ l # 0
    BY <1>2
<1>4. PICK gs \in Seq(DOMAIN Dll) : gs = Append(fs, nm)
  <2>1. Append(fs, nm) \in Seq(DOMAIN Dll)
      OBVIOUS
  <2> QED BY <2>1
<1>5. Len(gs) = l + 1 /\ gs[l + 1] = nm /\ \A f \in 1 .. l : gs[f] = fs[f]
    BY <1>3, <1>4
<1>6. PICK ds \in Seq(Entries) :
        /\ ds = WithFunc(es, c, nm) /\ Len(ds) = n /\ ds[c].dll = es[c].dll /\ ds[c].funcs = gs
        /\ \A i \in 1 .. n : i # c => ds[i] = es[i]
    BY <1>1, <1>2, <1>4, FuncAdded
<1>7. \A f \in 1 .. l + 1 : f = l + 1 \/ f \in 1 .. l
    OBVIOUS
<1>8. l + 1 \in 1 .. l + 1 /\ l + 1 # 1 /\ \A f \in 1 .. l : f \in 1 .. l + 1
    BY <1>3
<1>9. ASSUME NEW d \in 1 .. n, NEW f \in 1 .. Len(ds[d].funcs)
      PROVE  \/ d = c /\ f = l + 1
             \/ f \in 1 .. Len(es[d].funcs) /\ ds[d].funcs[f] = es[d].funcs[f]
  <2>1. CASE d = c
      BY <1>2, <1>3, <1>5, <1>6, <1>7, <1>9, <2>1
  <2>2. CASE d # c
      BY <1>6, <1>9, <2>2
  <2> QED BY <2>1, <2>2
<1>10. ASSUME NEW d \in 1 .. n
       PROVE  /\ ds[d].dll = es[d].dll
              /\ \A f \in 1 .. Len(es[d].funcs) : f \in 1 .. Len(ds[d].funcs) /\ ds[d].funcs[f] = es[d].funcs[f]
  <2>1. CASE d = c
      BY <1>2, <1>3, <1>5, <1>6, <1>8, <2>1
  <2>2. CASE d # c
      BY <1>6, <2>2
  <2> QED BY <2>1, <2>2
<1>11. /\ c \in 1 .. Len(ds) /\ l + 1 \in 1 .. Len(ds[c].funcs) /\ l + 1 = Len(ds[c].funcs)
       /\ ds[c].dll = Dll[nm] /\ ds[c].funcs[l + 1] = nm /\ l + 1 # 1 /\ Len(ds) = Len(es)
    BY <1>1, <1>5, <1>6, <1>8
<1>13. \A d \in 1 .. Len(ds) : \A f \in 1 .. Len(ds[d].funcs) :
         \/ d = c /\ f = l + 1
         \/ d \in 1 .. Len(es) /\ f \in 1 .. Len(es[d].funcs) /\ ds[d].funcs[f] = es[d].funcs[f]
    BY <1>1, <1>6, <1>9
<1>14. \A d \in 1 .. Len(es) :
         /\ d \in 1 .. Len(ds) /\ ds[d].dll = es[d].dll
         /\ \A f \in 1 .. Len(es[d].funcs) : f \in 1 .. Len(ds[d].funcs) /\ ds[d].funcs[f] = es[d].funcs[f]
    BY <1>1, <1>6, <1>10
<1>15. PICK m : m = l + 1
    OBVIOUS
<1>12. MoreFuncs(es, ds, nm)
    BY <1>11, <1>13, <1>14, <1>15 DEF MoreFuncs
<1> QED BY <1>6, <1>12

LEMMA NumberedMore ==
  ASSUME NEW es, NEW ev, NEW base, NEW n, Numbered(es, ev, base, n), NEW nm \in DOMAIN Dll, ev[nm] = 0,
         NEW ds \in Seq(Entries), MoreFuncs(es, ds, nm)
  PROVE  Numbered(ds, [ev EXCEPT ![nm] = base + 6 * n], base, n + 1)
<1>1. /\ es \in Seq(Entries) /\ ev \in [DOMAIN Dll -> Nat] /\ base \in Nat \ {0} /\ n \in Nat
      /\ \A d, e \in 1 .. Len(es) : es[d].dll = es[e].dll => d = e
      /\ \A x, y \in DOMAIN Dll : (ev[x] # 0 /\ ev[x] = ev[y]) => x = y
    BY DEF Numbered
<1>2. \A d \in 1 .. Len(es) :
       /\ Len(es[d].funcs) # 0
       /\ \A f \in 1 .. Len(es[d].funcs) : Dll[es[d].funcs[f]] = es[d].dll /\ ev[es[d].funcs[f]] # 0
       /\ \A f, g \in 1 .. Len(es[d].funcs) : f < g => ev[es[d].funcs[f]] < ev[es[d].funcs[g]]
       /\ \A e \in 1 .. Len(es) : d < e => ev[es[d].funcs[1]] < ev[es[e].funcs[1]]
    BY DEF Numbered
<1>3. \A x \in DOMAIN Dll : ev[x] # 0 =>
       /\ \E d \in 1 .. Len(es) : \E f \in 1 .. Len(es[d].funcs) : es[d].funcs[f] = x
       /\ \E j \in 0 .. n - 1 : ev[x] = base + 6 * j
    BY DEF Numbered
<1>4. PICK top \in Nat \ {0} : top = base + 6 * n
    BY <1>1
<1>5. PICK ew \in [DOMAIN Dll -> Nat] : ew = [ev EXCEPT ![nm] = top]
    BY <1>1
<1>6. ew[nm] = top /\ \A x \in DOMAIN Dll : x # nm => ew[x] = ev[x]
    BY <1>1, <1>5
<1>7. \A x \in DOMAIN Dll : ev[x] < top
  <2> SUFFICES ASSUME NEW x \in DOMAIN Dll PROVE ev[x] < top
      OBVIOUS
  <2>1. CASE ev[x] = 0
      BY <1>4, <2>1
  <2>2. CASE ev[x] # 0
    <3>1. PICK j \in 0 .. n - 1 : ev[x] = base + 6 * j
        BY <1>3, <2>2
    <3>2. base + 6 * j < base + 6 * n
        BY <1>1
    <3> QED BY <1>4, <3>1, <3>2
  <2> QED BY <2>1, <2>2
<1>8. PICK c \in 1 .. Len(ds) : \E m \in 1 .. Len(ds[c].funcs) :
    /\ m = Len(ds[c].funcs) /\ ds[c].dll = Dll[nm] /\ ds[c].funcs[m] = nm
    /\ \/ m = 1 /\ c = Len(ds) /\ Len(ds) = Len(es) + 1 /\ \A i \in 1 .. Len(es) : es[i].dll # Dll[nm]
       \/ m # 1 /\ Len(ds) = Len(es)
    /\ \A d \in 1 .. Len(ds) : \A f \in 1 .. Len(ds[d].funcs) :
         \/ d = c /\ f = m
         \/ d \in 1 .. Len(es) /\ f \in 1 .. Len(es[d].funcs) /\ ds[d].funcs[f] = es[d].funcs[f]
    /\ \A d \in 1 .. Len(es) :
         /\ d \in 1 .. Len(ds) /\ ds[d].dll = es[d].dll
         /\ \A f \in 1 .. Len(es[d].funcs) : f \in 1 .. Len(ds[d].funcs) /\ ds[d].funcs[f] = es[d].funcs[f]
    BY DEF MoreFuncs
<1>9. PICK m \in 1 .. Len(ds[c].funcs) :
    /\ m = Len(ds[c].funcs) /\ ds[c].dll = Dll[nm] /\ ds[c].funcs[m] = nm
    /\ \/ m = 1 /\ c = Len(ds) /\ Len(ds) = Len(es) + 1 /\ \A i \in 1 .. Len(es) : es[i].dll # Dll[nm]
       \/ m # 1 /\ Len(ds) = Len(es)
    /\ \A d \in 1 .. Len(ds) : \A f \in 1 .. Len(ds[d].funcs) :
         \/ d = c /\ f = m
         \/ d \in 1 .. Len(es) /\ f \in 1 .. Len(es[d].funcs) /\ ds[d].funcs[f] = es[d].funcs[f]
    /\ \A d \in 1 .. Len(es) :
         /\ d \in 1 .. Len(ds) /\ ds[d].dll = es[d].dll
         /\ \A f \in 1 .. Len(es[d].funcs) : f \in 1 .. Len(ds[d].funcs) /\ ds[d].funcs[f] = es[d].funcs[f]
    BY <1>8
<1>10. PICK k \in Nat : k = Len(es)
    BY <1>1
<1>11. PICK l \in Nat : l = Len(ds)
    OBVIOUS
<1>12. \A d \in 1 .. Len(ds) : Len(ds[d].funcs) \in Nat /\ \A f \in 1 .. Len(ds[d].funcs) : ds[d].funcs[f] \in DOMAIN Dll
    BY FuncsOf
<1>13. \A d \in 1 .. Len(es) : Len(es[d].funcs) \in Nat /\ \A f \in 1 .. Len(es[d].funcs) : es[d].funcs[f] \in DOMAIN Dll
    BY <1>1, FuncsOf
\* An old position holds an old name.
<1>14. \A d \in 1 .. l : \A f \in 1 .. Len(ds[d].funcs) :
         \/ d = c /\ f = m /\ ds[d].funcs[f] = nm /\ ew[ds[d].funcs[f]] = top
         \/ /\ d \in 1 .. k /\ f \in 1 .. Len(es[d].funcs) /\ ds[d].funcs[f] = es[d].funcs[f]
            /\ ds[d].funcs[f] # nm /\ ew[ds[d].funcs[f]] = ev[es[d].funcs[f]]
  <2> SUFFICES ASSUME NEW d \in 1 .. l, NEW f \in 1 .. Len(ds[d].funcs), ~ (d = c /\ f = m)
               PROVE  /\ d \in 1 .. k /\ f \in 1 .. Len(es[d].funcs) /\ ds[d].funcs[f] = es[d].funcs[f]
                      /\ ds[d].funcs[f] # nm /\ ew[ds[d].funcs[f]] = ev[es[d].funcs[f]]
      BY <1>6, <1>9
  <2>1. d \in 1 .. k /\ f \in 1 .. Len(es[d].funcs) /\ ds[d].funcs[f] = es[d].funcs[f]
      BY <1>9, <1>10, <1>11
  <2>2. ev[es[d].funcs[f]] # 0 /\ es[d].funcs[f] \in DOMAIN Dll
      BY <1>2, <1>10, <1>13, <2>1
  <2>3. es[d].funcs[f] # nm
      BY <2>2
  <2> QED BY <1>6, <2>1, <2>2, <2>3
<1>15. \A d \in 1 .. l : (d \in 1 .. k /\ ds[d].dll = es[d].dll) \/ (d = c /\ m = 1 /\ d = l /\ l = k + 1)
    BY <1>9, <1>10, <1>11
<1>16. \A d, e \in 1 .. l : ds[d].dll = ds[e].dll => d = e
  <2> SUFFICES ASSUME NEW d \in 1 .. l, NEW e \in 1 .. l, ds[d].dll = ds[e].dll PROVE d = e
      OBVIOUS
  <2>1. CASE m # 1
      BY <1>1, <1>10, <1>15, <2>1
  <2>2. CASE m = 1
    <3>1. l = k + 1 /\ c = l /\ \A i \in 1 .. k : es[i].dll # Dll[nm]
        BY <1>9, <1>10, <1>11, <2>2
    <3>2. ds[l].dll = Dll[nm]
        BY <1>9, <3>1
    <3> QED BY <1>1, <1>10, <1>15, <3>1, <3>2
  <2> QED BY <2>1, <2>2
<1>17. ASSUME NEW d \in 1 .. l PROVE Len(ds[d].funcs) # 0 /\ Len(ds[d].funcs) \in Nat /\ 1 \in 1 .. Len(ds[d].funcs)
  <2>1. Len(ds[d].funcs) \in Nat
      BY <1>11, <1>12
  <2>2. CASE d = c
    <3>1. m \in 1 .. Len(ds[d].funcs)
        BY <2>2
    <3> QED BY <2>1, <3>1
  <2>3. CASE d # c
    <3>1. d \in 1 .. k
        BY <1>15, <2>3
    <3>2. 1 \in 1 .. Len(es[d].funcs)
        BY <1>2, <1>10, <1>13, <3>1
    <3>3. 1 \in 1 .. Len(ds[d].funcs)
        BY <1>9, <1>10, <3>1, <3>2
    <3> QED BY <2>1, <3>3
  <2> QED BY <2>2, <2>3
<1>18. ASSUME NEW d \in 1 .. l, NEW f \in 1 .. Len(ds[d].funcs)
       PROVE  Dll[ds[d].funcs[f]] = ds[d].dll /\ ew[ds[d].funcs[f]] # 0
  <2>1. CASE d = c /\ f = m
      BY <1>6, <1>9, <2>1
  <2>2. CASE ~ (d = c /\ f = m)
    <3>1. /\ d \in 1 .. k /\ f \in 1 .. Len(es[d].funcs) /\ ds[d].funcs[f] = es[d].funcs[f]
          /\ ew[ds[d].funcs[f]] = ev[es[d].funcs[f]]
        BY <1>14, <2>2
    <3>2. Dll[es[d].funcs[f]] = es[d].dll /\ ev[es[d].funcs[f]] # 0
        BY <1>2, <1>10, <3>1
    <3>3. ds[d].dll = es[d].dll
        BY <1>9, <1>10, <3>1
    <3> QED BY <3>1, <3>2, <3>3
  <2> QED BY <2>1, <2>2
<1>19. ASSUME NEW d \in 1 .. l, NEW f \in 1 .. Len(ds[d].funcs), NEW g \in 1 .. Len(ds[d].funcs), f < g
       PROVE  ew[ds[d].funcs[f]] < ew[ds[d].funcs[g]]
  <2>1. ~ (d = c /\ f = m)
    <3> SUFFICES ASSUME d = c, f = m PROVE FALSE
        OBVIOUS
    <3>1. g \in 1 .. m
        BY <1>9
    <3> QED BY <1>19, <3>1
  <2>2. /\ d \in 1 .. k /\ f \in 1 .. Len(es[d].funcs) /\ ew[ds[d].funcs[f]] = ev[es[d].funcs[f]]
      BY <1>14, <2>1, ZenonT(30)
  <2>3. es[d].funcs[f] \in DOMAIN Dll
      BY <1>10, <1>13, <2>2
  <2>4. CASE d = c /\ g = m
    <3>1. ew[ds[d].funcs[g]] = top
        BY <1>6, <1>9, <2>4
    <3> QED BY <1>7, <2>2, <2>3, <3>1
  <2>5. CASE ~ (d = c /\ g = m)
    <3>1. g \in 1 .. Len(es[d].funcs) /\ ew[ds[d].funcs[g]] = ev[es[d].funcs[g]]
        BY <1>14, <2>5, ZenonT(30)
    <3> QED BY <1>2, <1>10, <1>19, <2>2, <3>1
  <2> QED BY <2>4, <2>5
<1>20. ASSUME NEW d \in 1 .. l, NEW e \in 1 .. l, d < e PROVE ew[ds[d].funcs[1]] < ew[ds[e].funcs[1]]
  <2>1. 1 \in 1 .. Len(ds[d].funcs) /\ 1 \in 1 .. Len(ds[e].funcs)
      BY <1>17
  <2>2. ~ (d = c /\ m = 1)
      BY <1>9, <1>11, <1>20
  <2>3. d \in 1 .. k /\ 1 \in 1 .. Len(es[d].funcs) /\ ew[ds[d].funcs[1]] = ev[es[d].funcs[1]]
      BY <1>14, <2>1, <2>2
  <2>4. es[d].funcs[1] \in DOMAIN Dll
      BY <1>10, <1>13, <2>3
  <2>5. CASE e = c /\ m = 1
    <3>1. ew[ds[e].funcs[1]] = top
        BY <1>6, <1>9, <2>5
    <3> QED BY <1>7, <2>3, <2>4, <3>1
  <2>6. CASE ~ (e = c /\ m = 1)
    <3>1. e \in 1 .. k /\ ew[ds[e].funcs[1]] = ev[es[e].funcs[1]]
        BY SMTT(30), <1>14, <2>1, <2>6
    <3> QED BY <1>2, <1>10, <1>20, <2>3, <3>1
  <2> QED BY <2>5, <2>6
<1>21. ASSUME NEW x \in DOMAIN Dll, ew[x] # 0
       PROVE  /\ \E d \in 1 .. l : \E f \in 1 .. Len(ds[d].funcs) : ds[d].funcs[f] = x
              /\ \E j \in 0 .. (n + 1) - 1 : ew[x] = base + 6 * j
  <2>1. CASE x = nm
    <3>1. n \in 0 .. (n + 1) - 1
        BY <1>1
    <3> QED BY <1>4, <1>6, <1>9, <1>11, <2>1, <3>1
  <2>2. CASE x # nm
    <3>1. ew[x] = ev[x]
        BY <1>6, <2>2
    <3>2. PICK d \in 1 .. k : \E f \in 1 .. Len(es[d].funcs) : es[d].funcs[f] = x
        BY <1>3, <1>10, <1>21, <3>1
    <3>3. PICK f \in 1 .. Len(es[d].funcs) : es[d].funcs[f] = x
        BY <3>2
    <3>4. d \in 1 .. l /\ f \in 1 .. Len(ds[d].funcs) /\ ds[d].funcs[f] = x
        BY <1>9, <1>10, <1>11, <3>3
    <3>5. PICK j \in 0 .. n - 1 : ev[x] = base + 6 * j
        BY <1>3, <1>21, <3>1
    <3>6. j \in 0 .. (n + 1) - 1
        BY <1>1
    <3> QED BY <3>1, <3>4, <3>5, <3>6
  <2> QED BY <2>1, <2>2
<1>22. ASSUME NEW x \in DOMAIN Dll, NEW y \in DOMAIN Dll, ew[x] # 0, ew[x] = ew[y] PROVE x = y
  <2>1. CASE x = nm
      BY <1>6, <1>7, <1>22, <2>1
  <2>2. CASE y = nm
      BY <1>6, <1>7, <1>22, <2>2
  <2>3. CASE x # nm /\ y # nm
      BY <1>1, <1>6, <1>22, <2>3
  <2> QED BY <2>1, <2>2, <2>3
<1>23. n + 1 \in Nat
    BY <1>1
<1>24. Numbered(ds, ew, base, n + 1)
    BY <1>1, <1>11, <1>16, <1>17, <1>18, <1>19, <1>20, <1>21, <1>22, <1>23 DEF Numbered
<1> QED BY <1>4, <1>5, <1>24

LEMMA SumMonotone ==
  ASSUME NEW f \in Seq(Nat), NEW a \in 0 .. Len(f), NEW b \in 0 .. Len(f), a <= b
  PROVE  SumUpTo(f, a) <= SumUpTo(f, b)
<1> DEFINE S == {k \in Nat : a + k <= Len(f) => SumUpTo(f, a) <= SumUpTo(f, a + k)}
<1>1. PICK n \in Nat : n = Len(f)
    OBVIOUS
<1>2. 0 \in S
  <2>1. SumUpTo(f, a) \in Nat /\ a + 0 = a
      BY SumIs
  <2> QED BY <2>1
<1>3. ASSUME NEW k \in Nat, k \in S PROVE k + 1 \in S
  <2> SUFFICES ASSUME a + (k + 1) <= n PROVE SumUpTo(f, a) <= SumUpTo(f, a + (k + 1))
      BY <1>1
  <2>1. a + k \in 0 .. n /\ (a + (k + 1)) - 1 = a + k /\ a + (k + 1) \in 1 .. n /\ a + (k + 1) \in 0 .. n
      BY <1>1
  <2>2. SumUpTo(f, a + (k + 1)) = SumUpTo(f, a + k) + f[a + (k + 1)]
      BY <1>1, <2>1, SumIs
  <2>3. SumUpTo(f, a) <= SumUpTo(f, a + k)
      BY <1>1, <1>3, <2>1
  <2>4. PICK x \in Nat : x = SumUpTo(f, a)
      BY SumIs
  <2>5. PICK y \in Nat : y = SumUpTo(f, a + k)
      BY <1>1, <2>1, SumIs
  <2>6. PICK z \in Nat : z = f[a + (k + 1)]
      BY <1>1, <2>1
  <2>7. x <= y + z
      BY <2>3, <2>4, <2>5
  <2> QED BY <2>2, <2>4, <2>5, <2>6, <2>7
<1>4. b - a \in Nat /\ a + (b - a) = b /\ b <= Len(f)
    BY <1>1
<1>5. b - a \in S
  <2> HIDE DEF S
  <2> QED BY <1>2, <1>3, <1>4, SetInduction
<1> QED BY <1>4, <1>5

\* What is further behind in the joined sequence is in a later part, or later in
\* the same part.
LEMMA PlacesOrdered ==
  ASSUME NEW T, NEW ss \in Seq(Seq(T)), NEW b \in 1 .. Len(ss), NEW k \in 1 .. Len(ss[b]),
         NEW c \in 1 .. Len(ss), NEW l \in 1 .. Len(ss[c]), Place(ss, b, k) < Place(ss, c, l)
  PROVE  b < c \/ (b = c /\ k < l)
<1>1. PICK n \in Nat : n = Len(ss) /\ b \in 1 .. n /\ c \in 1 .. n
    OBVIOUS
<1>2. PICK f \in Seq(Nat) : f = Lens(ss) /\ Len(f) = n /\ \A i \in 1 .. n : f[i] = Len(ss[i]) /\ Len(ss[i]) \in Nat
    BY <1>1, LensAre
<1>10. b - 1 \in 0 .. Len(f) /\ c - 1 \in 0 .. Len(f)
    BY <1>1, <1>2
<1>3. PICK x \in Nat : x = SumUpTo(f, b - 1)
    BY <1>10, SumIs
<1>4. PICK y \in Nat : y = SumUpTo(f, c - 1)
    BY <1>10, SumIs
<1>5. x + k < y + l
    BY <1>2, <1>3, <1>4 DEF Place
<1>6. PICK p \in Nat : p = Len(ss[c]) /\ l \in 1 .. p
    BY <1>1, <1>2
<1>9. k \in Nat /\ k >= 1
  <2>1. Len(ss[b]) \in Nat
      BY <1>1, <1>2
  <2> QED BY <2>1
<1>7. CASE c < b
  <2>1. SumUpTo(f, c) = y + p
      BY <1>1, <1>2, <1>4, <1>6, SumIs
  <2>2. SumUpTo(f, c) <= SumUpTo(f, b - 1)
    <3>1. c \in 0 .. Len(f) /\ b - 1 \in 0 .. Len(f) /\ c <= b - 1
        BY <1>1, <1>2, <1>7
    <3> QED BY <3>1, SumMonotone
  <2>3. y + p <= x
      BY <1>3, <2>1, <2>2
  <2> QED BY <1>5, <1>6, <1>9, <2>3
<1>8. CASE b = c
  <2>1. x = y
      BY <1>3, <1>4, <1>8
  <2> QED BY <1>5, <1>6, <1>8, <1>9, <2>1
<1> QED BY <1>1, <1>7, <1>8

\* n growing numbers below n are all of them.
LEMMA Consecutive ==
  ASSUME NEW n \in Nat, NEW J \in [1 .. n -> 0 .. n - 1], \A i, j \in 1 .. n : i < j => J[i] < J[j]
  PROVE  \A i \in 1 .. n : J[i] = i - 1
<1>1. \A i \in 1 .. n : J[i] \in 0 .. n - 1
    OBVIOUS
<1>2. \A i \in 1 .. n : J[i] >= i - 1
  <2> DEFINE S == {k \in Nat : k + 1 \in 1 .. n => J[k + 1] >= k}
  <2>1. 0 \in S
      BY <1>1
  <2>2. ASSUME NEW k \in Nat, k \in S PROVE k + 1 \in S
    <3> SUFFICES ASSUME (k + 1) + 1 \in 1 .. n PROVE J[(k + 1) + 1] >= k + 1
        OBVIOUS
    <3>1. k + 1 \in 1 .. n /\ k + 1 < (k + 1) + 1
        OBVIOUS
    <3>2. J[k + 1] >= k /\ J[k + 1] < J[(k + 1) + 1]
        BY <2>2, <3>1
    <3> QED BY <1>1, <3>1, <3>2
  <2>3. Nat \subseteq S
    <3> HIDE DEF S
    <3> QED BY <2>1, <2>2, SetInduction
  <2>4. \A i \in 1 .. n : i - 1 \in Nat /\ (i - 1) + 1 = i
      OBVIOUS
  <2> QED BY <2>3, <2>4
<1>3. \A i \in 1 .. n : J[i] <= i - 1
  <2> DEFINE S == {k \in Nat : n - k \in 1 .. n => J[n - k] <= (n - k) - 1}
  <2>1. 0 \in S
      BY <1>1
  <2>2. ASSUME NEW k \in Nat, k \in S PROVE k + 1 \in S
    <3> SUFFICES ASSUME n - (k + 1) \in 1 .. n PROVE J[n - (k + 1)] <= (n - (k + 1)) - 1
        OBVIOUS
    <3>1. n - k \in 1 .. n /\ n - (k + 1) < n - k
        OBVIOUS
    <3>2. J[n - k] <= (n - k) - 1 /\ J[n - (k + 1)] < J[n - k]
        BY <2>2, <3>1
    <3>3. PICK u \in Nat : u = J[n - k]
        BY <1>1, <3>1
    <3>4. PICK v \in Nat : v = J[n - (k + 1)]
        BY <1>1
    <3>5. v <= (n - (k + 1)) - 1
        BY <3>2, <3>3, <3>4
    <3> QED BY <3>4, <3>5
  <2>3. Nat \subseteq S
    <3> HIDE DEF S
    <3> QED BY <2>1, <2>2, SetInduction
  <2>4. \A i \in 1 .. n : n - i \in Nat /\ n - (n - i) = i
      OBVIOUS
  <2> QED BY <2>3, <2>4
<1>4. ASSUME NEW i \in 1 .. n PROVE J[i] = i - 1
  <2>1. PICK j \in Nat : j = J[i]
      BY <1>1
  <2>2. j >= i - 1 /\ j <= i - 1
      BY <1>2, <1>3, <2>1
  <2> QED BY <2>1, <2>2
<1> QED BY <1>4

\* Where the names of .plt are from.
InImports(i, d, f) ==
  /\ d \in 1 .. Len(imports) /\ f \in 1 .. Len(imports[d].funcs)
  /\ Imported[i] = [d |-> d, name |-> imports[d].funcs[f]]
  /\ i = Place(ImportedRows, d, f)

LEMMA ImportedAt ==
  ASSUME imports \in Seq(Entries)
  PROVE  /\ Imported \in Seq(Items)
         /\ \A i \in 1 .. Len(Imported) : \E d, f : InImports(i, d, f)
         /\ \A d \in 1 .. Len(imports) : \A f \in 1 .. Len(imports[d].funcs) :
              \E i \in 1 .. Len(Imported) : InImports(i, d, f)
<1>1. PICK ss \in Seq(Seq(Items)) : ss = ImportedRows /\ Imported = FlattenSeq(ss) /\ Len(ss) = Len(imports)
    BY ImportedRowsAre
<1>2. \A d \in 1 .. Len(imports) :
        /\ Len(ss[d]) = Len(imports[d].funcs)
        /\ \A f \in 1 .. Len(imports[d].funcs) : ss[d][f] = [d |-> d, name |-> imports[d].funcs[f]]
    BY <1>1, ImportedRowsAre
<1>3. PICK w \in [Items -> Nat] : w = [x \in Items |-> 0]
  <2>1. [x \in Items |-> 0] \in [Items -> Nat]
      OBVIOUS
  <2> QED BY <2>1
<1>4. Flat(w, ss)
    BY FlattenAt
<1>5. \A b \in 1 .. Len(ss) : \A k \in 1 .. Len(ss[b]) :
        Place(ss, b, k) \in 1 .. Len(Imported) /\ Imported[Place(ss, b, k)] = ss[b][k]
    BY <1>1, <1>4 DEF Flat
<1>6. ASSUME NEW d \in 1 .. Len(imports), NEW f \in 1 .. Len(imports[d].funcs)
      PROVE  Place(ss, d, f) \in 1 .. Len(Imported) /\ InImports(Place(ss, d, f), d, f)
  <2>1. d \in 1 .. Len(ss) /\ f \in 1 .. Len(ss[d]) /\ ss[d][f] = [d |-> d, name |-> imports[d].funcs[f]]
      BY <1>1, <1>2
  <2>2. Place(ss, d, f) \in 1 .. Len(Imported) /\ Imported[Place(ss, d, f)] = ss[d][f]
      BY <1>5, <2>1
  <2>3. Place(ss, d, f) = Place(ImportedRows, d, f)
      BY <1>1
  <2> QED BY <2>1, <2>2, <2>3 DEF InImports
<1>7. ASSUME NEW i \in 1 .. Len(Imported) PROVE \E d, f : InImports(i, d, f)
  <2>1. PICK d \in 1 .. Len(ss) : \E f \in 1 .. Len(ss[d]) : i = Place(ss, d, f)
      BY <1>1, FlattenFrom
  <2>2. PICK f \in 1 .. Len(ss[d]) : i = Place(ss, d, f)
      BY <2>1
  <2>3. d \in 1 .. Len(imports) /\ f \in 1 .. Len(imports[d].funcs)
      BY <1>1, <1>2
  <2> QED BY <1>6, <2>2, <2>3
<1>8. Imported \in Seq(Items)
    BY ImportedLen
<1> QED BY <1>6, <1>7, <1>8

\* Imports referred to DLL by DLL are written in the order of their numbers.
LEMMA ImportedInOrder ==
  ASSUME NEW base, NEW n, Numbered(imports, ever, base, n), Len(Imported) = n, Grouped
  PROVE  /\ \A i \in 1 .. n : /\ Imported[i].d \in 1 .. Len(imports) /\ Imported[i].name \in DOMAIN Dll
                              /\ imports[Imported[i].d].dll = Dll[Imported[i].name]
                              /\ ever[Imported[i].name] = base + 6 * (i - 1)
         /\ \A i, j \in 1 .. n : i < j => Imported[i].d <= Imported[j].d
         /\ \A x \in DOMAIN Dll : ever[x] # 0 => \E i \in 1 .. n : Imported[i].name = x
<1>1. /\ imports \in Seq(Entries) /\ ever \in [DOMAIN Dll -> Nat] /\ base \in Nat \ {0} /\ n \in Nat
      /\ \A d, e \in 1 .. Len(imports) : imports[d].dll = imports[e].dll => d = e
      /\ \A x, y \in DOMAIN Dll : (ever[x] # 0 /\ ever[x] = ever[y]) => x = y
    BY DEF Numbered
<1>2. \A d \in 1 .. Len(imports) :
       /\ Len(imports[d].funcs) # 0
       /\ \A f \in 1 .. Len(imports[d].funcs) : Dll[imports[d].funcs[f]] = imports[d].dll /\ ever[imports[d].funcs[f]] # 0
       /\ \A f, g \in 1 .. Len(imports[d].funcs) : f < g => ever[imports[d].funcs[f]] < ever[imports[d].funcs[g]]
       /\ \A e \in 1 .. Len(imports) : d < e => ever[imports[d].funcs[1]] < ever[imports[e].funcs[1]]
    BY DEF Numbered
<1>3. \A x \in DOMAIN Dll : ever[x] # 0 =>
       /\ \E d \in 1 .. Len(imports) : \E f \in 1 .. Len(imports[d].funcs) : imports[d].funcs[f] = x
       /\ \E j \in 0 .. n - 1 : ever[x] = base + 6 * j
    BY DEF Numbered
<1>4. \A d \in 1 .. Len(imports) :
        /\ Len(imports[d].funcs) \in Nat
        /\ \A f \in 1 .. Len(imports[d].funcs) : imports[d].funcs[f] \in DOMAIN Dll
    BY <1>1, FuncsOf
<1>5. \A d \in 1 .. Len(imports) : 1 \in 1 .. Len(imports[d].funcs)
    BY <1>2, <1>4
\* A DLL's imports are in front of the next one's.
<1>6. ASSUME NEW d \in 1 .. Len(imports), NEW f \in 1 .. Len(imports[d].funcs),
             NEW e \in 1 .. Len(imports), NEW g \in 1 .. Len(imports[e].funcs), d < e
      PROVE  ever[imports[d].funcs[f]] < ever[imports[e].funcs[g]]
  <2>1. PICK x \in DOMAIN Dll : x = imports[d].funcs[1]
      BY <1>4, <1>5
  <2>2. PICK y \in DOMAIN Dll : y = imports[e].funcs[1]
      BY <1>4, <1>5
  <2>3. PICK z \in DOMAIN Dll : z = imports[d].funcs[f]
      BY <1>4
  <2>4. PICK t \in DOMAIN Dll : t = imports[e].funcs[g]
      BY <1>4
  <2>5. ever[x] \in Nat \ {0} /\ ever[y] \in Nat \ {0} /\ ever[z] \in Nat \ {0} /\ ever[t] \in Nat \ {0}
    <3>1. ever[x] # 0 /\ ever[y] # 0 /\ ever[z] # 0 /\ ever[t] # 0
        BY <1>2, <1>5, <2>1, <2>2, <2>3, <2>4
    <3> QED BY <1>1, <3>1
  <2>6. ever[x] < ever[y]
      BY <1>2, <1>6, <2>1, <2>2
  <2>7. ever[y] <= ever[t]
    <3>1. CASE g = 1
        BY <1>1, <2>2, <2>4, <3>1
    <3>2. CASE g # 1
      <4>1. 1 < g
          BY <1>4, <3>2
      <4>2. ever[y] < ever[t]
          BY <1>2, <1>5, <2>2, <2>4, <4>1
      <4> QED BY <2>5, <4>2
    <3> QED BY <3>1, <3>2
  <2>8. Dll[x] = imports[d].dll /\ Dll[z] = imports[d].dll /\ Dll[y] = imports[e].dll /\ Dll[t] = imports[e].dll
      BY <1>2, <1>5, <2>1, <2>2, <2>3, <2>4
  <2>9. imports[d].dll # imports[e].dll
    <3>1. d # e
        BY <1>6
    <3> QED BY <1>1, <3>1
  <2>10. ~ (ever[y] < ever[z])
      BY <2>5, <2>6, <2>8, <2>9 DEF Grouped
  <2>11. ever[z] # ever[t]
      BY <1>1, <2>5, <2>8, <2>9
  <2>12. PICK p \in Nat : p = ever[y]
      BY <2>5
  <2>13. PICK q \in Nat : q = ever[z]
      BY <2>5
  <2>14. PICK s \in Nat : s = ever[t]
      BY <2>5
  <2>15. q < s
      BY SMTT(30), <2>7, <2>10, <2>11, <2>12, <2>13, <2>14
  <2> QED BY <2>3, <2>4, <2>13, <2>14, <2>15
<1>7. PICK r \in Seq(Seq(Items)) : r = ImportedRows /\ Len(r) = Len(imports)
                                   /\ \A d \in 1 .. Len(imports) : Len(r[d]) = Len(imports[d].funcs)
    BY <1>1, ImportedRowsAre
<1>8. ASSUME NEW i \in 1 .. n, NEW j \in 1 .. n, i < j
      PROVE  Imported[i].d <= Imported[j].d /\ ever[Imported[i].name] < ever[Imported[j].name]
  <2>1. PICK d, f : InImports(i, d, f)
      BY <1>1, ImportedAt
  <2>2. PICK e, g : InImports(j, e, g)
      BY <1>1, ImportedAt
  <2>3. /\ d \in 1 .. Len(imports) /\ f \in 1 .. Len(imports[d].funcs) /\ e \in 1 .. Len(imports) /\ g \in 1 .. Len(imports[e].funcs)
        /\ Imported[i].d = d /\ Imported[i].name = imports[d].funcs[f]
        /\ Imported[j].d = e /\ Imported[j].name = imports[e].funcs[g]
        /\ i = Place(r, d, f) /\ j = Place(r, e, g)
      BY <1>7, <2>1, <2>2 DEF InImports
  <2>4. d < e \/ (d = e /\ f < g)
    <3>1. d \in 1 .. Len(r) /\ e \in 1 .. Len(r) /\ f \in 1 .. Len(r[d]) /\ g \in 1 .. Len(r[e])
        BY <1>7, <2>3
    <3>2. Place(r, d, f) < Place(r, e, g)
        BY <1>8, <2>3
    <3> QED BY <3>1, <3>2, PlacesOrdered
  <2>5. d <= e
      BY <2>3, <2>4
  <2>6. ever[imports[d].funcs[f]] < ever[imports[e].funcs[g]]
      BY <1>2, <1>6, <2>3, <2>4
  <2> QED BY <2>3, <2>5, <2>6
<1>9. ASSUME NEW i \in 1 .. n
      PROVE  /\ Imported[i].d \in 1 .. Len(imports) /\ Imported[i].name \in DOMAIN Dll
             /\ imports[Imported[i].d].dll = Dll[Imported[i].name]
             /\ ever[Imported[i].name] # 0
  <2>1. PICK d, f : InImports(i, d, f)
      BY <1>1, ImportedAt
  <2>2. /\ d \in 1 .. Len(imports) /\ f \in 1 .. Len(imports[d].funcs)
        /\ Imported[i].d = d /\ Imported[i].name = imports[d].funcs[f]
      BY <2>1 DEF InImports
  <2> QED BY <1>2, <1>4, <2>2
<1>10. \A i \in 1 .. n : \E j \in 0 .. n - 1 : ever[Imported[i].name] = base + 6 * j
    BY <1>3, <1>9
<1> DEFINE J == [i \in 1 .. n |-> CHOOSE j \in 0 .. n - 1 : ever[Imported[i].name] = base + 6 * j]
<1>11. \A i \in 1 .. n : J[i] \in 0 .. n - 1 /\ ever[Imported[i].name] = base + 6 * J[i]
    BY <1>10
<1>12. J \in [1 .. n -> 0 .. n - 1]
    BY <1>11
<1> HIDE DEF J
<1>13. ASSUME NEW i \in 1 .. n, NEW j \in 1 .. n, i < j PROVE J[i] < J[j]
  <2>1. PICK u \in Nat : u = J[i]
      BY <1>11
  <2>2. PICK v \in Nat : v = J[j]
      BY <1>11
  <2>3. base + 6 * u < base + 6 * v
      BY <1>8, <1>11, <1>13, <2>1, <2>2
  <2>4. u < v
      BY <1>1, <2>3
  <2> QED BY <2>1, <2>2, <2>4
<1>14. \A i \in 1 .. n : J[i] = i - 1
    BY <1>1, <1>12, <1>13, Consecutive
<1>15. \A i \in 1 .. n : ever[Imported[i].name] = base + 6 * (i - 1)
    BY <1>11, <1>14
<1>16. ASSUME NEW x \in DOMAIN Dll, ever[x] # 0 PROVE \E i \in 1 .. n : Imported[i].name = x
  <2>1. PICK d \in 1 .. Len(imports) : \E f \in 1 .. Len(imports[d].funcs) : imports[d].funcs[f] = x
      BY <1>3, <1>16
  <2>2. PICK f \in 1 .. Len(imports[d].funcs) : imports[d].funcs[f] = x
      BY <2>1
  <2>3. PICK i \in 1 .. n : InImports(i, d, f)
      BY <1>1, ImportedAt
  <2> QED BY <2>2, <2>3 DEF InImports
<1> QED BY <1>8, <1>9, <1>15, <1>16

----------------------------------------------------------------------------
(* Stubs and slots                                                         *)

Linking == Exporting \ {"export"}
Reached(x) ==
  /\ ever[x] \in DOMAIN stubs
  /\ stubs[ever[x]] \in directory[Dll[x]] /\ iat[stubs[ever[x]]] = x

\* Imports are numbered from the end of the sections on, none of them is found
\* among the exports, and all of them get their slots.
NumInv ==
  /\ phase = "export" => plt = offset
  /\ phase \notin Linking => ever = [n \in DOMAIN Dll |-> 0]
  /\ phase \in Linking => \A x \in DOMAIN Dll : ever[x] # 0 => sysv_lookup(x) = 0
  /\ phase \in Linking =>
       \A d \in 1 .. Len(imports) : \A f \in 1 .. Len(imports[d].funcs) :
         imports[d].funcs[f] \in DOMAIN Dll /\ ever[imports[d].funcs[f]] # 0
  /\ phase \in {"reloc", "import"} =>
       /\ Numbered(imports, ever, offset, Total(Counts(imports)))
       /\ plt = offset + 6 * Total(Counts(imports))
  /\ (phase \in Late /\ Grouped) => \A x \in DOMAIN Dll : ever[x] # 0 => Reached(x)

LEMMA OffsetIs ==
  ASSUME BoxInv, AddrInv, phase \in {"export", "reloc", "import"}
  PROVE  offset \in Nat \ {0} /\ plt \in Nat \ {0}
<1>1. phase \in Placing \ Late /\ phase # "addresses"
    BY DEF Placing, Late
<1>2. offset = Base + Before(Len(Laid))
    BY <1>1 DEF AddrInv, Upto
<1>3. PICK x \in Nat : x = Before(Len(Laid))
  <2>1. Len(Laid) \in Nat
      BY ChainsAre
  <2>2. Len(Laid) \in 0 .. Len(Laid)
      BY <2>1
  <2> QED BY <2>2, RoomsAre
<1>4. offset \in Nat \ {0}
    BY <1>2, <1>3 DEF Base
<1>5. PICK d \in Nat : plt = offset + d
    BY DEF AddrInv
<1> QED BY <1>4, <1>5

LEMMA NoneCounted == Counts(<<>>) = <<>> /\ Total(Counts(<<>>)) = 0
<1>1. PICK z : z = <<>>
    OBVIOUS
<1>2. z \in Seq(Entries) /\ Len(z) = 0
    BY <1>1
<1>3. Counts(z) \in Seq(Nat) /\ Len(Counts(z)) = 0
    BY <1>2, RoomsOfEntries
<1>4. SumUpTo(Counts(z), 0) = 0
    BY <1>3, SumIs
<1>5. Counts(z) = <<>>
    BY <1>3
<1> QED BY <1>1, <1>3, <1>4, <1>5 DEF Total

LEMMA NumberedFirst ==
  ASSUME NEW base \in Nat \ {0}
  PROVE  Numbered(<<>>, [n \in DOMAIN Dll |-> 0], base, 0)
<1>1. PICK es \in Seq(Entries) : es = <<>> /\ Len(es) = 0
  <2>1. <<>> \in Seq(Entries) /\ Len(<<>>) = 0
      OBVIOUS
  <2> QED BY <2>1
<1>2. PICK ev \in [DOMAIN Dll -> Nat] : ev = [n \in DOMAIN Dll |-> 0]
  <2>1. [n \in DOMAIN Dll |-> 0] \in [DOMAIN Dll -> Nat]
      OBVIOUS
  <2> QED BY <2>1
<1>3. \A x \in DOMAIN Dll : ev[x] = 0
    BY <1>2
<1>4. 1 .. Len(es) = {}
    BY <1>1
<1>5. Numbered(es, ev, base, 0)
    BY <1>3, <1>4 DEF Numbered
<1> QED BY <1>1, <1>2, <1>5

LEMMA SlotsDiffer ==
  ASSUME imports \in Seq(Entries), plt \in Nat, NEW n \in Nat,
         \A i \in 1 .. n : Imported[i].d \in 1 .. Len(imports),
         \A i, j \in 1 .. n : i < j => Imported[i].d <= Imported[j].d
  PROVE  \A i, j \in 1 .. n : Slot(i) = Slot(j) => i = j
<1>1. PICK l \in Nat : l = Len(imports)
    OBVIOUS
<1>2. PICK b \in Nat : b = plt + 20 * (l + 1)
  <2>1. plt + 20 * (l + 1) \in Nat
      OBVIOUS
  <2> QED BY <2>1
<1>3. ASSUME NEW i \in 1 .. n, NEW j \in 1 .. n, i < j PROVE Slot(i) # Slot(j)
  <2>1. PICK c \in Nat : c = Imported[i].d
      BY <1>1
  <2>2. PICK d \in Nat : d = Imported[j].d
      BY <1>1
  <2>3. c <= d
      BY <1>3, <2>1, <2>2
  <2>4. Slot(i) = b + 8 * ((i - 1) + (c - 1)) /\ Slot(j) = b + 8 * ((j - 1) + (d - 1))
      BY <1>1, <1>2, <2>1, <2>2 DEF Slot, Descriptor
  <2>5. b + 8 * ((i - 1) + (c - 1)) # b + 8 * ((j - 1) + (d - 1))
      BY <1>3, <2>3
  <2> QED BY <2>4, <2>5
<1> QED BY <1>3

LEMMA StepSlots ==
  ASSUME BoxInv, AddrInv, ImportInv, NumInv, add_import, Grouped, NEW x \in DOMAIN Dll, ever[x] # 0
  PROVE  Reached(x)'
<1>1. /\ phase = "import" /\ ever' = ever
      /\ stubs' = [a \in {offset + 6 * (n - 1) : n \in DOMAIN Imported} |-> Slot((a - offset) \div 6 + 1)]
      /\ iat' = [a \in {Slot(n) : n \in DOMAIN Imported} |->
                   Imported[CHOOSE n \in DOMAIN Imported : Slot(n) = a].name]
      /\ directory' = [d \in {imports[i].dll : i \in DOMAIN imports} |->
                         {Slot(n) : n \in {m \in DOMAIN Imported : imports[Imported[m].d].dll = d}}]
    BY DEF add_import, importVars
<1>2. imports \in Seq(Entries)
    BY DEF ImportInv
<1>3. PICK n \in Nat : n = Len(Imported) /\ n = Total(Counts(imports)) /\ DOMAIN Imported = 1 .. n
    BY <1>2, ImportedLen
<1>4. Numbered(imports, ever, offset, n)
    BY <1>1, <1>3 DEF NumInv
<1>5. \A i \in 1 .. n : /\ Imported[i].d \in 1 .. Len(imports) /\ Imported[i].name \in DOMAIN Dll
                        /\ imports[Imported[i].d].dll = Dll[Imported[i].name]
                        /\ ever[Imported[i].name] = offset + 6 * (i - 1)
    BY <1>3, <1>4, ImportedInOrder
<1>6. \A i, j \in 1 .. n : i < j => Imported[i].d <= Imported[j].d
    BY <1>3, <1>4, ImportedInOrder
<1>7. PICK i \in 1 .. n : Imported[i].name = x
    BY <1>3, <1>4, ImportedInOrder
<1>8. PICK o \in Nat : o = offset
    BY <1>1, OffsetIs
<1>9. ever[x] = o + 6 * (i - 1)
    BY <1>5, <1>7, <1>8
<1>10. stubs'[ever[x]] = Slot(i) /\ ever[x] \in DOMAIN stubs'
  <2>1. ever[x] \in {offset + 6 * (k - 1) : k \in DOMAIN Imported}
      BY <1>3, <1>8, <1>9
  <2>2. ((o + 6 * (i - 1)) - o) \div 6 + 1 = i
      OBVIOUS
  <2>3. (ever[x] - offset) \div 6 + 1 = i
      BY <1>8, <1>9, <2>2
  <2> QED BY <1>1, <2>1, <2>3
<1>11. Slot(i) \in directory'[Dll[x]]
  <2>1. imports[Imported[i].d].dll = Dll[x] /\ Imported[i].d \in 1 .. Len(imports)
      BY <1>5, <1>7
  <2>2. Dll[x] \in {imports[k].dll : k \in DOMAIN imports}
      BY <1>2, <2>1
  <2>3. directory'[Dll[x]] = {Slot(k) : k \in {m \in DOMAIN Imported : imports[Imported[m].d].dll = Dll[x]}}
      BY <1>1, <2>2
  <2> QED BY <1>3, <2>1, <2>3
<1>12. iat'[Slot(i)] = x
  <2>1. \A k \in 1 .. n : Slot(k) = Slot(i) => k = i
    <3>1. \A k \in 1 .. n : Imported[k].d \in 1 .. Len(imports)
        BY <1>5
    <3>2. plt \in Nat
        BY <1>1, OffsetIs
    <3>3. \A k, j \in 1 .. n : Slot(k) = Slot(j) => k = j
        BY <1>2, <1>6, <3>1, <3>2, SlotsDiffer
    <3> QED BY <3>3
  <2>2. PICK s : s = Slot(i)
      OBVIOUS
  <2>3. (CHOOSE k \in DOMAIN Imported : Slot(k) = s) = i
      BY <1>3, <2>1, <2>2
  <2>4. s \in {Slot(k) : k \in DOMAIN Imported}
      BY <1>3, <2>2
  <2>5. iat'[s] = Imported[i].name
      BY <1>1, <2>3, <2>4
  <2> QED BY <1>7, <2>2, <2>5
<1> QED BY <1>1, <1>10, <1>11, <1>12 DEF Reached

LEMMA LookupKept ==
  ASSUME UNCHANGED <<names, functions, bucket, chain>>
  PROVE  \A x : sysv_lookup(x)' = sysv_lookup(x)
BY DEF sysv_lookup, Linked

LEMMA StepNumber ==
  ASSUME BoxInv, AddrInv, ImportInv, ImportInv', NumInv, resolve_new_import
  PROVE  NumInv'
<1>1. PICK nm : nm = GET_NAME(Referred(Site))
    OBVIOUS
<1>2. /\ phase = "reloc" /\ phase' = "reloc" /\ UNCHANGED <<offset, exportVars>>
      /\ nm \in DOMAIN Dll /\ sysv_lookup(nm) = 0 /\ ever[nm] = 0
      /\ ever' = [ever EXCEPT ![nm] = plt] /\ plt' = plt + 6
      /\ add_dynamic_resolved_entry(nm, Dll[nm])
    BY <1>1 DEF resolve_new_import, Resolving, Importable, NextReloc
<1>3. PICK es \in Seq(Entries) : es = imports
    BY DEF ImportInv
<1>4. PICK n \in Nat : n = Total(Counts(es))
    BY RoomsOfEntries, TotalIsNat
<1>5. PICK o \in Nat \ {0} : o = offset
    BY <1>2, OffsetIs
<1>6. PICK ev \in [DOMAIN Dll -> Nat] : ev = ever /\ Numbered(es, ev, o, n)
  <2>1. Numbered(imports, ever, offset, Total(Counts(imports)))
      BY <1>2 DEF NumInv
  <2>2. Numbered(es, ever, o, n)
      BY <1>3, <1>4, <1>5, <2>1
  <2>3. ever \in [DOMAIN Dll -> Nat]
      BY <2>2 DEF Numbered
  <2> QED BY <2>2, <2>3
<1>7. plt = o + 6 * n /\ ev[nm] = 0
    BY <1>2, <1>3, <1>4, <1>5, <1>6 DEF NumInv
<1>8. \A d \in 1 .. Len(es) : Len(es[d].funcs) # 0
    BY <1>6 DEF Numbered
<1>9. PICK ds \in Seq(Entries) : ds = imports' /\ MoreFuncs(es, ds, nm) /\ Total(Counts(ds)) = n + 1
  <2>1. CASE /\ \A i \in 1 .. Len(es) : es[i].dll # Dll[nm]
             /\ imports' = Append(es, [dll |-> Dll[nm], funcs |-> <<nm>>])
    <3>1. MoreFuncs(es, Append(es, [dll |-> Dll[nm], funcs |-> <<nm>>]), nm)
        BY <1>2, <1>8, <2>1, MoreOfNewDll
    <3>2. imports' \in Seq(Entries) /\ Total(Counts(imports')) = n + 1
        BY <1>2, <1>4, <2>1, EntryAdded
    <3> QED BY <2>1, <3>1, <3>2
  <2>2. CASE \E c \in 1 .. Len(es) :
               /\ es[c].dll = Dll[nm]
               /\ imports' = [es EXCEPT ![c].funcs = Append(@, nm)]
    <3>1. PICK c \in 1 .. Len(es) : es[c].dll = Dll[nm] /\ imports' = WithFunc(es, c, nm)
        BY <2>2 DEF WithFunc
    <3>2. MoreFuncs(es, WithFunc(es, c, nm), nm)
        BY <1>2, <1>8, <3>1, MoreOfKnownDll
    <3>3. WithFunc(es, c, nm) \in Seq(Entries) /\ Total(Counts(WithFunc(es, c, nm))) = n + 1
        BY <1>2, <1>4, FuncAdded
    <3> QED BY <3>1, <3>2, <3>3
  <2> QED BY <1>2, <1>3, <2>1, <2>2, NewEntryIs
<1>10. Numbered(ds, [ev EXCEPT ![nm] = o + 6 * n], o, n + 1)
    BY <1>2, <1>6, <1>7, <1>9, NumberedMore
<1>11. ever' = [ev EXCEPT ![nm] = o + 6 * n]
    BY <1>2, <1>6, <1>7
<1>12. Numbered(imports', ever', offset', n + 1)
    BY <1>2, <1>5, <1>9, <1>10, <1>11
<1>13. Total(Counts(imports))' = n + 1
    BY <1>9
<1>14. plt' = offset' + 6 * (n + 1)
  <2>1. plt' = (o + 6 * n) + 6
      BY <1>2, <1>7
  <2>2. (o + 6 * n) + 6 = o + 6 * (n + 1)
      OBVIOUS
  <2> QED BY <1>2, <1>5, <2>1, <2>2
<1>15. ASSUME NEW x \in DOMAIN Dll, ever'[x] # 0 PROVE sysv_lookup(x)' = 0
  <2>1. sysv_lookup(x)' = sysv_lookup(x)
      BY <1>2, LookupKept DEF exportVars
  <2>2. CASE x = nm
      BY <1>2, <2>1, <2>2
  <2>3. CASE x # nm
    <3>1. ever[x] # 0
        BY <1>2, <1>6, <1>15, <2>3
    <3> QED BY <1>2, <2>1, <3>1 DEF NumInv, Linking, Exporting
  <2> QED BY <2>2, <2>3
<1>16. \A d \in 1 .. Len(imports') : \A f \in 1 .. Len(imports'[d].funcs) :
         imports'[d].funcs[f] \in DOMAIN Dll /\ ever'[imports'[d].funcs[f]] # 0
  <2>1. \A d \in 1 .. Len(ds) : \A f \in 1 .. Len(ds[d].funcs) : ds[d].funcs[f] \in DOMAIN Dll
      BY FuncsOf
  <2> QED BY <1>9, <1>12, <2>1 DEF Numbered
<1>17. phase' # "export" /\ phase' \in Linking /\ phase' \notin Late
    BY <1>2 DEF Linking, Exporting, Late
<1> QED BY <1>12, <1>13, <1>14, <1>15, <1>16, <1>17 DEF NumInv

LEMMA NumKept ==
  ASSUME NumInv, UNCHANGED <<imports, ever, offset, plt, names, functions, bucket, chain, stubs, iat, directory>>,
         phase' = "export" => phase = "export",
         phase' \in Linking <=> phase \in Linking,
         phase' \in {"reloc", "import"} => phase \in {"reloc", "import"},
         phase' \in Late => phase \in Late
  PROVE  NumInv'
<1>1. \A x : sysv_lookup(x)' = sysv_lookup(x)
    BY LookupKept
<1>2. Grouped' = Grouped /\ \A x : Reached(x)' = Reached(x)
    BY DEF Grouped, Reached
<1>3. Counts(imports)' = Counts(imports) /\ Total(Counts(imports))' = Total(Counts(imports))
    BY DEF Counts
<1>4. phase' \in {"reloc", "import"} =>
       /\ Numbered(imports, ever, offset, Total(Counts(imports)))'
       /\ plt' = offset' + 6 * Total(Counts(imports))'
    BY <1>3 DEF NumInv
<1>5. (phase' \in Late /\ Grouped') => \A x \in DOMAIN Dll : ever'[x] # 0 => Reached(x)'
    BY <1>2 DEF NumInv
<1>6. phase' \in Linking => \A x \in DOMAIN Dll : ever'[x] # 0 => sysv_lookup(x)' = 0
    BY <1>1 DEF NumInv
<1>7. phase' \in Linking =>
       \A d \in 1 .. Len(imports') : \A f \in 1 .. Len(imports'[d].funcs) :
         imports'[d].funcs[f] \in DOMAIN Dll /\ ever'[imports'[d].funcs[f]] # 0
    BY DEF NumInv
<1>8. /\ phase' = "export" => plt' = offset'
      /\ phase' \notin Linking => ever' = [n \in DOMAIN Dll |-> 0]
    BY DEF NumInv
<1> QED BY <1>4, <1>5, <1>6, <1>7, <1>8 DEF NumInv

LEMMA NumStep ==
  ASSUME BoxInv, AddrInv, ImportInv, ImportInv', NumInv, [Next]_vars
  PROVE  NumInv'
<1>1. CASE resolve_new_import
    BY <1>1, StepNumber
<1>2. CASE resolve /\ ~ resolve_new_import
  <2>1. UNCHANGED <<phase, importVars, plt, offset, exportVars, tableVars>>
      BY <1>2, ResolveIs
  <2> QED BY <2>1, NumKept DEF importVars, exportVars, tableVars
<1>3. CASE section_callback \/ symtab_callback \/ add_edata
  <2>1. /\ phase \in {"sections", "symbols", "edata"} /\ phase' \in {"sections", "symbols", "edata", "stuck", "addresses"}
        /\ ever' = ever
    <3>1. CASE symtab_callback
        BY <3>1, SymtabIs DEF symtab_callback, importVars
    <3> QED BY <1>3, <3>1 DEF section_callback, add_edata, importVars
  <2> QED BY <2>1 DEF NumInv, Linking, Exporting, Late
<1>4. CASE set_virtual_address
  <2>1. /\ phase = "addresses" /\ (phase' = phase \/ phase' = "export")
        /\ ever' = ever /\ plt' = offset'
      BY <1>4 DEF set_virtual_address, importVars
  <2> QED BY <2>1 DEF NumInv, Linking, Exporting, Late
<1>5. CASE add_export
  <2>1. /\ phase = "export" /\ (phase' = phase \/ phase' = "stuck")
        /\ UNCHANGED <<ever, plt, offset>>
      BY <1>5 DEF add_export, importVars
  <2> QED BY <2>1 DEF NumInv, Linking, Exporting, Late
<1>6. CASE exported
  <2>1. /\ phase = "export" /\ phase' = "reloc" /\ UNCHANGED <<imports, ever, plt, offset>>
      BY <1>6 DEF exported, importVars
  <2>2. imports = <<>> /\ ever = [n \in DOMAIN Dll |-> 0] /\ plt = offset
      BY <2>1 DEF ImportInv, NumInv, Linking, Exporting
  <2>3. PICK o \in Nat \ {0} : o = offset
      BY <2>1, OffsetIs
  <2>4. Numbered(<<>>, [n \in DOMAIN Dll |-> 0], o, 0) /\ o = o + 6 * 0
      BY NumberedFirst
  <2>5. Total(Counts(imports))' = 0
      BY <2>1, <2>2, NoneCounted
  <2>6. Numbered(imports', ever', offset', Total(Counts(imports))') /\ plt' = offset' + 6 * Total(Counts(imports))'
      BY <2>1, <2>2, <2>3, <2>4, <2>5
  <2>7. \A x \in DOMAIN Dll : ever'[x] = 0
      BY <2>1, <2>2
  <2>8. 1 .. Len(imports') = {}
      BY <2>1, <2>2
  <2> QED BY <2>1, <2>6, <2>7, <2>8 DEF NumInv, Linking, Exporting, Late
<1>7. CASE relocated
  <2>1. /\ phase = "reloc" /\ phase' = "import" /\ UNCHANGED <<importVars, plt, offset, exportVars, tableVars>>
      BY <1>7 DEF relocated
  <2> QED BY <2>1, NumKept DEF importVars, exportVars, tableVars, Linking, Exporting, Late
<1>8. CASE gen_pe
  <2>1. /\ phase = "emit" /\ phase' = "done" /\ UNCHANGED <<importVars, plt, offset, exportVars, tableVars>>
      BY <1>8 DEF gen_pe
  <2> QED BY <2>1, NumKept DEF importVars, exportVars, tableVars, Linking, Exporting, Late
<1>9. CASE add_import \/ no_import
  <2>1. /\ phase = "import" /\ phase' = "emit" /\ UNCHANGED <<imports, ever, names, functions, bucket, chain>>
      BY <1>9 DEF add_import, no_import, importVars, exportVars
  <2>2. Grouped' = Grouped /\ \A x : sysv_lookup(x)' = sysv_lookup(x)
      BY <2>1, LookupKept DEF Grouped
  <2>3. ASSUME Grouped, NEW x \in DOMAIN Dll, ever[x] # 0 PROVE Reached(x)'
    <3>1. CASE add_import
        BY <2>3, <3>1, StepSlots
    <3>2. CASE no_import
      <4>1. importLen = 0
          BY <3>2 DEF no_import
      <4>2. imports \in Seq(Entries) /\ Len(imports) = 0
          BY <4>1, RoomPositive DEF ImportInv
      <4>3. 1 .. Len(imports) = {}
          BY <4>2
      <4>4. \E d \in 1 .. Len(imports) : \E f \in 1 .. Len(imports[d].funcs) : imports[d].funcs[f] = x
          BY <2>1, <2>3 DEF NumInv, Numbered
      <4> QED BY <4>3, <4>4
    <3> QED BY <1>9, <3>1, <3>2
  <2>4. phase' \in Linking /\ phase' \notin {"export", "reloc", "import"} /\ phase \in Linking
      BY <2>1 DEF Linking, Exporting
  <2>5. \A x \in DOMAIN Dll : ever'[x] # 0 => sysv_lookup(x)' = 0
      BY <2>1, <2>2, <2>4 DEF NumInv
  <2>6. \A d \in 1 .. Len(imports') : \A f \in 1 .. Len(imports'[d].funcs) :
         imports'[d].funcs[f] \in DOMAIN Dll /\ ever'[imports'[d].funcs[f]] # 0
      BY <2>1, <2>4 DEF NumInv
  <2>7. Grouped' => \A x \in DOMAIN Dll : ever'[x] # 0 => Reached(x)'
      BY <2>1, <2>2, <2>3
  <2> QED BY <2>4, <2>5, <2>6, <2>7 DEF NumInv
<1>10. CASE UNCHANGED vars
  <2>1. UNCHANGED <<phase, importVars, plt, offset, exportVars, tableVars>>
      BY <1>10 DEF vars
  <2> QED BY <2>1, NumKept DEF importVars, exportVars, tableVars
<1> QED BY <1>1, <1>2, <1>3, <1>4, <1>5, <1>6, <1>7, <1>8, <1>9, <1>10 DEF Next

----------------------------------------------------------------------------
(* What relocations are filled with                                        *)

\* By class: the static symbol's address, that of the exported one, or the stub.
FilledAs(a, sym, t) ==
  /\ sym.class = 3 => a = sym.value + va[<<t.sec[1], sym.section>>]
  /\ (sym.class = 2 /\ sysv_lookup(GET_NAME(sym)) # 0) => a = sysv_lookup(GET_NAME(sym))
  /\ (sym.class = 2 /\ sysv_lookup(GET_NAME(sym)) = 0 /\ GET_NAME(sym) \in DOMAIN Dll) =>
       a = ever[GET_NAME(sym)] /\ ever[GET_NAME(sym)] # 0

RefInv ==
  /\ filled \in Seq(Nat)
  /\ phase \notin Linking => filled = <<>>
  /\ phase \in {"export", "reloc"} => at.row = Len(filled) + 1
  /\ phase \in Linking =>
       /\ Len(filled) <= Len(Sites)
       /\ \A k \in 1 .. Len(filled) : FilledAs(filled[k], Referred(Sites[k]), Sites[k])

LEMMA SiteIs ==
  ASSUME world \in Worlds, NEW t \in SiteRows
  PROVE  /\ Referred(t) \in SymbolRows /\ Referred(t).value \in Nat
         /\ GET_NAME(Referred(t)) \in Names \cup {Unnamed}
         /\ Referred(t).class = 3 => <<t.sec[1], Referred(t).section>> \in Rows
<1>1. /\ t.sec \in Rows /\ t.n \in DOMAIN Section(t.sec).relocs
      /\ Section(t.sec).relocs[t.n] \in DOMAIN world[t.sec[1]].symbols
    BY DEF SiteRows
<1>2. PICK o : o = t.sec[1] /\ o \in DOMAIN world /\ o \in Nat /\ t.sec[2] \in DOMAIN world[o].sections
    BY <1>1 DEF Rows
<1>3. PICK r : r = Section(t.sec).relocs[t.n] /\ r \in DOMAIN world[o].symbols
    BY <1>1, <1>2
<1>4. Referred(t) = world[o].symbols[r]
    BY <1>2, <1>3 DEF Referred
<1>5. world[o].symbols \in Seq(SymbolRows) /\ world[o].sections \in Seq(SectionRows)
    BY <1>2, WorldIs
<1>6. Referred(t) \in SymbolRows
    BY <1>3, <1>4, <1>5
<1>7. Referred(t).value \in Nat
    BY <1>6 DEF SymbolRows
<1>8. r \in Range(world[o].sections[t.sec[2]].relocs)
    BY <1>1, <1>2, <1>3 DEF Range, Section
<1>9. world[o].symbols[r].class = 3 => world[o].symbols[r].section \in DOMAIN world[o].sections
    BY <1>2, <1>8, WorldsAssumption
<1>10. \A s \in DOMAIN world[o].sections : s \in Nat /\ <<o, s>> \in Rows
    BY <1>2, <1>5 DEF Rows
<1> QED BY <1>2, <1>4, <1>6, <1>7, <1>9, <1>10, NamesAre

LEMMA StepFill ==
  ASSUME BoxInv, AddrInv, ExportInv, HashInv, NumInv, RefInv, resolve
  PROVE  /\ phase = "reloc" /\ at.row <= Len(Sites) /\ Site = Sites[at.row]
         /\ \E a \in Nat :
              /\ filled' = Append(filled, a)
              /\ Referred(Site).class = 3 => a = Referred(Site).value + va[<<Site.sec[1], Referred(Site).section>>]
              /\ (Referred(Site).class = 2 /\ sysv_lookup(GET_NAME(Referred(Site))) # 0) =>
                   a = sysv_lookup(GET_NAME(Referred(Site)))
              /\ (Referred(Site).class = 2 /\ sysv_lookup(GET_NAME(Referred(Site))) = 0
                  /\ GET_NAME(Referred(Site)) \in DOMAIN Dll) =>
                   a = ever'[GET_NAME(Referred(Site))] /\ ever'[GET_NAME(Referred(Site))] # 0
<1>1. phase = "reloc" /\ at.row <= Len(Sites) /\ Site = Sites[at.row]
    BY DEF resolve, resolve_static, resolve_defined, resolve_imported, resolve_new_import, resolve_nothing,
       Resolving, Site
<1>2. Site \in SiteRows
  <2>1. at.row \in 1 .. Len(Sites) /\ Sites \in Seq(SiteRows)
    <3>1. Sites \in Seq(SiteRows) /\ Len(filled) \in Nat /\ at.row = Len(filled) + 1
        BY <1>1, SitesAre DEF RefInv
    <3> QED BY <1>1, <3>1
  <2> QED BY <1>1, <2>1
<1>3. PICK sym \in SymbolRows :
        /\ sym = Referred(Site) /\ sym.value \in Nat /\ GET_NAME(sym) \in Names \cup {Unnamed}
        /\ sym.class = 3 => <<Site.sec[1], sym.section>> \in Rows
    BY <1>2, SiteIs DEF BoxInv, AtTypes
<1>4. PICK nm : nm = GET_NAME(sym) /\ nm \in Names \cup {Unnamed}
    BY <1>3
<1>5. sysv_lookup(nm) \in Nat
  <2>1. phase \in Exporting \ {"export"}
      BY <1>1 DEF Exporting
  <2> QED BY <1>4, <2>1, LookupFinds
<1>6. ever \in [DOMAIN Dll -> Nat]
    BY <1>1 DEF NumInv, Numbered
<1>7. CASE resolve_static
  <2>1. sym.class = 3 /\ filled' = Append(filled, sym.value + va[<<Site.sec[1], sym.section>>])
      BY <1>3, <1>7 DEF resolve_static, Resolving, Fill
  <2>2. va[<<Site.sec[1], sym.section>>] \in Nat
      BY <1>1, <1>3, <2>1, RowPlaced DEF Exporting
  <2>3. PICK a \in Nat : a = sym.value + va[<<Site.sec[1], sym.section>>]
      BY <1>3, <2>2
  <2>4. /\ filled' = Append(filled, a) /\ Referred(Site).class = 3
        /\ a = Referred(Site).value + va[<<Site.sec[1], Referred(Site).section>>]
      BY <1>3, <2>1, <2>3
  <2>5. Referred(Site).class # 2
      BY <2>4
  <2> QED BY <1>1, <2>4, <2>5
<1>8. CASE resolve_defined
  <2>1. sym.class = 2 /\ sysv_lookup(nm) # 0 /\ filled' = Append(filled, sysv_lookup(nm))
      BY <1>3, <1>4, <1>8 DEF resolve_defined, Resolving, Fill
  <2> QED BY <1>1, <1>3, <1>4, <1>5, <2>1
<1>9. CASE resolve_imported
  <2>1. sym.class = 2 /\ sysv_lookup(nm) = 0 /\ nm \in DOMAIN Dll /\ ever[nm] # 0
        /\ filled' = Append(filled, ever[nm]) /\ ever' = ever
      BY <1>3, <1>4, <1>9 DEF resolve_imported, Resolving, Fill, Importable, importVars
  <2>2. ever[nm] \in Nat
      BY <1>6, <2>1
  <2> QED BY <1>1, <1>3, <1>4, <2>1, <2>2
<1>10. CASE resolve_new_import
  <2>1. sym.class = 2 /\ sysv_lookup(nm) = 0 /\ nm \in DOMAIN Dll
        /\ filled' = Append(filled, plt) /\ ever' = [ever EXCEPT ![nm] = plt]
      BY <1>3, <1>4, <1>10 DEF resolve_new_import, Resolving, Fill, Importable
  <2>2. PICK p \in Nat \ {0} : p = plt
      BY <1>1, OffsetIs
  <2>3. ever'[nm] = p
      BY <1>6, <2>1, <2>2
  <2> QED BY <1>1, <1>3, <1>4, <2>1, <2>2, <2>3
<1>11. CASE resolve_nothing
  <2>1. filled' = Append(filled, 0)
        /\ (sym.class \notin {2, 3} \/ (sym.class = 2 /\ sysv_lookup(nm) = 0 /\ nm \notin DOMAIN Dll))
      BY <1>3, <1>4, <1>11 DEF resolve_nothing, Fill
  <2>2. 0 \in Nat
      OBVIOUS
  <2> QED BY <1>1, <1>3, <1>4, <2>1, <2>2
<1> QED BY <1>7, <1>8, <1>9, <1>10, <1>11 DEF resolve


LEMMA FilledKept ==
  ASSUME BoxInv, BoxInv', AddrInv, NumInv, RefInv, phase \in Linking, [Next]_vars,
         NEW k \in 1 .. Len(filled), filled'[k] = filled[k]
  PROVE  FilledAs(filled[k], Referred(Sites[k]), Sites[k])'
<1>1. Sites' = Sites /\ (\A t : Referred(t)' = Referred(t)) /\ phase \in Exporting
    BY SitesKept DEF Linking
<1>2. Sites \in Seq(SiteRows) /\ world \in Worlds /\ filled \in Seq(Nat)
    BY SitesAre DEF BoxInv, AtTypes, RefInv
<1>3. Len(filled) <= Len(Sites) /\ FilledAs(filled[k], Referred(Sites[k]), Sites[k])
    BY DEF RefInv
<1>4. PICK t \in SiteRows : t = Sites[k]
  <2>1. k \in 1 .. Len(Sites)
      BY <1>2, <1>3
  <2> QED BY <1>2, <2>1
<1>5. PICK sym \in SymbolRows :
        /\ sym = Referred(t) /\ GET_NAME(sym) \in Names \cup {Unnamed}
        /\ sym.class = 3 => <<t.sec[1], sym.section>> \in Rows
    BY <1>2, SiteIs
<1>6. sym = Referred(Sites[k])' /\ t = Sites'[k]
    BY <1>1, <1>4, <1>5
<1>7. PICK a : a = filled[k] /\ a = filled'[k]
    OBVIOUS
<1>8. FilledAs(a, sym, t)
    BY <1>3, <1>4, <1>5, <1>7
<1>9. sym.class = 3 => va'[<<t.sec[1], sym.section>>] = va[<<t.sec[1], sym.section>>]
    BY <1>1, <1>5, AddressesKept
<1>10. \A x : sysv_lookup(x)' = sysv_lookup(x)
  <2>1. UNCHANGED <<names, functions, bucket, chain>>
    <3>1. CASE resolve
        BY <3>1, ResolveIs DEF exportVars
    <3> QED BY <3>1 DEF Next, Linking, section_callback, symtab_callback, add_edata, set_virtual_address, add_export,
               exported, relocated, add_import, no_import, gen_pe, vars, exportVars, Exporting
  <2> QED BY <2>1, LookupKept
<1>11. \A x \in DOMAIN Dll : ever[x] # 0 => ever'[x] = ever[x]
  <2>1. CASE resolve_new_import
    <3>1. PICK nm : nm \in DOMAIN Dll /\ ever[nm] = 0 /\ ever' = [ever EXCEPT ![nm] = plt] /\ phase = "reloc"
        BY <2>1 DEF resolve_new_import, Importable, Resolving
    <3>2. ever \in [DOMAIN Dll -> Nat]
        BY <3>1 DEF NumInv, Numbered
    <3> QED BY <3>1, <3>2
  <2>2. CASE ~ resolve_new_import
    <3>1. ever' = ever
      <4>1. CASE resolve
          BY <2>2, <4>1, ResolveIs DEF importVars
      <4> QED BY <4>1 DEF Next, Linking, section_callback, symtab_callback, add_edata, set_virtual_address, add_export,
                 exported, relocated, add_import, no_import, gen_pe, vars, importVars, Exporting
    <3> QED BY <3>1
  <2> QED BY <2>1, <2>2
<1>12. FilledAs(a, sym, t)'
  <2>1. sym.class = 3 => a = sym.value + va'[<<t.sec[1], sym.section>>]
      BY <1>8, <1>9 DEF FilledAs
  <2>2. PICK nm : nm = GET_NAME(sym)
      OBVIOUS
  <2>3. (sym.class = 2 /\ sysv_lookup(nm)' # 0) => a = sysv_lookup(nm)'
      BY <1>8, <1>10, <2>2 DEF FilledAs
  <2>4. (sym.class = 2 /\ sysv_lookup(nm)' = 0 /\ nm \in DOMAIN Dll) => a = ever'[nm] /\ ever'[nm] # 0
      BY <1>8, <1>10, <1>11, <2>2 DEF FilledAs
  <2> QED BY <2>1, <2>2, <2>3, <2>4 DEF FilledAs
<1> QED BY <1>6, <1>7, <1>12

LEMMA FilledByResolve ==
  ASSUME BoxInv, BoxInv', AddrInv, ExportInv, HashInv, NumInv, RefInv, [Next]_vars, resolve
  PROVE  RefInv'
<1>1. /\ phase = "reloc" /\ at.row <= Len(Sites) /\ Site = Sites[at.row]
      /\ phase' = "reloc" /\ at' = [at EXCEPT !.row = @ + 1]
      /\ UNCHANGED <<va, names, functions, bucket, chain>>
    BY StepFill, ResolveIs DEF exportVars
<1>2. phase \in Linking /\ phase \in Exporting /\ phase' \in Linking
    BY <1>1 DEF Linking, Exporting
<1>3. PICK n \in Nat : n = Len(filled) /\ at.row = n + 1
    BY <1>1 DEF RefInv
<1>4. Sites' = Sites /\ (\A t : Referred(t)' = Referred(t)) /\ Sites \in Seq(SiteRows)
    BY <1>2, SitesKept, SitesAre
<1>5. PICK m \in Nat : m = Len(Sites) /\ n + 1 <= m
    BY <1>1, <1>3, <1>4
<1>6. PICK t, sym : t = Site /\ t = Sites[n + 1] /\ sym = Referred(t)
    BY <1>1, <1>3
<1>7. PICK nm : nm = GET_NAME(sym)
    OBVIOUS
<1>8. PICK a \in Nat :
        /\ filled' = Append(filled, a)
        /\ sym.class = 3 => a = sym.value + va[<<t.sec[1], sym.section>>]
        /\ (sym.class = 2 /\ sysv_lookup(nm) # 0) => a = sysv_lookup(nm)
        /\ (sym.class = 2 /\ sysv_lookup(nm) = 0 /\ nm \in DOMAIN Dll) => a = ever'[nm] /\ ever'[nm] # 0
    BY <1>6, <1>7, StepFill
<1>9. filled \in Seq(Nat)
    BY DEF RefInv
<1>10. /\ filled' \in Seq(Nat) /\ Len(filled') = n + 1 /\ filled'[n + 1] = a
       /\ \A k \in 1 .. n : filled'[k] = filled[k]
    BY <1>3, <1>8, <1>9
<1>11. sysv_lookup(nm)' = sysv_lookup(nm)
    BY <1>1, LookupKept
<1>12. FilledAs(a, sym, t)'
  <2>1. sym.class = 3 => a = sym.value + va'[<<t.sec[1], sym.section>>]
      BY <1>1, <1>8
  <2>2. (sym.class = 2 /\ sysv_lookup(nm)' # 0) => a = sysv_lookup(nm)'
      BY <1>8, <1>11
  <2>3. (sym.class = 2 /\ sysv_lookup(nm)' = 0 /\ nm \in DOMAIN Dll) => a = ever'[nm] /\ ever'[nm] # 0
      BY <1>8, <1>11
  <2> QED BY <1>7, <2>1, <2>2, <2>3 DEF FilledAs
<1>13. ASSUME NEW k \in 1 .. n + 1 PROVE FilledAs(filled[k], Referred(Sites[k]), Sites[k])'
  <2>1. CASE k \in 1 .. n
    <3>1. k \in 1 .. Len(filled) /\ filled'[k] = filled[k]
        BY <1>3, <1>10, <2>1
    <3> QED BY <1>2, <3>1, FilledKept
  <2>2. CASE k = n + 1
    <3>1. filled'[k] = a /\ Sites'[k] = t /\ Referred(Sites[k])' = sym
        BY <1>4, <1>6, <1>10, <2>2
    <3> QED BY <1>12, <3>1
  <2> QED BY <2>1, <2>2
<1>14. at'.row = (n + 1) + 1
  <2>1. at \in Cursor
      BY DEF BoxInv, AtTypes
  <2> QED BY <1>1, <1>3, <2>1, CursorSteps
<1>15. Len(filled') <= Len(Sites')
    BY <1>4, <1>5, <1>10
<1> QED BY <1>2, <1>10, <1>13, <1>14, <1>15 DEF RefInv

LEMMA RefStep == BoxInv /\ BoxInv' /\ AddrInv /\ ExportInv /\ HashInv /\ NumInv /\ RefInv /\ [Next]_vars => RefInv'
<1> SUFFICES ASSUME BoxInv, BoxInv', AddrInv, ExportInv, HashInv, NumInv, RefInv, [Next]_vars PROVE RefInv'
    OBVIOUS
<1>1. CASE resolve
    BY <1>1, FilledByResolve
<1>2. CASE section_callback \/ symtab_callback \/ add_edata
  <2>1. /\ phase \in {"sections", "symbols", "edata"} /\ phase' \in {"sections", "symbols", "edata", "stuck", "addresses"}
        /\ filled' = filled
    <3>1. CASE symtab_callback
        BY <3>1, SymtabIs DEF symtab_callback
    <3> QED BY <1>2, <3>1 DEF section_callback, add_edata
  <2>2. filled = <<>>
      BY <2>1 DEF RefInv, Linking, Exporting
  <2> QED BY <2>1, <2>2 DEF RefInv, Linking, Exporting
<1>3. CASE set_virtual_address
  <2>1. /\ phase = "addresses" /\ filled' = filled
        /\ phase' = phase \/ (phase' = "export" /\ at' = [obj |-> 1, row |-> 1])
      BY <1>3 DEF set_virtual_address
  <2>2. filled = <<>> /\ Len(filled) = 0
      BY <2>1 DEF RefInv, Linking, Exporting
  <2>3. phase' = "export" => at'.row = 1
      BY <2>1
  <2> QED BY <2>1, <2>2, <2>3 DEF RefInv, Linking, Exporting
<1>4. CASE add_export
  <2>1. /\ phase = "export" /\ (phase' = phase \/ phase' = "stuck") /\ UNCHANGED <<at, filled>>
      BY <1>4 DEF add_export
  <2>2. filled = <<>> /\ at.row = Len(filled) + 1
      BY <2>1 DEF RefInv, Linking, Exporting
  <2> QED BY <2>1, <2>2 DEF RefInv, Linking, Exporting
<1>5. CASE exported
  <2>1. /\ phase = "export" /\ phase' = "reloc" /\ UNCHANGED <<at, filled>>
      BY <1>5 DEF exported
  <2>2. filled = <<>> /\ Len(filled) = 0 /\ at.row = Len(filled) + 1
      BY <2>1 DEF RefInv, Linking, Exporting
  <2>3. Sites' = Sites /\ Sites \in Seq(SiteRows)
      BY <2>1, SitesKept, SitesAre DEF Exporting
  <2>4. Len(filled') <= Len(Sites') /\ 1 .. Len(filled') = {}
      BY <2>1, <2>2, <2>3
  <2> QED BY <2>1, <2>2, <2>4 DEF RefInv, Linking, Exporting
<1>6. CASE relocated \/ add_import \/ no_import \/ gen_pe \/ UNCHANGED vars
  <2>1. /\ UNCHANGED <<at, filled>>
        /\ phase' = "reloc" => phase = "reloc"
        /\ phase' = "export" => phase = "export"
        /\ phase' \in Linking <=> phase \in Linking
      BY <1>6 DEF relocated, add_import, no_import, gen_pe, vars, Linking, Exporting
  <2>2. CASE phase \notin Linking
      BY <2>1, <2>2 DEF RefInv
  <2>3. CASE phase \in Linking
    <3>1. Sites' = Sites
        BY <2>3, SitesKept DEF Linking
    <3>2. \A k \in 1 .. Len(filled) : FilledAs(filled[k], Referred(Sites[k]), Sites[k])'
        BY <2>1, <2>3, FilledKept
    <3>3. filled' \in Seq(Nat) /\ Len(filled') <= Len(Sites')
        BY <2>1, <2>3, <3>1 DEF RefInv
    <3>4. phase' \in {"export", "reloc"} => at'.row = Len(filled') + 1
        BY <2>1 DEF RefInv
    <3> QED BY <2>1, <2>3, <3>2, <3>3, <3>4 DEF RefInv
  <2> QED BY <2>2, <2>3
<1> QED BY <1>1, <1>2, <1>3, <1>4, <1>5, <1>6 DEF Next

LEMMA InitRefs == Init => NumInv /\ RefInv
<1> SUFFICES ASSUME Init PROVE NumInv /\ RefInv
    OBVIOUS
<1>1. phase = "sections" /\ filled = <<>> /\ ever = [n \in DOMAIN Dll |-> 0]
    BY DEF Init
<1> QED BY <1>1 DEF NumInv, RefInv, Linking, Exporting, Late

\* What every reachable state of the linker is like.
LinkerInv == BoxInv /\ AddrInv /\ ExportInv /\ ImportInv /\ HashInv /\ NumInv /\ RefInv

LEMMA SpecLinkerInv == Spec => []LinkerInv
<1>1. Init => LinkerInv
    BY InitBoxes, InitAddr, InitExports, InitImports, InitHash, InitRefs DEF LinkerInv
<1>2. LinkerInv /\ [Next]_vars => LinkerInv'
  <2> SUFFICES ASSUME BoxInv, AddrInv, ExportInv, ImportInv, HashInv, NumInv, RefInv, [Next]_vars PROVE LinkerInv'
      BY DEF LinkerInv
  <2>1. BoxInv' /\ AddrInv' /\ ExportInv' /\ ImportInv'
      BY BoxStep, AddrStep, ExportStep, ImportStep
  <2>2. HashInv' /\ NumInv'
      BY <2>1, HashStep, NumStep
  <2> QED BY <2>1, <2>2, RefStep DEF LinkerInv
<1> QED BY <1>1, <1>2, PTL DEF Spec

\* A relocation that was filled, the symbol that it refers to, and what the
\* lookup of its name finds.
LEMMA FilledIs ==
  ASSUME LinkerInv, NEW k \in DOMAIN filled
  PROVE  /\ phase \in Linking /\ Sites[k] \in SiteRows
         /\ FilledAs(filled[k], Referred(Sites[k]), Sites[k])
         /\ GET_NAME(Referred(Sites[k])) \in Names \cup {Unnamed}
<1>1. /\ filled \in Seq(Nat) /\ k \in 1 .. Len(filled) /\ filled # <<>>
    BY DEF LinkerInv, RefInv
<1>2. phase \in Linking
    BY <1>1 DEF LinkerInv, RefInv
<1>3. Len(filled) <= Len(Sites) /\ FilledAs(filled[k], Referred(Sites[k]), Sites[k])
    BY <1>1, <1>2 DEF LinkerInv, RefInv
<1>4. Sites \in Seq(SiteRows) /\ world \in Worlds
    BY SitesAre DEF LinkerInv, BoxInv, AtTypes
<1>5. Sites[k] \in SiteRows
    BY <1>1, <1>3, <1>4
<1> QED BY <1>2, <1>3, <1>4, <1>5, SiteIs

\* A relocation against a symbol of its own object, or against one that a single
\* object exports from its first section, gets that symbol's address, which is
\* never imported: for every list of objects, names, hash values and DLLs.
THEOREM SpecReferencesReachTheirSymbol == Spec => []ReferencesReachTheirSymbol
<1>1. LinkerInv => ReferencesReachTheirSymbol
  <2> SUFFICES ASSUME LinkerInv, NEW k \in DOMAIN filled
               PROVE  LET sym == Referred(Sites[k])
                          at_def == Defining(GET_NAME(sym))
                      IN  /\ sym.class = 3 => filled[k] = va[<<Sites[k].sec[1], sym.section>>] + sym.value
                          /\ (sym.class = 2 /\ Cardinality(at_def) = 1 /\ at_def # {1}) =>
                               \A i \in at_def : Symbol(exports[i]).section = 1 =>
                                 /\ filled[k] = va[<<exports[i].obj, 1>>] + Symbol(exports[i]).value
                                 /\ \A d \in DOMAIN imports : GET_NAME(sym) \notin Range(imports[d].funcs)
      BY DEF ReferencesReachTheirSymbol
  <2>1. PICK t \in SiteRows : t = Sites[k]
      BY FilledIs
  <2>2. PICK sym : sym = Referred(Sites[k]) /\ sym = Referred(t)
      BY <2>1
  <2>3. PICK nm \in Names \cup {Unnamed} : nm = GET_NAME(sym)
      BY <2>2, FilledIs
  <2>4. FilledAs(filled[k], sym, t)
      BY <2>1, <2>2, FilledIs
  <2>5. ASSUME sym.class = 3 PROVE filled[k] = va[<<t.sec[1], sym.section>>] + sym.value
    <3>1. sym.value \in Nat /\ <<t.sec[1], sym.section>> \in Rows
        BY <2>2, <2>5, SiteIs DEF LinkerInv, BoxInv, AtTypes
    <3>2. PICK v \in Nat : v = va[<<t.sec[1], sym.section>>]
        BY <3>1, FilledIs, RowPlaced DEF Linking, LinkerInv
    <3>3. filled[k] = sym.value + v
        BY <2>4, <2>5, <3>2 DEF FilledAs
    <3>4. sym.value + v = v + sym.value
        BY <3>1
    <3> QED BY <3>2, <3>3, <3>4
  <2>6. ASSUME sym.class = 2, Cardinality(Defining(nm)) = 1, Defining(nm) # {1},
               NEW i \in Defining(nm), Symbol(exports[i]).section = 1
        PROVE  /\ filled[k] = va[<<exports[i].obj, 1>>] + Symbol(exports[i]).value
               /\ \A d \in DOMAIN imports : nm \notin Range(imports[d].funcs)
    <3>1. Defining(nm) = {i}
      <4>1. IsFiniteSet(Defining(nm))
        <5>1. exports \in Seq(SymRows)
            BY DEF LinkerInv, ExportInv
        <5>2. IsFiniteSet(1 .. Len(exports)) /\ Defining(nm) \subseteq 1 .. Len(exports)
            BY <5>1, FS_Interval DEF Defining
        <5> QED BY <5>2, FS_Subset
      <4>2. \E x : Defining(nm) = {x}
          BY <2>6, <4>1, FS_Singleton
      <4> QED BY <4>2
    <3>2. i # 1
        BY <2>6, <3>1
    <3>3. sysv_lookup(nm) = ExportAddress(exports[i]) /\ sysv_lookup(nm) # 0
      <4>1. ExportInv /\ HashInv /\ phase \in Exporting \ {"export"}
          BY FilledIs DEF LinkerInv, Linking
      <4> QED BY <3>1, <3>2, <4>1, LookupFinds
    <3>4. filled[k] = sysv_lookup(nm)
        BY <2>3, <2>4, <2>6, <3>3 DEF FilledAs
    <3>5. filled[k] = va[<<exports[i].obj, 1>>] + Symbol(exports[i]).value
        BY <3>3, <3>4 DEF ExportAddress
    <3>6. ASSUME NEW d \in DOMAIN imports PROVE nm \notin Range(imports[d].funcs)
      <4>1. imports \in Seq(Entries) /\ d \in 1 .. Len(imports)
          BY DEF LinkerInv, ImportInv
      <4>2. DOMAIN imports[d].funcs = 1 .. Len(imports[d].funcs)
        <5>1. imports[d] \in Entries
            BY <4>1
        <5> QED BY <5>1 DEF Entries
      <4>3. \A f \in 1 .. Len(imports[d].funcs) : imports[d].funcs[f] \in DOMAIN Dll /\ ever[imports[d].funcs[f]] # 0
          BY <4>1, FilledIs DEF LinkerInv, NumInv
      <4>4. \A x \in DOMAIN Dll : ever[x] # 0 => sysv_lookup(x) = 0
          BY FilledIs DEF LinkerInv, NumInv
      <4> QED BY <3>3, <4>2, <4>3, <4>4 DEF Range
    <3> QED BY <3>5, <3>6
  <2> QED BY <2>1, <2>2, <2>3, <2>5, <2>6
<1> QED BY <1>1, SpecLinkerInv, PTL

\* As long as imports are first referred to DLL by DLL, a relocation against a
\* name that no object exports ends at a stub whose slot holds that name and is
\* covered by its DLL's descriptor: for every list of objects, names and DLLs.
THEOREM SpecImportsReachTheirFunction == Spec => []ImportsReachTheirFunction
<1>1. LinkerInv => ImportsReachTheirFunction
  <2> SUFFICES ASSUME LinkerInv, phase = "done", Grouped, NEW k \in DOMAIN filled,
                      Referred(Sites[k]).class = 2, GET_NAME(Referred(Sites[k])) \in DOMAIN Dll,
                      Defining(GET_NAME(Referred(Sites[k]))) = {}
               PROVE  LET name == GET_NAME(Referred(Sites[k])) IN
                      /\ filled[k] \in DOMAIN stubs
                      /\ stubs[filled[k]] \in directory[Dll[name]] /\ iat[stubs[filled[k]]] = name
      BY DEF ImportsReachTheirFunction
  <2>1. PICK sym : sym = Referred(Sites[k])
      OBVIOUS
  <2>2. PICK nm \in Names \cup {Unnamed} : nm = GET_NAME(sym)
      BY <2>1, FilledIs
  <2>3. sysv_lookup(nm) = 0
    <3>1. ExportInv /\ HashInv /\ phase \in Exporting \ {"export"}
        BY FilledIs DEF LinkerInv, Linking
    <3> QED BY <2>1, <2>2, <3>1, LookupFinds
  <2>4. nm \in DOMAIN Dll /\ filled[k] = ever[nm] /\ ever[nm] # 0
      BY <2>1, <2>2, <2>3, FilledIs DEF FilledAs
  <2>5. Reached(nm)
      BY <2>4 DEF LinkerInv, NumInv, Late
  <2> QED BY <2>1, <2>2, <2>4, <2>5 DEF Reached
<1> QED BY <1>1, SpecLinkerInv, PTL
=============================================================================
