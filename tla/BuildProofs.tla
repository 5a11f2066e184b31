---------------------------- MODULE BuildProofs ----------------------------
(***************************************************************************)
(* Proofs about the build tool, for every makefile and every content of    *)
(* the disk.                                                               *)
(*                                                                         *)
(* ReadInv says what parse has after each line: the rules and variables of *)
(* the lines so far, and what it keeps for the next one.  BuildInv says    *)
(* that the rules are the makefile's except for the dependencies _strtok   *)
(* has cut off, that each search in progress has handled, or has yet to    *)
(* look at, every dependency its rule had, that bind_str is the stem of    *)
(* the one pattern under way, and that a command that was run in vain      *)
(* would be in vain again, so nothing is written behind its users' backs.  *)
(***************************************************************************)
EXTENDS Build, SequenceTheorems, FiniteSetTheorems, NaturalsInduction, WellFoundedInduction, TLAPS

\* A set of numbers has a least one.
LEMMA Least ==
  ASSUME NEW T, T \subseteq Nat, T # {}
  PROVE  \E m \in T : \A n \in T : m <= n
<1>1. OpToRel(<, Nat) = {ss \in Nat \X Nat : ss[1] < ss[2]}
    BY DEF OpToRel
<1>2. PICK m \in T : \A n \in T : ~ (<<n, m>> \in OpToRel(<, Nat))
    BY WFMin, NatLessThanWellFounded
<1>3. ASSUME NEW n \in T PROVE ~ (n < m)
  <2>1. <<n, m>> \in Nat \X Nat
      OBVIOUS
  <2> QED BY <1>1, <1>2, <2>1
<1>4. m \in Nat /\ \A n \in T : n \in Nat
    OBVIOUS
<1> QED BY <1>3, <1>4

\* Induction over a set of numbers.
LEMMA SetInduction ==
  ASSUME NEW S, 0 \in S, \A n \in Nat : n \in S => n + 1 \in S
  PROVE  Nat \subseteq S
<1> SUFFICES ASSUME Nat \ S # {} PROVE FALSE
    OBVIOUS
<1>1. PICK m \in Nat \ S : \A n \in Nat \ S : m <= n
    BY Least
<1>2. m - 1 \in Nat \ S
    BY <1>1
<1> QED BY <1>1, <1>2

\* f[i] is step[i] applied to f[i - 1], from b on.
Stepwise(step, b, f, V, n) ==
  f \in [0 .. n -> V] /\ f[0] = b /\ \A i \in 1 .. n : f[i] = step[i][f[i - 1]]

\* What is defined step by step exists.
LEMMA StepwiseExists ==
  ASSUME NEW V, NEW b \in V, NEW n \in Nat, NEW step \in [1 .. n -> [V -> V]]
  PROVE  \E f : Stepwise(step, b, f, V, n)
<1> DEFINE S == {m \in Nat : m <= n => \E f : Stepwise(step, b, f, V, m)}
<1>1. 0 \in S
  <2>1. Stepwise(step, b, [j \in 0 .. 0 |-> b], V, 0)
      BY DEF Stepwise
  <2> QED BY <2>1
<1>2. ASSUME NEW m \in Nat, m \in S PROVE m + 1 \in S
  <2> SUFFICES ASSUME m + 1 <= n PROVE \E f : Stepwise(step, b, f, V, m + 1)
      OBVIOUS
  <2>1. PICK f : Stepwise(step, b, f, V, m)
      BY <1>2
  <2> DEFINE g == [j \in 0 .. m + 1 |-> IF j = m + 1 THEN step[m + 1][f[m]] ELSE f[j]]
  <2>2. f[m] \in V /\ step[m + 1] \in [V -> V] /\ step[m + 1][f[m]] \in V
    <3>1. f[m] \in V
        BY <2>1 DEF Stepwise
    <3>2. m + 1 \in 1 .. n
        OBVIOUS
    <3>3. step[m + 1] \in [V -> V]
        BY <3>2
    <3> QED BY <3>1, <3>3
  <2>3. g \in [0 .. m + 1 -> V] /\ g[0] = b
      BY <2>1, <2>2 DEF Stepwise
  <2>4. \A j \in 1 .. m + 1 : g[j] = step[j][g[j - 1]]
      BY <2>1 DEF Stepwise
  <2>5. Stepwise(step, b, g, V, m + 1)
      BY <2>3, <2>4 DEF Stepwise
  <2> HIDE DEF g
  <2> QED BY <2>5
<1>3. n \in S
  <2> HIDE DEF S
  <2> QED BY <1>1, <1>2, SetInduction
<1> QED BY <1>3

----------------------------------------------------------------------------
(* Reading: the lines of a kind                                            *)

\* LinesOf from one line to the next.
LEMMA LinesOfStep ==
  ASSUME NEW s \in Seq(Lines), NEW K
  PROVE  /\ LinesOf(K, s, 0) = <<>>
         /\ \A n \in 0 .. Len(s) : LinesOf(K, s, n) \in Seq(Nat)
         /\ \A n \in 1 .. Len(s) :
              LinesOf(K, s, n) = IF s[n].kind \in K THEN Append(LinesOf(K, s, n - 1), n) ELSE LinesOf(K, s, n - 1)
<1>1. PICK l \in Nat : l = Len(s)
    OBVIOUS
<1> DEFINE step == [i \in 1 .. l |-> [v \in Seq(Nat) |-> IF s[i].kind \in K THEN Append(v, i) ELSE v]]
<1> DEFINE F(f) == [i \in 0 .. l |-> IF i = 0 THEN <<>> ELSE IF s[i].kind \in K THEN Append(f[i - 1], i) ELSE f[i - 1]]
<1>2. step \in [1 .. l -> [Seq(Nat) -> Seq(Nat)]]
    OBVIOUS
<1>3. PICK g : Stepwise(step, <<>>, g, Seq(Nat), l)
  <2> HIDE DEF step
  <2>1. <<>> \in Seq(Nat)
      OBVIOUS
  <2> QED BY <1>2, <2>1, StepwiseExists
<1>4. g \in [0 .. l -> Seq(Nat)] /\ g[0] = <<>> /\ \A i \in 1 .. l : g[i] = step[i][g[i - 1]]
    BY <1>3 DEF Stepwise
<1>5. ASSUME NEW i \in 1 .. l
      PROVE  g[i - 1] \in Seq(Nat) /\ g[i] = IF s[i].kind \in K THEN Append(g[i - 1], i) ELSE g[i - 1]
  <2>1. i - 1 \in 0 .. l
      OBVIOUS
  <2>2. g[i - 1] \in Seq(Nat)
      BY <1>4, <2>1
  <2> QED BY <1>4, <2>2
<1>6. g = F(g)
  <2>1. \A i \in 0 .. l : g[i] = F(g)[i]
    <3>1. \A i \in 0 .. l : i = 0 \/ i \in 1 .. l
        OBVIOUS
    <3> QED BY <1>4, <1>5, <3>1
  <2>2. DOMAIN g = 0 .. l /\ DOMAIN F(g) = 0 .. l /\ g = [i \in 0 .. l |-> g[i]]
      BY <1>4
  <2> QED BY <2>1, <2>2
<1> DEFINE f == CHOOSE h : h = F(h)
<1>7. f = F(f)
  <2> HIDE DEF F
  <2> QED BY <1>6
<1>8. \A n : LinesOf(K, s, n) = f[n]
    BY <1>1 DEF LinesOf
<1> HIDE DEF f
<1>9. f[0] = <<>> /\ \A i \in 1 .. l : f[i] = IF s[i].kind \in K THEN Append(f[i - 1], i) ELSE f[i - 1]
  <2>1. \A i \in 0 .. l : f[i] = F(f)[i]
      BY <1>7
  <2>2. \A i \in 1 .. l : i \in 0 .. l /\ i # 0
      OBVIOUS
  <2>3. 0 \in 0 .. l
      OBVIOUS
  <2> QED BY <2>1, <2>2, <2>3
<1>10. \A n \in 0 .. l : f[n] \in Seq(Nat)
  <2> DEFINE S == {n \in Nat : n <= l => f[n] \in Seq(Nat)}
  <2>1. 0 \in S
    <3>1. <<>> \in Seq(Nat)
        OBVIOUS
    <3> QED BY ONLY <1>9, <3>1
  <2>2. ASSUME NEW n \in Nat, n \in S PROVE n + 1 \in S
    <3> SUFFICES ASSUME n + 1 <= l PROVE f[n + 1] \in Seq(Nat)
        OBVIOUS
    <3>1. n + 1 \in 1 .. l /\ (n + 1) - 1 = n /\ n <= l /\ n + 1 \in Nat
        OBVIOUS
    <3>2. f[n] \in Seq(Nat)
        BY <2>2, <3>1
    <3>3. PICK v \in Seq(Nat) : v = f[n]
        BY <3>2
    <3>4. Append(v, n + 1) \in Seq(Nat)
        BY <3>1
    <3>5. f[n + 1] = IF s[n + 1].kind \in K THEN Append(v, n + 1) ELSE v
        BY <1>9, <3>1, <3>3
    <3> QED BY ONLY <3>3, <3>4, <3>5
  <2> HIDE DEF S
  <2>3. \A n \in Nat : n \in S
      BY <2>1, <2>2, SetInduction
  <2> USE DEF S
  <2> QED BY <2>3
<1> QED BY <1>1, <1>8, <1>9, <1>10

\* Every line adds itself or nothing.
Collects(q, s, K) ==
  /\ q \in [0 .. Len(s) -> Seq(Nat)] /\ q[0] = <<>>
  /\ \A n \in 1 .. Len(s) : q[n] = IF s[n].kind \in K THEN Append(q[n - 1], n) ELSE q[n - 1]

\* LinesOf collects the numbers of the lines of its kinds.
LEMMA LinesOfCollects ==
  ASSUME NEW s \in Seq(Lines), NEW K
  PROVE  \E q : Collects(q, s, K) /\ \A n \in 0 .. Len(s) : LinesOf(K, s, n) = q[n]
<1>1. PICK l \in Nat : l = Len(s)
    OBVIOUS
<1>2. PICK q : q = [i \in 0 .. l |-> LinesOf(K, s, i)]
    OBVIOUS
<1>3. 0 \in 0 .. l /\ \A n \in 1 .. l : n \in 0 .. l /\ n - 1 \in 0 .. l
    OBVIOUS
<1>4. \A n \in 0 .. l : q[n] = LinesOf(K, s, n)
    BY <1>2
<1>5. q \in [0 .. l -> Seq(Nat)]
  <2>1. \A n \in 0 .. l : LinesOf(K, s, n) \in Seq(Nat)
      BY <1>1, LinesOfStep
  <2> QED BY <1>2, <2>1
<1>6. \A n \in 1 .. l : LinesOf(K, s, n) = IF s[n].kind \in K THEN Append(LinesOf(K, s, n - 1), n) ELSE LinesOf(K, s, n - 1)
  <2> DEFINE Step(n) == LinesOf(K, s, n) = IF s[n].kind \in K THEN Append(LinesOf(K, s, n - 1), n) ELSE LinesOf(K, s, n - 1)
  <2>1. \A n \in 1 .. Len(s) : Step(n)
      BY LinesOfStep
  <2> HIDE DEF Step
  <2>2. \A n \in 1 .. l : Step(n)
      BY <1>1, <2>1
  <2> QED BY <2>2 DEF Step
<1>7. LinesOf(K, s, 0) = <<>>
    BY LinesOfStep
<1>8. q[0] = <<>> /\ \A n \in 1 .. l : q[n] = IF s[n].kind \in K THEN Append(q[n - 1], n) ELSE q[n - 1]
    BY <1>3, <1>4, <1>6, <1>7
<1> QED BY <1>1, <1>4, <1>5, <1>8 DEF Collects

\* Append, for sequences of numbers.
LEMMA AppendIs ==
  ASSUME NEW w \in Seq(Nat), NEW e \in Nat
  PROVE  /\ Append(w, e) \in Seq(Nat)
         /\ Len(Append(w, e)) = Len(w) + 1 /\ Append(w, e)[Len(w) + 1] = e
         /\ \A i \in 1 .. Len(w) : Append(w, e)[i] = w[i]
OBVIOUS

\* The lines in front of a line are the first of all.
LEMMA CollectsPrefix ==
  ASSUME NEW s \in Seq(Lines), NEW K, NEW q, Collects(q, s, K), NEW n \in 0 .. Len(s), NEW m \in n .. Len(s)
  PROVE  /\ q[n] \in Seq(Nat) /\ q[m] \in Seq(Nat) /\ Len(q[n]) <= Len(q[m])
         /\ \A i \in 1 .. Len(q[n]) : q[m][i] = q[n][i]
<1>1. PICK l \in Nat : l = Len(s)
    OBVIOUS
<1>2. /\ q \in [0 .. l -> Seq(Nat)]
      /\ \A j \in 1 .. l : q[j] = IF s[j].kind \in K THEN Append(q[j - 1], j) ELSE q[j - 1]
    BY <1>1 DEF Collects
<1>3. n \in Nat /\ n <= l /\ m \in Nat /\ m <= l /\ n <= m
    BY <1>1
<1>4. PICK v \in Seq(Nat) : v = q[n]
    BY <1>2, <1>3
<1> DEFINE Good(j) == Len(v) <= Len(q[j]) /\ \A i \in 1 .. Len(v) : q[j][i] = v[i]
<1> DEFINE S == {d \in Nat : n + d <= l => Good(n + d)}
<1>5. 0 \in S
  <2>1. n + 0 = n /\ Len(v) \in Nat
      BY <1>3
  <2> QED BY <1>4, <2>1
<1>6. ASSUME NEW d \in Nat, d \in S PROVE d + 1 \in S
  <2> SUFFICES ASSUME n + (d + 1) <= l PROVE Good(n + (d + 1))
      OBVIOUS
  <2>1. PICK e \in 1 .. l : e = n + (d + 1) /\ e - 1 = n + d /\ n + d \in 0 .. l /\ n + d <= l
      BY <1>3
  <2>2. q[e] = IF s[e].kind \in K THEN Append(q[e - 1], e) ELSE q[e - 1]
      BY <1>2
  <2>3. PICK w \in Seq(Nat) : w = q[e - 1]
      BY <1>2, <2>1
  <2>4. Len(v) <= Len(w) /\ \A i \in 1 .. Len(v) : w[i] = v[i]
    <3>1. Good(n + d)
        BY <1>6, <2>1
    <3> QED BY <2>1, <2>3, <3>1
  <2>5. PICK c \in Nat, b \in Nat : c = Len(v) /\ b = Len(w)
      OBVIOUS
  <2>6. e \in Nat /\ c <= b /\ c <= b + 1 /\ \A i \in 1 .. c : i \in 1 .. b
      BY <2>4, <2>5
  <2>7. Len(Append(w, e)) = b + 1 /\ \A i \in 1 .. b : Append(w, e)[i] = w[i]
      BY <2>5, <2>6, AppendIs
  <2>8. CASE s[e].kind \in K
    <3>1. q[e] = Append(w, e)
        BY <2>2, <2>3, <2>8
    <3> QED BY <2>1, <2>4, <2>5, <2>6, <2>7, <3>1
  <2>9. CASE s[e].kind \notin K
      BY <2>1, <2>2, <2>3, <2>4, <2>9
  <2> QED BY <2>8, <2>9
<1>7. m - n \in S
  <2>1. m - n \in Nat
      BY <1>3
  <2> HIDE DEF S
  <2> QED BY <1>5, <1>6, <2>1, SetInduction
<1>8. n + (m - n) = m
    BY <1>3
<1>9. n \in 0 .. l /\ m \in 0 .. l
    BY <1>3
<1> QED BY <1>2, <1>3, <1>4, <1>7, <1>8, <1>9

\* They are the lines of these kinds, and all of them.
LEMMA CollectsAre ==
  ASSUME NEW s \in Seq(Lines), NEW K, NEW q, Collects(q, s, K), NEW n \in 0 .. Len(s)
  PROVE  /\ \A i \in 1 .. Len(q[n]) : q[n][i] \in 1 .. n /\ s[q[n][i]].kind \in K
         /\ \A j \in 1 .. n : s[j].kind \in K => \E i \in 1 .. Len(q[n]) : q[n][i] = j
<1>1. PICK l \in Nat : l = Len(s)
    OBVIOUS
<1>2. /\ q \in [0 .. l -> Seq(Nat)] /\ q[0] = <<>>
      /\ \A j \in 1 .. l : q[j] = IF s[j].kind \in K THEN Append(q[j - 1], j) ELSE q[j - 1]
    BY <1>1 DEF Collects
<1>3. n \in Nat /\ n <= l
    BY <1>1
<1> DEFINE Good(d) == /\ \A i \in 1 .. Len(q[d]) : q[d][i] \in 1 .. d /\ s[q[d][i]].kind \in K
                      /\ \A j \in 1 .. d : s[j].kind \in K => \E i \in 1 .. Len(q[d]) : q[d][i] = j
<1> DEFINE S == {d \in Nat : d <= l => Good(d)}
<1>4. 0 \in S
  <2>1. Len(<<>>) = 0 /\ 1 .. 0 = {}
      OBVIOUS
  <2> QED BY <1>2, <2>1
<1>5. ASSUME NEW d \in Nat, d \in S PROVE d + 1 \in S
  <2> HIDE DEF Good
  <2> SUFFICES ASSUME d + 1 <= l PROVE Good(d + 1)
      OBVIOUS
  <2> USE DEF Good
  <2>1. PICK e \in 1 .. l : e = d + 1 /\ e - 1 = d /\ d \in 0 .. l /\ d <= l
      OBVIOUS
  <2>2. q[e] = IF s[e].kind \in K THEN Append(q[d], e) ELSE q[d]
      BY <1>2, <2>1
  <2>3. PICK w \in Seq(Nat) : w = q[d]
      BY <1>2, <2>1
  <2>4. PICK b \in Nat : b = Len(w)
      OBVIOUS
  <2>5. /\ \A i \in 1 .. b : w[i] \in 1 .. d /\ s[w[i]].kind \in K
        /\ \A j \in 1 .. d : s[j].kind \in K => \E i \in 1 .. b : w[i] = j
    <3>1. Good(d)
        BY <1>5, <2>1
    <3> QED BY <2>3, <2>4, <3>1
  <2>6. /\ \A j \in 1 .. e : j \in 1 .. d \/ j = e
        /\ \A j \in 1 .. d : j \in 1 .. e
        /\ \A i \in 1 .. b + 1 : i \in 1 .. b \/ i = b + 1
        /\ \A i \in 1 .. b : i \in 1 .. b + 1
        /\ e \in 1 .. e /\ b + 1 \in 1 .. b + 1 /\ e \in Nat
      BY <2>1
  <2>7. CASE s[e].kind \in K
    <3>1. PICK u \in Seq(Nat) : u = Append(w, e)
        BY <2>6, AppendIs
    <3>2. Len(u) = b + 1 /\ u[b + 1] = e /\ \A i \in 1 .. b : u[i] = w[i]
        BY <2>4, <2>6, <3>1, AppendIs
    <3>3. \A i \in 1 .. b + 1 : u[i] \in 1 .. e /\ s[u[i]].kind \in K
        BY ONLY <2>5, <2>6, <2>7, <3>2
    <3>4. \A j \in 1 .. e : s[j].kind \in K => \E i \in 1 .. b + 1 : u[i] = j
      <4>1. \A j \in 1 .. d : s[j].kind \in K => \E i \in 1 .. b + 1 : u[i] = j
          BY ONLY <2>5, <2>6, <3>2
      <4> QED BY ONLY <2>6, <3>2, <4>1
    <3>5. q[d + 1] = u
        BY <2>1, <2>2, <2>3, <2>7, <3>1
    <3> QED BY ONLY <2>1, <3>2, <3>3, <3>4, <3>5
  <2>8. CASE s[e].kind \notin K
    <3>1. q[d + 1] = w
        BY <2>1, <2>2, <2>3, <2>8
    <3> QED BY ONLY <2>1, <2>4, <2>5, <2>6, <2>8, <3>1
  <2> QED BY <2>7, <2>8
<1>6. n \in S
  <2> HIDE DEF S
  <2> QED BY <1>3, <1>4, <1>5, SetInduction
<1> QED BY <1>3, <1>6

Count(K, s, n) == Len(LinesOf(K, s, n))

\* How many lines of a kind stand in front of a line.
LEMMA Counting ==
  ASSUME NEW s \in Seq(Lines), NEW K, NEW all, all = LinesOf(K, s, Len(s))
  PROVE  /\ all \in Seq(Nat) /\ Count(K, s, 0) = 0 /\ Count(K, s, Len(s)) = Len(all)
         /\ \A i \in 1 .. Len(all) : all[i] \in 1 .. Len(s) /\ s[all[i]].kind \in K
         /\ \A n \in 0 .. Len(s) : Count(K, s, n) \in Nat /\ Count(K, s, n) <= Len(all)
         /\ \A n \in 1 .. Len(s) :
              /\ s[n].kind \in K => Count(K, s, n) = Count(K, s, n - 1) + 1 /\ all[Count(K, s, n)] = n
              /\ s[n].kind \notin K => Count(K, s, n) = Count(K, s, n - 1)
         /\ \A n \in 0 .. Len(s) : \A j \in 1 .. n :
              s[j].kind \in K => \E i \in 1 .. Count(K, s, n) : all[i] = j
<1>1. PICK l \in Nat : l = Len(s)
    OBVIOUS
<1>2. PICK q : Collects(q, s, K) /\ \A n \in 0 .. Len(s) : LinesOf(K, s, n) = q[n]
    BY LinesOfCollects
<1>3. /\ q \in [0 .. l -> Seq(Nat)] /\ q[0] = <<>>
      /\ \A n \in 1 .. l : q[n] = IF s[n].kind \in K THEN Append(q[n - 1], n) ELSE q[n - 1]
    BY <1>1, <1>2 DEF Collects
<1>4. \A n \in 0 .. l : Count(K, s, n) = Len(q[n])
    BY <1>1, <1>2 DEF Count
<1>5. 0 \in 0 .. l /\ l \in 0 .. l /\ \A n \in 1 .. l : n \in 0 .. l /\ n - 1 \in 0 .. l /\ n \in Nat
    OBVIOUS
<1>6. all = q[l] /\ all \in Seq(Nat)
    BY <1>1, <1>2, <1>3, <1>5
<1>7. Count(K, s, 0) = 0 /\ Count(K, s, Len(s)) = Len(all)
    BY <1>1, <1>3, <1>4, <1>5, <1>6
<1>8. ASSUME NEW n \in 0 .. l
      PROVE  /\ Len(q[n]) \in Nat /\ Len(q[n]) <= Len(all)
             /\ \A i \in 1 .. Len(q[n]) : all[i] = q[n][i]
             /\ \A j \in 1 .. n : s[j].kind \in K => \E i \in 1 .. Len(q[n]) : all[i] = j
  <2>1. l \in n .. Len(s) /\ n \in 0 .. Len(s)
      BY <1>1
  <2>2. /\ q[n] \in Seq(Nat) /\ Len(q[n]) <= Len(q[l])
        /\ \A i \in 1 .. Len(q[n]) : q[l][i] = q[n][i]
      BY <1>2, <2>1, CollectsPrefix
  <2>3. \A j \in 1 .. n : s[j].kind \in K => \E i \in 1 .. Len(q[n]) : q[n][i] = j
      BY <1>2, <2>1, CollectsAre
  <2>4. Len(q[n]) \in Nat
      BY <2>2
  <2> QED BY ONLY <1>6, <2>2, <2>3, <2>4
<1>9. ASSUME NEW n \in 1 .. l
      PROVE  /\ s[n].kind \in K => Count(K, s, n) = Count(K, s, n - 1) + 1 /\ all[Count(K, s, n)] = n
             /\ s[n].kind \notin K => Count(K, s, n) = Count(K, s, n - 1)
  <2>1. PICK w \in Seq(Nat) : w = q[n - 1]
      BY <1>3, <1>5
  <2>2. q[n] = IF s[n].kind \in K THEN Append(w, n) ELSE w
      BY <1>3, <2>1
  <2>3. Count(K, s, n) = Len(q[n]) /\ Count(K, s, n - 1) = Len(w)
      BY <1>4, <1>5, <2>1
  <2>4. CASE s[n].kind \in K
    <3>1. n \in Nat
        BY <1>5
    <3>2. PICK u : u = Append(w, n)
        OBVIOUS
    <3>3. PICK c \in Nat : c = Len(w)
        OBVIOUS
    <3>4. Len(u) = c + 1 /\ u[c + 1] = n
        BY <3>1, <3>2, <3>3, AppendIs
    <3>5. q[n] = u
        BY <2>2, <2>4, <3>2
    <3>6. all[c + 1] = q[n][c + 1]
      <4>1. n \in 0 .. l /\ c + 1 \in 1 .. c + 1
          BY <1>5, <3>3
      <4>2. \A i \in 1 .. Len(q[n]) : all[i] = q[n][i]
          BY <1>8, <4>1
      <4> QED BY <3>4, <3>5, <4>1, <4>2
    <3> QED BY <2>3, <2>4, <3>3, <3>4, <3>5, <3>6
  <2>5. CASE s[n].kind \notin K
      BY <2>2, <2>3, <2>5
  <2> QED BY <2>4, <2>5
<1>10. \A i \in 1 .. Len(all) : all[i] \in 1 .. l /\ s[all[i]].kind \in K
  <2>1. l \in 0 .. Len(s)
      BY <1>1
  <2> QED BY <1>2, <1>6, <2>1, CollectsAre
<1>11. \A n \in 0 .. l : Count(K, s, n) \in Nat /\ Count(K, s, n) <= Len(all)
    BY <1>4, <1>8
<1>12. \A n \in 0 .. l : \A j \in 1 .. n : s[j].kind \in K => \E i \in 1 .. Count(K, s, n) : all[i] = j
    BY <1>4, <1>8, SMTT(30)
<1> QED BY <1>1, <1>6, <1>7, <1>9, <1>10, <1>11, <1>12

SolidKinds == {"head", "var", "text"}
Behind(m, n) == Count(SolidKinds, m, n)

\* The lines of a makefile that are not blank.
LEMMA SolidIs ==
  ASSUME NEW m \in Seq(Lines)
  PROVE  /\ Solid(m) \in Seq(Lines)
         /\ Behind(m, 0) = 0 /\ Behind(m, Len(m)) = Len(Solid(m))
         /\ \A n \in 0 .. Len(m) : Behind(m, n) \in 0 .. Len(Solid(m))
         /\ \A n \in 1 .. Len(m) :
              /\ m[n].kind = "blank" => Behind(m, n) = Behind(m, n - 1)
              /\ m[n].kind # "blank" => Behind(m, n) = Behind(m, n - 1) + 1 /\ Solid(m)[Behind(m, n)] = m[n]
<1>1. PICK all : all = LinesOf(SolidKinds, m, Len(m))
    OBVIOUS
<1>2. all \in Seq(Nat)
    BY <1>1, Counting
<1>3. Solid(m) = [i \in DOMAIN all |-> m[all[i]]]
    BY <1>1 DEF Solid, SolidKinds
<1>4. DOMAIN all = 1 .. Len(all) /\ Len(all) \in Nat
    BY <1>2
<1>5. \A i \in 1 .. Len(all) : all[i] \in 1 .. Len(m)
    BY <1>1, Counting
<1>6. Solid(m) \in [1 .. Len(all) -> Lines]
    BY <1>3, <1>4, <1>5
<1>7. Solid(m) \in Seq(Lines) /\ Len(Solid(m)) = Len(all)
  <2> HIDE DEF Lines
  <2> QED BY <1>4, <1>6
<1>8. Behind(m, 0) = 0 /\ Behind(m, Len(m)) = Len(Solid(m))
    BY <1>1, <1>7, Counting DEF Behind
<1>9. \A n \in 0 .. Len(m) : Behind(m, n) \in Nat /\ Behind(m, n) <= Len(all)
    BY <1>1, Counting DEF Behind
<1>10. ASSUME NEW n \in 1 .. Len(m)
       PROVE  /\ m[n].kind = "blank" => Behind(m, n) = Behind(m, n - 1)
              /\ m[n].kind # "blank" => Behind(m, n) = Behind(m, n - 1) + 1 /\ Solid(m)[Behind(m, n)] = m[n]
  <2>1. m[n].kind \in SolidKinds <=> m[n].kind # "blank"
    <3>1. m[n] \in Lines
        OBVIOUS
    <3>2. m[n].kind \in {"head", "var", "text", "blank"}
        BY ONLY <3>1 DEF Lines
    <3> QED BY <3>2 DEF SolidKinds
  <2>2. /\ m[n].kind \in SolidKinds => Behind(m, n) = Behind(m, n - 1) + 1 /\ all[Behind(m, n)] = n
        /\ m[n].kind \notin SolidKinds => Behind(m, n) = Behind(m, n - 1)
      BY <1>1, Counting DEF Behind
  <2>3. n \in 0 .. Len(m) /\ n - 1 \in 0 .. Len(m)
      OBVIOUS
  <2>4. PICK b \in Nat, a \in Nat : b = Behind(m, n) /\ a = Behind(m, n - 1) /\ b <= Len(all)
      BY <1>9, <2>3
  <2>5. b = a + 1 => b \in DOMAIN all
      BY <1>4, <2>4
  <2> QED BY <1>3, <2>1, <2>2, <2>4, <2>5
<1>11. \A n \in 0 .. Len(m) : Behind(m, n) \in 0 .. Len(Solid(m))
    BY <1>4, <1>7, <1>9
<1> QED BY <1>7, <1>8, <1>10, <1>11

\* No blank line is left in what is solid.
LEMMA NoBlankLines ==
  ASSUME NEW m \in Seq(Lines)
  PROVE  \A i \in 1 .. Len(Solid(m)) : Solid(m)[i].kind \in SolidKinds
<1>1. PICK all : all = LinesOf(SolidKinds, m, Len(m))
    OBVIOUS
<1>2. all \in Seq(Nat) /\ \A i \in 1 .. Len(all) : m[all[i]].kind \in SolidKinds
    BY <1>1, Counting
<1>3. Solid(m) = [i \in DOMAIN all |-> m[all[i]]]
    BY <1>1 DEF Solid, SolidKinds
<1>4. Len(Solid(m)) = Len(all)
  <2>1. Solid(m) \in Seq(Lines)
      BY SolidIs
  <2>2. DOMAIN Solid(m) = 1 .. Len(all) /\ Len(all) \in Nat
      BY <1>2, <1>3
  <2>3. DOMAIN Solid(m) = 1 .. Len(Solid(m)) /\ Len(Solid(m)) \in Nat
      BY <2>1
  <2> QED BY <2>2, <2>3
<1> QED BY <1>2, <1>3, <1>4, SMTT(30)

HeadsTo(s, b) == Count({"head"}, s, b)
VarsTo(s, b) == Count({"var"}, s, b)
Pending(s, b) == b > 0 /\ s[b].kind = "head"
RulesTo(s, b) == HeadsTo(s, b) - (IF Pending(s, b) THEN 1 ELSE 0)

\* The rules, line by line.
LEMMA RulesAre ==
  ASSUME NEW s \in Seq(Lines), NEW heads, heads = Numbers("head", s)
  PROVE  /\ heads \in Seq(Nat) /\ RulesIn(s) \in Seq(Range(RulesIn(s))) /\ Len(RulesIn(s)) = Len(heads)
         /\ DOMAIN RulesIn(s) = 1 .. Len(heads) /\ Len(RulesIn(s)) = HeadsTo(s, Len(s))
         /\ \A i \in 1 .. Len(heads) :
              /\ heads[i] \in 1 .. Len(s) /\ s[heads[i]].kind = "head"
              /\ RulesIn(s)[i] = [target |-> s[heads[i]].word, deps |-> s[heads[i]].text, cmd |-> s[heads[i] + 1].text]
<1>1. heads = LinesOf({"head"}, s, Len(s))
    BY DEF Numbers
<1>2. /\ heads \in Seq(Nat) /\ HeadsTo(s, Len(s)) = Len(heads)
      /\ \A i \in 1 .. Len(heads) : heads[i] \in 1 .. Len(s) /\ s[heads[i]].kind \in {"head"}
    BY <1>1, Counting DEF HeadsTo
<1>3. DOMAIN heads = 1 .. Len(heads) /\ Len(heads) \in Nat
    BY <1>2
<1>4. RulesIn(s) = [i \in 1 .. Len(heads) |->
         [target |-> s[heads[i]].word, deps |-> s[heads[i]].text, cmd |-> s[heads[i] + 1].text]]
    BY <1>3 DEF RulesIn
<1>5. RulesIn(s) \in Seq(Range(RulesIn(s))) /\ Len(RulesIn(s)) = Len(heads)
  <2>1. PICK r : r = RulesIn(s)
      OBVIOUS
  <2>2. DOMAIN r = 1 .. Len(heads) /\ r = [i \in 1 .. Len(heads) |-> r[i]]
      BY <1>4, <2>1
  <2>3. r \in [1 .. Len(heads) -> Range(r)]
      BY <2>2 DEF Range
  <2>4. r \in Seq(Range(r)) /\ Len(r) = Len(heads)
      BY <1>3, <2>3
  <2> QED BY <2>1, <2>4
<1> QED BY <1>2, <1>4, <1>5

\* The variables, line by line.
LEMMA VarsAre ==
  ASSUME NEW s \in Seq(Lines), NEW defs, defs = Numbers("var", s)
  PROVE  /\ defs \in Seq(Nat) /\ VarsIn(s) \in Seq(Range(VarsIn(s))) /\ Len(VarsIn(s)) = Len(defs)
         /\ DOMAIN VarsIn(s) = 1 .. Len(defs) /\ Len(VarsIn(s)) = VarsTo(s, Len(s))
         /\ \A i \in 1 .. Len(defs) :
              /\ defs[i] \in 1 .. Len(s) /\ s[defs[i]].kind = "var"
              /\ VarsIn(s)[i] = [name |-> s[defs[i]].word.base, value |-> s[defs[i]].text]
<1>1. defs = LinesOf({"var"}, s, Len(s))
    BY DEF Numbers
<1>2. /\ defs \in Seq(Nat) /\ VarsTo(s, Len(s)) = Len(defs)
      /\ \A i \in 1 .. Len(defs) : defs[i] \in 1 .. Len(s) /\ s[defs[i]].kind \in {"var"}
    BY <1>1, Counting DEF VarsTo
<1>3. DOMAIN defs = 1 .. Len(defs) /\ Len(defs) \in Nat
    BY <1>2
<1>4. VarsIn(s) = [i \in 1 .. Len(defs) |-> [name |-> s[defs[i]].word.base, value |-> s[defs[i]].text]]
    BY <1>3 DEF VarsIn
<1>5. VarsIn(s) \in Seq(Range(VarsIn(s))) /\ Len(VarsIn(s)) = Len(defs)
  <2>1. PICK r : r = VarsIn(s)
      OBVIOUS
  <2>2. DOMAIN r = 1 .. Len(defs) /\ r = [i \in 1 .. Len(defs) |-> r[i]]
      BY <1>4, <2>1
  <2>3. r \in [1 .. Len(defs) -> Range(r)]
      BY <2>2 DEF Range
  <2>4. r \in Seq(Range(r)) /\ Len(r) = Len(defs)
      BY <1>3, <2>3
  <2> QED BY <2>1, <2>4
<1> QED BY <1>2, <1>4, <1>5

\* The count grows at each line of the kind.
LEMMA CountingStep ==
  ASSUME NEW s \in Seq(Lines), NEW K, NEW all, all = LinesOf(K, s, Len(s)), NEW n \in 1 .. Len(s)
  PROVE  /\ s[n].kind \in K => Count(K, s, n) = Count(K, s, n - 1) + 1 /\ all[Count(K, s, n)] = n
         /\ s[n].kind \notin K => Count(K, s, n) = Count(K, s, n - 1)
BY Counting

\* The line of a number has that count.
LEMMA CountingFinds ==
  ASSUME NEW s \in Seq(Lines), NEW K, NEW all, all = LinesOf(K, s, Len(s)),
         NEW n \in 0 .. Len(s), NEW j \in 1 .. n, s[j].kind \in K
  PROVE  \E i \in 1 .. Count(K, s, n) : all[i] = j
BY Counting

\* What one more line adds to the rules and variables read.
LEMMA Progress ==
  ASSUME NEW s \in Seq(Lines), WellFormed(s), NEW b \in Nat, b + 1 <= Len(s)
  PROVE  /\ HeadsTo(s, b) \in Nat /\ VarsTo(s, b) \in Nat /\ RulesTo(s, b) \in Nat
         /\ s[b + 1].kind = "text" =>
              /\ Pending(s, b) /\ ~ Pending(s, b + 1)
              /\ RulesTo(s, b + 1) = RulesTo(s, b) + 1
              /\ HeadsTo(s, b + 1) = HeadsTo(s, b) /\ VarsTo(s, b + 1) = VarsTo(s, b)
              /\ RulesIn(s)[RulesTo(s, b) + 1] = [target |-> s[b].word, deps |-> s[b].text, cmd |-> s[b + 1].text]
         /\ s[b + 1].kind = "head" =>
              /\ ~ Pending(s, b) /\ Pending(s, b + 1)
              /\ RulesTo(s, b + 1) = RulesTo(s, b)
              /\ HeadsTo(s, b + 1) = HeadsTo(s, b) + 1 /\ VarsTo(s, b + 1) = VarsTo(s, b)
         /\ s[b + 1].kind = "var" =>
              /\ ~ Pending(s, b) /\ ~ Pending(s, b + 1)
              /\ RulesTo(s, b + 1) = RulesTo(s, b)
              /\ HeadsTo(s, b + 1) = HeadsTo(s, b) /\ VarsTo(s, b + 1) = VarsTo(s, b) + 1
              /\ VarsIn(s)[VarsTo(s, b) + 1] = [name |-> s[b + 1].word.base, value |-> s[b + 1].text]
         /\ \A w \in Range(s[b + 1].text) : IsRef(w) => \E k \in 1 .. VarsTo(s, b) : VarsIn(s)[k].name = w.base
<1>1. PICK c \in Nat : c = b + 1 /\ c - 1 = b
    OBVIOUS
<1>2. PICK l \in Nat : l = Len(s)
    OBVIOUS
<1>3. c \in 1 .. l /\ b \in 0 .. l /\ c \in 0 .. l /\ (b > 0 => b \in 1 .. l) /\ DOMAIN s = 1 .. l
    BY <1>1, <1>2
<1>4. PICK heads, defs : /\ heads = Numbers("head", s) /\ heads = LinesOf({"head"}, s, Len(s))
                         /\ defs = Numbers("var", s) /\ defs = LinesOf({"var"}, s, Len(s))
    BY DEF Numbers
<1>5. \A n \in 0 .. l : HeadsTo(s, n) \in Nat /\ HeadsTo(s, n) <= Len(heads)
    BY <1>2, <1>4, Counting DEF HeadsTo
<1>6. \A n \in 0 .. l : VarsTo(s, n) \in Nat /\ VarsTo(s, n) <= Len(defs)
    BY <1>2, <1>4, Counting DEF VarsTo
<1>7. \A n \in 1 .. l :
        /\ s[n].kind = "head" => HeadsTo(s, n) = HeadsTo(s, n - 1) + 1 /\ heads[HeadsTo(s, n)] = n
        /\ s[n].kind # "head" => HeadsTo(s, n) = HeadsTo(s, n - 1)
  <2>1. PICK K : K = {"head"}
      OBVIOUS
  <2>2. heads = LinesOf(K, s, Len(s)) /\ \A n : HeadsTo(s, n) = Count(K, s, n)
      BY <1>4, <2>1 DEF HeadsTo
  <2>3. ASSUME NEW n \in 1 .. Len(s)
        PROVE  /\ s[n].kind \in K => Count(K, s, n) = Count(K, s, n - 1) + 1 /\ heads[Count(K, s, n)] = n
               /\ s[n].kind \notin K => Count(K, s, n) = Count(K, s, n - 1)
      BY <2>2, CountingStep
  <2> QED BY <1>2, <2>1, <2>2, <2>3
<1>8. \A n \in 1 .. l :
        /\ s[n].kind = "var" => VarsTo(s, n) = VarsTo(s, n - 1) + 1 /\ defs[VarsTo(s, n)] = n
        /\ s[n].kind # "var" => VarsTo(s, n) = VarsTo(s, n - 1)
  <2>1. PICK K : K = {"var"}
      OBVIOUS
  <2>2. defs = LinesOf(K, s, Len(s)) /\ \A n : VarsTo(s, n) = Count(K, s, n)
      BY <1>4, <2>1 DEF VarsTo
  <2>3. ASSUME NEW n \in 1 .. Len(s)
        PROVE  /\ s[n].kind \in K => Count(K, s, n) = Count(K, s, n - 1) + 1 /\ defs[Count(K, s, n)] = n
               /\ s[n].kind \notin K => Count(K, s, n) = Count(K, s, n - 1)
      BY <2>2, CountingStep
  <2> QED BY <1>2, <2>1, <2>2, <2>3
<1>9. \A n \in 0 .. l : \A j \in 1 .. n : s[j].kind = "var" => \E i \in 1 .. VarsTo(s, n) : defs[i] = j
  <2>1. PICK K : K = {"var"}
      OBVIOUS
  <2>2. defs = LinesOf(K, s, Len(s)) /\ \A n : VarsTo(s, n) = Count(K, s, n)
      BY <1>4, <2>1 DEF VarsTo
  <2>3. ASSUME NEW n \in 0 .. Len(s), NEW j \in 1 .. n, s[j].kind \in K
        PROVE  \E i \in 1 .. Count(K, s, n) : defs[i] = j
      BY <2>2, <2>3, CountingFinds
  <2> QED BY <1>2, <2>1, <2>2, <2>3, SMTT(30)
<1>10. \A i \in 1 .. l :
         /\ s[i].kind = "head" => i < l /\ s[i + 1].kind = "text"
         /\ s[i].kind = "text" => i > 1 /\ s[i - 1].kind = "head"
         /\ \A w \in Range(s[i].text) : IsRef(w) => \E j \in 1 .. i - 1 : s[j].kind = "var" /\ s[j].word.base = w.base
    BY <1>2, <1>3 DEF WellFormed
<1>11. PICK hb \in Nat, hc \in Nat, vb \in Nat, vc \in Nat :
         /\ hb = HeadsTo(s, b) /\ hc = HeadsTo(s, c) /\ hc <= Len(heads)
         /\ vb = VarsTo(s, b) /\ vc = VarsTo(s, c) /\ vb <= Len(defs) /\ vc <= Len(defs) /\ hb <= Len(heads)
    BY <1>3, <1>5, <1>6
<1>12. Pending(s, b) => hb >= 1 /\ heads[hb] = b /\ s[c].kind = "text"
  <2> HAVE Pending(s, b)
  <2>1. b \in 1 .. l /\ s[b].kind = "head"
      BY <1>3 DEF Pending
  <2>2. HeadsTo(s, b) = HeadsTo(s, b - 1) + 1 /\ heads[HeadsTo(s, b)] = b
      BY <1>7, <2>1
  <2>3. b - 1 \in 0 .. l
      BY <2>1
  <2>4. PICK h \in Nat : h = HeadsTo(s, b - 1)
      BY <1>5, <2>3
  <2>5. s[b + 1].kind = "text"
      BY <1>10, <2>1
  <2> QED BY <1>1, <1>11, <2>2, <2>4, <2>5, SMTT(30)
<1>13. RulesTo(s, b) = hb - (IF Pending(s, b) THEN 1 ELSE 0) /\ RulesTo(s, c) = hc - (IF Pending(s, c) THEN 1 ELSE 0)
    BY <1>11 DEF RulesTo
<1>14. RulesTo(s, b) \in Nat
    BY <1>11, <1>12, <1>13, SMTT(30)
<1>15. Pending(s, c) <=> s[c].kind = "head"
    BY <1>3 DEF Pending
<1>16. ASSUME s[c].kind = "text"
       PROVE  /\ Pending(s, b) /\ ~ Pending(s, c)
              /\ RulesTo(s, c) = RulesTo(s, b) + 1 /\ hc = hb /\ vc = vb
              /\ RulesIn(s)[RulesTo(s, b) + 1] = [target |-> s[b].word, deps |-> s[b].text, cmd |-> s[c].text]
  <2>1. Pending(s, b)
    <3>1. c > 1 /\ s[c - 1].kind = "head"
        BY <1>3, <1>10, <1>16
    <3>2. b > 0
        BY <1>1, <3>1
    <3> QED BY <1>1, <3>1, <3>2 DEF Pending
  <2>2. ~ Pending(s, c)
      BY <1>15, <1>16
  <2>3. hc = hb /\ vc = vb
      BY <1>1, <1>3, <1>7, <1>8, <1>11, <1>16
  <2>4. RulesTo(s, b) = hb - 1 /\ RulesTo(s, c) = hb
      BY <1>13, <2>1, <2>2, <2>3
  <2>5. hb \in 1 .. Len(heads) /\ heads[hb] = b
      BY <1>11, <1>12, <2>1
  <2>6. RulesIn(s)[hb] = [target |-> s[heads[hb]].word, deps |-> s[heads[hb]].text, cmd |-> s[heads[hb] + 1].text]
      BY <1>4, <2>5, RulesAre
  <2> QED BY <1>1, <2>1, <2>2, <2>3, <2>4, <2>5, <2>6
<1>17. ASSUME s[c].kind = "head"
       PROVE  /\ ~ Pending(s, b) /\ Pending(s, c)
              /\ RulesTo(s, c) = RulesTo(s, b) /\ hc = hb + 1 /\ vc = vb
  <2>1. ~ Pending(s, b)
      BY <1>12, <1>17
  <2>2. Pending(s, c)
      BY <1>15, <1>17
  <2>3. hc = hb + 1 /\ vc = vb
      BY <1>1, <1>3, <1>7, <1>8, <1>11, <1>17
  <2> QED BY <1>13, <2>1, <2>2, <2>3
<1>18. ASSUME s[c].kind = "var"
       PROVE  /\ ~ Pending(s, b) /\ ~ Pending(s, c)
              /\ RulesTo(s, c) = RulesTo(s, b) /\ hc = hb /\ vc = vb + 1
              /\ VarsIn(s)[vb + 1] = [name |-> s[c].word.base, value |-> s[c].text]
  <2>1. ~ Pending(s, b)
      BY <1>12, <1>18
  <2>2. ~ Pending(s, c)
      BY <1>15, <1>18
  <2>3. hc = hb /\ vc = vb + 1 /\ defs[vc] = c
      BY <1>1, <1>3, <1>7, <1>8, <1>11, <1>18
  <2>4. vc \in 1 .. Len(defs)
      BY <1>11, <2>3
  <2>5. VarsIn(s)[vc] = [name |-> s[defs[vc]].word.base, value |-> s[defs[vc]].text]
      BY <1>4, <2>4, VarsAre
  <2> QED BY <1>13, <2>1, <2>2, <2>3, <2>5
<1>19. ASSUME NEW w \in Range(s[c].text), IsRef(w)
       PROVE  \E k \in 1 .. vb : VarsIn(s)[k].name = w.base
  <2>1. PICK j \in 1 .. c - 1 : s[j].kind = "var" /\ s[j].word.base = w.base
      BY <1>3, <1>10, <1>19
  <2>2. j \in 1 .. b
      BY <1>1, <2>1
  <2>3. PICK k \in 1 .. VarsTo(s, b) : defs[k] = j
      BY <1>3, <1>9, <2>1, <2>2
  <2>4. k \in 1 .. Len(defs)
      BY <1>11, <2>3
  <2>5. VarsIn(s)[k] = [name |-> s[defs[k]].word.base, value |-> s[defs[k]].text]
      BY <1>4, <2>4, VarsAre
  <2>6. k \in 1 .. vb
      BY <1>11, <2>3
  <2> QED BY <2>1, <2>3, <2>5, <2>6
<1> QED BY <1>1, <1>11, <1>14, <1>16, <1>17, <1>18, <1>19

----------------------------------------------------------------------------
(* Reading: parse                                                          *)

\* b lines of s are read: a rule and a half when the last one is a head.
ReadSoFar(s, b) ==
  /\ junk = FALSE
  /\ rules = [i \in 1 .. RulesTo(s, b) |-> RulesIn(s)[i]]
  /\ vars = [i \in 1 .. VarsTo(s, b) |-> VarsIn(s)[i]]
  /\ ctx = IF Pending(s, b) THEN {"CMD"} ELSE {}
  /\ cur = [target |-> cur.target, deps |-> cur.deps, name |-> cur.name]
  /\ Pending(s, b) => cur.target = s[b].word /\ cur.deps = s[b].text
  /\ allocs = 1 + HeadsTo(s, b) + HeadsTo(s, b) + RulesTo(s, b) + VarsTo(s, b) + VarsTo(s, b)

ReadInv ==
  /\ world \in Worlds
  /\ at \in 0 .. Len(world.makefile)
  /\ world.makefile \in Readable =>
       /\ phase = "parse" => ReadSoFar(Solid(world.makefile), Behind(world.makefile, at))
       /\ phase # "parse" => at = Len(world.makefile) /\ vars = VarsIn(Solid(world.makefile))
       /\ phase = "goal" => rules = RulesIn(Solid(world.makefile))
       /\ phase = "stuck" => stack # <<>>

\* Nothing is cut when every variable of a text is known, and nothing is added to
\* a text that does not end in one.
LEMMA RetrieveKnown ==
  ASSUME NEW text, NEW end, NEW n \in Nat, DOMAIN vars = 1 .. n, Len(vars) = n,
         text # <<>> => ~ IsRef(Last(text)),
         \A w \in Range(text) : IsRef(w) => \E k \in 1 .. n : vars[k].name = w.base
  PROVE  retrieve(text, end) = text
<1>1. ASSUME NEW i \in DOMAIN text, IsRef(text[i]) PROVE lookup_vars(text[i].base) # 0
  <2>1. PICK v : v = text[i].base
      OBVIOUS
  <2>2. PICK I : I = {k \in 1 .. n : vars[k].name = v}
      OBVIOUS
  <2>3. I # {} /\ I \subseteq Nat
    <3>1. text[i] \in Range(text)
        BY DEF Range
    <3> QED BY <1>1, <2>1, <2>2, <3>1
  <2>4. PICK m \in I : \A k \in I : m <= k
      BY <2>3, Least
  <2>5. Min(I) \in I
      BY <2>4 DEF Min
  <2>6. lookup_vars(v) = Min(I)
      BY <2>2, <2>3 DEF lookup_vars, SelectInSeq
  <2> QED BY <2>1, <2>2, <2>5, <2>6
<1>2. {i \in DOMAIN text : IsRef(text[i]) /\ lookup_vars(text[i].base) = 0} = {}
    BY <1>1
<1> QED BY <1>2 DEF retrieve

\* The next entry of a function, appended to those before it.
LEMMA AppendNext ==
  ASSUME NEW f, NEW k \in Nat, NEW x, f[k + 1] = x, NEW r, r = [i \in 1 .. k |-> f[i]]
  PROVE  Append(r, x) = [i \in 1 .. k + 1 |-> f[i]] /\ Len(r) = k /\ DOMAIN r = 1 .. k
<1>1. PICK V : V = {f[i] : i \in 1 .. k + 1}
    OBVIOUS
<1>2. k + 1 \in 1 .. k + 1 /\ \A i \in 1 .. k : i \in 1 .. k + 1
    OBVIOUS
<1>3. \A i \in 1 .. k + 1 : f[i] \in V
    BY <1>1
<1>4. r \in [1 .. k -> V] /\ x \in V
    BY <1>2, <1>3
<1>5. r \in Seq(V) /\ Len(r) = k
    BY <1>4
<1>6. PICK t : t = [i \in 1 .. k + 1 |-> f[i]]
    OBVIOUS
<1>7. t \in [1 .. k + 1 -> V] /\ \A i \in 1 .. k + 1 : t[i] = f[i]
    BY <1>3, <1>6
<1>8. t \in Seq(V) /\ Len(t) = k + 1
    BY <1>7
<1>9. PICK u : u = Append(r, x)
    OBVIOUS
<1>10. u \in Seq(V) /\ Len(u) = k + 1 /\ u[k + 1] = x /\ \A i \in 1 .. k : u[i] = r[i]
    BY <1>4, <1>5, <1>9
<1>11. \A i \in 1 .. k + 1 : u[i] = t[i]
  <2>1. \A i \in 1 .. k + 1 : i \in 1 .. k \/ i = k + 1
      OBVIOUS
  <2>2. \A i \in 1 .. k : r[i] = f[i]
      OBVIOUS
  <2> QED BY <1>2, <1>7, <1>10, <2>1, <2>2
<1>12. u = t
    BY <1>8, <1>10, <1>11, SeqEqual
<1> QED BY <1>5, <1>6, <1>9, <1>12

\* What makes a makefile readable, for the one that is read.
LEMMA ReadableIs ==
  ASSUME ReadInv, world.makefile \in Readable
  PROVE  /\ world.makefile \in Seq(Lines) /\ Solid(world.makefile) \in Seq(Lines)
         /\ WellFormed(Solid(world.makefile))
         /\ Reading[world.makefile] =
              [rules |-> RulesIn(Solid(world.makefile)), vars |-> VarsIn(Solid(world.makefile))]
         /\ 1 + 3 * Len(RulesIn(Solid(world.makefile))) + 2 * Len(VarsIn(Solid(world.makefile))) <= MaxAllocs
<1>1. world \in Worlds
    BY DEF ReadInv
<1>2. world.makefile \in Seq(Lines)
    BY <1>1, WorldsAssumption
<1>3. Solid(world.makefile) \in Seq(Lines)
    BY <1>2, SolidIs
<1> QED BY <1>2, <1>3 DEF Readable, Reading

\* Blocks never run out.
LEMMA RoomToRead ==
  ASSUME NEW s \in Seq(Lines), NEW b \in 0 .. Len(s), NEW h \in Nat, NEW v \in Nat,
         h = Len(RulesIn(s)), v = Len(VarsIn(s)), 1 + 3 * h + 2 * v <= MaxAllocs
  PROVE  1 + HeadsTo(s, b) + HeadsTo(s, b) + RulesTo(s, b) + VarsTo(s, b) + VarsTo(s, b) <= MaxAllocs
<1>1. PICK heads, defs : /\ heads = Numbers("head", s) /\ heads = LinesOf({"head"}, s, Len(s))
                         /\ defs = Numbers("var", s) /\ defs = LinesOf({"var"}, s, Len(s))
    BY DEF Numbers
<1>2. Len(heads) = h /\ Len(defs) = v
    BY <1>1, RulesAre, VarsAre
<1>3. HeadsTo(s, b) \in Nat /\ HeadsTo(s, b) <= Len(heads)
    BY <1>1, Counting DEF HeadsTo
<1>4. VarsTo(s, b) \in Nat /\ VarsTo(s, b) <= Len(defs)
    BY <1>1, Counting DEF VarsTo
<1>5. PICK x \in Nat, y \in Nat : x = HeadsTo(s, b) /\ y = VarsTo(s, b) /\ x <= h /\ y <= v
    BY <1>2, <1>3, <1>4
<1>6. RulesTo(s, b) = x \/ RulesTo(s, b) = x - 1
    BY <1>5 DEF RulesTo
<1>7. MaxAllocs \in Nat
    BY LimitsAssumption
<1>8. PICK r \in Int, M \in Nat : r = RulesTo(s, b) /\ (r = x \/ r = x - 1) /\ M = MaxAllocs
    BY <1>5, <1>6, <1>7
<1>9. PICK i \in Nat, j \in Nat : i = h /\ j = v
    OBVIOUS
<1>10. 1 + 3 * i + 2 * j <= M /\ x <= i /\ y <= j
    BY <1>5, <1>8, <1>9
<1>11. 1 + x + x + r + y + y <= M
    BY ONLY <1>8, <1>10
<1> QED BY <1>5, <1>8, <1>11

\* In a readable makefile retrieve changes nothing.
LEMMA RetrieveRead ==
  ASSUME NEW s \in Seq(Lines), WellFormed(s), NEW b \in Nat, b + 1 <= Len(s), ReadSoFar(s, b),
         NEW end
  PROVE  retrieve(s[b + 1].text, end) = s[b + 1].text
<1>1. PICK n \in Nat : n = VarsTo(s, b)
    BY Progress
<1>2. vars = [i \in 1 .. n |-> VarsIn(s)[i]]
    BY <1>1 DEF ReadSoFar
<1>3. DOMAIN vars = 1 .. n /\ Len(vars) = n
    BY <1>2
<1>4. \A w \in Range(s[b + 1].text) : IsRef(w) => \E k \in 1 .. VarsTo(s, b) : VarsIn(s)[k].name = w.base
    BY Progress
<1>5. \A w \in Range(s[b + 1].text) : IsRef(w) => \E k \in 1 .. n : vars[k].name = w.base
    BY <1>1, <1>2, <1>4
<1>6. PICK text : text = s[b + 1].text
    OBVIOUS
<1>7. \A w \in Range(text) : IsRef(w) => \E k \in 1 .. n : vars[k].name = w.base
    BY <1>5, <1>6
<1>8. text # <<>> => ~ IsRef(Last(text))
  <2>1. b + 1 \in DOMAIN s
      OBVIOUS
  <2> QED BY <1>6, <2>1 DEF WellFormed
<1>9. retrieve(text, end) = text
    BY <1>3, <1>7, <1>8, RetrieveKnown
<1> QED BY <1>6, <1>9

\* Nor does it change what is no reference.
LEMMA RetrieveTarget ==
  ASSUME NEW w, ~ IsRef(w), NEW end
  PROVE  Head(retrieve(<<w>>, end)) = w
<1>1. PICK text : text = <<w>>
    OBVIOUS
<1>2. text # <<>> /\ Last(text) = w /\ DOMAIN text = {1} /\ text[1] = w /\ Head(text) = w
    BY <1>1 DEF Last
<1>3. {i \in DOMAIN text : IsRef(text[i]) /\ lookup_vars(text[i].base) = 0} = {}
    BY <1>2
<1>4. retrieve(text, end) = text
    BY <1>2, <1>3 DEF retrieve
<1> QED BY <1>1, <1>2, <1>4

\* The line behind a head is its command, and ends its rule.
LEMMA ReadCommand ==
  ASSUME NEW s \in Seq(Lines), WellFormed(s), NEW b \in Nat, b + 1 <= Len(s), ReadSoFar(s, b),
         s[b + 1].kind = "text", EndCommand(s[b + 1]) \/ EndDeps(s[b + 1]) \/ EndVariable(s[b + 1]) \/ EndStray(s[b + 1]),
         allocs' = Stored(s[b + 1])
  PROVE  ReadSoFar(s, b + 1)'
<1>1. PICK w : w = s[b + 1]
    OBVIOUS
<1>2. PICK k \in Nat, h \in Nat, v \in Nat : k = RulesTo(s, b) /\ h = HeadsTo(s, b) /\ v = VarsTo(s, b)
    BY Progress
<1>3. /\ Pending(s, b) /\ ~ Pending(s, b + 1)
      /\ RulesTo(s, b + 1) = k + 1 /\ HeadsTo(s, b + 1) = h /\ VarsTo(s, b + 1) = v
      /\ RulesIn(s)[k + 1] = [target |-> s[b].word, deps |-> s[b].text, cmd |-> w.text]
  <2>1. /\ Pending(s, b) /\ ~ Pending(s, b + 1)
        /\ RulesTo(s, b + 1) = RulesTo(s, b) + 1
        /\ HeadsTo(s, b + 1) = HeadsTo(s, b) /\ VarsTo(s, b + 1) = VarsTo(s, b)
        /\ RulesIn(s)[RulesTo(s, b) + 1] = [target |-> s[b].word, deps |-> s[b].text, cmd |-> s[b + 1].text]
      BY Progress
  <2> QED BY ONLY <1>1, <1>2, <2>1
<1>4. /\ junk = FALSE /\ ctx = {"CMD"}
      /\ rules = [i \in 1 .. k |-> RulesIn(s)[i]]
      /\ vars = [i \in 1 .. v |-> VarsIn(s)[i]]
      /\ cur = [target |-> s[b].word, deps |-> s[b].text, name |-> cur.name]
      /\ allocs = 1 + h + h + k + v + v
    BY <1>2, <1>3 DEF ReadSoFar
<1>5. retrieve(w.text, NewLine) = w.text
    BY <1>1, RetrieveRead
<1>6. Opened(w) = {"CMD"} /\ Started(w) = cur /\ w.kind = "text"
    BY <1>1, <1>4 DEF Opened, Started
<1>7. EndCommand(w)
    BY <1>1, <1>6 DEF EndDeps, EndVariable, EndStray
<1>8. /\ rules' = Append(rules, RulesIn(s)[k + 1])
      /\ cur' = [target |-> Null, deps |-> <<>>, name |-> cur.name]
      /\ ctx' = {} /\ junk' = FALSE /\ vars' = vars
  <2>1. PICK t, d, n : t = s[b].word /\ d = s[b].text /\ n = cur.name
      OBVIOUS
  <2>2. cur = [target |-> t, deps |-> d, name |-> n]
      BY <1>4, <2>1
  <2>3. RulesIn(s)[k + 1] = [target |-> t, deps |-> d, cmd |-> w.text]
      BY <1>3, <2>1
  <2>4. Started(w) = [target |-> t, deps |-> d, name |-> n] /\ cur.deps = d
      BY ONLY <1>6, <2>2
  <2>5. Opened(w) \ {"CMD"} = {}
      BY <1>6
  <2>6. /\ rules' = Append(rules, [target |-> Started(w).target, deps |-> cur.deps, cmd |-> w.text])
        /\ cur' = [target |-> Null, deps |-> <<>>, name |-> Started(w).name]
        /\ ctx' = {} /\ junk' = FALSE /\ vars' = vars
      BY <1>5, <1>7, <2>5 DEF EndCommand
  <2> QED BY ONLY <2>1, <2>3, <2>4, <2>6
<1>9. rules' = [i \in 1 .. k + 1 |-> RulesIn(s)[i]]
    BY <1>4, <1>8, AppendNext, SMTT(30)
<1>10. allocs' = 1 + h + h + (k + 1) + v + v
    BY <1>1, <1>4, <1>6 DEF Stored
<1> QED BY <1>3, <1>4, <1>8, <1>9, <1>10 DEF ReadSoFar

\* The newline behind dependencies.
LEMMA ReadHead ==
  ASSUME NEW s \in Seq(Lines), WellFormed(s), NEW b \in Nat, b + 1 <= Len(s), ReadSoFar(s, b),
         s[b + 1].kind = "head", EndCommand(s[b + 1]) \/ EndDeps(s[b + 1]) \/ EndVariable(s[b + 1]) \/ EndStray(s[b + 1]),
         allocs' = Stored(s[b + 1])
  PROVE  ReadSoFar(s, b + 1)'
<1>1. PICK w : w = s[b + 1]
    OBVIOUS
<1>2. PICK k \in Nat, h \in Nat, v \in Nat : k = RulesTo(s, b) /\ h = HeadsTo(s, b) /\ v = VarsTo(s, b)
    BY Progress
<1>3. /\ ~ Pending(s, b) /\ Pending(s, b + 1)
      /\ RulesTo(s, b + 1) = k /\ HeadsTo(s, b + 1) = h + 1 /\ VarsTo(s, b + 1) = v
    BY <1>2, Progress
<1>4. /\ junk = FALSE /\ ctx = {}
      /\ rules = [i \in 1 .. k |-> RulesIn(s)[i]]
      /\ vars = [i \in 1 .. v |-> VarsIn(s)[i]]
      /\ cur = [target |-> cur.target, deps |-> cur.deps, name |-> cur.name]
      /\ allocs = 1 + h + h + k + v + v
    BY <1>2, <1>3 DEF ReadSoFar
<1>5. retrieve(w.text, NewLine) = w.text
    BY <1>1, RetrieveRead
<1>6. Opened(w) = {"TARGET"} /\ w.kind = "head"
    BY <1>1, <1>4 DEF Opened
<1>7. Started(w) = [target |-> w.word, deps |-> cur.deps, name |-> cur.name]
  <2>1. junk = FALSE
      BY <1>4
  <2>2. ~ IsRef(w.word)
    <3>1. b + 1 \in DOMAIN s
        OBVIOUS
    <3> QED BY <1>1, <1>6, <3>1 DEF WellFormed
  <2>3. Head(retrieve(<<w.word>>, ":")) = w.word
      BY <2>2, RetrieveTarget
  <2> QED BY ONLY <1>6, <2>1, <2>3 DEF Started
<1>8. EndDeps(w)
    BY <1>1, <1>6 DEF EndCommand, EndVariable, EndStray
<1>9. /\ cur' = [target |-> w.word, deps |-> w.text, name |-> cur.name]
      /\ ctx' = {"CMD"} /\ junk' = FALSE /\ vars' = vars /\ rules' = rules
    BY <1>5, <1>6, <1>7, <1>8 DEF EndDeps
<1>10. allocs' = 1 + (h + 1) + (h + 1) + k + v + v
    BY <1>1, <1>4, <1>6 DEF Stored
<1> QED BY <1>1, <1>3, <1>4, <1>9, <1>10 DEF ReadSoFar

\* The newline behind a variable's value.
LEMMA ReadVariable ==
  ASSUME NEW s \in Seq(Lines), WellFormed(s), NEW b \in Nat, b + 1 <= Len(s), ReadSoFar(s, b),
         s[b + 1].kind = "var", EndCommand(s[b + 1]) \/ EndDeps(s[b + 1]) \/ EndVariable(s[b + 1]) \/ EndStray(s[b + 1]),
         allocs' = Stored(s[b + 1])
  PROVE  ReadSoFar(s, b + 1)'
<1>1. PICK w : w = s[b + 1]
    OBVIOUS
<1>2. PICK k \in Nat, h \in Nat, v \in Nat : k = RulesTo(s, b) /\ h = HeadsTo(s, b) /\ v = VarsTo(s, b)
    BY Progress
<1>3. /\ ~ Pending(s, b) /\ ~ Pending(s, b + 1)
      /\ RulesTo(s, b + 1) = k /\ HeadsTo(s, b + 1) = h /\ VarsTo(s, b + 1) = v + 1
      /\ VarsIn(s)[v + 1] = [name |-> w.word.base, value |-> w.text]
  <2>1. /\ ~ Pending(s, b) /\ ~ Pending(s, b + 1)
        /\ RulesTo(s, b + 1) = RulesTo(s, b)
        /\ HeadsTo(s, b + 1) = HeadsTo(s, b) /\ VarsTo(s, b + 1) = VarsTo(s, b) + 1
        /\ VarsIn(s)[VarsTo(s, b) + 1] = [name |-> s[b + 1].word.base, value |-> s[b + 1].text]
      BY Progress
  <2> QED BY ONLY <1>1, <1>2, <2>1
<1>4. /\ junk = FALSE /\ ctx = {}
      /\ rules = [i \in 1 .. k |-> RulesIn(s)[i]]
      /\ vars = [i \in 1 .. v |-> VarsIn(s)[i]]
      /\ cur = [target |-> cur.target, deps |-> cur.deps, name |-> cur.name]
      /\ allocs = 1 + h + h + k + v + v
    BY <1>2, <1>3 DEF ReadSoFar
<1>5. retrieve(w.text, NewLine) = w.text
    BY <1>1, RetrieveRead
<1>6. Opened(w) = {"VARIABLE"} /\ w.kind = "var"
    BY <1>1, <1>4 DEF Opened
<1>7. Started(w) = [target |-> cur.target, deps |-> cur.deps, name |-> w.word.base]
  <2>1. junk = FALSE
      BY <1>4
  <2> QED BY ONLY <1>6, <2>1 DEF Started
<1>8. EndVariable(w)
    BY <1>1, <1>6 DEF EndCommand, EndDeps, EndStray
<1>9. /\ vars' = Append(vars, VarsIn(s)[v + 1])
      /\ cur' = [target |-> cur.target, deps |-> cur.deps, name |-> w.word.base]
      /\ ctx' = {} /\ junk' = FALSE /\ rules' = rules
    BY <1>3, <1>5, <1>6, <1>7, <1>8 DEF EndVariable
<1>10. vars' = [i \in 1 .. v + 1 |-> VarsIn(s)[i]]
    BY <1>4, <1>9, AppendNext, SMTT(30)
<1>11. allocs' = 1 + h + h + k + (v + 1) + (v + 1)
  <2>1. Opened(w) # {} /\ w.kind # "text" /\ allocs' = Stored(w) /\ allocs \in Nat
      BY <1>1, <1>4, <1>6
  <2>2. Stored(w) = allocs + 1 + 1
      BY ONLY <2>1 DEF Stored
  <2>3. PICK a \in Nat : a = allocs /\ a = 1 + h + h + k + v + v
      BY <1>4, <2>1
  <2>4. a + 1 + 1 = 1 + h + h + k + (v + 1) + (v + 1)
    <3>1. PICK c \in Nat : c = 1 + h + h + k
        BY ONLY <1>2
    <3>2. a = c + v + v /\ v \in Nat
        BY ONLY <1>2, <2>3, <3>1
    <3>3. a + 1 + 1 = c + (v + 1) + (v + 1)
        BY ONLY <3>1, <3>2
    <3> QED BY ONLY <3>1, <3>3
  <2>5. allocs' = a + 1 + 1
      BY ONLY <2>1, <2>2, <2>3
  <2> QED BY ONLY <2>4, <2>5
<1> QED BY <1>3, <1>4, <1>9, <1>10, <1>11 DEF ReadSoFar

\* search_rule finds the first rule that fits, or none does.
LEMMA HitIs ==
  ASSUME NEW n \in Nat, Len(rules) = n
  PROVE  /\ Hit # 0 => Hit \in 1 .. n /\ (rules[Hit].target = Null \/ Matches(rules[Hit], Asked))
         /\ Hit = 0 => \A i \in 1 .. n : rules[i].target # Null /\ ~ Matches(rules[i], Asked)
<1>1. PICK I : I = {i \in 1 .. n : rules[i].target = Null \/ Matches(rules[i], Asked)}
    OBVIOUS
<1>2. Hit = IF I # {} THEN Min(I) ELSE 0
    BY <1>1 DEF Hit, SelectInSeq
<1>3. I # {} => Min(I) \in I
  <2> HAVE I # {}
  <2>1. I \subseteq Nat
      BY <1>1
  <2>2. PICK m \in I : \A k \in I : m <= k
      BY <2>1, Least
  <2> QED BY <2>2 DEF Min
<1> QED BY <1>1, <1>2, <1>3

\* parse starts with nothing read.
LEMMA ReadInvStarts == Init => ReadInv
<1> SUFFICES ASSUME Init PROVE ReadInv
    OBVIOUS
<1>1. world \in Worlds /\ at = 0 /\ phase = "parse"
    BY DEF Init
<1>2. PICK m, s : m = world.makefile /\ s = Solid(m)
    OBVIOUS
<1>3. m \in Seq(Lines) /\ s \in Seq(Lines)
  <2>1. m \in Seq(Lines)
      BY <1>1, <1>2, WorldsAssumption
  <2> QED BY <1>2, <2>1, SolidIs
<1>4. Behind(m, 0) = 0
    BY <1>3, SolidIs
<1>5. HeadsTo(s, 0) = 0 /\ VarsTo(s, 0) = 0
  <2>1. PICK heads, defs : heads = LinesOf({"head"}, s, Len(s)) /\ defs = LinesOf({"var"}, s, Len(s))
      OBVIOUS
  <2> QED BY <1>3, <2>1, Counting DEF HeadsTo, VarsTo
<1>6. ~ Pending(s, 0) /\ RulesTo(s, 0) = 0
    BY <1>5 DEF Pending, RulesTo
<1>7. ReadSoFar(s, 0)
  <2>1. [i \in 1 .. 0 |-> RulesIn(s)[i]] = <<>> /\ [i \in 1 .. 0 |-> VarsIn(s)[i]] = <<>>
      OBVIOUS
  <2>2. cur = [target |-> cur.target, deps |-> cur.deps, name |-> cur.name]
    <3>1. cur = [target |-> Null, deps |-> <<>>, name |-> ""]
        BY DEF Init
    <3> QED BY ONLY <3>1
  <2>3. junk = FALSE /\ rules = <<>> /\ vars = <<>> /\ ctx = {} /\ allocs = 1
      BY DEF Init
  <2>4. 1 + 0 + 0 + 0 + 0 + 0 = 1
      OBVIOUS
  <2> QED BY <1>5, <1>6, <2>1, <2>2, <2>3, <2>4 DEF ReadSoFar
<1>8. at \in 0 .. Len(m)
    BY <1>1, <1>3
<1> QED BY <1>1, <1>2, <1>4, <1>7, <1>8 DEF ReadInv

\* parse reads one line more.
LEMMA ReadInvParse == ReadInv /\ parse => ReadInv'
<1> SUFFICES ASSUME ReadInv, parse PROVE ReadInv'
    OBVIOUS
<1>1. world \in Worlds /\ at \in 0 .. Len(world.makefile) /\ phase = "parse"
    BY DEF ReadInv, parse
<1>2. world' = world /\ at' = at + 1 /\ at < Len(world.makefile) /\ stack' = stack
    BY DEF parse
<1>3. PICK m : m = world.makefile /\ m \in Seq(Lines)
    BY <1>1, WorldsAssumption
<1>4. world' \in Worlds /\ at' \in 0 .. Len(world'.makefile)
  <2>1. Len(m) \in Nat
      BY <1>3
  <2> QED BY <1>1, <1>2, <1>3, <2>1
<1>5. PICK n \in 1 .. Len(m) : n = at + 1 /\ n - 1 = at
    BY <1>1, <1>2, <1>3
<1>6. ASSUME m \in Readable
      PROVE  phase' = "parse" /\ ReadSoFar(Solid(m), Behind(m, n))'
  <2>1. PICK s : s = Solid(m) /\ s \in Seq(Lines) /\ WellFormed(s)
      BY <1>3, <1>6, ReadableIs
  <2>2. PICK b \in 0 .. Len(s) : b = Behind(m, at) /\ ReadSoFar(s, b)
    <3>1. Behind(m, at) \in 0 .. Len(s)
        BY <1>1, <1>3, <2>1, SolidIs
    <3>2. ReadSoFar(s, Behind(m, at))
        BY <1>1, <1>3, <1>6, <2>1 DEF ReadInv
    <3> QED BY <3>1, <3>2
  <2>4. CASE m[n].kind = "blank"
    <3>1. Behind(m, n) = b
      <4>1. m[n].kind = "blank" => Behind(m, n) = Behind(m, n - 1)
          BY <1>3, SolidIs
      <4> QED BY <2>2, <1>5, <2>4, <4>1
    <3>2. UNCHANGED <<ctx, junk, cur, rules, vars, allocs, phase>>
        BY <1>3, <1>5, <2>4 DEF parse
    <3>3. ReadSoFar(s, b)'
        BY <2>2, <3>2 DEF ReadSoFar
    <3> QED BY <1>1, <2>1, <3>1, <3>2, <3>3
  <2>5. CASE m[n].kind # "blank"
    <3>1. Behind(m, n) = b + 1 /\ s[b + 1] = m[n]
      <4>1. m[n].kind # "blank" => Behind(m, n) = Behind(m, n - 1) + 1 /\ Solid(m)[Behind(m, n)] = m[n]
          BY <1>3, SolidIs
      <4> QED BY <2>1, <2>2, <1>5, <2>5, <4>1
    <3>2. b + 1 \in 1 .. Len(s)
      <4>1. n \in 0 .. Len(m)
          OBVIOUS
      <4>2. Behind(m, n) \in 0 .. Len(s)
          BY <1>3, <2>1, <4>1, SolidIs
      <4> QED BY <2>2, <3>1, <4>2
    <3>3. PICK w : w = s[b + 1]
        OBVIOUS
    <3>4. /\ EndCommand(w) \/ EndDeps(w) \/ EndVariable(w) \/ EndStray(w)
          /\ allocs' = Stored(w)
          /\ phase' = IF Stored(w) > MaxAllocs THEN "stuck" ELSE phase
        BY <1>3, <1>5, <2>5, <3>1, <3>3 DEF parse
    <3>5. ReadSoFar(s, b + 1)'
      <4>1. b \in Nat /\ b + 1 <= Len(s)
          BY <3>2
      <4>2. w.kind \in {"head", "var", "text"}
          BY <1>3, <2>1, <3>2, <3>3, NoBlankLines DEF SolidKinds
      <4>3. CASE w.kind = "text"
          BY <2>1, <2>2, <3>3, <3>4, <4>1, <4>3, ReadCommand
      <4>4. CASE w.kind = "head"
          BY <2>1, <2>2, <3>3, <3>4, <4>1, <4>4, ReadHead
      <4>5. CASE w.kind = "var"
          BY <2>1, <2>2, <3>3, <3>4, <4>1, <4>5, ReadVariable
      <4> QED BY <4>2, <4>3, <4>4, <4>5
    <3>6. allocs' <= MaxAllocs
      <4>1. PICK h \in Nat, v \in Nat : h = Len(RulesIn(s)) /\ v = Len(VarsIn(s))
        <5>1. PICK heads, defs : heads = Numbers("head", s) /\ defs = Numbers("var", s)
            OBVIOUS
        <5>2. Len(RulesIn(s)) = Len(heads) /\ heads \in Seq(Nat)
            BY <2>1, <5>1, RulesAre
        <5>3. Len(VarsIn(s)) = Len(defs) /\ defs \in Seq(Nat)
            BY <2>1, <5>1, VarsAre
        <5> QED BY <5>2, <5>3
      <4>2. 1 + 3 * h + 2 * v <= MaxAllocs
        <5>1. 1 + 3 * Len(RulesIn(s)) + 2 * Len(VarsIn(s)) <= MaxAllocs
            BY <1>3, <1>6, <2>1, ReadableIs
        <5> QED BY <4>1, <5>1
      <4>3. PICK c \in 0 .. Len(s) : c = b + 1
          BY <3>2
      <4>4. 1 + HeadsTo(s, c) + HeadsTo(s, c) + RulesTo(s, c) + VarsTo(s, c) + VarsTo(s, c) <= MaxAllocs
          BY <2>1, <4>1, <4>2, RoomToRead
      <4>5. allocs' = 1 + HeadsTo(s, c) + HeadsTo(s, c) + RulesTo(s, c) + VarsTo(s, c) + VarsTo(s, c)
          BY <3>5, <4>3 DEF ReadSoFar
      <4> QED BY <4>4, <4>5
    <3>7. ~ (Stored(w) > MaxAllocs)
      <4>1. allocs' \in Nat
        <5>1. PICK c \in 0 .. Len(s) : c = b + 1
            BY <3>2
        <5>2. allocs' = 1 + HeadsTo(s, c) + HeadsTo(s, c) + RulesTo(s, c) + VarsTo(s, c) + VarsTo(s, c)
            BY <3>5, <5>1 DEF ReadSoFar
        <5>3. PICK heads, defs : heads = LinesOf({"head"}, s, Len(s)) /\ defs = LinesOf({"var"}, s, Len(s))
            OBVIOUS
        <5>4. HeadsTo(s, c) \in Nat /\ VarsTo(s, c) \in Nat
            BY <2>1, <5>3, Counting DEF HeadsTo, VarsTo
        <5>5. RulesTo(s, c) \in Int /\ RulesTo(s, c) >= HeadsTo(s, c) - 1
            BY <5>4 DEF RulesTo
        <5>6. PICK x \in Nat, y \in Nat, r \in Int : x = HeadsTo(s, c) /\ y = VarsTo(s, c) /\ r = RulesTo(s, c) /\ r >= x - 1
            BY <5>4, <5>5
        <5>7. 1 + x + x + r + y + y \in Nat
            BY <5>6, SMTT(30)
        <5> QED BY <5>2, <5>6, <5>7
      <4>2. MaxAllocs \in Nat
          BY LimitsAssumption
      <4> QED BY <3>4, <3>6, <4>1, <4>2
    <3> QED BY <1>1, <2>1, <3>1, <3>4, <3>5, <3>7
  <2> QED BY <2>4, <2>5
<1>7. world'.makefile = m /\ at' = n
    BY <1>2, <1>3, <1>5
<1>8. m \in Readable => ReadSoFar(Solid(world.makefile), Behind(world.makefile, at))'
    BY <1>6, <1>7
<1> QED BY <1>4, <1>6, <1>7, <1>8 DEF ReadInv

\* What is read at the last line is the whole makefile.
LEMMA ReadToTheEnd ==
  ASSUME ReadInv, world.makefile \in Readable,
         ReadSoFar(Solid(world.makefile), Behind(world.makefile, Len(world.makefile)))
  PROVE  rules = RulesIn(Solid(world.makefile)) /\ vars = VarsIn(Solid(world.makefile))
<1>1. PICK s : s = Solid(world.makefile) /\ s \in Seq(Lines) /\ WellFormed(s)
    BY ReadableIs
<1>2. Behind(world.makefile, Len(world.makefile)) = Len(s)
    BY <1>1, ReadableIs, SolidIs
<1>3. ReadSoFar(s, Len(s))
    BY <1>1, <1>2
<1>4. ~ Pending(s, Len(s))
  <2> SUFFICES ASSUME Pending(s, Len(s)) PROVE FALSE
      OBVIOUS
  <2>1. Len(s) \in DOMAIN s /\ s[Len(s)].kind = "head"
      BY <1>1 DEF Pending
  <2>2. Len(s) < Len(s)
      BY <1>1, <2>1 DEF WellFormed
  <2>3. Len(s) \in Nat
      BY <1>1
  <2> QED BY <2>2, <2>3
<1>5. PICK heads, defs : heads = Numbers("head", s) /\ defs = Numbers("var", s)
    OBVIOUS
<1>6. /\ heads \in Seq(Nat) /\ DOMAIN RulesIn(s) = 1 .. Len(heads) /\ Len(heads) = HeadsTo(s, Len(s))
      /\ RulesIn(s) \in Seq(Range(RulesIn(s)))
    BY <1>1, <1>5, RulesAre
<1>7. /\ defs \in Seq(Nat) /\ DOMAIN VarsIn(s) = 1 .. Len(defs) /\ Len(defs) = VarsTo(s, Len(s))
      /\ VarsIn(s) \in Seq(Range(VarsIn(s)))
    BY <1>1, <1>5, VarsAre
<1>8. RulesTo(s, Len(s)) = Len(heads)
  <2>1. Len(heads) \in Nat
      BY <1>6
  <2> QED BY <1>4, <1>6, <2>1 DEF RulesTo
<1>9. rules = [i \in 1 .. Len(heads) |-> RulesIn(s)[i]] /\ vars = [i \in 1 .. Len(defs) |-> VarsIn(s)[i]]
    BY <1>3, <1>7, <1>8 DEF ReadSoFar
<1>10. RulesIn(s) = [i \in 1 .. Len(heads) |-> RulesIn(s)[i]]
    BY <1>6
<1>11. VarsIn(s) = [i \in 1 .. Len(defs) |-> VarsIn(s)[i]]
    BY <1>7
<1> QED BY <1>1, <1>9, <1>10, <1>11

\* The rules and variables stay as the last line left them.
LEMMA ReadInvParsed == ReadInv /\ parsed => ReadInv'
<1> SUFFICES ASSUME ReadInv, parsed PROVE ReadInv'
    OBVIOUS
<1>1. /\ world \in Worlds /\ at \in 0 .. Len(world.makefile) /\ phase = "parse" /\ phase' = "goal"
      /\ at = Len(world.makefile) /\ UNCHANGED <<world, at, vars, rules, stack>>
    BY DEF ReadInv, parsed, parseVars
<1>2. PICK m : m = world.makefile /\ m \in Seq(Lines)
    BY <1>1, WorldsAssumption
<1>3. ASSUME m \in Readable
      PROVE  rules = RulesIn(Solid(m)) /\ vars = VarsIn(Solid(m))
    BY <1>1, <1>2, <1>3, ReadToTheEnd DEF ReadInv
<1> QED BY <1>1, <1>2, <1>3 DEF ReadInv

\* In a readable makefile the first search meets no rule without a target.
LEMMA ReadInvFails == ReadInv /\ SearchFails => ReadInv'
<1> SUFFICES ASSUME ReadInv, SearchFails PROVE ReadInv'
    OBVIOUS
<1>1. /\ world \in Worlds /\ at \in 0 .. Len(world.makefile) /\ phase' = "stuck"
      /\ UNCHANGED <<world, at, vars, rules, stack>>
    BY DEF ReadInv, SearchFails, parseVars
<1>2. phase # "parse" /\ (stack = <<>> => phase = "goal")
    BY DEF SearchFails, Asking, InDeps
<1>3. ASSUME world.makefile \in Readable PROVE stack # <<>>
  <2> SUFFICES ASSUME stack = <<>> PROVE FALSE
      OBVIOUS
  <2>1. PICK s : s = Solid(world.makefile) /\ s \in Seq(Lines) /\ WellFormed(s)
      BY <1>3, ReadableIs
  <2>2. rules = RulesIn(s)
      BY <1>2, <1>3, <2>1 DEF ReadInv
  <2>3. PICK heads : heads = Numbers("head", s)
      OBVIOUS
  <2>4. PICK n \in Nat : n = Len(heads) /\ Len(rules) = n
    <3>1. heads \in Seq(Nat) /\ Len(RulesIn(s)) = Len(heads)
        BY <2>1, <2>3, RulesAre
    <3> QED BY <2>2, <3>1
  <2>5. Hit \in 1 .. n
      BY <2>4, HitIs DEF SearchFails
  <2>6. PICK i : i = Hit /\ i \in 1 .. Len(heads)
      BY <2>4, <2>5
  <2>7. /\ heads[i] \in 1 .. Len(s) /\ s[heads[i]].kind = "head"
        /\ RulesIn(s)[i] = [target |-> s[heads[i]].word, deps |-> s[heads[i]].text, cmd |-> s[heads[i] + 1].text]
      BY ONLY <2>1, <2>3, <2>6, RulesAre, SMTT(30)
  <2>8. rules[Hit].target # Null
    <3>1. heads[i] \in DOMAIN s
        BY <2>1, <2>7
    <3>2. s[heads[i]].word # Null
        BY <2>1, <2>7, <3>1 DEF WellFormed
    <3> QED BY <2>2, <2>6, <2>7, <3>2
  <2>9. Len(stack) # MaxDepth
      BY LimitsAssumption
  <2> QED BY <2>8, <2>9 DEF SearchFails
<1> QED BY <1>1, <1>2, <1>3 DEF ReadInv

\* Every step keeps what was read.
LEMMA ReadInvStep == ReadInv /\ [Next]_allVars => ReadInv'
<1> SUFFICES ASSUME ReadInv, [Next]_allVars PROVE ReadInv'
    OBVIOUS
<1>1. CASE parse
    BY <1>1, ReadInvParse
<1>2. CASE parsed
    BY <1>2, ReadInvParsed
<1>3. CASE EnterRule
    BY <1>3 DEF ReadInv, EnterRule, parseVars, Asking, InDeps
<1>4. CASE NoRule
  <2>1. phase # "parse" /\ phase' \in {"done", "build"} /\ UNCHANGED <<world, at, vars>>
      BY <1>4 DEF NoRule, parseVars, Asking, InDeps
  <2> QED BY <2>1 DEF ReadInv
<1>5. CASE SearchFails
    BY <1>5, ReadInvFails
<1>6. CASE OnDisk
  <2>1. phase # "parse" /\ phase' = "build" /\ UNCHANGED <<world, at, vars>>
      BY <1>6 DEF OnDisk, parseVars, InDeps
  <2> QED BY <2>1 DEF ReadInv
<1>7. CASE do_exec
  <2>1. /\ phase = "build" /\ UNCHANGED <<world, at, vars>>
        /\ phase' \in {"done", "build"} \/ (phase' = "stuck" /\ stack' = stack /\ stack # <<>>)
      BY <1>7 DEF do_exec, parseVars, AfterExec
  <2> QED BY <2>1 DEF ReadInv
<1>8. CASE UNCHANGED allVars
    BY <1>8 DEF ReadInv, allVars, parseVars, ReadSoFar
<1> QED BY <1>1, <1>2, <1>3, <1>4, <1>5, <1>6, <1>7, <1>8 DEF Next

\* ReadAsWritten: parse leaves the rules and variables of a readable makefile as it
\* writes them, whatever its length, and never runs out of HEAP_HEAD's entries.
THEOREM ReadAsWrittenSound == Spec => []ReadAsWritten
<1>1. ReadInv => ReadAsWritten
  <2> SUFFICES ASSUME ReadInv, at = Len(world.makefile), phase \in {"parse", "goal", "stuck"}, stack = <<>>,
                      world.makefile \in Readable
               PROVE  [rules |-> rules, vars |-> vars] = Reading[world.makefile] /\ phase # "stuck"
      BY DEF ReadAsWritten
  <2>1. phase # "stuck"
      BY DEF ReadInv
  <2>2. rules = RulesIn(Solid(world.makefile)) /\ vars = VarsIn(Solid(world.makefile))
    <3>1. CASE phase = "goal"
        BY <3>1 DEF ReadInv
    <3>2. CASE phase = "parse"
      <4>1. ReadSoFar(Solid(world.makefile), Behind(world.makefile, Len(world.makefile)))
          BY <3>2 DEF ReadInv
      <4> QED BY <4>1, ReadToTheEnd
    <3> QED BY <2>1, <3>1, <3>2
  <2> QED BY <2>1, <2>2, ReadableIs
<1> QED BY <1>1, ReadInvStarts, ReadInvStep, PTL DEF Spec

----------------------------------------------------------------------------
(* Building                                                                *)

RuleSet == [target : Words, deps : Seq(Words), cmd : Seq(Words)]
VarSet == [name : STRING, value : Seq(Words)]
Made == Reading[world.makefile].rules

\* A dependency of a rule, for the word the rule is used for.
DepOf(r, w, d) == Stemmed(d, IF r.target = w THEN "%" ELSE w.base)

\* Nothing more is done for this word, or its command has been run.
Handled(d) ==
  d \in world.files \/ RulesFor(world.makefile, d) = {} \/ \E k \in DOMAIN ran : ran[k].goal = d

\* The rules are those of the makefile; of one that has been used only the first
\* dependency is left, and the others are handled when it is no more in use.
CutInv ==
  /\ rules \in Seq(RuleSet) /\ Len(rules) = Len(Made)
  /\ \A i \in 1 .. Len(rules) :
       /\ rules[i].target = Made[i].target /\ rules[i].cmd = Made[i].cmd
       /\ rules[i].deps # Made[i].deps =>
            /\ Made[i].deps # <<>> /\ rules[i].deps = <<Made[i].deps[1]>>
            /\ (\A j \in 1 .. Len(stack) : stack[j].rule # i) =>
                 \A k \in 2 .. Len(Made[i].deps) : Handled(Made[i].deps[k])

\* A search in progress: what is left of the dependencies, and what is under way.
FrameIs(f, under) ==
  /\ f.rule \in 1 .. Len(Made) /\ Made[f.rule] \in RulesFor(world.makefile, f.goal)
  /\ f.stem <=> Made[f.rule].target # f.goal
  /\ Range(f.rest) \subseteq Range(Made[f.rule].deps)
  /\ \A d \in Range(Made[f.rule].deps) :
       \/ Handled(DepOf(Made[f.rule], f.goal, d)) \/ d \in Range(f.rest)
       \/ DepOf(Made[f.rule], f.goal, d) \in under
  /\ f.stem => bind_str = f.goal.base
  /\ f.goal \notin files \ world.files

FrameSet == [rule : Nat, goal : Words, rest : Seq(Words), stem : BOOLEAN]
Under(j) == IF j < Len(stack) THEN {stack[j + 1].goal} ELSE {}

\* Each search is for something the ones below it need.
StackInv ==
  /\ stack \in Seq(FrameSet) /\ Len(stack) <= MaxDepth
  /\ stack # <<>> => stack[1].goal = world.goal
  /\ \A j \in 1 .. Len(stack) : FrameIs(stack[j], Under(j))
  /\ \A j \in 1 .. Len(stack) : \A i \in 1 .. j - 1 :
       stack[j].goal \in NeedsAfter(world.makefile, stack[i].goal)[(j - i) - 1]

\* A command that was run in vain would be in vain again.
Dead(g) ==
  \A r \in RulesFor(world.makefile, g) :
    \/ Out \notin Range(r.cmd) \/ g \in world.failing
    \/ /\ In \in Range(r.cmd) /\ r.deps # <<>>
       /\ DepOf(r, g, r.deps[1]) \notin files /\ Handled(DepOf(r, g, r.deps[1]))

RanInv ==
  /\ ran \in Seq(Range(ran))
  /\ world.files \subseteq files
  /\ \A f \in files : f \in world.files \/ \E k \in DOMAIN ran : ran[k].goal = f
  /\ \A k \in DOMAIN ran : ran[k].goal \in files \/ Dead(ran[k].goal)
  /\ \A n \in DOMAIN ran : \A d \in DepsFor(world.makefile, ran[n].goal) :
       \/ d \in world.files \/ RulesFor(world.makefile, d) = {}
       \/ \E k \in 1 .. n - 1 : ran[k].goal = d
  /\ \A n, k \in DOMAIN ran :
       (ran[n].goal = ran[k].goal /\ ran[n].goal \in files \ world.files) => n = k
  /\ RanAsWritten

BuildInv ==
  /\ phase \in {"parse", "goal"} => stack = <<>> /\ ran = <<>> /\ files = world.files
  /\ world \in Supported => (phase # "parse" => CutInv) /\ StackInv /\ RanInv

----------------------------------------------------------------------------
(* What a readable makefile says                                           *)

\* The rules and variables of a readable makefile.
LEMMA ReadRules ==
  ASSUME NEW x \in Worlds, NEW m, m = x.makefile, m \in Readable, NEW R, R = Reading[m].rules
  PROVE  /\ R \in Seq(RuleSet)
         /\ \A r \in Range(R) : \A t \in Range(r.cmd) :
              IsRef(t) => t # BrokenRef /\ t.ext = "" /\ \E v \in Range(Reading[m].vars) : v.name = t.base
<1>1. PICK s : s = Solid(m)
    OBVIOUS
<1>2. m \in Seq(Lines) /\ s \in Seq(Lines)
  <2>1. m \in Seq(Lines)
      BY WorldsAssumption
  <2> QED BY <1>1, <2>1, SolidIs
<1>3. WellFormed(s) /\ R = RulesIn(s) /\ Reading[m].vars = VarsIn(s)
    BY <1>1 DEF Readable, Reading
<1>4. PICK heads, defs : heads = Numbers("head", s) /\ defs = Numbers("var", s)
    OBVIOUS
<1>5. \A i \in 1 .. Len(s) : s[i] \in Lines
    BY <1>2
<1>6. \A i \in 1 .. Len(s) : s[i].word \in Words /\ s[i].text \in Seq(Words)
    BY <1>5 DEF Lines
<1>7. DOMAIN s = 1 .. Len(s) /\ Len(s) \in Nat
    BY <1>2
<1>8. ASSUME NEW i \in 1 .. Len(heads)
      PROVE  /\ R[i] \in RuleSet
             /\ \E j \in 2 .. Len(s) : R[i].cmd = s[j].text
  <2>1. /\ heads[i] \in 1 .. Len(s) /\ s[heads[i]].kind = "head"
        /\ R[i] = [target |-> s[heads[i]].word, deps |-> s[heads[i]].text, cmd |-> s[heads[i] + 1].text]
    <3>1. /\ heads[i] \in 1 .. Len(s) /\ s[heads[i]].kind = "head"
          /\ RulesIn(s)[i] = [target |-> s[heads[i]].word, deps |-> s[heads[i]].text, cmd |-> s[heads[i] + 1].text]
        BY ONLY <1>2, <1>4, i \in 1 .. Len(heads), RulesAre, ZenonT(30)
    <3> QED BY <1>3, <3>1
  <2>2. heads[i] < Len(s)
      BY <1>3, <1>7, <2>1 DEF WellFormed
  <2>3. heads[i] + 1 \in 2 .. Len(s) /\ heads[i] + 1 \in 1 .. Len(s)
      BY <1>7, <2>1, <2>2
  <2> QED BY <1>6, <2>1, <2>3 DEF RuleSet
<1>9. DOMAIN R = 1 .. Len(heads) /\ R \in Seq(RuleSet)
  <2>1. heads \in Seq(Nat) /\ DOMAIN RulesIn(s) = 1 .. Len(heads) /\ Len(RulesIn(s)) = Len(heads)
        /\ RulesIn(s) \in Seq(Range(RulesIn(s)))
      BY <1>2, <1>4, RulesAre
  <2>2. Len(heads) \in Nat
      BY <2>1
  <2>3. \A i \in 1 .. Len(heads) : R[i] \in RuleSet
      BY <1>8
  <2>4. R = [i \in 1 .. Len(heads) |-> R[i]]
      BY <1>3, <2>1
  <2>5. R \in [1 .. Len(heads) -> RuleSet]
      BY <2>3, <2>4
  <2> QED BY <1>3, <2>1, <2>2, <2>5
<1>10. ASSUME NEW r \in Range(R), NEW t \in Range(r.cmd), IsRef(t)
       PROVE  t # BrokenRef /\ t.ext = "" /\ \E v \in Range(Reading[m].vars) : v.name = t.base
  <2>1. PICK i \in 1 .. Len(heads) : r = R[i]
      BY <1>9 DEF Range
  <2>2. PICK j \in 2 .. Len(s) : r.cmd = s[j].text
      BY <1>8, <2>1
  <2>3. j \in DOMAIN s
      BY <1>7
  <2>4. PICK k \in 1 .. j - 1 : s[k].kind = "var" /\ s[k].word.base = t.base
      BY <1>3, <1>10, <2>2, <2>3 DEF WellFormed
  <2>5. k \in 1 .. Len(s)
      BY <1>7, <2>4
  <2>6. PICK d : d \in 1 .. Len(defs) /\ defs[d] = k
    <3>1. PICK K : K = {"var"} /\ defs = LinesOf(K, s, Len(s)) /\ s[k].kind \in K
        BY <1>4, <2>4 DEF Numbers
    <3>2. Len(s) \in 0 .. Len(s)
        BY <1>7
    <3>3. \E d \in 1 .. Count(K, s, Len(s)) : defs[d] = k
        BY ONLY <1>2, <2>5, <3>1, <3>2, CountingFinds
    <3>4. Count(K, s, Len(s)) = Len(defs)
        BY <1>2, <3>1, Counting
    <3> QED BY <3>3, <3>4
  <2>7. VarsIn(s)[d] = [name |-> s[defs[d]].word.base, value |-> s[defs[d]].text] /\ d \in DOMAIN VarsIn(s)
      BY <1>2, <1>4, <2>6, VarsAre
  <2>8. VarsIn(s)[d] \in Range(VarsIn(s)) /\ VarsIn(s)[d].name = t.base
      BY <2>4, <2>6, <2>7 DEF Range
  <2>9. t.base # ""
      BY <1>3, <1>7, <2>4, <2>5 DEF WellFormed
  <2>10. t # BrokenRef
    <3>1. BrokenRef.base = ""
        BY DEF BrokenRef, Ref, Word
    <3> QED BY <2>9, <3>1
  <2>11. t.ext = ""
    <3>1. PICK b : b = t.base
        OBVIOUS
    <3>2. t = Ref(b)
        BY <1>3, <1>10, <2>2, <2>3, <3>1 DEF WellFormed
    <3> QED BY <3>2 DEF Ref, Word
  <2> QED BY <1>3, <2>8, <2>10, <2>11
<1> QED BY <1>9, <1>10

\* The variables of a readable makefile have one value each.
LEMMA ReadVars ==
  ASSUME NEW x \in Worlds, NEW m, m = x.makefile, m \in Readable, NEW V, V = Reading[m].vars
  PROVE  /\ V \in Seq(VarSet)
         /\ \A u, v \in Range(V) : u.name = v.name => u = v
<1>1. PICK s : s = Solid(m)
    OBVIOUS
<1>2. m \in Seq(Lines) /\ s \in Seq(Lines)
  <2>1. m \in Seq(Lines)
      BY WorldsAssumption
  <2> QED BY <1>1, <2>1, SolidIs
<1>3. WellFormed(s) /\ V = VarsIn(s)
    BY <1>1 DEF Readable, Reading
<1>4. PICK defs : defs = Numbers("var", s)
    OBVIOUS
<1>5. \A i \in 1 .. Len(s) : s[i] \in Lines
    BY <1>2
<1>6. \A i \in 1 .. Len(s) : s[i].word.base \in STRING /\ s[i].text \in Seq(Words)
    BY <1>5 DEF Lines, Words
<1>7. DOMAIN s = 1 .. Len(s) /\ Len(s) \in Nat
    BY <1>2
<1>8. \A i \in 1 .. Len(defs) :
        /\ defs[i] \in 1 .. Len(s) /\ s[defs[i]].kind = "var"
        /\ V[i] = [name |-> s[defs[i]].word.base, value |-> s[defs[i]].text]
    BY <1>2, <1>3, <1>4, VarsAre
<1>9. \A i \in 1 .. Len(defs) : V[i] \in VarSet
  <2> TAKE i \in 1 .. Len(defs)
  <2>1. PICK j \in 1 .. Len(s) : V[i] = [name |-> s[j].word.base, value |-> s[j].text]
      BY <1>8
  <2> QED BY <1>6, <2>1 DEF VarSet
<1>10. DOMAIN V = 1 .. Len(defs) /\ V \in Seq(VarSet)
  <2>1. defs \in Seq(Nat) /\ DOMAIN VarsIn(s) = 1 .. Len(defs) /\ VarsIn(s) \in Seq(Range(VarsIn(s)))
      BY <1>2, <1>4, VarsAre
  <2>2. Len(defs) \in Nat
      BY <2>1
  <2>3. V = [i \in 1 .. Len(defs) |-> V[i]]
      BY <1>3, <2>1
  <2>4. V \in [1 .. Len(defs) -> VarSet]
      BY <1>9, <2>3
  <2> QED BY <1>3, <2>1, <2>2, <2>4
<1>11. ASSUME NEW u \in Range(V), NEW v \in Range(V), u.name = v.name PROVE u = v
  <2>1. PICK i \in 1 .. Len(defs), j \in 1 .. Len(defs) : u = V[i] /\ v = V[j]
      BY <1>10 DEF Range
  <2>2. s[defs[i]].word.base = s[defs[j]].word.base
    <3>1. \A k \in 1 .. Len(defs) : V[k].name = s[defs[k]].word.base
      <4> TAKE k \in 1 .. Len(defs)
      <4>1. V[k] = [name |-> s[defs[k]].word.base, value |-> s[defs[k]].text]
          BY <1>8
      <4> QED BY ONLY <4>1
    <3> QED BY <1>11, <2>1, <3>1
  <2>3. defs[i] = defs[j]
      BY <1>3, <1>7, <1>8, <2>2 DEF WellFormed
  <2> QED BY <1>8, <2>1, <2>3
<1> QED BY <1>10, <1>11

\* The parts of a word.
LEMMA WordHas ==
  ASSUME NEW w \in Words
  PROVE  w.dir \in STRING /\ w.base \in STRING /\ w.ext \in STRING
BY DEF Words

\* resolve_var_suffix changes words named % only.
LEMMA StemmedIs ==
  ASSUME NEW w \in Words, NEW stem
  PROVE  /\ stem \in STRING => Stemmed(w, stem) \in Words
         /\ w.base # "%" => Stemmed(w, stem) = w
         /\ Stemmed(w, "%") = w
<1>1. w = [dir |-> w.dir, base |-> w.base, ext |-> w.ext] /\ w.dir \in STRING /\ w.base \in STRING /\ w.ext \in STRING
    BY DEF Words
<1>2. stem \in STRING => Stemmed(w, stem) \in Words
    BY DEF Words, Stemmed
<1>3. Stemmed(w, "%") = w
    BY DEF Words, Stemmed
<1> QED BY <1>1, <1>2, <1>3 DEF Stemmed

\* The dependencies of a word are those of its rules.
LEMMA DepsAre ==
  ASSUME NEW x \in Worlds, NEW m, m = x.makefile, m \in Readable, NEW w \in Words
  PROVE  /\ DepsFor(m, w) \in SUBSET Words
         /\ \A r \in RulesFor(m, w) : r \in RuleSet /\ \A d \in Range(r.deps) : d \in Words /\ DepOf(r, w, d) \in DepsFor(m, w)
         /\ \A e \in DepsFor(m, w) : \E r \in RulesFor(m, w) : \E d \in Range(r.deps) : e = DepOf(r, w, d)
<1>1. PICK R : R = Reading[m].rules
    OBVIOUS
<1>2. R \in Seq(RuleSet)
    BY <1>1, ReadRules
<1>3. \A r \in Range(R) : r \in RuleSet
    BY <1>2 DEF Range
<1>4. \A r \in RulesFor(m, w) : r \in RuleSet
    BY <1>1, <1>3 DEF RulesFor
<1>5. ASSUME NEW r \in RuleSet, NEW d \in Range(r.deps) PROVE d \in Words
  <2>1. r.deps \in Seq(Words)
      BY DEF RuleSet
  <2>2. PICK i \in DOMAIN r.deps : d = r.deps[i]
      BY DEF Range
  <2> QED BY <2>1, <2>2
<1>6. \A r \in RulesFor(m, w) : \A d \in Range(r.deps) : DepOf(r, w, d) \in Words
  <2> TAKE r \in RulesFor(m, w)
  <2> TAKE d \in Range(r.deps)
  <2>1. w.base \in STRING
      BY WordHas
  <2>2. d \in Words
      BY <1>4, <1>5
  <2> QED BY <2>1, <2>2, StemmedIs DEF DepOf
<1>7. DepsFor(m, w) = UNION {{DepOf(r, w, d) : d \in Range(r.deps)} : r \in RulesFor(m, w)}
    BY DEF DepsFor, DepOf
<1> QED BY <1>4, <1>5, <1>6, <1>7

\* What a word needs over n + 1 steps.
LEMMA NeedsAre ==
  ASSUME NEW x \in Worlds, NEW m, m = x.makefile, m \in Readable, NEW w \in Words
  PROVE  /\ NeedsAfter(m, w)[0] = DepsFor(m, w)
         /\ \A n \in 0 .. MaxDepth : NeedsAfter(m, w)[n] \in SUBSET Words
         /\ \A n \in 1 .. MaxDepth :
              NeedsAfter(m, w)[n] = NeedsAfter(m, w)[n - 1] \cup UNION {DepsFor(m, d) : d \in NeedsAfter(m, w)[n - 1]}
<1>1. PICK l \in Nat : l = MaxDepth
    BY LimitsAssumption
<1>2. PICK D : D = [d \in Words |-> DepsFor(m, d)]
    OBVIOUS
<1>3. \A d \in Words : D[d] = DepsFor(m, d) /\ D[d] \in SUBSET Words
  <2> TAKE d \in Words
  <2>1. DepsFor(m, d) \in SUBSET Words
      BY DepsAre
  <2> QED BY <1>2, <2>1
<1> DEFINE More(s) == s \cup UNION {DepsFor(m, d) : d \in s}
<1>4. \A s \in SUBSET Words : More(s) \in SUBSET Words
    BY <1>3
<1> DEFINE step == [i \in 1 .. l |-> [s \in SUBSET Words |-> More(s)]]
<1> DEFINE F(f) == [i \in 0 .. l |-> IF i = 0 THEN DepsFor(m, w)
                                   ELSE LET s == f[i - 1] IN s \cup UNION {DepsFor(m, d) : d \in s}]
<1>5. step \in [1 .. l -> [SUBSET Words -> SUBSET Words]]
  <2> HIDE DEF More
  <2> QED BY <1>4
<1>6. DepsFor(m, w) \in SUBSET Words
    BY <1>3
<1>7. PICK g : Stepwise(step, DepsFor(m, w), g, SUBSET Words, l)
  <2> HIDE DEF step
  <2> QED BY <1>5, <1>6, StepwiseExists
<1>8. g \in [0 .. l -> SUBSET Words] /\ g[0] = DepsFor(m, w) /\ \A i \in 1 .. l : g[i] = step[i][g[i - 1]]
    BY <1>7 DEF Stepwise
<1>9. ASSUME NEW i \in 1 .. l PROVE g[i] = More(g[i - 1])
  <2>1. i - 1 \in 0 .. l
      OBVIOUS
  <2>2. g[i - 1] \in SUBSET Words
      BY <1>8, <2>1
  <2> HIDE DEF More
  <2> QED BY <1>8, <2>2
<1>10. g = F(g)
  <2>1. \A i \in 0 .. l : g[i] = F(g)[i]
    <3>1. \A i \in 0 .. l : i = 0 \/ i \in 1 .. l
        OBVIOUS
    <3> QED BY <1>8, <1>9, <3>1
  <2>2. DOMAIN g = 0 .. l /\ DOMAIN F(g) = 0 .. l /\ g = [i \in 0 .. l |-> g[i]]
      BY <1>8
  <2> QED BY <2>1, <2>2
<1> DEFINE f == CHOOSE h : h = F(h)
<1>11. f = F(f)
  <2> HIDE DEF F
  <2> QED BY <1>10
<1>12. NeedsAfter(m, w) = f
    BY <1>1 DEF NeedsAfter
<1> HIDE DEF f
<1>13. f[0] = DepsFor(m, w) /\ \A i \in 1 .. l : f[i] = More(f[i - 1])
  <2>1. \A i \in 0 .. l : f[i] = F(f)[i]
      BY <1>11
  <2>2. \A i \in 1 .. l : i \in 0 .. l /\ i # 0
      OBVIOUS
  <2>3. 0 \in 0 .. l
      OBVIOUS
  <2> QED BY <2>1, <2>2, <2>3
<1>14. \A n \in 0 .. l : f[n] \in SUBSET Words
  <2> DEFINE S == {n \in Nat : n <= l => f[n] \in SUBSET Words}
  <2>1. 0 \in S
      BY <1>6, <1>13
  <2>2. ASSUME NEW n \in Nat, n \in S PROVE n + 1 \in S
    <3> SUFFICES ASSUME n + 1 <= l PROVE f[n + 1] \in SUBSET Words
        OBVIOUS
    <3>1. n + 1 \in 1 .. l /\ (n + 1) - 1 = n /\ n <= l /\ n + 1 \in Nat
        OBVIOUS
    <3>2. f[n] \in SUBSET Words
        BY <2>2, <3>1
    <3>3. f[n + 1] = More(f[n])
        BY <1>13, <3>1
    <3> HIDE DEF More
    <3> QED BY <1>4, <3>2, <3>3
  <2> HIDE DEF S
  <2>3. \A n \in Nat : n \in S
      BY <2>1, <2>2, SetInduction
  <2> USE DEF S
  <2> QED BY <2>3
<1>15. \A n \in 1 .. l : f[n] = f[n - 1] \cup UNION {DepsFor(m, d) : d \in f[n - 1]}
    BY <1>13
<1> QED BY <1>1, <1>12, <1>13, <1>14, <1>15

\* A word needs more over more steps.
LEMMA NeedsGrow ==
  ASSUME NEW x \in Worlds, NEW m, m = x.makefile, m \in Readable, NEW w \in Words,
         NEW i \in 0 .. MaxDepth, NEW j \in i .. MaxDepth
  PROVE  NeedsAfter(m, w)[i] \subseteq NeedsAfter(m, w)[j]
<1>1. PICK l \in Nat : l = MaxDepth
    BY LimitsAssumption
<1>2. PICK f : f = NeedsAfter(m, w)
    OBVIOUS
<1>3. \A n \in 1 .. l : f[n - 1] \subseteq f[n]
  <2>1. ASSUME NEW n \in 1 .. MaxDepth
        PROVE  NeedsAfter(m, w)[n] = NeedsAfter(m, w)[n - 1] \cup UNION {DepsFor(m, d) : d \in NeedsAfter(m, w)[n - 1]}
      BY NeedsAre
  <2> QED BY <1>1, <1>2, <2>1
<1>4. i \in Nat /\ j \in Nat /\ i <= j /\ j <= l
    BY <1>1
<1> DEFINE S == {d \in Nat : i + d <= l => f[i] \subseteq f[i + d]}
<1>5. 0 \in S
    BY <1>4
<1>6. ASSUME NEW d \in Nat, d \in S PROVE d + 1 \in S
  <2> SUFFICES ASSUME i + (d + 1) <= l PROVE f[i] \subseteq f[i + (d + 1)]
      OBVIOUS
  <2>1. PICK e \in 1 .. l : e = i + (d + 1) /\ e - 1 = i + d /\ i + d <= l
      BY <1>4
  <2>2. f[i] \subseteq f[e - 1]
      BY <1>6, <2>1
  <2>3. f[e - 1] \subseteq f[e]
      BY <1>3
  <2> QED BY <2>1, <2>2, <2>3
<1>7. j - i \in S
  <2>1. j - i \in Nat
      BY <1>4
  <2> HIDE DEF S
  <2> QED BY <1>5, <1>6, <2>1, SetInduction
<1>8. i + (j - i) = j
    BY <1>4
<1> QED BY <1>2, <1>4, <1>7, <1>8

\* One step further.
LEMMA NeedsNext ==
  ASSUME NEW x \in Worlds, NEW m, m = x.makefile, m \in Readable, NEW w \in Words,
         NEW k \in 1 .. MaxDepth, NEW v \in NeedsAfter(m, w)[k - 1], NEW d \in DepsFor(m, v)
  PROVE  d \in NeedsAfter(m, w)[k]
<1>1. NeedsAfter(m, w)[k] = NeedsAfter(m, w)[k - 1] \cup UNION {DepsFor(m, e) : e \in NeedsAfter(m, w)[k - 1]}
    BY NeedsAre
<1> QED BY <1>1

\* The words a search can come to.
Near(x) == {x.goal} \cup NeedsAfter(x.makefile, x.goal)[MaxDepth - 1]

\* The words a search can come to, and what they need.
LEMMA NearIs ==
  ASSUME NEW x \in Worlds, NEW m, m = x.makefile, m \in Readable
  PROVE  /\ x.goal \in Near(x) /\ Near(x) \subseteq Words
         /\ \A v \in Near(x) : v \in {x.goal} \cup Needs(m, x.goal) /\ DepsFor(m, v) \subseteq Needs(m, x.goal)
         /\ \A k \in 1 .. MaxDepth : NeedsAfter(m, x.goal)[k - 1] \subseteq Near(x)
<1>1. MaxDepth \in Nat \ {0}
    BY LimitsAssumption
<1>2. x.goal \in Words
    BY WorldsAssumption
<1>3. /\ MaxDepth - 1 \in 0 .. MaxDepth /\ MaxDepth \in (MaxDepth - 1) .. MaxDepth /\ MaxDepth \in 1 .. MaxDepth
      /\ 0 \in 0 .. MaxDepth /\ MaxDepth \in 0 .. MaxDepth
    BY <1>1
<1>4. \A n \in 0 .. MaxDepth : NeedsAfter(m, x.goal)[n] \in SUBSET Words
    BY <1>2, NeedsAre
<1>5. NeedsAfter(m, x.goal)[0] = DepsFor(m, x.goal)
    BY <1>2, NeedsAre
<1>6. NeedsAfter(m, x.goal)[MaxDepth - 1] \subseteq Needs(m, x.goal)
    BY <1>2, <1>3, NeedsGrow DEF Needs
<1>7. DepsFor(m, x.goal) \subseteq Needs(m, x.goal)
  <2>1. NeedsAfter(m, x.goal)[0] \subseteq NeedsAfter(m, x.goal)[MaxDepth]
      BY <1>2, <1>3, NeedsGrow
  <2> QED BY <1>5, <2>1 DEF Needs
<1>8. \A v \in NeedsAfter(m, x.goal)[MaxDepth - 1] : DepsFor(m, v) \subseteq Needs(m, x.goal)
    BY <1>2, <1>3, NeedsNext DEF Needs
<1>9. ASSUME NEW k \in 1 .. MaxDepth PROVE NeedsAfter(m, x.goal)[k - 1] \subseteq NeedsAfter(m, x.goal)[MaxDepth - 1]
  <2>1. k - 1 \in 0 .. MaxDepth /\ MaxDepth - 1 \in (k - 1) .. MaxDepth
      BY <1>1
  <2> QED BY <1>2, <2>1, NeedsGrow
<1>10. x.makefile = m
    OBVIOUS
<1> QED BY <1>2, <1>3, <1>4, <1>6, <1>7, <1>8, <1>9, <1>10 DEF Near

\* What makes a makefile buildable, word for word.
LEMMA SupportedIs ==
  ASSUME NEW x \in Supported, NEW m, m = x.makefile
  PROVE  /\ x \in Worlds /\ m \in Readable
         /\ \A v \in Near(x) :
              /\ v \in Words /\ ~ IsRef(v) /\ v.base # "%" /\ v \notin Needs(m, v)
              /\ Cardinality(RulesFor(m, v)) <= 1
              /\ RulesFor(m, v) = {r \in Range(Reading[m].rules) : Matches(r, v)}
              /\ \A d \in DepsFor(m, v) : ~ IsRef(d) /\ d.base # "%"
              /\ ByPattern(m, v) =>
                   /\ \A d \in Needs(m, v) : ~ ByPattern(m, d)
                   /\ \A r \in RulesFor(m, v) : \A i \in DOMAIN r.deps : r.deps[i].base = "%" => i = 1
<1>1. x \in Buildable
    BY DEF Supported
<1>2. x \in Worlds /\ m \in Readable
    BY <1>1 DEF Buildable
<1>3. \A v \in Near(x) : v \in Words /\ v \in {x.goal} \cup Needs(m, x.goal) /\ DepsFor(m, v) \subseteq Needs(m, x.goal)
    BY <1>2, NearIs
<1>4. \A v \in {x.goal} \cup Needs(m, x.goal) :
        /\ ~ IsRef(v) /\ v.base # "%" /\ v \notin Needs(m, v)
        /\ Cardinality(RulesFor(m, v)) <= 1
        /\ RulesFor(m, v) = {r \in Range(Reading[m].rules) : Matches(r, v)}
    BY <1>1 DEF Buildable
<1>5. \A v \in {x.goal} \cup Needs(m, x.goal) :
        ByPattern(m, v) =>
          /\ \A d \in Needs(m, v) : ~ ByPattern(m, d)
          /\ \A r \in RulesFor(m, v) : \A i \in DOMAIN r.deps : r.deps[i].base = "%" => i = 1
    BY DEF Supported
<1> QED BY <1>2, <1>3, <1>4, <1>5

\* A word has one rule.
LEMMA OneRule ==
  ASSUME NEW x \in Supported, NEW m, m = x.makefile, NEW v \in Near(x),
         NEW r \in RulesFor(m, v), NEW q \in RulesFor(m, v)
  PROVE  r = q
<1>1. PICK R : R = Reading[m].rules /\ R \in Seq(RuleSet)
    BY SupportedIs, ReadRules
<1>2. PICK l \in Nat : DOMAIN R = 1 .. l /\ l \in Int /\ 1 \in Int
    BY <1>1
<1>3. Range(R) = {R[i] : i \in 1 .. l}
    BY <1>2 DEF Range
<1>4. IsFiniteSet(Range(R))
  <2>1. IsFiniteSet(1 .. l)
      BY <1>2, FS_Interval
  <2>2. R \in Surjection(1 .. l, Range(R))
    <3>1. R \in [1 .. l -> Range(R)]
        BY <1>1, <1>2, <1>3
    <3> QED BY <1>3, <3>1 DEF Surjection
  <2> QED BY <2>1, <2>2, FS_Surjection
<1>5. RulesFor(m, v) \subseteq Range(R)
    BY <1>1 DEF RulesFor
<1>6. IsFiniteSet(RulesFor(m, v))
    BY <1>4, <1>5, FS_Subset
<1>7. Cardinality(RulesFor(m, v)) <= 1
    BY SupportedIs
<1> SUFFICES ASSUME r # q PROVE FALSE
    OBVIOUS
<1>8. {r, q} \subseteq RulesFor(m, v) /\ Cardinality({r, q}) = 2
  <2>1. Cardinality({r}) = 1 /\ IsFiniteSet({r})
      BY FS_Singleton
  <2>2. Cardinality({r} \cup {q}) = 2
    <3>1. PICK one : one = {r} /\ IsFiniteSet(one) /\ Cardinality(one) = 1 /\ q \notin one
        BY <2>1
    <3>2. Cardinality(one \cup {q}) = IF q \in one THEN Cardinality(one) ELSE Cardinality(one) + 1
        BY <3>1, FS_AddElement
    <3> QED BY <3>1, <3>2
  <2>3. {r} \cup {q} = {r, q}
      OBVIOUS
  <2> QED BY <2>2, <2>3
<1>9. Cardinality({r, q}) <= Cardinality(RulesFor(m, v)) /\ Cardinality(RulesFor(m, v)) \in Nat
    BY <1>6, <1>8, FS_Subset, FS_CardinalityType
<1> QED BY <1>7, <1>8, <1>9

\* The rule of a word: its target with the stem is the word, and only the first
\* dependency of a pattern has a stem.
LEMMA RuleIs ==
  ASSUME NEW x \in Supported, NEW m, m = x.makefile, NEW v \in Near(x), NEW r \in RulesFor(m, v)
  PROVE  /\ r \in RuleSet
         /\ r.target # v => /\ ByPattern(m, v) /\ r.target.base = "%" /\ StemOf(v) = v.base
                            /\ Stemmed(r.target, v.base) = v
         /\ r.target = v => \A stem : Stemmed(r.target, stem) = v
         /\ \A d \in Range(r.deps) :
              /\ d \in Words /\ DepOf(r, v, d) \in DepsFor(m, v) /\ DepOf(r, v, d) \in Words /\ ~ IsRef(DepOf(r, v, d))
              /\ r.target # v => DepOf(r, v, d) = Stemmed(d, v.base)
              /\ r.target = v => d.base # "%" /\ \A stem : DepOf(r, v, d) = Stemmed(d, stem)
         /\ \A i \in 2 .. Len(r.deps) : DepOf(r, v, r.deps[i]) = r.deps[i]
<1>1. /\ x \in Worlds /\ m \in Readable /\ v \in Words /\ ~ IsRef(v) /\ v.base # "%"
      /\ Matches(r, v)
      /\ \A d \in DepsFor(m, v) : ~ IsRef(d) /\ d.base # "%"
      /\ ByPattern(m, v) => \A i \in DOMAIN r.deps : r.deps[i].base = "%" => i = 1
    BY SupportedIs
<1>2. /\ r \in RuleSet /\ \A d \in Range(r.deps) : d \in Words /\ DepOf(r, v, d) \in DepsFor(m, v)
      /\ DepsFor(m, v) \in SUBSET Words
    BY <1>1, DepsAre
<1>3. r.target \in Words /\ r.deps \in Seq(Words)
    BY <1>2 DEF RuleSet
<1>4. ASSUME r.target # v
      PROVE  /\ ByPattern(m, v) /\ r.target.base = "%" /\ StemOf(v) = v.base
             /\ Stemmed(r.target, v.base) = v
  <2>1. r.target.base = "%" /\ r.target.dir = v.dir /\ r.target.ext = v.ext
      BY <1>4 DEF RulesFor, Makes
  <2>2. v.dir # ""
      BY <1>1, <1>4, <2>1 DEF Matches, HasStem
  <2>3. PICK t : t = r.target /\ t \in Words
      BY <1>3
  <2>4. [t EXCEPT !.base = v.base] = v
      BY <1>1, <2>1, <2>3 DEF Words
  <2> QED BY <1>4, <2>1, <2>2, <2>3, <2>4 DEF ByPattern, StemOf, Stemmed
<1>5. r.target = v => \A stem : Stemmed(r.target, stem) = v
    BY <1>1, StemmedIs
<1>6. ASSUME NEW d \in Range(r.deps)
      PROVE  /\ d \in Words /\ DepOf(r, v, d) \in DepsFor(m, v) /\ DepOf(r, v, d) \in Words /\ ~ IsRef(DepOf(r, v, d))
             /\ r.target # v => DepOf(r, v, d) = Stemmed(d, v.base)
             /\ r.target = v => d.base # "%" /\ \A stem : DepOf(r, v, d) = Stemmed(d, stem)
  <2>1. d \in Words /\ DepOf(r, v, d) \in DepsFor(m, v) /\ DepOf(r, v, d) \in Words /\ ~ IsRef(DepOf(r, v, d))
      BY <1>1, <1>2
  <2>2. r.target # v => DepOf(r, v, d) = Stemmed(d, v.base)
      BY DEF DepOf
  <2>3. ASSUME r.target = v PROVE d.base # "%" /\ \A stem : DepOf(r, v, d) = Stemmed(d, stem)
    <3>1. DepOf(r, v, d) = d
        BY <2>1, <2>3, StemmedIs DEF DepOf
    <3>2. d.base # "%"
        BY <1>1, <2>1, <3>1
    <3> QED BY <2>1, <3>1, <3>2, StemmedIs
  <2> QED BY <2>1, <2>2, <2>3
<1>7. ASSUME NEW i \in 2 .. Len(r.deps) PROVE DepOf(r, v, r.deps[i]) = r.deps[i]
  <2>1. i \in DOMAIN r.deps /\ i # 1
      BY <1>3
  <2>2. PICK d : d = r.deps[i] /\ d \in Range(r.deps)
      BY <2>1 DEF Range
  <2>3. d.base # "%"
    <3>1. CASE r.target = v
        BY <1>6, <2>2, <3>1
    <3>2. CASE r.target # v
        BY <1>1, <1>4, <2>1, <2>2, <3>2
    <3> QED BY <3>1, <3>2
  <2>4. d \in Words
      BY <1>6, <2>2
  <2> QED BY <2>2, <2>3, <2>4, StemmedIs DEF DepOf
<1> QED BY <1>2, <1>4, <1>5, <1>6, <1>7

----------------------------------------------------------------------------
(* The words under way                                                     *)

\* The rules the makefile has.
LEMMA MadeIs ==
  ASSUME world \in Supported
  PROVE  /\ world \in Worlds /\ world.makefile \in Readable
         /\ Made \in Seq(RuleSet) /\ Len(Made) \in Nat /\ DOMAIN Made = 1 .. Len(Made)
         /\ Range(Made) = Range(Reading[world.makefile].rules)
         /\ \A i \in 1 .. Len(Made) : Made[i] \in RuleSet /\ Made[i].deps \in Seq(Words) /\ Made[i] \in Range(Made)
<1>1. PICK x, m : x = world /\ m = x.makefile
    OBVIOUS
<1>2. x \in Worlds /\ m \in Readable
    BY <1>1, SupportedIs
<1>3. PICK R : R = Reading[m].rules /\ R \in Seq(RuleSet)
    BY <1>1, <1>2, ReadRules
<1>4. Made = R
    BY <1>1, <1>3 DEF Made
<1>5. Len(R) \in Nat /\ DOMAIN R = 1 .. Len(R) /\ \A i \in 1 .. Len(R) : R[i] \in RuleSet
    BY <1>3
<1>6. \A i \in 1 .. Len(R) : R[i].deps \in Seq(Words)
    BY <1>5 DEF RuleSet
<1>7. \A i \in 1 .. Len(R) : R[i] \in Range(R)
    BY <1>5 DEF Range
<1> QED BY <1>1, <1>2, <1>3, <1>4, <1>5, <1>6, <1>7

\* The parts of a frame.
LEMMA FrameFields ==
  ASSUME NEW f \in FrameSet
  PROVE  f.rule \in Nat /\ f.goal \in Words /\ f.rest \in Seq(Words) /\ f.stem \in BOOLEAN
BY DEF FrameSet

\* The goals under way differ, and each is needed by those below it.
LEMMA GoalsNear ==
  ASSUME world \in Supported, StackInv, NEW j \in 1 .. Len(stack)
  PROVE  /\ stack[j] \in FrameSet /\ stack[j].goal \in Near(world) /\ stack[j].goal \in Words
         /\ \A i \in 1 .. j - 1 :
              /\ stack[j].goal \in Needs(world.makefile, stack[i].goal)
              /\ stack[j].goal # stack[i].goal
<1>1. PICK x, m : x = world /\ m = x.makefile /\ x \in Worlds /\ m \in Readable
    BY MadeIs
<1>2. PICK n \in Nat : n = Len(stack) /\ n <= MaxDepth
    BY DEF StackInv
<1>3. MaxDepth \in Nat
    BY LimitsAssumption
<1>4. \A i \in 1 .. n : stack[i] \in FrameSet
    BY <1>2 DEF StackInv
<1>5. \A i \in 1 .. n : stack[i].goal \in Words
    BY <1>4, FrameFields
<1>6. stack[1].goal = x.goal /\ 1 \in 1 .. n /\ j \in 1 .. n
    BY <1>1, <1>2 DEF StackInv
<1>7. \A k \in 1 .. n : \A i \in 1 .. k - 1 : stack[k].goal \in NeedsAfter(m, stack[i].goal)[(k - i) - 1]
    BY <1>1, <1>2 DEF StackInv
<1>8. \A k \in 1 .. n : stack[k].goal \in Near(x)
  <2> TAKE k \in 1 .. n
  <2>1. CASE k = 1
      BY <1>1, <1>6, <2>1, NearIs
  <2>2. CASE k # 1
    <3>1. PICK l \in 1 .. MaxDepth : l = k - 1 /\ (k - 1) - 1 = l - 1 /\ 1 \in 1 .. k - 1
        BY <1>2, <1>3, <2>2
    <3>2. stack[k].goal \in NeedsAfter(m, x.goal)[l - 1]
        BY <1>6, <1>7, <3>1
    <3> QED BY <1>1, <3>2, NearIs
  <2> QED BY <2>1, <2>2
<1>9. ASSUME NEW i \in 1 .. j - 1
      PROVE  stack[j].goal \in Needs(m, stack[i].goal) /\ stack[j].goal # stack[i].goal
  <2>1. i \in 1 .. n /\ (j - i) - 1 \in 0 .. MaxDepth /\ MaxDepth \in ((j - i) - 1) .. MaxDepth
      BY <1>2, <1>3, <1>6
  <2>2. PICK v \in Near(x) : v = stack[i].goal /\ v \in Words
      BY <1>5, <1>8, <2>1
  <2>3. PICK k \in 0 .. MaxDepth : k = (j - i) - 1 /\ MaxDepth \in k .. MaxDepth
      BY <2>1
  <2>4. stack[j].goal \in NeedsAfter(m, v)[k]
      BY <1>6, <1>7, <2>2, <2>3
  <2>5. NeedsAfter(m, v)[k] \subseteq NeedsAfter(m, v)[MaxDepth]
    <3>1. PICK e \in k .. MaxDepth : e = MaxDepth
        BY <2>3
    <3>2. v \in Words
        BY <2>2
    <3>3. NeedsAfter(m, v)[k] \subseteq NeedsAfter(m, v)[e]
        BY <1>1, <3>2, NeedsGrow
    <3> QED BY <3>1, <3>3
  <2>6. stack[j].goal \in Needs(m, v)
      BY <2>4, <2>5 DEF Needs
  <2>7. v \notin Needs(m, v)
      BY <1>1, SupportedIs
  <2> QED BY <2>2, <2>6, <2>7
<1> QED BY <1>1, <1>2, <1>4, <1>5, <1>6, <1>8, <1>9

\* What the rule in use says of its dependency, and where that stands.
LEMMA TopIs ==
  ASSUME world \in Supported, StackInv, stack # <<>>
  PROVE  /\ Len(stack) \in 1 .. MaxDepth /\ Top = stack[Len(stack)] /\ Top \in FrameSet
         /\ Top.goal \in Near(world)
         /\ FrameIs(Top, {})
         /\ \A d \in Range(Made[Top.rule].deps) :
              /\ d \in Words
              /\ Stemmed(d, bind_str) = DepOf(Made[Top.rule], Top.goal, d)
              /\ DepOf(Made[Top.rule], Top.goal, d) \in DepsFor(world.makefile, Top.goal)
              /\ ~ IsRef(DepOf(Made[Top.rule], Top.goal, d))
         /\ Stemmed(Made[Top.rule].target, bind_str) = Top.goal
<1>1. PICK n \in Nat : n = Len(stack) /\ n <= MaxDepth /\ stack \in Seq(FrameSet)
    BY DEF StackInv
<1>2. n \in 1 .. MaxDepth /\ n \in 1 .. n
  <2>1. n # 0
      BY <1>1
  <2>2. MaxDepth \in Nat
      BY LimitsAssumption
  <2> QED BY <1>1, <2>1, <2>2
<1>3. PICK f : f = stack[n] /\ f = Top
    BY <1>1 DEF Top, Last
<1>4. f \in FrameSet /\ f.goal \in Near(world)
    BY <1>1, <1>2, <1>3, GoalsNear
<1>5. FrameIs(f, {})
  <2>1. Under(n) = {}
      BY <1>1 DEF Under
  <2> QED BY <1>1, <1>2, <1>3, <2>1 DEF StackInv
<1>6. PICK r : r = Made[f.rule] /\ r \in RulesFor(world.makefile, f.goal)
    BY <1>5 DEF FrameIs
<1>7. (f.stem <=> r.target # f.goal) /\ (f.stem => bind_str = f.goal.base)
    BY <1>5, <1>6 DEF FrameIs
<1>8. /\ r.target # f.goal => Stemmed(r.target, f.goal.base) = f.goal
      /\ r.target = f.goal => \A stem : Stemmed(r.target, stem) = f.goal
      /\ \A d \in Range(r.deps) :
           /\ d \in Words /\ DepOf(r, f.goal, d) \in DepsFor(world.makefile, f.goal) /\ ~ IsRef(DepOf(r, f.goal, d))
           /\ r.target # f.goal => DepOf(r, f.goal, d) = Stemmed(d, f.goal.base)
           /\ r.target = f.goal => \A stem : DepOf(r, f.goal, d) = Stemmed(d, stem)
  <2>1. PICK x, m : x = world /\ m = x.makefile
      OBVIOUS
  <2>2. x \in Supported /\ f.goal \in Near(x) /\ r \in RulesFor(m, f.goal)
      BY <1>4, <1>6, <2>1
  <2>3. PICK v : v = f.goal
      OBVIOUS
  <2>4. /\ r.target # v => Stemmed(r.target, v.base) = v
        /\ r.target = v => \A stem : Stemmed(r.target, stem) = v
        /\ \A d \in Range(r.deps) :
             /\ d \in Words /\ DepOf(r, v, d) \in DepsFor(m, v) /\ ~ IsRef(DepOf(r, v, d))
             /\ r.target # v => DepOf(r, v, d) = Stemmed(d, v.base)
             /\ r.target = v => \A stem : DepOf(r, v, d) = Stemmed(d, stem)
      BY ONLY <2>1, <2>2, <2>3, RuleIs, SMTT(30)
  <2> QED BY <2>1, <2>3, <2>4
<1>9. Stemmed(r.target, bind_str) = f.goal
    BY <1>7, <1>8
<1>10. \A d \in Range(r.deps) : Stemmed(d, bind_str) = DepOf(r, f.goal, d)
    BY <1>7, <1>8
<1> QED BY <1>1, <1>2, <1>3, <1>4, <1>5, <1>6, <1>8, <1>9, <1>10

\* The word asked for is one the searches under way need.
LEMMA AskedIs ==
  ASSUME world \in Supported, StackInv, InDeps
  PROVE  /\ Head(Top.rest) \in Range(Made[Top.rule].deps)
         /\ Dependency = DepOf(Made[Top.rule], Top.goal, Head(Top.rest))
         /\ Dependency \in Words /\ Dependency \in Near(world)
         /\ \A i \in 1 .. Len(stack) :
              /\ Dependency \in NeedsAfter(world.makefile, stack[i].goal)[Len(stack) - i]
              /\ Dependency \in Needs(world.makefile, stack[i].goal)
<1>1. PICK x, m : x = world /\ m = x.makefile /\ x \in Worlds /\ m \in Readable
    BY MadeIs
<1>2. stack # <<>> /\ Top.rest # <<>>
    BY DEF InDeps
<1>3. PICK n \in 1 .. MaxDepth : n = Len(stack) /\ Top = stack[n]
    BY <1>2, TopIs
<1>4. MaxDepth \in Nat /\ n \in Nat /\ n \in 1 .. n
    BY <1>3, LimitsAssumption
<1>5. PICK f \in FrameSet : f = Top /\ f.goal \in Near(x)
    BY <1>1, <1>2, TopIs
<1>6. f.rest \in Seq(Words) /\ f.goal \in Words
    BY <1>5, FrameFields
<1>7. PICK d : d = Head(f.rest) /\ d \in Range(f.rest)
  <2>1. 1 \in DOMAIN f.rest /\ Head(f.rest) = f.rest[1]
      BY <1>2, <1>5, <1>6
  <2> QED BY <2>1 DEF Range
<1>8. d \in Range(Made[f.rule].deps)
  <2>1. FrameIs(f, {})
      BY <1>2, <1>5, TopIs
  <2> QED BY <1>7, <2>1 DEF FrameIs
<1>9. Stemmed(d, bind_str) = DepOf(Made[f.rule], f.goal, d) /\ DepOf(Made[f.rule], f.goal, d) \in DepsFor(m, f.goal)
    BY <1>1, <1>2, <1>5, <1>8, TopIs
<1>10. PICK e : e = Dependency /\ e = DepOf(Made[f.rule], f.goal, d) /\ e \in DepsFor(m, f.goal)
    BY <1>5, <1>7, <1>9 DEF Dependency
<1>11. ASSUME NEW i \in 1 .. n PROVE e \in NeedsAfter(m, stack[i].goal)[n - i] /\ e \in Needs(m, stack[i].goal)
  <2>1. PICK v : v = stack[i].goal /\ v \in Words
      BY <1>3, GoalsNear
  <2>2. e \in NeedsAfter(m, v)[n - i]
    <3>1. CASE i = n
      <4>1. NeedsAfter(m, v)[0] = DepsFor(m, v)
          BY <1>1, <2>1, NeedsAre
      <4>2. v = f.goal /\ n - i = 0
          BY <1>3, <1>4, <1>5, <2>1, <3>1
      <4> QED BY <1>10, <4>1, <4>2
    <3>2. CASE i # n
      <4>1. PICK k \in 1 .. MaxDepth : k = n - i /\ k - 1 = (n - i) - 1 /\ i \in 1 .. n - 1
          BY <1>4, <3>2
      <4>2. f.goal \in NeedsAfter(m, v)[k - 1]
          BY <1>1, <1>3, <1>4, <1>5, <2>1, <4>1 DEF StackInv
      <4>3. e \in NeedsAfter(m, v)[k]
          BY <1>1, <1>10, <2>1, <4>2, NeedsNext
      <4> QED BY <4>1, <4>3
    <3> QED BY <3>1, <3>2
  <2>3. PICK k \in 0 .. MaxDepth : k = n - i /\ MaxDepth \in k .. MaxDepth
      BY <1>4
  <2>4. NeedsAfter(m, v)[k] \subseteq NeedsAfter(m, v)[MaxDepth]
      BY <1>1, <2>1, <2>3, NeedsGrow
  <2>5. e \in NeedsAfter(m, v)[MaxDepth]
      BY <2>2, <2>3, <2>4
  <2> QED BY <2>1, <2>2, <2>5 DEF Needs
<1>12. e \in Near(x) /\ e \in Words
  <2>1. 1 \in 1 .. n /\ stack[1].goal = x.goal
      BY <1>1, <1>2, <1>4 DEF StackInv
  <2>2. e \in NeedsAfter(m, x.goal)[n - 1]
      BY <1>11, <2>1
  <2> QED BY <1>1, <2>2, NearIs
<1> QED BY <1>1, <1>3, <1>5, <1>7, <1>8, <1>10, <1>11, <1>12

----------------------------------------------------------------------------
(* Searches go on                                                          *)

\* The first dependency and the others.
LEMMA TailIs ==
  ASSUME NEW s \in Seq(Words), s # <<>>
  PROVE  /\ Tail(s) \in Seq(Words) /\ Head(s) = s[1]
         /\ Range(Tail(s)) \subseteq Range(s)
         /\ \A d \in Range(s) : d = Head(s) \/ d \in Range(Tail(s))
<1>1. PICK n \in Nat : n = Len(s) /\ n > 0
    OBVIOUS
<1>2. PICK t \in Seq(Words) : t = Tail(s) /\ Len(t) = n - 1 /\ \A i \in 1 .. n - 1 : t[i] = s[i + 1]
  <2>1. Tail(s) \in Seq(Words) /\ Len(Tail(s)) = Len(s) - 1 /\ \A i \in 1 .. Len(Tail(s)) : Tail(s)[i] = s[i + 1]
      BY HeadTailProperties
  <2> QED BY <1>1, <2>1
<1>3. DOMAIN s = 1 .. n /\ DOMAIN t = 1 .. n - 1
    BY <1>1, <1>2
<1>4. Range(t) \subseteq Range(s)
  <2> SUFFICES ASSUME NEW i \in 1 .. n - 1 PROVE t[i] \in Range(s)
      BY <1>3 DEF Range
  <2>1. i + 1 \in 1 .. n
      BY <1>1
  <2> QED BY <1>2, <1>3, <2>1 DEF Range
<1>5. ASSUME NEW d \in Range(s) PROVE d = Head(s) \/ d \in Range(t)
  <2>1. PICK i \in 1 .. n : d = s[i]
      BY <1>3 DEF Range
  <2>2. CASE i = 1
      BY <2>1, <2>2
  <2>3. CASE i # 1
    <3>1. PICK k \in 1 .. n - 1 : k = i - 1 /\ k + 1 = i
        BY <1>1, <2>3
    <3>2. t[k] = d /\ k \in DOMAIN t
        BY <1>2, <1>3, <2>1, <3>1
    <3> QED BY <3>2 DEF Range
  <2> QED BY <2>2, <2>3
<1> QED BY <1>2, <1>4, <1>5

\* Caller takes one dependency away from the top frame.
LEMMA CallerIs ==
  ASSUME StackInv, InDeps, NEW C, C = Caller, NEW n, n = Len(stack)
  PROVE  /\ n \in Nat /\ n > 0 /\ C \in Seq(FrameSet) /\ Len(C) = n
         /\ \A j \in 1 .. n : C[j].rule = stack[j].rule /\ C[j].goal = stack[j].goal /\ C[j].stem = stack[j].stem
         /\ \A j \in 1 .. n : j < n => C[j] = stack[j]
         /\ C[n].rest = Tail(stack[n].rest)
<1>1. stack \in Seq(FrameSet) /\ stack # <<>> /\ phase # "goal" /\ Top.rest # <<>>
    BY DEF StackInv, InDeps
<1>2. n \in Nat /\ n > 0 /\ n \in 1 .. n /\ DOMAIN stack = 1 .. n
    BY <1>1
<1>3. PICK f \in FrameSet : f = stack[n]
    BY <1>1, <1>2
<1>4. f.rest \in Seq(Words) /\ f.rest # <<>>
    BY <1>1, <1>3, FrameFields DEF Top, Last
<1>5. PICK g : g = [f EXCEPT !.rest = Tail(@)]
    OBVIOUS
<1>6. Tail(f.rest) \in Seq(Words)
    BY <1>4, TailIs
<1>7. g \in FrameSet /\ g.rule = f.rule /\ g.goal = f.goal /\ g.stem = f.stem /\ g.rest = Tail(f.rest)
    BY <1>5, <1>6 DEF FrameSet
<1>8. C = [stack EXCEPT ![n] = g]
    BY <1>1, <1>3, <1>5 DEF Caller
<1>9. C \in [1 .. n -> FrameSet]
    BY <1>1, <1>2, <1>7, <1>8
<1>10. C \in Seq(FrameSet) /\ Len(C) = n
    BY <1>2, <1>9
<1>11. C[n] = g /\ \A j \in 1 .. n : j # n => C[j] = stack[j]
    BY <1>1, <1>2, <1>8
<1> QED BY <1>2, <1>3, <1>7, <1>10, <1>11

Grows == world' = world /\ \A d : Handled(d) => Handled(d)'

\* A frame holds for as long as what it waits for is under way or handled.
LEMMA FrameStays ==
  ASSUME NEW f, NEW u, NEW v, FrameIs(f, u), Grows, \A e \in u : e \in v \/ Handled(e)',
         f.stem => bind_str' = bind_str, f.goal \notin files' \ world.files
  PROVE  FrameIs(f, v)'
<1>1. Made' = Made /\ world' = world
    BY DEF Grows, Made
<1>2. PICK r : r = Made[f.rule]
    OBVIOUS
<1>3. PICK w : w = f.goal
    OBVIOUS
<1>4. \A d \in Range(r.deps) :
        \/ Handled(DepOf(r, w, d)) \/ d \in Range(f.rest)
        \/ DepOf(r, w, d) \in u
    BY <1>2, <1>3 DEF FrameIs
<1>5. \A d \in Range(r.deps) :
        \/ Handled(DepOf(r, w, d))' \/ d \in Range(f.rest)
        \/ DepOf(r, w, d) \in v
  <2> TAKE d \in Range(r.deps)
  <2>1. PICK e : e = DepOf(r, w, d)
      OBVIOUS
  <2>2. Handled(e) \/ d \in Range(f.rest) \/ e \in u
      BY <1>4, <2>1
  <2>3. Handled(e) => Handled(e)'
      BY DEF Grows
  <2>4. Handled(e)' \/ d \in Range(f.rest) \/ e \in v
      BY <2>2, <2>3
  <2> QED BY <2>1, <2>4
<1> QED BY <1>1, <1>2, <1>3, <1>5 DEF FrameIs

\* The top frame holds when its next dependency is under way or handled.
LEMMA FrameGoesOn ==
  ASSUME NEW f \in FrameSet, FrameIs(f, {}), f.rest # <<>>, NEW g, NEW v, NEW e0, Grows,
         g.rule = f.rule, g.goal = f.goal, g.stem = f.stem, g.rest = Tail(f.rest),
         e0 = DepOf(Made[f.rule], f.goal, Head(f.rest)), e0 \in v \/ Handled(e0)',
         f.stem => bind_str' = bind_str, f.goal \notin files' \ world.files
  PROVE  FrameIs(g, v)'
<1>1. Made' = Made /\ world' = world
    BY DEF Grows, Made
<1>2. PICK r : r = Made[f.rule]
    OBVIOUS
<1>3. PICK w : w = f.goal
    OBVIOUS
<1>4. PICK rest \in Seq(Words) : rest = f.rest /\ rest # <<>>
    BY FrameFields
<1>5. \A d \in Range(r.deps) : Handled(DepOf(r, w, d)) \/ d \in Range(rest)
    BY <1>2, <1>3, <1>4 DEF FrameIs
<1>6. Range(Tail(rest)) \subseteq Range(rest) /\ \A d \in Range(rest) : d = Head(rest) \/ d \in Range(Tail(rest))
    BY <1>4, TailIs
<1>7. \A d \in Range(r.deps) :
        \/ Handled(DepOf(r, w, d))' \/ d \in Range(Tail(rest))
        \/ DepOf(r, w, d) \in v
  <2> TAKE d \in Range(r.deps)
  <2>1. PICK e : e = DepOf(r, w, d)
      OBVIOUS
  <2>2. Handled(e) \/ d \in Range(rest)
      BY <1>5, <2>1
  <2>3. Handled(e) => Handled(e)'
      BY DEF Grows
  <2>4. d = Head(rest) => e \in v \/ Handled(e)'
      BY <1>2, <1>3, <1>4, <2>1
  <2>5. Handled(e)' \/ d \in Range(Tail(rest)) \/ e \in v
      BY <1>6, <2>2, <2>3, <2>4
  <2> QED BY <2>1, <2>5
<1>8. Range(Tail(rest)) \subseteq Range(r.deps)
    BY <1>2, <1>4, <1>6 DEF FrameIs
<1> QED BY <1>1, <1>2, <1>3, <1>4, <1>7, <1>8 DEF FrameIs

\* All frames hold while the top one asks for its next dependency.
LEMMA CallerFrames ==
  ASSUME world \in Supported, StackInv, InDeps, Grows, files' = files, NEW C, C = Caller, NEW n, n = Len(stack),
         \A j \in 1 .. n : stack[j].stem => bind_str' = bind_str,
         NEW G, \A j \in 1 .. n : G[j] = stack[j].goal,
         NEW e0, e0 = Dependency, NEW v, e0 \in v \/ Handled(e0)'
  PROVE  /\ \A j \in 1 .. n : j < n => FrameIs(C[j], {G[j + 1]})'
         /\ FrameIs(C[n], v)'
<1>1. /\ n \in Nat /\ n > 0 /\ n \in 1 .. n
      /\ \A j \in 1 .. n : C[j].rule = stack[j].rule /\ C[j].goal = stack[j].goal /\ C[j].stem = stack[j].stem
      /\ \A j \in 1 .. n : j < n => C[j] = stack[j]
      /\ C[n].rest = Tail(stack[n].rest)
    BY CallerIs
<1>2. \A j \in 1 .. n : FrameIs(stack[j], Under(j))
    BY DEF StackInv
<1>3. ASSUME NEW j \in 1 .. n, j < n PROVE FrameIs(C[j], {G[j + 1]})'
  <2>0. j + 1 \in 1 .. n
      BY <1>1, <1>3
  <2>1. PICK f, u : f = stack[j] /\ u = {stack[j + 1].goal} /\ f = C[j] /\ u = {G[j + 1]}
      BY <1>1, <1>3, <2>0
  <2>2. FrameIs(f, u)
      BY <1>2, <1>3, <2>1 DEF Under
  <2>3. f.stem => bind_str' = bind_str
      BY <2>1
  <2>4. f.goal \notin files' \ world.files
      BY <2>2 DEF FrameIs
  <2>5. FrameIs(f, u)'
      BY <2>2, <2>3, <2>4, FrameStays
  <2> QED BY <2>1, <2>5
<1>4. FrameIs(C[n], v)'
  <2>1. PICK f, g : f = stack[n] /\ f = Top /\ g = C[n]
      BY <1>1 DEF Top, Last
  <2>2. stack # <<>> /\ f.rest # <<>>
      BY <2>1 DEF InDeps
  <2>3. f \in FrameSet /\ FrameIs(f, {})
      BY <2>1, <2>2, TopIs
  <2>4. e0 = DepOf(Made[f.rule], f.goal, Head(f.rest))
      BY <2>1, AskedIs
  <2>5. g.rule = f.rule /\ g.goal = f.goal /\ g.stem = f.stem /\ g.rest = Tail(f.rest)
      BY <1>1, <2>1
  <2>6. f.stem => bind_str' = bind_str
      BY <1>1, <2>1
  <2>7. f.goal \notin files' \ world.files
      BY <2>3 DEF FrameIs
  <2>8. FrameIs(g, v)'
      BY <2>2, <2>3, <2>4, <2>5, <2>6, <2>7, FrameGoesOn
  <2> QED BY <2>1, <2>8
<1> QED BY <1>3, <1>4

InUse(i) == \E j \in 1 .. Len(stack) : stack[j].rule = i

\* A rule stays cut: it is in use, or its other dependencies are done with.
LEMMA CutKeeps ==
  ASSUME CutInv, Grows, rules' = rules, NEW M, M = Made,
         \A i \in 1 .. Len(M) : InUse(i) =>
           InUse(i)' \/ \A k \in 2 .. Len(M[i].deps) : Handled(M[i].deps[k])'
  PROVE  CutInv'
<1>1. Made' = M
    BY DEF Grows, Made
<1>2. PICK n : n = Len(rules) /\ n = Len(M)
    BY DEF CutInv
<1>3. \A i \in 1 .. n :
        /\ rules[i].target = M[i].target /\ rules[i].cmd = M[i].cmd
        /\ rules[i].deps # M[i].deps =>
             /\ M[i].deps # <<>> /\ rules[i].deps = <<M[i].deps[1]>>
             /\ ~ InUse(i) => \A k \in 2 .. Len(M[i].deps) : Handled(M[i].deps[k])
    BY <1>2 DEF CutInv, InUse
<1>4. ASSUME NEW i \in 1 .. n, rules[i].deps # M[i].deps, ~ InUse(i)'
      PROVE  \A k \in 2 .. Len(M[i].deps) : Handled(M[i].deps[k])'
  <2>1. CASE InUse(i)
      BY <1>2, <1>4, <2>1
  <2>2. CASE ~ InUse(i)
    <3> TAKE k \in 2 .. Len(M[i].deps)
    <3>1. PICK e : e = M[i].deps[k]
        OBVIOUS
    <3>2. Handled(e)
        BY <1>3, <1>4, <2>2, <3>1
    <3>3. Handled(e)'
        BY <3>2 DEF Grows
    <3> QED BY <3>1, <3>3
  <2> QED BY <2>1, <2>2
<1>5. rules' \in Seq(RuleSet) /\ Len(rules') = n
    BY <1>2 DEF CutInv
<1>6. \A i \in 1 .. n : rules'[i].target = M[i].target /\ rules'[i].cmd = M[i].cmd
    BY <1>3
<1>7. \A i \in 1 .. n : rules'[i].deps # M[i].deps =>
        /\ M[i].deps # <<>> /\ rules'[i].deps = <<M[i].deps[1]>>
        /\ ~ InUse(i)' => \A k \in 2 .. Len(M[i].deps) : Handled(M[i].deps[k])'
    BY <1>3, <1>4
<1> QED BY <1>1, <1>2, <1>5, <1>6, <1>7 DEF CutInv, InUse

\* A dependency that is done with is passed over.
LEMMA Skipped ==
  ASSUME world \in Supported, StackInv, CutInv, InDeps, stack' = Caller, Handled(Dependency),
         UNCHANGED <<world, rules, bind_str, files, ran>>
  PROVE  StackInv' /\ CutInv'
<1>1. PICK C, n, e0 : C = Caller /\ n = Len(stack) /\ e0 = Dependency
    OBVIOUS
<1>2. PICK G : G = [j \in 1 .. n |-> stack[j].goal]
    OBVIOUS
<1>3. /\ n \in Nat /\ n > 0 /\ C \in Seq(FrameSet) /\ Len(C) = n
      /\ \A j \in 1 .. n : C[j].rule = stack[j].rule /\ C[j].goal = stack[j].goal
    BY <1>1, CallerIs
<1>4. Grows /\ Handled(e0)'
    BY <1>1 DEF Grows, Handled
<1>5. \A j \in 1 .. n : C[j].goal = G[j]
    BY <1>2, <1>3
<1>6. PICK v : v = {}
    OBVIOUS
<1>7. (\A j \in 1 .. n : j < n => FrameIs(C[j], {G[j + 1]})') /\ FrameIs(C[n], v)'
  <2>1. \A j \in 1 .. n : G[j] = stack[j].goal
      BY <1>2
  <2> QED BY <1>1, <1>4, <2>1, CallerFrames
<1>8. StackInv'
  <2>1. stack' = C /\ world' = world
      BY <1>1
  <2>2. ASSUME NEW j \in 1 .. n PROVE FrameIs(stack[j], Under(j))'
    <3>1. CASE j < n
      <4>1. j + 1 \in 1 .. n
          BY <1>3, <3>1
      <4>2. Under(j)' = {G[j + 1]}
          BY <1>3, <1>5, <2>1, <3>1, <4>1 DEF Under
      <4> QED BY <1>7, <2>1, <3>1, <4>2
    <3>2. CASE j = n
      <4>1. Under(j)' = v
          BY <1>3, <1>6, <2>1, <3>2 DEF Under
      <4> QED BY <1>7, <2>1, <3>2, <4>1
    <3> QED BY <1>3, <3>1, <3>2
  <2>3. n <= MaxDepth
      BY <1>1 DEF StackInv
  <2>4. C[1].goal = world.goal
      BY <1>1, <1>3 DEF StackInv
  <2>5. ASSUME NEW j \in 1 .. n, NEW i \in 1 .. j - 1
        PROVE  C[j].goal \in NeedsAfter(world.makefile, C[i].goal)[(j - i) - 1]
    <3>1. i \in 1 .. n
        BY <1>3
    <3>2. stack[j].goal \in NeedsAfter(world.makefile, stack[i].goal)[(j - i) - 1]
        BY <1>1 DEF StackInv
    <3> QED BY <1>3, <3>1, <3>2
  <2> QED BY <1>3, <2>1, <2>2, <2>3, <2>4, <2>5 DEF StackInv
<1>9. CutInv'
  <2>1. PICK M : M = Made
      OBVIOUS
  <2>2. \A i \in 1 .. Len(M) : InUse(i) => InUse(i)'
      BY <1>1, <1>3 DEF InUse
  <2> QED BY <1>4, <2>1, <2>2, CutKeeps
<1> QED BY <1>8, <1>9

\* A step that runs nothing keeps what has been run.
LEMMA RanKeeps ==
  ASSUME RanInv, UNCHANGED <<world, files, ran>>
  PROVE  RanInv'
<1>1. \A g : Dead(g) => Dead(g)'
    BY DEF Dead, Handled
<1>2. RanAsWritten => RanAsWritten'
    BY DEF RanAsWritten
<1>3. PICK r : r = ran /\ r = ran'
    OBVIOUS
<1>4. \A k \in DOMAIN r : r[k].goal \in files' \/ Dead(r[k].goal)'
  <2> TAKE k \in DOMAIN r
  <2>1. PICK g : g = r[k].goal
      OBVIOUS
  <2>2. g \in files \/ Dead(g)
      BY <1>3, <2>1 DEF RanInv
  <2> QED BY <1>1, <2>1, <2>2
<1>5. \A k \in DOMAIN ran' : ran'[k].goal \in files' \/ Dead(ran[k].goal)'
    BY <1>3, <1>4
<1> QED BY <1>2, <1>3, <1>5 DEF RanInv

\* There is nothing to be done about a word no rule fits, or one on disk.
LEMMA NoRuleIsHandled ==
  ASSUME world \in Supported, CutInv, NEW w \in Near(world), w = Asked, Hit = 0
  PROVE  Handled(w)
<1>1. PICK x, m : x = world /\ m = x.makefile
    OBVIOUS
<1>2. RulesFor(m, w) = {r \in Range(Reading[m].rules) : Matches(r, w)}
    BY <1>1, SupportedIs
<1>3. PICK n \in Nat : n = Len(Made) /\ DOMAIN Made = 1 .. n /\ Len(rules) = n
    BY MadeIs DEF CutInv
<1>4. \A i \in 1 .. n : ~ Matches(rules[i], w)
    BY <1>3, HitIs
<1>5. \A i \in 1 .. n : rules[i].target = Made[i].target
    BY <1>3 DEF CutInv
<1>6. \A i \in 1 .. n : ~ Matches(Made[i], w)
    BY <1>4, <1>5 DEF Matches
<1>7. Range(Reading[m].rules) = {Made[i] : i \in 1 .. n}
    BY <1>1, <1>3 DEF Made, Range
<1>8. RulesFor(m, w) = {}
    BY <1>2, <1>6, <1>7
<1> QED BY <1>1, <1>8 DEF Handled

\* A rule in use is not used a second time, nor a second pattern.
LEMMA NotTwice ==
  ASSUME world \in Supported, StackInv, NEW w \in Near(world), NEW h \in 1 .. Len(Made),
         Made[h] \in RulesFor(world.makefile, w),
         \A i \in 1 .. Len(stack) : w \in Needs(world.makefile, stack[i].goal)
  PROVE  /\ ~ InUse(h)
         /\ Made[h].target # w => \A j \in 1 .. Len(stack) : ~ stack[j].stem
<1>1. PICK x, m : x = world /\ m = x.makefile
    OBVIOUS
<1>2. PICK r : r = Made[h] /\ r \in RulesFor(m, w)
    BY <1>1
<1>3. r.target # w => ByPattern(m, w) /\ r.target.base = "%"
    BY <1>1, <1>2, RuleIs
<1>4. ASSUME NEW j \in 1 .. Len(stack)
      PROVE  stack[j].rule # h /\ (r.target # w => ~ stack[j].stem)
  <2>1. PICK f : f = stack[j]
      OBVIOUS
  <2>2. PICK v \in Near(x) : v = f.goal
      BY <1>1, <2>1, GoalsNear
  <2>3. FrameIs(f, Under(j))
      BY <2>1 DEF StackInv
  <2>4. PICK q : q = Made[f.rule] /\ q \in RulesFor(m, v) /\ (f.stem <=> q.target # v)
      BY <1>1, <2>2, <2>3 DEF FrameIs
  <2>5. w \in Needs(m, v)
      BY <1>1, <2>1, <2>2
  <2>6. q.target # v => ByPattern(m, v) /\ q.target.base = "%"
      BY <1>1, <2>4, RuleIs
  <2>7. /\ v.base # "%" /\ v \notin Needs(m, v)
        /\ ByPattern(m, v) => \A d \in Needs(m, v) : ~ ByPattern(m, d)
      BY <1>1, SupportedIs
  <2>8. w.base # "%"
      BY <1>1, SupportedIs
  <2>9. r.target # w => q.target = v
      BY <1>3, <2>5, <2>6, <2>7
  <2>10. f.rule # h
    <3> SUFFICES ASSUME f.rule = h PROVE FALSE
        OBVIOUS
    <3>1. q = r
        BY <1>2, <2>4
    <3>2. CASE q.target = v
      <4>1. r.target # w
          BY <2>5, <2>7, <3>1, <3>2
      <4> QED BY <1>3, <2>7, <3>1, <3>2, <4>1
    <3>3. CASE q.target # v
      <4>1. r.target = w
          BY <2>9, <3>3
      <4> QED BY <2>6, <2>8, <3>1, <3>3, <4>1
    <3> QED BY <3>2, <3>3
  <2> QED BY <2>1, <2>4, <2>9, <2>10
<1> QED BY <1>2, <1>4 DEF InUse

\* What _strtok leaves of a rule's dependencies.
LEMMA OneLeft ==
  ASSUME NEW ds \in Seq(Words)
  PROVE  SubSeq(ds, 1, Min({1, Len(ds)})) = IF ds = <<>> THEN <<>> ELSE <<ds[1]>>
<1>1. PICK l \in Nat : l = Len(ds)
    OBVIOUS
<1>2. {1, l} \subseteq Nat /\ {1, l} # {}
    OBVIOUS
<1>3. PICK a \in {1, l} : \A b \in {1, l} : a <= b
    BY <1>2, Least
<1>4. PICK k : k = Min({1, l}) /\ k \in {1, l} /\ \A b \in {1, l} : k <= b
    BY <1>3 DEF Min
<1>5. CASE ds = <<>>
  <2>1. l = 0 /\ k = 0
      BY <1>1, <1>4, <1>5
  <2>2. SubSeq(ds, 1, 0) = <<>>
      BY <1>5
  <2> QED BY <1>1, <1>4, <1>5, <2>1, <2>2
<1>6. CASE ds # <<>>
  <2>1. l >= 1 /\ k = 1
      BY <1>1, <1>4, <1>6
  <2>2. SubSeq(ds, 1, 1) = <<ds[1]>>
    <3>1. PICK t : t = SubSeq(ds, 1, 1)
        OBVIOUS
    <3>2. t \in Seq(Words) /\ Len(t) = 1 /\ t[1] = ds[1]
        BY <1>1, <2>1, <3>1
    <3>3. PICK u : u = <<ds[1]>>
        OBVIOUS
    <3>4. ds[1] \in Words
        BY <1>1, <2>1
    <3>5. u \in Seq(Words) /\ Len(u) = 1 /\ u[1] = ds[1]
        BY <3>3, <3>4
    <3>6. \A i \in 1 .. Len(t) : t[i] = u[i]
        BY <3>2, <3>5
    <3>7. t = u
        BY <3>2, <3>5, <3>6, SeqEqual
    <3> QED BY <3>1, <3>3, <3>7
  <2> QED BY <1>1, <1>4, <1>6, <2>1, <2>2
<1> QED BY <1>5, <1>6

\* Before a search begins nothing has been done.
StartInv == phase \in {"parse", "goal"} => stack = <<>> /\ ran = <<>> /\ files = world.files

\* The frames and the word of a search that begins.
LEMMA Callers ==
  ASSUME world \in Supported, StackInv, StartInv, Asking, NEW n, n = Len(stack), NEW C, C = Caller, NEW w, w = Asked
  PROVE  /\ n \in Nat /\ C \in Seq(FrameSet) /\ Len(C) = n
         /\ \A j \in 1 .. n : C[j].rule = stack[j].rule /\ C[j].goal = stack[j].goal /\ C[j].stem = stack[j].stem
         /\ w \in Near(world) /\ w \in Words /\ w \notin files \ world.files
         /\ \A i \in 1 .. n : /\ w \in NeedsAfter(world.makefile, stack[i].goal)[n - i]
                              /\ w \in Needs(world.makefile, stack[i].goal)
         /\ n = 0 => w = world.goal
<1>1. CASE phase = "goal"
  <2>1. stack = <<>> /\ files = world.files /\ C = <<>> /\ w = world.goal
      BY <1>1 DEF StartInv, Caller, Asked
  <2>2. n = 0 /\ C \in Seq(FrameSet) /\ Len(C) = 0
      BY <2>1
  <2>3. world \in Worlds /\ world.makefile \in Readable
      BY MadeIs
  <2>4. w \in Near(world) /\ w \in Words
    <3>1. PICK x, m : x = world /\ m = x.makefile
        OBVIOUS
    <3>2. x.goal \in Near(x) /\ Near(x) \subseteq Words
        BY <2>3, <3>1, NearIs
    <3> QED BY <2>1, <3>1, <3>2
  <2>5. \A i : i \notin 1 .. 0
      OBVIOUS
  <2> QED BY <2>1, <2>2, <2>4, <2>5
<1>2. CASE phase # "goal"
  <2>1. InDeps /\ w = Dependency /\ w \notin files
      BY <1>2 DEF Asking, Asked
  <2>2. /\ n \in Nat /\ n > 0 /\ C \in Seq(FrameSet) /\ Len(C) = n
        /\ \A j \in 1 .. n : C[j].rule = stack[j].rule /\ C[j].goal = stack[j].goal /\ C[j].stem = stack[j].stem
      BY <2>1, CallerIs
  <2>3. /\ w \in Words /\ w \in Near(world)
        /\ \A i \in 1 .. n : /\ w \in NeedsAfter(world.makefile, stack[i].goal)[n - i]
                             /\ w \in Needs(world.makefile, stack[i].goal)
      BY <2>1, AskedIs
  <2> QED BY <2>1, <2>2, <2>3
<1> QED BY <1>1, <1>2

\* search_rule has found the rule of the word.
LEMMA HitRule ==
  ASSUME world \in Supported, CutInv, NEW w \in Near(world), w = Asked, NEW h, h = Hit, h # 0, rules[h].target # Null
  PROVE  /\ h \in 1 .. Len(Made) /\ Made[h] \in RulesFor(world.makefile, w) /\ h \in Nat
         /\ h \in 1 .. Len(rules) /\ rules[h].target = Made[h].target
<1>1. PICK x, m : x = world /\ m = x.makefile
    OBVIOUS
<1>2. RulesFor(m, w) = {r \in Range(Reading[m].rules) : Matches(r, w)}
    BY <1>1, SupportedIs
<1>3. PICK n \in Nat : n = Len(Made) /\ DOMAIN Made = 1 .. n /\ Len(rules) = n
    BY MadeIs DEF CutInv
<1>4. h \in 1 .. n /\ Matches(rules[h], w)
    BY <1>3, HitIs
<1>5. rules[h].target = Made[h].target
    BY <1>3, <1>4 DEF CutInv
<1>6. Matches(Made[h], w)
    BY <1>4, <1>5 DEF Matches
<1>7. Made[h] \in Range(Reading[m].rules)
    BY <1>1, <1>3, <1>4 DEF Made, Range
<1> QED BY <1>1, <1>2, <1>3, <1>4, <1>5, <1>6, <1>7

\* The frame of a rule that is used for the first time, or has only its first
\* dependency left and the others done with.
LEMMA NewFrame ==
  ASSUME world \in Supported, CutInv, Grows, NEW w \in Near(world), NEW h \in 1 .. Len(Made),
         Made[h] \in RulesFor(world.makefile, w), ~ InUse(h), NEW g,
         g = [rule |-> h, goal |-> w, rest |-> rules[h].deps, stem |-> Made[h].target # w],
         Made[h].target # w => bind_str' = w.base, w \notin files' \ world.files
  PROVE  g \in FrameSet /\ FrameIs(g, {})'
<1>1. PICK x, m : x = world /\ m = x.makefile
    OBVIOUS
<1>2. PICK r \in RuleSet : r = Made[h] /\ r.deps \in Seq(Words)
    BY MadeIs
<1>3. Made' = Made /\ world' = world
    BY DEF Grows, Made
<1>4. h \in 1 .. Len(rules) /\ h \in Nat /\ rules \in Seq(RuleSet)
    BY MadeIs DEF CutInv
<1>5. PICK ds : ds = rules[h].deps /\ ds \in Seq(Words)
  <2>1. rules[h] \in RuleSet
      BY <1>4
  <2> QED BY <2>1 DEF RuleSet
<1>6. w \in Words
    BY <1>1, SupportedIs
<1>7. g \in FrameSet
    BY <1>4, <1>5, <1>6 DEF FrameSet
<1>8. ds # r.deps => /\ r.deps # <<>> /\ ds = <<r.deps[1]>>
                     /\ \A k \in 2 .. Len(r.deps) : Handled(r.deps[k])
  <2>1. \A j \in 1 .. Len(stack) : stack[j].rule # h
      BY DEF InUse
  <2> QED BY <1>2, <1>4, <1>5, <2>1 DEF CutInv
<1>9. \A k \in 2 .. Len(r.deps) : DepOf(r, w, r.deps[k]) = r.deps[k]
  <2>1. w \in Near(x) /\ x \in Supported /\ r \in RulesFor(m, w)
      BY <1>1, <1>2
  <2> QED BY <1>1, <2>1, RuleIs
<1>10. DOMAIN r.deps = 1 .. Len(r.deps) /\ Len(r.deps) \in Nat
    BY <1>2
<1>11. ASSUME NEW d \in Range(r.deps)
       PROVE  Handled(DepOf(r, w, d))' \/ d \in Range(ds)
  <2>1. CASE ds = r.deps
      BY <1>11, <2>1
  <2>2. CASE ds # r.deps
    <3>1. PICK k \in 1 .. Len(r.deps) : d = r.deps[k]
        BY <1>10, <1>11 DEF Range
    <3>2. CASE k = 1
      <4>1. ds = <<d>>
          BY <1>8, <2>2, <3>1, <3>2
      <4>2. 1 \in DOMAIN ds /\ ds[1] = d
          BY <4>1
      <4> QED BY <4>2 DEF Range
    <3>3. CASE k # 1
      <4>1. k \in 2 .. Len(r.deps)
          BY <1>10, <3>3
      <4>2. PICK e : e = DepOf(r, w, d) /\ e = r.deps[k]
          BY <1>9, <3>1, <4>1
      <4>3. Handled(e)
          BY <1>8, <2>2, <4>1, <4>2
      <4>4. Handled(e)'
          BY <4>3 DEF Grows
      <4> QED BY <4>2, <4>4
    <3> QED BY <3>2, <3>3
  <2> QED BY <2>1, <2>2
<1>12. Range(ds) \subseteq Range(r.deps)
  <2>1. CASE ds = r.deps
      BY <2>1
  <2>2. CASE ds # r.deps
    <3>1. ds = <<r.deps[1]>> /\ 1 \in DOMAIN r.deps
        BY <1>2, <1>8, <2>2
    <3>2. Range(ds) = {r.deps[1]}
        BY <3>1 DEF Range
    <3> QED BY <3>1, <3>2 DEF Range
  <2> QED BY <2>1, <2>2
<1>13. g.rule = h /\ g.goal = w /\ g.rest = ds /\ (g.stem <=> r.target # w)
    BY <1>2, <1>5
<1>14. FrameIs(g, {})'
    BY <1>1, <1>2, <1>3, <1>11, <1>12, <1>13 DEF FrameIs
<1> QED BY <1>7, <1>14

\* Append, for any sequence.
LEMMA AppendAll ==
  ASSUME NEW S, NEW s \in Seq(S), NEW g \in S, NEW t, t = Append(s, g)
  PROVE  /\ t \in Seq(S) /\ Len(t) = Len(s) + 1 /\ t[Len(s) + 1] = g
         /\ \A j \in 1 .. Len(s) : t[j] = s[j]
OBVIOUS

\* A search begins: the stack stays what it is, and the rule is cut.
LEMMA EnteredStack ==
  ASSUME world \in Supported, StackInv, StartInv, Grows, files' = files, Asking,
         NEW C, C = Caller, NEW w, w = Asked, NEW g \in FrameSet, g.goal = w, FrameIs(g, {})',
         stack' = Append(C, g), Len(stack) < MaxDepth,
         \A j \in 1 .. Len(stack) : stack[j].stem => bind_str' = bind_str
  PROVE  StackInv' /\ \A j \in 1 .. Len(stack) : Len(stack') = Len(stack) + 1 /\ stack'[j].rule = stack[j].rule
<1>1. PICK n : n = Len(stack)
    OBVIOUS
<1>2. /\ n \in Nat /\ C \in Seq(FrameSet) /\ Len(C) = n
      /\ \A j \in 1 .. n : C[j].rule = stack[j].rule /\ C[j].goal = stack[j].goal
      /\ \A i \in 1 .. n : w \in NeedsAfter(world.makefile, stack[i].goal)[n - i]
      /\ n = 0 => w = world.goal
    BY <1>1, Callers
<1>3. PICK t : t = stack' /\ t = Append(C, g)
    OBVIOUS
<1>4. /\ t \in Seq(FrameSet) /\ Len(t) = n + 1 /\ t[n + 1] = g
      /\ \A j \in 1 .. n : t[j] = C[j]
    BY <1>2, <1>3, AppendAll
<1>5. world' = world
    BY DEF Grows
<1>6. PICK G : G = [j \in 1 .. n |-> stack[j].goal]
    OBVIOUS
<1>7. \A j \in 1 .. n : t[j].goal = G[j] /\ t[j].rule = stack[j].rule
    BY <1>2, <1>4, <1>6
<1>8. ASSUME NEW j \in 1 .. n PROVE FrameIs(t[j], Under(j))'
  <2>1. InDeps /\ w = Dependency
    <3>1. phase # "goal"
        BY <1>1, <1>8 DEF StartInv
    <3> QED BY <3>1 DEF Asking, Asked
  <2>2. PICK v : v = {w}
      OBVIOUS
  <2>3. (\A k \in 1 .. n : k < n => FrameIs(C[k], {G[k + 1]})') /\ FrameIs(C[n], v)'
    <3>1. \A k \in 1 .. n : G[k] = stack[k].goal
        BY <1>6
    <3>2. w \in v
        BY <2>2
    <3>3. \A k \in 1 .. n : stack[k].stem => bind_str' = bind_str
        BY <1>1
    <3> QED BY <1>1, <2>1, <3>1, <3>2, <3>3, CallerFrames
  <2>4. CASE j < n
    <3>1. j + 1 \in 1 .. n
        BY <1>2, <2>4
    <3>2. Under(j)' = {G[j + 1]}
        BY <1>2, <1>3, <1>4, <1>7, <2>4, <3>1 DEF Under
    <3>3. FrameIs(C[j], {G[j + 1]})'
        BY <2>3, <2>4
    <3> QED BY <1>4, <3>2, <3>3
  <2>5. CASE j = n
    <3>1. Under(j)' = v
        BY <1>2, <1>3, <1>4, <2>2, <2>5 DEF Under
    <3> QED BY <1>4, <2>3, <2>5, <3>1
  <2> QED BY <1>2, <2>4, <2>5
<1>9. ASSUME NEW j \in 1 .. n + 1 PROVE FrameIs(t[j], Under(j))'
  <2>1. CASE j \in 1 .. n
      BY <1>8, <2>1
  <2>2. CASE j \notin 1 .. n
    <3>1. j = n + 1
        BY <1>2, <2>2
    <3>2. Under(j)' = {}
        BY <1>2, <1>3, <1>4, <3>1 DEF Under
    <3> QED BY <1>4, <3>1, <3>2
  <2> QED BY <2>1, <2>2
<1>10. ASSUME NEW j \in 1 .. n + 1, NEW i \in 1 .. j - 1
       PROVE  t[j].goal \in NeedsAfter(world.makefile, t[i].goal)[(j - i) - 1]
  <2>1. i \in 1 .. n
      BY <1>2
  <2>2. t[i].goal = stack[i].goal
      BY <1>2, <1>4, <2>1
  <2>3. CASE j \in 1 .. n
    <3>1. stack[j].goal \in NeedsAfter(world.makefile, stack[i].goal)[(j - i) - 1]
        BY <1>1, <2>3 DEF StackInv
    <3> QED BY <1>2, <1>4, <2>2, <2>3, <3>1
  <2>4. CASE j \notin 1 .. n
    <3>1. j = n + 1
        BY <1>2, <2>4
    <3>2. (j - i) - 1 = n - i
        BY <1>2, <3>1
    <3>3. t[j].goal = w
        BY <1>4, <3>1
    <3> QED BY <1>2, <2>1, <2>2, <3>2, <3>3
  <2> QED BY <2>3, <2>4
<1>11. t[1].goal = world.goal
  <2>1. CASE n = 0
      BY <1>2, <1>4, <2>1
  <2>2. CASE n # 0
    <3>1. 1 \in 1 .. n /\ stack # <<>>
        BY <1>1, <1>2, <2>2
    <3>2. stack[1].goal = world.goal
        BY <3>1 DEF StackInv
    <3> QED BY <1>2, <1>4, <3>1, <3>2
  <2> QED BY <2>1, <2>2
<1>12. n + 1 <= MaxDepth
    BY <1>1, <1>2, LimitsAssumption
<1>13. StackInv'
    BY <1>3, <1>4, <1>5, <1>9, <1>10, <1>11, <1>12 DEF StackInv
<1> QED BY <1>1, <1>3, <1>4, <1>7, <1>13

\* A rule in use may be cut.
LEMMA EnteredRule ==
  ASSUME world \in Supported, CutInv, Grows, NEW h \in 1 .. Len(rules),
         rules' = [rules EXCEPT ![h].deps = SubSeq(@, 1, Min({1, Len(@)}))],
         \A i \in 1 .. Len(rules) : InUse(i) => InUse(i)', InUse(h)'
  PROVE  CutInv'
<1>1. PICK M, n : M = Made /\ n = Len(M) /\ n = Len(rules)
    BY DEF CutInv
<1>2. PICK R \in Seq(RuleSet) : R = rules
    BY DEF CutInv
<1>3. PICK Q : Q = rules' /\ Q = [R EXCEPT ![h].deps = SubSeq(@, 1, Min({1, Len(@)}))]
    BY <1>2
<1>4. /\ Q \in Seq(RuleSet) /\ Len(Q) = n
      /\ \A i \in 1 .. n : Q[i].target = R[i].target /\ Q[i].cmd = R[i].cmd /\ (i # h => Q[i].deps = R[i].deps)
      /\ Q[h].deps = IF R[h].deps = <<>> THEN <<>> ELSE <<R[h].deps[1]>>
  <2>1. h \in 1 .. Len(R)
      BY <1>2
  <2>2. n = Len(R)
      BY <1>1, <1>2
  <2>5. PICK r \in RuleSet : r = R[h]
      BY <2>1
  <2>6. PICK ds : ds = SubSeq(r.deps, 1, Min({1, Len(r.deps)}))
      OBVIOUS
  <2>7. r.deps \in Seq(Words)
      BY DEF RuleSet
  <2>8. ds = IF r.deps = <<>> THEN <<>> ELSE <<r.deps[1]>>
      BY <2>6, <2>7, OneLeft
  <2>9. Q = [R EXCEPT ![h].deps = ds]
      BY <1>3, <2>5, <2>6
  <2>10. ds \in Seq(Words)
    <3>1. r.deps # <<>> => r.deps[1] \in Words
        BY <2>7
    <3> QED BY ONLY <2>8, <3>1
  <2>11. n \in Nat /\ DOMAIN R = 1 .. n /\ h \in 1 .. n
      BY <2>1, <2>2
  <2>12. PICK q : q = [r EXCEPT !.deps = ds]
      OBVIOUS
  <2>13. q \in RuleSet /\ q.target = r.target /\ q.cmd = r.cmd /\ q.deps = ds
      BY <2>10, <2>12 DEF RuleSet
  <2>14. Q = [R EXCEPT ![h] = q]
      BY <2>5, <2>9, <2>12
  <2>15. R \in [1 .. n -> RuleSet]
      BY <2>11
  <2>16. Q \in [1 .. n -> RuleSet]
      BY <2>13, <2>14, <2>15
  <2>17. Q[h] = q /\ \A i \in 1 .. n : i # h => Q[i] = R[i]
      BY <2>11, <2>14
  <2>18. Q \in Seq(RuleSet) /\ Len(Q) = n
      BY <2>11, <2>16, SMTT(30)
  <2> QED BY <2>5, <2>8, <2>13, <2>17, <2>18
<1>5. Made' = M
    BY <1>1 DEF Grows, Made
<1>6. \A i \in 1 .. n :
        /\ R[i].target = M[i].target /\ R[i].cmd = M[i].cmd
        /\ R[i].deps # M[i].deps =>
             /\ M[i].deps # <<>> /\ R[i].deps = <<M[i].deps[1]>>
             /\ ~ InUse(i) => \A k \in 2 .. Len(M[i].deps) : Handled(M[i].deps[k])
    BY <1>1, <1>2 DEF CutInv, InUse
<1>7. ASSUME NEW i \in 1 .. n, Q[i].deps # M[i].deps
      PROVE  /\ M[i].deps # <<>> /\ Q[i].deps = <<M[i].deps[1]>>
             /\ ~ InUse(i)' => \A k \in 2 .. Len(M[i].deps) : Handled(M[i].deps[k])'
  <2>1. CASE i # h
    <3>1. /\ M[i].deps # <<>> /\ Q[i].deps = <<M[i].deps[1]>>
          /\ ~ InUse(i) => \A k \in 2 .. Len(M[i].deps) : Handled(M[i].deps[k])
        BY <1>4, <1>6, <1>7, <2>1
    <3>2. ASSUME ~ InUse(i)', NEW k \in 2 .. Len(M[i].deps) PROVE Handled(M[i].deps[k])'
      <4>1. PICK e : e = M[i].deps[k]
          OBVIOUS
      <4>2. Handled(e)
          BY <1>1, <3>1, <3>2, <4>1
      <4>3. Handled(e)'
          BY <4>2 DEF Grows
      <4> QED BY <4>1, <4>3
    <3> QED BY <3>1, <3>2
  <2>2. CASE i = h
    <3>1. R[i].deps = M[i].deps \/ R[i].deps = <<M[i].deps[1]>>
        BY <1>6
    <3>2. R[i].deps # <<>>
        BY <1>4, <1>6, <1>7, <2>2
    <3>3. R[i].deps[1] = M[i].deps[1]
        BY <3>1
    <3>4. M[i].deps # <<>>
        BY <1>6, <3>2
    <3> QED BY <1>4, <2>2, <3>2, <3>3, <3>4
  <2> QED BY <2>1, <2>2
<1>8. \A i \in 1 .. n : Q[i].target = M[i].target /\ Q[i].cmd = M[i].cmd
    BY <1>4, <1>6
<1>9. rules' \in Seq(RuleSet) /\ Len(rules') = n
    BY <1>3, <1>4
<1>10. \A i \in 1 .. n : rules'[i].target = M[i].target /\ rules'[i].cmd = M[i].cmd
    BY <1>3, <1>8
<1>11. \A i \in 1 .. n : rules'[i].deps # M[i].deps =>
        /\ M[i].deps # <<>> /\ rules'[i].deps = <<M[i].deps[1]>>
        /\ ~ InUse(i)' => \A k \in 2 .. Len(M[i].deps) : Handled(M[i].deps[k])'
    BY <1>3, <1>7
<1>12. PICK T : T = rules'
    OBVIOUS
<1>13. /\ T \in Seq(RuleSet) /\ Len(T) = Len(M)
       /\ \A i \in 1 .. Len(T) :
            /\ T[i].target = M[i].target /\ T[i].cmd = M[i].cmd
            /\ T[i].deps # M[i].deps =>
                 /\ M[i].deps # <<>> /\ T[i].deps = <<M[i].deps[1]>>
                 /\ (\A j \in 1 .. Len(stack') : stack'[j].rule # i) =>
                      \A k \in 2 .. Len(M[i].deps) : Handled(M[i].deps[k])'
    BY ONLY <1>1, <1>9, <1>10, <1>11, <1>12 DEF InUse
<1> QED BY ONLY <1>5, <1>12, <1>13 DEF CutInv

\* search_rule has entered the rule of a word.
LEMMA Entered ==
  ASSUME world \in Supported, StackInv, CutInv, StartInv, EnterRule
  PROVE  StackInv' /\ CutInv'
<1>1. PICK h, w, C : h = Hit /\ w = Asked /\ C = Caller
    OBVIOUS
<1>2. /\ Asking /\ h # 0 /\ rules[h].target # Null /\ Len(stack) < MaxDepth
      /\ stack' = Append(C, [rule |-> h, goal |-> w, rest |-> rules[h].deps, stem |-> rules[h].target # w])
      /\ rules' = [rules EXCEPT ![h].deps = SubSeq(@, 1, Min({1, Len(@)}))]
      /\ bind_str' = IF rules[h].target # w THEN StemOf(w) ELSE bind_str
      /\ world' = world /\ files' = files /\ ran' = ran
    BY <1>1 DEF EnterRule
<1>3. PICK n : n = Len(stack)
    OBVIOUS
<1>4. /\ n \in Nat /\ Len(C) = n /\ C \in Seq(FrameSet)
      /\ \A j \in 1 .. n : C[j].rule = stack[j].rule
      /\ w \in Near(world) /\ w \in Words /\ w \notin files \ world.files
      /\ \A i \in 1 .. n : w \in Needs(world.makefile, stack[i].goal)
    BY <1>1, <1>2, <1>3, Callers
<1>5. /\ h \in 1 .. Len(Made) /\ Made[h] \in RulesFor(world.makefile, w)
      /\ h \in 1 .. Len(rules) /\ rules[h].target = Made[h].target
    BY <1>1, <1>2, <1>4, HitRule
<1>6. /\ ~ InUse(h)
      /\ Made[h].target # w => \A j \in 1 .. n : ~ stack[j].stem
    BY <1>3, <1>4, <1>5, NotTwice
<1>7. Grows
    BY <1>2 DEF Grows, Handled
<1>8. Made[h].target # w => bind_str' = w.base
  <2>1. PICK x, m, r : x = world /\ m = x.makefile /\ r = Made[h]
      OBVIOUS
  <2>2. r \in RulesFor(m, w) /\ w \in Near(x) /\ x \in Supported
      BY <1>4, <1>5, <2>1
  <2>3. r.target # w => StemOf(w) = w.base
      BY <2>1, <2>2, RuleIs
  <2> QED BY <1>2, <1>5, <2>1, <2>3
<1>9. \A j \in 1 .. n : stack[j].stem => bind_str' = bind_str
    BY <1>2, <1>5, <1>6
<1>10. PICK g : g = [rule |-> h, goal |-> w, rest |-> rules[h].deps, stem |-> Made[h].target # w]
    OBVIOUS
<1>11. g \in FrameSet /\ FrameIs(g, {})'
  <2>1. w \notin files' \ world.files
      BY <1>2, <1>4
  <2> QED BY <1>4, <1>5, <1>6, <1>7, <1>8, <1>10, <2>1, NewFrame
<1>12. stack' = Append(C, g) /\ g.goal = w /\ g.rule = h
    BY <1>2, <1>5, <1>10
<1>13. StackInv' /\ \A j \in 1 .. n : Len(stack') = n + 1 /\ stack'[j].rule = stack[j].rule
  <2>1. \A j \in 1 .. Len(stack) : stack[j].stem => bind_str' = bind_str
      BY <1>3, <1>9
  <2> QED BY <1>1, <1>2, <1>3, <1>7, <1>11, <1>12, <2>1, EnteredStack
<1>14. Len(stack') = n + 1 /\ stack'[n + 1] = g
    BY <1>4, <1>11, <1>12, AppendAll
<1>15. InUse(h)'
  <2>1. n + 1 \in 1 .. Len(stack') /\ stack'[n + 1].rule = h
      BY <1>4, <1>12, <1>14
  <2> QED BY <2>1 DEF InUse
<1>16. ASSUME NEW i, InUse(i) PROVE InUse(i)'
  <2>1. PICK j \in 1 .. n : stack[j].rule = i
      BY <1>3, <1>16 DEF InUse
  <2>2. j \in 1 .. Len(stack') /\ stack'[j].rule = i
      BY <1>4, <1>13, <1>14, <2>1
  <2> QED BY <2>2 DEF InUse
<1>17. CutInv'
    BY <1>2, <1>5, <1>7, <1>15, <1>16, EnteredRule
<1> QED BY <1>13, <1>17

----------------------------------------------------------------------------
(* A command                                                               *)

\* The words the makefile puts for one of a command.
Spell(m, w, r, tok) ==
  CASE tok = Out  -> <<w>>
    [] tok = In   -> IF r.deps = <<>> THEN <<>> ELSE <<Stemmed(Head(r.deps), w.base)>>
    [] IsRef(tok) -> (CHOOSE v \in Range(Reading[m].vars) : v.name = tok.base).value
    [] OTHER      -> <<tok>>

\* $@ and $< are no variables.
LEMMA Literals ==
  /\ Out # In /\ ~ IsRef(Out) /\ ~ IsRef(In) /\ IsRef(BrokenRef)
BY DEF Out, In, IsRef, BrokenRef, Ref, Word

\* lookup_vars finds a variable that is there.
LEMMA LookupIs ==
  ASSUME NEW V \in Seq(VarSet), vars = V, NEW b, \E v \in Range(V) : v.name = b
  PROVE  vars[lookup_vars(b)] \in Range(V) /\ vars[lookup_vars(b)].name = b
<1>1. PICK n \in Nat : n = Len(V) /\ DOMAIN V = 1 .. n
    OBVIOUS
<1>2. PICK I : I = {k \in 1 .. n : vars[k].name = b}
    OBVIOUS
<1>3. I # {} /\ I \subseteq Nat
    BY <1>1, <1>2 DEF Range
<1>4. PICK i \in I : \A k \in I : i <= k
    BY <1>3, Least
<1>5. Min(I) \in I
    BY <1>4 DEF Min
<1>6. lookup_vars(b) = Min(I)
    BY <1>1, <1>2, <1>3 DEF lookup_vars, SelectInSeq
<1> QED BY <1>1, <1>2, <1>5, <1>6 DEF Range

\* check_assign_var copies what the makefile says of a variable.
LEMMA ValueIs ==
  ASSUME world \in Supported, NEW m, m = world.makefile, vars = Reading[m].vars,
         NEW r \in Range(Reading[m].rules), NEW t \in Range(r.cmd)
  PROVE  Value(t) = IF IsRef(t) THEN (CHOOSE v \in Range(Reading[m].vars) : v.name = t.base).value ELSE <<t>>
<1>1. PICK x : x = world
    OBVIOUS
<1>2. x \in Worlds /\ m \in Readable /\ m = x.makefile
    BY <1>1, MadeIs
<1>3. PICK R, V : R = Reading[m].rules /\ V = Reading[m].vars
    OBVIOUS
<1>4. V \in Seq(VarSet) /\ \A u, v \in Range(V) : u.name = v.name => u = v
    BY <1>2, <1>3, ReadVars
<1>5. IsRef(t) => t # BrokenRef /\ t.ext = "" /\ \E v \in Range(V) : v.name = t.base
    BY <1>2, <1>3, ReadRules
<1>6. CASE ~ IsRef(t)
    BY <1>6 DEF Value
<1>7. CASE IsRef(t)
  <2>1. PICK b, u : b = t.base /\ u = vars[lookup_vars(b)]
      OBVIOUS
  <2>2. u \in Range(V) /\ u.name = b
      BY <1>3, <1>4, <1>5, <1>7, <2>1, LookupIs
  <2>3. (CHOOSE v \in Range(V) : v.name = b) = u
      BY <1>4, <2>2
  <2>4. Value(t) = u.value
    <3>1. Value(t) = u.value \o <<>>
        BY <1>5, <1>7, <2>1 DEF Value
    <3>2. u \in VarSet
        BY <1>4, <2>2 DEF Range
    <3>3. PICK text : text = u.value /\ text \in Seq(Words)
        BY <3>2 DEF VarSet
    <3> QED BY <3>1, <3>3
  <2> QED BY <1>3, <1>7, <2>1, <2>3, <2>4
<1> QED BY <1>6, <1>7

\* bind_cmd spells the command the makefile's way, from what is left of the rule.
LEMMA BoundIs ==
  ASSUME world \in Supported, StackInv, stack # <<>>, CutInv,
         NEW m, m = world.makefile, vars = Reading[m].vars,
         NEW R, R = rules[Top.rule], NEW r, r = Made[Top.rule], NEW g, g = Top.goal
  PROVE  /\ r \in RuleSet /\ r \in RulesFor(m, g) /\ R.cmd = r.cmd
         /\ Stemmed(R.target, bind_str) = g /\ (R.deps = <<>> <=> r.deps = <<>>)
         /\ r.deps # <<>> => /\ r.deps[1] \in Range(r.deps) /\ Head(R.deps) = r.deps[1]
                             /\ Stemmed(Head(R.deps), bind_str) = DepOf(r, g, r.deps[1])
                             /\ ~ IsRef(DepOf(r, g, r.deps[1]))
                             /\ DepOf(r, g, r.deps[1]) = Stemmed(Head(r.deps), g.base)
<1>1. PICK x, i : x = world /\ i = Top.rule
    OBVIOUS
<1>2. /\ g \in Near(x) /\ FrameIs(Top, {})
      /\ \A d \in Range(r.deps) :
              /\ Stemmed(d, bind_str) = DepOf(r, g, d)
              /\ ~ IsRef(DepOf(r, g, d))
      /\ Stemmed(r.target, bind_str) = g
    BY <1>1, TopIs
<1>3. i \in 1 .. Len(Made) /\ r \in RulesFor(m, g)
    BY <1>1, <1>2 DEF FrameIs
<1>4. r \in RuleSet /\ r.deps \in Seq(Words)
    BY <1>1, <1>3, MadeIs
<1>5. /\ R.target = r.target /\ R.cmd = r.cmd
      /\ R.deps = r.deps \/ (r.deps # <<>> /\ R.deps = <<r.deps[1]>>)
    BY <1>1, <1>3 DEF CutInv
<1>6. ASSUME r.deps # <<>>
      PROVE  /\ r.deps[1] \in Range(r.deps) /\ Head(R.deps) = r.deps[1] /\ R.deps # <<>>
             /\ DepOf(r, g, r.deps[1]) = Stemmed(Head(r.deps), g.base)
  <2>1. 1 \in DOMAIN r.deps /\ Head(r.deps) = r.deps[1]
      BY <1>4, <1>6
  <2>2. r.deps[1] \in Range(r.deps)
      BY <2>1 DEF Range
  <2>3. Head(R.deps) = r.deps[1] /\ R.deps # <<>>
    <3>1. CASE R.deps = r.deps
        BY <1>6, <2>1, <3>1
    <3>2. CASE R.deps = <<r.deps[1]>>
        BY <3>2
    <3> QED BY <1>5, <3>1, <3>2
  <2>4. PICK d : d = r.deps[1] /\ d \in Range(r.deps)
      BY <2>2
  <2>5. /\ r.target # g => DepOf(r, g, d) = Stemmed(d, g.base)
        /\ r.target = g => \A stem : DepOf(r, g, d) = Stemmed(d, stem)
      BY <1>1, <1>2, <1>3, <2>4, RuleIs
  <2> QED BY <2>1, <2>2, <2>3, <2>4, <2>5
<1> QED BY <1>2, <1>3, <1>4, <1>5, <1>6

\* The command is the makefile's.
LEMMA CommandIs ==
  ASSUME world \in Supported, StackInv, stack # <<>>, CutInv,
         NEW m, m = world.makefile, vars = Reading[m].vars,
         NEW R, R = rules[Top.rule], NEW r, r = Made[Top.rule], NEW g, g = Top.goal
  PROVE  bind_cmd(R) = Spelled(m, g, r)
<1>1. /\ r \in RuleSet /\ r \in RulesFor(m, g) /\ R.cmd = r.cmd
      /\ Stemmed(R.target, bind_str) = g /\ (R.deps = <<>> <=> r.deps = <<>>)
      /\ r.deps # <<>> => /\ Stemmed(Head(R.deps), bind_str) = Stemmed(Head(r.deps), g.base)
                          /\ ~ IsRef(Stemmed(Head(r.deps), g.base))
    BY BoundIs
<1>2. ~ IsRef(g)
  <2>1. g \in Near(world)
      BY TopIs
  <2> QED BY <2>1, SupportedIs
<1>3. r \in Range(Reading[m].rules)
    BY <1>1 DEF RulesFor
<1>4. ASSUME NEW t \in Range(r.cmd) PROVE bound(R, t) = Spell(m, g, r, t)
  <2>1. CASE t = Out
    <3>1. Value(g) = <<g>>
        BY <1>2 DEF Value
    <3>2. bound(R, t) = Value(g)
        BY <1>1, <2>1, Literals DEF bound
    <3>3. Spell(m, g, r, t) = <<g>>
        BY <2>1, Literals DEF Spell
    <3> QED BY <3>1, <3>2, <3>3
  <2>2. CASE t = In /\ r.deps = <<>>
    <3>1. bound(R, t) = <<>>
        BY <1>1, <2>2, Literals DEF bound
    <3>2. Spell(m, g, r, t) = <<>>
        BY <2>2, Literals DEF Spell
    <3> QED BY <3>1, <3>2
  <2>3. CASE t = In /\ r.deps # <<>>
    <3>0. PICK e : e = Stemmed(Head(r.deps), g.base) /\ e = Stemmed(Head(R.deps), bind_str) /\ ~ IsRef(e)
        BY <1>1, <2>3
    <3>1. Value(e) = <<e>>
        BY <3>0 DEF Value
    <3>2. bound(R, t) = Value(e)
        BY <1>1, <2>3, <3>0, Literals DEF bound
    <3>3. Spell(m, g, r, t) = <<e>>
        BY <2>3, <3>0, Literals DEF Spell
    <3> QED BY <3>1, <3>2, <3>3
  <2>4. CASE t # Out /\ t # In
    <3>1. Value(t) = IF IsRef(t) THEN (CHOOSE v \in Range(Reading[m].vars) : v.name = t.base).value ELSE <<t>>
        BY <1>3, <1>4, ValueIs
    <3>2. bound(R, t) = Value(t)
        BY <2>4 DEF bound
    <3>3. Spell(m, g, r, t) = IF IsRef(t) THEN (CHOOSE v \in Range(Reading[m].vars) : v.name = t.base).value ELSE <<t>>
        BY <2>4 DEF Spell
    <3> QED BY <3>1, <3>2, <3>3
  <2> QED BY <2>1, <2>2, <2>3, <2>4
<1>5. PICK F, G : /\ F = [i \in DOMAIN R.cmd |-> bound(R, R.cmd[i])]
                  /\ G = [i \in DOMAIN r.cmd |-> Spell(m, g, r, r.cmd[i])]
    OBVIOUS
<1>6. bind_cmd(R) = FlattenSeq(F)
    BY <1>5 DEF bind_cmd
<1>7. Spelled(m, g, r) = FlattenSeq(G)
    BY <1>5 DEF Spelled, Spell
<1>8. F = G
  <2>1. \A i \in DOMAIN r.cmd : bound(R, r.cmd[i]) = Spell(m, g, r, r.cmd[i])
      BY <1>4 DEF Range
  <2> QED BY <1>1, <1>5, <2>1
<1> QED BY <1>6, <1>7, <1>8

----------------------------------------------------------------------------
(* A command is run                                                        *)

\* Only $@ is written, and only by a command that has not been run in vain.
LEMMA CreatesIs ==
  ASSUME world \in Supported, StackInv, stack # <<>>, CutInv,
         NEW m, m = world.makefile, vars = Reading[m].vars,
         NEW r, r = Made[Top.rule], NEW g, g = Top.goal,
         NEW K, K = Creates(rules[Top.rule])
  PROVE  /\ \A f \in K : f = g
         /\ Dead(g) => K = {}
         /\ (K = {} /\ g \notin files /\ \A d \in DepsFor(m, g) : Handled(d)) => Dead(g)
<1>1. PICK R, x : R = rules[Top.rule] /\ x = world
    OBVIOUS
<1>2. /\ r \in RuleSet /\ r \in RulesFor(m, g) /\ R.cmd = r.cmd
      /\ Stemmed(R.target, bind_str) = g /\ (R.deps = <<>> <=> r.deps = <<>>)
      /\ r.deps # <<>> => /\ r.deps[1] \in Range(r.deps)
                          /\ Stemmed(Head(R.deps), bind_str) = DepOf(r, g, r.deps[1])
    BY <1>1, BoundIs
<1>3. g \in Near(x) /\ x \in Supported
    BY <1>1, TopIs
<1>4. ASSUME NEW q \in RulesFor(m, g) PROVE q = r
  <2>1. m = x.makefile /\ r \in RulesFor(m, g)
      BY <1>1, <1>2
  <2> QED BY ONLY <1>3, <1>4, <2>1, OneRule
<1>5. r.deps # <<>> => DepOf(r, g, r.deps[1]) \in DepsFor(m, g)
    BY <1>1, <1>2, <1>3, RuleIs
<1>6. PICK e : e = DepOf(r, g, r.deps[1])
    OBVIOUS
<1>7. K = IF /\ Out \in Range(r.cmd)
             /\ (In \in Range(r.cmd) /\ r.deps # <<>>) => e \in files
             /\ g \notin x.failing
            THEN {g} ELSE {}
    BY <1>1, <1>2, <1>6 DEF Creates
<1>8. \A f \in K : f = g
    BY <1>7
<1>9. ASSUME Dead(g) PROVE K = {}
  <2>1. \/ Out \notin Range(r.cmd) \/ g \in x.failing
        \/ /\ In \in Range(r.cmd) /\ r.deps # <<>>
           /\ e \notin files
      BY <1>1, <1>2, <1>6, <1>9 DEF Dead
  <2> QED BY <1>7, <2>1
<1>10. ASSUME K = {}, \A d \in DepsFor(m, g) : Handled(d) PROVE Dead(g)
  <2>1. \/ Out \notin Range(r.cmd) \/ g \in x.failing
        \/ /\ In \in Range(r.cmd) /\ r.deps # <<>>
           /\ e \notin files /\ Handled(e)
    <3>1. r.deps # <<>> => Handled(e)
        BY <1>5, <1>6, <1>10
    <3>2. g \in {g}
        OBVIOUS
    <3> QED BY <1>7, <1>10, <3>1, <3>2
  <2>2. \A q \in RulesFor(m, g) :
           \/ Out \notin Range(q.cmd) \/ g \in x.failing
           \/ /\ In \in Range(q.cmd) /\ q.deps # <<>>
              /\ DepOf(q, g, q.deps[1]) \notin files /\ Handled(DepOf(q, g, q.deps[1]))
      BY <1>4, <1>6, <2>1
  <2> QED BY <1>1, <2>2 DEF Dead
<1> QED BY <1>8, <1>9, <1>10

\* Every dependency has been handled when there is none left to look at.
LEMMA AllHandled ==
  ASSUME world \in Supported, StackInv, stack # <<>>, Top.rest = <<>>,
         NEW m, m = world.makefile, NEW g, g = Top.goal
  PROVE  /\ \A d \in DepsFor(m, g) : Handled(d)
         /\ \A d \in Range(Made[Top.rule].deps) : Handled(DepOf(Made[Top.rule], g, d))
<1>1. PICK x, r : x = world /\ r = Made[Top.rule]
    OBVIOUS
<1>2. FrameIs(Top, {}) /\ g \in Near(x) /\ x \in Supported
    BY <1>1, TopIs
<1>3. r \in RulesFor(m, g) /\ \A d \in Range(r.deps) : Handled(DepOf(r, g, d)) \/ d \in Range(Top.rest)
    BY <1>1, <1>2 DEF FrameIs
<1>4. Range(Top.rest) = {}
    BY DEF Range
<1>5. \A d \in Range(r.deps) : Handled(DepOf(r, g, d))
    BY <1>3, <1>4
<1>6. ASSUME NEW q \in RulesFor(m, g) PROVE q = r
  <2>1. m = x.makefile /\ r \in RulesFor(m, g) /\ x \in Supported /\ g \in Near(x)
      BY <1>1, <1>2, <1>3
  <2> QED BY ONLY <1>6, <2>1, OneRule
<1>7. g \in Words /\ x \in Worlds /\ m \in Readable
    BY <1>1, <1>2, SupportedIs
<1>8. \A e \in DepsFor(m, g) : \E q \in RulesFor(m, g) : \E d \in Range(q.deps) : e = DepOf(q, g, d)
    BY <1>1, <1>7, DepsAre, SMTT(30)
<1> QED BY <1>1, <1>5, <1>6, <1>8

\* Append, for what a sequence holds.
LEMMA AppendRange ==
  ASSUME NEW S, NEW s \in Seq(S), NEW e, NEW t, t = Append(s, e)
  PROVE  /\ t \in Seq(Range(t)) /\ Len(s) \in Nat /\ DOMAIN s = 1 .. Len(s)
         /\ DOMAIN t = 1 .. Len(s) + 1 /\ t[Len(s) + 1] = e
         /\ \A j \in 1 .. Len(s) : t[j] = s[j]
<1>1. PICK T : T = S \cup {e}
    OBVIOUS
<1>2. s \in Seq(T) /\ e \in T
    BY <1>1
<1>3. /\ t \in Seq(T) /\ Len(t) = Len(s) + 1 /\ t[Len(s) + 1] = e
      /\ \A j \in 1 .. Len(s) : t[j] = s[j]
    BY <1>2, AppendAll
<1>4. PICK n : n = Len(t) /\ n \in Nat /\ DOMAIN t = 1 .. n
    BY <1>3
<1>5. t \in [1 .. n -> Range(t)]
  <2>1. t = [i \in 1 .. n |-> t[i]]
      BY ONLY <1>3, <1>4
  <2>2. \A i \in 1 .. n : t[i] \in Range(t)
      BY ONLY <1>4 DEF Range
  <2> QED BY ONLY <2>1, <2>2
<1>6. t \in Seq(Range(t))
    BY ONLY <1>4, <1>5
<1> QED BY <1>2, <1>3, <1>4, <1>6

\* What do_exec does.
LEMMA ExecIs ==
  ASSUME world \in Supported, StackInv, CutInv, RanInv, do_exec, stack' # stack,
         NEW m, m = world.makefile, vars = Reading[m].vars,
         NEW g, g = Top.goal, NEW K, K = Creates(rules[Top.rule]), NEW n, n = Len(stack), NEW l, l = Len(ran)
  PROVE  /\ stack # <<>> /\ Top.rest = <<>> /\ phase = "build" /\ world' = world /\ rules' = rules /\ vars' = vars
         /\ l \in Nat /\ DOMAIN ran = 1 .. l /\ DOMAIN ran' = 1 .. l + 1 /\ ran' \in Seq(Range(ran'))
         /\ ran'[l + 1] = [goal |-> g, cmd |-> bind_cmd(rules[Top.rule])]
         /\ \A k \in 1 .. l : ran'[k] = ran[k]
         /\ files' = files \cup K
         /\ bind_str' = IF Top.stem THEN "" ELSE bind_str
         /\ stack' = Front(stack)
         /\ Grows /\ Handled(g)'
<1>1. PICK R, e : R = rules[Top.rule] /\ e = [goal |-> g, cmd |-> bind_cmd(R)]
    OBVIOUS
<1>2. /\ stack # <<>> /\ Top.rest = <<>> /\ phase = "build" /\ world' = world /\ rules' = rules /\ vars' = vars
      /\ ran' = Append(ran, e) /\ files' = files \cup K
      /\ bind_str' = IF Top.stem THEN "" ELSE bind_str
      /\ stack' = Front(stack)
    BY <1>1 DEF do_exec, parseVars
<1>3. PICK s, t : s = ran /\ t = ran' /\ t = Append(s, e)
    BY <1>2
<1>4. PICK S : s \in Seq(S)
    BY <1>3 DEF RanInv
<1>5. /\ t \in Seq(Range(t)) /\ Len(s) \in Nat /\ DOMAIN s = 1 .. Len(s)
      /\ DOMAIN t = 1 .. Len(s) + 1 /\ t[Len(s) + 1] = e
      /\ \A j \in 1 .. Len(s) : t[j] = s[j]
  <2>1. t = Append(s, e)
      BY <1>3
  <2>2. t \in Seq(Range(t))
      BY ONLY <1>4, <2>1, AppendRange
  <2>3. Len(s) \in Nat /\ DOMAIN s = 1 .. Len(s)
      BY ONLY <1>4
  <2>4. DOMAIN t = 1 .. Len(s) + 1 /\ t[Len(s) + 1] = e
      BY ONLY <1>4, <2>1, AppendRange
  <2>5. \A j \in 1 .. Len(s) : t[j] = s[j]
      BY ONLY <1>4, <2>1, AppendRange
  <2> QED BY ONLY <2>2, <2>3, <2>4, <2>5
<1>6. /\ t \in Seq(Range(t)) /\ l \in Nat /\ DOMAIN s = 1 .. l
      /\ DOMAIN t = 1 .. l + 1 /\ t[l + 1] = e
      /\ \A j \in 1 .. l : t[j] = s[j]
    BY <1>3, <1>5
<1>7. ASSUME NEW d, Handled(d) PROVE Handled(d)'
  <2>1. CASE \E k \in DOMAIN ran : ran[k].goal = d
    <3>1. PICK k \in 1 .. l : s[k].goal = d
        BY <1>3, <1>6, <2>1
    <3>2. k \in DOMAIN t /\ t[k].goal = d
        BY <1>6, <3>1
    <3> QED BY <1>3, <3>2 DEF Handled
  <2>2. CASE d \in world.files \/ RulesFor(world.makefile, d) = {}
      BY <1>2, <2>2 DEF Handled
  <2> QED BY <1>7, <2>1, <2>2 DEF Handled
<1>8. Handled(g)'
  <2>1. l + 1 \in DOMAIN t /\ t[l + 1].goal = g
      BY <1>1, <1>6
  <2> QED BY <1>3, <2>1 DEF Handled
<1> QED BY <1>1, <1>2, <1>3, <1>6, <1>7, <1>8 DEF Grows

\* All but the last.
LEMMA FrontIs ==
  ASSUME NEW S, NEW s \in Seq(S), s # <<>>, NEW n, n = Len(s), NEW t, t = Front(s)
  PROVE  n \in Nat /\ n > 0 /\ t \in Seq(S) /\ Len(t) = n - 1 /\ \A j \in 1 .. n - 1 : t[j] = s[j]
<1>1. PICK k \in Nat : k = Len(s) /\ k > 0 /\ k - 1 \in Nat /\ k = n
    OBVIOUS
<1>2. t = SubSeq(s, 1, k - 1)
    BY <1>1 DEF Front
<1>3. t = [j \in 1 .. k - 1 |-> s[j]]
    BY <1>1, <1>2
<1>4. \A j \in 1 .. k - 1 : s[j] \in S
    BY <1>1
<1>5. t \in [1 .. k - 1 -> S]
    BY <1>3, <1>4
<1> QED BY <1>1, <1>3, <1>5

\* The searches below go on without the one that has ended.
LEMMA ExecStack ==
  ASSUME world \in Supported, StackInv, stack # <<>>, NEW g, g = Top.goal, NEW n \in Nat, n = Len(stack),
         Grows, Handled(g)', stack' = Front(stack), NEW K, \A f \in K : f = g, files' = files \cup K,
         bind_str' = IF Top.stem THEN "" ELSE bind_str
  PROVE  StackInv' /\ n \in Nat /\ n > 0 /\ Len(stack') = n - 1 /\ \A j \in 1 .. n - 1 : stack'[j] = stack[j]
<1>1. PICK s, t : s = stack /\ t = stack' /\ t = Front(s) /\ n = Len(s) /\ n = Len(stack)
    OBVIOUS
<1>2. s \in Seq(FrameSet) /\ s # <<>>
    BY <1>1 DEF StackInv
<1>3. n \in Nat /\ n > 0 /\ t \in Seq(FrameSet) /\ Len(t) = n - 1 /\ \A j \in 1 .. n - 1 : t[j] = s[j]
  <2>1. n = Len(s) /\ t = Front(s)
      BY <1>1
  <2> QED BY ONLY <1>2, <2>1, FrontIs
<1>4. n \in 1 .. n /\ Top = s[n] /\ n \in 1 .. Len(stack)
    BY ONLY <1>1, <1>3 DEF Top, Last
<1>5. PICK x, m : x = world /\ m = x.makefile
    OBVIOUS
<1>6. PICK f : f = s[n] /\ f = Top
    BY <1>4
<1>7. g \in Near(x) /\ f.goal = g /\ (f.stem => ByPattern(m, g))
  <2>1. FrameIs(f, {}) /\ g \in Near(x)
      BY <1>5, <1>6, TopIs
  <2>2. Made[f.rule] \in RulesFor(m, g) /\ (f.stem <=> Made[f.rule].target # g)
      BY <1>5, <1>6, <2>1 DEF FrameIs
  <2> QED BY <1>6, <2>1, <2>2 DEF ByPattern
<1>8. ASSUME NEW j \in 1 .. n - 1
      PROVE  /\ s[j] = stack[j] /\ FrameIs(s[j], Under(j)) /\ j \in 1 .. n /\ s[j].goal # g
             /\ s[j].stem => bind_str' = bind_str
  <2>1. j \in 1 .. n /\ j \in 1 .. Len(stack) /\ j \in 1 .. Len(stack) - 1
      BY ONLY <1>1, <1>3, <1>8
  <2>2. g \in Needs(m, s[j].goal) /\ s[j].goal # g
    <3>1. \A i \in 1 .. n - 1 : stack[n].goal \in Needs(world.makefile, stack[i].goal) /\ stack[n].goal # stack[i].goal
        BY <1>4, GoalsNear
    <3> QED BY <1>1, <1>4, <1>5, <1>6, <3>1
  <2>3. FrameIs(s[j], Under(j))
      BY <1>1, <2>1 DEF StackInv
  <2>4. PICK v \in Near(x) : v = s[j].goal
      BY <1>1, <1>5, <2>1, GoalsNear
  <2>5. s[j].stem => ByPattern(m, v)
    <3>1. PICK h : h = s[j]
        OBVIOUS
    <3>2. Made[h.rule] \in RulesFor(m, v) /\ (h.stem <=> Made[h.rule].target # v)
        BY <1>5, <2>3, <2>4, <3>1 DEF FrameIs
    <3> QED BY <3>1, <3>2 DEF ByPattern
  <2>6. ByPattern(m, v) => ~ ByPattern(m, g)
    <3>1. ByPattern(m, v) => \A d \in Needs(m, v) : ~ ByPattern(m, d)
        BY <1>5, SupportedIs
    <3> QED BY <2>2, <2>4, <3>1
  <2>7. s[j].stem => bind_str' = bind_str
      BY <1>6, <1>7, <2>5, <2>6
  <2> QED BY <1>1, <2>1, <2>2, <2>3, <2>7
<1>9. ASSUME NEW j \in 1 .. n - 1 PROVE FrameIs(t[j], Under(j))'
  <2>1. PICK h : h = s[j] /\ h = t[j]
      BY <1>3
  <2>2. j < Len(stack) /\ j + 1 \in 1 .. n
      BY ONLY <1>1, <1>3, <1>9
  <2>3. PICK u : u = Under(j) /\ u = {s[j + 1].goal}
      BY <1>1, <2>2 DEF Under
  <2>4. PICK v : v = Under(j)'
      OBVIOUS
  <2>5. FrameIs(h, u) /\ (h.stem => bind_str' = bind_str) /\ h.goal # g
      BY <1>8, <2>1, <2>3
  <2>6. \A e \in u : e \in v \/ Handled(e)'
    <3>1. CASE j = n - 1
      <4>0. j + 1 = n
          BY ONLY <1>3, <1>9, <3>1
      <4>1. s[j + 1].goal = g
          BY ONLY <1>6, <1>7, <4>0
      <4> QED BY <2>3, <4>1
    <3>2. CASE j # n - 1
      <4>1. j + 1 \in 1 .. n - 1 /\ j < n - 1
          BY ONLY <1>3, <1>9, <3>2
      <4>2. v = {t[j + 1].goal}
          BY <1>1, <1>3, <2>4, <4>1 DEF Under
      <4>3. v = u
          BY <1>3, <2>3, <4>1, <4>2
      <4> QED BY <4>3
    <3> QED BY <3>1, <3>2
  <2>7. h.goal \notin files' \ world.files
    <3>1. h.goal \notin files \ world.files
        BY <2>5 DEF FrameIs
    <3>2. h.goal \notin K
        BY <2>5
    <3> QED BY <3>1, <3>2
  <2>8. FrameIs(h, v)'
      BY <2>5, <2>6, <2>7, FrameStays
  <2> QED BY <2>1, <2>4, <2>8
<1>10. n <= MaxDepth /\ MaxDepth \in Nat /\ s[1].goal = world.goal
    BY <1>1, LimitsAssumption DEF StackInv
<1>11. n - 1 <= MaxDepth /\ (t # <<>> => t[1].goal = world.goal)
  <2>1. n - 1 <= MaxDepth
      BY ONLY <1>3, <1>10
  <2>2. ASSUME t # <<>> PROVE t[1].goal = world.goal
    <3>1. Len(t) # 0
        BY ONLY <1>3, <2>2
    <3>2. 1 \in 1 .. n - 1
        BY ONLY <1>3, <3>1
    <3> QED BY <1>3, <1>10, <3>2
  <2> QED BY <2>1, <2>2
<1>12. ASSUME NEW j \in 1 .. n - 1, NEW i \in 1 .. j - 1
       PROVE  t[j].goal \in NeedsAfter(m, t[i].goal)[(j - i) - 1]
  <2>1. i \in 1 .. n - 1 /\ j \in 1 .. Len(stack)
      BY ONLY <1>1, <1>3, <1>12
  <2>2. s[j].goal \in NeedsAfter(m, s[i].goal)[(j - i) - 1]
      BY <1>1, <1>5, <2>1 DEF StackInv
  <2> QED BY <1>3, <2>1, <2>2
<1>13. world' = world
    BY DEF Grows
<1>14. StackInv'
    BY <1>1, <1>3, <1>5, <1>9, <1>11, <1>12, <1>13 DEF StackInv
<1> QED BY <1>1, <1>3, <1>14

\* When the command of a rule runs, its dependencies have been handled.
LEMMA ExecCut ==
  ASSUME world \in Supported, StackInv, CutInv, stack # <<>>, Top.rest = <<>>, rules' = rules, Grows,
         NEW n \in Nat, n = Len(stack), n > 0, Len(stack') = n - 1, \A j \in 1 .. n - 1 : stack'[j] = stack[j]
  PROVE  CutInv'
<1>1. PICK M, h, x, m : M = Made /\ h = Top.rule /\ x = world /\ m = x.makefile
    OBVIOUS
<1>2. PICK g : g = Top.goal
    OBVIOUS
<1>3. FrameIs(Top, {}) /\ g \in Near(x) /\ Top = stack[n]
    BY <1>1, <1>2, TopIs
<1>4. h \in 1 .. Len(M) /\ M[h] \in RulesFor(m, g)
    BY <1>1, <1>2, <1>3 DEF FrameIs
<1>5. PICK r \in RuleSet : r = M[h] /\ r.deps \in Seq(Words)
    BY <1>1, <1>4, MadeIs
<1>6. ASSUME NEW k \in 2 .. Len(r.deps) PROVE Handled(r.deps[k])'
  <2>1. DepOf(r, g, r.deps[k]) = r.deps[k]
      BY <1>1, <1>3, <1>4, <1>5, RuleIs
  <2>2. k \in DOMAIN r.deps
      BY <1>5
  <2>3. PICK d : d = r.deps[k] /\ d \in Range(r.deps)
      BY <2>2 DEF Range
  <2>4. Handled(d)
      BY <1>1, <1>2, <1>5, <2>1, <2>3, AllHandled
  <2>5. Handled(d)'
      BY <2>4 DEF Grows
  <2> QED BY <2>3, <2>5
<1>7. ASSUME NEW i, InUse(i) PROVE InUse(i)' \/ i = h
  <2>1. PICK j \in 1 .. n : stack[j].rule = i
      BY <1>7 DEF InUse
  <2>2. CASE j = n
      BY <1>1, <1>3, <2>1, <2>2
  <2>3. CASE j # n
    <3>1. j \in 1 .. n - 1
        BY <2>3
    <3>2. j \in 1 .. Len(stack') /\ stack'[j].rule = i
        BY <2>1, <3>1
    <3> QED BY <3>2 DEF InUse
  <2> QED BY <2>2, <2>3
<1>8. \A i \in 1 .. Len(M) : InUse(i) =>
           InUse(i)' \/ \A k \in 2 .. Len(M[i].deps) : Handled(M[i].deps[k])'
    BY <1>5, <1>6, <1>7
<1> QED BY <1>1, <1>8, CutKeeps

\* What has been run stays as it was, and the new command fits.
LEMMA ExecRan ==
  ASSUME world \in Supported, StackInv, CutInv, RanInv, do_exec, stack' # stack,
         NEW m, m = world.makefile, vars = Reading[m].vars
  PROVE  RanInv'
<1>1. PICK x, g, K, R : x = world /\ g = Top.goal /\ R = rules[Top.rule] /\ K = Creates(R)
    OBVIOUS
<1>2. PICK l \in Nat : /\ DOMAIN ran = 1 .. l /\ DOMAIN ran' = 1 .. l + 1 /\ ran' \in Seq(Range(ran'))
                       /\ ran'[l + 1] = [goal |-> g, cmd |-> bind_cmd(R)]
                       /\ \A k \in 1 .. l : ran'[k] = ran[k]
  <2>1. PICK l : l = Len(ran)
      OBVIOUS
  <2> QED BY <1>1, <2>1, ExecIs
<1>3. /\ stack # <<>> /\ Top.rest = <<>> /\ world' = world /\ files' = files \cup K
      /\ Grows /\ Handled(g)'
    BY <1>1, ExecIs
<1>4. PICK s, t : s = ran /\ t = ran'
    OBVIOUS
<1>5. \A k \in 1 .. l : t[k].goal = s[k].goal /\ t[k].cmd = s[k].cmd /\ k \in 1 .. l + 1 /\ k \in DOMAIN s
    BY <1>2, <1>4
<1>6. t[l + 1].goal = g /\ t[l + 1].cmd = bind_cmd(R)
    BY <1>2, <1>4
<1>7. \A k \in 1 .. l + 1 : k \in 1 .. l \/ k = l + 1
    OBVIOUS
<1>8. \A f \in K : f = g
    BY <1>1, <1>3, CreatesIs
<1>9. Dead(g) => K = {}
    BY <1>1, <1>3, CreatesIs
<1>10. /\ \A d \in DepsFor(m, g) : Handled(d)
    BY <1>1, <1>3, AllHandled
<1>11. (K = {} /\ g \notin files) => Dead(g)
    BY <1>1, <1>3, <1>10, CreatesIs
<1>12. g \notin files \ x.files /\ RulesFor(m, g) # {}
  <2>1. FrameIs(Top, {})
      BY <1>3, TopIs
  <2> QED BY <1>1, <2>1 DEF FrameIs
<1>13. /\ \A k \in 1 .. l : s[k].goal \in files \/ Dead(s[k].goal)
       /\ x.files \subseteq files
    BY <1>1, <1>2, <1>4 DEF RanInv
<1>14. (g \notin files /\ \E k \in 1 .. l : s[k].goal = g) => K = {}
    BY <1>9, <1>13
\* Handled, and not yet on disk: nothing will write it.
<1>15. ASSUME NEW e, Handled(e), e \notin files PROVE e \notin files'
  <2> SUFFICES ASSUME e \in files' PROVE FALSE
      OBVIOUS
  <2>1. e \in K /\ e = g
      BY <1>3, <1>8, <1>15
  <2>2. e \in x.files \/ RulesFor(m, e) = {} \/ \E k \in 1 .. l : s[k].goal = e
      BY <1>1, <1>2, <1>4, <1>15 DEF Handled
  <2> QED BY <1>12, <1>13, <1>14, <1>15, <2>1, <2>2
<1>16. ASSUME NEW v, Dead(v) PROVE Dead(v)'
  <2>1. ASSUME NEW r \in RulesFor(m, v)
        PROVE  \/ Out \notin Range(r.cmd) \/ v \in x.failing
               \/ /\ In \in Range(r.cmd) /\ r.deps # <<>>
                  /\ DepOf(r, v, r.deps[1]) \notin files' /\ Handled(DepOf(r, v, r.deps[1]))'
    <3>1. PICK e : e = DepOf(r, v, r.deps[1])
        OBVIOUS
    <3>2. \/ Out \notin Range(r.cmd) \/ v \in x.failing
          \/ /\ In \in Range(r.cmd) /\ r.deps # <<>>
             /\ e \notin files /\ Handled(e)
        BY <1>1, <1>16, <2>1, <3>1 DEF Dead
    <3>3. Handled(e) => Handled(e)'
        BY <1>3 DEF Grows
    <3>4. (e \notin files /\ Handled(e)) => e \notin files'
        BY <1>15
    <3> QED BY <3>1, <3>2, <3>3, <3>4
  <2> QED BY <1>1, <1>3, <2>1 DEF Dead
<1>17. x.files \subseteq files'
    BY <1>3, <1>13
<1>18. ASSUME NEW f \in files' PROVE f \in x.files \/ \E k \in 1 .. l + 1 : t[k].goal = f
  <2>1. CASE f \in files
    <3>1. f \in x.files \/ \E k \in 1 .. l : s[k].goal = f
        BY <1>1, <1>2, <1>4, <2>1 DEF RanInv
    <3> QED BY <1>5, <3>1
  <2>2. CASE f \notin files
    <3>1. f = g /\ l + 1 \in 1 .. l + 1
        BY <1>3, <1>8, <2>2
    <3> QED BY <1>6, <3>1
  <2> QED BY <2>1, <2>2
<1>19. ASSUME NEW k \in 1 .. l + 1 PROVE t[k].goal \in files' \/ Dead(t[k].goal)'
  <2>1. PICK v : v = t[k].goal
      OBVIOUS
  <2>2. CASE k \in 1 .. l
    <3>1. v \in files \/ Dead(v)
        BY <1>5, <1>13, <2>1, <2>2
    <3>2. v \in files' \/ Dead(v)'
        BY <1>3, <1>16, <3>1
    <3> QED BY <2>1, <3>2
  <2>3. CASE k = l + 1
    <3>1. v = g
        BY <1>6, <2>1, <2>3
    <3>2. g \in files' \/ Dead(g)
        BY <1>3, <1>8, <1>11
    <3>3. g \in files' \/ Dead(g)'
        BY <1>16, <3>2
    <3> QED BY <2>1, <3>1, <3>3
  <2> QED BY <1>7, <2>2, <2>3
<1>20. ASSUME NEW n \in 1 .. l + 1, NEW d \in DepsFor(m, t[n].goal)
       PROVE  d \in x.files \/ RulesFor(m, d) = {} \/ \E k \in 1 .. n - 1 : t[k].goal = d
  <2>1. CASE n \in 1 .. l
    <3>1. d \in x.files \/ RulesFor(m, d) = {} \/ \E k \in 1 .. n - 1 : s[k].goal = d
      <4>1. d \in DepsFor(m, s[n].goal)
          BY <1>5, <2>1
      <4> QED BY <1>1, <1>2, <1>4, <2>1, <4>1 DEF RanInv
    <3>2. \A k \in 1 .. n - 1 : k \in 1 .. l
        BY <2>1
    <3> QED BY <1>5, <3>1, <3>2
  <2>2. CASE n = l + 1
    <3>1. Handled(d)
        BY <1>6, <1>10, <2>2
    <3>2. d \in x.files \/ RulesFor(m, d) = {} \/ \E k \in 1 .. l : s[k].goal = d
        BY <1>1, <1>2, <1>4, <3>1 DEF Handled
    <3>3. n - 1 = l
        BY <2>2
    <3> QED BY <1>5, <3>2, <3>3
  <2> QED BY <1>7, <2>1, <2>2
<1>21. ASSUME NEW n \in 1 .. l + 1, NEW k \in 1 .. l + 1,
              t[n].goal = t[k].goal, t[n].goal \in files' \ x.files
       PROVE  n = k
  <2>1. CASE n \in 1 .. l /\ k \in 1 .. l
    <3>1. s[n].goal = s[k].goal /\ s[n].goal \in files'
        BY <1>5, <1>21, <2>1
    <3>2. CASE s[n].goal \in files
      <4>1. s[n].goal \in files \ x.files
          BY <1>5, <1>21, <2>1, <3>2
      <4> QED BY <1>1, <1>2, <1>4, <2>1, <3>1, <4>1 DEF RanInv
    <3>3. CASE s[n].goal \notin files
      <4>1. s[n].goal = g /\ K # {}
          BY <1>3, <1>8, <3>1, <3>3
      <4> QED BY <1>14, <2>1, <3>3, <4>1
    <3> QED BY <3>2, <3>3
  <2>2. CASE (n \in 1 .. l /\ k = l + 1) \/ (k \in 1 .. l /\ n = l + 1)
    <3>1. PICK i \in 1 .. l : t[i].goal = g /\ t[n].goal = g
        BY <1>6, <1>21, <2>2
    <3>2. s[i].goal = g
        BY <1>5, <3>1
    <3>3. g \in files' \ x.files
        BY <1>21, <3>1
    <3>4. g \notin files
        BY <1>12, <3>3
    <3>5. K = {}
        BY <1>14, <3>2, <3>4
    <3> QED BY <1>3, <3>3, <3>4, <3>5
  <2>3. CASE n = l + 1 /\ k = l + 1
      BY <2>3
  <2> QED BY <1>7, <2>1, <2>2, <2>3
<1>22. ASSUME NEW n \in 1 .. l + 1
       PROVE  \E r \in RulesFor(m, t[n].goal) : t[n].cmd = Spelled(m, t[n].goal, r)
  <2>1. CASE n \in 1 .. l
    <3>1. \E r \in RulesFor(m, s[n].goal) : s[n].cmd = Spelled(m, s[n].goal, r)
        BY <1>2, <1>4, <2>1 DEF RanInv, RanAsWritten
    <3>2. PICK v : v = s[n].goal /\ v = t[n].goal
        BY <1>5, <2>1
    <3>3. PICK r \in RulesFor(m, v) : s[n].cmd = Spelled(m, v, r)
        BY <3>1, <3>2
    <3>4. t[n].cmd = Spelled(m, v, r)
        BY <1>5, <2>1, <3>3
    <3> QED BY <3>2, <3>4
  <2>2. CASE n = l + 1
    <3>1. PICK r : r = Made[Top.rule]
        OBVIOUS
    <3>2. r \in RulesFor(m, g) /\ bind_cmd(R) = Spelled(m, g, r)
        BY <1>1, <1>3, <3>1, BoundIs, CommandIs
    <3> QED BY <1>6, <2>2, <3>2
  <2> QED BY <1>7, <2>1, <2>2
<1>23. world' = x /\ x.makefile = m
    BY <1>1, <1>3
<1>24. RanAsWritten'
    BY <1>2, <1>4, <1>22, <1>23 DEF RanAsWritten
<1>25. \A n, k \in 1 .. l + 1 : (t[n].goal = t[k].goal /\ t[n].goal \in files' \ x.files) => n = k
    BY <1>21
<1> QED BY <1>2, <1>4, <1>17, <1>18, <1>19, <1>20, <1>23, <1>24, <1>25 DEF RanInv

----------------------------------------------------------------------------
(* The theorems                                                            *)

\* A step that moves nothing keeps everything.
LEMMA Unmoved ==
  ASSUME StackInv, RanInv, UNCHANGED <<world, bind_str, stack, files, ran>>
  PROVE  StackInv' /\ RanInv' /\ (CutInv /\ rules' = rules => CutInv')
<1>1. Grows
    BY DEF Grows, Handled
<1>2. RanInv'
    BY RanKeeps
<1>3. ASSUME NEW j \in 1 .. Len(stack) PROVE FrameIs(stack[j], Under(j))'
  <2>1. PICK f, u : f = stack[j] /\ u = Under(j)
      OBVIOUS
  <2>2. u = Under(j)' /\ f = stack'[j]
      BY <2>1 DEF Under
  <2>3. FrameIs(f, u)
      BY <2>1 DEF StackInv
  <2>4. f.goal \notin files' \ world.files
      BY <2>3 DEF FrameIs
  <2>5. FrameIs(f, u)'
      BY <1>1, <2>3, <2>4, FrameStays
  <2> QED BY <2>1, <2>2, <2>5
<1>4. StackInv'
    BY <1>3 DEF StackInv
<1>5. ASSUME CutInv, rules' = rules PROVE CutInv'
  <2>1. PICK M : M = Made
      OBVIOUS
  <2>2. \A i : InUse(i) => InUse(i)'
      BY DEF InUse
  <2> QED BY <1>1, <1>5, <2>1, <2>2, CutKeeps
<1> QED BY <1>2, <1>4, <1>5

\* Before anything is done.
LEMMA Untouched ==
  ASSUME stack = <<>>, ran = <<>>, files = world.files
  PROVE  StackInv /\ RanInv
<1>1. MaxDepth \in Nat /\ DOMAIN ran = {} /\ Len(stack) = 0
    BY LimitsAssumption
<1>2. ran \in Seq(Range(ran)) /\ stack \in Seq(FrameSet) /\ Len(stack) <= MaxDepth
    BY <1>1
<1>3. \A j : j \notin 1 .. Len(stack)
    BY <1>1
<1>4. StackInv
    BY <1>2, <1>3 DEF StackInv
<1>5. RanInv
    BY <1>1, <1>2 DEF RanInv, RanAsWritten
<1> QED BY <1>4, <1>5

\* The rules as parse leaves them.
LEMMA RulesRead ==
  ASSUME ReadInv, world \in Supported
  PROVE  /\ phase = "goal" => rules = Made
         /\ phase # "parse" => vars = Reading[world.makefile].vars
<1>1. world.makefile \in Readable
    BY MadeIs
<1>2. Reading[world.makefile] =
        [rules |-> RulesIn(Solid(world.makefile)), vars |-> VarsIn(Solid(world.makefile))]
    BY <1>1, ReadableIs
<1> QED BY <1>1, <1>2 DEF ReadInv, Made

\* As parse leaves them no rule is cut.
LEMMA CutStarts ==
  ASSUME world \in Supported, rules = Made
  PROVE  CutInv
<1>1. Made \in Seq(RuleSet)
    BY MadeIs
<1> QED BY <1>1 DEF CutInv

\* What makes the commands come out right, and in the right order.
LEMMA BuildInvStarts == Init => BuildInv
<1> SUFFICES ASSUME Init PROVE BuildInv
    OBVIOUS
<1>1. phase = "parse" /\ stack = <<>> /\ ran = <<>> /\ files = world.files
    BY DEF Init
<1>2. StackInv /\ RanInv
    BY <1>1, Untouched
<1> QED BY <1>1, <1>2 DEF BuildInv

\* No step of the makefile's reading fails.
LEMMA BuildInvReads == ReadInv /\ ReadInv' /\ BuildInv /\ (parse \/ parsed) => BuildInv'
<1> SUFFICES ASSUME ReadInv, ReadInv', BuildInv, parse \/ parsed PROVE BuildInv'
    OBVIOUS
<1>1. /\ phase = "parse" /\ phase' \in {"parse", "stuck", "goal"} /\ (phase' = "goal" => parsed)
      /\ UNCHANGED <<world, bind_str, stack, files, ran>>
    BY DEF parse, parsed
<1>2. stack = <<>> /\ ran = <<>> /\ files = world.files
    BY <1>1 DEF BuildInv
<1>3. ASSUME world \in Supported PROVE StackInv' /\ RanInv' /\ (phase' # "parse" => CutInv')
  <2>1. StackInv' /\ RanInv'
      BY <1>1, <1>3, Unmoved DEF BuildInv
  <2>2. phase' # "stuck"
    <3>1. world'.makefile \in Readable
        BY <1>1, <1>3, MadeIs
    <3> QED BY <1>1, <1>2, <3>1 DEF ReadInv
  <2>3. ASSUME phase' = "goal" PROVE CutInv'
    <3>1. UNCHANGED rules
        BY <1>1, <2>3 DEF parsed
    <3>2. world.makefile \in Readable
        BY <1>3, MadeIs
    <3>3. rules = RulesIn(Solid(world.makefile))
        BY <1>1, <2>3, <3>1, <3>2 DEF ReadInv
    <3>4. Reading[world.makefile] =
            [rules |-> RulesIn(Solid(world.makefile)), vars |-> VarsIn(Solid(world.makefile))]
        BY <3>2, ReadableIs
    <3>5. rules = Made
        BY <3>3, <3>4 DEF Made
    <3>6. CutInv
        BY <1>3, <3>5, CutStarts
    <3> QED BY <1>1, <1>3, <3>1, <3>6, Unmoved DEF BuildInv
  <2> QED BY <1>1, <2>1, <2>2, <2>3
<1> QED BY <1>1, <1>2, <1>3 DEF BuildInv

\* EnterRule: a search begins.
LEMMA BuildInvEnters == ReadInv /\ BuildInv /\ EnterRule => BuildInv'
<1> SUFFICES ASSUME ReadInv, BuildInv, EnterRule PROVE BuildInv'
    OBVIOUS
<1>1. phase # "parse" /\ phase' = "build" /\ UNCHANGED <<world, files, ran>>
    BY DEF EnterRule, Asking, InDeps
<1>2. ASSUME world \in Supported PROVE StackInv' /\ RanInv' /\ CutInv'
  <2>1. StackInv /\ CutInv /\ RanInv /\ StartInv
      BY <1>1, <1>2 DEF BuildInv, StartInv
  <2> QED BY <1>1, <1>2, <2>1, Entered, RanKeeps
<1> QED BY <1>1, <1>2 DEF BuildInv

\* NoRule, OnDisk: nothing is to be done for a word.
LEMMA BuildInvPasses == BuildInv /\ (NoRule \/ OnDisk) => BuildInv'
<1> SUFFICES ASSUME BuildInv, NoRule \/ OnDisk PROVE BuildInv'
    OBVIOUS
<1>1. /\ phase # "parse" /\ phase' \in {"build", "done"} /\ stack' = Caller
      /\ UNCHANGED <<world, rules, bind_str, files, ran>>
    BY DEF NoRule, OnDisk, Asking, InDeps
<1>2. ASSUME world \in Supported PROVE StackInv' /\ RanInv' /\ CutInv'
  <2>1. StackInv /\ CutInv /\ RanInv /\ StartInv
      BY <1>1, <1>2 DEF BuildInv, StartInv
  <2>2. CASE phase = "goal"
    <3>1. stack' = stack
        BY <1>1, <2>1, <2>2 DEF StartInv, Caller
    <3> QED BY <1>1, <2>1, <3>1, Unmoved
  <2>3. CASE phase # "goal"
    <3>1. InDeps
        BY <2>3 DEF NoRule, OnDisk, Asking
    <3>2. PICK w \in Near(world) : w = Dependency
        BY <1>2, <2>1, <3>1, AskedIs
    <3>3. Handled(w)
      <4>1. CASE OnDisk
        <5>1. w \in files
            BY <3>2, <4>1 DEF OnDisk
        <5> QED BY <2>1, <5>1 DEF RanInv, Handled
      <4>2. CASE NoRule
        <5>1. w = Asked /\ Hit = 0
            BY <2>3, <3>2, <4>2 DEF NoRule, Asked
        <5> QED BY <1>2, <2>1, <5>1, NoRuleIsHandled
      <4> QED BY <4>1, <4>2
    <3> QED BY <1>1, <1>2, <2>1, <3>1, <3>2, <3>3, Skipped, RanKeeps
  <2> QED BY <2>2, <2>3
<1> QED BY <1>1, <1>2 DEF BuildInv

\* do_exec: a command is run, or its variables are broken.
LEMMA BuildInvExecs == ReadInv /\ BuildInv /\ do_exec => BuildInv'
<1> SUFFICES ASSUME ReadInv, BuildInv, do_exec PROVE BuildInv'
    OBVIOUS
<1>1. phase = "build" /\ phase' \in {"build", "done", "stuck"} /\ UNCHANGED <<world, rules>> /\ stack # <<>>
    BY DEF do_exec, AfterExec
<1>2. ASSUME world \in Supported PROVE StackInv' /\ RanInv' /\ CutInv'
  <2>1. StackInv /\ CutInv /\ RanInv
      BY <1>1, <1>2 DEF BuildInv
  <2>2. CASE stack' = stack
    <3>1. PICK s : s = stack /\ s \in Seq(FrameSet) /\ s # <<>>
        BY <1>1, <2>1 DEF StackInv
    <3>2. Front(s) # s
      <4>1. PICK n, f : n = Len(s) /\ f = Front(s)
          OBVIOUS
      <4>2. n \in Nat /\ Len(f) = n - 1
          BY ONLY <3>1, <4>1, FrontIs
      <4> QED BY <4>1, <4>2
    <3>3. UNCHANGED <<bind_str, files, ran>>
        BY <2>2, <3>1, <3>2 DEF do_exec
    <3> QED BY <1>1, <2>1, <2>2, <3>3, Unmoved
  <2>3. CASE stack' # stack
    <3>1. PICK m, g, K, n, l : m = world.makefile /\ g = Top.goal /\ K = Creates(rules[Top.rule])
                               /\ n = Len(stack) /\ l = Len(ran)
        OBVIOUS
    <3>2. vars = Reading[m].vars
        BY <1>1, <1>2, <3>1, RulesRead
    <3>3. /\ stack # <<>> /\ Top.rest = <<>> /\ files' = files \cup K
          /\ bind_str' = IF Top.stem THEN "" ELSE bind_str
          /\ stack' = Front(stack) /\ Grows /\ Handled(g)'
        BY <1>2, <2>1, <2>3, <3>1, <3>2, ExecIs
    <3>4. n \in Nat
        BY <2>1, <3>1 DEF StackInv
    <3>5. \A f \in K : f = g
        BY <1>2, <2>1, <3>1, <3>2, <3>3, CreatesIs
    <3>6. StackInv' /\ n > 0 /\ Len(stack') = n - 1 /\ \A j \in 1 .. n - 1 : stack'[j] = stack[j]
        BY <1>2, <2>1, <3>1, <3>3, <3>4, <3>5, ExecStack
    <3>7. CutInv'
        BY <1>1, <1>2, <2>1, <3>1, <3>3, <3>4, <3>6, ExecCut
    <3>8. RanInv'
        BY <1>2, <2>1, <2>3, <3>1, <3>2, ExecRan
    <3> QED BY <3>6, <3>7, <3>8
  <2> QED BY <2>2, <2>3
<1> QED BY <1>1, <1>2 DEF BuildInv

\* Every step keeps the rules, the searches under way and what was run.
LEMMA BuildInvStep == ReadInv /\ ReadInv' /\ BuildInv /\ [Next]_allVars => BuildInv'
<1> SUFFICES ASSUME ReadInv, ReadInv', BuildInv, [Next]_allVars PROVE BuildInv'
    OBVIOUS
<1>1. CASE parse \/ parsed
    BY <1>1, BuildInvReads
<1>2. CASE EnterRule
    BY <1>2, BuildInvEnters
<1>3. CASE NoRule \/ OnDisk
    BY <1>3, BuildInvPasses
<1>4. CASE SearchFails
  <2>1. /\ phase # "parse" /\ phase' = "stuck"
        /\ UNCHANGED <<world, rules, bind_str, stack, files, ran>>
      BY <1>4 DEF SearchFails, Asking, InDeps
  <2>2. ASSUME world \in Supported PROVE StackInv' /\ RanInv' /\ CutInv'
      BY <2>1, <2>2, Unmoved DEF BuildInv
  <2> QED BY <2>1, <2>2 DEF BuildInv
<1>5. CASE do_exec
    BY <1>5, BuildInvExecs
<1>6. CASE UNCHANGED allVars
  <2>1. UNCHANGED <<world, rules, bind_str, stack, files, ran, phase>>
      BY <1>6 DEF allVars
  <2>2. ASSUME world \in Supported PROVE StackInv' /\ RanInv' /\ (phase # "parse" => CutInv')
      BY <2>1, <2>2, Unmoved DEF BuildInv
  <2> QED BY <2>1, <2>2 DEF BuildInv
<1> QED BY <1>1, <1>2, <1>3, <1>4, <1>5, <1>6 DEF Next

\* CommandsAsWritten: every command bind_cmd hands to do_exec is that of its
\* target's rule in the makefile, for any makefile that is supported.
THEOREM CommandsAsWrittenSound == Spec => []CommandsAsWritten
<1>1. BuildInv => CommandsAsWritten
    BY DEF BuildInv, RanInv, CommandsAsWritten
<1> QED BY <1>1, ReadInvStarts, ReadInvStep, BuildInvStarts, BuildInvStep, PTL DEF Spec

\* PrerequisitesFirst: resolve_deps has had everything a command depends on made,
\* or tried to, before do_exec runs it, and nothing that is written twice.
THEOREM PrerequisitesFirstSound == Spec => []PrerequisitesFirst
<1>1. BuildInv => PrerequisitesFirst
    BY DEF BuildInv, RanInv, PrerequisitesFirst
<1> QED BY <1>1, ReadInvStarts, ReadInvStep, BuildInvStarts, BuildInvStep, PTL DEF Spec
=============================================================================
