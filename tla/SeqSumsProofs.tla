---------------------------- MODULE SeqSumsProofs -----------------------------
(***************************************************************************)
(* What the sums over sequences are.  The definition is recursive, so the  *)
(* proofs are by induction on the natural numbers, taken from the fact     *)
(* that a set of numbers that is not empty has a least element.            *)
(***************************************************************************)
EXTENDS SeqSums, SequenceTheorems, WellFoundedInduction, TLAPS

(* Induction, for a set of numbers. *)
LEMMA Induction ==
    ASSUME NEW S \in SUBSET Nat, 0 \in S, \A n \in S : n + 1 \in S
    PROVE  S = Nat
  <1>. DEFINE R == OpToRel(<, Nat)
              T == Nat \ S
  <1>1. IsWellFoundedOn(R, Nat)
    BY NatLessThanWellFounded
  <1>. SUFFICES ASSUME T # {} PROVE FALSE
    OBVIOUS
  <1>2. PICK x \in T : \A y \in T : ~ (<<y, x>> \in R)
    <2>1. T \subseteq Nat
      OBVIOUS
    <2>. HIDE DEF R, T
    <2>. QED
      BY <1>1, <2>1, WFMin
  <1>3. x \in Nat /\ x # 0 /\ x - 1 \in Nat
    OBVIOUS
  <1>4. x - 1 \in S
    <2>. SUFFICES ASSUME x - 1 \notin S PROVE FALSE
      OBVIOUS
    <2>1. x - 1 \in T
      BY <1>3
    <2>2. <<x - 1, x>> \in R
      BY <1>3 DEF OpToRel
    <2>. QED
      BY <1>2, <2>1, <2>2
  <1>. QED
    BY <1>3, <1>4

(* g holds the partial sums of s. *)
PartialSums(g, s) ==
    g[0] = 0 /\ \A i \in 1..Len(s) : g[i] = g[i - 1] + s[i]

(* Every sequence has partial sums. *)
LEMMA SumsExist ==
    ASSUME NEW s \in Seq(Nat)
    PROVE  \E g \in [0..Len(s) -> Nat] : PartialSums(g, s)
  <1>. DEFINE Upto(g, n) == g[0] = 0 /\ \A i \in 1..n : g[i] = g[i - 1] + s[i]
              S == {n \in Nat : n <= Len(s) => \E g \in [0..n -> Nat] : Upto(g, n)}
  <1>0. Len(s) \in Nat /\ \A i \in 1..Len(s) : s[i] \in Nat
    BY LenProperties, ElementOfSeq
  <1>1. 0 \in S
    <2>1. [i \in 0..0 |-> 0] \in [0..0 -> Nat] /\ Upto([i \in 0..0 |-> 0], 0)
      OBVIOUS
    <2>. QED
      BY <2>1
  <1>2. ASSUME NEW n \in S PROVE n + 1 \in S
    <2>0. n \in Nat /\ n + 1 \in Nat
      OBVIOUS
    <2>. SUFFICES ASSUME n + 1 <= Len(s)
                  PROVE  \E g \in [0..(n + 1) -> Nat] : Upto(g, n + 1)
      <3>. HIDE DEF Upto
      <3>. QED
        BY <2>0
    <2>1. PICK g \in [0..n -> Nat] : Upto(g, n)
      BY <1>0
    <2>. DEFINE h == [i \in 0..(n + 1) |-> IF i <= n THEN g[i] ELSE g[n] + s[n + 1]]
    <2>2. s[n + 1] \in Nat /\ g[n] \in Nat
      BY <1>0
    <2>3. h \in [0..(n + 1) -> Nat]
      BY <2>2
    <2>4. \A i \in 0..n : h[i] = g[i]
      OBVIOUS
    <2>5. h[n + 1] = g[n] + s[n + 1]
      OBVIOUS
    <2>. HIDE DEF h
    <2>6. Upto(h, n + 1)
      <3>1. h[0] = 0
        BY <2>1, <2>4
      <3>2. ASSUME NEW i \in 1..(n + 1) PROVE h[i] = h[i - 1] + s[i]
        <4>1. CASE i <= n
          <5>1. i \in 0..n /\ i - 1 \in 0..n /\ i \in 1..n
            BY <4>1
          <5>. QED
            BY <2>1, <2>4, <5>1
        <4>2. CASE i = n + 1
          BY <2>4, <2>5, <4>2
        <4>. QED
          BY <4>1, <4>2
      <3>. QED
        BY <3>1, <3>2
    <2>. QED
      BY <2>3, <2>6
  <1>3. S = Nat
    <2>1. S \in SUBSET Nat
      OBVIOUS
    <2>. HIDE DEF S
    <2>. QED
      BY <1>1, <1>2, <2>1, Induction
  <1>4. \E g \in [0..Len(s) -> Nat] : Upto(g, Len(s))
    <2>1. Len(s) \in S
      BY <1>0, <1>3
    <2>. HIDE DEF Upto
    <2>. QED
      BY <1>0, <2>1
  <1>. QED
    BY <1>4 DEF PartialSums

(* The sum of s is the last of its partial sums. *)
LEMMA SumIs ==
    ASSUME NEW s \in Seq(Nat), NEW g \in [0..Len(s) -> Nat], PartialSums(g, s)
    PROVE  SumOf(s) = g[Len(s)]
  <1>. DEFINE Step(f) == [i \in 0..Len(s) |-> IF i = 0 THEN 0 ELSE f[i - 1] + s[i]]
              f == CHOOSE h : h = Step(h)
  <1>0. Len(s) \in Nat
    BY LenProperties
  <1>1. g = Step(g)
    BY <1>0 DEF PartialSums
  <1>2. f = Step(f)
    <2>. HIDE DEF Step
    <2>. QED
      BY <1>1
  <1>3. SumOf(s) = f[Len(s)]
    BY DEF SumOf
  <1>. HIDE DEF f
  <1>. DEFINE S == {n \in Nat : n <= Len(s) => f[n] = g[n]}
  <1>4. 0 \in S
    BY <1>0, <1>2 DEF PartialSums
  <1>5. ASSUME NEW n \in S PROVE n + 1 \in S
    <2>. SUFFICES ASSUME n + 1 <= Len(s) PROVE f[n + 1] = g[n + 1]
      OBVIOUS
    <2>1. n + 1 \in 1..Len(s) /\ f[n] = g[n] /\ (n + 1) - 1 = n /\ n + 1 # 0
      BY <1>0
    <2>2. f[n + 1] = f[n] + s[n + 1]
      BY <1>2, <2>1
    <2>3. g[n + 1] = g[n] + s[n + 1]
      BY <2>1 DEF PartialSums
    <2>. QED
      BY <2>1, <2>2, <2>3
  <1>6. S = Nat
    <2>1. S \in SUBSET Nat
      OBVIOUS
    <2>. HIDE DEF S
    <2>. QED
      BY <1>4, <1>5, <2>1, Induction
  <1>. QED
    BY <1>0, <1>3, <1>6
-----------------------------------------------------------------------------
(* The sum of the weights F[m] of the elements m of q. *)
Weight(F, q) == SumOf([i \in 1..Len(q) |-> F[q[i]]])

(* The weights of a queue, one by one. *)
LEMMA WeightSeq ==
    ASSUME NEW M, NEW F \in [M -> Nat], NEW q \in Seq(M), NEW v,
           v = [i \in 1..Len(q) |-> F[q[i]]]
    PROVE  /\ v \in Seq(Nat) /\ Len(v) = Len(q) /\ Len(q) \in Nat
           /\ \A i \in 1..Len(q) : v[i] = F[q[i]] /\ v[i] \in Nat /\ q[i] \in M
  <1>1. Len(q) \in Nat /\ \A i \in 1..Len(q) : q[i] \in M
    BY LenProperties, ElementOfSeq
  <1>2. \A i \in 1..Len(q) : F[q[i]] \in Nat
    BY <1>1
  <1>. QED
    BY <1>1, <1>2

(* The weight of a queue as partial sums of its weights. *)
LEMMA WeightIs ==
    ASSUME NEW M, NEW F \in [M -> Nat], NEW q \in Seq(M),
           NEW g \in [0..Len(q) -> Nat], g[0] = 0,
           \A i \in 1..Len(q) : g[i] = g[i - 1] + F[q[i]]
    PROVE  Weight(F, q) = g[Len(q)]
  <1>. DEFINE v == [i \in 1..Len(q) |-> F[q[i]]]
  <1>1. /\ v \in Seq(Nat) /\ Len(v) = Len(q)
        /\ \A i \in 1..Len(q) : v[i] = F[q[i]]
    BY WeightSeq
  <1>. HIDE DEF v
  <1>2. PartialSums(g, v)
    BY <1>1 DEF PartialSums
  <1>3. SumOf(v) = g[Len(v)]
    BY <1>1, <1>2, SumIs
  <1>. QED
    BY <1>1, <1>3 DEF Weight, v

(* Every queue has such partial sums. *)
LEMMA WeightExists ==
    ASSUME NEW M, NEW F \in [M -> Nat], NEW q \in Seq(M)
    PROVE  \E g \in [0..Len(q) -> Nat] :
             /\ g[0] = 0 /\ \A i \in 1..Len(q) : g[i] = g[i - 1] + F[q[i]]
             /\ Weight(F, q) = g[Len(q)]
  <1>. DEFINE v == [i \in 1..Len(q) |-> F[q[i]]]
  <1>1. /\ v \in Seq(Nat) /\ Len(v) = Len(q)
        /\ \A i \in 1..Len(q) : v[i] = F[q[i]]
    BY WeightSeq
  <1>. HIDE DEF v
  <1>2. PICK g \in [0..Len(v) -> Nat] : PartialSums(g, v)
    BY <1>1, SumsExist
  <1>3. g[0] = 0 /\ \A i \in 1..Len(q) : g[i] = g[i - 1] + F[q[i]]
    BY <1>1, <1>2 DEF PartialSums
  <1>4. g \in [0..Len(q) -> Nat]
    BY <1>1
  <1>5. Weight(F, q) = g[Len(q)]
    BY <1>3, <1>4, WeightIs
  <1>. QED
    BY <1>3, <1>4, <1>5

(* A weight is a natural number. *)
LEMMA WeightType ==
    ASSUME NEW M, NEW F \in [M -> Nat], NEW q \in Seq(M)
    PROVE  Weight(F, q) \in Nat
  <1>1. PICK g \in [0..Len(q) -> Nat] : Weight(F, q) = g[Len(q)]
    BY WeightExists
  <1>2. Len(q) \in Nat
    BY LenProperties
  <1>. QED
    BY <1>1, <1>2

(* Nothing weighs nothing. *)
LEMMA WeightEmpty ==
    ASSUME NEW M, NEW F \in [M -> Nat]
    PROVE  Weight(F, <<>>) = 0
  <1>1. <<>> \in Seq(M) /\ Len(<<>>) = 0
    BY EmptySeq
  <1>2. \E g \in [0..Len(<<>>) -> Nat] :
          /\ g[0] = 0 /\ \A i \in 1..Len(<<>>) : g[i] = g[i - 1] + F[<<>>[i]]
          /\ Weight(F, <<>>) = g[Len(<<>>)]
    BY <1>1, WeightExists, ZenonT(30)
  <1>3. PICK g \in [0..Len(<<>>) -> Nat] : g[0] = 0 /\ Weight(F, <<>>) = g[Len(<<>>)]
    BY <1>2
  <1>. QED
    BY <1>1, <1>3

(* One queue after the other weighs what the two weigh. *)
LEMMA WeightConcat ==
    ASSUME NEW M, NEW F \in [M -> Nat], NEW a \in Seq(M), NEW b \in Seq(M)
    PROVE  Weight(F, a \o b) = Weight(F, a) + Weight(F, b)
  <1>1. PICK g \in [0..Len(a) -> Nat] :
          /\ g[0] = 0 /\ \A i \in 1..Len(a) : g[i] = g[i - 1] + F[a[i]]
          /\ Weight(F, a) = g[Len(a)]
    BY WeightExists
  <1>2. PICK h \in [0..Len(b) -> Nat] :
          /\ h[0] = 0 /\ \A i \in 1..Len(b) : h[i] = h[i - 1] + F[b[i]]
          /\ Weight(F, b) = h[Len(b)]
    BY WeightExists
  <1>. DEFINE c == a \o b
              k == [i \in 0..Len(c) |-> IF i <= Len(a) THEN g[i] ELSE g[Len(a)] + h[i - Len(a)]]
  <1>3. /\ c \in Seq(M) /\ Len(c) = Len(a) + Len(b) /\ Len(a) \in Nat /\ Len(b) \in Nat
        /\ \A i \in 1..(Len(a) + Len(b)) : c[i] = IF i <= Len(a) THEN a[i] ELSE b[i - Len(a)]
    BY ConcatProperties, LenProperties
  <1>. HIDE DEF c
  <1>4. \A i \in 0..Len(c) :
          k[i] = IF i <= Len(a) THEN g[i] ELSE g[Len(a)] + h[i - Len(a)]
    OBVIOUS
  <1>5. k \in [0..Len(c) -> Nat]
    <2>1. ASSUME NEW i \in 0..Len(c)
          PROVE  (IF i <= Len(a) THEN g[i] ELSE g[Len(a)] + h[i - Len(a)]) \in Nat
      <3>1. CASE i <= Len(a)
        <4>1. i \in 0..Len(a)
          BY <1>3, <3>1
        <4>. QED
          BY <3>1, <4>1
      <3>2. CASE i > Len(a)
        <4>1. i - Len(a) \in 0..Len(b) /\ Len(a) \in 0..Len(a) /\ ~(i <= Len(a))
          BY <1>3, <3>2
        <4>2. g[Len(a)] \in Nat /\ h[i - Len(a)] \in Nat
          BY <4>1
        <4>. QED
          BY <4>1, <4>2
      <3>. QED
        BY <1>3, <3>1, <3>2
    <2>. QED
      BY <2>1
  <1>. HIDE DEF k
  <1>6. k[0] = 0
    BY <1>1, <1>3, <1>4
  <1>7. ASSUME NEW i \in 1..Len(c) PROVE k[i] = k[i - 1] + F[c[i]]
    <2>1. CASE i <= Len(a)
      <3>1. /\ i \in 1..Len(a) /\ i \in 0..Len(c) /\ i - 1 \in 0..Len(c)
            /\ i - 1 <= Len(a) /\ c[i] = a[i]
        BY <1>3, <2>1
      <3>. QED
        BY <1>1, <1>4, <2>1, <3>1
    <2>2. CASE i = Len(a) + 1
      <3>0. /\ 1 \in 1..Len(b) /\ i \in 0..Len(c) /\ i - 1 \in 0..Len(c) /\ i - 1 = Len(a)
            /\ ~(i <= Len(a)) /\ i - Len(a) = 1 /\ i - 1 <= Len(a)
            /\ i \in 1..(Len(a) + Len(b))
        BY <1>3, <2>2
      <3>1. /\ 1 \in 1..Len(b) /\ i \in 0..Len(c) /\ i - 1 \in 0..Len(c) /\ i - 1 = Len(a)
            /\ ~(i <= Len(a)) /\ c[i] = b[1] /\ i - Len(a) = 1 /\ i - 1 <= Len(a)
        BY <1>3, <3>0
      <3>2. k[i] = g[Len(a)] + h[1] /\ k[i - 1] = g[Len(a)]
        BY <1>4, <3>1
      <3>3. h[1] = F[b[1]]
        <4>1. h[1] = h[1 - 1] + F[b[1]] /\ b[1] \in M
          BY <1>2, <3>1, ElementOfSeq
        <4>. QED
          BY <1>2, <4>1
      <3>. QED
        BY <3>1, <3>2, <3>3
    <2>3. CASE i > Len(a) + 1
      <3>. DEFINE j == i - Len(a)
      <3>0. /\ j \in 1..Len(b) /\ i \in 0..Len(c) /\ i - 1 \in 0..Len(c)
            /\ ~(i <= Len(a)) /\ ~(i - 1 <= Len(a)) /\ i \in 1..(Len(a) + Len(b))
            /\ (i - 1) - Len(a) = j - 1 /\ Len(a) \in 0..Len(a)
            /\ j \in 0..Len(b) /\ j - 1 \in 0..Len(b)
        <4>. DEFINE l == Len(a)
                    m == Len(b)
                    u == Len(c)
        <4>1. /\ l \in Nat /\ m \in Nat /\ u = l + m /\ i \in 1..u /\ i > l + 1
          BY <1>3, <2>3
        <4>. HIDE DEF l, m, u
        <4>2. /\ i - l \in 1..m /\ i \in 0..u /\ i - 1 \in 0..u
              /\ ~(i <= l) /\ ~(i - 1 <= l) /\ i \in 1..(l + m)
              /\ (i - 1) - l = (i - l) - 1 /\ l \in 0..l
              /\ i - l \in 0..m /\ (i - l) - 1 \in 0..m
          BY ONLY <4>1
        <4>. QED
          BY <4>2 DEF l, m, u
      <3>1. c[i] = b[j]
        BY <1>3, <3>0
      <3>2. k[i] = g[Len(a)] + h[j] /\ k[i - 1] = g[Len(a)] + h[j - 1]
        BY <1>4, <3>0
      <3>3. h[j] = h[j - 1] + F[b[j]]
        BY <1>2, <3>0
      <3>4. g[Len(a)] \in Nat /\ h[j - 1] \in Nat /\ F[b[j]] \in Nat
        BY <3>0, ElementOfSeq
      <3>. HIDE DEF j
      <3>. QED
        BY <3>1, <3>2, <3>3, <3>4
    <2>. QED
      BY <1>3, <2>1, <2>2, <2>3
  <1>8. Weight(F, c) = k[Len(c)]
    <2>1. c \in Seq(M)
      BY <1>3
    <2>2. \A i \in 1..Len(c) : k[i] = k[i - 1] + F[c[i]]
      BY <1>7
    <2>. QED
      BY <1>5, <1>6, <2>1, <2>2, WeightIs, Zenon
  <1>9. k[Len(c)] = g[Len(a)] + h[Len(b)]
    <2>1. CASE Len(b) = 0
      <3>1. Len(c) = Len(a) /\ Len(c) \in 0..Len(c) /\ Len(a) \in 0..Len(a) /\ Len(c) <= Len(a)
        BY <1>3, <2>1
      <3>2. k[Len(c)] = g[Len(a)] /\ g[Len(a)] \in Nat
        BY <1>4, <3>1
      <3>. QED
        BY <1>2, <2>1, <3>2
    <2>2. CASE Len(b) > 0
      <3>1. /\ Len(c) \in 0..Len(c) /\ ~(Len(c) <= Len(a)) /\ Len(c) - Len(a) = Len(b)
        BY <1>3, <2>2
      <3>. QED
        BY <1>4, <3>1
    <2>. QED
      BY <1>3, <2>1, <2>2
  <1>. QED
    BY <1>1, <1>2, <1>8, <1>9 DEF c

(* A queue of one. *)
LEMMA WeightSingle ==
    ASSUME NEW M, NEW F \in [M -> Nat], NEW m \in M
    PROVE  <<m>> \in Seq(M) /\ Weight(F, <<m>>) = F[m]
  <1>1. <<m>> \in Seq(M) /\ Len(<<m>>) = 1 /\ <<m>>[1] = m
    OBVIOUS
  <1>2. PICK g \in [0..Len(<<m>>) -> Nat] :
          /\ g[0] = 0 /\ \A i \in 1..Len(<<m>>) : g[i] = g[i - 1] + F[<<m>>[i]]
          /\ Weight(F, <<m>>) = g[Len(<<m>>)]
    BY <1>1, WeightExists
  <1>3. g[1] = g[1 - 1] + F[<<m>>[1]]
    BY <1>1, <1>2
  <1>. QED
    BY <1>1, <1>2, <1>3

(* What is put at the end of a queue adds its weight. *)
LEMMA WeightAppend ==
    ASSUME NEW M, NEW F \in [M -> Nat], NEW q \in Seq(M), NEW m \in M
    PROVE  Append(q, m) \in Seq(M) /\ Weight(F, Append(q, m)) = Weight(F, q) + F[m]
  <1>1. Append(q, m) = q \o <<m>>
    BY AppendIsConcat
  <1>2. <<m>> \in Seq(M) /\ Weight(F, <<m>>) = F[m]
    BY WeightSingle
  <1>3. Weight(F, q \o <<m>>) = Weight(F, q) + Weight(F, <<m>>)
    BY <1>2, WeightConcat
  <1>. QED
    BY <1>1, <1>2, <1>3, AppendProperties

(* What is put in front of a queue does so too. *)
LEMMA WeightPush ==
    ASSUME NEW M, NEW F \in [M -> Nat], NEW q \in Seq(M), NEW m \in M
    PROVE  <<m>> \o q \in Seq(M) /\ Weight(F, <<m>> \o q) = F[m] + Weight(F, q)
  <1>1. <<m>> \in Seq(M) /\ Weight(F, <<m>>) = F[m]
    BY WeightSingle
  <1>. QED
    BY <1>1, WeightConcat, ConcatProperties

(* What is taken from the front of a queue takes its weight away. *)
LEMMA WeightTail ==
    ASSUME NEW M, NEW F \in [M -> Nat], NEW q \in Seq(M), q # <<>>
    PROVE  /\ Head(q) \in M /\ Tail(q) \in Seq(M)
           /\ Weight(F, q) = F[Head(q)] + Weight(F, Tail(q))
  <1>1. Head(q) \in M /\ Tail(q) \in Seq(M) /\ q = <<Head(q)>> \o Tail(q)
    <2>. DEFINE h == <<Head(q)>>
                c == h \o Tail(q)
    <2>1. /\ Head(q) \in M /\ Tail(q) \in Seq(M) /\ Len(Tail(q)) = Len(q) - 1
          /\ \A i \in 1..Len(Tail(q)) : Tail(q)[i] = q[i + 1]
      BY HeadTailProperties
    <2>2. /\ Len(q) \in Nat \ {0} /\ Head(q) = q[1]
      BY EmptySeq, LenProperties
    <2>3. h \in Seq(M) /\ Len(h) = 1 /\ h[1] = q[1]
      BY <2>1, <2>2
    <2>. HIDE DEF h
    <2>4. /\ c \in Seq(M) /\ Len(c) = Len(h) + Len(Tail(q))
          /\ \A i \in 1..(Len(h) + Len(Tail(q))) :
               c[i] = IF i <= Len(h) THEN h[i] ELSE Tail(q)[i - Len(h)]
      <3>. DEFINE t == Tail(q)
      <3>1. t \in Seq(M)
        BY <2>1
      <3>. HIDE DEF t
      <3>2. /\ h \o t \in Seq(M) /\ Len(h \o t) = Len(h) + Len(t)
            /\ \A i \in 1..(Len(h) + Len(t)) :
                 (h \o t)[i] = IF i <= Len(h) THEN h[i] ELSE t[i - Len(h)]
        BY <2>3, <3>1, ConcatProperties
      <3>. QED
        BY <3>2 DEF t
    <2>. HIDE DEF c
    <2>5. ASSUME NEW i \in 1..Len(q) PROVE q[i] = c[i]
      <3>1. CASE i = 1
        BY <2>1, <2>2, <2>3, <2>4, <3>1
      <3>2. CASE i > 1
        <4>1. i - 1 \in 1..Len(Tail(q)) /\ i \in 1..(Len(h) + Len(Tail(q))) /\ ~(i <= Len(h))
          BY <2>1, <2>2, <2>3, <3>2
        <4>2. c[i] = Tail(q)[i - Len(h)]
          BY <2>4, <4>1
        <4>3. Tail(q)[i - 1] = q[(i - 1) + 1]
          BY <2>1, <4>1
        <4>4. (i - 1) + 1 = i /\ i - Len(h) = i - 1
          BY <2>2, <2>3
        <4>. QED
          BY <4>2, <4>3, <4>4
      <3>. QED
        BY <2>2, <3>1, <3>2
    <2>6. Len(q) = Len(c)
      BY <2>1, <2>2, <2>3, <2>4
    <2>7. q = c
      BY <2>4, <2>5, <2>6, SeqEqual
    <2>. QED
      BY <2>1, <2>7 DEF c, h
  <1>2. Weight(F, <<Head(q)>> \o Tail(q)) = F[Head(q)] + Weight(F, Tail(q))
    BY <1>1, WeightPush
  <1>. QED
    BY <1>1, <1>2

(* At most one element of a queue, the kth, weighs anything. *)
OnlyOne(F, q, k) == \A i \in 1..Len(q) : i # k => F[q[i]] = 0

(* Then the queue weighs what that element weighs. *)
LEMMA WeightOne ==
    ASSUME NEW M, NEW F \in [M -> Nat], NEW q \in Seq(M), NEW k \in 1..Len(q),
           OnlyOne(F, q, k)
    PROVE  Weight(F, q) = F[q[k]]
  <1>. DEFINE x == F[q[k]]
              g == [i \in 0..Len(q) |-> IF i < k THEN 0 ELSE x]
  <1>1. Len(q) \in Nat /\ x \in Nat
    BY LenProperties, ElementOfSeq
  <1>. HIDE DEF x
  <1>2. g \in [0..Len(q) -> Nat] /\ g[0] = 0 /\ g[Len(q)] = x
    BY <1>1
  <1>3. ASSUME NEW i \in 1..Len(q) PROVE g[i] = g[i - 1] + F[q[i]]
    <2>1. i \in 0..Len(q) /\ i - 1 \in 0..Len(q)
      BY <1>1
    <2>2. CASE i = k
      BY <1>1, <2>1, <2>2 DEF x
    <2>3. CASE i # k
      <3>1. F[q[i]] = 0
        BY <2>3 DEF OnlyOne
      <3>. QED
        BY <1>1, <2>1, <2>3, <3>1
    <2>. QED
      BY <2>2, <2>3
  <1>. HIDE DEF g
  <1>4. Weight(F, q) = g[Len(q)]
    BY <1>2, <1>3, WeightIs, ZenonT(60)
  <1>. QED
    BY <1>2, <1>4 DEF x

(* A queue in which nothing weighs anything. *)
LEMMA WeightZero ==
    ASSUME NEW M, NEW F \in [M -> Nat], NEW q \in Seq(M), \A i \in 1..Len(q) : F[q[i]] = 0
    PROVE  Weight(F, q) = 0
  <1>. DEFINE g == [i \in 0..Len(q) |-> 0]
  <1>1. Len(q) \in Nat
    BY LenProperties
  <1>2. g \in [0..Len(q) -> Nat] /\ g[0] = 0 /\ g[Len(q)] = 0
    BY <1>1
  <1>3. \A i \in 1..Len(q) : g[i] = g[i - 1] + F[q[i]]
    BY <1>1
  <1>. HIDE DEF g
  <1>. QED
    BY <1>2, <1>3, WeightIs

(* One element of a queue, the kth, weighs d more with G than with F. *)
OneMore(M, F, G, q, k, d) ==
    /\ F \in [M -> Nat] /\ G \in [M -> Nat] /\ q \in Seq(M) /\ k \in 1..Len(q) /\ d \in Nat
    /\ G[q[k]] = F[q[k]] + d
    /\ \A i \in 1..Len(q) : i # k => G[q[i]] = F[q[i]]

(* Then the queue does. *)
LEMMA WeightMore ==
    ASSUME NEW M, NEW F, NEW G, NEW q, NEW k, NEW d, OneMore(M, F, G, q, k, d)
    PROVE  Weight(G, q) = Weight(F, q) + d
  <1>0. /\ F \in [M -> Nat] /\ G \in [M -> Nat] /\ q \in Seq(M) /\ k \in 1..Len(q) /\ d \in Nat
        /\ G[q[k]] = F[q[k]] + d
        /\ \A i \in 1..Len(q) : i # k => G[q[i]] = F[q[i]]
    BY DEF OneMore
  <1>1. PICK g \in [0..Len(q) -> Nat] :
          /\ g[0] = 0 /\ \A i \in 1..Len(q) : g[i] = g[i - 1] + F[q[i]]
          /\ Weight(F, q) = g[Len(q)]
    <2>1. F \in [M -> Nat] /\ q \in Seq(M)
      BY <1>0
    <2>. QED
      BY <2>1, WeightExists
  <1>. DEFINE h == [i \in 0..Len(q) |-> IF i < k THEN g[i] ELSE g[i] + d]
  <1>2. Len(q) \in Nat /\ \A i \in 1..Len(q) : F[q[i]] \in Nat
    BY <1>0, LenProperties, ElementOfSeq
  <1>3. \A i \in 0..Len(q) : h[i] = IF i < k THEN g[i] ELSE g[i] + d
    OBVIOUS
  <1>4. h \in [0..Len(q) -> Nat]
    <2>1. \A i \in 0..Len(q) : (IF i < k THEN g[i] ELSE g[i] + d) \in Nat
      <3>1. ASSUME NEW i \in 0..Len(q) PROVE g[i] \in Nat /\ g[i] + d \in Nat
        <4>1. g[i] \in Nat /\ d \in Nat
          BY <1>0
        <4>. QED
          BY ONLY <4>1
      <3>. QED
        BY <3>1
    <2>. QED
      BY <2>1
  <1>. HIDE DEF h
  <1>5. h[0] = 0 /\ h[Len(q)] = g[Len(q)] + d
    <2>1. 0 \in 0..Len(q) /\ 0 < k /\ Len(q) \in 0..Len(q) /\ ~(Len(q) < k)
      BY <1>0, <1>2
    <2>2. h[0] = g[0]
      BY <1>3, <2>1
    <2>3. h[Len(q)] = g[Len(q)] + d
      BY <1>3, <2>1
    <2>. QED
      BY <1>1, <2>2, <2>3
  <1>6. ASSUME NEW i \in 1..Len(q) PROVE h[i] = h[i - 1] + G[q[i]]
    <2>1. i \in 0..Len(q) /\ i - 1 \in 0..Len(q) /\ g[i] = g[i - 1] + F[q[i]]
      BY <1>1, <1>2
    <2>2. g[i - 1] \in Nat /\ F[q[i]] \in Nat
      BY <1>0, <1>2, <2>1
    <2>3. CASE i < k
      <3>1. i - 1 < k /\ i # k
        BY <1>0, <1>2, <2>3
      <3>2. h[i] = g[i] /\ h[i - 1] = g[i - 1]
        BY <1>3, <2>1, <2>3, <3>1
      <3>3. G[q[i]] = F[q[i]]
        BY <1>0, <3>1
      <3>. QED
        BY <2>1, <3>2, <3>3
    <2>4. CASE i = k
      <3>1. i - 1 < k /\ ~(i < k)
        BY <1>0, <1>2, <2>4
      <3>2. h[i] = g[i] + d /\ h[i - 1] = g[i - 1]
        BY <1>3, <2>1, <3>1
      <3>3. G[q[i]] = F[q[i]] + d
        BY <1>0, <2>4
      <3>. DEFINE x == g[i - 1]
                  y == F[q[i]]
      <3>4. x \in Nat /\ y \in Nat /\ g[i] = x + y
        BY <2>1, <2>2
      <3>5. h[i] = (x + y) + d /\ h[i - 1] = x /\ G[q[i]] = y + d
        BY <3>2, <3>3, <3>4
      <3>. HIDE DEF x, y
      <3>6. (x + y) + d = x + (y + d)
        BY ONLY <1>0, <3>4
      <3>. QED
        BY <3>5, <3>6
    <2>5. CASE i > k
      <3>1. ~(i - 1 < k) /\ ~(i < k) /\ i # k
        BY <1>0, <1>2, <2>5
      <3>2. h[i] = g[i] + d /\ h[i - 1] = g[i - 1] + d
        BY <1>3, <2>1, <3>1
      <3>3. G[q[i]] = F[q[i]]
        BY <1>0, <3>1
      <3>. DEFINE x == g[i - 1]
                  y == F[q[i]]
      <3>4. x \in Nat /\ y \in Nat /\ g[i] = x + y
        BY <2>1, <2>2
      <3>5. h[i] = (x + y) + d /\ h[i - 1] = x + d /\ G[q[i]] = y
        BY <3>2, <3>3, <3>4
      <3>. HIDE DEF x, y
      <3>6. (x + y) + d = (x + d) + y
        BY ONLY <1>0, <3>4
      <3>. QED
        BY <3>5, <3>6
    <2>. QED
      BY <1>0, <1>2, <2>3, <2>4, <2>5
  <1>7. Weight(G, q) = h[Len(q)]
    <2>1. h[0] = 0 /\ \A i \in 1..Len(q) : h[i] = h[i - 1] + G[q[i]]
      BY <1>5, <1>6
    <2>2. G \in [M -> Nat] /\ q \in Seq(M) /\ h \in [0..Len(q) -> Nat]
      BY <1>0, <1>4
    <2>. QED
      BY ONLY <2>1, <2>2, WeightIs, ZenonT(60)
  <1>. QED
    BY <1>1, <1>5, <1>7
===============================================================================
