----------------------------- MODULE HpackProofs ------------------------------
(***************************************************************************)
(* Proofs about header compression.                                        *)
(*                                                                         *)
(* A context stands for the sequence of fields of its table (TableOf): the *)
(* ring, the sequence numbers and the map are shown to be three views of   *)
(* it, and every operation to do to it what the abstract table does, which *)
(* is to be trimmed and to be put a field in front of.  The deflater and   *)
(* the inflater are then compared by their abstract tables: the deflater's *)
(* is the inflater's, once that one has applied all that is on its way.    *)
(***************************************************************************)
EXTENDS Hpack, SeqSumsProofs

(* The least element of a set of numbers. *)
LEMMA MinOfNat ==
    ASSUME NEW S \in SUBSET Nat, S # {}
    PROVE  Min(S) \in S /\ \A y \in S : Min(S) <= y
  <1>. DEFINE R == OpToRel(<, Nat)
  <1>1. IsWellFoundedOn(R, Nat)
    BY NatLessThanWellFounded
  <1>2. PICK x \in S : \A y \in S : ~(<<y, x>> \in R)
    <2>. HIDE DEF R
    <2>. QED
      BY <1>1, WFMin
  <1>3. \A y \in S : x <= y
    <2>. SUFFICES ASSUME NEW y \in S, y < x PROVE FALSE
      OBVIOUS
    <2>1. <<y, x>> \in R
      BY DEF OpToRel
    <2>. QED
      BY <1>2, <2>1
  <1>. QED
    BY <1>3 DEF Min

(* The greatest element of a set of numbers with a bound. *)
LEMMA MaxOfNat ==
    ASSUME NEW S \in SUBSET Nat, S # {}, NEW n \in Nat, \A y \in S : y <= n
    PROVE  Max(S) \in S /\ \A y \in S : y <= Max(S)
  <1>. DEFINE D == {d \in Nat : n - d \in S}
  <1>1. D # {}
    <2>1. PICK y \in S : TRUE
      OBVIOUS
    <2>2. n - y \in Nat /\ n - (n - y) = y
      OBVIOUS
    <2>. QED
      BY <2>1, <2>2
  <1>2. Min(D) \in D /\ \A d \in D : Min(D) <= d
    <2>1. D \in SUBSET Nat
      OBVIOUS
    <2>. HIDE DEF D
    <2>. QED
      BY <1>1, <2>1, MinOfNat
  <1>. DEFINE x == n - Min(D)
  <1>3. x \in S /\ Min(D) \in Nat
    BY <1>2
  <1>4. ASSUME NEW y \in S PROVE y <= x
    <2>1. n - y \in D
      OBVIOUS
    <2>2. Min(D) <= n - y
      BY <1>2, <2>1
    <2>. HIDE DEF D
    <2>. QED
      BY <1>3, <2>2
  <1>. HIDE DEF x
  <1>. QED
    BY <1>3, <1>4 DEF Max

(* The lesser of two numbers. *)
LEMMA MinOfTwo ==
    ASSUME NEW a \in Nat, NEW b \in Nat
    PROVE  /\ Min({a, b}) \in Nat /\ Min({a, b}) \in {a, b}
           /\ Min({a, b}) <= a /\ Min({a, b}) <= b
           /\ a <= b => Min({a, b}) = a
           /\ b <= a => Min({a, b}) = b
  <1>1. Min({a, b}) \in {a, b} /\ \A y \in {a, b} : Min({a, b}) <= y
    BY MinOfNat
  <1>. QED
    BY <1>1

(* The first k elements of a sequence. *)
LEMMA PrefixIs ==
    ASSUME NEW S, NEW s \in Seq(S), NEW k \in 0..Len(s)
    PROVE  /\ SubSeq(s, 1, k) \in Seq(S) /\ Len(SubSeq(s, 1, k)) = k
           /\ \A i \in 1..k : SubSeq(s, 1, k)[i] = s[i]
           /\ \A j \in 0..k : SubSeq(SubSeq(s, 1, k), 1, j) = SubSeq(s, 1, j)
           /\ k = Len(s) => SubSeq(s, 1, k) = s
           /\ k = 0 => SubSeq(s, 1, k) = <<>>
  <1>0. Len(s) \in Nat /\ \A i \in 1..Len(s) : s[i] \in S
    BY LenProperties, ElementOfSeq
  <1>1. ASSUME NEW j \in 0..Len(s)
        PROVE  /\ SubSeq(s, 1, j) \in Seq(S) /\ Len(SubSeq(s, 1, j)) = j
               /\ \A i \in 1..j : SubSeq(s, 1, j)[i] = s[i]
    <2>1. \A i \in 1..j : s[i] \in S
      BY <1>0
    <2>2. /\ SubSeq(s, 1, j) \in Seq(S)
          /\ Len(SubSeq(s, 1, j)) = IF 1 <= j THEN j - 1 + 1 ELSE 0
          /\ \A i \in 1..(j - 1 + 1) : SubSeq(s, 1, j)[i] = s[1 + i - 1]
      BY <2>1, SubSeqProperties
    <2>. QED
      BY <1>0, <2>2
  <1>. DEFINE r == SubSeq(s, 1, k)
  <1>2. r \in Seq(S) /\ Len(r) = k /\ \A i \in 1..k : r[i] = s[i]
    BY <1>1
  <1>. HIDE DEF r
  <1>3. ASSUME NEW j \in 0..k PROVE SubSeq(r, 1, j) = SubSeq(s, 1, j)
    <2>1. \A i \in 1..j : r[i] \in S
      BY <1>0, <1>2
    <2>2. /\ SubSeq(r, 1, j) \in Seq(S)
          /\ Len(SubSeq(r, 1, j)) = IF 1 <= j THEN j - 1 + 1 ELSE 0
          /\ \A i \in 1..(j - 1 + 1) : SubSeq(r, 1, j)[i] = r[1 + i - 1]
      BY <2>1, SubSeqProperties
    <2>3. j \in 0..Len(s)
      BY <1>0
    <2>4. /\ SubSeq(s, 1, j) \in Seq(S) /\ Len(SubSeq(s, 1, j)) = j
          /\ \A i \in 1..j : SubSeq(s, 1, j)[i] = s[i]
      BY <1>1, <2>3
    <2>5. Len(SubSeq(r, 1, j)) = j /\ \A i \in 1..j : SubSeq(r, 1, j)[i] = s[i]
      BY <1>2, <2>2
    <2>. DEFINE a == SubSeq(r, 1, j)
                b == SubSeq(s, 1, j)
    <2>6. a \in Seq(S) /\ b \in Seq(S) /\ Len(a) = Len(b) /\ \A i \in 1..Len(a) : a[i] = b[i]
      BY <2>2, <2>4, <2>5
    <2>. HIDE DEF a, b
    <2>7. a = b
      BY <2>6, SeqEqual
    <2>. QED
      BY <2>7 DEF a, b
  <1>4. k = Len(s) => r = s
    BY <1>2, SeqEqual
  <1>5. k = 0 => r = <<>>
    BY <1>2, EmptySeq
  <1>. QED
    BY <1>2, <1>3, <1>4, <1>5 DEF r

(* f is what N steps make of a, one after the other. *)
StepsOn(S, N) == [1..N -> [S -> S]]
Iteration(f, F, a, N) == f[0] = a /\ \A n \in 1..N : f[n] = F[n][f[n - 1]]

(* A sequence of functions can be applied one after the other. *)
LEMMA Iterates ==
    ASSUME NEW N \in Nat, NEW S, NEW a \in S, NEW F \in StepsOn(S, N)
    PROVE  \E f \in [0..N -> S] : Iteration(f, F, a, N)
  <1>0. F \in [1..N -> [S -> S]]
    BY DEF StepsOn
  <1>. DEFINE Upto(f, m) == f[0] = a /\ \A n \in 1..m : f[n] = F[n][f[n - 1]]
              P(m) == m <= N => \E f \in [0..m -> S] : Upto(f, m)
              T == {m \in Nat : P(m)}
  <1>1. 0 \in T
    <2>1. [i \in 0..0 |-> a] \in [0..0 -> S] /\ Upto([i \in 0..0 |-> a], 0)
      OBVIOUS
    <2>. QED
      BY <2>1
  <1>2. ASSUME NEW m \in T PROVE m + 1 \in T
    <2>0. m \in Nat /\ m + 1 \in Nat /\ P(m)
      OBVIOUS
    <2>. SUFFICES ASSUME m + 1 <= N
                  PROVE  \E f \in [0..(m + 1) -> S] : Upto(f, m + 1)
      <3>. HIDE DEF Upto
      <3>. QED
        BY <2>0
    <2>1. PICK f \in [0..m -> S] : Upto(f, m)
      BY <2>0
    <2>. DEFINE g == [i \in 0..(m + 1) |-> IF i = m + 1 THEN F[m + 1][f[m]] ELSE f[i]]
    <2>2. F[m + 1] \in [S -> S] /\ f[m] \in S
      BY <1>0, <2>0
    <2>3. F[m + 1][f[m]] \in S
      BY <2>2
    <2>4. g \in [0..(m + 1) -> S]
      BY <2>0, <2>3
    <2>5. g[m + 1] = F[m + 1][f[m]] /\ \A i \in 0..m : g[i] = f[i]
      BY <2>0
    <2>. HIDE DEF g
    <2>6. g[0] = a
      BY <2>0, <2>1, <2>5
    <2>7. ASSUME NEW n \in 1..(m + 1) PROVE g[n] = F[n][g[n - 1]]
      <3>1. CASE n = m + 1
        <4>1. n - 1 = m /\ m \in 0..m
          BY <2>0, <3>1
        <4>. QED
          BY <2>5, <3>1, <4>1
      <3>2. CASE n # m + 1
        <4>1. n \in 1..m /\ n \in 0..m /\ n - 1 \in 0..m
          BY <2>0, <3>2
        <4>. QED
          BY <2>1, <2>5, <4>1
      <3>. QED
        BY <3>1, <3>2
    <2>. QED
      BY <2>4, <2>6, <2>7
  <1>3. T = Nat
    <2>1. T \in SUBSET Nat
      OBVIOUS
    <2>. HIDE DEF T
    <2>. QED
      BY <1>1, <1>2, <2>1, Induction
  <1>4. N \in T
    BY <1>3
  <1>. QED
    BY <1>4 DEF Iteration

-----------------------------------------------------------------------------
(* The ring *)

(* A ring never gets smaller than it was asked for. *)
LEMMA PowerIs ==
    ASSUME NEW n \in Nat
    PROVE  PowerFrom(n) \in Nat /\ PowerFrom(n) >= 1 /\ PowerFrom(n) >= n
  <1>. DEFINE R(f) == [k \in 0..n |-> IF k = 0 THEN 1 ELSE 2 * f[k - 1]]
              power == CHOOSE f : f = R(f)
  <1>1. \E f : f = R(f)
    <2>. DEFINE F == [k \in 1..n |-> [x \in Nat |-> 2 * x]]
    <2>1. F \in StepsOn(Nat, n)
      BY DEF StepsOn
    <2>2. PICK f \in [0..n -> Nat] : Iteration(f, F, 1, n)
      <3>. HIDE DEF F
      <3>. QED
        BY <2>1, Iterates
    <2>3. \A k \in 1..n : f[k] = 2 * f[k - 1]
      <3>. SUFFICES ASSUME NEW k \in 1..n PROVE f[k] = 2 * f[k - 1]
        OBVIOUS
      <3>1. f[k] = F[k][f[k - 1]] /\ f[k - 1] \in Nat
        <4>1. k \in 1..n /\ k - 1 \in 0..n
          OBVIOUS
        <4>. HIDE DEF F
        <4>. QED
          BY <2>2, <4>1 DEF Iteration
      <3>. QED
        BY <3>1
    <2>4. f = R(f)
      BY <2>2, <2>3 DEF Iteration
    <2>. QED
      BY <2>4
  <1>2. power = R(power)
    BY <1>1
  <1>3. PowerFrom(n) = Min({power[k] : k \in {i \in 0..n : power[i] >= n}})
    BY DEF PowerFrom
  <1>. HIDE DEF power
  <1>4. power[0] = 1 /\ \A k \in 1..n : power[k] = 2 * power[k - 1]
    BY <1>2
  <1>. DEFINE T == {m \in Nat : m <= n => power[m] \in Nat /\ power[m] >= m + 1}
  <1>5. T = Nat
    <2>1. 0 \in T
      BY <1>4
    <2>2. ASSUME NEW m \in T PROVE m + 1 \in T
      <3>. SUFFICES ASSUME m + 1 <= n
                    PROVE  power[m + 1] \in Nat /\ power[m + 1] >= (m + 1) + 1
        OBVIOUS
      <3>1. m \in Nat /\ power[m] \in Nat /\ power[m] >= m + 1 /\ m + 1 \in 1..n
        OBVIOUS
      <3>2. power[m + 1] = 2 * power[(m + 1) - 1] /\ (m + 1) - 1 = m
        BY <1>4, <3>1
      <3>. QED
        BY <3>1, <3>2
    <2>3. T \in SUBSET Nat
      OBVIOUS
    <2>. HIDE DEF T
    <2>. QED
      BY <2>1, <2>2, <2>3, Induction
  <1>6. \A k \in 0..n : power[k] \in Nat /\ power[k] >= k + 1
    BY <1>5
  <1>. DEFINE P == {power[k] : k \in {i \in 0..n : power[i] >= n}}
  <1>7. P \in SUBSET Nat /\ \A x \in P : x >= n /\ x >= 1
    BY <1>6
  <1>8. P # {}
    <2>1. power[n] >= n /\ n \in 0..n
      BY <1>6
    <2>. QED
      BY <2>1
  <1>. HIDE DEF P
  <1>9. Min(P) \in P
    BY <1>7, <1>8, MinOfNat
  <1>. QED
    BY <1>3, <1>7, <1>9 DEF P

(* What can be in the table: a field with its sequence number. *)
EntrySet == {[name |-> f.name, value |-> f.value, seq |-> k] :
               f \in Fields, k \in 0..(SeqRange - 1)}

(* An entry of a table is a field of the model with a sequence number. *)
LEMMA EntryFacts ==
    ASSUME NEW e \in EntrySet
    PROVE  /\ Blank(e) \in Fields /\ e # Freed /\ e.seq \in 0..(SeqRange - 1)
           /\ e.name \in DOMAIN Hash /\ Hash[e.name] \in Buckets
           /\ RoomOf(e) \in Nat /\ RoomOf(e) >= 1
           /\ Blank(e).name = e.name /\ Blank(e).value = e.value
  <1>1. PICK f \in Fields, k \in 0..(SeqRange - 1) :
          e = [name |-> f.name, value |-> f.value, seq |-> k]
    BY DEF EntrySet
  <1>2. Blank(e) = f /\ e.seq = k /\ e.name = f.name /\ e.value = f.value
    BY <1>1, FieldsAssumption DEF Blank
  <1>3. e # Freed
    <2>. SUFFICES ASSUME e = Freed PROVE FALSE
      OBVIOUS
    <2>1. Blank(Freed) \in Fields
      BY <1>2
    <2>. QED
      BY <2>1, FieldsAssumption
  <1>4. Room[f] \in Nat /\ Room[f] >= 1
    <2>1. Room \in [Fields -> Nat] /\ Room[f] >= Overhead /\ Overhead \in Nat \ {0}
      BY FieldsAssumption
    <2>. QED
      BY <2>1
  <1>5. f.name \in DOMAIN Hash
    BY FieldsAssumption
  <1>. QED
    BY <1>2, <1>3, <1>4, <1>5 DEF RoomOf, Buckets, Blank

(* A ring whose entries are all of them live. *)
RingOk(ring) ==
    /\ ring = [buffer |-> ring.buffer, mask |-> ring.mask,
               first |-> ring.first, len |-> ring.len]
    /\ ring.mask \in Nat /\ ring.first \in 0..ring.mask /\ ring.len \in 0..(ring.mask + 1)
    /\ ring.buffer = [i \in 0..ring.mask |-> ring.buffer[i]]
    /\ \A i \in 0..(ring.len - 1) : hd_ringbuf_get(ring, i) \in EntrySet

(* The entries of a sound ring, the newest first. *)
LEMMA EntriesFacts ==
    ASSUME NEW ring, RingOk(ring)
    PROVE  /\ Entries(ring) \in Seq(EntrySet) /\ Len(Entries(ring)) = ring.len
           /\ ring.len \in Nat /\ DOMAIN Entries(ring) = 1..ring.len
           /\ \A i \in 1..ring.len : /\ Entries(ring)[i] = hd_ringbuf_get(ring, i - 1)
                                     /\ Entries(ring)[i] \in EntrySet
  <1>. DEFINE e == Entries(ring)
  <1>1. ring.len \in Nat
    BY DEF RingOk
  <1>2. \A i \in 1..ring.len : hd_ringbuf_get(ring, i - 1) \in EntrySet
    <2>. SUFFICES ASSUME NEW i \in 1..ring.len PROVE hd_ringbuf_get(ring, i - 1) \in EntrySet
      OBVIOUS
    <2>1. i - 1 \in 0..(ring.len - 1)
      BY <1>1
    <2>. QED
      BY <2>1 DEF RingOk
  <1>3. e \in [1..ring.len -> EntrySet] /\ \A i \in 1..ring.len : e[i] = hd_ringbuf_get(ring, i - 1)
    BY <1>2 DEF Entries
  <1>. HIDE DEF e
  <1>4. e \in Seq(EntrySet) /\ Len(e) = ring.len /\ DOMAIN e = 1..ring.len
    BY <1>1, <1>3
  <1>. QED
    BY <1>1, <1>2, <1>3, <1>4 DEF e

(* Places in a ring. *)
LEMMA Modulo ==
    ASSUME NEW n \in Nat \ {0}
    PROVE  /\ \A a \in 0..(n - 1) : a % n = a
           /\ \A a \in n..(2 * n - 1) : a % n = a - n
           /\ \A a \in (-n)..(-1) : a % n = a + n
           /\ \A a \in Int : a % n \in 0..(n - 1)
  <1>1. \A a \in 0..(n - 1) : a % n = a
    OBVIOUS
  <1>2. \A a \in n..(2 * n - 1) : a % n = a - n
    OBVIOUS
  <1>3. \A a \in (-n)..(-1) : a % n = a + n
    OBVIOUS
  <1>4. \A a \in Int : a % n \in 0..(n - 1)
    OBVIOUS
  <1>. QED
    BY <1>1, <1>2, <1>3, <1>4

(* The place of the i-th entry. *)
LEMMA Places ==
    ASSUME NEW n \in Nat \ {0}, NEW f \in 0..(n - 1)
    PROVE  /\ \A i \in 0..(n - 1) : /\ (f + i) % n \in 0..(n - 1)
                                    /\ (f + i) % n = IF f + i < n THEN f + i ELSE f + i - n
           /\ (f - 1) % n = IF f = 0 THEN n - 1 ELSE f - 1
           /\ (f - 1) % n \in 0..(n - 1)
           /\ 0 % n = 0
  <1>1. ASSUME NEW i \in 0..(n - 1)
        PROVE  (f + i) % n = IF f + i < n THEN f + i ELSE f + i - n
    <2>1. CASE f + i < n
      <3>1. f + i \in 0..(n - 1)
        BY <2>1
      <3>. QED
        BY <2>1, <3>1, Modulo
    <2>2. CASE ~(f + i < n)
      <3>. DEFINE a == f + i
      <3>1. a \in n..(2 * n - 1)
        BY <2>2
      <3>. HIDE DEF a
      <3>2. a % n = a - n
        BY <3>1, Modulo
      <3>. QED
        BY <2>2, <3>2 DEF a
    <2>. QED
      BY <2>1, <2>2
  <1>2. (f - 1) % n = IF f = 0 THEN n - 1 ELSE f - 1
    <2>1. CASE f = 0
      <3>. DEFINE a == f - 1
      <3>1. a \in (-n)..(-1)
        BY <2>1
      <3>. HIDE DEF a
      <3>2. a % n = a + n
        BY <3>1, Modulo
      <3>. QED
        BY <2>1, <3>2 DEF a
    <2>2. CASE f # 0
      <3>. DEFINE a == f - 1
      <3>1. a \in 0..(n - 1)
        BY <2>2
      <3>. HIDE DEF a
      <3>2. a % n = a
        BY <3>1, Modulo
      <3>. QED
        BY <2>2, <3>2 DEF a
    <2>. QED
      BY <2>1, <2>2
  <1>. QED
    BY <1>1, <1>2

(* nghttp2_hd.c hd_ringbuf_pop_back takes the oldest entry off. *)
LEMMA PopBack ==
    ASSUME NEW ring, RingOk(ring), ring.len > 0
    PROVE  LET r == hd_ringbuf_pop_back(ring)
           IN  /\ RingOk(r) /\ r.len = ring.len - 1
               /\ \A i \in 0..(ring.len - 2) : hd_ringbuf_get(r, i) = hd_ringbuf_get(ring, i)
  <1>. DEFINE r == hd_ringbuf_pop_back(ring)
              n == ring.mask + 1
              p == (ring.first + ring.len - 1) % n
  <1>1. /\ ring = [buffer |-> ring.buffer, mask |-> ring.mask,
                   first |-> ring.first, len |-> ring.len]
        /\ ring.mask \in Nat /\ ring.first \in 0..ring.mask /\ ring.len \in 1..(ring.mask + 1)
        /\ ring.buffer = [i \in 0..ring.mask |-> ring.buffer[i]]
        /\ \A i \in 0..(ring.len - 1) : hd_ringbuf_get(ring, i) \in EntrySet
    BY DEF RingOk
  <1>2. r = [buffer |-> [ring.buffer EXCEPT ![p] = Freed], mask |-> ring.mask,
             first |-> ring.first, len |-> ring.len - 1]
    <2>1. r = [ring EXCEPT !.buffer[p] = Freed, !.len = @ - 1]
      BY DEF hd_ringbuf_pop_back, Size
    <2>. HIDE DEF p, r
    <2>. QED
      BY <1>1, <2>1
  <1>3. /\ n \in Nat \ {0} /\ ring.first \in 0..(n - 1) /\ ring.len - 1 \in 0..(n - 1)
        /\ ring.first + ring.len - 1 = ring.first + (ring.len - 1)
        /\ 0..ring.mask = 0..(n - 1)
    BY <1>1
  <1>4. /\ \A i \in 0..(n - 1) : (ring.first + i) % n \in 0..(n - 1)
        /\ \A i \in 0..(n - 1) : (ring.first + i) % n =
             IF ring.first + i < n THEN ring.first + i ELSE ring.first + i - n
    BY <1>3, Places
  <1>5. p = (ring.first + (ring.len - 1)) % n
    BY <1>3
  <1>6. ASSUME NEW i \in 0..(ring.len - 2)
        PROVE  hd_ringbuf_get(r, i) = hd_ringbuf_get(ring, i)
    <2>. DEFINE k == (ring.first + i) % n
    <2>1. i \in 0..(n - 1) /\ i < ring.len - 1
      BY <1>1
    <2>2. k \in 0..(n - 1) /\ k # p
      <3>1. /\ k \in 0..(n - 1)
            /\ k = IF ring.first + i < n THEN ring.first + i ELSE ring.first + i - n
        BY <1>4, <2>1
      <3>2. p = IF ring.first + (ring.len - 1) < n THEN ring.first + (ring.len - 1)
                ELSE ring.first + (ring.len - 1) - n
        BY <1>3, <1>4, <1>5
      <3>. HIDE DEF k, p
      <3>. QED
        BY <1>1, <2>1, <3>1, <3>2
    <2>3. hd_ringbuf_get(ring, i) = ring.buffer[k]
      BY DEF hd_ringbuf_get, Size
    <2>4. hd_ringbuf_get(r, i) = r.buffer[k]
      BY <1>2 DEF hd_ringbuf_get, Size
    <2>5. r.buffer = [ring.buffer EXCEPT ![p] = Freed]
      BY <1>2
    <2>. HIDE DEF k, p, r
    <2>6. r.buffer[k] = ring.buffer[k]
      BY <1>1, <1>3, <2>2, <2>5
    <2>. QED
      BY <2>3, <2>4, <2>6
  <1>7. r.len = ring.len - 1 /\ r.mask = ring.mask /\ r.first = ring.first
    BY <1>2
  <1>8. r = [buffer |-> r.buffer, mask |-> r.mask, first |-> r.first, len |-> r.len]
    BY <1>2
  <1>9. r.buffer = [i \in 0..r.mask |-> r.buffer[i]]
    <2>. DEFINE b == [ring.buffer EXCEPT ![p] = Freed]
    <2>1. b = [i \in 0..ring.mask |-> b[i]]
      <3>. HIDE DEF p
      <3>. QED
        BY <1>1
    <2>2. r.buffer = b /\ r.mask = ring.mask
      BY <1>2
    <2>. HIDE DEF b, r
    <2>. QED
      BY <2>1, <2>2
  <1>10. \A i \in 0..(r.len - 1) : hd_ringbuf_get(r, i) \in EntrySet
    <2>. HIDE DEF r
    <2>. QED
      BY <1>1, <1>6, <1>7
  <1>11. RingOk(r)
    <2>. HIDE DEF r
    <2>. QED
      BY <1>1, <1>7, <1>8, <1>9, <1>10 DEF RingOk
  <1>. QED
    BY <1>6, <1>7, <1>11

(* nghttp2_hd.c hd_ringbuf_reserve makes room and keeps the entries. *)
LEMMA Reserve ==
    ASSUME NEW ring, RingOk(ring), NEW m \in Nat
    PROVE  LET r == hd_ringbuf_reserve(ring, m)
           IN  /\ RingOk(r) /\ r.len = ring.len /\ r.mask + 1 >= m
               /\ \A i \in 0..(ring.len - 1) : hd_ringbuf_get(r, i) = hd_ringbuf_get(ring, i)
  <1>. DEFINE r == hd_ringbuf_reserve(ring, m)
  <1>1. CASE Size(ring) >= m
    <2>1. r = ring
      BY <1>1 DEF hd_ringbuf_reserve
    <2>. QED
      BY <1>1, <2>1 DEF Size
  <1>2. CASE ~(Size(ring) >= m)
    <2>. DEFINE w == PowerFrom(m)
                b == [i \in 0..(w - 1) |->
                        IF i < ring.len THEN hd_ringbuf_get(ring, i) ELSE Freed]
    <2>1. /\ ring = [buffer |-> ring.buffer, mask |-> ring.mask,
                     first |-> ring.first, len |-> ring.len]
          /\ ring.mask \in Nat /\ ring.len \in 0..(ring.mask + 1)
          /\ \A i \in 0..(ring.len - 1) : hd_ringbuf_get(ring, i) \in EntrySet
      BY DEF RingOk
    <2>2. r = [buffer |-> b, mask |-> w - 1, first |-> 0, len |-> ring.len]
      BY <1>2, <2>1 DEF hd_ringbuf_reserve
    <2>3. w \in Nat \ {0} /\ w >= m /\ ring.len < w
      BY <1>2, <2>1, PowerIs DEF Size
    <2>. HIDE DEF w
    <2>4. r.len = ring.len /\ r.mask = w - 1 /\ r.first = 0 /\ r.buffer = b
      BY <2>2
    <2>5. ASSUME NEW i \in 0..(ring.len - 1)
          PROVE  hd_ringbuf_get(r, i) = hd_ringbuf_get(ring, i)
      <3>1. i \in 0..(w - 1) /\ i < ring.len /\ (w - 1) + 1 = w
        BY <2>1, <2>3
      <3>2. (0 + i) % w = i
        BY <2>3, <3>1, Modulo
      <3>3. hd_ringbuf_get(r, i) = b[(0 + i) % w]
        <4>. HIDE DEF r, b
        <4>. QED
          BY <2>4, <3>1 DEF hd_ringbuf_get, Size
      <3>. QED
        BY <3>1, <3>2, <3>3
    <2>6. r = [buffer |-> r.buffer, mask |-> r.mask, first |-> r.first, len |-> r.len]
      BY <2>2
    <2>7. b = [i \in 0..(w - 1) |-> b[i]]
      OBVIOUS
    <2>. HIDE DEF r, b
    <2>8. r.buffer = [i \in 0..r.mask |-> r.buffer[i]]
      BY <2>4, <2>7
    <2>9. \A i \in 0..(r.len - 1) : hd_ringbuf_get(r, i) \in EntrySet
      BY <2>1, <2>4, <2>5
    <2>10. r.mask \in Nat /\ r.first \in 0..r.mask /\ r.len \in 0..(r.mask + 1) /\ r.mask + 1 >= m
      BY <2>1, <2>3, <2>4
    <2>. QED
      BY <2>4, <2>5, <2>6, <2>8, <2>9, <2>10 DEF RingOk, r
  <1>. QED
    BY <1>1, <1>2

(* nghttp2_hd.c hd_ringbuf_push_front puts an entry in front of the others. *)
LEMMA PushFront ==
    ASSUME NEW ring, RingOk(ring), NEW e \in EntrySet
    PROVE  LET r == hd_ringbuf_push_front(ring, e)
           IN  /\ RingOk(r) /\ r.len = ring.len + 1
               /\ hd_ringbuf_get(r, 0) = e
               /\ \A i \in 0..(ring.len - 1) : hd_ringbuf_get(r, i + 1) = hd_ringbuf_get(ring, i)
  <1>. DEFINE r == hd_ringbuf_push_front(ring, e)
              q == hd_ringbuf_reserve(ring, ring.len + 1)
              n == q.mask + 1
              f == (q.first - 1) % n
  <1>0. ring.len \in Nat
    BY DEF RingOk
  <1>1. /\ RingOk(q) /\ q.len = ring.len /\ n >= ring.len + 1
        /\ \A i \in 0..(ring.len - 1) : hd_ringbuf_get(q, i) = hd_ringbuf_get(ring, i)
    <2>1. ring.len + 1 \in Nat
      BY <1>0
    <2>. QED
      BY <2>1, Reserve
  <1>2. r = [q EXCEPT !.buffer[f] = e, !.first = f, !.len = @ + 1]
    BY DEF hd_ringbuf_push_front, Size
  <1>. HIDE DEF q, r
  <1>3. /\ q = [buffer |-> q.buffer, mask |-> q.mask, first |-> q.first, len |-> q.len]
        /\ q.mask \in Nat /\ q.first \in 0..q.mask
        /\ q.buffer = [i \in 0..q.mask |-> q.buffer[i]]
        /\ \A i \in 0..(q.len - 1) : hd_ringbuf_get(q, i) \in EntrySet
    BY <1>1 DEF RingOk
  <1>4. r = [buffer |-> [q.buffer EXCEPT ![f] = e], mask |-> q.mask,
             first |-> f, len |-> q.len + 1]
    BY <1>2, <1>3
  <1>5. n \in Nat \ {0} /\ q.first \in 0..(n - 1) /\ 0..q.mask = 0..(n - 1)
    BY <1>3
  <1>6. /\ f \in 0..(n - 1) /\ f = IF q.first = 0 THEN n - 1 ELSE q.first - 1
        /\ \A i \in 0..(n - 1) : /\ (q.first + i) % n \in 0..(n - 1)
                                 /\ (q.first + i) % n =
                                      IF q.first + i < n THEN q.first + i ELSE q.first + i - n
    BY <1>5, Places
  <1>. DEFINE b == [q.buffer EXCEPT ![f] = e]
  <1>7. b[f] = e /\ \A k \in 0..(n - 1) : k # f => b[k] = q.buffer[k]
    <2>. HIDE DEF f, n
    <2>. QED
      BY <1>3, <1>5, <1>6
  <1>8. b = [i \in 0..q.mask |-> b[i]]
    BY <1>3
  <1>9. /\ r.len = ring.len + 1 /\ r.mask = q.mask /\ r.first = f /\ r.buffer = b
        /\ r = [buffer |-> r.buffer, mask |-> r.mask, first |-> r.first, len |-> r.len]
    BY <1>1, <1>4
  <1>. HIDE DEF b, f
  <1>10. \A i : hd_ringbuf_get(r, i) = b[(f + i) % n]
    BY <1>9 DEF hd_ringbuf_get, Size
  <1>11. \A i : hd_ringbuf_get(q, i) = q.buffer[(q.first + i) % n]
    BY DEF hd_ringbuf_get, Size
  <1>. HIDE DEF n
  <1>12. \A i \in 0..(n - 1) : (f + i) % n = IF f + i < n THEN f + i ELSE f + i - n
    <2>1. n \in Nat \ {0} /\ f \in 0..(n - 1)
      BY <1>5, <1>6
    <2>. QED
      BY <2>1, Places
  <1>13. hd_ringbuf_get(r, 0) = e
    <2>1. 0 \in 0..(n - 1) /\ f + 0 = f /\ f < n
      BY <1>5, <1>6
    <2>2. (f + 0) % n = f
      BY <1>12, <2>1
    <2>. QED
      BY <1>7, <1>10, <2>2
  <1>14. ASSUME NEW i \in 0..(ring.len - 1)
         PROVE  hd_ringbuf_get(r, i + 1) = hd_ringbuf_get(ring, i)
    <2>1. i \in 0..(n - 1) /\ i + 1 \in 0..(n - 1)
      BY <1>0, <1>1, <1>5
    <2>2. (f + (i + 1)) % n = IF f + (i + 1) < n THEN f + (i + 1) ELSE f + (i + 1) - n
      BY <1>12, <2>1
    <2>3. /\ (q.first + i) % n \in 0..(n - 1)
          /\ (q.first + i) % n = IF q.first + i < n THEN q.first + i ELSE q.first + i - n
      BY <1>6, <2>1
    <2>4. (f + (i + 1)) % n = (q.first + i) % n /\ (q.first + i) % n # f
      <3>. DEFINE a == (f + (i + 1)) % n
                  c == (q.first + i) % n
      <3>1. a = IF f + (i + 1) < n THEN f + (i + 1) ELSE f + (i + 1) - n
        BY <2>2
      <3>2. c = IF q.first + i < n THEN q.first + i ELSE q.first + i - n
        BY <2>3
      <3>3. f = IF q.first = 0 THEN n - 1 ELSE q.first - 1
        BY <1>6
      <3>. HIDE DEF a, c
      <3>4. a = c /\ c # f
        BY <1>5, <2>1, <3>1, <3>2, <3>3, SMTT(30)
      <3>. QED
        BY <3>4 DEF a, c
    <2>5. hd_ringbuf_get(r, i + 1) = b[(q.first + i) % n]
      BY <1>10, <2>4
    <2>6. b[(q.first + i) % n] = q.buffer[(q.first + i) % n]
      BY <1>7, <2>3, <2>4
    <2>. QED
      BY <1>1, <1>11, <2>5, <2>6
  <1>15. \A i \in 0..(r.len - 1) : hd_ringbuf_get(r, i) \in EntrySet
    <2>. SUFFICES ASSUME NEW i \in 0..(r.len - 1) PROVE hd_ringbuf_get(r, i) \in EntrySet
      OBVIOUS
    <2>1. CASE i = 0
      BY <1>13, <2>1
    <2>2. CASE i # 0
      <3>1. i - 1 \in 0..(ring.len - 1) /\ (i - 1) + 1 = i
        BY <1>0, <1>9, <2>2
      <3>2. hd_ringbuf_get(r, i) = hd_ringbuf_get(ring, i - 1)
        BY <1>14, <3>1
      <3>. QED
        BY <3>1, <3>2 DEF RingOk
    <2>. QED
      BY <2>1, <2>2
  <1>16. RingOk(r)
    <2>1. r.mask \in Nat /\ r.first \in 0..r.mask /\ r.len \in 0..(r.mask + 1)
      BY <1>0, <1>1, <1>3, <1>5, <1>6, <1>9 DEF n
    <2>2. r.buffer = [i \in 0..r.mask |-> r.buffer[i]]
      BY <1>8, <1>9
    <2>. QED
      BY <1>9, <1>15, <2>1, <2>2 DEF RingOk
  <1>. QED
    BY <1>9, <1>13, <1>14, <1>16 DEF r

(* hd_ringbuf_init gives a ring without entries. *)
LEMMA RingInit ==
    ASSUME NEW m \in Nat
    PROVE  RingOk(hd_ringbuf_init(m)) /\ hd_ringbuf_init(m).len = 0
  <1>. DEFINE w == PowerFrom(m)
  <1>1. w \in Nat /\ w >= 1
    BY PowerIs
  <1>2. hd_ringbuf_init(m) = [buffer |-> [i \in 0..(w - 1) |-> Freed], mask |-> w - 1,
                              first |-> 0, len |-> 0]
    BY DEF hd_ringbuf_init
  <1>. HIDE DEF w
  <1>. QED
    BY <1>1, <1>2 DEF RingOk

-----------------------------------------------------------------------------
(* The abstract table: a sequence of fields, the newest first, that is     *)
(* trimmed to a size.                                                      *)

(* The bytes a table takes. *)
RoomFor(t) == Weight(Room, t)

(* A table takes a number of bytes. *)
LEMMA RoomType ==
    ASSUME NEW t \in Seq(Fields)
    PROVE  RoomFor(t) \in Nat
  BY WeightType, FieldsAssumption DEF RoomFor

(* The room that the first k fields of a table take. *)
LEMMA PrefixRooms ==
    ASSUME NEW t \in Seq(Fields)
    PROVE  \E g \in [0..Len(t) -> Nat] :
             /\ g[0] = 0 /\ \A i \in 1..Len(t) : g[i] = g[i - 1] + Room[t[i]]
             /\ \A k \in 0..Len(t) : RoomFor(SubSeq(t, 1, k)) = g[k]
             /\ \A k \in 0..Len(t) : \A j \in 0..k : g[j] <= g[k]
             /\ \A k \in 0..Len(t) : g[k] >= k
  <1>0. /\ Room \in [Fields -> Nat] /\ Len(t) \in Nat
        /\ \A i \in 1..Len(t) : /\ t[i] \in Fields /\ Room[t[i]] \in Nat
                                /\ Room[t[i]] >= 1
    <2>1. Room \in [Fields -> Nat] /\ \A f \in Fields : Room[f] >= Overhead
      BY FieldsAssumption
    <2>2. Overhead \in Nat \ {0}
      BY FieldsAssumption
    <2>3. Len(t) \in Nat /\ \A i \in 1..Len(t) : t[i] \in Fields
      BY LenProperties, ElementOfSeq
    <2>. QED
      BY <2>1, <2>2, <2>3
  <1>1. PICK g \in [0..Len(t) -> Nat] :
          g[0] = 0 /\ \A i \in 1..Len(t) : g[i] = g[i - 1] + Room[t[i]]
    BY <1>0, WeightExists
  <1>2. ASSUME NEW k \in 0..Len(t) PROVE RoomFor(SubSeq(t, 1, k)) = g[k]
    <2>. DEFINE p == SubSeq(t, 1, k)
                h == [i \in 0..k |-> g[i]]
    <2>1. p \in Seq(Fields) /\ Len(p) = k /\ \A i \in 1..k : p[i] = t[i]
      BY PrefixIs
    <2>2. h \in [0..k -> Nat] /\ \A i \in 0..k : h[i] = g[i]
      BY <1>0
    <2>. HIDE DEF p, h
    <2>3. h[0] = 0
      BY <1>0, <1>1, <2>2
    <2>4. ASSUME NEW i \in 1..k PROVE h[i] = h[i - 1] + Room[p[i]]
      <3>1. i \in 0..k /\ i - 1 \in 0..k /\ i \in 1..Len(t)
        BY <1>0
      <3>. QED
        BY <1>1, <2>1, <2>2, <3>1
    <2>5. Weight(Room, p) = h[Len(p)]
      <3>1. h \in [0..Len(p) -> Nat] /\ \A i \in 1..Len(p) : h[i] = h[i - 1] + Room[p[i]]
        BY <2>1, <2>2, <2>4
      <3>. QED
        BY <1>0, <2>1, <2>3, <3>1, WeightIs, Zenon
    <2>6. k \in 0..k
      BY <1>0
    <2>. QED
      BY <2>1, <2>2, <2>5, <2>6 DEF RoomFor, p
  <1>. DEFINE T == {k \in Nat : k <= Len(t) =>
                      g[k] >= k /\ \A j \in 0..k : g[j] <= g[k]}
  <1>3. T = Nat
    <2>1. 0 \in T
      BY <1>1
    <2>2. ASSUME NEW k \in T PROVE k + 1 \in T
      <3>. SUFFICES ASSUME k + 1 <= Len(t)
                    PROVE  g[k + 1] >= k + 1 /\ \A j \in 0..(k + 1) : g[j] <= g[k + 1]
        OBVIOUS
      <3>1. /\ k \in Nat /\ g[k] >= k /\ k + 1 \in 1..Len(t) /\ k \in 0..Len(t)
            /\ (k + 1) - 1 = k /\ \A j \in 0..k : g[j] <= g[k]
        BY <1>0
      <3>2. g[k + 1] = g[k] + Room[t[k + 1]] /\ g[k] \in Nat /\ Room[t[k + 1]] >= 1
            /\ Room[t[k + 1]] \in Nat
        BY <1>0, <1>1, <3>1
      <3>3. ASSUME NEW j \in 0..(k + 1) PROVE g[j] <= g[k + 1]
        <4>1. CASE j = k + 1
          BY <3>2, <4>1
        <4>2. CASE j # k + 1
          <5>1. j \in 0..k /\ j \in 0..Len(t)
            BY <3>1, <4>2
          <5>2. g[j] <= g[k] /\ g[j] \in Nat
            BY <3>1, <5>1
          <5>. QED
            BY <3>2, <5>2
        <4>. QED
          BY <4>1, <4>2
      <3>. QED
        BY <3>1, <3>2, <3>3
    <2>3. T \in SUBSET Nat
      OBVIOUS
    <2>. HIDE DEF T
    <2>. QED
      BY <2>1, <2>2, <2>3, Induction
  <1>4. \A k \in 0..Len(t) : g[k] >= k /\ \A j \in 0..k : g[j] <= g[k]
    <2>. SUFFICES ASSUME NEW k \in 0..Len(t)
                  PROVE  g[k] >= k /\ \A j \in 0..k : g[j] <= g[k]
      OBVIOUS
    <2>1. k \in T /\ k <= Len(t)
      BY <1>0, <1>3
    <2>. QED
      BY <2>1
  <1>. QED
    BY <1>1, <1>2, <1>4

(* The first k fields of t are within max, room bytes more included. *)
Fits(t, k, room, max) == k = 0 \/ RoomFor(SubSeq(t, 1, k)) + room <= max

(* As many of the newest fields as fit. *)
Trim(t, room, max) ==
    SubSeq(t, 1, Max({k \in 0..Len(t) : Fits(t, k, room, max)}))

(* Trimming keeps the longest beginning of the table that fits. *)
LEMMA TrimIs ==
    ASSUME NEW t \in Seq(Fields), NEW room \in Nat, NEW max \in Nat
    PROVE  \E k \in 0..Len(t) :
             /\ Trim(t, room, max) = SubSeq(t, 1, k)
             /\ Fits(t, k, room, max)
             /\ \A j \in (k + 1)..Len(t) : ~Fits(t, j, room, max)
  <1>. DEFINE S == {k \in 0..Len(t) : Fits(t, k, room, max)}
  <1>0. Len(t) \in Nat
    BY LenProperties
  <1>1. S \in SUBSET Nat /\ \A k \in S : k <= Len(t)
    BY <1>0
  <1>2. 0 \in S
    BY <1>0 DEF Fits
  <1>3. Max(S) \in S /\ \A y \in S : y <= Max(S)
    <2>. HIDE DEF S
    <2>. QED
      BY <1>0, <1>1, <1>2, MaxOfNat
  <1>4. ASSUME NEW j \in (Max(S) + 1)..Len(t), Fits(t, j, room, max) PROVE FALSE
    <2>1. Max(S) \in Nat
      BY <1>1, <1>3
    <2>2. j \in 0..Len(t) /\ j > Max(S)
      <3>. HIDE DEF S
      <3>. QED
        BY <1>0, <2>1
    <2>3. j \in S
      BY <1>4, <2>2
    <2>. HIDE DEF S
    <2>. QED
      BY <1>3, <2>1, <2>2, <2>3
  <1>5. Max(S) \in 0..Len(t) /\ Fits(t, Max(S), room, max)
    BY <1>3
  <1>6. Trim(t, room, max) = SubSeq(t, 1, Max(S))
    BY DEF Trim
  <1>. HIDE DEF S
  <1>. QED
    BY <1>4, <1>5, <1>6

(* What is left is a beginning of the table, and within the limit. *)
LEMMA TrimFacts ==
    ASSUME NEW t \in Seq(Fields), NEW room \in Nat, NEW max \in Nat
    PROVE  LET r == Trim(t, room, max)
           IN  /\ r \in Seq(Fields) /\ Len(r) \in 0..Len(t)
               /\ r = SubSeq(t, 1, Len(r))
               /\ r = <<>> \/ RoomFor(r) + room <= max
               /\ room <= max => RoomFor(r) + room <= max
               /\ room > max => r = <<>>
               /\ RoomFor(r) <= max
  <1>1. PICK k \in 0..Len(t) : /\ Trim(t, room, max) = SubSeq(t, 1, k)
                               /\ Fits(t, k, room, max)
    BY TrimIs
  <1>. DEFINE r == SubSeq(t, 1, k)
  <1>2. r \in Seq(Fields) /\ Len(r) = k /\ (k = 0 => r = <<>>)
    BY PrefixIs
  <1>3. RoomFor(r) \in Nat
    BY <1>2, RoomType
  <1>4. k = 0 => RoomFor(r) = 0
    BY <1>2, WeightEmpty, FieldsAssumption DEF RoomFor
  <1>5. k = 0 \/ RoomFor(r) + room <= max
    BY <1>1 DEF Fits
  <1>. HIDE DEF r
  <1>6. /\ r = <<>> \/ RoomFor(r) + room <= max
        /\ room <= max => RoomFor(r) + room <= max
        /\ room > max => r = <<>>
        /\ RoomFor(r) <= max
    BY <1>2, <1>3, <1>4, <1>5
  <1>. QED
    BY <1>1, <1>2, <1>6 DEF r

(* That is all there is to know about it. *)
LEMMA TrimWith ==
    ASSUME NEW t \in Seq(Fields), NEW room \in Nat, NEW max \in Nat,
           NEW k \in 0..Len(t), Fits(t, k, room, max),
           \A j \in (k + 1)..Len(t) : ~Fits(t, j, room, max)
    PROVE  Trim(t, room, max) = SubSeq(t, 1, k)
  <1>1. PICK m \in 0..Len(t) : /\ Trim(t, room, max) = SubSeq(t, 1, m)
                               /\ Fits(t, m, room, max)
                               /\ \A j \in (m + 1)..Len(t) : ~Fits(t, j, room, max)
    BY TrimIs
  <1>2. Len(t) \in Nat
    BY LenProperties
  <1>3. ~(m < k)
    <2>. SUFFICES ASSUME m < k PROVE FALSE
      OBVIOUS
    <2>1. k \in (m + 1)..Len(t)
      BY <1>2
    <2>. QED
      BY <1>1, <2>1
  <1>4. ~(k < m)
    <2>. SUFFICES ASSUME k < m PROVE FALSE
      OBVIOUS
    <2>1. m \in (k + 1)..Len(t)
      BY <1>2
    <2>. QED
      BY <1>1, <2>1
  <1>5. k = m
    BY <1>2, <1>3, <1>4
  <1>. QED
    BY <1>1, <1>5

(* A table that fits stays as it is. *)
LEMMA TrimFull ==
    ASSUME NEW t \in Seq(Fields), NEW room \in Nat, NEW max \in Nat,
           RoomFor(t) + room <= max
    PROVE  Trim(t, room, max) = t
  <1>1. Len(t) \in Nat /\ Len(t) \in 0..Len(t)
    BY LenProperties
  <1>2. SubSeq(t, 1, Len(t)) = t
    BY <1>1, PrefixIs
  <1>3. Fits(t, Len(t), room, max)
    BY <1>2 DEF Fits
  <1>4. \A j \in (Len(t) + 1)..Len(t) : ~Fits(t, j, room, max)
    BY <1>1
  <1>5. Trim(t, room, max) = SubSeq(t, 1, Len(t))
    BY <1>1, <1>3, <1>4, TrimWith
  <1>. QED
    BY <1>2, <1>5

(* Trimmed to a and then to b: the same as trimmed to the lesser of them. *)
LEMMA TrimTwice ==
    ASSUME NEW t \in Seq(Fields), NEW a \in Nat, NEW b \in Nat
    PROVE  Trim(Trim(t, 0, a), 0, b) = Trim(t, 0, Min({a, b}))
  <1>. DEFINE r == Trim(t, 0, a)
  <1>1. /\ r \in Seq(Fields) /\ Len(r) \in 0..Len(t) /\ r = SubSeq(t, 1, Len(r))
        /\ RoomFor(r) <= a
    BY TrimFacts
  <1>2. Len(t) \in Nat /\ Len(r) \in Nat /\ RoomFor(r) \in Nat
    BY <1>1, LenProperties, RoomType
  <1>3. CASE a <= b
    <2>1. Min({a, b}) = a
      BY <1>3, MinOfTwo
    <2>2. RoomFor(r) + 0 <= b
      BY <1>1, <1>2, <1>3
    <2>3. Trim(r, 0, b) = r
      <3>. HIDE DEF r
      <3>. QED
        BY <1>1, <2>2, TrimFull
    <2>. QED
      BY <2>1, <2>3
  <1>4. CASE ~(a <= b)
    <2>1. Min({a, b}) = b
      BY <1>4, MinOfTwo
    <2>2. PICK m \in 0..Len(t) : /\ r = SubSeq(t, 1, m)
                                 /\ Fits(t, m, 0, a)
                                 /\ \A j \in (m + 1)..Len(t) : ~Fits(t, j, 0, a)
      BY TrimIs
    <2>. HIDE DEF r
    <2>3. Len(r) = m /\ \A j \in 0..m : SubSeq(r, 1, j) = SubSeq(t, 1, j)
      BY <2>2, PrefixIs
    <2>4. PICK k \in 0..Len(r) : /\ Trim(r, 0, b) = SubSeq(r, 1, k)
                                 /\ Fits(r, k, 0, b)
                                 /\ \A j \in (k + 1)..Len(r) : ~Fits(r, j, 0, b)
      BY <1>1, TrimIs
    <2>5. \A j \in 0..m : Fits(r, j, 0, b) = Fits(t, j, 0, b)
      BY <2>3 DEF Fits
    <2>6. k \in 0..Len(t) /\ k \in 0..m /\ Fits(t, k, 0, b)
      BY <1>2, <2>3, <2>4, <2>5
    <2>7. ASSUME NEW j \in (k + 1)..Len(t), Fits(t, j, 0, b) PROVE FALSE
      <3>1. CASE j <= m
        <4>1. j \in (k + 1)..Len(r) /\ j \in 0..m
          BY <1>2, <2>3, <2>6, <3>1
        <4>. QED
          BY <2>4, <2>5, <2>7, <4>1
      <3>2. CASE j > m
        <4>1. j \in (m + 1)..Len(t) /\ j \in 0..Len(t) /\ j # 0
          BY <1>2, <2>6, <3>2
        <4>2. RoomFor(SubSeq(t, 1, j)) \in Nat
          BY <4>1, PrefixIs, RoomType
        <4>3. RoomFor(SubSeq(t, 1, j)) + 0 <= a
          BY <1>4, <2>7, <4>1, <4>2 DEF Fits
        <4>. QED
          BY <2>2, <4>1, <4>3 DEF Fits
      <3>. QED
        BY <2>6, <3>1, <3>2
    <2>8. Trim(t, 0, b) = SubSeq(t, 1, k)
      BY <2>6, <2>7, TrimWith
    <2>9. SubSeq(r, 1, k) = SubSeq(t, 1, k)
      BY <2>3, <2>6
    <2>. QED
      BY <2>1, <2>4, <2>8, <2>9 DEF r
  <1>. QED
    BY <1>3, <1>4

-----------------------------------------------------------------------------
(* A context *)

(* How many entries have been added since. *)
Age(c, e) == (c.next_seq - 1 - e.seq) % SeqRange

(* The ring and the sequence numbers stand for the same table. *)
CtxOk(c) ==
    /\ c = [hd_table |-> c.hd_table, map |-> c.map,
            hd_table_bufsize |-> c.hd_table_bufsize,
            hd_table_bufsize_max |-> c.hd_table_bufsize_max, next_seq |-> c.next_seq]
    /\ RingOk(c.hd_table)
    /\ c.hd_table_bufsize_max \in 0..(SeqRange - 1) /\ c.next_seq \in 0..(SeqRange - 1)
    /\ c.hd_table_bufsize = RoomFor(TableOf(c)) /\ c.hd_table_bufsize < SeqRange
    /\ \A i \in 1..c.hd_table.len : Age(c, Entries(c.hd_table)[i]) = i - 1

(* The chains of a deflater's map; an inflater has none. *)
ChainsOk(c) ==
    \A b \in Buckets :
      /\ c.map[b] \in Seq(EntrySet)
      /\ {c.map[b][i] : i \in 1..Len(c.map[b])}
           = {e \in {Entries(c.hd_table)[i] : i \in 1..c.hd_table.len} : Hash[e.name] = b}
      /\ \A i, j \in 1..Len(c.map[b]) : i < j => Age(c, c.map[b][i]) < Age(c, c.map[b][j])

(* The map of a deflater, or the empty one of an inflater. *)
MapOk(c, mapped) ==
    /\ c.map = [b \in Buckets |-> c.map[b]]
    /\ IF mapped THEN ChainsOk(c) ELSE \A b \in Buckets : c.map[b] = <<>>

(* A context between two operations. *)
Sound(c, mapped) ==
    /\ CtxOk(c) /\ MapOk(c, mapped)
    /\ c.hd_table_bufsize <= c.hd_table_bufsize_max

(* The table of a sound context has one field per entry, and the index of an *)
(* entry is its place.                                                      *)
LEMMA TableFacts ==
    ASSUME NEW c, CtxOk(c)
    PROVE  /\ TableOf(c) \in Seq(Fields) /\ Len(TableOf(c)) = c.hd_table.len
           /\ c.hd_table.len \in Nat /\ Len(Static) \in Nat /\ SeqRange \in Nat \ {0}
           /\ \A i \in 1..c.hd_table.len :
                /\ Entries(c.hd_table)[i] \in EntrySet
                /\ TableOf(c)[i] = Blank(Entries(c.hd_table)[i])
                /\ Entries(c.hd_table)[i] = hd_ringbuf_get(c.hd_table, i - 1)
                /\ IndexOf(c, Entries(c.hd_table)[i]) = Len(Static) + i - 1
           /\ RoomFor(TableOf(c)) \in Nat
           /\ DOMAIN Entries(c.hd_table) = 1..c.hd_table.len
  <1>. DEFINE e == Entries(c.hd_table)
              t == TableOf(c)
              n == c.hd_table.len
  <1>1. /\ e \in Seq(EntrySet) /\ Len(e) = n /\ n \in Nat /\ DOMAIN e = 1..n
        /\ \A i \in 1..n : e[i] \in EntrySet /\ e[i] = hd_ringbuf_get(c.hd_table, i - 1)
    BY EntriesFacts DEF CtxOk
  <1>2. t = [i \in 1..n |-> Blank(e[i])]
    BY <1>1 DEF TableOf
  <1>3. Len(Static) \in Nat /\ SeqRange \in Nat \ {0}
    <2>1. Static \in Seq(Fields)
      BY FieldsAssumption
    <2>2. SeqRange \in Nat /\ DefaultMax \in 0..(SeqRange - 1)
      BY SizesAssumption
    <2>. QED
      BY <2>1, <2>2, LenProperties
  <1>4. \A i \in 1..n : IndexOf(c, e[i]) = Len(Static) + i - 1
    <2>. SUFFICES ASSUME NEW i \in 1..n PROVE IndexOf(c, e[i]) = Len(Static) + i - 1
      OBVIOUS
    <2>1. Age(c, e[i]) = i - 1
      BY DEF CtxOk
    <2>2. IndexOf(c, e[i]) = Len(Static) + Age(c, e[i])
      BY DEF IndexOf, Age
    <2>. HIDE DEF e, n
    <2>. QED
      BY <1>1, <1>3, <2>1, <2>2
  <1>. HIDE DEF e, t, n
  <1>5. \A i \in 1..n : Blank(e[i]) \in Fields
    BY <1>1, EntryFacts
  <1>6. t \in [1..n -> Fields] /\ \A i \in 1..n : t[i] = Blank(e[i])
    BY <1>2, <1>5
  <1>7. t \in Seq(Fields) /\ Len(t) = n
    BY <1>1, <1>6
  <1>8. RoomFor(t) \in Nat
    BY <1>7, RoomType
  <1>. QED
    BY <1>1, <1>3, <1>4, <1>6, <1>7, <1>8 DEF e, t, n

(* A sound context is sound as the runs check it. *)
LEMMA SoundRing ==
    ASSUME NEW c, NEW mapped, Sound(c, mapped)
    PROVE  RingIsSound(c)
  <1>. DEFINE e == Entries(c.hd_table)
              t == TableOf(c)
              n == c.hd_table.len
  <1>1. CtxOk(c) /\ c.hd_table_bufsize <= c.hd_table_bufsize_max
    BY DEF Sound
  <1>2. /\ t \in Seq(Fields) /\ Len(t) = n /\ n \in Nat /\ DOMAIN e = 1..n
        /\ \A i \in 1..n : /\ e[i] \in EntrySet /\ t[i] = Blank(e[i])
                           /\ IndexOf(c, e[i]) = Len(Static) + i - 1
    BY <1>1, TableFacts
  <1>3. c.hd_table.len \in 0..Size(c.hd_table)
    BY <1>1 DEF CtxOk, RingOk, Size
  <1>4. c.hd_table_bufsize = SumOf([i \in 1..n |-> RoomOf(e[i])])
    <2>1. c.hd_table_bufsize = SumOf([i \in 1..Len(t) |-> Room[t[i]]])
      BY <1>1 DEF CtxOk, RoomFor, Weight
    <2>2. [i \in 1..Len(t) |-> Room[t[i]]] = [i \in 1..n |-> RoomOf(e[i])]
      <3>. HIDE DEF t, n, e
      <3>. QED
        BY <1>2 DEF RoomOf
    <2>. QED
      BY <2>1, <2>2
  <1>5. \A i \in 1..n : e[i] # Freed
    <2>. HIDE DEF e, n
    <2>. QED
      BY <1>2, EntryFacts
  <1>6. \A i \in DOMAIN e : e[i] # Freed /\ IndexOf(c, e[i]) = Len(Static) + i - 1
    <2>. HIDE DEF e, n
    <2>. QED
      BY <1>2, <1>5
  <1>7. c.hd_table_bufsize = SumOf([i \in DOMAIN e |-> RoomOf(e[i])])
    BY <1>2, <1>4
  <1>. HIDE DEF e
  <1>. QED
    BY <1>1, <1>3, <1>6, <1>7 DEF RingIsSound, e

(* The map of a deflater is sound as the runs check it. *)
LEMMA SoundMap ==
    ASSUME NEW c, Sound(c, TRUE)
    PROVE  MapIsSound(c)
  <1>. DEFINE e == Entries(c.hd_table)
              n == c.hd_table.len
  <1>1. CtxOk(c) /\ ChainsOk(c)
    BY DEF Sound, MapOk
  <1>2. DOMAIN e = 1..n /\ n \in Nat /\ Len(Static) \in Nat /\ SeqRange \in Nat \ {0}
    BY <1>1, TableFacts
  <1>3. \A x \in EntrySet : IndexOf(c, x) = Len(Static) + Age(c, x) /\ Age(c, x) \in Nat
    <2>. SUFFICES ASSUME NEW x \in EntrySet
                  PROVE  IndexOf(c, x) = Len(Static) + Age(c, x) /\ Age(c, x) \in Nat
      OBVIOUS
    <2>. DEFINE k == c.next_seq - 1 - x.seq
    <2>1. x.seq \in 0..(SeqRange - 1) /\ c.next_seq \in 0..(SeqRange - 1)
      BY <1>1, EntryFacts DEF CtxOk
    <2>2. k \in Int
      BY <1>2, <2>1
    <2>3. IndexOf(c, x) = Len(Static) + (k % SeqRange) /\ Age(c, x) = k % SeqRange
      BY DEF IndexOf, Age
    <2>. HIDE DEF k
    <2>4. k % SeqRange \in 0..(SeqRange - 1)
      BY <1>2, <2>2, Modulo
    <2>. QED
      BY <1>2, <2>3, <2>4
  <1>4. Range(e) = {e[i] : i \in 1..n}
    BY <1>2 DEF Range
  <1>5. ASSUME NEW b \in Buckets
        PROVE  /\ Range(c.map[b]) = {x \in Range(e) : Hash[x.name] = b}
               /\ \A i, j \in DOMAIN c.map[b] :
                    i < j => IndexOf(c, c.map[b][i]) < IndexOf(c, c.map[b][j])
    <2>. DEFINE s == c.map[b]
    <2>1. /\ s \in Seq(EntrySet)
          /\ {s[i] : i \in 1..Len(s)} = {x \in {e[i] : i \in 1..n} : Hash[x.name] = b}
          /\ \A i, j \in 1..Len(s) : i < j => Age(c, s[i]) < Age(c, s[j])
      BY <1>1 DEF ChainsOk
    <2>. HIDE DEF s, e
    <2>2. DOMAIN s = 1..Len(s) /\ \A i \in 1..Len(s) : s[i] \in EntrySet
      BY <2>1, LenProperties, ElementOfSeq
    <2>3. Range(s) = {x \in Range(e) : Hash[x.name] = b}
      BY <1>4, <2>1, <2>2 DEF Range
    <2>4. ASSUME NEW i \in DOMAIN s, NEW j \in DOMAIN s, i < j
          PROVE  IndexOf(c, s[i]) < IndexOf(c, s[j])
      <3>1. s[i] \in EntrySet /\ s[j] \in EntrySet /\ Age(c, s[i]) < Age(c, s[j])
        BY <2>1, <2>2, <2>4
      <3>2. /\ IndexOf(c, s[i]) = Len(Static) + Age(c, s[i]) /\ Age(c, s[i]) \in Nat
            /\ IndexOf(c, s[j]) = Len(Static) + Age(c, s[j]) /\ Age(c, s[j]) \in Nat
        BY <1>3, <3>1
      <3>. QED
        BY <1>2, <3>1, <3>2
    <2>. QED
      BY <2>3, <2>4 DEF s
  <1>. HIDE DEF e
  <1>. QED
    BY <1>5 DEF MapIsSound, e

(* One element taken out of a chain. *)
LEMMA Without ==
    ASSUME NEW S, NEW s \in Seq(S), NEW p \in 1..Len(s)
    PROVE  LET r == RemoveAt(s, p)
           IN  /\ r \in Seq(S) /\ Len(r) = Len(s) - 1
               /\ \A i \in 1..(Len(s) - 1) : r[i] = IF i < p THEN s[i] ELSE s[i + 1]
  <1>. DEFINE a == SubSeq(s, 1, p - 1)
              b == SubSeq(s, p + 1, Len(s))
  <1>0. Len(s) \in Nat /\ \A i \in 1..Len(s) : s[i] \in S
    BY LenProperties, ElementOfSeq
  <1>1. a \in Seq(S) /\ Len(a) = p - 1 /\ \A i \in 1..(p - 1) : a[i] = s[i]
    <2>1. p - 1 \in 0..Len(s)
      BY <1>0
    <2>. QED
      BY <2>1, PrefixIs
  <1>2. /\ b \in Seq(S) /\ Len(b) = Len(s) - p
        /\ \A i \in 1..(Len(s) - p) : b[i] = s[p + i]
    <2>1. \A i \in (p + 1)..Len(s) : s[i] \in S
      BY <1>0
    <2>2. /\ b \in Seq(S)
          /\ Len(b) = IF p + 1 <= Len(s) THEN Len(s) - (p + 1) + 1 ELSE 0
          /\ \A i \in 1..(Len(s) - (p + 1) + 1) : b[i] = s[(p + 1) + i - 1]
      BY <1>0, <2>1, SubSeqProperties
    <2>. HIDE DEF b
    <2>3. \A i \in 1..(Len(s) - p) : (p + 1) + i - 1 = p + i
      BY <1>0
    <2>. QED
      BY <1>0, <2>2, <2>3
  <1>3. RemoveAt(s, p) = a \o b
    BY DEF RemoveAt
  <1>. HIDE DEF a, b
  <1>4. /\ a \o b \in Seq(S) /\ Len(a \o b) = Len(a) + Len(b)
        /\ \A i \in 1..(Len(a) + Len(b)) :
             (a \o b)[i] = IF i <= Len(a) THEN a[i] ELSE b[i - Len(a)]
    BY <1>1, <1>2, ConcatProperties
  <1>5. ASSUME NEW i \in 1..(Len(s) - 1)
        PROVE  (a \o b)[i] = IF i < p THEN s[i] ELSE s[i + 1]
    <2>1. i \in 1..(Len(a) + Len(b))
      BY <1>0, <1>1, <1>2
    <2>2. CASE i < p
      <3>1. i \in 1..(p - 1) /\ i <= Len(a)
        BY <1>0, <1>1, <2>2
      <3>. QED
        BY <1>1, <1>4, <2>1, <2>2, <3>1
    <2>3. CASE ~(i < p)
      <3>1. ~(i <= Len(a)) /\ i - Len(a) \in 1..(Len(s) - p) /\ p + (i - Len(a)) = i + 1
        BY <1>0, <1>1, <2>3
      <3>. QED
        BY <1>2, <1>4, <2>1, <2>3, <3>1
    <2>. QED
      BY <2>2, <2>3
  <1>. QED
    BY <1>0, <1>1, <1>2, <1>3, <1>4, <1>5

(* An age is a number. *)
LEMMA AgeType ==
    ASSUME NEW c, c.next_seq \in 0..(SeqRange - 1), NEW x \in EntrySet
    PROVE  Age(c, x) \in Nat
  <1>. DEFINE k == c.next_seq - 1 - x.seq
  <1>1. SeqRange \in Nat \ {0}
    <2>1. SeqRange \in Nat /\ DefaultMax \in 0..(SeqRange - 1)
      BY SizesAssumption
    <2>. QED
      BY <2>1
  <1>2. x.seq \in 0..(SeqRange - 1)
    BY EntryFacts
  <1>3. k \in Int
    BY <1>1, <1>2
  <1>4. Age(c, x) = k % SeqRange
    BY DEF Age
  <1>. HIDE DEF k
  <1>5. k % SeqRange \in 0..(SeqRange - 1)
    BY <1>1, <1>3, Modulo
  <1>. QED
    BY <1>1, <1>4, <1>5

(* The chain that loses an entry keeps the others, in their order. *)
LEMMA ChainWithout ==
    ASSUME NEW c, c.next_seq \in 0..(SeqRange - 1),
           NEW s \in Seq(EntrySet), NEW p \in 1..Len(s),
           \A i, j \in 1..Len(s) : i < j => Age(c, s[i]) < Age(c, s[j])
    PROVE  LET r == RemoveAt(s, p)
           IN  /\ r \in Seq(EntrySet)
               /\ {r[i] : i \in 1..Len(r)} = {s[i] : i \in 1..Len(s)} \ {s[p]}
               /\ \A i, j \in 1..Len(r) : i < j => Age(c, r[i]) < Age(c, r[j])
  <1>. DEFINE r == RemoveAt(s, p)
  <1>0. Len(s) \in Nat /\ \A i \in 1..Len(s) : s[i] \in EntrySet /\ Age(c, s[i]) \in Nat
    BY LenProperties, ElementOfSeq, AgeType
  <1>1. /\ r \in Seq(EntrySet) /\ Len(r) = Len(s) - 1
        /\ \A i \in 1..(Len(s) - 1) : r[i] = IF i < p THEN s[i] ELSE s[i + 1]
    BY Without
  <1>. HIDE DEF r
  <1>2. ASSUME NEW i \in 1..Len(r), NEW j \in 1..Len(r), i < j
        PROVE  Age(c, r[i]) < Age(c, r[j])
    <2>. DEFINE a == IF i < p THEN i ELSE i + 1
                b == IF j < p THEN j ELSE j + 1
    <2>1. a \in 1..Len(s) /\ b \in 1..Len(s) /\ a < b
      BY <1>0, <1>1, <1>2
    <2>2. r[i] = s[a] /\ r[j] = s[b]
      BY <1>1
    <2>. HIDE DEF a, b
    <2>. QED
      BY <2>1, <2>2
  <1>3. ASSUME NEW i \in 1..Len(r) PROVE r[i] \in {s[k] : k \in 1..Len(s)} \ {s[p]}
    <2>. DEFINE a == IF i < p THEN i ELSE i + 1
    <2>1. a \in 1..Len(s) /\ a # p /\ r[i] = s[a] /\ (a < p \/ p < a)
      BY <1>0, <1>1
    <2>. HIDE DEF a
    <2>2. Age(c, s[a]) # Age(c, s[p])
      BY <1>0, <2>1
    <2>. QED
      BY <2>1, <2>2
  <1>4. ASSUME NEW k \in 1..Len(s), s[k] # s[p] PROVE s[k] \in {r[i] : i \in 1..Len(r)}
    <2>. DEFINE a == IF k < p THEN k ELSE k - 1
    <2>1. k # p
      BY <1>4
    <2>2. a \in 1..Len(r) /\ r[a] = s[k]
      BY <1>0, <1>1, <2>1
    <2>. HIDE DEF a
    <2>. QED
      BY <2>2
  <1>. QED
    BY <1>1, <1>2, <1>3, <1>4 DEF r

(* hd_map_remove takes the oldest entry out of the chain it is in. *)
LEMMA OldestUnchained ==
    ASSUME NEW c, CtxOk(c), NEW mapped, MapOk(c, mapped), c.hd_table.len > 0,
           NEW d, d.map = hd_map_remove(c.map, Entries(c.hd_table)[c.hd_table.len]),
           d.next_seq = c.next_seq, d.hd_table.len = c.hd_table.len - 1,
           \A i \in 1..(c.hd_table.len - 1) :
             Entries(d.hd_table)[i] = Entries(c.hd_table)[i]
    PROVE  MapOk(d, mapped)
  <1>. DEFINE n == c.hd_table.len
              ents == Entries(c.hd_table)
              e == ents[n]
              b == Hash[e.name]
              s == c.map[b]
              at == {i \in DOMAIN s : s[i] = e}
  <1>0. n \in Nat \ {0} /\ n \in 1..n
    BY TableFacts
  <1>1. e \in EntrySet /\ b \in Buckets
    BY <1>0, TableFacts, EntryFacts
  <1>2. d.map = IF at = {} THEN c.map ELSE [c.map EXCEPT ![b] = RemoveAt(s, Min(at))]
    BY DEF hd_map_remove
  <1>3. c.map = [x \in Buckets |-> c.map[x]]
    BY DEF MapOk
  <1>4. ASSUME ~mapped PROVE MapOk(d, mapped)
    <2>1. \A x \in Buckets : c.map[x] = <<>>
      BY <1>4 DEF MapOk
    <2>2. s = <<>>
      BY <1>1, <2>1
    <2>3. at = {}
      <3>. HIDE DEF s, e
      <3>. QED
        BY <2>2
    <2>4. d.map = c.map
      BY <1>2, <2>3
    <2>. QED
      BY <1>3, <1>4, <2>1, <2>4 DEF MapOk
  <1>5. ASSUME mapped PROVE MapOk(d, mapped)
    <2>1. ASSUME NEW x \in Buckets
          PROVE  /\ c.map[x] \in Seq(EntrySet)
                 /\ {c.map[x][i] : i \in 1..Len(c.map[x])}
                      = {y \in {ents[i] : i \in 1..n} : Hash[y.name] = x}
                 /\ \A i, j \in 1..Len(c.map[x]) :
                      i < j => Age(c, c.map[x][i]) < Age(c, c.map[x][j])
      BY <1>5 DEF MapOk, ChainsOk
    <2>2. /\ s \in Seq(EntrySet)
          /\ {s[i] : i \in 1..Len(s)} = {y \in {ents[i] : i \in 1..n} : Hash[y.name] = b}
          /\ \A i, j \in 1..Len(s) : i < j => Age(c, s[i]) < Age(c, s[j])
      BY <1>1, <2>1
    <2>. HIDE DEF s
    <2>3. DOMAIN s = 1..Len(s) /\ Len(s) \in Nat
      BY <2>2, LenProperties
    <2>4. \E i \in 1..Len(s) : s[i] = e
      <3>1. e \in {y \in {ents[i] : i \in 1..n} : Hash[y.name] = b}
        <4>. HIDE DEF ents
        <4>. QED
          BY <1>0
      <3>2. e \in {s[i] : i \in 1..Len(s)}
        BY <2>2, <3>1
      <3>. HIDE DEF e
      <3>. QED
        BY <3>2
    <2>. DEFINE p == Min(at)
    <2>5. p \in 1..Len(s) /\ s[p] = e
      <3>. HIDE DEF e
      <3>1. at \in SUBSET Nat /\ at # {}
        BY <2>3, <2>4
      <3>2. p \in at
        <4>. HIDE DEF at
        <4>. QED
          BY <3>1, MinOfNat
      <3>. HIDE DEF p
      <3>. QED
        BY <2>3, <3>2
    <2>6. d.map = [c.map EXCEPT ![b] = RemoveAt(s, p)]
      <3>1. at # {}
        <4>. HIDE DEF e
        <4>. QED
          BY <2>3, <2>4
      <3>. HIDE DEF at
      <3>. QED
        BY <1>2, <3>1
    <2>. DEFINE r == RemoveAt(s, p)
    <2>. HIDE DEF p
    <2>7. /\ r \in Seq(EntrySet)
          /\ {r[i] : i \in 1..Len(r)} = {s[i] : i \in 1..Len(s)} \ {e}
          /\ \A i, j \in 1..Len(r) : i < j => Age(c, r[i]) < Age(c, r[j])
      <3>1. c.next_seq \in 0..(SeqRange - 1)
        BY DEF CtxOk
      <3>2. /\ r \in Seq(EntrySet)
            /\ {r[i] : i \in 1..Len(r)} = {s[i] : i \in 1..Len(s)} \ {s[p]}
            /\ \A i, j \in 1..Len(r) : i < j => Age(c, r[i]) < Age(c, r[j])
        BY <2>2, <2>5, <3>1, ChainWithout
      <3>. QED
        BY <2>5, <3>2
    <2>. HIDE DEF r
    <2>8. d.map = [x \in Buckets |-> d.map[x]] /\ d.map[b] = r
          /\ \A x \in Buckets : x # b => d.map[x] = c.map[x]
      <3>1. d.map = [c.map EXCEPT ![b] = r]
        BY <2>6 DEF r
      <3>. HIDE DEF b
      <3>. QED
        BY <1>1, <1>3, <3>1
    <2>9. \A x : Age(d, x) = Age(c, x)
      BY DEF Age
    <2>. DEFINE old == {ents[i] : i \in 1..n}
                new == {Entries(d.hd_table)[i] : i \in 1..d.hd_table.len}
    <2>10. new = old \ {e}
      <3>1. new = {ents[i] : i \in 1..(n - 1)}
        <4>. HIDE DEF ents
        <4>1. \A i \in 1..(n - 1) : Entries(d.hd_table)[i] = ents[i]
          BY DEF ents
        <4>2. d.hd_table.len = n - 1
          OBVIOUS
        <4>. HIDE DEF n
        <4>. QED
          BY <4>1, <4>2
      <3>2. ASSUME NEW i \in 1..(n - 1) PROVE ents[i] # e
        <4>1. i \in 1..n /\ i - 1 # n - 1
          BY <1>0
        <4>2. Age(c, ents[i]) = i - 1 /\ Age(c, e) = n - 1
          BY <1>0, <4>1 DEF CtxOk
        <4>. HIDE DEF ents
        <4>. QED
          BY <4>1, <4>2
      <3>3. \A i \in 1..n : i # n => i \in 1..(n - 1)
        BY <1>0
      <3>4. \A i \in 1..(n - 1) : i \in 1..n
        BY <1>0
      <3>. HIDE DEF ents, n, new
      <3>. QED
        BY <3>1, <3>2, <3>3, <3>4
    <2>11. ASSUME NEW x \in Buckets
           PROVE  /\ d.map[x] \in Seq(EntrySet)
                  /\ {d.map[x][i] : i \in 1..Len(d.map[x])} = {y \in new : Hash[y.name] = x}
                  /\ \A i, j \in 1..Len(d.map[x]) :
                       i < j => Age(d, d.map[x][i]) < Age(d, d.map[x][j])
      <3>1. CASE x = b
        <4>1. {r[i] : i \in 1..Len(r)} = {y \in new : Hash[y.name] = b}
          <5>. HIDE DEF old, new, e
          <5>1. {s[i] : i \in 1..Len(s)} = {y \in old : Hash[y.name] = b}
            BY <2>2 DEF old
          <5>. QED
            BY <2>7, <2>10, <5>1
        <4>. HIDE DEF new, b
        <4>. QED
          BY <2>7, <2>8, <2>9, <3>1, <4>1
      <3>2. CASE x # b
        <4>1. {y \in old : Hash[y.name] = x} = {y \in new : Hash[y.name] = x}
          <5>1. Hash[e.name] # x
            BY <3>2
          <5>. HIDE DEF old, new, e
          <5>. QED
            BY <2>10, <5>1
        <4>2. d.map[x] = c.map[x]
          BY <2>8, <3>2
        <4>3. {c.map[x][i] : i \in 1..Len(c.map[x])} = {y \in old : Hash[y.name] = x}
          BY <2>1
        <4>. HIDE DEF old, new
        <4>. QED
          BY <2>1, <2>9, <4>1, <4>2, <4>3
      <3>. QED
        BY <3>1, <3>2
    <2>12. ChainsOk(d)
      BY <2>11 DEF ChainsOk
    <2>. QED
      BY <1>5, <2>8, <2>12 DEF MapOk
  <1>. QED
    BY <1>4, <1>5

(* Evicting the oldest entry shortens the table by one. *)
LEMMA OldestEvicted ==
    ASSUME NEW c, CtxOk(c), NEW mapped, MapOk(c, mapped), c.hd_table.len > 0
    PROVE  LET d == EvictOldest(c)
           IN  /\ CtxOk(d) /\ MapOk(d, mapped)
               /\ d.hd_table.len = c.hd_table.len - 1
               /\ TableOf(d) = SubSeq(TableOf(c), 1, c.hd_table.len - 1)
               /\ d.hd_table_bufsize_max = c.hd_table_bufsize_max
  <1>. DEFINE n == c.hd_table.len
              ents == Entries(c.hd_table)
              e == ents[n]
              ring == hd_ringbuf_pop_back(c.hd_table)
              t == TableOf(c)
              d == EvictOldest(c)
  <1>1. /\ t \in Seq(Fields) /\ Len(t) = n /\ n \in Nat \ {0}
        /\ \A i \in 1..n : /\ ents[i] \in EntrySet /\ t[i] = Blank(ents[i])
                           /\ ents[i] = hd_ringbuf_get(c.hd_table, i - 1)
    BY TableFacts
  <1>2. e = hd_ringbuf_get(c.hd_table, n - 1) /\ e \in EntrySet /\ t[n] = Blank(e)
    BY <1>1
  <1>3. d = [hd_table |-> ring, map |-> hd_map_remove(c.map, e),
             hd_table_bufsize |-> c.hd_table_bufsize - RoomOf(e),
             hd_table_bufsize_max |-> c.hd_table_bufsize_max, next_seq |-> c.next_seq]
    <2>1. d = [c EXCEPT !.hd_table_bufsize = @ - RoomOf(e),
                        !.hd_table = hd_ringbuf_pop_back(@),
                        !.map = hd_map_remove(@, e)]
      BY <1>2 DEF EvictOldest
    <2>2. c = [hd_table |-> c.hd_table, map |-> c.map,
               hd_table_bufsize |-> c.hd_table_bufsize,
               hd_table_bufsize_max |-> c.hd_table_bufsize_max, next_seq |-> c.next_seq]
      BY DEF CtxOk
    <2>. HIDE DEF d, e
    <2>. QED
      BY <2>1, <2>2
  <1>4. /\ RingOk(ring) /\ ring.len = n - 1
        /\ \A i \in 0..(n - 2) : hd_ringbuf_get(ring, i) = hd_ringbuf_get(c.hd_table, i)
    BY PopBack DEF CtxOk
  <1>. HIDE DEF d, ring
  <1>5. /\ d.hd_table = ring /\ d.map = hd_map_remove(c.map, e)
        /\ d.hd_table_bufsize = c.hd_table_bufsize - RoomOf(e)
        /\ d.hd_table_bufsize_max = c.hd_table_bufsize_max /\ d.next_seq = c.next_seq
        /\ d = [hd_table |-> d.hd_table, map |-> d.map,
                hd_table_bufsize |-> d.hd_table_bufsize,
                hd_table_bufsize_max |-> d.hd_table_bufsize_max, next_seq |-> d.next_seq]
    BY <1>3
  <1>6. /\ DOMAIN Entries(ring) = 1..(n - 1)
        /\ \A i \in 1..(n - 1) : Entries(ring)[i] = ents[i]
    <2>1. /\ DOMAIN Entries(ring) = 1..(n - 1)
          /\ \A i \in 1..(n - 1) : Entries(ring)[i] = hd_ringbuf_get(ring, i - 1)
      BY <1>4, EntriesFacts
    <2>2. \A i \in 1..(n - 1) : i - 1 \in 0..(n - 2) /\ i \in 1..n
      BY <1>1
    <2>. HIDE DEF ents, n
    <2>. QED
      BY <1>1, <1>4, <2>1, <2>2
  <1>7. MapOk(d, mapped)
    BY <1>4, <1>5, <1>6, OldestUnchained
  <1>8. \A i \in 1..(n - 1) : Age(d, Entries(ring)[i]) = i - 1
    <2>1. \A x : Age(d, x) = Age(c, x)
      BY <1>5 DEF Age
    <2>2. \A i \in 1..(n - 1) : Age(c, ents[i]) = i - 1
      <3>1. \A i \in 1..(n - 1) : i \in 1..n
        BY <1>1
      <3>. QED
        BY <3>1 DEF CtxOk
    <2>. HIDE DEF ents, n
    <2>. QED
      BY <1>6, <2>1, <2>2
  <1>9. TableOf(d) = SubSeq(t, 1, n - 1)
    <2>1. TableOf(d) = [i \in 1..(n - 1) |-> Blank(Entries(ring)[i])]
      BY <1>5, <1>6 DEF TableOf
    <2>. DEFINE q == SubSeq(t, 1, n - 1)
    <2>2. q \in Seq(Fields) /\ Len(q) = n - 1 /\ \A i \in 1..(n - 1) : q[i] = t[i]
      <3>1. n - 1 \in 0..Len(t)
        BY <1>1
      <3>. HIDE DEF t
      <3>. QED
        BY <1>1, <3>1, PrefixIs
    <2>. HIDE DEF q
    <2>3. q = [i \in 1..(n - 1) |-> q[i]]
      BY <2>2
    <2>4. \A i \in 1..(n - 1) : q[i] = Blank(Entries(ring)[i])
      <3>1. \A i \in 1..(n - 1) : i \in 1..n
        BY <1>1
      <3>. HIDE DEF ents, t, n
      <3>. QED
        BY <1>1, <1>6, <2>2, <3>1
    <2>. HIDE DEF n
    <2>5. TableOf(d) = q
      BY <2>1, <2>3, <2>4
    <2>. QED
      BY <2>5 DEF q, n
  <1>10. /\ d.hd_table_bufsize = RoomFor(TableOf(d)) /\ d.hd_table_bufsize < SeqRange
    <2>1. PICK g \in [0..Len(t) -> Nat] :
             /\ \A i \in 1..Len(t) : g[i] = g[i - 1] + Room[t[i]]
             /\ \A k \in 0..Len(t) : RoomFor(SubSeq(t, 1, k)) = g[k]
      BY <1>1, PrefixRooms
    <2>2. n \in 1..Len(t) /\ n \in 0..Len(t) /\ n - 1 \in 0..Len(t) /\ n = Len(t)
      BY <1>1
    <2>3. SubSeq(t, 1, n) = t
      BY <1>1, <2>2, PrefixIs
    <2>4. RoomFor(t) = g[n] /\ RoomFor(SubSeq(t, 1, n - 1)) = g[n - 1]
      BY <2>1, <2>2, <2>3
    <2>5. g[n] = g[n - 1] + RoomOf(e) /\ g[n - 1] \in Nat /\ g[n] \in Nat
      <3>. HIDE DEF t, e, n
      <3>. QED
        BY <1>2, <2>1, <2>2 DEF RoomOf
    <2>6. c.hd_table_bufsize = RoomFor(t) /\ c.hd_table_bufsize < SeqRange
      BY DEF CtxOk
    <2>7. RoomOf(e) \in Nat /\ SeqRange \in Nat
      BY <1>2, EntryFacts, SizesAssumption
    <2>. HIDE DEF t, e, n
    <2>. QED
      BY <1>5, <1>9, <2>4, <2>5, <2>6, <2>7
  <1>11. CtxOk(d)
    <2>1. c.hd_table_bufsize_max \in 0..(SeqRange - 1) /\ c.next_seq \in 0..(SeqRange - 1)
      BY DEF CtxOk
    <2>2. \A i \in 1..d.hd_table.len : Age(d, Entries(d.hd_table)[i]) = i - 1
      BY <1>4, <1>5, <1>8
    <2>. QED
      BY <1>4, <1>5, <1>10, <2>1, <2>2 DEF CtxOk
  <1>. QED
    BY <1>4, <1>5, <1>7, <1>9, <1>11 DEF d

(* The contexts that evicting one entry after the other goes through. *)
EvictsTo(c, f, m) ==
    /\ f = [n \in 0..m |-> f[n]]
    /\ f[0] = c /\ \A n \in 1..m : f[n] = EvictOldest(f[n - 1])

(* Entries can be evicted one after the other. *)
LEMMA EvictsToExists ==
    ASSUME NEW c, NEW m \in Nat
    PROVE  \E f : EvictsTo(c, f, m)
  <1>. DEFINE P(i) == \E f : EvictsTo(c, f, i)
              S == {i \in Nat : P(i)}
  <1>1. 0 \in S
    <2>. DEFINE f == [n \in 0..0 |-> c]
    <2>1. f = [n \in 0..0 |-> f[n]] /\ f[0] = c
      OBVIOUS
    <2>2. \A n \in 1..0 : f[n] = EvictOldest(f[n - 1])
      OBVIOUS
    <2>. HIDE DEF f
    <2>3. P(0)
      BY <2>1, <2>2 DEF EvictsTo
    <2>. QED
      BY <2>3
  <1>2. ASSUME NEW i \in S PROVE i + 1 \in S
    <2>0. i \in Nat /\ P(i)
      OBVIOUS
    <2>1. PICK f : EvictsTo(c, f, i)
      BY <2>0
    <2>. DEFINE g == [n \in 0..(i + 1) |-> IF n = i + 1 THEN EvictOldest(f[i]) ELSE f[n]]
    <2>2. g = [n \in 0..(i + 1) |-> g[n]]
      OBVIOUS
    <2>3. g[i + 1] = EvictOldest(f[i]) /\ \A n \in 0..i : g[n] = f[n]
      BY <2>0
    <2>. HIDE DEF g
    <2>4. g[0] = c
      BY <2>0, <2>1, <2>3 DEF EvictsTo
    <2>5. ASSUME NEW n \in 1..(i + 1) PROVE g[n] = EvictOldest(g[n - 1])
      <3>1. CASE n = i + 1
        <4>1. n - 1 = i /\ i \in 0..i
          BY <2>0, <3>1
        <4>2. g[n - 1] = f[i]
          BY <2>3, <4>1
        <4>. QED
          BY <2>3, <3>1, <4>2
      <3>2. CASE n # i + 1
        <4>1. n \in 1..i /\ n \in 0..i /\ n - 1 \in 0..i
          BY <2>0, <3>2
        <4>. QED
          BY <2>1, <2>3, <4>1 DEF EvictsTo
      <3>. QED
        BY <3>1, <3>2
    <2>6. P(i + 1)
      BY <2>2, <2>4, <2>5 DEF EvictsTo
    <2>. HIDE DEF P
    <2>. QED
      BY <2>0, <2>6
  <1>3. S = Nat
    <2>1. S \in SUBSET Nat
      OBVIOUS
    <2>. HIDE DEF S
    <2>. QED
      BY <1>1, <1>2, <2>1, Induction
  <1>4. m \in S
    <2>. HIDE DEF S
    <2>. QED
      BY <1>3
  <1>. QED
    BY <1>4

(* Enough room is free, or nothing is left to evict. *)
Stopped(c, room) ==
    \/ c.hd_table_bufsize + room <= c.hd_table_bufsize_max
    \/ c.hd_table.len = 0

(* Evict goes through such contexts and takes the first that will do. *)
LEMMA EvictSteps ==
    ASSUME NEW c, NEW room, c.hd_table.len \in Nat
    PROVE  \E f : /\ EvictsTo(c, f, c.hd_table.len)
                  /\ Evict(c, room) = f[Min({n \in 0..c.hd_table.len : Stopped(f[n], room)})]
  <1>. DEFINE m == c.hd_table.len
              R(f) == [n \in 0..c.hd_table.len |-> IF n = 0 THEN c ELSE EvictOldest(f[n - 1])]
              left == CHOOSE f : f = R(f)
  <1>1. \E f : f = R(f)
    <2>1. PICK f : EvictsTo(c, f, m)
      BY EvictsToExists
    <2>2. ASSUME NEW n \in 0..m
          PROVE  f[n] = IF n = 0 THEN c ELSE EvictOldest(f[n - 1])
      <3>1. CASE n = 0
        BY <2>1, <3>1 DEF EvictsTo
      <3>2. CASE n # 0
        <4>1. n \in 1..m
          BY <3>2
        <4>. QED
          BY <2>1, <3>2, <4>1 DEF EvictsTo
      <3>. QED
        BY <3>1, <3>2
    <2>3. f = R(f)
      BY <2>1, <2>2 DEF EvictsTo
    <2>. QED
      BY <2>3
  <1>2. left = R(left)
    BY <1>1
  <1>3. Evict(c, room) = left[Min({n \in 0..m : Stopped(left[n], room)})]
    BY DEF Evict, Stopped
  <1>. HIDE DEF left
  <1>4. left = [n \in 0..m |-> left[n]]
    BY <1>2
  <1>5. left[0] = c
    BY <1>2
  <1>6. \A n \in 1..m : left[n] = EvictOldest(left[n - 1])
    BY <1>2
  <1>. QED
    BY <1>3, <1>4, <1>5, <1>6 DEF EvictsTo

(* Evicting trims the table. *)
LEMMA EvictTrims ==
    ASSUME NEW c, CtxOk(c), NEW mapped, MapOk(c, mapped), NEW room \in Nat
    PROVE  LET d == Evict(c, room)
           IN  /\ Sound(d, mapped)
               /\ TableOf(d) = Trim(TableOf(c), room, c.hd_table_bufsize_max)
               /\ d.hd_table_bufsize_max = c.hd_table_bufsize_max
  <1>. DEFINE m == c.hd_table.len
              t == TableOf(c)
              max == c.hd_table_bufsize_max
  <1>0. /\ t \in Seq(Fields) /\ Len(t) = m /\ m \in Nat /\ max \in Nat
        /\ SeqRange \in Nat
    BY TableFacts, SizesAssumption DEF CtxOk
  <1>1. PICK f : /\ EvictsTo(c, f, m)
                 /\ Evict(c, room) = f[Min({n \in 0..m : Stopped(f[n], room)})]
    BY <1>0, EvictSteps
  <1>. DEFINE Good(n) == /\ CtxOk(f[n]) /\ MapOk(f[n], mapped)
                         /\ f[n].hd_table.len = m - n
                         /\ TableOf(f[n]) = SubSeq(t, 1, m - n)
                         /\ f[n].hd_table_bufsize_max = max
              S == {n \in Nat : n <= m => Good(n)}
  <1>2. 0 \in S
    <2>1. f[0] = c
      BY <1>1 DEF EvictsTo
    <2>2. m \in 0..Len(t) /\ m - 0 = m
      BY <1>0
    <2>3. SubSeq(t, 1, m) = t
      <3>. HIDE DEF m, t
      <3>. QED
        BY <1>0, <2>2, PrefixIs
    <2>4. Good(0)
      <3>. HIDE DEF t
      <3>1. TableOf(f[0]) = t
        BY <2>1 DEF t
      <3>. QED
        BY <2>1, <2>2, <2>3, <3>1
    <2>. HIDE DEF Good
    <2>. QED
      BY <2>4
  <1>3. ASSUME NEW n \in S PROVE n + 1 \in S
    <2>0. n \in Nat
      OBVIOUS
    <2>. SUFFICES ASSUME n + 1 <= m PROVE Good(n + 1)
      <3>. HIDE DEF Good, m
      <3>. QED
        BY <2>0
    <2>1. Good(n)
      <3>. HIDE DEF Good
      <3>. QED
        BY <1>0, <2>0
    <2>2. f[n + 1] = EvictOldest(f[n])
      <3>1. n + 1 \in 1..m /\ (n + 1) - 1 = n
        <4>. HIDE DEF m, S
        <4>. QED
          BY <1>0, <2>0
      <3>. QED
        BY <1>1, <3>1 DEF EvictsTo
    <2>3. f[n].hd_table.len = m - n /\ m - n > 0 /\ (m - n) - 1 = m - (n + 1)
      <3>1. f[n].hd_table.len = m - n
        BY <2>1
      <3>. HIDE DEF m, S
      <3>. QED
        BY <1>0, <2>0, <3>1
    <2>4. LET d == EvictOldest(f[n])
          IN  /\ CtxOk(d) /\ MapOk(d, mapped)
              /\ d.hd_table.len = f[n].hd_table.len - 1
              /\ TableOf(d) = SubSeq(TableOf(f[n]), 1, f[n].hd_table.len - 1)
              /\ d.hd_table_bufsize_max = f[n].hd_table_bufsize_max
      BY <2>1, <2>3, OldestEvicted
    <2>5. SubSeq(SubSeq(t, 1, m - n), 1, (m - n) - 1) = SubSeq(t, 1, (m - n) - 1)
      <3>1. m - n \in 0..Len(t) /\ (m - n) - 1 \in 0..(m - n)
        <4>. HIDE DEF m, t, S
        <4>. QED
          BY <1>0, <2>0
      <3>. HIDE DEF m, t
      <3>. QED
        BY <1>0, <3>1, PrefixIs
    <2>. HIDE DEF m, t
    <2>. QED
      BY <2>1, <2>2, <2>3, <2>4, <2>5
  <1>4. S = Nat
    <2>1. S \in SUBSET Nat
      OBVIOUS
    <2>. HIDE DEF S
    <2>. QED
      BY <1>2, <1>3, <2>1, Induction
  <1>5. \A n \in 0..m : Good(n)
    <2>. SUFFICES ASSUME NEW n \in 0..m PROVE Good(n)
      OBVIOUS
    <2>1. n \in S /\ n <= m
      <3>. HIDE DEF S
      <3>. QED
        BY <1>0, <1>4
    <2>. HIDE DEF Good, m
    <2>. QED
      BY <2>1
  <1>6. \A n \in 0..m : Stopped(f[n], room) <=> Fits(t, m - n, room, max)
    <2>. SUFFICES ASSUME NEW n \in 0..m
                  PROVE  Stopped(f[n], room) <=> Fits(t, m - n, room, max)
      OBVIOUS
    <2>1. Good(n)
      BY <1>5
    <2>2. f[n].hd_table_bufsize = RoomFor(SubSeq(t, 1, m - n))
      BY <2>1 DEF CtxOk
    <2>. HIDE DEF m, t, max
    <2>. QED
      BY <2>1, <2>2 DEF Stopped, Fits
  <1>. DEFINE N == {n \in 0..m : Stopped(f[n], room)}
  <1>7. Min(N) \in N /\ \A n \in N : Min(N) <= n
    <2>1. m \in N
      <3>1. m \in 0..m /\ m - m = 0
        BY <1>0
      <3>2. Fits(t, m - m, room, max)
        BY <3>1 DEF Fits
      <3>. HIDE DEF t, max, m
      <3>. QED
        BY <1>6, <3>1, <3>2
    <2>2. N \in SUBSET Nat
      BY <1>0
    <2>. HIDE DEF N
    <2>. QED
      BY <2>1, <2>2, MinOfNat
  <1>. DEFINE n == Min(N)
              k == m - n
              d == f[n]
  <1>8. n \in 0..m /\ Good(n) /\ Evict(c, room) = d /\ k \in 0..m
    <2>1. n \in 0..m
      BY <1>7
    <2>. HIDE DEF n
    <2>2. k \in 0..m
      BY <1>0, <2>1
    <2>3. Evict(c, room) = f[n]
      BY <1>1 DEF n
    <2>. HIDE DEF Good
    <2>. QED
      BY <1>5, <2>1, <2>2, <2>3
  <1>9. TableOf(d) = Trim(t, room, max)
    <2>1. Fits(t, k, room, max)
      <3>1. Stopped(f[n], room)
        BY <1>7
      <3>. HIDE DEF n, m, t, max
      <3>. QED
        BY <1>6, <1>8, <3>1
    <2>2. ASSUME NEW j \in (k + 1)..Len(t), Fits(t, j, room, max) PROVE FALSE
      <3>1. m - j \in 0..m /\ m - (m - j) = j /\ m - j < n
        <4>. HIDE DEF n, m
        <4>. QED
          BY <1>0, <1>8
      <3>2. Stopped(f[m - j], room)
        <4>. HIDE DEF m, t, max, N
        <4>. QED
          BY <1>6, <2>2, <3>1
      <3>3. m - j \in N
        <4>. HIDE DEF m
        <4>. QED
          BY <3>1, <3>2
      <3>4. n <= m - j
        <4>. HIDE DEF N, m
        <4>. QED
          BY <1>7, <3>3
      <3>5. n \in Int /\ m - j \in Int
        <4>. HIDE DEF n, m
        <4>. QED
          BY <1>8, <3>1
      <3>. HIDE DEF n, m
      <3>. QED
        BY <3>1, <3>4, <3>5
    <2>3. k \in 0..Len(t)
      <3>. HIDE DEF k, m, t
      <3>. QED
        BY <1>0, <1>8
    <2>4. Trim(t, room, max) = SubSeq(t, 1, k)
      <3>. HIDE DEF k, m, t, max
      <3>. QED
        BY <1>0, <2>1, <2>2, <2>3, TrimWith
    <2>. HIDE DEF t
    <2>. QED
      BY <1>8, <2>4
  <1>10. d.hd_table_bufsize <= max
    <2>1. d.hd_table_bufsize = RoomFor(TableOf(d))
      BY <1>8 DEF CtxOk
    <2>2. RoomFor(Trim(t, room, max)) <= max
      <3>. HIDE DEF t, max
      <3>. QED
        BY <1>0, TrimFacts
    <2>. QED
      BY <1>9, <2>1, <2>2
  <1>. HIDE DEF d, n
  <1>. QED
    BY <1>8, <1>9, <1>10 DEF Sound, d

(* The sequence numbers go on, modulo SeqRange: every age grows by one. *)
LEMMA Older ==
    ASSUME NEW R \in Nat \ {0}, NEW n \in 0..(R - 1), NEW s \in 0..(R - 1)
    PROVE  /\ (n + 1) % R \in 0..(R - 1)
           /\ (((n + 1) % R) - 1 - n) % R = 0
           /\ ((n - 1 - s) % R) + 1 < R =>
                (((n + 1) % R) - 1 - s) % R = ((n - 1 - s) % R) + 1
  <1>. DEFINE m == (n + 1) % R
              a == (n - 1 - s) % R
              x == n - 1 - s
              y == m - 1 - s
              z == m - 1 - n
  <1>1. m = IF n + 1 < R THEN n + 1 ELSE 0
    <2>. DEFINE k == n + 1
    <2>1. k \in 0..(R - 1) \/ k = R
      OBVIOUS
    <2>2. CASE k \in 0..(R - 1)
      <3>1. k < R
        BY <2>2
      <3>2. k % R = k
        <4>. HIDE DEF k
        <4>. QED
          BY <2>2, Modulo
      <3>. QED
        BY <3>1, <3>2
    <2>3. CASE k = R
      <3>1. k \in R..(2 * R - 1) /\ ~(k < R) /\ k - R = 0
        BY <2>3
      <3>2. k % R = k - R
        <4>. HIDE DEF k
        <4>. QED
          BY <3>1, Modulo
      <3>. QED
        BY <3>1, <3>2
    <2>. QED
      BY <2>1, <2>2, <2>3
  <1>2. a = IF x >= 0 THEN x ELSE x + R
    <2>1. x \in 0..(R - 1) \/ x \in (-R)..(-1)
      OBVIOUS
    <2>2. a = x % R
      OBVIOUS
    <2>. HIDE DEF x, a
    <2>3. CASE x \in 0..(R - 1)
      <3>1. x % R = x
        BY <2>3, Modulo
      <3>. QED
        BY <2>2, <2>3, <3>1
    <2>4. CASE x \in (-R)..(-1)
      <3>1. x % R = x + R
        BY <2>4, Modulo
      <3>. QED
        BY <2>2, <2>4, <3>1
    <2>. QED
      BY <2>1, <2>3, <2>4
  <1>. HIDE DEF m, a
  <1>3. z = 0 \/ z = -R
    BY <1>1
  <1>4. z % R = 0
    <2>. HIDE DEF z
    <2>1. CASE z = 0
      <3>1. z \in 0..(R - 1)
        BY <2>1
      <3>. QED
        BY <2>1, <3>1, Modulo
    <2>2. CASE z = -R
      <3>1. z \in (-R)..(-1) /\ z + R = 0
        BY <2>2
      <3>. QED
        BY <3>1, Modulo
    <2>. QED
      BY <1>3, <2>1, <2>2
  <1>5. ASSUME a + 1 < R PROVE y % R = a + 1
    <2>1. \/ y \in 0..(R - 1) /\ y = a + 1
          \/ y \in (-R)..(-1) /\ y + R = a + 1
      BY <1>1, <1>2, <1>5
    <2>. HIDE DEF y
    <2>. QED
      BY <2>1, Modulo
  <1>6. m \in 0..(R - 1)
    BY <1>1
  <1>. QED
    BY <1>4, <1>5, <1>6 DEF m, a

(* An abstract table that a field is added to. *)
Added(t, nv, max) ==
    IF Room[nv] > max THEN <<>> ELSE <<nv>> \o Trim(t, Room[nv], max)

(* An abstract table has at most one field per byte. *)
LEMMA LenBound ==
    ASSUME NEW t \in Seq(Fields)
    PROVE  Len(t) \in Nat /\ Len(t) <= RoomFor(t)
  <1>1. PICK g \in [0..Len(t) -> Nat] :
           /\ \A k \in 0..Len(t) : RoomFor(SubSeq(t, 1, k)) = g[k]
           /\ \A k \in 0..Len(t) : g[k] >= k
    BY PrefixRooms
  <1>2. Len(t) \in Nat /\ Len(t) \in 0..Len(t) /\ SubSeq(t, 1, Len(t)) = t
    BY LenProperties, PrefixIs
  <1>3. g[Len(t)] \in Nat
    BY <1>2
  <1>. QED
    BY <1>1, <1>2, <1>3

(* The chains after an insertion. *)
LEMMA ChainsInserted ==
    ASSUME NEW c, CtxOk(c), MapOk(c, TRUE), NEW ent \in EntrySet,
           NEW d, d.map = hd_map_insert(c.map, ent), d.hd_table.len = c.hd_table.len + 1,
           Entries(d.hd_table)[1] = ent,
           \A i \in 1..c.hd_table.len :
             Entries(d.hd_table)[i + 1] = Entries(c.hd_table)[i],
           Age(d, ent) = 0,
           \A i \in 1..c.hd_table.len : Age(d, Entries(c.hd_table)[i]) = i
    PROVE  MapOk(d, TRUE)
  <1>. DEFINE n == c.hd_table.len
              ents == Entries(c.hd_table)
              b == Hash[ent.name]
              s == c.map[b]
              r == <<ent>> \o s
              old == {ents[i] : i \in 1..n}
              new == {Entries(d.hd_table)[i] : i \in 1..d.hd_table.len}
  <1>0. n \in Nat /\ b \in Buckets
    BY TableFacts, EntryFacts
  <1>1. d.map = [c.map EXCEPT ![b] = r] /\ c.map = [x \in Buckets |-> c.map[x]]
    BY DEF hd_map_insert, MapOk
  <1>2. ASSUME NEW x \in Buckets
        PROVE  /\ c.map[x] \in Seq(EntrySet)
               /\ {c.map[x][i] : i \in 1..Len(c.map[x])} = {y \in old : Hash[y.name] = x}
               /\ \A i, j \in 1..Len(c.map[x]) :
                    i < j => Age(c, c.map[x][i]) < Age(c, c.map[x][j])
    BY DEF MapOk, ChainsOk
  <1>3. \A y \in old : Age(d, y) = Age(c, y) + 1 /\ Age(c, y) \in Nat
    <2>1. \A i \in 1..n : Age(c, ents[i]) = i - 1
      BY DEF CtxOk
    <2>2. \A i \in 1..n : Age(d, ents[i]) = i
      OBVIOUS
    <2>. HIDE DEF ents, n
    <2>. QED
      BY <1>0, <2>1, <2>2
  <1>4. new = {ent} \cup old
    <2>1. d.hd_table.len = n + 1 /\ Entries(d.hd_table)[1] = ent
      OBVIOUS
    <2>2. \A i \in 1..n : Entries(d.hd_table)[i + 1] = ents[i] /\ i + 1 \in 1..(n + 1)
      BY <1>0
    <2>3. \A i \in 1..(n + 1) : i # 1 => i - 1 \in 1..n /\ (i - 1) + 1 = i
      BY <1>0
    <2>4. 1 \in 1..(n + 1)
      BY <1>0
    <2>. HIDE DEF ents, n
    <2>. QED
      BY <2>1, <2>2, <2>3, <2>4
  <1>5. ASSUME NEW x \in Buckets, x # b
        PROVE  /\ d.map[x] = c.map[x]
               /\ {y \in new : Hash[y.name] = x} = {y \in old : Hash[y.name] = x}
    <2>. HIDE DEF r, old, new
    <2>1. d.map[x] = c.map[x]
      BY <1>1, <1>5
    <2>2. Hash[ent.name] # x
      BY <1>5
    <2>. QED
      BY <1>4, <2>1, <2>2
  <1>6. d.map[b] = r /\ d.map = [x \in Buckets |-> d.map[x]]
    <2>. HIDE DEF r, b
    <2>. QED
      BY <1>0, <1>1
  <1>7. /\ s \in Seq(EntrySet) /\ Len(s) \in Nat
        /\ {s[i] : i \in 1..Len(s)} = {y \in old : Hash[y.name] = b}
        /\ \A i, j \in 1..Len(s) : i < j => Age(c, s[i]) < Age(c, s[j])
    <2>1. s \in Seq(EntrySet)
      BY <1>0, <1>2
    <2>. QED
      BY <1>0, <1>2, <2>1, LenProperties
  <1>8. \A i \in 1..Len(s) : Age(d, s[i]) = Age(c, s[i]) + 1 /\ Age(c, s[i]) \in Nat
    <2>. HIDE DEF s, old
    <2>. QED
      BY <1>3, <1>7
  <1>9. /\ r \in Seq(EntrySet) /\ Len(r) = Len(s) + 1
        /\ r[1] = ent /\ \A i \in 1..Len(s) : r[i + 1] = s[i]
    <2>. HIDE DEF s
    <2>. DEFINE h == <<ent>>
    <2>1. h \in Seq(EntrySet) /\ Len(h) = 1 /\ h[1] = ent
      OBVIOUS
    <2>. HIDE DEF h
    <2>2. /\ h \o s \in Seq(EntrySet) /\ Len(h \o s) = Len(h) + Len(s)
          /\ \A i \in 1..(Len(h) + Len(s)) :
               (h \o s)[i] = IF i <= Len(h) THEN h[i] ELSE s[i - Len(h)]
      BY <1>7, <2>1, ConcatProperties, ZenonT(30)
    <2>3. (h \o s)[1] = ent
      <3>1. 1 \in 1..(Len(h) + Len(s)) /\ 1 <= Len(h)
        BY <1>7, <2>1
      <3>. QED
        BY <2>1, <2>2, <3>1
    <2>4. ASSUME NEW i \in 1..Len(s) PROVE (h \o s)[i + 1] = s[i]
      <3>1. i + 1 \in 1..(Len(h) + Len(s)) /\ ~(i + 1 <= Len(h)) /\ (i + 1) - Len(h) = i
        BY <1>7, <2>1
      <3>. QED
        BY <2>2, <3>1
    <2>5. Len(h \o s) = Len(s) + 1
      BY <1>7, <2>1, <2>2
    <2>. QED
      BY <2>2, <2>3, <2>4, <2>5 DEF h
  <1>. HIDE DEF r
  <1>10. {r[i] : i \in 1..Len(r)} = {y \in new : Hash[y.name] = b}
    <2>1. {r[i] : i \in 1..Len(r)} = {ent} \cup {s[i] : i \in 1..Len(s)}
      <3>. HIDE DEF s
      <3>1. \A i \in 1..Len(r) : i # 1 => i - 1 \in 1..Len(s) /\ (i - 1) + 1 = i
        BY <1>7, <1>9
      <3>2. \A i \in 1..Len(s) : i + 1 \in 1..Len(r)
        BY <1>7, <1>9
      <3>3. 1 \in 1..Len(r)
        BY <1>7, <1>9
      <3>4. \A i \in 1..Len(r) : r[i] \in {ent} \cup {s[k] : k \in 1..Len(s)}
        <4>. SUFFICES ASSUME NEW i \in 1..Len(r)
                      PROVE  r[i] \in {ent} \cup {s[k] : k \in 1..Len(s)}
          OBVIOUS
        <4>1. CASE i = 1
          BY <1>9, <4>1
        <4>2. CASE i # 1
          <5>1. i - 1 \in 1..Len(s) /\ r[i] = s[i - 1]
            <6>1. i - 1 \in 1..Len(s) /\ (i - 1) + 1 = i
              BY <3>1, <4>2
            <6>2. r[(i - 1) + 1] = s[i - 1]
              BY <1>9, <6>1
            <6>. QED
              BY <6>1, <6>2
          <5>. QED
            BY <5>1
        <4>. QED
          BY <4>1, <4>2
      <3>5. ent \in {r[i] : i \in 1..Len(r)}
        BY <1>9, <3>3
      <3>6. \A k \in 1..Len(s) : s[k] \in {r[i] : i \in 1..Len(r)}
        BY <1>9, <3>2
      <3>. QED
        BY <3>4, <3>5, <3>6
    <2>2. Hash[ent.name] = b
      OBVIOUS
    <2>. HIDE DEF s, old, new, b
    <2>. QED
      BY <1>4, <1>7, <2>1, <2>2
  <1>11. ASSUME NEW i \in 1..Len(r), NEW j \in 1..Len(r), i < j
         PROVE  Age(d, r[i]) < Age(d, r[j])
    <2>. HIDE DEF s
    <2>1. j - 1 \in 1..Len(s) /\ r[j] = s[j - 1]
      <3>1. j - 1 \in 1..Len(s) /\ (j - 1) + 1 = j
        BY <1>7, <1>9, <1>11
      <3>. QED
        BY <1>9, <3>1
    <2>2. CASE i = 1
      BY <1>8, <1>9, <2>1, <2>2
    <2>3. CASE i # 1
      <3>1. i - 1 \in 1..Len(s) /\ (i - 1) + 1 = i /\ i - 1 < j - 1
        BY <1>7, <1>9, <1>11, <2>3
      <3>2. r[i] = s[i - 1] /\ Age(c, s[i - 1]) < Age(c, s[j - 1])
        BY <1>7, <1>9, <2>1, <3>1
      <3>. QED
        BY <1>8, <2>1, <3>1, <3>2, SMTT(30)
    <2>. QED
      BY <2>2, <2>3
  <1>12. ASSUME NEW x \in Buckets
         PROVE  /\ d.map[x] \in Seq(EntrySet)
                /\ {d.map[x][i] : i \in 1..Len(d.map[x])} = {y \in new : Hash[y.name] = x}
                /\ \A i, j \in 1..Len(d.map[x]) :
                     i < j => Age(d, d.map[x][i]) < Age(d, d.map[x][j])
    <2>1. CASE x = b
      <3>. HIDE DEF new, b
      <3>. QED
        BY <1>6, <1>9, <1>10, <1>11, <2>1, SMTT(30)
    <2>2. CASE x # b
      <3>. DEFINE u == c.map[x]
      <3>1. d.map[x] = u /\ {y \in new : Hash[y.name] = x} = {y \in old : Hash[y.name] = x}
        BY <1>5, <2>2
      <3>2. /\ u \in Seq(EntrySet)
            /\ {u[i] : i \in 1..Len(u)} = {y \in old : Hash[y.name] = x}
            /\ \A i, j \in 1..Len(u) : i < j => Age(c, u[i]) < Age(c, u[j])
        BY <1>2
      <3>. HIDE DEF u, old, new
      <3>3. \A i \in 1..Len(u) : Age(d, u[i]) = Age(c, u[i]) + 1 /\ Age(c, u[i]) \in Nat
        BY <1>3, <3>2
      <3>4. \A i, j \in 1..Len(u) : i < j => Age(d, u[i]) < Age(d, u[j])
        BY <3>2, <3>3
      <3>. QED
        BY <3>1, <3>2, <3>4
    <2>. QED
      BY <2>1, <2>2
  <1>. QED
    BY <1>6, <1>12 DEF MapOk, ChainsOk

(* add_hd_table_incremental puts the field in front of what is left. *)
LEMMA AddAdds ==
    ASSUME NEW c, NEW mapped \in BOOLEAN, Sound(c, mapped), NEW nv \in Fields
    PROVE  LET d == add_hd_table_incremental(c, nv, mapped)
           IN  /\ Sound(d, mapped)
               /\ TableOf(d) = Added(TableOf(c), nv, c.hd_table_bufsize_max)
               /\ d.hd_table_bufsize_max = c.hd_table_bufsize_max
  <1>. DEFINE room == Room[nv]
              x == Evict(c, room)
              max == c.hd_table_bufsize_max
              d == add_hd_table_incremental(c, nv, mapped)
              t == TableOf(x)
              n == x.hd_table.len
  <1>0. /\ room \in Nat /\ max \in Nat /\ max < SeqRange /\ SeqRange \in Nat \ {0}
        /\ TableOf(c) \in Seq(Fields)
    <2>1. room \in Nat
      BY FieldsAssumption
    <2>2. CtxOk(c)
      BY DEF Sound
    <2>3. max \in 0..(SeqRange - 1)
      BY <2>2 DEF CtxOk
    <2>4. TableOf(c) \in Seq(Fields) /\ SeqRange \in Nat \ {0}
      BY <2>2, TableFacts
    <2>. HIDE DEF room, max
    <2>. QED
      BY <2>1, <2>3, <2>4
  <1>1. /\ Sound(x, mapped) /\ t = Trim(TableOf(c), room, max)
        /\ x.hd_table_bufsize_max = max
    BY <1>0, EvictTrims DEF Sound
  <1>2. CASE room > max
    <2>1. d = x
      BY <1>1, <1>2 DEF add_hd_table_incremental
    <2>2. t = <<>>
      <3>. HIDE DEF t, room, max
      <3>. QED
        BY <1>0, <1>1, <1>2, TrimFacts
    <2>3. Added(TableOf(c), nv, max) = <<>>
      BY <1>2 DEF Added
    <2>. HIDE DEF d, x
    <2>. QED
      BY <1>1, <2>1, <2>2, <2>3 DEF d
  <1>3. CASE ~(room > max)
    <2>. DEFINE ent == [name |-> nv.name, value |-> nv.value, seq |-> x.next_seq]
                ring == hd_ringbuf_push_front(x.hd_table, ent)
    <2>1. /\ CtxOk(x) /\ x.next_seq \in 0..(SeqRange - 1)
          /\ x.hd_table_bufsize = RoomFor(t) /\ RingOk(x.hd_table)
      BY <1>1 DEF Sound, CtxOk
    <2>2. /\ t \in Seq(Fields) /\ Len(t) = n /\ n \in Nat
          /\ \A i \in 1..n : /\ Entries(x.hd_table)[i] \in EntrySet
                             /\ t[i] = Blank(Entries(x.hd_table)[i])
                             /\ Entries(x.hd_table)[i] = hd_ringbuf_get(x.hd_table, i - 1)
      BY <2>1, TableFacts
    <2>3. ent \in EntrySet /\ Blank(ent) = nv /\ ent.seq = x.next_seq
      BY <2>1, FieldsAssumption DEF EntrySet, Blank
    <2>4. d = [hd_table |-> ring,
               map |-> IF mapped THEN hd_map_insert(x.map, ent) ELSE x.map,
               hd_table_bufsize |-> x.hd_table_bufsize + room,
               hd_table_bufsize_max |-> max,
               next_seq |-> (x.next_seq + 1) % SeqRange]
      <3>1. d = [x EXCEPT !.hd_table = hd_ringbuf_push_front(@, ent),
                          !.map = IF mapped THEN hd_map_insert(@, ent) ELSE @,
                          !.hd_table_bufsize = @ + room,
                          !.next_seq = (@ + 1) % SeqRange]
        BY <1>1, <1>3 DEF add_hd_table_incremental
      <3>2. x = [hd_table |-> x.hd_table, map |-> x.map,
                 hd_table_bufsize |-> x.hd_table_bufsize,
                 hd_table_bufsize_max |-> x.hd_table_bufsize_max, next_seq |-> x.next_seq]
        BY <2>1 DEF CtxOk
      <3>. HIDE DEF d, x, ent
      <3>. QED
        BY <1>1, <3>1, <3>2
    <2>5. /\ RingOk(ring) /\ ring.len = n + 1 /\ hd_ringbuf_get(ring, 0) = ent
          /\ \A i \in 0..(n - 1) : hd_ringbuf_get(ring, i + 1) = hd_ringbuf_get(x.hd_table, i)
      <3>. HIDE DEF ent, x
      <3>. QED
        BY <2>1, <2>3, PushFront
    <2>. HIDE DEF d, x, ring, ent
    <2>6. /\ d.hd_table = ring
          /\ d.map = IF mapped THEN hd_map_insert(x.map, ent) ELSE x.map
          /\ d.hd_table_bufsize = x.hd_table_bufsize + room
          /\ d.hd_table_bufsize_max = max
          /\ d.next_seq = (x.next_seq + 1) % SeqRange
          /\ d = [hd_table |-> d.hd_table, map |-> d.map,
                  hd_table_bufsize |-> d.hd_table_bufsize,
                  hd_table_bufsize_max |-> d.hd_table_bufsize_max, next_seq |-> d.next_seq]
      BY <2>4
    <2>. DEFINE e == Entries(ring)
    <2>7. /\ DOMAIN e = 1..(n + 1) /\ e[1] = ent
          /\ \A i \in 1..n : e[i + 1] = Entries(x.hd_table)[i]
      <3>1. /\ DOMAIN e = 1..(n + 1)
            /\ \A i \in 1..(n + 1) : e[i] = hd_ringbuf_get(ring, i - 1)
        BY <2>5, EntriesFacts
      <3>2. 1 \in 1..(n + 1) /\ 1 - 1 = 0
        BY <2>2
      <3>3. e[1] = ent
        BY <2>5, <3>1, <3>2
      <3>4. ASSUME NEW i \in 1..n PROVE e[i + 1] = Entries(x.hd_table)[i]
        <4>1. i + 1 \in 1..(n + 1) /\ (i + 1) - 1 = i /\ i - 1 \in 0..(n - 1) /\ (i - 1) + 1 = i
          BY <2>2
        <4>2. e[i + 1] = hd_ringbuf_get(ring, i)
          BY <3>1, <4>1
        <4>3. hd_ringbuf_get(ring, (i - 1) + 1) = hd_ringbuf_get(x.hd_table, i - 1)
          BY <2>5, <4>1
        <4>. QED
          BY <2>2, <4>1, <4>2, <4>3
      <3>. QED
        BY <3>1, <3>3, <3>4
    <2>. HIDE DEF e
    <2>8. TableOf(d) = <<nv>> \o t
      <3>. DEFINE h == <<nv>>
      <3>1. h \in Seq(Fields) /\ Len(h) = 1 /\ h[1] = nv
        OBVIOUS
      <3>2. TableOf(d) = [i \in 1..(n + 1) |-> Blank(e[i])]
        BY <2>6, <2>7 DEF TableOf, e
      <3>. HIDE DEF h, t, n
      <3>3. /\ h \o t \in Seq(Fields) /\ Len(h \o t) = n + 1
            /\ \A i \in 1..(Len(h) + Len(t)) :
                 (h \o t)[i] = IF i <= Len(h) THEN h[i] ELSE t[i - Len(h)]
        <4>1. /\ h \o t \in Seq(Fields) /\ Len(h \o t) = Len(h) + Len(t)
              /\ \A i \in 1..(Len(h) + Len(t)) :
                   (h \o t)[i] = IF i <= Len(h) THEN h[i] ELSE t[i - Len(h)]
          BY <2>2, <3>1, ConcatProperties
        <4>. QED
          BY <2>2, <3>1, <4>1
      <3>4. \A i \in 1..(n + 1) : (h \o t)[i] = Blank(e[i])
        <4>. SUFFICES ASSUME NEW i \in 1..(n + 1) PROVE (h \o t)[i] = Blank(e[i])
          OBVIOUS
        <4>0. i \in 1..(Len(h) + Len(t))
          BY <2>2, <3>1
        <4>1. CASE i = 1
          BY <2>3, <2>7, <3>1, <3>3, <4>0, <4>1
        <4>2. CASE i # 1
          <5>1. i - 1 \in 1..n /\ (i - 1) + 1 = i /\ ~(i <= Len(h)) /\ i - Len(h) = i - 1
            BY <2>2, <3>1, <4>2
          <5>2. (h \o t)[i] = t[i - 1]
            BY <3>3, <4>0, <5>1
          <5>3. e[i] = Entries(x.hd_table)[i - 1]
            <6>1. e[(i - 1) + 1] = Entries(x.hd_table)[i - 1]
              BY <2>7, <5>1
            <6>. QED
              BY <5>1, <6>1
          <5>. QED
            BY <2>2, <5>1, <5>2, <5>3
        <4>. QED
          BY <4>1, <4>2
      <3>. DEFINE q == h \o t
      <3>5. q = [i \in 1..(n + 1) |-> q[i]]
        <4>. HIDE DEF q
        <4>1. q \in Seq(Fields) /\ Len(q) = n + 1
          BY <3>3 DEF q
        <4>. QED
          BY <4>1
      <3>6. \A i \in 1..(n + 1) : q[i] = Blank(e[i])
        BY <3>4
      <3>. HIDE DEF q
      <3>7. TableOf(d) = q
        BY <3>2, <3>5, <3>6
      <3>. QED
        BY <3>7 DEF q, h
    <2>9. TableOf(d) = Added(TableOf(c), nv, max)
      BY <1>1, <1>3, <2>8 DEF Added
    <2>10. /\ <<nv>> \o t \in Seq(Fields) /\ RoomFor(<<nv>> \o t) = room + RoomFor(t)
           /\ RoomFor(t) \in Nat /\ RoomFor(t) + room <= max
      <3>1. Weight(Room, <<nv>> \o t) = Room[nv] + Weight(Room, t)
            /\ <<nv>> \o t \in Seq(Fields)
        <4>. HIDE DEF t
        <4>. QED
          BY <2>2, FieldsAssumption, WeightPush
      <3>2. RoomFor(t) \in Nat
        BY <2>2, RoomType
      <3>3. RoomFor(t) + room <= max
        <4>1. room <= max
          <5>. HIDE DEF room, max
          <5>. QED
            BY <1>0, <1>3
        <4>. HIDE DEF t, room, max
        <4>. QED
          BY <1>0, <1>1, <4>1, TrimFacts
      <3>. QED
        BY <3>1, <3>2, <3>3 DEF RoomFor
    <2>11. /\ d.hd_table_bufsize = RoomFor(TableOf(d)) /\ d.hd_table_bufsize <= max
           /\ d.hd_table_bufsize < SeqRange /\ n + 1 < SeqRange
      <3>. DEFINE u == <<nv>> \o t
      <3>1. d.hd_table_bufsize = RoomFor(t) + room /\ RoomFor(TableOf(d)) = room + RoomFor(t)
        BY <2>1, <2>6, <2>8, <2>10
      <3>2. n + 1 <= RoomFor(u)
        <4>1. Len(u) <= RoomFor(u)
          BY <2>10, LenBound
        <4>2. Len(u) = n + 1
          <5>. HIDE DEF t, n
          <5>1. <<nv>> \in Seq(Fields) /\ Len(<<nv>>) = 1
            OBVIOUS
          <5>2. Len(u) = Len(<<nv>>) + Len(t)
            BY <2>2, <5>1, ConcatProperties
          <5>. QED
            BY <2>2, <5>1, <5>2
        <4>. QED
          BY <4>1, <4>2
      <3>3. RoomFor(u) = room + RoomFor(t)
        BY <2>10
      <3>. HIDE DEF u, room, max, t, n
      <3>. QED
        BY <1>0, <2>2, <2>10, <3>1, <3>2, <3>3
    <2>12. /\ d.next_seq \in 0..(SeqRange - 1) /\ Age(d, ent) = 0
           /\ \A i \in 1..n : Age(d, Entries(x.hd_table)[i]) = i
      <3>1. Age(d, ent) = (((x.next_seq + 1) % SeqRange) - 1 - x.next_seq) % SeqRange
        BY <2>3, <2>6 DEF Age
      <3>2. d.next_seq \in 0..(SeqRange - 1) /\ Age(d, ent) = 0
        BY <1>0, <2>1, <2>6, <3>1, Older
      <3>3. ASSUME NEW i \in 1..n PROVE Age(d, Entries(x.hd_table)[i]) = i
        <4>. DEFINE s == Entries(x.hd_table)[i].seq
        <4>1. s \in 0..(SeqRange - 1)
          BY <2>2, EntryFacts
        <4>2. (x.next_seq - 1 - s) % SeqRange = i - 1
          BY <2>1 DEF CtxOk, Age
        <4>3. Age(d, Entries(x.hd_table)[i]) = (((x.next_seq + 1) % SeqRange) - 1 - s) % SeqRange
          BY <2>6 DEF Age
        <4>4. i - 1 + 1 < SeqRange /\ i - 1 + 1 = i
          BY <1>0, <2>2, <2>11
        <4>. HIDE DEF s
        <4>5. ((x.next_seq - 1 - s) % SeqRange) + 1 < SeqRange
          BY <4>2, <4>4
        <4>6. (((x.next_seq + 1) % SeqRange) - 1 - s) % SeqRange
                = ((x.next_seq - 1 - s) % SeqRange) + 1
          BY <1>0, <2>1, <4>1, <4>5, Older
        <4>. QED
          BY <4>2, <4>3, <4>4, <4>6
      <3>. QED
        BY <3>2, <3>3
    <2>13. \A i \in 1..(n + 1) : Age(d, e[i]) = i - 1
      <3>. SUFFICES ASSUME NEW i \in 1..(n + 1) PROVE Age(d, e[i]) = i - 1
        OBVIOUS
      <3>1. CASE i = 1
        BY <2>7, <2>12, <3>1
      <3>2. CASE i # 1
        <4>1. i - 1 \in 1..n /\ (i - 1) + 1 = i
          BY <2>2, <3>2
        <4>2. e[(i - 1) + 1] = Entries(x.hd_table)[i - 1]
          BY <2>7, <4>1
        <4>. QED
          BY <2>12, <4>1, <4>2
      <3>. QED
        BY <3>1, <3>2
    <2>14. CtxOk(d)
      <3>1. max \in 0..(SeqRange - 1)
        BY <1>1, <2>1 DEF CtxOk
      <3>2. \A i \in 1..d.hd_table.len : Age(d, Entries(d.hd_table)[i]) = i - 1
        BY <2>5, <2>6, <2>13 DEF e
      <3>. QED
        BY <2>5, <2>6, <2>11, <2>12, <3>1, <3>2 DEF CtxOk
    <2>15. MapOk(d, mapped)
      <3>1. MapOk(x, mapped)
        BY <1>1 DEF Sound
      <3>2. CASE mapped
        <4>1. d.map = hd_map_insert(x.map, ent) /\ MapOk(x, TRUE)
          BY <2>6, <3>1, <3>2
        <4>2. d.hd_table.len = x.hd_table.len + 1
          BY <2>5, <2>6
        <4>3. Entries(d.hd_table)[1] = ent
          BY <2>6, <2>7 DEF e
        <4>4. \A i \in 1..x.hd_table.len : Entries(d.hd_table)[i + 1] = Entries(x.hd_table)[i]
          BY <2>6, <2>7 DEF e
        <4>5. \A i \in 1..x.hd_table.len : Age(d, Entries(x.hd_table)[i]) = i
          BY <2>12
        <4>6. MapOk(d, TRUE)
          <5>. HIDE DEF n
          <5>. QED
            BY <2>1, <2>3, <2>12, <4>1, <4>2, <4>3, <4>4, <4>5, ChainsInserted
        <4>. QED
          BY <3>2, <4>6
      <3>3. CASE ~mapped
        BY <2>6, <3>1, <3>3 DEF MapOk
      <3>. QED
        BY <3>2, <3>3
    <2>. QED
      BY <2>6, <2>9, <2>11, <2>14, <2>15 DEF Sound, d
  <1>. QED
    BY <1>2, <1>3

(* A new limit trims the table. *)
LEMMA ShrinkTrims ==
    ASSUME NEW c, NEW mapped, Sound(c, mapped), NEW max \in 0..(SeqRange - 1)
    PROVE  LET d == hd_context_shrink_table_size([c EXCEPT !.hd_table_bufsize_max = max])
           IN  /\ Sound(d, mapped) /\ TableOf(d) = Trim(TableOf(c), 0, max)
               /\ d.hd_table_bufsize_max = max
  <1>. DEFINE x == [c EXCEPT !.hd_table_bufsize_max = max]
  <1>1. CtxOk(c) /\ MapOk(c, mapped)
    BY DEF Sound
  <1>2. x = [hd_table |-> c.hd_table, map |-> c.map, hd_table_bufsize |-> c.hd_table_bufsize,
             hd_table_bufsize_max |-> max, next_seq |-> c.next_seq]
    BY <1>1 DEF CtxOk
  <1>. HIDE DEF x
  <1>3. /\ x.hd_table = c.hd_table /\ x.map = c.map /\ x.next_seq = c.next_seq
        /\ x.hd_table_bufsize = c.hd_table_bufsize /\ x.hd_table_bufsize_max = max
        /\ x = [hd_table |-> x.hd_table, map |-> x.map,
                hd_table_bufsize |-> x.hd_table_bufsize,
                hd_table_bufsize_max |-> x.hd_table_bufsize_max, next_seq |-> x.next_seq]
    BY <1>2
  <1>4. TableOf(x) = TableOf(c) /\ \A e : Age(x, e) = Age(c, e)
    BY <1>3 DEF TableOf, Age
  <1>5. CtxOk(x)
    BY <1>1, <1>3, <1>4 DEF CtxOk
  <1>6. MapOk(x, mapped)
    <2>1. ASSUME ChainsOk(c), NEW b \in Buckets
          PROVE  /\ x.map[b] \in Seq(EntrySet)
                 /\ {x.map[b][i] : i \in 1..Len(x.map[b])}
                      = {e \in {Entries(x.hd_table)[i] : i \in 1..x.hd_table.len} :
                           Hash[e.name] = b}
                 /\ \A i, j \in 1..Len(x.map[b]) :
                      i < j => Age(x, x.map[b][i]) < Age(x, x.map[b][j])
      BY <1>3, <1>4, <2>1 DEF ChainsOk
    <2>2. ChainsOk(c) => ChainsOk(x)
      BY <2>1 DEF ChainsOk
    <2>. QED
      BY <1>1, <1>3, <2>2 DEF MapOk
  <1>7. 0 \in Nat
    OBVIOUS
  <1>8. /\ Sound(Evict(x, 0), mapped)
        /\ TableOf(Evict(x, 0)) = Trim(TableOf(x), 0, x.hd_table_bufsize_max)
        /\ Evict(x, 0).hd_table_bufsize_max = x.hd_table_bufsize_max
    BY <1>5, <1>6, <1>7, EvictTrims
  <1>. QED
    BY <1>3, <1>4, <1>8 DEF hd_context_shrink_table_size, x

(* The context both sides begin with. *)
LEMMA InitSound ==
    ASSUME NEW mapped, NEW max \in 0..(SeqRange - 1),
           NEW c, c = [hd_context_init EXCEPT !.hd_table_bufsize_max = max]
    PROVE  Sound(c, mapped) /\ TableOf(c) = <<>> /\ c.hd_table_bufsize_max = max
  <1>. DEFINE w == DefaultMax \div Overhead
              ring == hd_ringbuf_init(w)
  <1>0. SeqRange \in Nat \ {0} /\ DefaultMax \in Nat /\ Overhead \in Nat \ {0}
    <2>1. SeqRange \in Nat /\ DefaultMax \in 0..(SeqRange - 1)
      BY SizesAssumption
    <2>2. Overhead \in Nat \ {0}
      BY FieldsAssumption
    <2>. QED
      BY <2>1, <2>2
  <1>1. w \in Nat
    BY <1>0
  <1>2. RingOk(ring) /\ ring.len = 0
    <2>. HIDE DEF w
    <2>. QED
      BY <1>1, RingInit
  <1>. HIDE DEF ring
  <1>3. c = [hd_table |-> ring, map |-> [b \in Buckets |-> <<>>], hd_table_bufsize |-> 0,
             hd_table_bufsize_max |-> max, next_seq |-> 0]
    BY DEF hd_context_init, ring
  <1>4. Entries(ring) = <<>>
    <2>1. Entries(ring) \in Seq(EntrySet) /\ Len(Entries(ring)) = 0
      BY <1>2, EntriesFacts
    <2>. QED
      BY <2>1, EmptySeq
  <1>5. TableOf(c) = <<>>
    <2>1. DOMAIN Entries(ring) = {} /\ c.hd_table = ring
      <3>1. DOMAIN Entries(ring) = 1..0
        BY <1>2, EntriesFacts
      <3>. QED
        BY <1>3, <3>1
    <2>. DEFINE t == TableOf(c)
    <2>2. t = [i \in {} |-> Blank(Entries(ring)[i])]
      BY <2>1 DEF TableOf
    <2>3. t \in [1..0 -> Fields]
      BY <2>2
    <2>. HIDE DEF t
    <2>4. t \in Seq(Fields) /\ Len(t) = 0
      BY <2>3
    <2>5. t = <<>>
      BY <2>4, EmptySeq
    <2>. QED
      BY <2>5 DEF t
  <1>6. RoomFor(<<>>) = 0
    BY WeightEmpty, FieldsAssumption DEF RoomFor
  <1>7. CtxOk(c)
    <2>1. 1..c.hd_table.len = {}
      BY <1>2, <1>3
    <2>2. /\ c.hd_table = ring /\ c.hd_table_bufsize = 0 /\ c.next_seq = 0
          /\ c.hd_table_bufsize_max = max
          /\ c = [hd_table |-> c.hd_table, map |-> c.map,
                  hd_table_bufsize |-> c.hd_table_bufsize,
                  hd_table_bufsize_max |-> c.hd_table_bufsize_max, next_seq |-> c.next_seq]
      <3>. DEFINE none == [b \in Buckets |-> <<>>]
      <3>1. c = [hd_table |-> ring, map |-> none, hd_table_bufsize |-> 0,
                 hd_table_bufsize_max |-> max, next_seq |-> 0]
        BY <1>3
      <3>. HIDE DEF none
      <3>2. c.hd_table = ring /\ c.map = none /\ c.hd_table_bufsize = 0
        BY <3>1
      <3>3. c.next_seq = 0 /\ c.hd_table_bufsize_max = max
        BY <3>1
      <3>. QED
        BY <3>1, <3>2, <3>3
    <2>3. 0 \in 0..(SeqRange - 1) /\ 0 < SeqRange
      BY <1>0
    <2>4. \A i \in 1..c.hd_table.len : Age(c, Entries(c.hd_table)[i]) = i - 1
      BY <2>1
    <2>. QED
      BY <1>2, <1>5, <1>6, <2>2, <2>3, <2>4 DEF CtxOk
  <1>8. MapOk(c, mapped)
    <2>1. \A b \in Buckets : c.map[b] = <<>>
      BY <1>3
    <2>2. <<>> \in Seq(EntrySet) /\ Len(<<>>) = 0
      BY EmptySeq
    <2>3. 1..0 = {}
      OBVIOUS
    <2>4. c.map = [b \in Buckets |-> c.map[b]] /\ c.hd_table.len = 0
      BY <1>2, <1>3
    <2>5. ChainsOk(c)
      BY <2>1, <2>2, <2>3, <2>4 DEF ChainsOk
    <2>. QED
      BY <2>1, <2>4, <2>5 DEF MapOk
  <1>9. c.hd_table_bufsize <= c.hd_table_bufsize_max /\ c.hd_table_bufsize_max = max
    BY <1>0, <1>3
  <1>. QED
    BY <1>5, <1>7, <1>8, <1>9 DEF Sound

-----------------------------------------------------------------------------
(* From a field to an index, and back *)

(* The field that an index names. *)
FieldAt(t, i) == IF i < Len(Static) THEN Static[i + 1] ELSE t[i - Len(Static) + 1]

(* The indices of a table of n fields. *)
Indices(n) == 0..(Len(Static) + n - 1)

(* The static table is a sequence of fields. *)
LEMMA StaticFacts ==
    /\ Len(Static) \in Nat /\ DOMAIN Static = 1..Len(Static)
    /\ \A i \in 1..Len(Static) : Static[i] \in Fields
  <1>1. Static \in Seq(Fields)
    BY FieldsAssumption
  <1>. QED
    BY <1>1, LenProperties, ElementOfSeq

(* nghttp2_hd_table_get reads the field an index names. *)
LEMMA TableGet ==
    ASSUME NEW c, CtxOk(c), NEW i \in Indices(c.hd_table.len)
    PROVE  /\ hd_table_get(c, i).name = FieldAt(TableOf(c), i).name
           /\ hd_table_get(c, i).value = FieldAt(TableOf(c), i).value
  <1>0. /\ c.hd_table.len \in Nat /\ Len(Static) \in Nat
        /\ \A k \in 1..c.hd_table.len :
             /\ TableOf(c)[k] = Blank(hd_ringbuf_get(c.hd_table, k - 1))
    BY TableFacts
  <1>1. CASE i < Len(Static)
    <2>1. ~(i >= Len(Static))
      BY <1>0, <1>1 DEF Indices
    <2>2. hd_table_get(c, i) = Static[i + 1]
      BY <2>1 DEF hd_table_get
    <2>. QED
      BY <1>1, <2>2 DEF FieldAt
  <1>2. CASE ~(i < Len(Static))
    <2>. DEFINE k == i - Len(Static) + 1
    <2>1. k \in 1..c.hd_table.len /\ k - 1 = i - Len(Static) /\ i >= Len(Static)
      BY <1>0, <1>2 DEF Indices
    <2>2. hd_table_get(c, i) = hd_ringbuf_get(c.hd_table, k - 1)
      BY <2>1 DEF hd_table_get
    <2>3. FieldAt(TableOf(c), i) = Blank(hd_table_get(c, i))
      BY <1>0, <1>2, <2>1, <2>2 DEF FieldAt
    <2>. QED
      BY <2>3 DEF Blank
  <1>. QED
    BY <1>1, <1>2

(* What a search comes back with: nothing, a name, or the field itself. *)
Finds(r, t, nv) ==
    /\ r = [index |-> r.index, match |-> r.match] /\ r.match \in BOOLEAN
    /\ r.match => r.index \in Indices(Len(t)) /\ FieldAt(t, r.index) = nv
    /\ ~r.match => \/ r.index = -1
                   \/ r.index \in Indices(Len(t)) /\ FieldAt(t, r.index).name = nv.name

(* What search_static_table returns names the field, or its name. *)
LEMMA StaticSearch ==
    ASSUME NEW t \in Seq(Fields), NEW nv, NEW name_only \in BOOLEAN,
           \E i \in DOMAIN Static : Static[i].name = nv.name
    PROVE  Finds(search_static_table(nv, name_only), t, nv)
  <1>. DEFINE first == CHOOSE i \in DOMAIN Static :
                         /\ Static[i].name = nv.name
                         /\ \A k \in 1..(i - 1) : Static[k].name # nv.name
              match == {i \in DOMAIN Static : Static[i] = nv}
              named == {i \in DOMAIN Static : Static[i].name = nv.name}
  <1>0. Len(Static) \in Nat /\ DOMAIN Static = 1..Len(Static) /\ Len(t) \in Nat
    BY StaticFacts, LenProperties
  <1>1. ASSUME NEW i \in 1..Len(Static)
        PROVE  i - 1 \in Indices(Len(t)) /\ FieldAt(t, i - 1) = Static[i]
    <2>1. i - 1 < Len(Static) /\ (i - 1) + 1 = i /\ i - 1 \in Indices(Len(t))
      BY <1>0 DEF Indices
    <2>. QED
      BY <2>1 DEF FieldAt
  <1>2. Min(named) \in named /\ \A k \in named : Min(named) <= k
    <2>1. named \in SUBSET Nat /\ named # {}
      BY <1>0
    <2>. HIDE DEF named
    <2>. QED
      BY <2>1, MinOfNat
  <1>3. first \in 1..Len(Static) /\ Static[first].name = nv.name
    <2>. DEFINE m == Min(named)
    <2>1. m \in 1..Len(Static) /\ Static[m].name = nv.name
      BY <1>0, <1>2
    <2>2. \A k \in 1..(m - 1) : Static[k].name # nv.name
      <3>. SUFFICES ASSUME NEW k \in 1..(m - 1), Static[k].name = nv.name PROVE FALSE
        OBVIOUS
      <3>1. k \in DOMAIN Static /\ k < m
        <4>. HIDE DEF m
        <4>. QED
          BY <1>0, <2>1
      <3>2. k \in named
        BY <3>1
      <3>3. m <= k
        <4>. HIDE DEF named
        <4>. QED
          BY <1>2, <3>2
      <3>. HIDE DEF m
      <3>. QED
        BY <2>1, <3>1, <3>3
    <2>. HIDE DEF m
    <2>. QED
      BY <1>0, <2>1, <2>2
  <1>4. CASE name_only \/ match = {}
    <2>1. search_static_table(nv, name_only) = [index |-> first - 1, match |-> FALSE]
      BY <1>4 DEF search_static_table
    <2>. HIDE DEF first
    <2>. QED
      BY <1>1, <1>3, <2>1 DEF Finds
  <1>5. CASE ~(name_only \/ match = {})
    <2>1. search_static_table(nv, name_only) = [index |-> Min(match) - 1, match |-> TRUE]
      BY <1>5 DEF search_static_table
    <2>2. Min(match) \in match
      <3>1. match \in SUBSET Nat /\ match # {}
        BY <1>0, <1>5
      <3>. HIDE DEF match
      <3>. QED
        BY <3>1, MinOfNat
    <2>. DEFINE m == Min(match)
    <2>3. m \in 1..Len(Static) /\ Static[m] = nv
      BY <1>0, <2>2
    <2>. HIDE DEF m
    <2>. QED
      BY <1>1, <2>1, <2>3 DEF Finds, m
  <1>. QED
    BY <1>4, <1>5

(* The map leads to an entry of the table that has the name, or the field. *)
LEMMA MapFind ==
    ASSUME NEW c, Sound(c, TRUE), NEW nv \in Fields, NEW name_only \in BOOLEAN
    PROVE  LET r == hd_map_find(c.map, nv, name_only)
           IN  /\ r.exact \in BOOLEAN
               /\ \/ r.ent = Freed /\ ~r.exact
                  \/ \E i \in 1..c.hd_table.len :
                       /\ r.ent = Entries(c.hd_table)[i] /\ r.ent # Freed
                       /\ r.ent.name = nv.name
                       /\ r.exact => r.ent.value = nv.value
  <1>. DEFINE ents == Entries(c.hd_table)
              n == c.hd_table.len
              b == Hash[nv.name]
              chain == c.map[b]
              named == {i \in DOMAIN chain : chain[i].name = nv.name}
              exact == {i \in named : chain[i].value = nv.value}
              r == hd_map_find(c.map, nv, name_only)
  <1>1. b \in Buckets
    BY FieldsAssumption DEF Buckets
  <1>2. CtxOk(c) /\ ChainsOk(c)
    BY DEF Sound, MapOk
  <1>3. /\ chain \in Seq(EntrySet)
        /\ {chain[i] : i \in 1..Len(chain)} = {e \in {ents[i] : i \in 1..n} : Hash[e.name] = b}
    BY <1>1, <1>2 DEF ChainsOk
  <1>4. \A i \in 1..n : ents[i] \in EntrySet
    BY <1>2, TableFacts
  <1>5. r = CASE named = {} -> [ent |-> Freed, exact |-> FALSE]
              [] named # {} /\ (name_only \/ exact = {}) ->
                   [ent |-> chain[Min(named)], exact |-> FALSE]
              [] OTHER -> [ent |-> chain[Min(exact)], exact |-> TRUE]
    BY DEF hd_map_find
  <1>. HIDE DEF r, ents, n, b, chain
  <1>6. DOMAIN chain = 1..Len(chain) /\ Len(chain) \in Nat
    BY <1>3, LenProperties
  <1>7. named \in SUBSET Nat /\ exact \in SUBSET Nat
    BY <1>6
  <1>8. ASSUME NEW k \in DOMAIN chain
        PROVE  \E i \in 1..n : chain[k] = ents[i] /\ chain[k] # Freed
    <2>1. chain[k] \in {ents[i] : i \in 1..n}
      BY <1>3, <1>6
    <2>2. PICK i \in 1..n : chain[k] = ents[i]
      BY <2>1
    <2>. QED
      BY <1>4, <2>2, EntryFacts
  <1>9. CASE named = {}
    BY <1>5, <1>9 DEF r
  <1>10. CASE named # {} /\ (name_only \/ exact = {})
    <2>. DEFINE m == Min(named)
    <2>1. m \in named
      <3>. HIDE DEF named
      <3>. QED
        BY <1>7, <1>10, MinOfNat
    <2>2. m \in DOMAIN chain /\ chain[m].name = nv.name
      BY <2>1
    <2>3. r = [ent |-> chain[m], exact |-> FALSE]
      <3>. HIDE DEF named, exact
      <3>. QED
        BY <1>5, <1>10 DEF m
    <2>. HIDE DEF m, named, exact
    <2>4. r.ent = chain[m] /\ r.exact = FALSE
      BY <2>3
    <2>5. PICK i \in 1..n : chain[m] = ents[i] /\ chain[m] # Freed
      BY <1>8, <2>2
    <2>. QED
      BY <2>2, <2>4, <2>5 DEF r, ents, n
  <1>11. CASE named # {} /\ ~(name_only \/ exact = {})
    <2>. DEFINE m == Min(exact)
    <2>1. m \in exact
      <3>. HIDE DEF exact
      <3>. QED
        BY <1>7, <1>11, MinOfNat
    <2>2. m \in DOMAIN chain /\ chain[m].name = nv.name /\ chain[m].value = nv.value
      BY <2>1
    <2>3. r = [ent |-> chain[m], exact |-> TRUE]
      <3>. HIDE DEF named, exact
      <3>. QED
        BY <1>5, <1>11 DEF m
    <2>. HIDE DEF m, named, exact
    <2>4. r.ent = chain[m] /\ r.exact = TRUE
      BY <2>3
    <2>5. PICK i \in 1..n : chain[m] = ents[i] /\ chain[m] # Freed
      BY <1>8, <2>2
    <2>. QED
      BY <2>2, <2>4, <2>5 DEF r, ents, n
  <1>. QED
    BY <1>9, <1>10, <1>11

(* What search_hd_table returns names the field, or its name, or nothing. *)
LEMMA Search ==
    ASSUME NEW c, Sound(c, TRUE), NEW nv \in Fields, NEW name_only \in BOOLEAN
    PROVE  Finds(search_hd_table(c, nv, name_only), TableOf(c), nv)
  <1>. DEFINE r == hd_map_find(c.map, nv, name_only)
              t == TableOf(c)
              n == c.hd_table.len
              static == \E i \in DOMAIN Static : Static[i].name = nv.name
              s == search_hd_table(c, nv, name_only)
  <1>0. CtxOk(c)
    BY DEF Sound
  <1>1. /\ t \in Seq(Fields) /\ Len(t) = n /\ n \in Nat /\ Len(Static) \in Nat
        /\ \A i \in 1..n : /\ t[i] = Blank(Entries(c.hd_table)[i])
                           /\ IndexOf(c, Entries(c.hd_table)[i]) = Len(Static) + i - 1
    BY <1>0, TableFacts
  <1>2. /\ r.exact \in BOOLEAN
        /\ \/ r.ent = Freed /\ ~r.exact
           \/ \E i \in 1..n :
                /\ r.ent = Entries(c.hd_table)[i] /\ r.ent # Freed
                /\ r.ent.name = nv.name
                /\ r.exact => r.ent.value = nv.value
    BY MapFind
  <1>3. s = CASE ~r.exact /\ static -> search_static_table(nv, name_only)
              [] r.exact -> [index |-> IndexOf(c, r.ent), match |-> TRUE]
              [] OTHER -> [index |-> IF r.ent = Freed THEN -1 ELSE IndexOf(c, r.ent),
                           match |-> FALSE]
    BY DEF search_hd_table
  <1>4. Blank(nv) = nv
    BY FieldsAssumption
  <1>. HIDE DEF r, s
  <1>5. ASSUME r.ent # Freed
        PROVE  /\ IndexOf(c, r.ent) \in Indices(Len(t))
               /\ FieldAt(t, IndexOf(c, r.ent)).name = nv.name
               /\ r.exact => FieldAt(t, IndexOf(c, r.ent)) = nv
    <2>1. PICK i \in 1..n : /\ r.ent = Entries(c.hd_table)[i]
                            /\ r.ent.name = nv.name
                            /\ r.exact => r.ent.value = nv.value
      BY <1>2, <1>5
    <2>2. IndexOf(c, r.ent) = Len(Static) + i - 1 /\ t[i] = Blank(r.ent)
      BY <1>1, <2>1
    <2>. DEFINE k == Len(Static) + i - 1
    <2>. HIDE DEF t, n
    <2>3. k \in Indices(Len(t)) /\ ~(k < Len(Static)) /\ k - Len(Static) + 1 = i
      BY <1>1 DEF Indices
    <2>4. FieldAt(t, k) = Blank(r.ent)
      BY <2>2, <2>3 DEF FieldAt
    <2>5. Blank(r.ent).name = nv.name
      BY <2>1 DEF Blank
    <2>6. r.exact => Blank(r.ent) = nv
      BY <1>4, <2>1 DEF Blank
    <2>. QED
      BY <2>2, <2>3, <2>4, <2>5, <2>6
  <1>6. CASE ~r.exact /\ static
    <2>1. s = search_static_table(nv, name_only)
      BY <1>3, <1>6
    <2>2. Finds(search_static_table(nv, name_only), t, nv)
      <3>. HIDE DEF t
      <3>. QED
        BY <1>1, <1>6, StaticSearch
    <2>. QED
      BY <2>1, <2>2 DEF s
  <1>7. CASE r.exact
    <2>1. s = [index |-> IndexOf(c, r.ent), match |-> TRUE]
      BY <1>3, <1>7
    <2>2. r.ent # Freed
      BY <1>2, <1>7
    <2>. HIDE DEF t
    <2>3. Finds(s, t, nv)
      BY <1>5, <1>7, <2>1, <2>2 DEF Finds
    <2>. QED
      BY <2>3 DEF s, t
  <1>8. CASE ~r.exact /\ ~static
    <2>1. s = [index |-> IF r.ent = Freed THEN -1 ELSE IndexOf(c, r.ent), match |-> FALSE]
      BY <1>3, <1>8
    <2>. HIDE DEF t
    <2>2. Finds(s, t, nv)
      BY <1>5, <2>1 DEF Finds
    <2>. QED
      BY <2>2 DEF s, t
  <1>. QED
    BY <1>2, <1>6, <1>7, <1>8

-----------------------------------------------------------------------------
(* The two sides of one block *)

(* The sizes a table can be given. *)
Sizes == 0..(SeqRange - 1)

(* A sound deflater. *)
DeflaterOk(D) ==
    /\ D = [ctx |-> D.ctx, deflate_max |-> D.deflate_max, min |-> D.min,
            notify |-> D.notify]
    /\ Sound(D.ctx, TRUE) /\ D.deflate_max \in Sizes
    /\ D.ctx.hd_table_bufsize_max <= D.deflate_max
    /\ D.min \in Sizes \cup {NoLimit} /\ D.notify \in BOOLEAN

(* A sound inflater. *)
InflaterOk(I) ==
    /\ I = [ctx |-> I.ctx, settings |-> I.settings, min |-> I.min,
            state |-> I.state, bad |-> FALSE]
    /\ Sound(I.ctx, FALSE) /\ I.settings \in Sizes
    /\ I.min \in Sizes \cup {NoLimit}
    /\ I.state \in {"START", "OPCODE", "EXPECT_TABLE_SIZE"}

(* The representations a block is made of. *)
Reprs ==
    [op : {"size"}, size : Sizes]
    \cup [op : {"indexed"}, index : Nat]
    \cup [op : {"indname", "newname"}, index : Int, nv : Fields,
          mode : {"never", "without", "with"}]

(* The tables of the two are the same, and bounded by the same size. *)
SameTables(D, I) ==
    /\ TableOf(D.ctx) = TableOf(I.ctx)
    /\ D.ctx.hd_table_bufsize_max = I.ctx.hd_table_bufsize_max

(* What representing one field leaves behind. *)
LEMMA FieldEncoded ==
    ASSUME NEW D, DeflaterOk(D), NEW nv \in Fields
    PROVE  LET x == deflate_nv(D, nv)
           IN  /\ DeflaterOk(x.D) /\ x.repr \in Reprs /\ x.repr.op # "size"
               /\ x.D.min = D.min /\ x.D.notify = D.notify /\ x.D.deflate_max = D.deflate_max
               /\ x.D.ctx.hd_table_bufsize_max = D.ctx.hd_table_bufsize_max
               /\ x.repr.op # "newname" =>
                    x.repr.index \in Indices(Len(TableOf(D.ctx)))
               /\ x.repr.op = "newname" => x.repr.index = -1
               /\ x.repr.op = "indexed" =>
                    /\ FieldAt(TableOf(D.ctx), x.repr.index) = nv
                    /\ x.D = D
               /\ x.repr.op = "indname" =>
                    FieldAt(TableOf(D.ctx), x.repr.index).name = nv.name
               /\ x.repr.op # "indexed" =>
                    /\ x.repr.nv = nv
                    /\ TableOf(x.D.ctx) =
                         IF x.repr.mode = "with"
                         THEN Added(TableOf(D.ctx), nv, D.ctx.hd_table_bufsize_max)
                         ELSE TableOf(D.ctx)
  <1>. DEFINE mode == hd_deflate_decide_indexing(D, nv)
              t == TableOf(D.ctx)
              r == search_hd_table(D.ctx, nv, mode = "never")
              c == add_hd_table_incremental(D.ctx, nv, TRUE)
              x == deflate_nv(D, nv)
  <1>0. /\ D = [ctx |-> D.ctx, deflate_max |-> D.deflate_max, min |-> D.min,
                notify |-> D.notify]
        /\ Sound(D.ctx, TRUE)
    BY DEF DeflaterOk
  <1>1. mode \in {"never", "without", "with"}
    BY DEF hd_deflate_decide_indexing
  <1>2. Finds(r, t, nv)
    <2>1. (mode = "never") \in BOOLEAN
      OBVIOUS
    <2>. HIDE DEF mode
    <2>. QED
      BY <1>0, <2>1, Search
  <1>3. /\ Sound(c, TRUE) /\ TableOf(c) = Added(t, nv, D.ctx.hd_table_bufsize_max)
        /\ c.hd_table_bufsize_max = D.ctx.hd_table_bufsize_max
    BY <1>0, AddAdds
  <1>4. x = IF r.match
            THEN [D |-> D, repr |-> [op |-> "indexed", index |-> r.index]]
            ELSE [D |-> IF mode = "with" THEN [D EXCEPT !.ctx = c] ELSE D,
                  repr |-> [op |-> IF r.index = -1 THEN "newname" ELSE "indname",
                            index |-> r.index, nv |-> nv, mode |-> mode]]
    BY DEF deflate_nv
  <1>5. Indices(Len(t)) \subseteq Nat
    <2>1. Len(Static) \in Nat
      BY StaticFacts
    <2>. QED
      BY <2>1 DEF Indices
  <1>. HIDE DEF mode, r, c, x, t
  <1>6. CASE r.match
    <2>1. x.D = D /\ x.repr = [op |-> "indexed", index |-> r.index]
      BY <1>4, <1>6
    <2>2. r.index \in Indices(Len(t)) /\ FieldAt(t, r.index) = nv /\ r.index \in Nat
      BY <1>2, <1>5, <1>6 DEF Finds
    <2>3. x.repr \in Reprs /\ x.repr.op = "indexed" /\ x.repr.index = r.index
      BY <2>1, <2>2 DEF Reprs
    <2>. QED
      BY <2>1, <2>2, <2>3 DEF x, t
  <1>7. CASE ~r.match
    <2>. DEFINE op == IF r.index = -1 THEN "newname" ELSE "indname"
                E == IF mode = "with" THEN [D EXCEPT !.ctx = c] ELSE D
    <2>1. x.D = E /\ x.repr = [op |-> op, index |-> r.index, nv |-> nv, mode |-> mode]
      BY <1>4, <1>7
    <2>2. /\ r.index # -1 => /\ r.index \in Indices(Len(t))
                             /\ FieldAt(t, r.index).name = nv.name
          /\ r.index \in Int
      BY <1>2, <1>5, <1>7 DEF Finds
    <2>3. op \in {"newname", "indname"} /\ (op = "newname" <=> r.index = -1)
      OBVIOUS
    <2>. HIDE DEF op
    <2>4. /\ x.repr \in Reprs /\ x.repr.op = op /\ x.repr.index = r.index
          /\ x.repr.nv = nv /\ x.repr.mode = mode
      BY <1>1, <2>1, <2>2, <2>3 DEF Reprs
    <2>5. /\ DeflaterOk(E) /\ E.min = D.min /\ E.notify = D.notify
          /\ E.deflate_max = D.deflate_max
          /\ E.ctx.hd_table_bufsize_max = D.ctx.hd_table_bufsize_max
          /\ TableOf(E.ctx) = IF mode = "with" THEN Added(t, nv, D.ctx.hd_table_bufsize_max)
                              ELSE t
      <3>1. CASE mode = "with"
        <4>1. E = [D EXCEPT !.ctx = c]
          BY <3>1
        <4>. HIDE DEF E
        <4>2. E = [ctx |-> c, deflate_max |-> D.deflate_max, min |-> D.min,
                   notify |-> D.notify]
          BY <1>0, <4>1
        <4>3. /\ E.ctx = c /\ E.deflate_max = D.deflate_max /\ E.min = D.min
              /\ E.notify = D.notify
          BY <4>2
        <4>4. DeflaterOk(E)
          BY <1>3, <4>2, <4>3 DEF DeflaterOk
        <4>. QED
          BY <1>3, <3>1, <4>3, <4>4
      <3>2. CASE mode # "with"
        <4>1. E = D
          BY <3>2
        <4>. HIDE DEF E
        <4>. QED
          BY <3>2, <4>1 DEF t
      <3>. QED
        BY <3>1, <3>2
    <2>. HIDE DEF E
    <2>6. x.repr.op # "size" /\ x.repr.op # "indexed"
      BY <2>3, <2>4
    <2>. QED
      BY <2>1, <2>2, <2>3, <2>4, <2>5, <2>6 DEF x, t
  <1>. QED
    BY <1>2, <1>6, <1>7 DEF Finds

(* A field that has been represented is read as it was, and the tables     *)
(* stay the same.                                                          *)
LEMMA FieldDecoded ==
    ASSUME NEW D, DeflaterOk(D), NEW nv \in Fields, NEW I, InflaterOk(I),
           SameTables(D, I), I.state # "EXPECT_TABLE_SIZE", NEW out
    PROVE  LET x == deflate_nv(D, nv)
               y == InflateRepr([I |-> I, out |-> out], x.repr)
           IN  /\ InflaterOk(y.I) /\ SameTables(x.D, y.I)
               /\ y.I.state = "OPCODE" /\ y.I.settings = I.settings /\ y.I.min = I.min
               /\ y.out = Append(out, nv) /\ y = [I |-> y.I, out |-> y.out]
  <1>. DEFINE x == deflate_nv(D, nv)
              repr == x.repr
              t == TableOf(D.ctx)
              max == D.ctx.hd_table_bufsize_max
              y == InflateRepr([I |-> I, out |-> out], repr)
              c == add_hd_table_incremental(I.ctx, nv, FALSE)
              valid == repr.index < I.ctx.hd_table.len + Len(Static)
              field == Committed(I, repr)
              added == IF repr.op # "indexed" /\ repr.mode = "with"
                       THEN add_hd_table_incremental(I.ctx, field, FALSE) ELSE I.ctx
  <1>0. /\ I = [ctx |-> I.ctx, settings |-> I.settings, min |-> I.min,
                state |-> I.state, bad |-> FALSE]
        /\ Sound(I.ctx, FALSE) /\ CtxOk(I.ctx) /\ I.bad = FALSE
        /\ t = TableOf(I.ctx) /\ max = I.ctx.hd_table_bufsize_max
    <2>1. /\ I = [ctx |-> I.ctx, settings |-> I.settings, min |-> I.min,
                  state |-> I.state, bad |-> FALSE]
          /\ Sound(I.ctx, FALSE)
      BY DEF InflaterOk
    <2>2. I.bad = FALSE
      BY <2>1
    <2>3. t = TableOf(I.ctx) /\ max = I.ctx.hd_table_bufsize_max
      BY DEF SameTables
    <2>. QED
      BY <2>1, <2>2, <2>3 DEF Sound
  <1>1. /\ DeflaterOk(x.D) /\ repr \in Reprs /\ repr.op # "size"
        /\ x.D.ctx.hd_table_bufsize_max = max
        /\ repr.op # "newname" => repr.index \in Indices(Len(t))
        /\ repr.op = "newname" => repr.index = -1
        /\ repr.op = "indexed" => FieldAt(t, repr.index) = nv /\ x.D = D
        /\ repr.op = "indname" => FieldAt(t, repr.index).name = nv.name
        /\ repr.op # "indexed" =>
             /\ repr.nv = nv
             /\ TableOf(x.D.ctx) = IF repr.mode = "with" THEN Added(t, nv, max) ELSE t
    BY FieldEncoded
  <1>2. t \in Seq(Fields) /\ Len(t) = I.ctx.hd_table.len /\ Len(t) \in Nat
        /\ Len(Static) \in Nat
    BY <1>0, TableFacts
  <1>3. Sound(c, FALSE) /\ TableOf(c) = Added(t, nv, max) /\ c.hd_table_bufsize_max = max
    BY <1>0, AddAdds
  <1>4. nv = [name |-> nv.name, value |-> nv.value]
    BY FieldsAssumption DEF Blank
  <1>. HIDE DEF x, repr, t, max
  <1>5. valid
    <2>1. repr.op = "newname" \/ repr.index \in Indices(Len(t))
      BY <1>1
    <2>. DEFINE i == repr.index
                n == I.ctx.hd_table.len
    <2>2. i = -1 \/ i \in 0..(Len(Static) + n - 1)
      BY <1>1, <1>2, <2>1 DEF Indices
    <2>3. n \in Nat
      BY <1>2
    <2>. HIDE DEF i, n
    <2>4. i < n + Len(Static)
      BY <1>2, <2>2, <2>3
    <2>. QED
      BY <2>4 DEF i, n
  <1>6. repr.op \in {"indexed", "indname", "newname"}
    BY <1>1 DEF Reprs
  <1>7. field = nv
    <2>1. repr.op # "newname" =>
            /\ hd_table_get(I.ctx, repr.index).name = FieldAt(t, repr.index).name
            /\ hd_table_get(I.ctx, repr.index).value = FieldAt(t, repr.index).value
      BY <1>0, <1>1, <1>2, TableGet
    <2>2. CASE repr.op = "indexed"
      <3>1. field = [name |-> hd_table_get(I.ctx, repr.index).name,
                     value |-> hd_table_get(I.ctx, repr.index).value]
        BY <2>2 DEF Committed
      <3>. QED
        BY <1>1, <1>4, <2>1, <2>2, <3>1
    <2>3. CASE repr.op = "indname"
      <3>1. field = [name |-> hd_table_get(I.ctx, repr.index).name,
                     value |-> repr.nv.value]
        BY <2>3 DEF Committed
      <3>. QED
        BY <1>1, <1>4, <2>1, <2>3, <3>1
    <2>4. CASE repr.op = "newname"
      <3>1. field = repr.nv
        BY <2>4 DEF Committed
      <3>. QED
        BY <1>1, <2>4, <3>1
    <2>. QED
      BY <1>6, <2>2, <2>3, <2>4
  <1>8. y = [I |-> [I EXCEPT !.state = "OPCODE", !.ctx = added], out |-> Append(out, field)]
    <2>. HIDE DEF added, field
    <2>. QED
      BY <1>0, <1>1, <1>5 DEF InflateRepr, added, field
  <1>9. /\ Sound(added, FALSE) /\ TableOf(added) = TableOf(x.D.ctx)
        /\ added.hd_table_bufsize_max = max
    <2>1. CASE repr.op # "indexed" /\ repr.mode = "with"
      <3>1. added = c
        BY <1>7, <2>1
      <3>. HIDE DEF added, c
      <3>. QED
        BY <1>1, <1>3, <2>1, <3>1
    <2>2. CASE ~(repr.op # "indexed" /\ repr.mode = "with")
      <3>1. added = I.ctx
        BY <2>2
      <3>2. TableOf(x.D.ctx) = t
        BY <1>1, <2>2 DEF t
      <3>. HIDE DEF added
      <3>. QED
        BY <1>0, <3>1, <3>2
    <2>. QED
      BY <2>1, <2>2
  <1>. HIDE DEF y, added, field
  <1>10. y.I = [ctx |-> added, settings |-> I.settings, min |-> I.min,
                state |-> "OPCODE", bad |-> FALSE]
         /\ y.out = Append(out, nv)
    BY <1>0, <1>7, <1>8
  <1>14. y = [I |-> y.I, out |-> y.out]
    BY <1>8
  <1>11. /\ y.I.ctx = added /\ y.I.settings = I.settings /\ y.I.min = I.min
         /\ y.I.state = "OPCODE"
    BY <1>10
  <1>12. InflaterOk(y.I)
    BY <1>9, <1>10, <1>11 DEF InflaterOk
  <1>13. SameTables(x.D, y.I)
    BY <1>1, <1>9, <1>11 DEF SameTables
  <1>. QED
    BY <1>10, <1>11, <1>12, <1>13, <1>14 DEF x, y, repr

-----------------------------------------------------------------------------
(* The two sides when the limit changes *)

(* The least size the deflater's table has had since its last block. *)
Low(D) == IF D.min = NoLimit THEN D.ctx.hd_table_bufsize_max ELSE D.min

(* Nothing to be announced: the two agree. *)
InSync(D, I) ==
    /\ D.min = NoLimit /\ I.min = NoLimit /\ I.state = "START"
    /\ SameTables(D, I)
    /\ D.ctx.hd_table_bufsize_max <= I.settings

(* Sizes to be announced: the deflater's table is what the inflater's will *)
(* be, and the inflater will accept them.                                  *)
Behind(D, I) ==
    /\ D.min = NoLimit => D.ctx.hd_table_bufsize_max = D.deflate_max
    /\ TableOf(D.ctx) = Trim(TableOf(I.ctx), 0, Low(D))
    /\ Low(D) <= D.ctx.hd_table_bufsize_max
    /\ D.ctx.hd_table_bufsize_max <= I.settings
    /\ I.min # NoLimit => Low(D) <= I.min

(* The two sides with nothing between them. *)
Synced(D, I) ==
    /\ I.state \in {"START", "EXPECT_TABLE_SIZE"}
    /\ IF D.notify THEN Behind(D, I) ELSE InSync(D, I)

(* Sizes are numbers, and NoLimit is none. *)
LEMMA SizesFacts ==
    /\ SeqRange \in Nat \ {0} /\ Sizes \subseteq Nat /\ DefaultMax \in Sizes
    /\ NoLimit \notin Nat
  <1>1. SeqRange \in Nat /\ DefaultMax \in 0..(SeqRange - 1)
    BY SizesAssumption
  <1>. QED
    BY <1>1 DEF Sizes, NoLimit

(* A sound deflater: its table fits its limit. *)
LEMMA DeflaterFacts ==
    ASSUME NEW D, DeflaterOk(D)
    PROVE  /\ TableOf(D.ctx) \in Seq(Fields)
           /\ D.ctx.hd_table_bufsize_max \in Sizes /\ D.ctx.hd_table_bufsize_max \in Nat
           /\ D.deflate_max \in Nat
           /\ D.min # NoLimit => D.min \in Nat
           /\ Low(D) \in Nat
           /\ RoomFor(TableOf(D.ctx)) \in Nat
           /\ RoomFor(TableOf(D.ctx)) <= D.ctx.hd_table_bufsize_max
  <1>1. /\ CtxOk(D.ctx) /\ D.ctx.hd_table_bufsize <= D.ctx.hd_table_bufsize_max
        /\ D.deflate_max \in Sizes /\ D.min \in Sizes \cup {NoLimit}
    BY DEF DeflaterOk, Sound
  <1>2. /\ D.ctx.hd_table_bufsize_max \in Sizes
        /\ D.ctx.hd_table_bufsize = RoomFor(TableOf(D.ctx))
    BY <1>1 DEF CtxOk, Sizes
  <1>3. TableOf(D.ctx) \in Seq(Fields) /\ RoomFor(TableOf(D.ctx)) \in Nat
    BY <1>1, TableFacts
  <1>. QED
    BY <1>1, <1>2, <1>3, SizesFacts DEF Low

(* A sound inflater has refused nothing, and its table fits its limit. *)
LEMMA InflaterFacts ==
    ASSUME NEW I, InflaterOk(I)
    PROVE  /\ I.bad = FALSE
           /\ TableOf(I.ctx) \in Seq(Fields)
           /\ I.ctx.hd_table_bufsize_max \in Nat
           /\ I.settings \in Nat
           /\ I.min # NoLimit => I.min \in Nat
           /\ RoomFor(TableOf(I.ctx)) \in Nat
           /\ RoomFor(TableOf(I.ctx)) <= I.ctx.hd_table_bufsize_max
  <1>1. /\ CtxOk(I.ctx) /\ I.ctx.hd_table_bufsize <= I.ctx.hd_table_bufsize_max
        /\ I.settings \in Sizes /\ I.min \in Sizes \cup {NoLimit}
        /\ I = [ctx |-> I.ctx, settings |-> I.settings, min |-> I.min,
                state |-> I.state, bad |-> FALSE]
    BY DEF InflaterOk, Sound
  <1>2. /\ I.ctx.hd_table_bufsize_max \in Sizes
        /\ I.ctx.hd_table_bufsize = RoomFor(TableOf(I.ctx))
    BY <1>1 DEF CtxOk, Sizes
  <1>3. TableOf(I.ctx) \in Seq(Fields) /\ RoomFor(TableOf(I.ctx)) \in Nat
    BY <1>1, TableFacts
  <1>4. I.bad = FALSE
    BY <1>1
  <1>. QED
    BY <1>1, <1>2, <1>3, <1>4, SizesFacts

(* The lesser of a limit and a size. *)
LEMMA LeastIs ==
    ASSUME NEW a \in Nat \cup {NoLimit}, NEW b \in Nat
    PROVE  /\ Least(a, b) \in Nat /\ Least(a, b) <= b
           /\ a = NoLimit => Least(a, b) = b
           /\ a # NoLimit => Least(a, b) = Min({a, b}) /\ Least(a, b) <= a
           /\ Least(a, b) \in {a, b}
  <1>1. CASE a = NoLimit
    BY <1>1 DEF Least
  <1>2. CASE a # NoLimit
    <2>1. a \in Nat /\ Least(a, b) = Min({a, b})
      BY <1>2 DEF Least
    <2>. QED
      BY <1>2, <2>1, MinOfTwo
  <1>. QED
    BY <1>1, <1>2

(* nghttp2_hd_deflate_change_table_size *)
LEMMA DeflaterChanged ==
    ASSUME NEW D, DeflaterOk(D), NEW v \in Sizes
    PROVE  LET E == nghttp2_hd_deflate_change_table_size(D, v)
               next == Min({v, D.deflate_max})
           IN  /\ DeflaterOk(E) /\ E.notify = TRUE /\ E.deflate_max = D.deflate_max
               /\ E.ctx.hd_table_bufsize_max = next /\ E.min = Least(D.min, next)
               /\ TableOf(E.ctx) = Trim(TableOf(D.ctx), 0, next)
               /\ next \in Nat /\ next <= v /\ next <= D.deflate_max
  <1>. DEFINE next == Min({v, D.deflate_max})
              c == hd_context_shrink_table_size([D.ctx EXCEPT !.hd_table_bufsize_max = next])
              E == nghttp2_hd_deflate_change_table_size(D, v)
  <1>0. /\ D = [ctx |-> D.ctx, deflate_max |-> D.deflate_max, min |-> D.min,
                notify |-> D.notify]
        /\ Sound(D.ctx, TRUE) /\ D.deflate_max \in Sizes /\ D.min \in Sizes \cup {NoLimit}
    BY DEF DeflaterOk
  <1>1. next \in Sizes /\ next \in Nat /\ next <= v /\ next <= D.deflate_max
    <2>1. v \in Nat /\ D.deflate_max \in Nat
      BY <1>0, SizesFacts
    <2>. HIDE DEF next
    <2>2. next \in {v, D.deflate_max} /\ next \in Nat /\ next <= v /\ next <= D.deflate_max
      BY <2>1, MinOfTwo DEF next
    <2>. QED
      BY <1>0, <2>2
  <1>2. E = [D EXCEPT !.ctx = c, !.min = Least(@, next), !.notify = TRUE]
    BY DEF nghttp2_hd_deflate_change_table_size
  <1>. HIDE DEF next
  <1>3. /\ Sound(c, TRUE) /\ TableOf(c) = Trim(TableOf(D.ctx), 0, next)
        /\ c.hd_table_bufsize_max = next
    <2>1. next \in 0..(SeqRange - 1)
      BY <1>1 DEF Sizes
    <2>. QED
      BY <1>0, <2>1, ShrinkTrims
  <1>. HIDE DEF c, E
  <1>4. E = [ctx |-> c, deflate_max |-> D.deflate_max, min |-> Least(D.min, next),
             notify |-> TRUE]
    BY <1>0, <1>2
  <1>5. /\ E.ctx = c /\ E.deflate_max = D.deflate_max /\ E.min = Least(D.min, next)
        /\ E.notify = TRUE
    BY <1>4
  <1>6. E.min \in Sizes \cup {NoLimit}
    <2>1. D.min \in Nat \cup {NoLimit}
      BY <1>0, SizesFacts
    <2>2. Least(D.min, next) \in {D.min, next}
      BY <1>1, <2>1, LeastIs
    <2>. QED
      BY <1>0, <1>1, <1>5, <2>2
  <1>7. DeflaterOk(E)
    BY <1>0, <1>1, <1>3, <1>4, <1>5, <1>6 DEF DeflaterOk
  <1>. QED
    BY <1>1, <1>3, <1>5, <1>7 DEF E, next

(* The record that nghttp2_hd_inflate_change_table_size makes. *)
LEMMA Resize ==
    ASSUME NEW I, NEW a, NEW b, NEW m, NEW s, NEW no, NEW c, NEW v, NEW expect, NEW J,
           I = [ctx |-> a, settings |-> b, min |-> m, state |-> s, bad |-> no],
           J = [I EXCEPT !.settings = v, !.state = expect, !.min = v, !.ctx = c]
    PROVE  J = [ctx |-> c, settings |-> v, min |-> v, state |-> expect, bad |-> no]
  OBVIOUS

(* nghttp2_hd_inflate_change_table_size *)
LEMMA InflaterChanged ==
    ASSUME NEW I, InflaterOk(I), NEW v \in Sizes
    PROVE  LET J == nghttp2_hd_inflate_change_table_size(I, v)
           IN  /\ InflaterOk(J) /\ J.settings = v
               /\ TableOf(J.ctx) = Trim(TableOf(I.ctx), 0, v)
               /\ J.min \in {v, I.min} /\ J.state \in {"EXPECT_TABLE_SIZE", I.state}
  <1>. DEFINE c == hd_context_shrink_table_size([I.ctx EXCEPT !.hd_table_bufsize_max = v])
              J == nghttp2_hd_inflate_change_table_size(I, v)
  <1>0. /\ I = [ctx |-> I.ctx, settings |-> I.settings, min |-> I.min,
                state |-> I.state, bad |-> FALSE]
        /\ Sound(I.ctx, FALSE) /\ I.settings \in Sizes
        /\ I.min \in Sizes \cup {NoLimit}
        /\ I.state \in {"START", "OPCODE", "EXPECT_TABLE_SIZE"}
    BY DEF InflaterOk
  <1>1. /\ TableOf(I.ctx) \in Seq(Fields) /\ RoomFor(TableOf(I.ctx)) \in Nat
        /\ RoomFor(TableOf(I.ctx)) <= I.ctx.hd_table_bufsize_max
        /\ I.ctx.hd_table_bufsize_max \in Nat /\ v \in Nat
    BY InflaterFacts, SizesFacts
  <1>2. CASE I.ctx.hd_table_bufsize_max > v
    <2>1. J = [I EXCEPT !.settings = v, !.state = "EXPECT_TABLE_SIZE", !.min = v, !.ctx = c]
      BY <1>2 DEF nghttp2_hd_inflate_change_table_size
    <2>2. /\ Sound(c, FALSE) /\ TableOf(c) = Trim(TableOf(I.ctx), 0, v)
          /\ c.hd_table_bufsize_max = v
      <3>1. v \in 0..(SeqRange - 1)
        BY DEF Sizes
      <3>. QED
        BY <1>0, <3>1, ShrinkTrims
    <2>. HIDE DEF c, J
    <2>3. J = [ctx |-> c, settings |-> v, min |-> v, state |-> "EXPECT_TABLE_SIZE",
               bad |-> FALSE]
      <3>. DEFINE no == FALSE
                  expect == "EXPECT_TABLE_SIZE"
      <3>1. I = [ctx |-> I.ctx, settings |-> I.settings, min |-> I.min,
                 state |-> I.state, bad |-> no]
        BY <1>0
      <3>2. J = [I EXCEPT !.settings = v, !.state = expect, !.min = v, !.ctx = c]
        BY <2>1
      <3>. HIDE DEF no, expect
      <3>3. J = [ctx |-> c, settings |-> v, min |-> v, state |-> expect, bad |-> no]
        <4>. DEFINE a == I.ctx
                    b == I.settings
                    m == I.min
                    s == I.state
        <4>1. I = [ctx |-> a, settings |-> b, min |-> m, state |-> s, bad |-> no]
          BY <3>1
        <4>. HIDE DEF a, b, m, s
        <4>. QED
          BY <3>2, <4>1, Resize
      <3>. QED
        BY <3>3 DEF no, expect
    <2>4. J.ctx = c /\ J.settings = v /\ J.min = v /\ J.state = "EXPECT_TABLE_SIZE"
      BY <2>3
    <2>5. InflaterOk(J)
      BY <2>2, <2>3, <2>4 DEF InflaterOk
    <2>. QED
      BY <2>2, <2>4, <2>5 DEF J
  <1>3. CASE ~(I.ctx.hd_table_bufsize_max > v)
    <2>1. J = [I EXCEPT !.settings = v]
      BY <1>3 DEF nghttp2_hd_inflate_change_table_size
    <2>. HIDE DEF J
    <2>2. J = [ctx |-> I.ctx, settings |-> v, min |-> I.min, state |-> I.state,
               bad |-> FALSE]
      <3>. DEFINE no == FALSE
      <3>1. I = [ctx |-> I.ctx, settings |-> I.settings, min |-> I.min,
                 state |-> I.state, bad |-> no]
        BY <1>0
      <3>. HIDE DEF no
      <3>2. J = [ctx |-> I.ctx, settings |-> v, min |-> I.min, state |-> I.state,
                 bad |-> no]
        BY <2>1, <3>1
      <3>. QED
        BY <3>2 DEF no
    <2>3. J.ctx = I.ctx /\ J.settings = v /\ J.min = I.min /\ J.state = I.state
      BY <2>2
    <2>4. InflaterOk(J)
      BY <1>0, <2>2, <2>3 DEF InflaterOk
    <2>5. RoomFor(TableOf(I.ctx)) + 0 <= v
      BY <1>1, <1>3
    <2>6. Trim(TableOf(I.ctx), 0, v) = TableOf(I.ctx)
      BY <1>1, <2>5, TrimFull
    <2>. QED
      BY <2>3, <2>4, <2>6 DEF J
  <1>. QED
    BY <1>2, <1>3

(* The same new limit on both sides, at different times. *)
LEMMA ChangedSynced ==
    ASSUME NEW D, DeflaterOk(D), NEW I, InflaterOk(I), Synced(D, I), NEW v \in Sizes
    PROVE  Synced(nghttp2_hd_deflate_change_table_size(D, v),
                  nghttp2_hd_inflate_change_table_size(I, v))
  <1>. DEFINE E == nghttp2_hd_deflate_change_table_size(D, v)
              J == nghttp2_hd_inflate_change_table_size(I, v)
              next == Min({v, D.deflate_max})
              t == TableOf(I.ctx)
  <1>1. /\ DeflaterOk(E) /\ E.notify = TRUE /\ E.deflate_max = D.deflate_max
        /\ E.ctx.hd_table_bufsize_max = next /\ E.min = Least(D.min, next)
        /\ TableOf(E.ctx) = Trim(TableOf(D.ctx), 0, next)
        /\ next \in Nat /\ next <= v /\ next <= D.deflate_max
    BY DeflaterChanged
  <1>2. /\ InflaterOk(J) /\ J.settings = v /\ TableOf(J.ctx) = Trim(t, 0, v)
        /\ J.min \in {v, I.min} /\ J.state \in {"EXPECT_TABLE_SIZE", I.state}
    BY InflaterChanged
  <1>. HIDE DEF E, J, next
  <1>3. v \in Nat /\ NoLimit \notin Nat
    BY SizesFacts
  <1>4. /\ t \in Seq(Fields) /\ TableOf(D.ctx) \in Seq(Fields)
        /\ D.min \in Nat \cup {NoLimit} /\ D.ctx.hd_table_bufsize_max \in Nat
        /\ D.deflate_max \in Nat /\ Low(D) \in Nat
        /\ I.min # NoLimit => I.min \in Nat
    BY DeflaterFacts, InflaterFacts
  <1>. HIDE DEF t
  <1>5. /\ E.min \in Nat /\ E.min <= next /\ E.min <= v
        /\ D.min = NoLimit => E.min = next
        /\ D.min # NoLimit => E.min = Min({D.min, next}) /\ E.min <= D.min
    <2>. DEFINE m == Least(D.min, next)
    <2>1. /\ m \in Nat /\ m <= next
          /\ D.min = NoLimit => m = next
          /\ D.min # NoLimit => m = Min({D.min, next}) /\ m <= D.min
      BY <1>1, <1>4, LeastIs
    <2>. HIDE DEF m
    <2>2. m <= v
      BY <1>1, <1>3, <2>1
    <2>. QED
      BY <1>1, <2>1, <2>2 DEF m
  <1>6. Low(E) = E.min
    BY <1>3, <1>5 DEF Low
  <1>7. TableOf(E.ctx) = Trim(t, 0, E.min)
    <2>1. CASE D.notify
      <3>1. /\ TableOf(D.ctx) = Trim(t, 0, Low(D))
            /\ D.min = NoLimit => D.ctx.hd_table_bufsize_max = D.deflate_max
        BY <2>1 DEF Synced, Behind, t
      <3>2. TableOf(E.ctx) = Trim(t, 0, Min({Low(D), next}))
        BY <1>1, <1>4, <3>1, TrimTwice
      <3>3. Min({Low(D), next}) = E.min
        <4>1. CASE D.min = NoLimit
          <5>1. Low(D) = D.deflate_max
            BY <3>1, <4>1 DEF Low
          <5>2. Min({D.deflate_max, next}) = next
            BY <1>1, <1>4, MinOfTwo
          <5>. QED
            BY <1>5, <4>1, <5>1, <5>2
        <4>2. CASE D.min # NoLimit
          BY <1>5, <4>2 DEF Low
        <4>. QED
          BY <4>1, <4>2
      <3>. QED
        BY <3>2, <3>3
    <2>2. CASE ~D.notify
      <3>1. TableOf(D.ctx) = t /\ D.min = NoLimit
        BY <2>2 DEF Synced, InSync, SameTables, t
      <3>. QED
        BY <1>1, <1>5, <3>1
    <2>. QED
      BY <2>1, <2>2
  <1>8. TableOf(E.ctx) = Trim(TableOf(J.ctx), 0, Low(E))
    <2>1. Trim(Trim(t, 0, v), 0, E.min) = Trim(t, 0, Min({v, E.min}))
      BY <1>3, <1>4, <1>5, TrimTwice
    <2>2. Min({v, E.min}) = E.min
      BY <1>3, <1>5, MinOfTwo
    <2>. QED
      BY <1>2, <1>6, <1>7, <2>1, <2>2
  <1>9. J.min # NoLimit => E.min <= J.min
    <2>1. CASE J.min = v
      BY <1>5, <2>1
    <2>2. CASE J.min = I.min /\ D.notify
      <3>. SUFFICES ASSUME I.min # NoLimit PROVE E.min <= I.min
        BY <2>2
      <3>1. /\ Low(D) <= I.min
            /\ D.min = NoLimit => D.ctx.hd_table_bufsize_max = D.deflate_max
        BY <2>2 DEF Synced, Behind
      <3>2. E.min <= Low(D)
        BY <1>1, <1>4, <1>5, <3>1 DEF Low
      <3>. QED
        BY <1>4, <1>5, <3>1, <3>2
    <2>3. CASE J.min = I.min /\ ~D.notify
      <3>1. I.min = NoLimit
        BY <2>3 DEF Synced, InSync
      <3>. QED
        BY <2>3, <3>1
    <2>. QED
      BY <1>2, <2>1, <2>2, <2>3
  <1>10. Behind(E, J)
    <2>1. E.min # NoLimit
      BY <1>3, <1>5
    <2>. QED
      BY <1>1, <1>2, <1>5, <1>6, <1>8, <1>9, <2>1 DEF Behind
  <1>11. J.state \in {"START", "EXPECT_TABLE_SIZE"}
    BY <1>2 DEF Synced
  <1>. QED
    BY <1>1, <1>10, <1>11 DEF Synced, E, J

-----------------------------------------------------------------------------
(* The values of one SETTINGS frame *)

(* A prefix is a beginning of the table. *)
LEMMA PrefixEquals ==
    ASSUME NEW s \in Seq(Fields), NEW t \in Seq(Fields)
    PROVE  IsPrefix(s, t) <=> Len(s) <= Len(t) /\ s = SubSeq(t, 1, Len(s))
  <1>1. Len(s) \in 0..Len(s)
    BY LenProperties
  <1>2. SubSeq(s, 1, Len(s)) = s
    BY <1>1, PrefixIs
  <1>. QED
    BY <1>2 DEF IsPrefix

(* A prefix of a prefix is a prefix. *)
LEMMA PrefixOfPrefix ==
    ASSUME NEW r \in Seq(Fields), NEW s \in Seq(Fields), NEW t \in Seq(Fields),
           IsPrefix(r, s), IsPrefix(s, t)
    PROVE  IsPrefix(r, t)
  <1>1. /\ Len(r) \in Nat /\ Len(s) \in Nat /\ Len(t) \in Nat
        /\ Len(r) <= Len(s) /\ Len(s) <= Len(t)
        /\ r = SubSeq(s, 1, Len(r)) /\ s = SubSeq(t, 1, Len(s))
    BY PrefixEquals, LenProperties
  <1>. DEFINE j == Len(r)
              k == Len(s)
  <1>2. k \in 0..Len(t) /\ j \in 0..k /\ j <= Len(t)
    BY <1>1
  <1>. HIDE DEF j, k
  <1>3. SubSeq(SubSeq(t, 1, k), 1, j) = SubSeq(t, 1, j)
    BY <1>2, PrefixIs
  <1>4. r = SubSeq(t, 1, j)
    BY <1>1, <1>3 DEF j, k
  <1>. QED
    BY <1>2, <1>4, PrefixEquals DEF j

(* Trimming leaves a prefix. *)
LEMMA TrimIsPrefix ==
    ASSUME NEW t \in Seq(Fields), NEW room \in Nat, NEW max \in Nat
    PROVE  IsPrefix(Trim(t, room, max), t)
  <1>. DEFINE r == Trim(t, room, max)
  <1>1. r \in Seq(Fields) /\ Len(r) \in 0..Len(t) /\ r = SubSeq(t, 1, Len(r))
    BY TrimFacts
  <1>. HIDE DEF r
  <1>2. Len(r) <= Len(t)
    BY <1>1
  <1>3. IsPrefix(r, t)
    BY <1>1, <1>2, PrefixEquals
  <1>. QED
    BY <1>3 DEF r

(* A SETTINGS frame has a last and a least value. *)
LEMMA FrameFacts ==
    ASSUME NEW vs \in SettingsFrames
    PROVE  Last(vs) \in Sizes /\ Min(Range(vs)) \in Sizes
  <1>1. vs \in Seq(Sizes) /\ vs # <<>>
    BY SizesAssumption DEF Sizes
  <1>2. Len(vs) \in Nat /\ DOMAIN vs = 1..Len(vs) /\ Len(vs) # 0
    BY <1>1, LenProperties, EmptySeq
  <1>3. \A i \in 1..Len(vs) : vs[i] \in Sizes
    BY <1>1, ElementOfSeq
  <1>4. Range(vs) # {} /\ Range(vs) \subseteq Sizes
    BY <1>2, <1>3 DEF Range
  <1>5. Min(Range(vs)) \in Range(vs)
    BY <1>4, SizesFacts, MinOfNat
  <1>. QED
    BY <1>2, <1>3, <1>4, <1>5 DEF Last

(* DeflaterResized and InflaterResized: both sides apply the least and the  *)
(* last value, or only the last.                                            *)
LEMMA ResizedSynced ==
    ASSUME NEW D, DeflaterOk(D), NEW I, InflaterOk(I), Synced(D, I),
           NEW vs \in SettingsFrames
    PROVE  Synced(DeflaterResized(D, vs), InflaterResized(I, vs))
  <1>. DEFINE low == Min(Range(vs))
              E == IF Lowered(vs) THEN nghttp2_hd_deflate_change_table_size(D, low) ELSE D
              J == IF Lowered(vs) THEN nghttp2_hd_inflate_change_table_size(I, low) ELSE I
  <1>1. low \in Sizes /\ Last(vs) \in Sizes
    BY FrameFacts
  <1>2. DeflaterOk(E) /\ InflaterOk(J) /\ Synced(E, J)
    <2>1. CASE Lowered(vs)
      <3>. HIDE DEF low
      <3>. QED
        BY <1>1, <2>1, DeflaterChanged, InflaterChanged, ChangedSynced
    <2>2. CASE ~Lowered(vs)
      BY <2>2
    <2>. QED
      BY <2>1, <2>2
  <1>3. /\ DeflaterResized(D, vs) = nghttp2_hd_deflate_change_table_size(E, Last(vs))
        /\ InflaterResized(I, vs) = nghttp2_hd_inflate_change_table_size(J, Last(vs))
    BY DEF DeflaterResized, InflaterResized
  <1>. HIDE DEF E, J
  <1>. QED
    BY <1>1, <1>2, <1>3, ChangedSynced

(* A deflater stays sound on SETTINGS (nghttp2_session.c:4830-4848). *)
LEMMA DeflaterResizedOk ==
    ASSUME NEW D, DeflaterOk(D), NEW vs \in SettingsFrames
    PROVE  DeflaterOk(DeflaterResized(D, vs))
  <1>. DEFINE low == Min(Range(vs))
              E == IF Lowered(vs) THEN nghttp2_hd_deflate_change_table_size(D, low) ELSE D
  <1>1. low \in Sizes /\ Last(vs) \in Sizes
    BY FrameFacts
  <1>2. DeflaterOk(E)
    <2>. HIDE DEF low
    <2>. QED
      BY <1>1, DeflaterChanged
  <1>3. DeflaterResized(D, vs) = nghttp2_hd_deflate_change_table_size(E, Last(vs))
    BY DEF DeflaterResized
  <1>. HIDE DEF E
  <1>. QED
    BY <1>1, <1>2, <1>3, DeflaterChanged

(* An inflater stays sound on an acknowledgement, which only shortens its   *)
(* table (nghttp2_session.c:4709-4738).                                     *)
LEMMA InflaterResizedOk ==
    ASSUME NEW I, InflaterOk(I), NEW vs \in SettingsFrames
    PROVE  LET J == InflaterResized(I, vs)
           IN  /\ InflaterOk(J) /\ IsPrefix(TableOf(J.ctx), TableOf(I.ctx))
               /\ J.state \in {"EXPECT_TABLE_SIZE", I.state}
  <1>1. ASSUME NEW K, InflaterOk(K), NEW v \in Sizes
        PROVE  LET J == nghttp2_hd_inflate_change_table_size(K, v)
               IN  /\ InflaterOk(J) /\ IsPrefix(TableOf(J.ctx), TableOf(K.ctx))
                   /\ J.state \in {"EXPECT_TABLE_SIZE", K.state}
    <2>. DEFINE J == nghttp2_hd_inflate_change_table_size(K, v)
    <2>1. /\ InflaterOk(J) /\ TableOf(J.ctx) = Trim(TableOf(K.ctx), 0, v)
          /\ J.state \in {"EXPECT_TABLE_SIZE", K.state}
      BY <1>1, InflaterChanged
    <2>2. TableOf(K.ctx) \in Seq(Fields) /\ v \in Nat
      BY <1>1, InflaterFacts, SizesFacts
    <2>. HIDE DEF J
    <2>3. IsPrefix(TableOf(J.ctx), TableOf(K.ctx))
      BY <2>1, <2>2, TrimIsPrefix
    <2>. QED
      BY <2>1, <2>3 DEF J
  <1>. DEFINE low == Min(Range(vs))
              J == IF Lowered(vs) THEN nghttp2_hd_inflate_change_table_size(I, low) ELSE I
              K == nghttp2_hd_inflate_change_table_size(J, Last(vs))
  <1>2. low \in Sizes /\ Last(vs) \in Sizes
    BY FrameFacts
  <1>3. CASE Lowered(vs)
    <2>1. J = nghttp2_hd_inflate_change_table_size(I, low)
      BY <1>3
    <2>. HIDE DEF low, J
    <2>2. /\ InflaterOk(J) /\ IsPrefix(TableOf(J.ctx), TableOf(I.ctx))
          /\ J.state \in {"EXPECT_TABLE_SIZE", I.state}
      BY <1>1, <1>2, <2>1
    <2>3. /\ InflaterOk(K) /\ IsPrefix(TableOf(K.ctx), TableOf(J.ctx))
          /\ K.state \in {"EXPECT_TABLE_SIZE", J.state}
      BY <1>1, <1>2, <2>2
    <2>. HIDE DEF K
    <2>4. IsPrefix(TableOf(K.ctx), TableOf(I.ctx))
      BY <2>2, <2>3, InflaterFacts, PrefixOfPrefix
    <2>5. K = InflaterResized(I, vs)
      BY DEF InflaterResized, K, J, low
    <2>. QED
      BY <2>2, <2>3, <2>4, <2>5
  <1>4. CASE ~Lowered(vs)
    <2>1. J = I
      BY <1>4
    <2>2. InflaterResized(I, vs) = nghttp2_hd_inflate_change_table_size(I, Last(vs))
      BY <1>4 DEF InflaterResized
    <2>. QED
      BY <1>1, <1>2, <2>2
  <1>. QED
    BY <1>3, <1>4

-----------------------------------------------------------------------------
(* The sizes at the head of a block *)

(* The record that reading a size makes. *)
LEMMA Restart ==
    ASSUME NEW I, NEW a, NEW b, NEW l, NEW s, NEW no, NEW c, NEW m, NEW start, NEW J,
           I = [ctx |-> a, settings |-> b, min |-> l, state |-> s, bad |-> no],
           J = [I EXCEPT !.min = m, !.state = start, !.ctx = c]
    PROVE  J = [ctx |-> c, settings |-> b, min |-> m, state |-> start, bad |-> no]
  OBVIOUS

(* NGHTTP2_HD_STATE_READ_TABLE_SIZE, of a size that is allowed. *)
LEMMA SizeRead ==
    ASSUME NEW I, InflaterOk(I), I.state # "OPCODE", NEW n \in Sizes, n <= I.settings,
           I.min # NoLimit => n <= I.min, NEW out,
           NEW y, y = InflateRepr([I |-> I, out |-> out], TableSize(n))
    PROVE  /\ InflaterOk(y.I) /\ y.I.state = "START" /\ y.I.min = NoLimit
           /\ y.I.settings = I.settings /\ y.I.ctx.hd_table_bufsize_max = n
           /\ TableOf(y.I.ctx) = Trim(TableOf(I.ctx), 0, n)
           /\ y.out = out /\ y = [I |-> y.I, out |-> out]
  <1>. DEFINE repr == TableSize(n)
              r == [I |-> I, out |-> out]
              J == ReadTableSize(I, n)
              c == hd_context_shrink_table_size([I.ctx EXCEPT !.hd_table_bufsize_max = n])
  <1>0. /\ I = [ctx |-> I.ctx, settings |-> I.settings, min |-> I.min,
                state |-> I.state, bad |-> FALSE]
        /\ Sound(I.ctx, FALSE) /\ I.settings \in Sizes
        /\ I.min \in Sizes \cup {NoLimit} /\ I.bad = FALSE
    <2>1. /\ I = [ctx |-> I.ctx, settings |-> I.settings, min |-> I.min,
                  state |-> I.state, bad |-> FALSE]
          /\ Sound(I.ctx, FALSE) /\ I.settings \in Sizes
          /\ I.min \in Sizes \cup {NoLimit}
      BY DEF InflaterOk
    <2>2. I.bad = FALSE
      BY <2>1
    <2>. QED
      BY <2>1, <2>2
  <1>1. y.I = J /\ y.out = out /\ y = [I |-> J, out |-> out]
    <2>1. repr.op = "size" /\ repr.size = n
      BY DEF TableSize
    <2>. HIDE DEF repr, J
    <2>2. y = [r EXCEPT !.I = ReadTableSize(I, repr.size)]
      <3>1. y = InflateRepr(r, repr) /\ r.I = I
        BY DEF repr
      <3>. HIDE DEF r
      <3>. QED
        BY <1>0, <2>1, <3>1 DEF InflateRepr
    <2>3. y = [I |-> J, out |-> out]
      BY <2>1, <2>2 DEF J
    <2>. QED
      BY <2>3
  <1>2. n <= Least(I.min, I.settings)
    <2>1. I.settings \in Nat /\ I.min \in Nat \cup {NoLimit} /\ n \in Nat
      BY <1>0, SizesFacts
    <2>2. Least(I.min, I.settings) \in {I.min, I.settings}
      BY <2>1, LeastIs
    <2>3. I.min = NoLimit => Least(I.min, I.settings) = I.settings
      BY <2>1, LeastIs
    <2>. QED
      BY <2>2, <2>3
  <1>3. J = [I EXCEPT !.min = NoLimit, !.state = "START", !.ctx = c]
    <2>1. Least(I.min, I.settings) \in Nat /\ n \in Nat
      BY <1>0, LeastIs, SizesFacts
    <2>2. ~(n > Least(I.min, I.settings))
      BY <1>2, <2>1
    <2>. QED
      BY <2>2 DEF ReadTableSize
  <1>4. /\ Sound(c, FALSE) /\ TableOf(c) = Trim(TableOf(I.ctx), 0, n)
        /\ c.hd_table_bufsize_max = n
    <2>1. n \in 0..(SeqRange - 1)
      BY DEF Sizes
    <2>. QED
      BY <1>0, <2>1, ShrinkTrims
  <1>. HIDE DEF c, J
  <1>5. J = [ctx |-> c, settings |-> I.settings, min |-> NoLimit, state |-> "START",
             bad |-> FALSE]
    <2>. DEFINE no == FALSE
                start == "START"
    <2>1. I = [ctx |-> I.ctx, settings |-> I.settings, min |-> I.min,
               state |-> I.state, bad |-> no]
      BY <1>0
    <2>2. J = [I EXCEPT !.min = NoLimit, !.state = start, !.ctx = c]
      BY <1>3
    <2>. HIDE DEF no, start
    <2>3. J = [ctx |-> c, settings |-> I.settings, min |-> NoLimit, state |-> start,
               bad |-> no]
      <3>. DEFINE a == I.ctx
                  b == I.settings
                  l == I.min
                  s == I.state
                  m == NoLimit
      <3>1. I = [ctx |-> a, settings |-> b, min |-> l, state |-> s, bad |-> no]
        BY <2>1
      <3>2. J = [I EXCEPT !.min = m, !.state = start, !.ctx = c]
        BY <2>2
      <3>. HIDE DEF a, b, l, s, m
      <3>3. J = [ctx |-> c, settings |-> b, min |-> m, state |-> start, bad |-> no]
        BY <3>1, <3>2, Restart
      <3>. QED
        BY <3>3 DEF b, m
    <2>. QED
      BY <2>3 DEF no, start
  <1>6. J.ctx = c /\ J.settings = I.settings /\ J.min = NoLimit /\ J.state = "START"
    BY <1>5
  <1>7. InflaterOk(J)
    BY <1>0, <1>4, <1>5, <1>6 DEF InflaterOk
  <1>. QED
    BY <1>1, <1>4, <1>6, <1>7

(* The deflater once it has announced its sizes. *)
Announced(D) == [D EXCEPT !.notify = FALSE, !.min = IF D.notify THEN NoLimit ELSE @]

(* Announcing sizes changes no table. *)
LEMMA AnnouncedOk ==
    ASSUME NEW D, DeflaterOk(D)
    PROVE  LET E == Announced(D)
           IN  /\ DeflaterOk(E) /\ E.ctx = D.ctx /\ ~E.notify
               /\ E.min = IF D.notify THEN NoLimit ELSE D.min
  <1>. DEFINE E == Announced(D)
              m == IF D.notify THEN NoLimit ELSE D.min
  <1>0. /\ D = [ctx |-> D.ctx, deflate_max |-> D.deflate_max, min |-> D.min,
                notify |-> D.notify]
        /\ Sound(D.ctx, TRUE) /\ D.deflate_max \in Sizes
        /\ D.ctx.hd_table_bufsize_max <= D.deflate_max
        /\ D.min \in Sizes \cup {NoLimit}
    BY DEF DeflaterOk
  <1>1. E = [D EXCEPT !.notify = FALSE, !.min = m]
    BY DEF Announced
  <1>2. m \in Sizes \cup {NoLimit}
    BY <1>0
  <1>. HIDE DEF E, m
  <1>3. E = [ctx |-> D.ctx, deflate_max |-> D.deflate_max, min |-> m, notify |-> FALSE]
    <2>. DEFINE no == FALSE
    <2>1. E = [D EXCEPT !.notify = no, !.min = m]
      BY <1>1
    <2>. HIDE DEF no
    <2>2. E = [ctx |-> D.ctx, deflate_max |-> D.deflate_max, min |-> m, notify |-> no]
      BY <1>0, <2>1
    <2>. QED
      BY <2>2 DEF no
  <1>4. E.ctx = D.ctx /\ E.deflate_max = D.deflate_max /\ E.min = m /\ E.notify = FALSE
    BY <1>3
  <1>5. DeflaterOk(E)
    BY <1>0, <1>2, <1>3, <1>4 DEF DeflaterOk
  <1>. QED
    BY <1>4, <1>5 DEF E, m

(* The states that inflating one representation after the other goes        *)
(* through, and those that deflating one field after the other does.        *)
Deflated(r, nv) ==
    [D |-> deflate_nv(r.D, nv).D, block |-> Append(r.block, deflate_nv(r.D, nv).repr)]

InflatesTo(a, block, f, m) ==
    /\ f = [n \in 0..m |-> f[n]]
    /\ f[0] = a /\ \A n \in 1..m : f[n] = InflateRepr(f[n - 1], block[n])

DeflatesTo(a, nva, f, m) ==
    /\ f = [n \in 0..m |-> f[n]]
    /\ f[0] = a /\ \A n \in 1..m : f[n] = Deflated(f[n - 1], nva[n])

(* Representations can be inflated one after the other. *)
LEMMA InflatesToExists ==
    ASSUME NEW a, NEW s, NEW m \in Nat
    PROVE  \E f : InflatesTo(a, s, f, m)
  <1>. DEFINE P(i) == \E f : InflatesTo(a, s, f, i)
              S == {i \in Nat : P(i)}
  <1>1. 0 \in S
    <2>. DEFINE f == [n \in 0..0 |-> a]
    <2>1. f = [n \in 0..0 |-> f[n]] /\ f[0] = a
      OBVIOUS
    <2>2. \A n \in 1..0 : f[n] = InflateRepr(f[n - 1], s[n])
      OBVIOUS
    <2>. HIDE DEF f
    <2>3. P(0)
      BY <2>1, <2>2 DEF InflatesTo
    <2>. QED
      BY <2>3
  <1>2. ASSUME NEW i \in S PROVE i + 1 \in S
    <2>0. i \in Nat /\ P(i)
      OBVIOUS
    <2>1. PICK f : InflatesTo(a, s, f, i)
      BY <2>0
    <2>. DEFINE g == [n \in 0..(i + 1) |->
                        IF n = i + 1 THEN InflateRepr(f[i], s[i + 1]) ELSE f[n]]
    <2>2. g = [n \in 0..(i + 1) |-> g[n]]
      OBVIOUS
    <2>3. g[i + 1] = InflateRepr(f[i], s[i + 1]) /\ \A n \in 0..i : g[n] = f[n]
      BY <2>0
    <2>. HIDE DEF g
    <2>4. g[0] = a
      BY <2>0, <2>1, <2>3, SMTT(30) DEF InflatesTo
    <2>5. ASSUME NEW n \in 1..(i + 1) PROVE g[n] = InflateRepr(g[n - 1], s[n])
      <3>1. CASE n = i + 1
        <4>1. n - 1 = i /\ i \in 0..i
          BY <2>0, <3>1
        <4>2. g[n - 1] = f[i]
          BY <2>3, <4>1
        <4>. QED
          BY <2>3, <3>1, <4>2
      <3>2. CASE n # i + 1
        <4>1. n \in 1..i /\ n \in 0..i /\ n - 1 \in 0..i
          BY <2>0, <3>2
        <4>. QED
          BY <2>1, <2>3, <4>1 DEF InflatesTo
      <3>. QED
        BY <3>1, <3>2
    <2>6. P(i + 1)
      BY <2>2, <2>4, <2>5 DEF InflatesTo
    <2>. HIDE DEF P
    <2>. QED
      BY <2>0, <2>6
  <1>3. S = Nat
    <2>1. S \in SUBSET Nat
      OBVIOUS
    <2>. HIDE DEF S
    <2>. QED
      BY <1>1, <1>2, <2>1, Induction
  <1>4. m \in S
    <2>. HIDE DEF S
    <2>. QED
      BY <1>3
  <1>. QED
    BY <1>4

(* Fields can be deflated one after the other. *)
LEMMA DeflatesToExists ==
    ASSUME NEW a, NEW s, NEW m \in Nat
    PROVE  \E f : DeflatesTo(a, s, f, m)
  <1>. DEFINE P(i) == \E f : DeflatesTo(a, s, f, i)
              S == {i \in Nat : P(i)}
  <1>1. 0 \in S
    <2>. DEFINE f == [n \in 0..0 |-> a]
    <2>1. f = [n \in 0..0 |-> f[n]] /\ f[0] = a
      OBVIOUS
    <2>2. \A n \in 1..0 : f[n] = Deflated(f[n - 1], s[n])
      OBVIOUS
    <2>. HIDE DEF f
    <2>3. P(0)
      BY <2>1, <2>2 DEF DeflatesTo
    <2>. QED
      BY <2>3
  <1>2. ASSUME NEW i \in S PROVE i + 1 \in S
    <2>0. i \in Nat /\ P(i)
      OBVIOUS
    <2>1. PICK f : DeflatesTo(a, s, f, i)
      BY <2>0
    <2>. DEFINE g == [n \in 0..(i + 1) |->
                        IF n = i + 1 THEN Deflated(f[i], s[i + 1]) ELSE f[n]]
    <2>2. g = [n \in 0..(i + 1) |-> g[n]]
      OBVIOUS
    <2>3. g[i + 1] = Deflated(f[i], s[i + 1]) /\ \A n \in 0..i : g[n] = f[n]
      BY <2>0
    <2>. HIDE DEF g
    <2>4. g[0] = a
      BY <2>0, <2>1, <2>3, SMTT(30) DEF DeflatesTo
    <2>5. ASSUME NEW n \in 1..(i + 1) PROVE g[n] = Deflated(g[n - 1], s[n])
      <3>1. CASE n = i + 1
        <4>1. n - 1 = i /\ i \in 0..i
          BY <2>0, <3>1
        <4>2. g[n - 1] = f[i]
          BY <2>3, <4>1
        <4>. QED
          BY <2>3, <3>1, <4>2
      <3>2. CASE n # i + 1
        <4>1. n \in 1..i /\ n \in 0..i /\ n - 1 \in 0..i
          BY <2>0, <3>2
        <4>. QED
          BY <2>1, <2>3, <4>1 DEF DeflatesTo
      <3>. QED
        BY <3>1, <3>2
    <2>6. P(i + 1)
      BY <2>2, <2>4, <2>5 DEF DeflatesTo
    <2>. HIDE DEF P
    <2>. QED
      BY <2>0, <2>6
  <1>3. S = Nat
    <2>1. S \in SUBSET Nat
      OBVIOUS
    <2>. HIDE DEF S
    <2>. QED
      BY <1>1, <1>2, <2>1, Induction
  <1>4. m \in S
    <2>. HIDE DEF S
    <2>. QED
      BY <1>3
  <1>. QED
    BY <1>4

(* The end of a block. *)
Ended(r) ==
    IF r.I.bad \/ r.I.state = "EXPECT_TABLE_SIZE"
    THEN [r EXCEPT !.I.bad = TRUE] ELSE [r EXCEPT !.I.state = "START"]

(* nghttp2_hd_inflate_hd_nv inflates them one after the other. *)
LEMMA InflateSteps ==
    ASSUME NEW I, NEW block, Len(block) \in Nat
    PROVE  \E f : /\ InflatesTo([I |-> I, out |-> <<>>], block, f, Len(block))
                  /\ nghttp2_hd_inflate_hd_nv(I, block) = Ended(f[Len(block)])
  <1>. DEFINE m == Len(block)
              a == [I |-> I, out |-> <<>>]
              R(f) == [n \in 0..Len(block) |->
                         IF n = 0 THEN [I |-> I, out |-> <<>>]
                         ELSE InflateRepr(f[n - 1], block[n])]
              done == CHOOSE f : f = R(f)
  <1>1. \E f : f = R(f)
    <2>1. PICK f : InflatesTo(a, block, f, m)
      BY InflatesToExists
    <2>2. ASSUME NEW n \in 0..m
          PROVE  f[n] = IF n = 0 THEN a ELSE InflateRepr(f[n - 1], block[n])
      <3>1. CASE n = 0
        BY <2>1, <3>1 DEF InflatesTo
      <3>2. CASE n # 0
        <4>1. n \in 1..m
          BY <3>2
        <4>. QED
          BY <2>1, <3>2, <4>1 DEF InflatesTo
      <3>. QED
        BY <3>1, <3>2
    <2>3. f = R(f)
      BY <2>1, <2>2 DEF InflatesTo
    <2>. QED
      BY <2>3
  <1>2. done = R(done)
    BY <1>1
  <1>3. nghttp2_hd_inflate_hd_nv(I, block) = Ended(done[m])
    BY DEF nghttp2_hd_inflate_hd_nv, Ended
  <1>. HIDE DEF done
  <1>4. done = [n \in 0..m |-> done[n]]
    BY <1>2
  <1>5. done[0] = a
    BY <1>2
  <1>6. \A n \in 1..m : done[n] = InflateRepr(done[n - 1], block[n])
    BY <1>2
  <1>. QED
    BY <1>3, <1>4, <1>5, <1>6 DEF InflatesTo

(* nghttp2_hd_deflate_hd_bufs deflates them one after the other. *)
LEMMA DeflateSteps ==
    ASSUME NEW D, NEW nva, Len(nva) \in Nat
    PROVE  \E f : /\ DeflatesTo([D |-> Announced(D), block |-> SizeUpdates(D)],
                                nva, f, Len(nva))
                  /\ nghttp2_hd_deflate_hd_bufs(D, nva) = f[Len(nva)]
  <1>. DEFINE m == Len(nva)
              a == [D |-> Announced(D), block |-> SizeUpdates(D)]
              R(f) == [n \in 0..Len(nva) |-> IF n = 0 THEN a ELSE Deflated(f[n - 1], nva[n])]
              done == CHOOSE f : f = R(f)
  <1>1. \E f : f = R(f)
    <2>1. PICK f : DeflatesTo(a, nva, f, m)
      BY DeflatesToExists
    <2>2. ASSUME NEW n \in 0..m
          PROVE  f[n] = IF n = 0 THEN a ELSE Deflated(f[n - 1], nva[n])
      <3>1. CASE n = 0
        BY <2>1, <3>1 DEF DeflatesTo
      <3>2. CASE n # 0
        <4>1. n \in 1..m
          BY <3>2
        <4>. QED
          BY <2>1, <3>2, <4>1 DEF DeflatesTo
      <3>. QED
        BY <3>1, <3>2
    <2>3. f = R(f)
      BY <2>1, <2>2 DEF DeflatesTo
    <2>. QED
      BY <2>3
  <1>2. done = R(done)
    BY <1>1
  <1>3. nghttp2_hd_deflate_hd_bufs(D, nva) = done[m]
    BY DEF nghttp2_hd_deflate_hd_bufs, Announced, Deflated
  <1>. HIDE DEF done, a
  <1>4. done = [n \in 0..m |-> done[n]]
    BY <1>2
  <1>5. done[0] = a
    BY <1>2
  <1>6. \A n \in 1..m : done[n] = Deflated(done[n - 1], nva[n])
    BY <1>2
  <1>. QED
    BY <1>3, <1>4, <1>5, <1>6 DEF DeflatesTo, a

(* Reading the sizes brings the inflater where the deflater already is. *)
LEMMA SizesRead ==
    ASSUME NEW D, DeflaterOk(D), NEW I, InflaterOk(I), Synced(D, I),
           NEW block, NEW f, NEW m \in Nat,
           InflatesTo([I |-> I, out |-> <<>>], block, f, m),
           Len(SizeUpdates(D)) <= m,
           \A k \in 1..Len(SizeUpdates(D)) : block[k] = SizeUpdates(D)[k],
           NEW r, r = f[Len(SizeUpdates(D))]
    PROVE  r = [I |-> r.I, out |-> <<>>] /\ InflaterOk(r.I) /\ InSync(Announced(D), r.I)
  <1>. DEFINE U == SizeUpdates(D)
              E == Announced(D)
              max == D.ctx.hd_table_bufsize_max
              T == TableOf(D.ctx)
              t == TableOf(I.ctx)
              a == [I |-> I, out |-> <<>>]
  <1>1. /\ DeflaterOk(E) /\ E.ctx = D.ctx
        /\ E.min = IF D.notify THEN NoLimit ELSE D.min
    BY AnnouncedOk
  <1>2. /\ T \in Seq(Fields) /\ max \in Sizes /\ max \in Nat
        /\ D.min # NoLimit => D.min \in Nat
        /\ Low(D) \in Nat /\ RoomFor(T) \in Nat /\ RoomFor(T) <= max
        /\ t \in Seq(Fields)
    BY DeflaterFacts, InflaterFacts
  <1>3. f[0] = a /\ \A n \in 1..m : f[n] = InflateRepr(f[n - 1], block[n])
    BY DEF InflatesTo
  <1>. HIDE DEF E, max, T, t
  <1>4. CASE ~D.notify
    <2>1. U = <<>>
      BY <1>4 DEF SizeUpdates
    <2>2. Len(U) = 0
      BY <2>1
    <2>3. f[Len(U)] = a /\ a.I = I
      BY <1>3, <2>2
    <2>4. InSync(E, I)
      <3>1. InSync(D, I)
        BY <1>4 DEF Synced
      <3>. QED
        BY <1>1, <1>4, <3>1 DEF InSync, SameTables
    <2>. QED
      BY <2>3, <2>4 DEF E
  <1>5. CASE D.notify
    <2>0. /\ D.min = NoLimit => max = D.deflate_max
          /\ T = Trim(t, 0, Low(D))
          /\ Low(D) <= max /\ max <= I.settings
          /\ I.min # NoLimit => Low(D) <= I.min
          /\ I.state # "OPCODE"
      BY <1>5 DEF Synced, Behind, max, T, t
    <2>1. ASSUME NEW J, InflaterOk(J), J.min = NoLimit, J.state = "START",
                 J.ctx.hd_table_bufsize_max = max, TableOf(J.ctx) = T,
                 J.settings = I.settings
          PROVE  InSync(E, J)
      BY <1>1, <1>5, <2>0, <2>1 DEF InSync, SameTables, max, T
    <2>2. CASE D.min # NoLimit /\ max > D.min
      <3>1. U = <<TableSize(D.min)>> \o <<TableSize(max)>>
        BY <1>5, <2>2 DEF SizeUpdates, max
      <3>2. Len(U) = 2 /\ U[1] = TableSize(D.min) /\ U[2] = TableSize(max)
        BY <3>1
      <3>3. Low(D) = D.min /\ D.min \in Sizes
        BY <2>2 DEF Low, DeflaterOk
      <3>. DEFINE q == f[1]
                  y == f[2]
      <3>. HIDE DEF U
      <3>4. /\ 1 \in 1..m /\ 2 \in 1..m /\ 1 - 1 = 0 /\ 2 - 1 = 1
            /\ 1 \in 1..Len(U) /\ 2 \in 1..Len(U)
        BY <3>2 DEF U
      <3>5. q = InflateRepr(a, TableSize(D.min)) /\ y = InflateRepr(q, TableSize(max))
        <4>1. block[1] = U[1] /\ block[2] = U[2]
          BY <3>4 DEF U
        <4>. QED
          BY <1>3, <3>2, <3>4, <4>1
      <3>6. D.min <= I.settings /\ (I.min # NoLimit => D.min <= I.min)
        <4>1. I.settings \in Nat
          BY InflaterFacts
        <4>. QED
          BY <1>2, <2>0, <2>2, <3>3, <4>1
      <3>. HIDE DEF q, y
      <3>7. /\ InflaterOk(q.I) /\ q.I.state = "START" /\ q.I.min = NoLimit
            /\ q.I.settings = I.settings
            /\ TableOf(q.I.ctx) = T /\ q = [I |-> q.I, out |-> <<>>]
        BY <2>0, <3>3, <3>5, <3>6, SizeRead DEF t
      <3>. DEFINE K == q.I
      <3>8. /\ InflaterOk(K) /\ K.state # "OPCODE" /\ K.min = NoLimit
            /\ K.settings = I.settings /\ TableOf(K.ctx) = T
            /\ y = InflateRepr([I |-> K, out |-> <<>>], TableSize(max))
        BY <3>5, <3>7
      <3>. HIDE DEF K
      <3>9. /\ InflaterOk(y.I) /\ y.I.state = "START" /\ y.I.min = NoLimit
            /\ y.I.settings = I.settings /\ y.I.ctx.hd_table_bufsize_max = max
            /\ TableOf(y.I.ctx) = Trim(T, 0, max)
            /\ y = [I |-> y.I, out |-> <<>>]
        BY <1>2, <2>0, <3>8, SizeRead
      <3>10. Trim(T, 0, max) = T
        <4>1. RoomFor(T) + 0 <= max
          BY <1>2
        <4>. QED
          BY <1>2, <4>1, TrimFull
      <3>11. InSync(E, y.I)
        BY <2>1, <3>9, <3>10
      <3>. QED
        BY <3>2, <3>9, <3>11 DEF y, E, U
    <2>3. CASE ~(D.min # NoLimit /\ max > D.min)
      <3>1. U = <<>> \o <<TableSize(max)>>
        BY <1>5, <2>3 DEF SizeUpdates, max
      <3>2. Len(U) = 1 /\ U[1] = TableSize(max)
        BY <3>1
      <3>3. Low(D) = max
        <4>1. CASE D.min = NoLimit
          BY <4>1 DEF Low, max
        <4>2. CASE D.min # NoLimit
          <5>1. Low(D) = D.min
            BY <4>2 DEF Low
          <5>. QED
            BY <1>2, <2>0, <2>3, <4>2, <5>1
        <4>. QED
          BY <4>1, <4>2
      <3>. DEFINE y == f[1]
      <3>. HIDE DEF U
      <3>4. 1 \in 1..m /\ 1 - 1 = 0 /\ 1 \in 1..Len(U)
        BY <3>2 DEF U
      <3>5. y = InflateRepr(a, TableSize(max))
        <4>1. block[1] = U[1]
          BY <3>4 DEF U
        <4>. QED
          BY <1>3, <3>2, <3>4, <4>1
      <3>6. max <= I.settings /\ (I.min # NoLimit => max <= I.min)
        BY <2>0, <3>3
      <3>. HIDE DEF y
      <3>7. /\ InflaterOk(y.I) /\ y.I.state = "START" /\ y.I.min = NoLimit
            /\ y.I.settings = I.settings /\ y.I.ctx.hd_table_bufsize_max = max
            /\ TableOf(y.I.ctx) = T /\ y = [I |-> y.I, out |-> <<>>]
        BY <1>2, <2>0, <3>3, <3>5, <3>6, SizeRead DEF t
      <3>8. InSync(E, y.I)
        BY <2>1, <3>7
      <3>. QED
        BY <3>2, <3>7, <3>8 DEF y, E, U
    <2>. QED
      BY <2>2, <2>3
  <1>. QED
    BY <1>4, <1>5

(* The sizes at the head of a block are representations. *)
LEMMA SizeUpdatesType ==
    ASSUME NEW D, DeflaterOk(D)
    PROVE  SizeUpdates(D) \in Seq(Reprs) /\ Len(SizeUpdates(D)) \in Nat
  <1>. DEFINE max == D.ctx.hd_table_bufsize_max
              A == IF D.min # NoLimit /\ max > D.min THEN <<TableSize(D.min)>> ELSE <<>>
  <1>1. \A n \in Sizes : TableSize(n) \in Reprs
    BY DEF TableSize, Reprs
  <1>2. max \in Sizes /\ (D.min # NoLimit => D.min \in Sizes)
    BY DeflaterFacts DEF DeflaterOk
  <1>. HIDE DEF max
  <1>3. A \in Seq(Reprs)
    <2>1. CASE D.min # NoLimit /\ max > D.min
      BY <1>1, <1>2, <2>1
    <2>2. CASE ~(D.min # NoLimit /\ max > D.min)
      BY <2>2
    <2>. QED
      BY <2>1, <2>2
  <1>4. <<TableSize(max)>> \in Seq(Reprs)
    BY <1>1, <1>2
  <1>. HIDE DEF A
  <1>5. A \o <<TableSize(max)>> \in Seq(Reprs)
    BY <1>3, <1>4, ConcatProperties
  <1>6. SizeUpdates(D) = IF ~D.notify THEN <<>> ELSE A \o <<TableSize(max)>>
    BY DEF SizeUpdates, A, max
  <1>7. SizeUpdates(D) \in Seq(Reprs)
    <2>1. <<>> \in Seq(Reprs)
      BY EmptySeq
    <2>. QED
      BY <1>5, <1>6, <2>1
  <1>. QED
    BY <1>7, LenProperties

-----------------------------------------------------------------------------
(* A whole block *)

(* What k fields of nva and the sizes announced before them have become. *)
Encoded(D, nva, h, k) ==
    /\ DeflaterOk(h[k].D) /\ ~h[k].D.notify
    /\ h[k].D.min = Announced(D).min
    /\ h[k].D.ctx.hd_table_bufsize_max = D.ctx.hd_table_bufsize_max
    /\ h[k].block \in Seq(Reprs)
    /\ Len(h[k].block) = Len(SizeUpdates(D)) + k
    /\ \A j \in 1..Len(SizeUpdates(D)) : h[k].block[j] = SizeUpdates(D)[j]
    /\ \A j \in 1..k : h[k].block[Len(SizeUpdates(D)) + j]
                       = deflate_nv(h[j - 1].D, nva[j]).repr

(* The block starts with the sizes and has one representation per field. *)
LEMMA BlockEncoded ==
    ASSUME NEW D, DeflaterOk(D), NEW nva \in Seq(Fields), NEW h,
           DeflatesTo([D |-> Announced(D), block |-> SizeUpdates(D)], nva, h, Len(nva)),
           NEW k \in 0..Len(nva)
    PROVE  Encoded(D, nva, h, k)
  <1>. DEFINE U == SizeUpdates(D)
              u == Len(U)
              E == Announced(D)
              n == Len(nva)
              Repr(j) == deflate_nv(h[j - 1].D, nva[j]).repr
              Good(i) == /\ DeflaterOk(h[i].D) /\ ~h[i].D.notify
                         /\ h[i].D.min = E.min
                         /\ h[i].D.ctx.hd_table_bufsize_max = D.ctx.hd_table_bufsize_max
                         /\ h[i].block \in Seq(Reprs) /\ Len(h[i].block) = u + i
                         /\ \A j \in 1..u : h[i].block[j] = U[j]
                         /\ \A j \in 1..i : h[i].block[u + j] = Repr(j)
              S == {i \in Nat : i <= n => Good(i)}
  <1>0. U \in Seq(Reprs) /\ u \in Nat
    BY SizeUpdatesType
  <1>1. n \in Nat /\ \A j \in 1..n : nva[j] \in Fields
    BY LenProperties, ElementOfSeq
  <1>2. /\ h[0] = [D |-> E, block |-> U]
        /\ \A j \in 1..n : h[j] = Deflated(h[j - 1], nva[j])
    BY DEF DeflatesTo
  <1>3. DeflaterOk(E) /\ E.ctx = D.ctx /\ ~E.notify
    BY AnnouncedOk
  <1>. HIDE DEF U, u, E, n, Repr
  <1>4. 0 \in S
    <2>1. h[0].D = E /\ h[0].block = U
      BY <1>2
    <2>2. Len(h[0].block) = u + 0
      BY <1>0, <2>1 DEF u
    <2>3. Good(0)
      BY <1>0, <1>3, <2>1, <2>2
    <2>. HIDE DEF Good
    <2>. QED
      BY <2>3
  <1>5. ASSUME NEW i \in S PROVE i + 1 \in S
    <2>0. i \in Nat
      OBVIOUS
    <2>. SUFFICES ASSUME i + 1 <= n PROVE Good(i + 1)
      <3>. HIDE DEF Good
      <3>. QED
        BY <2>0
    <2>1. Good(i)
      <3>. HIDE DEF Good
      <3>. QED
        BY <1>1, <2>0
    <2>2. i + 1 \in 1..n /\ (i + 1) - 1 = i
      <3>. HIDE DEF S
      <3>. QED
        BY <1>1, <2>0
    <2>. DEFINE nv == nva[i + 1]
                G == h[i].D
                b == h[i].block
                x == deflate_nv(G, nv)
    <2>3. h[i + 1].D = x.D /\ h[i + 1].block = Append(b, x.repr) /\ x.repr = Repr(i + 1)
      <3>1. h[i + 1] = Deflated(h[i], nva[i + 1])
        BY <1>2, <2>2
      <3>2. Repr(i + 1) = deflate_nv(h[i].D, nva[i + 1]).repr
        BY <2>2 DEF Repr
      <3>. QED
        BY <3>1, <3>2 DEF Deflated
    <2>4. DeflaterOk(G) /\ nv \in Fields
      BY <1>1, <2>1, <2>2
    <2>. HIDE DEF nv, G, S
    <2>5. /\ DeflaterOk(x.D) /\ x.repr \in Reprs
          /\ x.D.min = G.min /\ x.D.notify = G.notify
          /\ x.D.ctx.hd_table_bufsize_max = G.ctx.hd_table_bufsize_max
      BY <2>4, FieldEncoded
    <2>. HIDE DEF x
    <2>6. b \in Seq(Reprs) /\ Len(b) = u + i
      BY <2>1
    <2>7. /\ Append(b, x.repr) \in Seq(Reprs) /\ Len(Append(b, x.repr)) = u + (i + 1)
          /\ \A j \in 1..(u + i) : Append(b, x.repr)[j] = b[j]
          /\ Append(b, x.repr)[u + (i + 1)] = x.repr
      <3>. HIDE DEF b
      <3>1. /\ Append(b, x.repr) \in Seq(Reprs) /\ Len(Append(b, x.repr)) = Len(b) + 1
            /\ \A j \in 1..Len(b) : Append(b, x.repr)[j] = b[j]
            /\ Append(b, x.repr)[Len(b) + 1] = x.repr
        BY <2>5, <2>6, AppendProperties
      <3>2. (u + i) + 1 = u + (i + 1)
        BY <1>0, <2>0
      <3>. QED
        BY <2>6, <3>1, <3>2
    <2>8. \A j \in 1..u : h[i + 1].block[j] = U[j]
      <3>. SUFFICES ASSUME NEW j \in 1..u PROVE h[i + 1].block[j] = U[j]
        OBVIOUS
      <3>1. j \in 1..(u + i)
        BY <1>0, <2>0
      <3>2. b[j] = U[j]
        BY <2>1
      <3>. HIDE DEF b
      <3>. QED
        BY <2>3, <2>7, <3>1, <3>2
    <2>9. \A j \in 1..(i + 1) : h[i + 1].block[u + j] = Repr(j)
      <3>. SUFFICES ASSUME NEW j \in 1..(i + 1) PROVE h[i + 1].block[u + j] = Repr(j)
        OBVIOUS
      <3>1. CASE j = i + 1
        <4>. HIDE DEF b
        <4>. QED
          BY <2>3, <2>7, <3>1
      <3>2. CASE j # i + 1
        <4>1. j \in 1..i /\ u + j \in 1..(u + i)
          BY <1>0, <2>0, <3>2
        <4>2. b[u + j] = Repr(j)
          BY <2>1, <4>1
        <4>. HIDE DEF b
        <4>. QED
          BY <2>3, <2>7, <4>1, <4>2
      <3>. QED
        BY <3>1, <3>2
    <2>10. ~G.notify /\ G.min = E.min
           /\ G.ctx.hd_table_bufsize_max = D.ctx.hd_table_bufsize_max
      BY <2>1 DEF G
    <2>. HIDE DEF b
    <2>. QED
      BY <2>3, <2>5, <2>7, <2>8, <2>9, <2>10
  <1>6. S = Nat
    <2>1. S \in SUBSET Nat
      OBVIOUS
    <2>. HIDE DEF S
    <2>. QED
      BY <1>4, <1>5, <2>1, Induction
  <1>7. Good(k)
    <2>1. k \in S /\ k <= n
      <3>. HIDE DEF S
      <3>1. k \in Nat /\ k <= n
        BY <1>1 DEF n
      <3>. QED
        BY <1>6, <3>1
    <2>. HIDE DEF Good
    <2>. QED
      BY <2>1
  <1>. QED
    BY <1>7 DEF Encoded, U, u, E, Repr

(* A beginning of a sequence with the next element appended. *)
LEMMA PrefixAppend ==
    ASSUME NEW S, NEW s \in Seq(S), NEW k \in 0..(Len(s) - 1)
    PROVE  Append(SubSeq(s, 1, k), s[k + 1]) = SubSeq(s, 1, k + 1)
  <1>. DEFINE a == SubSeq(s, 1, k)
              b == SubSeq(s, 1, k + 1)
  <1>0. Len(s) \in Nat /\ k \in 0..Len(s) /\ k + 1 \in 0..Len(s) /\ k + 1 \in 1..Len(s)
    BY LenProperties
  <1>1. a \in Seq(S) /\ Len(a) = k /\ \A i \in 1..k : a[i] = s[i]
    BY <1>0, PrefixIs
  <1>2. b \in Seq(S) /\ Len(b) = k + 1 /\ \A i \in 1..(k + 1) : b[i] = s[i]
    BY <1>0, PrefixIs
  <1>3. s[k + 1] \in S
    BY <1>0, ElementOfSeq
  <1>. HIDE DEF a, b
  <1>. DEFINE c == Append(a, s[k + 1])
  <1>4. /\ c \in Seq(S) /\ Len(c) = k + 1 /\ \A i \in 1..k : c[i] = a[i]
        /\ c[k + 1] = s[k + 1]
    BY <1>1, <1>3, AppendProperties
  <1>. HIDE DEF c
  <1>5. \A i \in 1..Len(c) : c[i] = b[i]
    BY <1>0, <1>1, <1>2, <1>4
  <1>6. c = b
    BY <1>2, <1>4, <1>5, SeqEqual
  <1>. QED
    BY <1>6 DEF a, b, c

(* What has been encoded is decoded to the same fields, and the two sides   *)
(* are in step again.                                                       *)
LEMMA BlockDecoded ==
    ASSUME NEW D, DeflaterOk(D), NEW I, InflaterOk(I), Synced(D, I),
           NEW nva \in Seq(Fields),
           NEW r, r = nghttp2_hd_deflate_hd_bufs(D, nva),
           NEW y, y = nghttp2_hd_inflate_hd_nv(I, r.block)
    PROVE  /\ DeflaterOk(r.D) /\ r.block \in Seq(Reprs)
           /\ InflaterOk(y.I) /\ y.out = nva /\ y.I.state = "START"
           /\ Synced(r.D, y.I)
  <1>. DEFINE U == SizeUpdates(D)
              u == Len(U)
              E == Announced(D)
              n == Len(nva)
              block == r.block
              m == Len(block)
  <1>0. u \in Nat /\ n \in Nat /\ \A j \in 1..n : nva[j] \in Fields
    BY SizeUpdatesType, LenProperties, ElementOfSeq
  <1>1. PICK h : /\ DeflatesTo([D |-> E, block |-> U], nva, h, n)
                 /\ nghttp2_hd_deflate_hd_bufs(D, nva) = h[n]
    BY <1>0, DeflateSteps
  <1>2. \A k \in 0..n :
          /\ DeflaterOk(h[k].D) /\ ~h[k].D.notify /\ h[k].D.min = E.min
          /\ h[k].D.ctx.hd_table_bufsize_max = D.ctx.hd_table_bufsize_max
          /\ h[k].block \in Seq(Reprs) /\ Len(h[k].block) = u + k
          /\ \A j \in 1..u : h[k].block[j] = U[j]
          /\ \A j \in 1..k : h[k].block[u + j] = deflate_nv(h[j - 1].D, nva[j]).repr
    <2>1. TAKE k \in 0..n
    <2>2. Encoded(D, nva, h, k)
      BY <1>1, BlockEncoded
    <2>. QED
      BY <2>2 DEF Encoded
  <1>3. /\ h[0].D = E
        /\ \A j \in 1..n : h[j].D = deflate_nv(h[j - 1].D, nva[j]).D
    <2>. HIDE DEF U, E, n
    <2>1. /\ h[0] = [D |-> E, block |-> U]
          /\ \A j \in 1..n : h[j] = Deflated(h[j - 1], nva[j])
      BY <1>1 DEF DeflatesTo
    <2>2. h[0].D = E
      BY <2>1
    <2>3. ASSUME NEW j \in 1..n PROVE h[j].D = deflate_nv(h[j - 1].D, nva[j]).D
      <3>1. h[j] = Deflated(h[j - 1], nva[j])
        BY <2>1
      <3>. QED
        BY <3>1 DEF Deflated
    <2>. QED
      BY <2>2, <2>3
  <1>4. r = h[n] /\ n \in 0..n
    BY <1>0, <1>1
  <1>5. /\ block \in Seq(Reprs) /\ m = u + n /\ m \in Nat
        /\ \A j \in 1..u : block[j] = U[j]
        /\ \A j \in 1..n : block[u + j] = deflate_nv(h[j - 1].D, nva[j]).repr
    <2>1. block = h[n].block
      BY <1>4
    <2>. HIDE DEF u, n, U, E, block
    <2>2. /\ h[n].block \in Seq(Reprs) /\ Len(h[n].block) = u + n
          /\ \A j \in 1..u : h[n].block[j] = U[j]
          /\ \A j \in 1..n : h[n].block[u + j] = deflate_nv(h[j - 1].D, nva[j]).repr
      BY <1>2, <1>4
    <2>. QED
      BY <1>0, <2>1, <2>2
  <1>. HIDE DEF block
  <1>6. PICK f : /\ InflatesTo([I |-> I, out |-> <<>>], block, f, m)
                 /\ nghttp2_hd_inflate_hd_nv(I, block) = Ended(f[m])
    BY <1>5, InflateSteps
  <1>7. \A j \in 1..m : f[j] = InflateRepr(f[j - 1], block[j])
    BY <1>6 DEF InflatesTo
  <1>8. /\ f[u] = [I |-> f[u].I, out |-> <<>>]
        /\ InflaterOk(f[u].I) /\ InSync(E, f[u].I)
    <2>1. u <= m
      <3>. HIDE DEF u, n, m
      <3>. QED
        BY <1>0, <1>5
    <2>. HIDE DEF m
    <2>. QED
      BY <1>5, <1>6, <2>1, SizesRead
  <1>. DEFINE max == D.ctx.hd_table_bufsize_max
              Out(k) == SubSeq(nva, 1, k)
              Good(k) == /\ f[u + k] = [I |-> f[u + k].I, out |-> Out(k)]
                         /\ InflaterOk(f[u + k].I) /\ SameTables(h[k].D, f[u + k].I)
                         /\ f[u + k].I.state \in {"START", "OPCODE"}
                         /\ f[u + k].I.min = NoLimit /\ max <= f[u + k].I.settings
              S == {k \in Nat : k <= n => Good(k)}
  <1>. HIDE DEF U, u, n, m, block, max, Out
  <1>9. E.ctx = D.ctx
    BY AnnouncedOk
  <1>. HIDE DEF E
  <1>10. 0 \in S
    <2>1. Out(0) = <<>>
      <3>1. 0 \in 0..Len(nva)
        BY <1>0 DEF n
      <3>. QED
        BY <3>1, PrefixIs DEF Out
    <2>2. u + 0 = u
      BY <1>0
    <2>3. /\ SameTables(E, f[u].I) /\ f[u].I.state = "START" /\ f[u].I.min = NoLimit
          /\ max <= f[u].I.settings
      BY <1>8, <1>9 DEF InSync, max
    <2>4. Good(0)
      BY <1>3, <1>8, <2>1, <2>2, <2>3
    <2>. HIDE DEF Good
    <2>. QED
      BY <2>4
  <1>11. ASSUME NEW k \in S PROVE k + 1 \in S
    <2>0. k \in Nat
      OBVIOUS
    <2>. SUFFICES ASSUME k + 1 <= n PROVE Good(k + 1)
      <3>. HIDE DEF Good
      <3>. QED
        BY <2>0
    <2>1. Good(k)
      <3>. HIDE DEF Good
      <3>. QED
        BY <1>0, <2>0
    <2>2. /\ k + 1 \in 1..n /\ (k + 1) - 1 = k /\ k \in 0..n /\ k \in 0..(n - 1)
          /\ u + (k + 1) \in 1..m /\ (u + (k + 1)) - 1 = u + k
      <3>. HIDE DEF S
      <3>. QED
        BY <1>0, <1>5, <2>0
    <2>. DEFINE nv == nva[k + 1]
                G == h[k].D
                J == f[u + k].I
                o == Out(k)
                x == deflate_nv(G, nv)
                z == InflateRepr([I |-> J, out |-> o], x.repr)
    <2>3. DeflaterOk(G) /\ nv \in Fields
      BY <1>0, <1>2, <2>2
    <2>4. h[k + 1].D = x.D /\ block[u + (k + 1)] = x.repr
      <3>1. h[k + 1].D = deflate_nv(h[(k + 1) - 1].D, nva[k + 1]).D
        BY <1>3, <2>2
      <3>2. block[u + (k + 1)] = deflate_nv(h[(k + 1) - 1].D, nva[k + 1]).repr
        BY <1>5, <2>2
      <3>. QED
        BY <2>2, <3>1, <3>2
    <2>5. f[u + (k + 1)] = z
      <3>1. f[u + (k + 1)] = InflateRepr(f[u + k], block[u + (k + 1)])
        BY <1>7, <2>2
      <3>2. f[u + k] = [I |-> J, out |-> o]
        BY <2>1
      <3>. HIDE DEF x, J, o
      <3>. QED
        BY <2>4, <3>1, <3>2
    <2>6. /\ InflaterOk(J) /\ SameTables(G, J) /\ J.state \in {"START", "OPCODE"}
          /\ J.min = NoLimit /\ max <= J.settings
      BY <2>1
    <2>. HIDE DEF nv, G, J, o, S
    <2>7. /\ InflaterOk(z.I) /\ SameTables(x.D, z.I)
          /\ z.I.state = "OPCODE" /\ z.I.settings = J.settings /\ z.I.min = J.min
          /\ z.out = Append(o, nv) /\ z = [I |-> z.I, out |-> z.out]
      <3>1. J.state # "EXPECT_TABLE_SIZE"
        BY <2>6
      <3>. QED
        BY <2>3, <2>6, <3>1, FieldDecoded
    <2>8. Append(o, nv) = Out(k + 1)
      <3>1. Append(SubSeq(nva, 1, k), nva[k + 1]) = SubSeq(nva, 1, k + 1)
        <4>1. k \in 0..(Len(nva) - 1)
          BY <2>2 DEF n
        <4>. QED
          BY <4>1, PrefixAppend
      <3>. QED
        BY <3>1 DEF o, nv, Out
    <2>. HIDE DEF x, z
    <2>9. f[u + (k + 1)] = [I |-> f[u + (k + 1)].I, out |-> Out(k + 1)]
      BY <2>5, <2>7, <2>8
    <2>. QED
      BY <2>4, <2>5, <2>6, <2>7, <2>9
  <1>12. S = Nat
    <2>1. S \in SUBSET Nat
      OBVIOUS
    <2>. HIDE DEF S
    <2>. QED
      BY <1>10, <1>11, <2>1, Induction
  <1>13. Good(n)
    <2>1. n \in S /\ n <= n
      <3>. HIDE DEF S
      <3>. QED
        BY <1>0, <1>12
    <2>. HIDE DEF Good
    <2>. QED
      BY <2>1
  <1>. DEFINE J == f[m].I
  <1>14. /\ f[m] = [I |-> J, out |-> nva]
         /\ InflaterOk(J) /\ SameTables(r.D, J) /\ J.state \in {"START", "OPCODE"}
         /\ J.min = NoLimit /\ max <= J.settings
    <2>1. Out(n) = nva
      <3>1. n \in 0..Len(nva)
        BY <1>0 DEF n
      <3>. QED
        BY <3>1, PrefixIs DEF Out, n
    <2>. QED
      BY <1>4, <1>5, <1>13, <2>1
  <1>15. /\ J = [ctx |-> J.ctx, settings |-> J.settings, min |-> J.min,
                 state |-> J.state, bad |-> FALSE]
         /\ Sound(J.ctx, FALSE) /\ J.settings \in Sizes /\ J.min \in Sizes \cup {NoLimit}
         /\ J.bad = FALSE
    <2>1. J.bad = FALSE
      BY <1>14, InflaterFacts
    <2>. HIDE DEF J
    <2>. QED
      BY <1>14, <2>1 DEF InflaterOk
  <1>. DEFINE e == f[m]
              K == [J EXCEPT !.state = "START"]
  <1>16. y = [I |-> K, out |-> nva]
    <2>1. e.I = J /\ e = [I |-> J, out |-> nva] /\ ~e.I.bad
          /\ e.I.state # "EXPECT_TABLE_SIZE"
      <3>1. e.I = J
        OBVIOUS
      <3>. HIDE DEF J, e
      <3>. QED
        BY <1>14, <1>15, <3>1 DEF e
    <2>2. y = [e EXCEPT !.I.state = "START"]
      <3>1. y = Ended(e)
        BY <1>6 DEF block
      <3>. HIDE DEF e, J
      <3>. QED
        BY <2>1, <3>1 DEF Ended
    <2>. HIDE DEF e, J
    <2>. QED
      BY <2>1, <2>2
  <1>. HIDE DEF J, e
  <1>17. K = [ctx |-> J.ctx, settings |-> J.settings, min |-> J.min,
              state |-> "START", bad |-> FALSE]
    <2>. DEFINE no == FALSE
                start == "START"
    <2>1. J = [ctx |-> J.ctx, settings |-> J.settings, min |-> J.min,
               state |-> J.state, bad |-> no]
      BY <1>15
    <2>2. K = [J EXCEPT !.state = start]
      OBVIOUS
    <2>. HIDE DEF no, start, K
    <2>3. K = [ctx |-> J.ctx, settings |-> J.settings, min |-> J.min,
               state |-> start, bad |-> no]
      BY <2>1, <2>2
    <2>. QED
      BY <2>3 DEF no, start
  <1>. HIDE DEF K
  <1>18. K.ctx = J.ctx /\ K.settings = J.settings /\ K.min = J.min /\ K.state = "START"
    BY <1>17
  <1>19. InflaterOk(K)
    BY <1>15, <1>17, <1>18 DEF InflaterOk
  <1>20. DeflaterOk(r.D) /\ ~r.D.notify /\ r.D.min = NoLimit
         /\ r.D.ctx.hd_table_bufsize_max = max
    <2>1. E.min = NoLimit
      BY <1>8 DEF InSync
    <2>. QED
      BY <1>2, <1>4, <2>1 DEF max
  <1>21. InSync(r.D, K)
    <2>1. SameTables(r.D, K)
      BY <1>14, <1>18 DEF SameTables
    <2>. QED
      BY <1>14, <1>18, <1>20, <2>1 DEF InSync
  <1>22. Synced(r.D, K)
    BY <1>18, <1>20, <1>21 DEF Synced
  <1>23. y.I = K /\ y.out = nva
    BY <1>16
  <1>. QED
    BY <1>5, <1>18, <1>19, <1>20, <1>22, <1>23 DEF block

-----------------------------------------------------------------------------
(* What is on its way *)

(* A SETTINGS frame with the ACK flag. *)
Ack == [type |-> "ACK"]
Messages ==
    [type : {"ACK"}] \cup [type : {"HEADERS"}, block : Seq(Reprs), fields : Seq(Fields)]

(* The frames the inflating side has yet to process, the acknowledgements   *)
(* in ob_urgent last.                                                       *)
QueueOf(frames, n) ==
    [i \in 1..(Len(frames) + n) |-> IF i <= Len(frames) THEN frames[i] ELSE Ack]

(* What processing frame e makes of the inflater I, and how many SETTINGS   *)
(* have then been applied.                                                  *)
Link(e, I, J, j, k, frames) ==
    IF e.type = "ACK"
    THEN k = j + 1 /\ k \in 1..Len(frames) /\ J = InflaterResized(I, frames[k])
    ELSE /\ k = j /\ J = nghttp2_hd_inflate_hd_nv(I, e.block).I
         /\ nghttp2_hd_inflate_hd_nv(I, e.block).out = e.fields

(* The states f that the inflater will go through with the queue q, none of *)
(* them bad, and the number g of SETTINGS applied by then.                  *)
Chain(q, I, frames, f, g) ==
    /\ f[0] = I /\ g[0] = 0
    /\ \A i \in 0..Len(q) : InflaterOk(f[i]) /\ g[i] \in Nat
    /\ \A i \in 0..Len(q) : \A j \in 0..i : g[j] <= g[i]
    /\ \A i \in 1..Len(q) : Link(q[i], f[i - 1], f[i], g[i - 1], g[i], frames)

(* The queue is a sequence of messages. *)
LEMMA QueueIs ==
    ASSUME NEW s \in Seq(Messages), NEW n \in Nat
    PROVE  /\ QueueOf(s, n) \in Seq(Messages) /\ Len(QueueOf(s, n)) = Len(s) + n
           /\ \A i \in 1..(Len(s) + n) :
                QueueOf(s, n)[i] = IF i <= Len(s) THEN s[i] ELSE Ack
           /\ Ack \in Messages /\ Ack.type = "ACK"
  <1>1. Ack \in Messages /\ Ack.type = "ACK"
    BY DEF Ack, Messages
  <1>2. Len(s) \in Nat /\ \A i \in 1..Len(s) : s[i] \in Messages
    BY LenProperties, ElementOfSeq
  <1>. DEFINE q == QueueOf(s, n)
              N == Len(s) + n
  <1>3. q = [i \in 1..N |-> IF i <= Len(s) THEN s[i] ELSE Ack] /\ N \in Nat
    BY <1>2 DEF QueueOf
  <1>4. \A i \in 1..N : q[i] = IF i <= Len(s) THEN s[i] ELSE Ack
    BY <1>3
  <1>5. \A i \in 1..N : q[i] \in Messages
    BY <1>1, <1>2, <1>4
  <1>. HIDE DEF q, N
  <1>6. q = [i \in 1..N |-> q[i]]
    BY <1>3
  <1>7. q \in [1..N -> Messages]
    BY <1>5, <1>6
  <1>8. q \in Seq(Messages) /\ Len(q) = N
    BY <1>3, <1>7
  <1>. QED
    BY <1>1, <1>4, <1>8 DEF q, N

(* What is sent goes to the end of the queue, where the acknowledgements    *)
(* already are.                                                             *)
LEMMA QueueAppended ==
    ASSUME NEW s \in Seq(Messages), NEW n \in Nat
    PROVE  /\ QueueOf(s, n + 1) = Append(QueueOf(s, n), Ack)
           /\ n > 0 => QueueOf(Append(s, Ack), n - 1) = QueueOf(s, n)
           /\ \A e \in Messages : QueueOf(Append(s, e), 0) = Append(QueueOf(s, 0), e)
  <1>0. Len(s) \in Nat /\ Ack \in Messages
    BY LenProperties, QueueIs
  <1>1. QueueOf(s, n + 1) = Append(QueueOf(s, n), Ack)
    <2>. DEFINE a == QueueOf(s, n + 1)
                p == QueueOf(s, n)
                b == Append(p, Ack)
                N == Len(s) + n
    <2>1. /\ a \in Seq(Messages) /\ Len(a) = N + 1
          /\ \A i \in 1..(N + 1) : a[i] = IF i <= Len(s) THEN s[i] ELSE Ack
      <3>1. n + 1 \in Nat /\ Len(s) + (n + 1) = N + 1
        BY <1>0
      <3>. QED
        BY <3>1, QueueIs
    <2>2. /\ p \in Seq(Messages) /\ Len(p) = N
          /\ \A i \in 1..N : p[i] = IF i <= Len(s) THEN s[i] ELSE Ack
      BY QueueIs
    <2>. HIDE DEF a, p
    <2>3. /\ b \in Seq(Messages) /\ Len(b) = N + 1 /\ \A i \in 1..N : b[i] = p[i]
          /\ b[N + 1] = Ack
      BY <1>0, <2>2, AppendProperties
    <2>. HIDE DEF b
    <2>4. \A i \in 1..Len(a) : a[i] = b[i]
      <3>. SUFFICES ASSUME NEW i \in 1..(N + 1) PROVE a[i] = b[i]
        BY <2>1
      <3>1. CASE i = N + 1
        <4>1. ~(i <= Len(s)) /\ N + 1 \in 1..(N + 1)
          BY <1>0, <3>1
        <4>. HIDE DEF N
        <4>. QED
          BY <2>1, <2>3, <3>1, <4>1
      <3>2. CASE i # N + 1
        <4>1. i \in 1..N
          BY <1>0, <3>2
        <4>. HIDE DEF N
        <4>. QED
          BY <2>1, <2>2, <2>3, <4>1
      <3>. QED
        BY <3>1, <3>2
    <2>5. a = b
      BY <2>1, <2>3, <2>4, SeqEqual
    <2>. QED
      BY <2>5 DEF a, b, p
  <1>2. ASSUME n > 0 PROVE QueueOf(Append(s, Ack), n - 1) = QueueOf(s, n)
    <2>. DEFINE r == Append(s, Ack)
                a == QueueOf(r, n - 1)
                b == QueueOf(s, n)
    <2>1. /\ r \in Seq(Messages) /\ Len(r) = Len(s) + 1
          /\ \A i \in 1..Len(s) : r[i] = s[i]
          /\ r[Len(s) + 1] = Ack
      BY <1>0, AppendProperties
    <2>. HIDE DEF r
    <2>2. /\ a \in Seq(Messages) /\ Len(a) = Len(s) + n
          /\ \A i \in 1..(Len(s) + n) : a[i] = IF i <= Len(s) + 1 THEN r[i] ELSE Ack
      <3>1. n - 1 \in Nat /\ Len(r) + (n - 1) = Len(s) + n
        BY <1>0, <1>2, <2>1
      <3>2. /\ a \in Seq(Messages) /\ Len(a) = Len(r) + (n - 1)
            /\ \A i \in 1..(Len(r) + (n - 1)) : a[i] = IF i <= Len(r) THEN r[i] ELSE Ack
        BY <2>1, <3>1, QueueIs
      <3>. HIDE DEF a
      <3>. QED
        BY <2>1, <3>1, <3>2
    <2>3. /\ b \in Seq(Messages) /\ Len(b) = Len(s) + n
          /\ \A i \in 1..(Len(s) + n) : b[i] = IF i <= Len(s) THEN s[i] ELSE Ack
      BY QueueIs
    <2>. HIDE DEF a, b
    <2>4. \A i \in 1..Len(a) : a[i] = b[i]
      <3>. SUFFICES ASSUME NEW i \in 1..(Len(s) + n) PROVE a[i] = b[i]
        BY <2>2
      <3>1. CASE i <= Len(s)
        <4>1. i \in 1..Len(s) /\ i <= Len(s) + 1
          BY <1>0, <3>1
        <4>. QED
          BY <2>1, <2>2, <2>3, <4>1
      <3>2. CASE i = Len(s) + 1
        <4>1. ~(i <= Len(s)) /\ i <= Len(s) + 1
          BY <1>0, <3>2
        <4>. QED
          BY <2>1, <2>2, <2>3, <3>2, <4>1
      <3>3. CASE i > Len(s) + 1
        <4>1. ~(i <= Len(s)) /\ ~(i <= Len(s) + 1)
          BY <1>0, <3>3
        <4>. QED
          BY <2>2, <2>3, <4>1
      <3>. QED
        BY <1>0, <3>1, <3>2, <3>3
    <2>5. a = b
      BY <2>2, <2>3, <2>4, SeqEqual
    <2>. QED
      BY <2>5 DEF a, b, r
  <1>3. ASSUME NEW t \in Seq(Messages) PROVE QueueOf(t, 0) = t
    <2>. DEFINE a == QueueOf(t, 0)
    <2>0. Len(t) \in Nat
      BY LenProperties
    <2>1. /\ a \in Seq(Messages) /\ Len(a) = Len(t) + 0
          /\ \A i \in 1..(Len(t) + 0) : a[i] = IF i <= Len(t) THEN t[i] ELSE Ack
      BY QueueIs
    <2>. HIDE DEF a
    <2>2. Len(a) = Len(t) /\ \A i \in 1..Len(a) : a[i] = t[i]
      BY <2>0, <2>1
    <2>3. a = t
      BY <2>1, <2>2, SeqEqual
    <2>. QED
      BY <2>3 DEF a
  <1>4. \A e \in Messages : QueueOf(Append(s, e), 0) = Append(QueueOf(s, 0), e)
    BY <1>3, AppendProperties
  <1>. QED
    BY <1>1, <1>2, <1>4

(* What is received is taken from the head of the queue. *)
LEMMA QueueTail ==
    ASSUME NEW s \in Seq(Messages), s # <<>>, NEW n \in Nat
    PROVE  /\ QueueOf(Tail(s), n) = Tail(QueueOf(s, n))
           /\ QueueOf(s, n) # <<>> /\ QueueOf(s, n)[1] = s[1]
  <1>. DEFINE r == Tail(s)
              q == QueueOf(s, n)
              a == QueueOf(r, n)
              b == Tail(q)
              N == Len(s) + n
  <1>1. /\ r \in Seq(Messages) /\ Len(r) = Len(s) - 1 /\ Len(s) \in Nat \ {0}
        /\ \A i \in 1..(Len(s) - 1) : r[i] = s[i + 1]
    BY HeadTailProperties, EmptySeq
  <1>2. /\ q \in Seq(Messages) /\ Len(q) = N
        /\ \A i \in 1..N : q[i] = IF i <= Len(s) THEN s[i] ELSE Ack
    BY QueueIs
  <1>. HIDE DEF r
  <1>3. /\ a \in Seq(Messages) /\ Len(a) = N - 1
        /\ \A i \in 1..(N - 1) : a[i] = IF i <= Len(s) - 1 THEN r[i] ELSE Ack
    <2>1. Len(r) + n = N - 1 /\ Len(r) = Len(s) - 1
      BY <1>1
    <2>2. r \in Seq(Messages)
      BY <1>1
    <2>3. /\ a \in Seq(Messages) /\ Len(a) = Len(r) + n
          /\ \A i \in 1..(Len(r) + n) : a[i] = IF i <= Len(r) THEN r[i] ELSE Ack
      BY <2>2, QueueIs
    <2>. HIDE DEF a, N
    <2>. QED
      BY <2>1, <2>3, Zenon
  <1>. HIDE DEF q, a
  <1>4. N \in Nat \ {0} /\ q # <<>> /\ q[1] = s[1]
    <2>1. N \in Nat \ {0} /\ 1 \in 1..N /\ 1 <= Len(s)
      BY <1>1
    <2>2. Len(q) # 0
      BY <1>2, <2>1
    <2>3. q # <<>>
      BY <2>2, EmptySeq
    <2>. QED
      BY <1>2, <2>1, <2>3
  <1>5. b \in Seq(Messages) /\ Len(b) = N - 1 /\ \A i \in 1..(N - 1) : b[i] = q[i + 1]
    BY <1>2, <1>4, HeadTailProperties
  <1>. HIDE DEF b
  <1>6. \A i \in 1..Len(a) : a[i] = b[i]
    <2>. SUFFICES ASSUME NEW i \in 1..(N - 1) PROVE a[i] = b[i]
      BY <1>3
    <2>1. i + 1 \in 1..N
      BY <1>4
    <2>2. CASE i <= Len(s) - 1
      <3>1. i \in 1..(Len(s) - 1) /\ i + 1 <= Len(s)
        BY <1>1, <2>2
      <3>. HIDE DEF N
      <3>. QED
        BY <1>1, <1>2, <1>3, <1>5, <2>1, <2>2, <3>1
    <2>3. CASE ~(i <= Len(s) - 1)
      <3>1. ~(i + 1 <= Len(s))
        BY <1>1, <2>3
      <3>. HIDE DEF N
      <3>. QED
        BY <1>2, <1>3, <1>5, <2>1, <2>3, <3>1
    <2>. QED
      BY <2>2, <2>3
  <1>7. a = b
    BY <1>3, <1>5, <1>6, SeqEqual
  <1>. QED
    BY <1>4, <1>7 DEF a, b, q, r

(* One more frame is sent. *)
LEMMA ChainPush ==
    ASSUME NEW q \in Seq(Messages), NEW I, NEW frames, NEW f, NEW g,
           Chain(q, I, frames, f, g),
           NEW e \in Messages, NEW J, NEW k \in Nat, InflaterOk(J),
           Link(e, f[Len(q)], J, g[Len(q)], k, frames)
    PROVE  \E F, G : /\ Chain(Append(q, e), I, frames, F, G)
                     /\ F[Len(q) + 1] = J /\ G[Len(q) + 1] = k
  <1>. DEFINE N == Len(q)
              p == Append(q, e)
              F == [i \in 0..(N + 1) |-> IF i = N + 1 THEN J ELSE f[i]]
              G == [i \in 0..(N + 1) |-> IF i = N + 1 THEN k ELSE g[i]]
  <1>1. N \in Nat
    BY LenProperties
  <1>2. p \in Seq(Messages) /\ Len(p) = N + 1 /\ (\A i \in 1..N : p[i] = q[i]) /\ p[N + 1] = e
    BY <1>1, AppendProperties
  <1>3. /\ F[N + 1] = J /\ G[N + 1] = k
        /\ \A i \in 0..N : F[i] = f[i] /\ G[i] = g[i]
    BY <1>1
  <1>4. /\ f[0] = I /\ g[0] = 0
        /\ \A i \in 0..N : InflaterOk(f[i]) /\ g[i] \in Nat
        /\ \A i \in 0..N : \A j \in 0..i : g[j] <= g[i]
        /\ \A i \in 1..N : Link(q[i], f[i - 1], f[i], g[i - 1], g[i], frames)
    BY DEF Chain
  <1>5. Link(e, f[N], J, g[N], k, frames)
    OBVIOUS
  <1>6. g[N] <= k
    <2>1. k \in {g[N], g[N] + 1}
      BY <1>5 DEF Link
    <2>. QED
      BY <1>1, <1>4, <2>1
  <1>. HIDE DEF N, p, F, G
  <1>7. F[0] = I /\ G[0] = 0
    BY <1>1, <1>3, <1>4
  <1>8. \A i \in 0..(N + 1) : InflaterOk(F[i]) /\ G[i] \in Nat
    <2>. SUFFICES ASSUME NEW i \in 0..(N + 1) PROVE InflaterOk(F[i]) /\ G[i] \in Nat
      OBVIOUS
    <2>1. i = N + 1 \/ i \in 0..N
      BY <1>1
    <2>. QED
      BY <1>3, <1>4, <2>1
  <1>9. \A i \in 0..(N + 1) : \A j \in 0..i : G[j] <= G[i]
    <2>. SUFFICES ASSUME NEW i \in 0..(N + 1), NEW j \in 0..i PROVE G[j] <= G[i]
      OBVIOUS
    <2>1. CASE i \in 0..N
      <3>1. j \in 0..N
        BY <1>1, <2>1
      <3>. QED
        BY <1>3, <1>4, <2>1, <3>1
    <2>2. CASE i = N + 1 /\ j = N + 1
      BY <1>3, <2>2
    <2>3. CASE i = N + 1 /\ j \in 0..N
      <3>1. N \in 0..N /\ g[j] <= g[N] /\ g[j] \in Nat /\ g[N] \in Nat
        BY <1>1, <1>4, <2>3
      <3>. QED
        BY <1>3, <1>6, <2>3, <3>1
    <2>. QED
      BY <1>1, <2>1, <2>2, <2>3
  <1>10. \A i \in 1..(N + 1) : Link(p[i], F[i - 1], F[i], G[i - 1], G[i], frames)
    <2>. SUFFICES ASSUME NEW i \in 1..(N + 1)
                  PROVE  Link(p[i], F[i - 1], F[i], G[i - 1], G[i], frames)
      OBVIOUS
    <2>1. CASE i = N + 1
      <3>1. i - 1 = N /\ N \in 0..N
        BY <1>1, <2>1
      <3>. QED
        BY <1>2, <1>3, <1>5, <2>1, <3>1
    <2>2. CASE i # N + 1
      <3>1. i \in 1..N /\ i \in 0..N /\ i - 1 \in 0..N
        BY <1>1, <2>2
      <3>. QED
        BY <1>2, <1>3, <1>4, <3>1
    <2>. QED
      BY <2>1, <2>2
  <1>11. Chain(p, I, frames, F, G)
    BY <1>2, <1>7, <1>8, <1>9, <1>10 DEF Chain
  <1>. QED
    BY <1>3, <1>11 DEF N, p

(* The SETTINGS left in flight by the first frame e. *)
Left(e, frames, rest, d) ==
    /\ d = IF e.type = "ACK" THEN 1 ELSE 0
    /\ Len(rest) = Len(frames) - d
    /\ \A i \in 1..Len(rest) : rest[i] = frames[i + d]

(* The first frame is processed. *)
LEMMA ChainPop ==
    ASSUME NEW q \in Seq(Messages), q # <<>>, NEW I, NEW frames \in Seq(SettingsFrames),
           NEW f, NEW g, Chain(q, I, frames, f, g),
           NEW d \in {0, 1}, NEW rest \in Seq(SettingsFrames), Left(q[1], frames, rest, d)
    PROVE  \E F, G : /\ Chain(Tail(q), f[1], rest, F, G)
                     /\ F[Len(q) - 1] = f[Len(q)] /\ G[Len(q) - 1] = g[Len(q)] - d
  <1>. DEFINE N == Len(q)
              p == Tail(q)
              F == [i \in 0..(N - 1) |-> f[i + 1]]
              G == [i \in 0..(N - 1) |-> g[i + 1] - d]
  <1>1. N \in Nat \ {0} /\ Len(frames) \in Nat /\ d \in Nat
    BY EmptySeq, LenProperties
  <1>0. /\ d = IF q[1].type = "ACK" THEN 1 ELSE 0
        /\ Len(rest) = Len(frames) - d
        /\ \A i \in 1..Len(rest) : rest[i] = frames[i + d]
    BY DEF Left
  <1>2. p \in Seq(Messages) /\ Len(p) = N - 1 /\ \A i \in 1..(N - 1) : p[i] = q[i + 1]
    BY HeadTailProperties
  <1>3. /\ \A i \in 0..(N - 1) : F[i] = f[i + 1] /\ G[i] = g[i + 1] - d
        /\ (N - 1) + 1 = N /\ N - 1 \in 0..(N - 1)
    BY <1>1
  <1>4. /\ f[0] = I /\ g[0] = 0
        /\ \A i \in 0..N : InflaterOk(f[i]) /\ g[i] \in Nat
        /\ \A i \in 0..N : \A j \in 0..i : g[j] <= g[i]
        /\ \A i \in 1..N : Link(q[i], f[i - 1], f[i], g[i - 1], g[i], frames)
    BY DEF Chain
  <1>. HIDE DEF N, p, F, G
  <1>5. g[1] = d
    <2>1. 1 \in 1..N /\ 1 - 1 = 0
      BY <1>1
    <2>2. Link(q[1], f[0], f[1], g[0], g[1], frames)
      BY <1>4, <2>1
    <2>3. CASE q[1].type = "ACK"
      <3>1. g[1] = g[0] + 1
        BY <2>2, <2>3 DEF Link
      <3>. QED
        BY <1>0, <1>4, <2>3, <3>1
    <2>4. CASE q[1].type # "ACK"
      <3>1. g[1] = g[0]
        BY <2>2, <2>4 DEF Link
      <3>. QED
        BY <1>0, <1>4, <2>4, <3>1
    <2>. QED
      BY <2>3, <2>4
  <1>6. F[0] = f[1] /\ G[0] = 0
    <2>1. 0 \in 0..(N - 1) /\ 0 + 1 = 1
      BY <1>1
    <2>. QED
      BY <1>1, <1>3, <1>5, <2>1
  <1>7. \A i \in 0..(N - 1) : InflaterOk(F[i]) /\ G[i] \in Nat
    <2>. SUFFICES ASSUME NEW i \in 0..(N - 1) PROVE InflaterOk(F[i]) /\ G[i] \in Nat
      OBVIOUS
    <2>1. i + 1 \in 0..N /\ 1 \in 0..(i + 1)
      BY <1>1
    <2>2. g[1] <= g[i + 1] /\ g[i + 1] \in Nat
      BY <1>4, <2>1
    <2>. QED
      BY <1>1, <1>3, <1>4, <1>5, <2>1, <2>2
  <1>8. \A i \in 0..(N - 1) : \A j \in 0..i : G[j] <= G[i]
    <2>. SUFFICES ASSUME NEW i \in 0..(N - 1), NEW j \in 0..i PROVE G[j] <= G[i]
      OBVIOUS
    <2>1. /\ i + 1 \in 0..N /\ j + 1 \in 0..(i + 1) /\ j + 1 \in 0..N
          /\ j \in 0..(N - 1)
      BY <1>1
    <2>. DEFINE a == g[j + 1]
                b == g[i + 1]
    <2>2. a <= b /\ a \in Nat /\ b \in Nat
      BY <1>4, <2>1
    <2>3. G[j] = a - d /\ G[i] = b - d
      BY <1>3, <2>1
    <2>. HIDE DEF a, b
    <2>. QED
      BY <1>1, <2>2, <2>3
  <1>9. \A i \in 1..(N - 1) : Link(p[i], F[i - 1], F[i], G[i - 1], G[i], rest)
    <2>. SUFFICES ASSUME NEW i \in 1..(N - 1)
                  PROVE  Link(p[i], F[i - 1], F[i], G[i - 1], G[i], rest)
      OBVIOUS
    <2>1. /\ i + 1 \in 1..N /\ i \in 0..(N - 1) /\ i - 1 \in 0..(N - 1)
          /\ (i - 1) + 1 = i /\ (i + 1) - 1 = i /\ i \in 0..N /\ i + 1 \in 0..N
          /\ 1 \in 0..i
      BY <1>1
    <2>2. Link(q[i + 1], f[i], f[i + 1], g[i], g[i + 1], frames)
      BY <1>4, <2>1
    <2>3. /\ p[i] = q[i + 1] /\ F[i - 1] = f[i] /\ F[i] = f[i + 1]
          /\ G[i - 1] = g[i] - d /\ G[i] = g[i + 1] - d
      BY <1>2, <1>3, <2>1
    <2>4. g[i] \in Nat /\ g[i + 1] \in Nat /\ d <= g[i]
      BY <1>4, <1>5, <2>1
    <2>5. CASE q[i + 1].type = "ACK"
      <3>1. /\ g[i + 1] = g[i] + 1 /\ g[i + 1] \in 1..Len(frames)
            /\ f[i + 1] = InflaterResized(f[i], frames[g[i + 1]])
        BY <2>2, <2>5 DEF Link
      <3>. DEFINE k == g[i + 1] - d
      <3>2. k = (g[i] - d) + 1 /\ k \in 1..Len(rest) /\ k + d = g[i + 1]
        BY <1>0, <1>1, <2>4, <3>1
      <3>. HIDE DEF k
      <3>3. rest[k] = frames[g[i + 1]]
        BY <1>0, <3>2
      <3>4. f[i + 1] = InflaterResized(f[i], rest[k])
        BY <3>1, <3>3
      <3>5. G[i] = k
        BY <2>3 DEF k
      <3>. QED
        BY <2>3, <2>5, <3>2, <3>4, <3>5 DEF Link
    <2>6. CASE q[i + 1].type # "ACK"
      <3>1. /\ g[i + 1] = g[i]
            /\ f[i + 1] = nghttp2_hd_inflate_hd_nv(f[i], q[i + 1].block).I
            /\ nghttp2_hd_inflate_hd_nv(f[i], q[i + 1].block).out = q[i + 1].fields
        BY <2>2, <2>6 DEF Link
      <3>. QED
        BY <2>3, <2>6, <3>1 DEF Link
    <2>. QED
      BY <2>5, <2>6
  <1>10. Chain(p, f[1], rest, F, G)
    BY <1>2, <1>6, <1>7, <1>8, <1>9 DEF Chain
  <1>11. F[N - 1] = f[N] /\ G[N - 1] = g[N] - d
    BY <1>3
  <1>. QED
    BY <1>10, <1>11 DEF N, p

(* One more SETTINGS is in flight. *)
LEMMA ChainInFlight ==
    ASSUME NEW q \in Seq(Messages), NEW I, NEW frames \in Seq(SettingsFrames),
           NEW f, NEW g, Chain(q, I, frames, f, g), NEW vs \in SettingsFrames
    PROVE  Chain(q, I, Append(frames, vs), f, g)
  <1>. DEFINE more == Append(frames, vs)
  <1>1. /\ Len(frames) \in Nat /\ Len(more) = Len(frames) + 1
        /\ \A i \in 1..Len(frames) : more[i] = frames[i]
    BY LenProperties, AppendProperties
  <1>. HIDE DEF more
  <1>2. ASSUME NEW e, NEW J, NEW K, NEW j, NEW k, Link(e, J, K, j, k, frames)
        PROVE  Link(e, J, K, j, k, more)
    <2>1. CASE e.type = "ACK"
      <3>1. k = j + 1 /\ k \in 1..Len(frames) /\ K = InflaterResized(J, frames[k])
        BY <1>2, <2>1 DEF Link
      <3>2. k \in 1..Len(more) /\ more[k] = frames[k]
        BY <1>1, <3>1
      <3>. QED
        BY <2>1, <3>1, <3>2 DEF Link
    <2>2. CASE e.type # "ACK"
      BY <1>2, <2>2 DEF Link
    <2>. QED
      BY <2>1, <2>2
  <1>3. Chain(q, I, more, f, g)
    BY <1>2 DEF Chain
  <1>. QED
    BY <1>3 DEF more

-----------------------------------------------------------------------------
(* The invariant: the deflater is in step with what the inflater will be    *)
(* once all that is on its way has been processed, and the SETTINGS that    *)
(* have not reached the deflater are the last ones in flight.               *)

Follows(q, I, D, frames, rest) ==
    \E f, g :
      /\ Chain(q, I, frames, f, g)
      /\ Synced(D, f[Len(q)])
      /\ Len(frames) = g[Len(q)] + Len(rest)
      /\ \A i \in 1..Len(rest) : rest[i] = frames[g[Len(q)] + i]

(* The inductive invariant. *)
Inv ==
    /\ fwd \in Seq(Messages) /\ acks \in Nat
    /\ inflight \in Seq(SettingsFrames) /\ back \in Seq(SettingsFrames)
    /\ DeflaterOk(deflater)
    /\ Follows(QueueOf(fwd, acks), inflater, deflater, inflight, back)

(* The two start with empty tables; a deflater with a lower limit has a size *)
(* to announce.                                                             *)
LEMMA InitInv == Init => Inv
  <1>. SUFFICES ASSUME Init PROVE Inv
    OBVIOUS
  <1>1. PICK max \in DeflateMaxes : deflater = nghttp2_hd_deflate_init2(max)
    BY DEF Init
  <1>2. /\ inflater = nghttp2_hd_inflate_init
        /\ fwd = <<>> /\ back = <<>> /\ acks = 0 /\ inflight = <<>>
    BY DEF Init
  <1>3. max \in Sizes /\ max \in Nat /\ DefaultMax \in Sizes /\ DefaultMax \in Nat
    BY SizesAssumption, SizesFacts DEF Sizes
  <1>. DEFINE least == Min({DefaultMax, max})
              c == [hd_context_init EXCEPT !.hd_table_bufsize_max = least]
              d == hd_context_init
  <1>4. /\ least \in Sizes /\ least \in Nat /\ least <= max /\ least <= DefaultMax
        /\ max <= DefaultMax => least = max
        /\ DefaultMax <= max => least = DefaultMax
    <2>1. /\ least \in {DefaultMax, max} /\ least \in Nat
          /\ least <= max /\ least <= DefaultMax
          /\ max <= DefaultMax => least = max
          /\ DefaultMax <= max => least = DefaultMax
      BY <1>3, MinOfTwo
    <2>. HIDE DEF least
    <2>. QED
      BY <1>3, <2>1
  <1>. HIDE DEF least
  <1>5. Sound(c, TRUE) /\ TableOf(c) = <<>> /\ c.hd_table_bufsize_max = least
    <2>1. least \in 0..(SeqRange - 1)
      BY <1>4 DEF Sizes
    <2>. HIDE DEF c
    <2>. QED
      BY <2>1, InitSound DEF c
  <1>6. Sound(d, FALSE) /\ TableOf(d) = <<>> /\ d.hd_table_bufsize_max = DefaultMax
    <2>1. d = [hd_context_init EXCEPT !.hd_table_bufsize_max = DefaultMax]
      BY DEF hd_context_init
    <2>2. DefaultMax \in 0..(SeqRange - 1)
      BY SizesAssumption
    <2>. HIDE DEF d
    <2>. QED
      BY <2>1, <2>2, InitSound
  <1>7. deflater = [ctx |-> c, deflate_max |-> max, min |-> NoLimit,
                    notify |-> max < DefaultMax]
    <2>1. hd_context_init.hd_table_bufsize_max = DefaultMax
      BY DEF hd_context_init
    <2>2. [hd_context_init EXCEPT !.hd_table_bufsize_max = Min({@, max})] = c
      BY <2>1 DEF least
    <2>. HIDE DEF c
    <2>. QED
      BY <1>1, <2>2 DEF nghttp2_hd_deflate_init2
  <1>8. inflater = [ctx |-> d, settings |-> DefaultMax, min |-> NoLimit,
                    state |-> "START", bad |-> FALSE]
    BY <1>2 DEF nghttp2_hd_inflate_init
  <1>. HIDE DEF c, d
  <1>9. /\ deflater.ctx = c /\ deflater.deflate_max = max /\ deflater.min = NoLimit
        /\ deflater.notify = (max < DefaultMax) /\ deflater.notify \in BOOLEAN
    BY <1>7
  <1>10. /\ inflater.ctx = d /\ inflater.settings = DefaultMax /\ inflater.min = NoLimit
         /\ inflater.state = "START"
    BY <1>8
  <1>11. DeflaterOk(deflater)
    <2>1. deflater = [ctx |-> deflater.ctx, deflate_max |-> deflater.deflate_max,
                      min |-> deflater.min, notify |-> deflater.notify]
      BY <1>7
    <2>. QED
      BY <1>3, <1>4, <1>5, <1>9, <2>1 DEF DeflaterOk
  <1>12. InflaterOk(inflater)
    BY <1>3, <1>6, <1>8, <1>10 DEF InflaterOk
  <1>13. Synced(deflater, inflater)
    <2>1. CASE max < DefaultMax
      <3>1. deflater.notify /\ least = max /\ Low(deflater) = max
        <4>1. deflater.notify
          BY <1>9, <2>1
        <4>2. least = max
          BY <1>3, <1>4, <2>1
        <4>3. Low(deflater) = least
          BY <1>5, <1>9 DEF Low
        <4>. QED
          BY <4>1, <4>2, <4>3
      <3>2. Trim(<<>>, 0, max) = <<>>
        <4>. DEFINE t == <<>>
        <4>1. RoomFor(t) = 0 /\ t \in Seq(Fields)
          BY WeightEmpty, FieldsAssumption, EmptySeq DEF RoomFor
        <4>. HIDE DEF t
        <4>2. RoomFor(t) + 0 <= max
          BY <1>3, <4>1
        <4>3. Trim(t, 0, max) = t
          BY <1>3, <4>1, <4>2, TrimFull
        <4>. QED
          BY <4>3 DEF t
      <3>3. /\ deflater.ctx.hd_table_bufsize_max = max
            /\ TableOf(deflater.ctx) = <<>> /\ TableOf(inflater.ctx) = <<>>
            /\ max <= inflater.settings /\ max <= max
        BY <1>3, <1>5, <1>6, <1>9, <1>10, <2>1, <3>1
      <3>4. Behind(deflater, inflater)
        BY <1>9, <1>10, <3>1, <3>2, <3>3 DEF Behind
      <3>. QED
        BY <1>10, <3>1, <3>4 DEF Synced
    <2>2. CASE ~(max < DefaultMax)
      <3>1. ~deflater.notify /\ least = DefaultMax
        <4>1. ~deflater.notify
          BY <1>9, <2>2
        <4>2. least = DefaultMax
          BY <1>3, <1>4, <2>2
        <4>. QED
          BY <4>1, <4>2
      <3>2. SameTables(deflater, inflater)
        BY <1>5, <1>6, <1>9, <1>10, <3>1 DEF SameTables
      <3>3. deflater.ctx.hd_table_bufsize_max <= inflater.settings
        BY <1>3, <1>5, <1>9, <1>10, <3>1
      <3>4. InSync(deflater, inflater)
        BY <1>9, <1>10, <3>2, <3>3 DEF InSync
      <3>. QED
        BY <1>10, <3>1, <3>4 DEF Synced
    <2>. QED
      BY <2>1, <2>2
  <1>14. <<>> \in Seq(Messages) /\ <<>> \in Seq(SettingsFrames) /\ Len(<<>>) = 0
    BY EmptySeq
  <1>. DEFINE q == QueueOf(fwd, acks)
  <1>15. Len(q) = 0
    <2>1. fwd \in Seq(Messages) /\ acks \in Nat /\ Len(fwd) + acks = 0
      BY <1>2, <1>14
    <2>. QED
      BY <2>1, QueueIs
  <1>. DEFINE f == [i \in {0} |-> inflater]
              g == [i \in {0} |-> 0]
  <1>16. f[0] = inflater /\ g[0] = 0
    OBVIOUS
  <1>. HIDE DEF q, f, g
  <1>17. Chain(q, inflater, inflight, f, g)
    BY <1>12, <1>15, <1>16 DEF Chain
  <1>18. Follows(q, inflater, deflater, inflight, back)
    <2>1. Len(inflight) = g[Len(q)] + Len(back) /\ f[Len(q)] = inflater
      BY <1>2, <1>14, <1>15, <1>16
    <2>2. \A i \in 1..Len(back) : back[i] = inflight[g[Len(q)] + i]
      BY <1>2, <1>14
    <2>. QED
      BY <1>13, <1>17, <2>1, <2>2 DEF Follows
  <1>. QED
    BY <1>2, <1>11, <1>14, <1>18 DEF Inv, q

(* A block that is sent will be decoded. *)
LEMMA SendHeadersInv ==
    ASSUME Inv, NEW nva \in Blocks, SendHeaders(nva)
    PROVE  Inv'
  <1>. DEFINE q == QueueOf(fwd, 0)
              N == Len(q)
              r == nghttp2_hd_deflate_hd_bufs(deflater, nva)
              e == [type |-> "HEADERS", block |-> r.block, fields |-> nva]
  <1>1. /\ acks = 0 /\ deflater' = r.D /\ fwd' = Append(fwd, e)
        /\ UNCHANGED <<inflater, back, acks, inflight>>
    BY DEF SendHeaders
  <1>2. /\ fwd \in Seq(Messages) /\ inflight \in Seq(SettingsFrames)
        /\ back \in Seq(SettingsFrames) /\ DeflaterOk(deflater)
        /\ Follows(q, inflater, deflater, inflight, back)
    BY <1>1 DEF Inv
  <1>3. nva \in Seq(Fields)
    BY FieldsAssumption
  <1>4. q \in Seq(Messages) /\ N \in Nat
    BY <1>2, QueueIs, LenProperties
  <1>. HIDE DEF q
  <1>5. PICK f, g : /\ Chain(q, inflater, inflight, f, g)
                    /\ Synced(deflater, f[N])
                    /\ Len(inflight) = g[N] + Len(back)
                    /\ \A i \in 1..Len(back) : back[i] = inflight[g[N] + i]
    BY <1>2 DEF Follows
  <1>6. InflaterOk(f[N]) /\ g[N] \in Nat
    BY <1>4, <1>5 DEF Chain
  <1>. DEFINE y == nghttp2_hd_inflate_hd_nv(f[N], r.block)
  <1>. HIDE DEF r, N, y
  <1>7. /\ DeflaterOk(r.D) /\ r.block \in Seq(Reprs)
        /\ InflaterOk(y.I) /\ y.out = nva /\ Synced(r.D, y.I)
    BY <1>2, <1>3, <1>5, <1>6, BlockDecoded DEF r, y
  <1>8. e \in Messages
    BY <1>3, <1>7 DEF Messages
  <1>9. Link(e, f[N], y.I, g[N], g[N], inflight)
    BY <1>7 DEF Link, y
  <1>. HIDE DEF e
  <1>10. PICK F, G : /\ Chain(Append(q, e), inflater, inflight, F, G)
                     /\ F[N + 1] = y.I /\ G[N + 1] = g[N]
    BY <1>4, <1>5, <1>6, <1>7, <1>8, <1>9, ChainPush DEF N
  <1>11. /\ QueueOf(Append(fwd, e), 0) = Append(q, e) /\ Len(Append(q, e)) = N + 1
         /\ Append(fwd, e) \in Seq(Messages)
    BY <1>2, <1>4, <1>8, QueueAppended, AppendProperties DEF q, N
  <1>12. Follows(Append(q, e), inflater, r.D, inflight, back)
    BY <1>5, <1>7, <1>10, <1>11 DEF Follows
  <1>. QED
    BY <1>1, <1>2, <1>7, <1>11, <1>12 DEF Inv

(* An acknowledgement leaves ob_urgent for the wire. *)
LEMMA SentAckInv == Inv /\ SentAck => Inv'
  <1>. SUFFICES ASSUME Inv, SentAck PROVE Inv'
    OBVIOUS
  <1>1. /\ acks > 0 /\ acks' = acks - 1 /\ fwd' = Append(fwd, Ack)
        /\ UNCHANGED <<deflater, inflater, back, inflight>>
    BY DEF SentAck, Ack
  <1>2. fwd \in Seq(Messages) /\ acks \in Nat
    BY DEF Inv
  <1>3. QueueOf(fwd', acks') = QueueOf(fwd, acks)
    BY <1>1, <1>2, QueueAppended
  <1>4. fwd' \in Seq(Messages) /\ acks' \in Nat
    BY <1>1, <1>2, QueueIs, AppendProperties
  <1>. QED
    BY <1>1, <1>3, <1>4 DEF Inv

(* The deflater is resized now, the inflater by the acknowledgement. *)
LEMMA RecvSettingsInv == Inv /\ RecvSettings => Inv'
  <1>. SUFFICES ASSUME Inv, RecvSettings PROVE Inv'
    OBVIOUS
  <1>. DEFINE q == QueueOf(fwd, acks)
              N == Len(q)
              vs == Head(back)
  <1>1. /\ back # <<>> /\ back' = Tail(back)
        /\ deflater' = DeflaterResized(deflater, vs)
        /\ acks' = acks + 1
        /\ UNCHANGED <<inflater, fwd, inflight>>
    BY DEF RecvSettings
  <1>2. /\ fwd \in Seq(Messages) /\ acks \in Nat /\ inflight \in Seq(SettingsFrames)
        /\ back \in Seq(SettingsFrames) /\ DeflaterOk(deflater)
        /\ Follows(q, inflater, deflater, inflight, back)
    BY DEF Inv
  <1>3. /\ vs \in SettingsFrames /\ vs = back[1] /\ Tail(back) \in Seq(SettingsFrames)
        /\ Len(back) \in Nat \ {0} /\ Len(Tail(back)) = Len(back) - 1
        /\ \A i \in 1..(Len(back) - 1) : Tail(back)[i] = back[i + 1]
    BY <1>1, <1>2, HeadTailProperties, EmptySeq
  <1>4. q \in Seq(Messages) /\ N \in Nat /\ Ack \in Messages /\ Ack.type = "ACK"
    BY <1>2, QueueIs, LenProperties
  <1>. HIDE DEF q, vs
  <1>5. PICK f, g : /\ Chain(q, inflater, inflight, f, g)
                    /\ Synced(deflater, f[N])
                    /\ Len(inflight) = g[N] + Len(back)
                    /\ \A i \in 1..Len(back) : back[i] = inflight[g[N] + i]
    BY <1>2 DEF Follows
  <1>6. InflaterOk(f[N]) /\ g[N] \in Nat
    BY <1>4, <1>5 DEF Chain
  <1>. DEFINE J == InflaterResized(f[N], vs)
              k == g[N] + 1
  <1>. HIDE DEF N
  <1>7. /\ DeflaterOk(deflater') /\ InflaterOk(J) /\ Synced(deflater', J)
    BY <1>1, <1>2, <1>3, <1>5, <1>6, ResizedSynced, DeflaterResizedOk, InflaterResizedOk
  <1>8. Link(Ack, f[N], J, g[N], k, inflight) /\ k \in Nat
    <2>1. k \in 1..Len(inflight) /\ 1 \in 1..Len(back)
      BY <1>3, <1>5, <1>6
    <2>2. inflight[k] = vs
      BY <1>3, <1>5, <2>1
    <2>. QED
      BY <1>4, <1>6, <2>1, <2>2 DEF Link
  <1>. HIDE DEF J
  <1>9. PICK F, G : /\ Chain(Append(q, Ack), inflater, inflight, F, G)
                    /\ F[N + 1] = J /\ G[N + 1] = k
    BY <1>4, <1>5, <1>7, <1>8, ChainPush DEF N
  <1>10. QueueOf(fwd, acks + 1) = Append(q, Ack) /\ Len(Append(q, Ack)) = N + 1
    BY <1>2, <1>4, QueueAppended, AppendProperties DEF q, N
  <1>11. /\ Len(inflight) = k + Len(Tail(back))
         /\ \A i \in 1..Len(Tail(back)) : Tail(back)[i] = inflight[k + i]
    <2>1. Len(inflight) = k + Len(Tail(back))
      BY <1>3, <1>5, <1>6
    <2>2. ASSUME NEW i \in 1..Len(Tail(back)) PROVE Tail(back)[i] = inflight[k + i]
      <3>1. i \in 1..(Len(back) - 1) /\ i + 1 \in 1..Len(back) /\ g[N] + (i + 1) = k + i
        BY <1>3, <1>6
      <3>2. back[i + 1] = inflight[g[N] + (i + 1)]
        BY <1>5, <3>1
      <3>. QED
        BY <1>3, <3>1, <3>2
    <2>. QED
      BY <2>1, <2>2
  <1>12. Follows(Append(q, Ack), inflater, deflater', inflight, Tail(back))
    BY <1>7, <1>9, <1>10, <1>11, SMTT(30) DEF Follows
  <1>13. acks + 1 \in Nat
    BY <1>2
  <1>. QED
    BY <1>1, <1>2, <1>3, <1>7, <1>10, <1>12, <1>13 DEF Inv

(* SETTINGS are the last in flight until they arrive. *)
LEMMA SendSettingsInv ==
    ASSUME Inv, NEW vs \in SettingsFrames, SendSettings(vs)
    PROVE  Inv'
  <1>. DEFINE q == QueueOf(fwd, acks)
              N == Len(q)
  <1>1. /\ inflight' = Append(inflight, vs) /\ back' = Append(back, vs)
        /\ UNCHANGED <<deflater, inflater, fwd, acks>>
    BY DEF SendSettings
  <1>2. /\ fwd \in Seq(Messages) /\ acks \in Nat /\ inflight \in Seq(SettingsFrames)
        /\ back \in Seq(SettingsFrames) /\ DeflaterOk(deflater)
        /\ Follows(q, inflater, deflater, inflight, back)
    BY DEF Inv
  <1>3. q \in Seq(Messages) /\ N \in Nat
    BY <1>2, QueueIs, LenProperties
  <1>. HIDE DEF q
  <1>4. PICK f, g : /\ Chain(q, inflater, inflight, f, g)
                    /\ Synced(deflater, f[N])
                    /\ Len(inflight) = g[N] + Len(back)
                    /\ \A i \in 1..Len(back) : back[i] = inflight[g[N] + i]
    BY <1>2 DEF Follows
  <1>5. g[N] \in Nat
    BY <1>3, <1>4 DEF Chain
  <1>6. Chain(q, inflater, Append(inflight, vs), f, g)
    BY <1>2, <1>3, <1>4, ChainInFlight
  <1>. DEFINE a == Append(inflight, vs)
              b == Append(back, vs)
  <1>7. /\ a \in Seq(SettingsFrames) /\ Len(a) = Len(inflight) + 1
        /\ \A i \in 1..Len(inflight) : a[i] = inflight[i]
        /\ a[Len(inflight) + 1] = vs /\ Len(inflight) \in Nat
    BY <1>2, AppendProperties, LenProperties
  <1>8. /\ b \in Seq(SettingsFrames) /\ Len(b) = Len(back) + 1
        /\ \A i \in 1..Len(back) : b[i] = back[i]
        /\ b[Len(back) + 1] = vs /\ Len(back) \in Nat
    BY <1>2, AppendProperties, LenProperties
  <1>. HIDE DEF a, b, N
  <1>. DEFINE k == g[N]
              n == Len(back)
              m == Len(inflight)
  <1>12. k \in Nat /\ n \in Nat /\ m \in Nat /\ m = k + n
    BY <1>4, <1>5, <1>7, <1>8
  <1>. HIDE DEF k, n, m
  <1>9. Len(a) = g[N] + Len(b)
    <2>1. (k + n) + 1 = k + (n + 1)
      BY <1>12
    <2>2. Len(a) = m + 1 /\ Len(b) = n + 1
      BY <1>7, <1>8 DEF m, n
    <2>. QED
      BY <1>12, <2>1, <2>2 DEF k
  <1>10. \A i \in 1..Len(b) : b[i] = a[g[N] + i]
    <2>. SUFFICES ASSUME NEW i \in 1..Len(b) PROVE b[i] = a[g[N] + i]
      OBVIOUS
    <2>1. CASE i = Len(back) + 1
      <3>1. k + (n + 1) = m + 1
        BY <1>12
      <3>. QED
        BY <1>7, <1>8, <2>1, <3>1 DEF k, m, n
    <2>2. CASE i # Len(back) + 1
      <3>1. i \in 1..Len(back) /\ g[N] + i \in 1..Len(inflight)
        BY <1>4, <1>5, <1>8, <2>2
      <3>2. back[i] = inflight[g[N] + i]
        BY <1>4, <3>1
      <3>. QED
        BY <1>7, <1>8, <3>1, <3>2
    <2>. QED
      BY <2>1, <2>2
  <1>11. Follows(q, inflater, deflater, a, b)
    BY <1>4, <1>6, <1>9, <1>10 DEF Follows, a, N
  <1>. QED
    BY <1>1, <1>2, <1>7, <1>8, <1>11 DEF Inv, a, b, q

(* Processing the first frame of the queue, be it an acknowledgement or a   *)
(* HEADERS.                                                                 *)
LEMMA FollowsPop ==
    ASSUME NEW s \in Seq(Messages), s # <<>>, NEW n \in Nat, NEW I, NEW D,
           NEW frames \in Seq(SettingsFrames), NEW back0 \in Seq(SettingsFrames),
           Follows(QueueOf(s, n), I, D, frames, back0)
    PROVE  /\ s[1].type = "ACK" =>
                /\ frames # <<>> /\ Tail(frames) \in Seq(SettingsFrames)
                /\ Follows(QueueOf(Tail(s), n), InflaterResized(I, Head(frames)), D,
                           Tail(frames), back0)
           /\ s[1].type # "ACK" =>
                /\ InflaterOk(nghttp2_hd_inflate_hd_nv(I, s[1].block).I)
                /\ nghttp2_hd_inflate_hd_nv(I, s[1].block).out = s[1].fields
                /\ Follows(QueueOf(Tail(s), n),
                           nghttp2_hd_inflate_hd_nv(I, s[1].block).I, D, frames, back0)
  <1>. DEFINE q == QueueOf(s, n)
              N == Len(q)
  <1>1. q \in Seq(Messages) /\ q # <<>> /\ q[1] = s[1] /\ QueueOf(Tail(s), n) = Tail(q)
    BY QueueIs, QueueTail
  <1>. HIDE DEF q
  <1>2. N \in Nat \ {0} /\ Len(Tail(q)) = N - 1
    BY <1>1, HeadTailProperties, EmptySeq
  <1>3. PICK f, g : /\ Chain(q, I, frames, f, g)
                    /\ Synced(D, f[N])
                    /\ Len(frames) = g[N] + Len(back0)
                    /\ \A i \in 1..Len(back0) : back0[i] = frames[g[N] + i]
    BY DEF Follows, q
  <1>4. /\ Link(q[1], I, f[1], 0, g[1], frames) /\ InflaterOk(f[1])
        /\ g[N] \in Nat /\ g[1] \in Nat /\ g[1] <= g[N]
    <2>1. 1 \in 1..N /\ 1 \in 0..N /\ N \in 0..N /\ 1 - 1 = 0
      BY <1>2
    <2>2. Link(q[1], f[0], f[1], g[0], g[1], frames) /\ f[0] = I /\ g[0] = 0
      BY <1>3, <2>1 DEF Chain
    <2>3. InflaterOk(f[1]) /\ g[N] \in Nat /\ g[1] \in Nat /\ g[1] <= g[N]
      BY <1>3, <2>1 DEF Chain
    <2>. QED
      BY <2>2, <2>3
  <1>5. Len(frames) \in Nat /\ Len(back0) \in Nat
    BY LenProperties
  <1>6. CASE q[1].type = "ACK"
    <2>1. g[1] = 1 /\ 1 \in 1..Len(frames) /\ f[1] = InflaterResized(I, frames[1])
      <3>1. g[1] = 0 + 1 /\ g[1] \in 1..Len(frames) /\ f[1] = InflaterResized(I, frames[g[1]])
        BY <1>4, <1>6 DEF Link
      <3>2. g[1] = 1
        BY <3>1
      <3>. QED
        BY <3>1, <3>2
    <2>2. frames # <<>>
      <3>1. Len(frames) # 0
        BY <1>5, <2>1
      <3>. QED
        BY <3>1, EmptySeq
    <2>. DEFINE rest == Tail(frames)
                k == g[N] - 1
    <2>3. /\ rest \in Seq(SettingsFrames) /\ Len(rest) = Len(frames) - 1
          /\ \A i \in 1..Len(rest) : rest[i] = frames[i + 1]
          /\ Head(frames) = frames[1]
      BY <2>2, HeadTailProperties
    <2>. DEFINE d == 1
                all == g[N]
    <2>8. d \in {0, 1} /\ Left(q[1], frames, rest, d)
      BY <1>6, <2>3 DEF Left
    <2>. HIDE DEF rest, d
    <2>4. PICK F, G : /\ Chain(Tail(q), f[1], rest, F, G)
                      /\ F[N - 1] = f[N] /\ G[N - 1] = all - d
      BY <1>1, <1>3, <2>3, <2>8, ChainPop
    <2>9. k = all - d
      BY DEF d
    <2>10. all \in Nat /\ all >= 1 /\ Len(frames) = all + Len(back0)
      BY <1>3, <1>4, <2>1
    <2>. HIDE DEF all, k, N
    <2>5. k \in Nat /\ Len(rest) = k + Len(back0) /\ g[N] = k + 1
      <3>1. k \in Nat /\ all = k + 1
        BY <2>9, <2>10 DEF d
      <3>2. Len(rest) = k + Len(back0)
        BY <1>5, <2>3, <2>10, <3>1
      <3>. QED
        BY <3>1, <3>2 DEF all
    <2>6. ASSUME NEW i \in 1..Len(back0) PROVE back0[i] = rest[k + i]
      <3>1. k + i \in 1..Len(rest) /\ (k + i) + 1 = g[N] + i
        BY <1>5, <2>5
      <3>2. rest[k + i] = frames[(k + i) + 1]
        BY <2>3, <3>1
      <3>. QED
        BY <1>3, <3>1, <3>2
    <2>7. Follows(Tail(q), f[1], D, rest, back0)
      <3>. DEFINE p == Tail(q)
                  J == f[1]
      <3>1. F[Len(p)] = f[N] /\ G[Len(p)] = k
        BY <1>2, <2>4, <2>9 DEF N
      <3>2. Synced(D, F[Len(p)])
        BY <1>3, <3>1
      <3>3. Chain(p, J, rest, F, G)
        BY <2>4
      <3>. HIDE DEF p, J
      <3>4. /\ Len(rest) = G[Len(p)] + Len(back0)
            /\ \A i \in 1..Len(back0) : back0[i] = rest[G[Len(p)] + i]
        BY <2>5, <2>6, <3>1
      <3>5. Follows(p, J, D, rest, back0)
        BY <3>2, <3>3, <3>4 DEF Follows
      <3>. QED
        BY <3>5 DEF p, J
    <2>. QED
      BY <1>1, <1>6, <2>1, <2>2, <2>3, <2>7 DEF rest
  <1>7. CASE q[1].type # "ACK"
    <2>1. /\ g[1] = 0 /\ f[1] = nghttp2_hd_inflate_hd_nv(I, q[1].block).I
          /\ nghttp2_hd_inflate_hd_nv(I, q[1].block).out = q[1].fields
      BY <1>4, <1>7 DEF Link
    <2>2. Left(q[1], frames, frames, 0)
      BY <1>5, <1>7 DEF Left
    <2>. DEFINE k == g[N] - 0
    <2>. HIDE DEF k, N
    <2>3. PICK F, G : /\ Chain(Tail(q), f[1], frames, F, G)
                      /\ F[N - 1] = f[N] /\ G[N - 1] = k
      BY <1>1, <1>3, <1>7, <2>2, ChainPop DEF N, k
    <2>4. k = g[N]
      BY <1>4 DEF k
    <2>5. Follows(Tail(q), f[1], D, frames, back0)
      <3>. DEFINE p == Tail(q)
                  J == f[1]
      <3>1. F[Len(p)] = f[N] /\ G[Len(p)] = g[N]
        BY <1>2, <2>3, <2>4 DEF N
      <3>2. Synced(D, F[Len(p)])
        BY <1>3, <3>1
      <3>3. Chain(p, J, frames, F, G)
        BY <2>3
      <3>. HIDE DEF p, J
      <3>4. /\ Len(frames) = G[Len(p)] + Len(back0)
            /\ \A i \in 1..Len(back0) : back0[i] = frames[G[Len(p)] + i]
        BY <1>3, <3>1
      <3>5. Follows(p, J, D, frames, back0)
        BY <3>2, <3>3, <3>4 DEF Follows
      <3>. QED
        BY <3>5 DEF p, J
    <2>. QED
      BY <1>1, <1>4, <1>7, <2>1, <2>5
  <1>. QED
    BY <1>1, <1>6, <1>7

(* The acknowledgement at the head of the queue is processed. *)
LEMMA RecvAckInv == Inv /\ RecvAck => Inv'
  <1>. SUFFICES ASSUME Inv, RecvAck PROVE Inv'
    OBVIOUS
  <1>1. /\ fwd # <<>> /\ Head(fwd).type = "ACK" /\ fwd' = Tail(fwd)
        /\ inflater' = InflaterResized(inflater, Head(inflight))
        /\ inflight' = Tail(inflight)
        /\ UNCHANGED <<deflater, back, acks>>
    BY DEF RecvAck
  <1>2. /\ fwd \in Seq(Messages) /\ acks \in Nat /\ inflight \in Seq(SettingsFrames)
        /\ back \in Seq(SettingsFrames) /\ DeflaterOk(deflater)
        /\ Follows(QueueOf(fwd, acks), inflater, deflater, inflight, back)
    BY DEF Inv
  <1>3. Tail(fwd) \in Seq(Messages) /\ Head(fwd) = fwd[1]
    BY <1>1, <1>2, HeadTailProperties
  <1>4. /\ Tail(inflight) \in Seq(SettingsFrames)
        /\ Follows(QueueOf(Tail(fwd), acks), InflaterResized(inflater, Head(inflight)),
                   deflater, Tail(inflight), back)
    BY <1>1, <1>2, <1>3, FollowsPop
  <1>. QED
    BY <1>1, <1>2, <1>3, <1>4 DEF Inv

(* The block at the head of the queue is inflated. *)
LEMMA RecvHeadersInv == Inv /\ RecvHeaders => Inv'
  <1>. SUFFICES ASSUME Inv, RecvHeaders PROVE Inv'
    OBVIOUS
  <1>1. /\ fwd # <<>> /\ Head(fwd).type = "HEADERS" /\ fwd' = Tail(fwd)
        /\ inflater' = nghttp2_hd_inflate_hd_nv(inflater, Head(fwd).block).I
        /\ UNCHANGED <<deflater, back, acks, inflight>>
    BY DEF RecvHeaders
  <1>2. /\ fwd \in Seq(Messages) /\ acks \in Nat /\ inflight \in Seq(SettingsFrames)
        /\ back \in Seq(SettingsFrames) /\ DeflaterOk(deflater)
        /\ Follows(QueueOf(fwd, acks), inflater, deflater, inflight, back)
    BY DEF Inv
  <1>3. Tail(fwd) \in Seq(Messages) /\ Head(fwd) = fwd[1] /\ fwd[1].type # "ACK"
    BY <1>1, <1>2, HeadTailProperties
  <1>4. Follows(QueueOf(Tail(fwd), acks), inflater', deflater, inflight, back)
    BY <1>1, <1>2, <1>3, FollowsPop
  <1>. QED
    BY <1>1, <1>2, <1>3, <1>4 DEF Inv

(* Every step of the two sides and of what is between them keeps the        *)
(* deflater in step with the inflater to come.                              *)
THEOREM Invariance == Spec => []Inv
  <1>1. Inv /\ [Next]_vars => Inv'
    <2>. SUFFICES ASSUME Inv, [Next]_vars PROVE Inv'
      OBVIOUS
    <2>1. ASSUME NEW nva \in Blocks, SendHeaders(nva) PROVE Inv'
      BY <2>1, SendHeadersInv
    <2>2. CASE SentAck
      BY <2>2, SentAckInv
    <2>3. CASE RecvSettings
      BY <2>3, RecvSettingsInv
    <2>4. CASE RecvAck
      BY <2>4, RecvAckInv
    <2>5. CASE RecvHeaders
      BY <2>5, RecvHeadersInv
    <2>6. ASSUME NEW vs \in SettingsFrames, SendSettings(vs) PROVE Inv'
      BY <2>6, SendSettingsInv
    <2>7. CASE UNCHANGED vars
      BY <2>7 DEF vars, Inv
    <2>. QED
      BY <2>1, <2>2, <2>3, <2>4, <2>5, <2>6, <2>7 DEF Next
  <1>. QED
    BY InitInv, <1>1, PTL DEF Spec

-----------------------------------------------------------------------------
(* The properties *)

(* The inflater is the first state of the chain. *)
LEMMA InflaterSound ==
    ASSUME Inv
    PROVE  InflaterOk(inflater)
  <1>. DEFINE q == QueueOf(fwd, acks)
  <1>1. q \in Seq(Messages) /\ Follows(q, inflater, deflater, inflight, back)
    BY QueueIs DEF Inv
  <1>. HIDE DEF q
  <1>2. PICK f, g : Chain(q, inflater, inflight, f, g)
    BY <1>1 DEF Follows
  <1>3. 0 \in 0..Len(q)
    BY <1>1, LenProperties
  <1>. QED
    BY <1>2, <1>3 DEF Chain

(* The ring, the sequence numbers, the room counted and the map of the two  *)
(* contexts agree in every reachable state (nghttp2_hd.c:533-672,           *)
(* 1100-1243).                                                              *)
THEOREM SoundTables == Spec => []TablesAreSound
  <1>1. Inv => TablesAreSound
    <2>. SUFFICES ASSUME Inv PROVE TablesAreSound
      OBVIOUS
    <2>1. Sound(deflater.ctx, TRUE)
      BY DEF Inv, DeflaterOk
    <2>2. Sound(inflater.ctx, FALSE)
      BY InflaterSound DEF InflaterOk
    <2>. QED
      BY <2>1, <2>2, SoundRing, SoundMap DEF TablesAreSound
  <1>. QED
    BY Invariance, <1>1, PTL

(* Whatever sizes the two have been given in between, a block that arrives  *)
(* is decoded to the fields it was made from and not refused                *)
(* (nghttp2_hd.c:1245-1295, 1440-1489, 1869-2236).                          *)
THEOREM RoundTrip == Spec => []DecodedAsEncoded
  <1>1. Inv => DecodedAsEncoded
    <2>. SUFFICES ASSUME Inv, fwd # <<>>, Head(fwd).type = "HEADERS"
                  PROVE  /\ ~nghttp2_hd_inflate_hd_nv(inflater, Head(fwd).block).I.bad
                         /\ nghttp2_hd_inflate_hd_nv(inflater, Head(fwd).block).out
                              = Head(fwd).fields
      BY DEF DecodedAsEncoded
    <2>1. fwd \in Seq(Messages) /\ Head(fwd) = fwd[1] /\ fwd[1].type # "ACK"
      BY HeadTailProperties DEF Inv
    <2>. DEFINE y == nghttp2_hd_inflate_hd_nv(inflater, fwd[1].block)
    <2>2. InflaterOk(y.I) /\ y.out = fwd[1].fields
      BY <2>1, FollowsPop DEF Inv
    <2>. HIDE DEF y
    <2>3. ~y.I.bad
      BY <2>2, InflaterFacts
    <2>. QED
      BY <2>1, <2>2, <2>3 DEF y
  <1>. QED
    BY Invariance, <1>1, PTL

(* Acknowledgements only shorten the inflater's table. *)
LEMMA AcksTrim ==
    ASSUME NEW q \in Seq(Messages), NEW I, NEW frames \in Seq(SettingsFrames),
           NEW f, NEW g, Chain(q, I, frames, f, g),
           \A i \in 1..Len(q) : q[i].type = "ACK"
    PROVE  IsPrefix(TableOf(f[Len(q)].ctx), TableOf(I.ctx))
  <1>. DEFINE N == Len(q)
              T(i) == TableOf(f[i].ctx)
              S == {i \in Nat : i <= N => IsPrefix(T(i), T(0))}
  <1>1. /\ f[0] = I /\ N \in Nat
        /\ \A i \in 0..N : InflaterOk(f[i])
        /\ \A i \in 1..N : Link(q[i], f[i - 1], f[i], g[i - 1], g[i], frames)
    BY LenProperties DEF Chain
  <1>2. \A i \in 0..N : T(i) \in Seq(Fields)
    BY <1>1, InflaterFacts
  <1>3. \A i \in 1..N : IsPrefix(T(i), T(i - 1))
    <2>. SUFFICES ASSUME NEW i \in 1..N PROVE IsPrefix(T(i), T(i - 1))
      OBVIOUS
    <2>1. Link(q[i], f[i - 1], f[i], g[i - 1], g[i], frames)
      BY <1>1
    <2>2. g[i] \in 1..Len(frames) /\ f[i] = InflaterResized(f[i - 1], frames[g[i]])
      BY <2>1 DEF Link
    <2>3. frames[g[i]] \in SettingsFrames
      BY <2>2, ElementOfSeq
    <2>4. InflaterOk(f[i - 1])
      <3>1. i - 1 \in 0..N
        BY <1>1
      <3>. QED
        BY <1>1, <3>1
    <2>. QED
      BY <2>2, <2>3, <2>4, InflaterResizedOk
  <1>. HIDE DEF N, T
  <1>4. 0 \in S
    <2>1. T(0) \in Seq(Fields) /\ Len(T(0)) \in Nat
      <3>1. 0 \in 0..N
        BY <1>1
      <3>. QED
        BY <1>2, <3>1, LenProperties
    <2>. DEFINE t == T(0)
    <2>. HIDE DEF t
    <2>2. IsPrefix(t, t)
      BY <2>1 DEF IsPrefix, t
    <2>. QED
      BY <2>2 DEF t
  <1>5. ASSUME NEW i \in S PROVE i + 1 \in S
    <2>0. i \in Nat
      OBVIOUS
    <2>. SUFFICES ASSUME i + 1 <= N PROVE IsPrefix(T(i + 1), T(0))
      BY <2>0
    <2>1. IsPrefix(T(i), T(0))
      BY <1>1, <2>0
    <2>2. /\ i + 1 \in 1..N /\ (i + 1) - 1 = i
          /\ i + 1 \in 0..N /\ i \in 0..N /\ 0 \in 0..N
      <3>. HIDE DEF S
      <3>. QED
        BY <1>1, <2>0
    <2>3. IsPrefix(T(i + 1), T((i + 1) - 1))
      BY <1>3, <2>2
    <2>4. T((i + 1) - 1) = T(i)
      BY <2>2
    <2>. QED
      BY <1>2, <2>1, <2>2, <2>3, <2>4, PrefixOfPrefix
  <1>6. S = Nat
    <2>1. S \in SUBSET Nat
      OBVIOUS
    <2>. HIDE DEF S
    <2>. QED
      BY <1>4, <1>5, <2>1, Induction
  <1>7. N \in S /\ N <= N
    <2>. HIDE DEF S
    <2>. QED
      BY <1>1, <1>6
  <1>8. IsPrefix(T(N), T(0))
    BY <1>7
  <1>. QED
    BY <1>1, <1>8 DEF N, T

(* With no block on the way, the deflater's table is a beginning of the     *)
(* inflater's, and the two are the same once every size has been announced  *)
(* and acknowledged (nghttp2_session.c:6722-6765).                          *)
THEOREM Agreement == Spec => []TablesAgree
  <1>1. Inv => TablesAgree
    <2>. SUFFICES ASSUME Inv, \A i \in DOMAIN fwd : fwd[i].type = "ACK"
                  PROVE  /\ IsPrefix(TableOf(deflater.ctx), TableOf(inflater.ctx))
                         /\ inflight = <<>> /\ ~deflater.notify =>
                              /\ TableOf(deflater.ctx) = TableOf(inflater.ctx)
                              /\ deflater.ctx.hd_table_bufsize_max
                                   = inflater.ctx.hd_table_bufsize_max
      BY DEF TablesAgree
    <2>. DEFINE q == QueueOf(fwd, acks)
                N == Len(q)
    <2>0. /\ fwd \in Seq(Messages) /\ acks \in Nat /\ inflight \in Seq(SettingsFrames)
          /\ back \in Seq(SettingsFrames) /\ DeflaterOk(deflater)
          /\ Follows(q, inflater, deflater, inflight, back)
      BY DEF Inv
    <2>1. /\ q \in Seq(Messages) /\ N \in Nat /\ N = Len(fwd) + acks
          /\ \A i \in 1..N : q[i].type = "ACK"
      <3>1. DOMAIN fwd = 1..Len(fwd) /\ Len(fwd) \in Nat
        BY <2>0, LenProperties
      <3>2. /\ q \in Seq(Messages) /\ N = Len(fwd) + acks
            /\ \A i \in 1..N : q[i] = IF i <= Len(fwd) THEN fwd[i] ELSE Ack
            /\ Ack.type = "ACK"
        BY <2>0, QueueIs
      <3>. HIDE DEF q
      <3>3. N \in Nat
        BY <3>2, LenProperties
      <3>4. ASSUME NEW i \in 1..N PROVE q[i].type = "ACK"
        <4>1. CASE i <= Len(fwd)
          <5>1. i \in DOMAIN fwd
            BY <3>1, <3>3, <4>1
          <5>. QED
            BY <3>2, <4>1, <5>1
        <4>2. CASE ~(i <= Len(fwd))
          BY <3>2, <4>2
        <4>. QED
          BY <4>1, <4>2
      <3>. QED
        BY <3>2, <3>3, <3>4
    <2>. HIDE DEF q
    <2>2. PICK f, g : /\ Chain(q, inflater, inflight, f, g)
                      /\ Synced(deflater, f[N])
                      /\ Len(inflight) = g[N] + Len(back)
      BY <2>0 DEF Follows
    <2>. DEFINE J == f[N]
    <2>3. InflaterOk(J) /\ InflaterOk(inflater)
      <3>1. N \in 0..Len(q)
        BY <2>1
      <3>2. InflaterOk(f[N])
        BY <2>2, <3>1 DEF Chain
      <3>. QED
        BY <3>2, InflaterSound
    <2>4. IsPrefix(TableOf(J.ctx), TableOf(inflater.ctx))
      BY <2>0, <2>1, <2>2, AcksTrim
    <2>5. /\ TableOf(J.ctx) \in Seq(Fields) /\ TableOf(inflater.ctx) \in Seq(Fields)
          /\ TableOf(deflater.ctx) \in Seq(Fields) /\ Low(deflater) \in Nat
      BY <2>0, <2>3, InflaterFacts, DeflaterFacts
    <2>6. IsPrefix(TableOf(deflater.ctx), TableOf(J.ctx))
      <3>1. CASE deflater.notify
        <4>1. TableOf(deflater.ctx) = Trim(TableOf(J.ctx), 0, Low(deflater))
          BY <2>2, <3>1 DEF Synced, Behind
        <4>. HIDE DEF J
        <4>. QED
          BY <2>5, <4>1, TrimIsPrefix
      <3>2. CASE ~deflater.notify
        <4>1. TableOf(deflater.ctx) = TableOf(J.ctx)
          BY <2>2, <3>2 DEF Synced, InSync, SameTables
        <4>. QED
          BY <4>1, <2>5, LenProperties DEF IsPrefix
      <3>. QED
        BY <3>1, <3>2
    <2>7. ASSUME inflight = <<>>, ~deflater.notify
          PROVE  /\ TableOf(deflater.ctx) = TableOf(inflater.ctx)
                 /\ deflater.ctx.hd_table_bufsize_max = inflater.ctx.hd_table_bufsize_max
      <3>1. N = 0
        <4>. SUFFICES ASSUME N # 0 PROVE FALSE
          OBVIOUS
        <4>1. 1 \in 1..N
          BY <2>1
        <4>2. Link(q[1], f[1 - 1], f[1], g[1 - 1], g[1], inflight) /\ q[1].type = "ACK"
          BY <2>1, <2>2, <4>1 DEF Chain
        <4>3. g[1] \in 1..Len(inflight)
          BY <4>2 DEF Link
        <4>. QED
          BY <2>7, <4>3
      <3>2. J = inflater
        BY <2>2, <3>1 DEF Chain
      <3>3. SameTables(deflater, J)
        BY <2>2, <2>7 DEF Synced, InSync
      <3>. QED
        BY <3>2, <3>3 DEF SameTables
    <2>. HIDE DEF J
    <2>8. IsPrefix(TableOf(deflater.ctx), TableOf(inflater.ctx))
      BY <2>4, <2>5, <2>6, PrefixOfPrefix
    <2>. QED
      BY <2>7, <2>8
  <1>. QED
    BY Invariance, <1>1, PTL
===============================================================================
