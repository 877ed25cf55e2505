-------------------------- MODULE MonitorPathProofs --------------------------
(***************************************************************************)
(* Proofs about MonitorPath for every buffer_len, dma_buf_len, ring size   *)
(* and number of frames.                                                   *)
(***************************************************************************)
EXTENDS MonitorPath, SequenceTheorems, TLAPS

(* Take and Drop split a sequence in two. *)
LEMMA TakeDrop ==
    ASSUME NEW S, NEW s \in Seq(S), NEW k \in 0..Len(s)
    PROVE  /\ Take(s, k) \in Seq(S) /\ Len(Take(s, k)) = k
           /\ Drop(s, k) \in Seq(S) /\ Len(Drop(s, k)) = Len(s) - k
           /\ \A i \in 1..(Len(s) - k) : Drop(s, k)[i] = s[k + i]
           /\ Take(s, k) \o Drop(s, k) = s
  <1>0. Len(s) \in Nat
    BY LenProperties
  <1>1. \A i \in 1..Len(s) : s[i] \in S
    BY ElementOfSeq
  <1>2. Take(s, k) \in Seq(S) /\ Len(Take(s, k)) = k
    <2>1. /\ SubSeq(s, 1, k) \in Seq(S)
          /\ Len(SubSeq(s, 1, k)) = IF 1 <= k THEN k - 1 + 1 ELSE 0
      BY <1>0, <1>1, SubSeqProperties
    <2>. QED
      BY <1>0, <2>1 DEF Take
  <1>3. /\ Drop(s, k) \in Seq(S) /\ Len(Drop(s, k)) = Len(s) - k
        /\ \A i \in 1..(Len(s) - k) : Drop(s, k)[i] = s[k + i]
    <2>1. /\ SubSeq(s, k + 1, Len(s)) \in Seq(S)
          /\ Len(SubSeq(s, k + 1, Len(s))) =
               IF k + 1 <= Len(s) THEN Len(s) - (k + 1) + 1 ELSE 0
          /\ \A i \in 1..(Len(s) - (k + 1) + 1) :
                SubSeq(s, k + 1, Len(s))[i] = s[(k + 1) + i - 1]
      BY <1>0, <1>1, SubSeqProperties
    <2>. QED
      BY <1>0, <2>1 DEF Drop
  <1>4. Take(s, k) \o Drop(s, k) = s
    <2>0. /\ 1 \in 1..(Len(s) + 1) /\ k \in (1 - 1)..Len(s)
          /\ Len(s) \in k..Len(s)
      BY <1>0
    <2>1. SubSeq(s, 1, k) \o SubSeq(s, k + 1, Len(s)) = SubSeq(s, 1, Len(s))
      BY <2>0, ConcatAdjacentSubSeq, Zenon
    <2>. QED
      BY <2>1, SubSeqFull DEF Take, Drop
  <1>. QED
    BY <1>2, <1>3, <1>4

(* Concatenation as an operator the provers need not interpret. *)
Cat(a, b) == a \o b

(* Its type, its length and its associativity. *)
LEMMA CatFacts ==
    \A S : /\ \A a, b \in Seq(S) : Cat(a, b) \in Seq(S)
           /\ \A a, b, c \in Seq(S) : Cat(Cat(a, b), c) = Cat(a, Cat(b, c))
  BY ConcatProperties, ConcatAssociative DEF Cat

(* Four buffers with the youngest set apart. *)
LEMMA Flatten ==
    ASSUME NEW S, NEW t \in Seq(S), NEW w \in Seq(S),
           NEW r \in Seq(S), NEW b \in Seq(S), NEW x \in Seq(S)
    PROVE  Cat(Cat(t, Cat(w, Cat(r, b))), x) = Cat(t, Cat(w, Cat(r, Cat(b, x))))
  <1>1. Cat(r, b) \in Seq(S) /\ Cat(w, Cat(r, b)) \in Seq(S)
    BY CatFacts
  <1>2. Cat(Cat(t, Cat(w, Cat(r, b))), x) = Cat(t, Cat(Cat(w, Cat(r, b)), x))
    BY <1>1, CatFacts
  <1>3. Cat(Cat(w, Cat(r, b)), x) = Cat(w, Cat(Cat(r, b), x))
    BY <1>1, CatFacts
  <1>4. Cat(Cat(r, b), x) = Cat(r, Cat(b, x))
    BY CatFacts
  <1>. QED
    BY <1>2, <1>3, <1>4

(* Moving the oldest k frames of b to the end of a, as every transfer of   *)
(* the path does, leaves the line they are part of alone.                  *)
LEMMA Transfer ==
    ASSUME NEW S, NEW a \in Seq(S), NEW b \in Seq(S), NEW k \in 0..Len(b),
           NEW a1, a1 = Cat(a, Take(b, k)), NEW b1, b1 = Drop(b, k)
    PROVE  /\ a1 \in Seq(S) /\ Len(a1) = Len(a) + k
           /\ b1 \in Seq(S) /\ Len(b1) = Len(b) - k
           /\ Cat(a1, b1) = Cat(a, b)
           /\ \A c \in Seq(S) : Cat(a1, Cat(b1, c)) = Cat(a, Cat(b, c))
  <1>. DEFINE t == Take(b, k)
  <1>1. /\ t \in Seq(S) /\ Len(t) = k /\ b1 \in Seq(S) /\ Len(b1) = Len(b) - k
        /\ Cat(t, b1) = b
    BY TakeDrop DEF Cat
  <1>. HIDE DEF t
  <1>2. a1 = Cat(a, t)
    BY DEF t
  <1>3. a1 \in Seq(S) /\ Len(a1) = Len(a) + k
    <2>1. Len(Cat(a, t)) = Len(a) + Len(t)
      BY <1>1, ConcatProperties DEF Cat
    <2>. QED
      BY <1>1, <1>2, <2>1, CatFacts
  <1>4. Cat(a1, b1) = Cat(a, b)
    BY <1>1, <1>2, CatFacts
  <1>5. ASSUME NEW c \in Seq(S)
        PROVE  Cat(a1, Cat(b1, c)) = Cat(a, Cat(b, c))
    <2>1. Cat(b1, c) \in Seq(S) /\ Cat(t, Cat(b1, c)) = Cat(b, c)
      BY <1>1, CatFacts
    <2>. QED
      BY <1>1, <1>2, <2>1, CatFacts
  <1>. QED
    BY <1>1, <1>3, <1>4, <1>5

(* A line is increasing exactly when its two parts are and every frame of  *)
(* the first part precedes every frame of the second.                      *)
LEMMA IncreasingConcat ==
    ASSUME NEW a \in Seq(Nat), NEW b \in Seq(Nat)
    PROVE  Increasing(a \o b) <=>
             /\ Increasing(a) /\ Increasing(b)
             /\ \A i \in 1..Len(a), j \in 1..Len(b) : a[i] < b[j]
  <1>1. /\ Len(a \o b) = Len(a) + Len(b)
        /\ \A i \in 1..(Len(a) + Len(b)) :
             (a \o b)[i] = IF i <= Len(a) THEN a[i] ELSE b[i - Len(a)]
        /\ Len(a) \in Nat /\ Len(b) \in Nat
    BY ConcatProperties, LenProperties
  <1>2. ASSUME Increasing(a \o b)
        PROVE  /\ Increasing(a) /\ Increasing(b)
               /\ \A i \in 1..Len(a), j \in 1..Len(b) : a[i] < b[j]
    <2>1. Increasing(a)
      <3>1. SUFFICES ASSUME NEW i \in 1..Len(a), NEW j \in 1..Len(a), i < j
                     PROVE  a[i] < a[j]
        BY DEF Increasing
      <3>2. /\ i \in 1..Len(a \o b) /\ j \in 1..Len(a \o b)
            /\ (a \o b)[i] = a[i] /\ (a \o b)[j] = a[j]
        BY <1>1, <3>1
      <3>. QED
        BY <1>2, <3>1, <3>2 DEF Increasing
    <2>2. Increasing(b)
      <3>1. SUFFICES ASSUME NEW i \in 1..Len(b), NEW j \in 1..Len(b), i < j
                     PROVE  b[i] < b[j]
        BY DEF Increasing
      <3>2. /\ Len(a) + i \in 1..Len(a \o b) /\ Len(a) + j \in 1..Len(a \o b)
            /\ Len(a) + i < Len(a) + j
            /\ (a \o b)[Len(a) + i] = b[i] /\ (a \o b)[Len(a) + j] = b[j]
        BY <1>1, <3>1
      <3>. QED
        BY <1>2, <3>2 DEF Increasing
    <2>3. ASSUME NEW i \in 1..Len(a), NEW j \in 1..Len(b) PROVE a[i] < b[j]
      <3>1. /\ i \in 1..Len(a \o b) /\ Len(a) + j \in 1..Len(a \o b)
            /\ i < Len(a) + j
            /\ (a \o b)[i] = a[i] /\ (a \o b)[Len(a) + j] = b[j]
        BY <1>1
      <3>. QED
        BY <1>2, <3>1 DEF Increasing
    <2>. QED
      BY <2>1, <2>2, <2>3
  <1>3. ASSUME Increasing(a), Increasing(b),
               \A i \in 1..Len(a), j \in 1..Len(b) : a[i] < b[j]
        PROVE  Increasing(a \o b)
    <2>1. SUFFICES ASSUME NEW i \in 1..Len(a \o b), NEW j \in 1..Len(a \o b), i < j
                   PROVE  (a \o b)[i] < (a \o b)[j]
      BY DEF Increasing
    <2>2. CASE j <= Len(a)
      BY <1>1, <1>3, <2>1, <2>2 DEF Increasing
    <2>3. CASE i <= Len(a) /\ j > Len(a)
      <3>1. i \in 1..Len(a) /\ j - Len(a) \in 1..Len(b)
        BY <1>1, <2>1, <2>3
      <3>. QED
        BY <1>1, <1>3, <2>1, <2>3, <3>1
    <2>4. CASE i > Len(a)
      <3>1. /\ i - Len(a) \in 1..Len(b) /\ j - Len(a) \in 1..Len(b)
            /\ i - Len(a) < j - Len(a)
        BY <1>1, <2>1, <2>4
      <3>2. b[i - Len(a)] < b[j - Len(a)]
        BY <1>3, <3>1 DEF Increasing
      <3>. QED
        BY <1>1, <2>1, <2>4, <3>1, <3>2
    <2>. QED
      BY <1>1, <2>1, <2>2, <2>3, <2>4
  <1>. QED
    BY <1>2, <1>3

(* New frames keep an increasing line increasing, whatever an overrun      *)
(* removes from the unread ones.                                           *)
LEMMA CaptureKeepsOrder ==
    ASSUME NEW q \in Seq(Nat), NEW r \in Seq(Nat), NEW c \in Nat, NEW n \in Nat,
           NEW e \in 0..(Len(r) + n), Increasing(q \o r),
           \A i \in 1..Len(q) : q[i] <= c, \A i \in 1..Len(r) : r[i] <= c
    PROVE  Increasing(q \o Drop(r \o [i \in 1..n |-> c + i], e))
  <1>. DEFINE F == [i \in 1..n |-> c + i]
              G == r \o F
              d == Drop(G, e)
  <1>0. /\ Len(q) \in Nat /\ Len(r) \in Nat
        /\ \A i \in 1..Len(q) : q[i] \in Nat
        /\ \A i \in 1..Len(r) : r[i] \in Nat
    BY LenProperties, ElementOfSeq
  <1>1. F \in Seq(Nat) /\ Len(F) = n /\ \A i \in 1..n : F[i] = c + i
    OBVIOUS
  <1>. HIDE DEF F
  <1>2. /\ Increasing(q) /\ Increasing(r)
        /\ \A i \in 1..Len(q), j \in 1..Len(r) : q[i] < r[j]
    BY IncreasingConcat
  <1>3. /\ G \in Seq(Nat) /\ Len(G) = Len(r) + n
        /\ \A i \in 1..(Len(r) + n) :
             G[i] = IF i <= Len(r) THEN r[i] ELSE F[i - Len(r)]
    BY <1>1, ConcatProperties
  <1>4. Increasing(G)
    <2>1. Increasing(F)
      BY <1>1 DEF Increasing
    <2>2. \A i \in 1..Len(r), j \in 1..Len(F) : r[i] < F[j]
      BY <1>0, <1>1, SMTT(30)
    <2>. QED
      BY <1>1, <1>2, <2>1, <2>2, IncreasingConcat
  <1>. HIDE DEF G
  <1>5. /\ d \in Seq(Nat) /\ Len(d) = Len(r) + n - e
        /\ \A i \in 1..(Len(r) + n - e) : d[i] = G[e + i]
    <2>1. e \in 0..Len(G)
      BY <1>3
    <2>2. /\ d \in Seq(Nat) /\ Len(d) = Len(G) - e
          /\ \A i \in 1..(Len(G) - e) : d[i] = G[e + i]
      BY <1>3, <2>1, TakeDrop, ZenonT(60)
    <2>. QED
      BY <1>3, <2>2
  <1>. HIDE DEF d
  <1>6. Increasing(d)
    <2>1. SUFFICES ASSUME NEW i \in 1..Len(d), NEW j \in 1..Len(d), i < j
                   PROVE  d[i] < d[j]
      BY DEF Increasing
    <2>2. d[i] = G[e + i] /\ d[j] = G[e + j]
      BY ONLY <1>5, i \in 1..Len(d), j \in 1..Len(d)
    <2>3. Len(r) \in Nat /\ n \in Nat /\ e \in 0..(Len(r) + n)
      BY <1>0
    <2>4. Len(G) = Len(r) + n /\ Len(d) = Len(r) + n - e
      BY <1>3, <1>5
    <2>5. e + i \in 1..Len(G) /\ e + j \in 1..Len(G) /\ e + i < e + j
      BY ONLY <2>3, <2>4, i \in 1..Len(d), j \in 1..Len(d), i < j
    <2>. QED
      BY ONLY <1>4, <2>2, <2>5 DEF Increasing
  <1>7. ASSUME NEW i \in 1..Len(q), NEW j \in 1..Len(d)
        PROVE  q[i] < d[j]
    <2>0. Len(r) \in Nat /\ n \in Nat /\ e \in 0..(Len(r) + n) /\ j \in 1..(Len(r) + n - e)
      BY <1>0, <1>5
    <2>1. e + j \in 1..(Len(r) + n) /\ d[j] = G[e + j]
      <3>1. d[j] = G[e + j]
        BY ONLY <1>5, <2>0
      <3>2. e + j \in 1..(Len(r) + n)
        BY ONLY <2>0
      <3>. QED
        BY ONLY <3>1, <3>2
    <2>2. CASE e + j <= Len(r)
      <3>0. e + j \in 1..Len(r)
        BY <1>0, <2>1, <2>2
      <3>1. d[j] = r[e + j] /\ e + j \in 1..Len(r)
        BY <1>3, <2>1, <2>2, <3>0
      <3>. QED
        BY <1>2, <3>1
    <2>3. CASE e + j > Len(r)
      <3>1. e + j - Len(r) \in 1..n /\ d[j] = c + (e + j - Len(r))
        <4>. DEFINE m == e + j
        <4>1. m - Len(r) \in 1..n /\ ~(m <= Len(r))
          BY ONLY <2>0, <2>3
        <4>2. m \in 1..(Len(r) + n) /\ d[j] = G[m]
          BY ONLY <2>1
        <4>. HIDE DEF m
        <4>3. G[m] = F[m - Len(r)]
          BY ONLY <1>3, <4>1, <4>2
        <4>4. d[j] = c + (m - Len(r))
          BY ONLY <1>1, <4>1, <4>2, <4>3
        <4>. QED
          BY ONLY <4>1, <4>4 DEF m
      <3>2. q[i] <= c /\ q[i] \in Nat
        BY <1>0
      <3>. QED
        BY <3>1, <3>2
    <2>. QED
      BY <1>0, <2>1, <2>2, <2>3
  <1>8. Increasing(q \o d)
    BY <1>2, <1>5, <1>6, <1>7, IncreasingConcat
  <1>. QED
    BY <1>8 DEF d, G, F
-----------------------------------------------------------------------------
(* The two configurations, as numbers. *)
LEMMA CfgFacts ==
    /\ i2s_read_cfg.buffer_len = BufferLen
    /\ i2s_read_cfg.out_rb_size = RingBufferSize
    /\ i2s_write_cfg.buffer_len = BufferLen
    /\ i2s_write_cfg.dma_buf_len = DmaBufLen
    /\ i2s_write_cfg.tx_desc_auto_clear = TRUE
    /\ DmaFrames(i2s_read_cfg) = DmaBufLen
    /\ DmaFrames(i2s_write_cfg) = DmaBufLen
  <1>. USE DEF i2s_read_cfg, i2s_write_cfg, I2S_STREAM_CUSTOM_READ_CFG,
               I2S_STREAM_CUSTOM_WRITE_CFG
  <1>1. /\ i2s_read_cfg.dma_buf_count - 1 = 1
        /\ i2s_write_cfg.dma_buf_count - 1 = 1
        /\ i2s_read_cfg.dma_buf_len = DmaBufLen
        /\ i2s_write_cfg.dma_buf_len = DmaBufLen
    OBVIOUS
  <1>2. 1 * DmaBufLen = DmaBufLen
    BY DmaBufLenAssumption
  <1>3. /\ DmaFrames(i2s_read_cfg) = DmaBufLen
        /\ DmaFrames(i2s_write_cfg) = DmaBufLen
    BY ONLY <1>1, <1>2 DEF DmaFrames
  <1>. QED
    BY <1>3

(* What TypeOK says of each buffer. *)
LEMMA BufferFacts ==
    ASSUME TypeOK
    PROVE  /\ captured \in Nat
           /\ rx \in Seq(1..captured) /\ rbuf \in Seq(1..captured)
           /\ ring \in Seq(1..captured) /\ wbuf \in Seq(1..captured)
           /\ tx \in Seq(1..captured) /\ heard \in Seq(1..captured)
           /\ Len(rx) \in 0..DmaBufLen /\ Len(rbuf) \in 0..BufferLen
           /\ Len(ring) \in 0..RingBufferSize /\ Len(wbuf) \in 0..BufferLen
           /\ Len(tx) \in 0..DmaBufLen /\ Len(heard) \in Nat
  <1>1. /\ captured \in Nat
        /\ rx \in Seq(1..captured) /\ rbuf \in Seq(1..captured)
        /\ ring \in Seq(1..captured) /\ wbuf \in Seq(1..captured)
        /\ tx \in Seq(1..captured) /\ heard \in Seq(1..captured)
    BY MaxFramesAssumption DEF TypeOK
  <1>2. /\ Len(rx) \in Nat /\ Len(rbuf) \in Nat /\ Len(ring) \in Nat
        /\ Len(wbuf) \in Nat /\ Len(tx) \in Nat /\ Len(heard) \in Nat
    BY <1>1, LenProperties
  <1>. QED
    BY <1>1, <1>2, CfgFacts, BufferLenAssumption, DmaBufLenAssumption,
       RingAssumption DEF TypeOK

(* A transfer never moves more than there is or than there is room for. *)
LEMMA RoomFacts ==
    ASSUME TypeOK
    PROVE  /\ ReadRoom \in 0..Len(rx) /\ Len(rbuf) + ReadRoom <= BufferLen
           /\ RingRoom \in 0..Len(rbuf) /\ Len(ring) + RingRoom <= RingBufferSize
           /\ FetchRoom \in 0..Len(ring) /\ Len(wbuf) + FetchRoom <= BufferLen
           /\ WriteRoom \in 0..Len(wbuf) /\ Len(tx) + WriteRoom <= DmaBufLen
  BY BufferFacts, CfgFacts, BufferLenAssumption, DmaBufLenAssumption, RingAssumption
     DEF ReadRoom, RingRoom, FetchRoom, WriteRoom, Min2
-----------------------------------------------------------------------------
(* A step of a task changes no captured frame, no frame's place in the     *)
(* line and nothing at the two ends of the path.                           *)
LEMMA TaskStep ==
    ASSUME TypeOK, PhasesMatchBuffers, TaskNext
    PROVE  /\ TypeOK' /\ PhasesMatchBuffers'
           /\ Held' = Held /\ heard' = heard /\ captured' = captured
  <1>. DEFINE S == 1..captured
  <1>0. /\ rx \in Seq(S) /\ rbuf \in Seq(S) /\ ring \in Seq(S)
        /\ wbuf \in Seq(S) /\ tx \in Seq(S) /\ heard \in Seq(S)
    BY BufferFacts
  <1>. HIDE DEF S
  <1>5. /\ ReadRoom \in 0..Len(rx) /\ RingRoom \in 0..Len(rbuf)
        /\ FetchRoom \in 0..Len(ring) /\ WriteRoom \in 0..Len(wbuf)
    BY RoomFacts
  <1>6. /\ Len(rx) \in 0..DmaBufLen /\ Len(rbuf) + ReadRoom <= BufferLen
        /\ Len(rbuf) \in 0..BufferLen /\ Len(ring) + RingRoom <= RingBufferSize
        /\ Len(ring) \in 0..RingBufferSize /\ Len(wbuf) + FetchRoom <= BufferLen
        /\ Len(wbuf) \in 0..BufferLen /\ Len(tx) + WriteRoom <= DmaBufLen
    BY RoomFacts, BufferFacts
  <1>1. CASE ReaderInput
    <2>1. /\ rbuf' = Cat(rbuf, Take(rx, ReadRoom)) /\ rx' = Drop(rx, ReadRoom)
          /\ UNCHANGED <<on, captured, ring, wbuf, wphase, tx, heard>>
          /\ rphase' \in {"input", "output"}
      BY <1>1 DEF ReaderInput, Cat
    <2>2. rbuf' \in Seq(S) /\ rx' \in Seq(S)
      BY <1>0, <1>5, <2>1, Transfer
    <2>3. Len(rbuf') = Len(rbuf) + ReadRoom
      BY <1>0, <1>5, <2>1, Transfer
    <2>4. Len(rx') = Len(rx) - ReadRoom
      BY <1>0, <1>5, <2>1, TakeDrop
    <2>5. TypeOK'
      <3>1. Len(rbuf') <= BufferLen /\ Len(rx') <= DmaBufLen
        BY <1>5, <1>6, <2>3, <2>4, BufferLenAssumption,
           DmaBufLenAssumption, RingAssumption
      <3>. QED
        BY <1>0, <2>1, <2>2, <3>1, CfgFacts DEF TypeOK, S
    <2>6. Cat(rbuf', rx') = Cat(rbuf, rx)
      BY <1>0, <2>1, <1>5, Transfer
    <2>8. PhasesMatchBuffers'
      BY <1>5, <1>6, <1>1, <2>1, <2>3, <2>4, CfgFacts, BufferLenAssumption, SMTT(30)
         DEF PhasesMatchBuffers, ReaderInput
    <2>. QED
      BY <2>1, <2>5, <2>6, <2>8 DEF Held, Cat
  <1>2. CASE ReaderOutput
    <2>1. /\ ring' = Cat(ring, Take(rbuf, RingRoom)) /\ rbuf' = Drop(rbuf, RingRoom)
          /\ UNCHANGED <<on, captured, rx, wbuf, wphase, tx, heard>>
          /\ rphase' \in {"input", "output"}
      BY <1>2 DEF ReaderOutput, Cat
    <2>2. ring' \in Seq(S) /\ rbuf' \in Seq(S)
      BY <1>0, <1>5, <2>1, Transfer
    <2>3. Len(ring') = Len(ring) + RingRoom
      BY <1>0, <1>5, <2>1, Transfer
    <2>4. Len(rbuf') = Len(rbuf) - RingRoom
      BY <1>0, <1>5, <2>1, TakeDrop
    <2>5. TypeOK'
      <3>1. Len(ring') <= RingBufferSize /\ Len(rbuf') <= BufferLen
        BY <1>5, <1>6, <2>3, <2>4, BufferLenAssumption,
           DmaBufLenAssumption, RingAssumption
      <3>. QED
        BY <1>0, <2>1, <2>2, <3>1, CfgFacts DEF TypeOK, S
    <2>6. Cat(ring', Cat(rbuf', rx)) = Cat(ring, Cat(rbuf, rx))
      BY <1>0, <2>1, <1>5, Transfer
    <2>8. PhasesMatchBuffers'
      BY <1>5, <1>6, <1>2, <2>1, <2>3, <2>4, CfgFacts, BufferLenAssumption
         DEF PhasesMatchBuffers, ReaderOutput
    <2>. QED
      BY <2>1, <2>5, <2>6, <2>8 DEF Held, Cat
  <1>3. CASE WriterInput
    <2>1. /\ wbuf' = Cat(wbuf, Take(ring, FetchRoom)) /\ ring' = Drop(ring, FetchRoom)
          /\ UNCHANGED <<on, captured, rx, rbuf, rphase, tx, heard>>
          /\ wphase' \in {"input", "output"}
      BY <1>3 DEF WriterInput, Cat
    <2>2. wbuf' \in Seq(S) /\ ring' \in Seq(S)
      BY <1>0, <1>5, <2>1, Transfer
    <2>3. Len(wbuf') = Len(wbuf) + FetchRoom
      BY <1>0, <1>5, <2>1, Transfer
    <2>4. Len(ring') = Len(ring) - FetchRoom
      BY <1>0, <1>5, <2>1, TakeDrop
    <2>5. TypeOK'
      <3>1. Len(wbuf') <= BufferLen /\ Len(ring') <= RingBufferSize
        BY <1>5, <1>6, <2>3, <2>4, BufferLenAssumption,
           DmaBufLenAssumption, RingAssumption
      <3>. QED
        BY <1>0, <2>1, <2>2, <3>1, CfgFacts DEF TypeOK, S
    <2>6. Cat(rbuf, rx) \in Seq(S)
      BY <1>0, CatFacts
    <2>7. Cat(wbuf', Cat(ring', Cat(rbuf, rx))) = Cat(wbuf, Cat(ring, Cat(rbuf, rx)))
      BY <1>0, <2>1, <2>6, <1>5, Transfer
    <2>8. PhasesMatchBuffers'
      BY <1>5, <1>6, <1>3, <2>1, <2>3, <2>4, CfgFacts, BufferLenAssumption
         DEF PhasesMatchBuffers, WriterInput
    <2>. QED
      BY <2>1, <2>5, <2>7, <2>8 DEF Held, Cat
  <1>4. CASE WriterOutput
    <2>1. /\ tx' = Cat(tx, Take(wbuf, WriteRoom)) /\ wbuf' = Drop(wbuf, WriteRoom)
          /\ UNCHANGED <<on, captured, rx, rbuf, rphase, ring, heard>>
          /\ wphase' \in {"input", "output"}
      BY <1>4 DEF WriterOutput, Cat
    <2>2. tx' \in Seq(S) /\ wbuf' \in Seq(S)
      BY <1>0, <1>5, <2>1, Transfer
    <2>3. Len(tx') = Len(tx) + WriteRoom
      BY <1>0, <1>5, <2>1, Transfer
    <2>4. Len(wbuf') = Len(wbuf) - WriteRoom
      BY <1>0, <1>5, <2>1, TakeDrop
    <2>5. TypeOK'
      <3>1. Len(tx') <= DmaBufLen /\ Len(wbuf') <= BufferLen
        BY <1>5, <1>6, <2>3, <2>4, BufferLenAssumption,
           DmaBufLenAssumption, RingAssumption
      <3>. QED
        BY <1>0, <2>1, <2>2, <3>1, CfgFacts DEF TypeOK, S
    <2>6. Cat(ring, Cat(rbuf, rx)) \in Seq(S)
      BY <1>0, CatFacts
    <2>7. Cat(tx', Cat(wbuf', Cat(ring, Cat(rbuf, rx))))
            = Cat(tx, Cat(wbuf, Cat(ring, Cat(rbuf, rx))))
      BY <1>0, <2>1, <2>6, <1>5, Transfer
    <2>8. PhasesMatchBuffers'
      BY <1>5, <1>6, <1>4, <2>1, <2>3, <2>4, CfgFacts, BufferLenAssumption
         DEF PhasesMatchBuffers, WriterOutput
    <2>. QED
      BY <2>1, <2>5, <2>7, <2>8 DEF Held, Cat
  <1>. QED
    BY <1>1, <1>2, <1>3, <1>4 DEF TaskNext

(* Elements of a concatenation and of what an overrun leaves. *)
LEMMA CatElements ==
    ASSUME NEW S, NEW a \in Seq(S), NEW b \in Seq(S)
    PROVE  /\ Len(Cat(a, b)) = Len(a) + Len(b)
           /\ Elements(Cat(a, b)) = Elements(a) \cup Elements(b)
  <1>1. /\ Len(Cat(a, b)) = Len(a) + Len(b) /\ Len(a) \in Nat /\ Len(b) \in Nat
        /\ \A i \in 1..(Len(a) + Len(b)) :
             Cat(a, b)[i] = IF i <= Len(a) THEN a[i] ELSE b[i - Len(a)]
    BY ConcatProperties, LenProperties DEF Cat
  <1>2. Elements(Cat(a, b)) \subseteq Elements(a) \cup Elements(b)
    <2>1. SUFFICES ASSUME NEW i \in 1..(Len(a) + Len(b))
                   PROVE  Cat(a, b)[i] \in Elements(a) \cup Elements(b)
      BY <1>1 DEF Elements
    <2>2. CASE i <= Len(a)
      <3>1. i \in 1..Len(a) /\ Cat(a, b)[i] = a[i]
        BY <1>1, <2>2
      <3>. QED
        BY <3>1 DEF Elements
    <2>3. CASE i > Len(a)
      <3>1. i - Len(a) \in 1..Len(b) /\ Cat(a, b)[i] = b[i - Len(a)]
        BY <1>1, <2>3
      <3>. QED
        BY <3>1 DEF Elements
    <2>. QED
      BY <1>1, <2>2, <2>3
  <1>3. Elements(a) \subseteq Elements(Cat(a, b))
    <2>1. SUFFICES ASSUME NEW i \in 1..Len(a) PROVE a[i] \in Elements(Cat(a, b))
      BY DEF Elements
    <2>2. i \in 1..Len(Cat(a, b)) /\ Cat(a, b)[i] = a[i]
      BY <1>1
    <2>. QED
      BY <2>2 DEF Elements
  <1>4. Elements(b) \subseteq Elements(Cat(a, b))
    <2>1. SUFFICES ASSUME NEW i \in 1..Len(b) PROVE b[i] \in Elements(Cat(a, b))
      BY DEF Elements
    <2>2. Len(a) + i \in 1..Len(Cat(a, b)) /\ Cat(a, b)[Len(a) + i] = b[i]
      BY <1>1
    <2>. QED
      BY <2>2 DEF Elements
  <1>. QED
    BY <1>1, <1>2, <1>3, <1>4

(* Dropping frames adds none. *)
LEMMA DropElements ==
    ASSUME NEW S, NEW s \in Seq(S), NEW k \in 0..Len(s)
    PROVE  Elements(Drop(s, k)) \subseteq Elements(s)
  <1>1. /\ Len(Drop(s, k)) = Len(s) - k /\ Len(s) \in Nat
        /\ \A i \in 1..(Len(s) - k) : Drop(s, k)[i] = s[k + i]
    BY TakeDrop, LenProperties
  <1>2. SUFFICES ASSUME NEW i \in 1..(Len(s) - k)
                 PROVE  Drop(s, k)[i] \in Elements(s)
    BY <1>1 DEF Elements
  <1>3. k + i \in 1..Len(s) /\ Drop(s, k)[i] = s[k + i]
    BY <1>1
  <1>. QED
    BY <1>3 DEF Elements

(* What an RX interrupt does to the line: it extends and perhaps cuts its  *)
(* young end.                                                              *)
LEMMA RxLine ==
    ASSUME TypeOK, RxDma
    PROVE  /\ captured' = captured + DmaBufLen /\ captured \in Nat
           /\ Overrun \in 0..(Len(rx) + DmaBufLen)
           /\ Len(rx) + DmaBufLen - Overrun <= DmaBufLen
           /\ rx' \in Seq(1..captured') /\ Len(rx') = Len(rx) + DmaBufLen - Overrun
           /\ Elements(rx') \subseteq Elements(rx) \cup (captured + 1 .. captured')
           /\ Taken \in Seq(1..captured)
           /\ Held = Cat(Taken, rx) /\ Held' = Cat(Taken, rx')
  <1>. DEFINE S == 1..captured'
              n == Len(rx) + DmaBufLen
  <1>0. /\ captured \in Nat /\ DmaBufLen \in Nat \ {0}
        /\ captured' = captured + DmaBufLen
        /\ rx' = Drop(rx \o Fresh, Overrun)
        /\ UNCHANGED <<on, rbuf, rphase, ring, wbuf, wphase, tx, heard>>
    BY BufferFacts, DmaBufLenAssumption DEF RxDma
  <1>1. 1..captured \subseteq S
    BY <1>0
  <1>2. /\ rx \in Seq(S) /\ rbuf \in Seq(S) /\ ring \in Seq(S)
        /\ wbuf \in Seq(S) /\ tx \in Seq(S)
    BY <1>1, BufferFacts, SeqMonotonic
  <1>3. Overrun \in 0..n /\ n - Overrun <= DmaBufLen
    <2>1. n \in Nat /\ DmaBufLen \in Nat
      BY <1>0, BufferFacts
    <2>2. Overrun = n - Min2(n, DmaBufLen)
      BY CfgFacts DEF Overrun
    <2>. HIDE DEF n
    <2>. QED
      BY <2>1, <2>2 DEF Min2
  <1>4. /\ Fresh \in Seq(S) /\ Len(Fresh) = DmaBufLen
        /\ Elements(Fresh) \subseteq captured + 1 .. captured'
    BY <1>0 DEF Fresh, Elements
  <1>5. /\ rx' \in Seq(S) /\ Len(rx') = n - Overrun
        /\ Elements(rx') \subseteq Elements(rx) \cup Elements(Fresh)
    <2>. DEFINE G == Cat(rx, Fresh)
    <2>. HIDE DEF S
    <2>1. /\ G \in Seq(S) /\ Len(G) = Len(rx) + Len(Fresh)
          /\ Elements(G) = Elements(rx) \cup Elements(Fresh)
      <3>1. G \in Seq(S)
        BY <1>2, <1>4, CatFacts
      <3>2. /\ Len(G) = Len(rx) + Len(Fresh)
            /\ Elements(G) = Elements(rx) \cup Elements(Fresh)
        <4>1. rx \in Seq(S) /\ Fresh \in Seq(S)
          BY <1>2, <1>4
        <4>. QED
          BY <4>1, CatElements
      <3>. QED
        BY <3>1, <3>2
    <2>2. rx' = Drop(G, Overrun)
      BY <1>0 DEF Cat
    <2>. HIDE DEF G
    <2>3. Overrun \in 0..Len(G)
      BY <1>3, <1>4, <2>1
    <2>4. rx' \in Seq(S) /\ Len(rx') = Len(G) - Overrun
      BY <2>1, <2>2, <2>3, TakeDrop
    <2>5. Elements(rx') \subseteq Elements(G)
      BY <2>1, <2>2, <2>3, DropElements
    <2>. QED
      BY <1>4, <2>1, <2>4, <2>5
  <1>6. Taken \in Seq(1..captured)
    BY BufferFacts, CatFacts DEF Taken, Cat
  <1>7. Held = Cat(Taken, rx) /\ Held' = Cat(Taken, rx')
    <2>1. Taken = Cat(tx, Cat(wbuf, Cat(ring, rbuf)))
      BY DEF Taken, Cat
    <2>2. /\ Held = Cat(tx, Cat(wbuf, Cat(ring, Cat(rbuf, rx))))
          /\ Held' = Cat(tx, Cat(wbuf, Cat(ring, Cat(rbuf, rx'))))
      BY <1>0 DEF Held, Cat
    <2>. HIDE DEF S
    <2>3. ASSUME NEW x \in Seq(S)
          PROVE  Cat(Cat(tx, Cat(wbuf, Cat(ring, rbuf))), x) =
                   Cat(tx, Cat(wbuf, Cat(ring, Cat(rbuf, x))))
      BY <1>2, Flatten
    <2>. QED
      BY <1>2, <1>5, <2>1, <2>2, <2>3
  <1>. QED
    BY <1>0, <1>3, <1>4, <1>5, <1>6, <1>7

(* An RX interrupt preserves the invariant. *)
LEMMA RxStep ==
    ASSUME TypeOK, FramesInOrder, RxDma
    PROVE  TypeOK' /\ FramesInOrder'
  <1>0. /\ captured \in Nat /\ DmaBufLen \in Nat \ {0}
        /\ captured' = captured + DmaBufLen /\ captured' <= MaxFrames
        /\ UNCHANGED <<on, rbuf, rphase, ring, wbuf, wphase, tx, heard>>
    BY BufferFacts, DmaBufLenAssumption DEF RxDma
  <1>1. TypeOK'
    <2>1. 1..captured \subseteq 1..captured'
      BY <1>0
    <2>2. /\ rbuf \in Seq(1..captured') /\ ring \in Seq(1..captured')
          /\ wbuf \in Seq(1..captured') /\ tx \in Seq(1..captured')
          /\ heard \in Seq(1..captured')
      BY <2>1, BufferFacts, SeqMonotonic
    <2>3. captured' \in 0..MaxFrames
      BY <1>0, MaxFramesAssumption
    <2>4. rx' \in Seq(1..captured') /\ Len(rx') <= DmaBufLen
      BY RxLine
    <2>. QED
      BY <1>0, <2>2, <2>3, <2>4, CfgFacts DEF TypeOK
  <1>2. FramesInOrder'
    <2>. DEFINE q == Cat(heard, Taken)
    <2>1. q \in Seq(1..captured)
      BY BufferFacts, RxLine, CatFacts
    <2>2. /\ q \in Seq(Nat) /\ rx \in Seq(Nat) /\ rx' \in Seq(Nat)
          /\ heard \in Seq(Nat) /\ Taken \in Seq(Nat)
      <3>1. 1..captured \subseteq Nat /\ 1..captured' \subseteq Nat
        BY <1>0
      <3>. HIDE DEF q
      <3>. QED
        BY <2>1, <3>1, BufferFacts, RxLine, SeqMonotonic
    <2>3. /\ \A i \in 1..Len(q) : q[i] <= captured
          /\ \A i \in 1..Len(rx) : rx[i] <= captured
      BY <2>1, BufferFacts, ElementOfSeq, SMTT(30)
    <2>4. /\ Cat(heard, Held) = Cat(q, rx)
          /\ Cat(heard, Held)' = Cat(q, rx')
      BY <1>0, <2>2, RxLine, CatFacts
    <2>5. Increasing(q \o Drop(rx \o [i \in 1..DmaBufLen |-> captured + i], Overrun))
      <3>1. Increasing(q \o rx)
        BY <2>4 DEF FramesInOrder, Cat
      <3>2. Overrun \in 0..(Len(rx) + DmaBufLen)
        BY RxLine
      <3>. HIDE DEF q
      <3>. QED
        BY <1>0, <2>2, <2>3, <3>1, <3>2, CaptureKeepsOrder
    <2>6. rx' = Drop(rx \o [i \in 1..DmaBufLen |-> captured + i], Overrun)
      BY DEF RxDma, Fresh
    <2>. QED
      BY <2>4, <2>5, <2>6 DEF FramesInOrder, Cat
  <1>. QED
    BY <1>1, <1>2

(* A TX interrupt moves the oldest frames of the TX descriptors to the     *)
(* frames heard: with tx_desc_auto_clear set nothing is played twice.      *)
LEMMA TxStep ==
    ASSUME TypeOK, TxDma
    PROVE  /\ TypeOK' /\ Cat(heard, Held)' = Cat(heard, Held)
           /\ captured' = captured
           /\ \E k \in 0..Len(tx), rest \in Seq(1..captured) :
                /\ heard' = Cat(heard, Take(tx, k)) /\ tx' = Drop(tx, k)
                /\ Held = Cat(tx, rest) /\ Held' = Cat(tx', rest)
  <1>. DEFINE S == 1..captured
              k == Min2(Len(tx), DmaBufLen)
              rest == Cat(wbuf, Cat(ring, Cat(rbuf, rx)))
  <1>0. /\ rx \in Seq(S) /\ rbuf \in Seq(S) /\ ring \in Seq(S)
        /\ wbuf \in Seq(S) /\ tx \in Seq(S) /\ heard \in Seq(S)
        /\ Len(tx) \in 0..DmaBufLen
    BY BufferFacts
  <1>. HIDE DEF S
  <1>1. k \in 0..Len(tx)
    BY <1>0, DmaBufLenAssumption DEF Min2
  <1>2. /\ heard' = heard \o Take(tx, k) \o <<>> /\ tx' = Drop(tx, k)
        /\ UNCHANGED <<on, captured, rx, rbuf, rphase, ring, wbuf, wphase>>
    BY CfgFacts DEF TxDma, Stale
  <1>. HIDE DEF k
  <1>3. Cat(heard, Take(tx, k)) \in Seq(S)
    BY <1>0, <1>1, TakeDrop, CatFacts
  <1>4. heard' = Cat(heard, Take(tx, k))
    BY <1>2, <1>3, ConcatEmptySeq DEF Cat
  <1>5. tx' \in Seq(S) /\ Len(tx') <= DmaBufLen
    <2>1. tx' \in Seq(S) /\ Len(tx') = Len(tx) - k
      BY <1>0, <1>1, <1>2, TakeDrop
    <2>. QED
      BY <1>0, <1>1, <2>1, DmaBufLenAssumption
  <1>6. TypeOK'
    BY <1>0, <1>2, <1>3, <1>4, <1>5, CfgFacts DEF TypeOK, S
  <1>7. Cat(heard', Cat(tx', rest)) = Cat(heard, Cat(tx, rest))
    <2>1. rest \in Seq(S)
      BY <1>0, CatFacts
    <2>2. tx' = Drop(tx, k)
      BY <1>2
    <2>. HIDE DEF rest
    <2>. QED
      BY <1>0, <1>1, <1>4, <2>1, <2>2, Transfer
  <1>8. Held = Cat(tx, rest) /\ Held' = Cat(tx', rest)
    BY <1>2 DEF Held, Cat
  <1>9. rest \in Seq(S)
    BY <1>0, CatFacts
  <1>. HIDE DEF rest
  <1>. QED
    BY <1>1, <1>2, <1>4, <1>6, <1>7, <1>8, <1>9 DEF S

-----------------------------------------------------------------------------
(* The inductive invariant. *)
IndInv == TypeOK /\ PhasesMatchBuffers /\ FramesInOrder

(* The empty path satisfies it. *)
LEMMA IndInvInit == Init => IndInv
  <1>. SUFFICES ASSUME Init PROVE IndInv
    OBVIOUS
  <1>1. TypeOK /\ PhasesMatchBuffers
    BY CfgFacts, BufferLenAssumption, DmaBufLenAssumption, RingAssumption,
       MaxFramesAssumption DEF Init, TypeOK, PhasesMatchBuffers
  <1>2. heard \o Held = <<>>
    BY DEF Init, Held
  <1>3. FramesInOrder
    BY <1>2 DEF FramesInOrder, Increasing
  <1>. QED
    BY <1>1, <1>3 DEF IndInv

(* Every step preserves it: one case for each action. *)
LEMMA IndInvNext == IndInv /\ [Next]_vars => IndInv'
  <1>. SUFFICES ASSUME IndInv, [Next]_vars PROVE IndInv'
    OBVIOUS
  <1>. USE DEF IndInv
  <1>1. CASE TaskNext
    <2>1. TypeOK' /\ PhasesMatchBuffers' /\ Held' = Held /\ heard' = heard
      BY <1>1, TaskStep
    <2>. QED
      BY <2>1 DEF FramesInOrder
  <1>2. CASE RxDma
    <2>1. TypeOK' /\ FramesInOrder'
      BY <1>2, RxStep
    <2>2. PhasesMatchBuffers'
      BY <1>2 DEF RxDma, PhasesMatchBuffers
    <2>. QED
      BY <2>1, <2>2
  <1>3. CASE TxDma
    <2>1. TypeOK' /\ Cat(heard, Held)' = Cat(heard, Held)
      BY <1>3, TxStep
    <2>2. PhasesMatchBuffers'
      BY <1>3 DEF TxDma, PhasesMatchBuffers
    <2>. QED
      BY <2>1, <2>2 DEF FramesInOrder, Cat
  <1>4. ASSUME NEW el \in {"i2sr", "i2sw"}, Start(el) PROVE IndInv'
    BY <1>4 DEF Start, TypeOK, PhasesMatchBuffers, FramesInOrder, Held
  <1>5. CASE UNCHANGED vars
    BY <1>5 DEF vars, TypeOK, PhasesMatchBuffers, FramesInOrder, Held
  <1>. QED
    BY <1>1, <1>2, <1>3, <1>4, <1>5 DEF Next

(* The invariant holds in every state of every behaviour of the data path. *)
THEOREM Inductive == Spec => []IndInv
  BY IndInvInit, IndInvNext, PTL DEF Spec

(* Type correctness: every buffer of the path stays within the capacity    *)
(* main.c configures and holds only frames that have been captured.        *)
THEOREM TypeCorrect == Spec => []TypeOK
  <1>1. IndInv => TypeOK
    BY DEF IndInv
  <1>. QED
    BY <1>1, Inductive, PTL

(* Frames are heard in the order of their capture and none twice, whatever *)
(* the buffer sizes, the interleaving of the two tasks with the two DMA    *)
(* interrupts and the frames lost.                                         *)
THEOREM OrderPreserved == Spec => []FramesInOrder
  <1>1. IndInv => FramesInOrder
    BY DEF IndInv
  <1>. QED
    BY <1>1, Inductive, PTL

(* The reader and the writer never block each other for ever. *)
THEOREM TasksNeverStall == Spec => []NoStall
  <1>1. IndInv => NoStall
    <2>. SUFFICES ASSUME IndInv, ReaderBlocked, WriterBlocked, rx # <<>>
                  PROVE  Len(tx) = DmaBufLen
      BY CfgFacts DEF NoStall
    <2>0. TypeOK /\ PhasesMatchBuffers
      BY DEF IndInv
    <2>1. /\ Len(rx) \in Nat \ {0} /\ Len(rbuf) \in 0..BufferLen
          /\ Len(ring) \in 0..RingBufferSize /\ Len(wbuf) \in 0..BufferLen
          /\ Len(tx) \in 0..DmaBufLen
          /\ BufferLen \in Nat \ {0} /\ RingBufferSize \in Nat \ {0}
          /\ DmaBufLen \in Nat
      BY <2>0, BufferFacts, EmptySeq, BufferLenAssumption, RingAssumption,
         DmaBufLenAssumption
    <2>2. Len(rbuf) > 0 /\ Len(ring) = RingBufferSize
      BY <2>0, <2>1, CfgFacts
         DEF ReaderBlocked, PhasesMatchBuffers, ReadRoom, RingRoom, Min2, TypeOK
    <2>3. Len(wbuf) > 0 /\ WriteRoom = 0
      BY <2>0, <2>1, <2>2, CfgFacts
         DEF WriterBlocked, PhasesMatchBuffers, FetchRoom, Min2, TypeOK
    <2>. QED
      BY <2>1, <2>3, CfgFacts DEF WriteRoom, Min2
  <1>. QED
    BY <1>1, Inductive, PTL
-----------------------------------------------------------------------------
(* What follows a common beginning is the same. *)
LEMMA CatCancel ==
    ASSUME NEW S, NEW s \in Seq(S), NEW t \in Seq(S), NEW v \in Seq(S),
           Cat(s, t) = Cat(s, v)
    PROVE  t = v
  BY ConcatSimplifications DEF Cat

(* Taking from the front of a line takes from its oldest buffer. *)
LEMMA SplitFront ==
    ASSUME NEW S, NEW a \in Seq(S), NEW b \in Seq(S), NEW k \in 1..Len(a)
    PROVE  /\ k \in 1..Len(Cat(a, b))
           /\ Take(Cat(a, b), k) = Take(a, k)
           /\ Drop(Cat(a, b), k) = Cat(Drop(a, k), b)
  <1>0. Cat(a, b) \in Seq(S) /\ Len(Cat(a, b)) = Len(a) + Len(b)
    BY CatFacts, CatElements
  <1>1. Len(a) \in Nat /\ Len(b) \in Nat
    BY LenProperties
  <1>2. /\ k \in 1..Len(Cat(a, b))
        /\ k \in 0..Len(a) /\ k \in 0..Len(Cat(a, b))
    BY <1>0, <1>1
  <1>3. Take(Cat(a, b), k) = Take(a, k)
    <2>1. 1 \in 1..Len(a)
      BY <1>1
    <2>. QED
      BY <2>1, SubSeqOfConcat1 DEF Take, Cat
  <1>4. Drop(Cat(a, b), k) = Cat(Drop(a, k), b)
    <2>. DEFINE h == Cat(a, b)
    <2>1. /\ Take(h, k) \in Seq(S) /\ Drop(h, k) \in Seq(S)
          /\ Cat(Take(h, k), Drop(h, k)) = h
      BY <1>0, <1>2, TakeDrop DEF Cat
    <2>2. /\ Drop(a, k) \in Seq(S) /\ Cat(Take(a, k), Drop(a, k)) = a
          /\ Take(a, k) \in Seq(S)
      BY <1>2, TakeDrop DEF Cat
    <2>3. Cat(Take(a, k), Drop(h, k)) = Cat(Take(a, k), Cat(Drop(a, k), b))
      BY <1>3, <2>1, <2>2, CatFacts
    <2>4. Cat(Drop(a, k), b) \in Seq(S)
      BY <2>2, CatFacts
    <2>. QED
      BY <2>1, <2>2, <2>3, <2>4, CatCancel
  <1>. QED
    BY <1>2, <1>3, <1>4

(* Frames disappear in RX overruns only, and an overrun loses exactly the  *)
(* frames the model says it does.                                          *)
THEOREM LossAccounted == Spec => LossOnlyByOverrun
  <1>1. IndInv /\ [Next]_vars =>
          [Lost' # Lost => RxDma /\ Lost' = Lost + Overrun]_vars
    <2>. SUFFICES ASSUME IndInv, Next
                  PROVE  Lost' # Lost => RxDma /\ Lost' = Lost + Overrun
      OBVIOUS
    <2>0. TypeOK /\ PhasesMatchBuffers
      BY DEF IndInv
    <2>1. CASE TaskNext
      BY <2>0, <2>1, TaskStep DEF Lost
    <2>2. CASE RxDma
      <3>1. /\ rx \in Seq(1..captured') /\ rx' \in Seq(1..captured')
            /\ Taken \in Seq(1..captured')
        <4>1. 1..captured \subseteq 1..captured'
          BY <2>0, <2>2, RxLine, DmaBufLenAssumption
        <4>. QED
          BY <2>0, <2>2, <4>1, RxLine, BufferFacts, SeqMonotonic
      <3>2. /\ Len(Held) = Len(Taken) + Len(rx) /\ Len(Held') = Len(Taken) + Len(rx')
            /\ Len(Taken) \in Nat
        <4>1. /\ Len(Cat(Taken, rx)) = Len(Taken) + Len(rx)
              /\ Len(Cat(Taken, rx')) = Len(Taken) + Len(rx')
          BY <3>1, CatElements, Zenon
        <4>. QED
          BY <2>0, <2>2, <3>1, <4>1, RxLine, LenProperties
      <3>3. /\ captured' = captured + DmaBufLen /\ captured \in Nat
            /\ Len(rx') = Len(rx) + DmaBufLen - Overrun
            /\ Overrun \in Int /\ Len(rx) \in Nat /\ Len(heard) \in Nat
            /\ heard' = heard
        BY <2>0, <2>2, RxLine, BufferFacts DEF RxDma
      <3>. QED
        BY <2>2, <3>2, <3>3, DmaBufLenAssumption DEF Lost
    <2>3. CASE TxDma
      <3>1. PICK k \in 0..Len(tx), rest \in Seq(1..captured) :
              /\ heard' = Cat(heard, Take(tx, k)) /\ tx' = Drop(tx, k)
              /\ Held = Cat(tx, rest) /\ Held' = Cat(tx', rest)
        BY <2>0, <2>3, TxStep
      <3>2. /\ tx \in Seq(1..captured) /\ heard \in Seq(1..captured)
            /\ captured \in Nat /\ Len(heard) \in Nat /\ Len(tx) \in Nat
        BY <2>0, BufferFacts
      <3>3. /\ Take(tx, k) \in Seq(1..captured) /\ Len(Take(tx, k)) = k
            /\ tx' \in Seq(1..captured) /\ Len(tx') = Len(tx) - k
        BY <3>1, <3>2, TakeDrop
      <3>4. /\ Len(heard') = Len(heard) + Len(Take(tx, k))
            /\ Len(Held) = Len(tx) + Len(rest) /\ Len(Held') = Len(tx') + Len(rest)
        BY <3>1, <3>2, <3>3, CatElements, Zenon
      <3>5. Len(rest) \in Nat /\ captured' = captured
        BY <2>0, <2>3, TxStep, LenProperties
      <3>. QED
        BY <3>2, <3>3, <3>4, <3>5 DEF Lost
    <2>4. ASSUME NEW el \in {"i2sr", "i2sw"}, Start(el) PROVE Lost' = Lost
      BY <2>4 DEF Start, Lost, Held
    <2>. QED
      BY <2>1, <2>2, <2>3, <2>4 DEF Next
  <1>. QED
    BY <1>1, Inductive, PTL DEF Spec, LossOnlyByOverrun

(* The monitor implements AudioLine: nothing that happens between the      *)
(* microphone and the speaker can reorder, repeat or invent sound.         *)
THEOREM ImplementsLine == Spec => LineSpec
  <1>1. Init => Line!Init
    BY DEF Init, Line!Init, Held
  <1>2. IndInv /\ IndInv' /\ [Next]_vars => [Line!Next]_<<captured, Held, heard>>
    <2>. SUFFICES ASSUME IndInv, IndInv', [Next]_vars
                  PROVE  Line!Next \/ UNCHANGED <<captured, Held, heard>>
      OBVIOUS
    <2>0. TypeOK /\ PhasesMatchBuffers /\ FramesInOrder'
      BY DEF IndInv
    <2>1. CASE TaskNext
      BY <2>0, <2>1, TaskStep
    <2>2. CASE RxDma
      <3>1. captured' \in Nat /\ captured' >= captured /\ heard' = heard
        BY <2>0, <2>2, RxLine, DmaBufLenAssumption DEF RxDma
      <3>2. /\ rx \in Seq(1..captured') /\ rx' \in Seq(1..captured')
            /\ Taken \in Seq(1..captured') /\ heard \in Seq(1..captured')
        <4>1. 1..captured \subseteq 1..captured'
          BY <2>0, <2>2, RxLine, DmaBufLenAssumption
        <4>. QED
          BY <2>0, <2>2, <4>1, RxLine, BufferFacts, SeqMonotonic
      <3>3. /\ Elements(Held) = Elements(Taken) \cup Elements(rx)
            /\ Elements(Held') = Elements(Taken) \cup Elements(rx')
        <4>1. /\ Elements(Cat(Taken, rx)) = Elements(Taken) \cup Elements(rx)
              /\ Elements(Cat(Taken, rx')) = Elements(Taken) \cup Elements(rx')
          BY ONLY <3>2, CatElements
        <4>. QED
          BY <2>0, <2>2, <4>1, RxLine
      <3>4. Elements(Held') \subseteq Elements(Held) \cup (captured + 1 .. captured')
        BY <2>0, <2>2, <3>3, RxLine
      <3>5. Increasing(Held')
        <4>1. heard' \in Seq(Nat) /\ Held' \in Seq(Nat)
          <5>1. Held' \in Seq(1..captured')
            BY <2>0, <2>2, <3>2, RxLine, CatFacts
          <5>2. 1..captured' \subseteq Nat
            BY <3>1
          <5>. QED
            BY <3>1, <3>2, <5>1, <5>2, SeqMonotonic
        <4>2. Increasing(heard' \o Held')
          BY <2>0 DEF FramesInOrder
        <4>. QED
          BY <4>1, <4>2, IncreasingConcat
      <3>6. Line!Capture
        BY <3>1, <3>4, <3>5
           DEF Line!Capture, Line!Increasing, Line!Elements, Increasing, Elements
      <3>. QED
        BY <3>6 DEF Line!Next
    <2>3. CASE TxDma
      <3>1. PICK k \in 0..Len(tx), rest \in Seq(1..captured) :
              /\ heard' = Cat(heard, Take(tx, k)) /\ tx' = Drop(tx, k)
              /\ Held = Cat(tx, rest) /\ Held' = Cat(tx', rest)
        BY <2>0, <2>3, TxStep
      <3>2. /\ tx \in Seq(1..captured) /\ heard \in Seq(1..captured)
            /\ Len(tx) \in Nat /\ captured' = captured
        BY <2>0, <2>3, BufferFacts, TxStep
      <3>3. CASE k = 0
        <4>1. Take(tx, 0) = <<>> /\ Drop(tx, 0) = tx
          BY <3>2, SubSeqEmpty, SubSeqFull DEF Take, Drop
        <4>2. heard' = heard
          BY <3>1, <3>2, <3>3, <4>1, ConcatEmptySeq DEF Cat
        <4>. QED
          BY <3>1, <3>2, <3>3, <4>1, <4>2
      <3>4. CASE k > 0
        <4>1. /\ Take(Held, k) = Take(tx, k) /\ Drop(Held, k) = Held'
              /\ k \in 1..Len(Held)
          BY <3>1, <3>2, <3>4, SplitFront
        <4>2. Line!Play
          BY <3>1, <3>2, <4>1 DEF Line!Play, Take, Drop, Cat
        <4>. QED
          BY <4>2 DEF Line!Next
      <3>. QED
        BY <3>3, <3>4
    <2>4. ASSUME NEW el \in {"i2sr", "i2sw"}, Start(el)
          PROVE  UNCHANGED <<captured, Held, heard>>
      BY <2>4 DEF Start, Held
    <2>5. CASE UNCHANGED vars
      BY <2>5 DEF vars, Held
    <2>. QED
      BY <2>1, <2>2, <2>3, <2>4, <2>5 DEF Next
  <1>. QED
    BY <1>1, <1>2, Inductive, PTL DEF Spec, LineSpec, Line!Spec
=============================================================================
