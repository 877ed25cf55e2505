---------------------------------- MODULE Pq ----------------------------------
(***************************************************************************)
(* The binary heap of lib/nghttp2_pq.c.  A heap is a sequence of entries;  *)
(* q[1] is pq->q[0], and an entry's index is its position.  Allocation     *)
(* (capacity, NGHTTP2_ERR_NOMEM) is left out.                              *)
(***************************************************************************)
EXTENDS Integers, SequencesExt

CONSTANT Less(_, _)   \* pq->less

swap(q, i, j) == [q EXCEPT ![i] = q[j], ![j] = q[i]]

RECURSIVE bubble_up(_, _)
bubble_up(q, i) ==
  IF i = 1 \/ ~Less(q[i], q[i \div 2])
  THEN q
  ELSE bubble_up(swap(q, i, i \div 2), i \div 2)

\* Fault: a new entry stays at the end.
PushUnsorted(q, e) == Append(q, e)

nghttp2_pq_push(q, e) == bubble_up(Append(q, e), Len(q) + 1)

\* The smaller one of entry m and entry j, if there is an entry j.
Smaller(q, m, j) == IF j <= Len(q) /\ Less(q[j], q[m]) THEN j ELSE m

RECURSIVE bubble_down(_, _)
bubble_down(q, i) ==
  LET Sink(min) == IF min = i THEN q ELSE bubble_down(swap(q, i, min), min)
  IN  Sink(Smaller(q, Smaller(q, i, 2 * i), 2 * i + 1))

\* The last entry takes the place of entry i.
Fill(q, i) == [Front(q) EXCEPT ![i] = Last(q)]

\* Fault: the entry moved to the top stays there.
PopUnsorted(q) == IF Len(q) <= 1 THEN <<>> ELSE Fill(q, 1)

nghttp2_pq_pop(q) == IF Len(q) <= 1 THEN <<>> ELSE bubble_down(Fill(q, 1), 1)

nghttp2_pq_remove(q, i) ==
  CASE i = 1 -> nghttp2_pq_pop(q)
    [] i # 1 /\ i = Len(q) -> Front(q)
    [] OTHER -> IF Less(q[i], Last(q)) THEN bubble_down(Fill(q, i), i)
                                       ELSE bubble_up(Fill(q, i), i)
===============================================================================
