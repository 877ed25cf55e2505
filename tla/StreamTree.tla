------------------------------ MODULE StreamTree ------------------------------
(***************************************************************************)
(* lib/nghttp2_stream.c: the RFC 7540 dependency tree of a session and the *)
(* weighted fair queue laid over it.  A tree T maps every stream, the root *)
(* included, to the scheduling fields of its nghttp2_stream; every         *)
(* function of the file that changes the tree is an operator from trees to *)
(* trees.                                                                  *)
(*                                                                         *)
(* cycle and seq of a queued stream are kept in its entry of the parent's  *)
(* obq (the code never reads them elsewhere).  The parent hands out seq in *)
(* the order of the pushes, so an entry's seq is its age among the entries *)
(* of the queue: the uint64_t counter behind it is not part of the state.  *)
(***************************************************************************)
EXTENDS Integers, SequencesExt, FiniteSetsExt

CONSTANTS
  StreamIds,     \* the ids of the streams that may exist; the root is 0
  MaxWeight,     \* NGHTTP2_MAX_WEIGHT (256), scaled down
  MaxFrame,      \* NGHTTP2_MAX_FRAME_SIZE_MAX (2^24 - 1), scaled down
  CycleMod       \* 2^64, the range of stream->cycle, scaled down

Root == 0
Null == -1
Streams == StreamIds \cup {Root}

ASSUME StreamIdsAssumption == {Root, Null} \cap StreamIds = {}
ASSUME ScaleAssumption ==
  /\ MaxWeight \in Nat \ {0} /\ MaxFrame \in Nat /\ CycleMod \in Nat \ {0}

MAX_CYCLE_DISTANCE == MaxFrame * MaxWeight + (MaxWeight - 1)

Minus(a, b) == (a - b) % CycleMod   \* the unsigned subtraction

stream_less(l, r) ==
  IF l.cycle = r.cycle
  THEN l.seq < r.seq
  ELSE Minus(r.cycle, l.cycle) <= MAX_CYCLE_DISTANCE

Q == INSTANCE Pq WITH Less <- stream_less

nghttp2_stream_init(w) ==
  [dep_prev |-> Null, dep_next |-> Null, sib_prev |-> Null, sib_next |-> Null,
   weight |-> w, sum_dep_weight |-> 0, item |-> FALSE, deferred |-> {},
   obq |-> <<>>, queued |-> FALSE, descendant_last_cycle |-> 0,
   pending_penalty |-> 0, last_writelen |-> 0]

stream_active(T, s) == T[s].item /\ T[s].deferred = {}

stream_subtree_active(T, s) == stream_active(T, s) \/ T[s].obq # <<>>

nghttp2_stream_in_dep_tree(T, s) ==
  \E f \in {"dep_prev", "dep_next", "sib_prev", "sib_next"} : T[s][f] # Null

RECURSIVE nghttp2_stream_dep_find_ancestor(_, _, _)
nghttp2_stream_dep_find_ancestor(T, s, target) ==
  /\ s # Null
  /\ s = target \/ nghttp2_stream_dep_find_ancestor(T, T[s].dep_prev, target)

\* s and the siblings after it, as a walk along sib_next meets them.
RECURSIVE SibsFrom(_, _)
SibsFrom(T, s) ==
  IF s = Null THEN <<>> ELSE <<s>> \o SibsFrom(T, T[s].sib_next)

stream_last_sib(T, s) == Last(SibsFrom(T, s))

Children(T, s) == SibsFrom(T, T[s].dep_next)

-------------------------------------------------------------------------------
(* The queues *)

IndexOf(q, s) == CHOOSE i \in DOMAIN q : q[i].id = s

\* The entry of age seq has left q: the younger ones move up.
Aged(q, seq) ==
  [i \in DOMAIN q |-> IF q[i].seq > seq THEN [q[i] EXCEPT !.seq = @ - 1] ELSE q[i]]

\* Removal of the entry of s from q.
Dequeue(q, s) ==
  LET Cut(i) == Aged(Q!nghttp2_pq_remove(q, i), q[i].seq) IN Cut(IndexOf(q, s))

Penalty(T, s) == T[s].last_writelen * MaxWeight + T[s].pending_penalty

stream_next_cycle(T, s, last) ==
  (last + Penalty(T, s) \div T[s].weight) % CycleMod

\* Pushes s on the queue of d: what the loop bodies of stream_obq_push and
\* nghttp2_stream_reschedule share.
Enqueue(T, d, s) ==
  LET e == [id    |-> s,
            cycle |-> stream_next_cycle(T, s, T[d].descendant_last_cycle),
            seq   |-> Len(T[d].obq)]
  IN  [T EXCEPT ![d].obq = Q!nghttp2_pq_push(@, e),
                ![s].pending_penalty = Penalty(T, s) % T[s].weight]

RECURSIVE stream_obq_push(_, _, _)
stream_obq_push(T, d, s) ==
  IF d = Null \/ T[s].queued
  THEN T
  ELSE stream_obq_push([Enqueue(T, d, s) EXCEPT ![s].queued = TRUE],
                       T[d].dep_prev, d)

\* s leaves the queue of its parent d.
Leave(T, d, s) ==
  [T EXCEPT ![d].obq = Dequeue(@, s), ![s].queued = FALSE,
            ![s].pending_penalty = 0, ![s].last_writelen = 0,
            ![s].descendant_last_cycle = 0]

RECURSIVE Withdraw(_, _)
\* The loop of stream_obq_remove: s leaves the queue of its parent, and so do
\* its ancestors as long as that leaves them with nothing to send.
Withdraw(T, s) ==
  LET d     == T[s].dep_prev
      Up(t) == IF stream_subtree_active(t, d) THEN t ELSE Withdraw(t, d)
  IN  IF d = Null THEN T ELSE Up(Leave(T, d, s))

stream_obq_remove(T, s) == IF T[s].queued THEN Withdraw(T, s) ELSE T

stream_obq_move(T, dest, src, s) ==
  IF ~T[s].queued
  THEN T
  ELSE stream_obq_push([T EXCEPT ![src].obq = Dequeue(@, s),
                                 ![s].queued = FALSE], dest, s)

\* The root has no use for last_writelen: its copy is left alone.
RECURSIVE nghttp2_stream_reschedule(_, _)
nghttp2_stream_reschedule(T, s) ==
  LET d == T[s].dep_prev
  IN  IF d = Null THEN T
      ELSE nghttp2_stream_reschedule(
             [Enqueue([T EXCEPT ![d].obq = Dequeue(@, s)], d, s)
                EXCEPT ![d].last_writelen =
                         IF d = Root THEN @ ELSE T[s].last_writelen], d)

\* Fault: the penalty pending now is taken for the one of before the last frame.
PendingNow(T, s) == T[s].pending_penalty

\* The penalty that was pending when the cycle of s was computed, from what the
\* last frame left of it.
PendingBefore(T, s) ==
  LET len == T[s].last_writelen * MaxWeight
      w   == T[s].weight
  IN  (T[s].pending_penalty + w - (len % w)) % w

\* Fault: s may come to be due before what has been served.
AnyCycle(served, cycle) == cycle

\* A cycle that is not before the one the queue has served.
NotBefore(served, cycle) ==
  IF Minus(served, cycle) <= MAX_CYCLE_DISTANCE THEN served ELSE cycle

\* The cycle s had been given before its last penalty, and the penalty again
\* with the new weight.  The entry keeps its seq: only its cycle and its place in
\* the heap are renewed.
nghttp2_stream_change_weight(T, s, w) ==
  LET d     == T[s].dep_prev
      T1    == [T EXCEPT ![s].weight = w]
      T2    == [T1 EXCEPT ![d].sum_dep_weight = @ + w - T[s].weight]
      T3    == [T2 EXCEPT ![s].pending_penalty = PendingBefore(T, s)]
      i     == IndexOf(T[d].obq, s)
      e     == T[d].obq[i]
      last  == Minus(e.cycle, Penalty(T3, s) \div T[s].weight)
      cycle == NotBefore(T[d].descendant_last_cycle, stream_next_cycle(T3, s, last))
  IN  IF T[s].weight = w THEN T
      ELSE IF d = Null THEN T1
      ELSE IF ~T[s].queued THEN T2
      ELSE [T3 EXCEPT ![s].pending_penalty = Penalty(T3, s) % w,
                      ![d].obq = Q!nghttp2_pq_push(Q!nghttp2_pq_remove(@, i),
                                                   [e EXCEPT !.cycle = cycle])]

-------------------------------------------------------------------------------
(* The item of a stream *)

nghttp2_stream_attach_item(T, s) ==
  stream_obq_push([T EXCEPT ![s].item = TRUE], T[s].dep_prev, s)

\* Fault: s leaves the queue although streams below it have DATA.
DetachAlways(T, s) == stream_obq_remove(T, s)

stream_update_dep_on_detach_item(T, s) ==
  IF T[s].obq = <<>> THEN stream_obq_remove(T, s) ELSE T

nghttp2_stream_detach_item(T, s) ==
  stream_update_dep_on_detach_item(
    [T EXCEPT ![s].item = FALSE, ![s].deferred = {}], s)

nghttp2_stream_defer_item(T, s, flag) ==
  stream_update_dep_on_detach_item([T EXCEPT ![s].deferred = @ \cup {flag}], s)

nghttp2_stream_resume_deferred_item(T, s, flag) ==
  LET T1 == [T EXCEPT ![s].deferred = @ \ {flag}]
  IN  IF T1[s].deferred # {} THEN T1 ELSE stream_obq_push(T1, T[s].dep_prev, s)

-------------------------------------------------------------------------------
(* The links *)

link_dep(T, d, s) ==
  IF s = Null THEN [T EXCEPT ![d].dep_next = Null]
  ELSE [T EXCEPT ![d].dep_next = s, ![s].dep_prev = d]

link_sib(T, a, b) ==
  IF b = Null THEN [T EXCEPT ![a].sib_next = Null]
  ELSE [T EXCEPT ![a].sib_next = b, ![b].sib_prev = a]

insert_link_dep(T, d, s) == link_dep(link_sib(T, s, T[d].dep_next), d, s)

set_dep_prev(T, s, d) ==
  FoldLeft(LAMBDA t, si : [t EXCEPT ![si].dep_prev = d], T, SibsFrom(T, s))

\* The children of s, linked in the place of s, are followed by the siblings
\* that followed s.
JoinSibs(T, s, first) ==
  IF T[s].sib_next = Null THEN T
  ELSE link_sib(T, stream_last_sib(T, first), T[s].sib_next)

unlink_sib(T, s) ==
  LET first == T[s].dep_next
  IN  IF first = Null
      THEN link_sib(T, T[s].sib_prev, T[s].sib_next)
      ELSE JoinSibs(set_dep_prev(link_sib(T, T[s].sib_prev, first),
                                 first, T[s].dep_prev), s, first)

unlink_dep(T, s) ==
  LET first == T[s].dep_next
      next  == T[s].sib_next
      d     == T[s].dep_prev
  IN  CASE first # Null -> JoinSibs(set_dep_prev(link_dep(T, d, first), first, d),
                                    s, first)
        [] first = Null /\ next # Null ->
             link_dep([T EXCEPT ![next].sib_prev = Null], d, next)
        [] OTHER -> link_dep(T, d, Null)

-------------------------------------------------------------------------------
(* The tree operations *)

\* The children of d move under s, with their places in the queues.
Adopt(T, d, s, children) ==
  FoldLeft(LAMBDA t, si : stream_obq_move([t EXCEPT ![si].dep_prev = s], s, d, si),
           T, children)

PushIfActive(T, d, s) ==
  IF stream_subtree_active(T, s) THEN stream_obq_push(T, d, s) ELSE T

nghttp2_stream_dep_insert(T, d, s) ==
  LET T1 == [T EXCEPT ![s].sum_dep_weight = T[d].sum_dep_weight,
                      ![d].sum_dep_weight = T[s].weight]
      T2 == IF T[d].dep_next = Null THEN T1
            ELSE [PushIfActive(Adopt(T1, d, s, Children(T, d)), d, s)
                    EXCEPT ![s].dep_next = T[d].dep_next]
  IN  link_dep(T2, d, s)

nghttp2_stream_dep_add(T, d, s) ==
  LET T1 == [T EXCEPT ![d].sum_dep_weight = @ + T[s].weight]
  IN  IF T[d].dep_next = Null THEN link_dep(T1, d, s) ELSE insert_link_dep(T1, d, s)

nghttp2_stream_dep_distributed_weight(T, s, w) ==
  LET share == (T[s].weight * w) \div T[s].sum_dep_weight
  IN  IF share < 1 THEN 1 ELSE share

Unlink(T, s) == IF T[s].sib_prev # Null THEN unlink_sib(T, s) ELSE unlink_dep(T, s)

\* s leaves the tree; its children take its place and share its weight.
nghttp2_stream_dep_remove(T, s) ==
  LET d == T[s].dep_prev
      Share(t, si) ==
        LET w == nghttp2_stream_dep_distributed_weight(t, s, t[si].weight)
        IN  stream_obq_move([t EXCEPT ![si].weight = w,
                                      ![d].sum_dep_weight = @ + w], d, s, si)
      T1 == [FoldLeft(Share, T, Children(T, s))
               EXCEPT ![d].sum_dep_weight = @ - T[s].weight]
  IN  [Unlink(stream_obq_remove(T1, s), s)
         EXCEPT ![s].sum_dep_weight = 0,
                ![s].dep_prev = Null, ![s].dep_next = Null,
                ![s].sib_prev = Null, ![s].sib_next = Null]

\* Fault: the weights of the children s already has are forgotten.
InsertSubtreeSum(T, d, s) ==
  LET next == T[d].dep_next
      T1 == [T EXCEPT ![s].sum_dep_weight = T[d].sum_dep_weight,
                      ![d].sum_dep_weight = T[s].weight]
      T2 == link_dep(T1, d, s)
      T3 == IF T[s].dep_next = Null THEN link_dep(T2, s, next)
            ELSE link_sib(T2, stream_last_sib(T2, T[s].dep_next), next)
  IN  PushIfActive(IF next = Null THEN T2
                   ELSE Adopt(T3, d, s, SibsFrom(T3, next)), d, s)

nghttp2_stream_dep_insert_subtree(T, d, s) ==
  LET next == T[d].dep_next
      T1 == [T EXCEPT ![s].sum_dep_weight = @ + T[d].sum_dep_weight,
                      ![d].sum_dep_weight = T[s].weight]
      T2 == link_dep(T1, d, s)
      T3 == IF T[s].dep_next = Null THEN link_dep(T2, s, next)
            ELSE link_sib(T2, stream_last_sib(T2, T[s].dep_next), next)
  IN  PushIfActive(IF next = Null THEN T2
                   ELSE Adopt(T3, d, s, SibsFrom(T3, next)), d, s)

nghttp2_stream_dep_add_subtree(T, d, s) ==
  PushIfActive(nghttp2_stream_dep_add(T, d, s), d, s)

nghttp2_stream_dep_remove_subtree(T, s) ==
  LET d    == T[s].dep_prev
      next == T[s].sib_next
      T1 == IF T[s].sib_prev # Null THEN link_sib(T, T[s].sib_prev, next)
            ELSE LET t == link_dep(T, d, next)
                 IN  IF next = Null THEN t ELSE [t EXCEPT ![next].sib_prev = Null]
      T2 == stream_obq_remove([T1 EXCEPT ![d].sum_dep_weight = @ - T[s].weight], s)
  IN  [T2 EXCEPT ![s].sib_prev = Null, ![s].sib_next = Null, ![s].dep_prev = Null]

\* s, with all below it, goes under spec.stream_id.
MoveUnder(T, s, spec) ==
  LET d      == spec.stream_id
      Put(t) == IF spec.exclusive THEN nghttp2_stream_dep_insert_subtree(t, d, s)
                                  ELSE nghttp2_stream_dep_add_subtree(t, d, s)
  IN  IF d = T[s].dep_prev /\ ~spec.exclusive
      THEN nghttp2_stream_change_weight(T, s, spec.weight)
      ELSE Put([nghttp2_stream_dep_remove_subtree(T, s) EXCEPT ![s].weight = spec.weight])

\* The tree half of nghttp2_session_reprioritize_stream.  A stream that is to
\* depend on its own descendant first puts the descendant in its own place.
Reprioritize(T, s, spec) ==
  LET d == spec.stream_id
  IN  MoveUnder(IF d # Root /\ nghttp2_stream_dep_find_ancestor(T, d, s)
                THEN nghttp2_stream_dep_add_subtree(
                       nghttp2_stream_dep_remove_subtree(T, d), T[s].dep_prev, d)
                ELSE T, s, spec)

-------------------------------------------------------------------------------
(* The choice of the next stream to send *)

\* The stream nghttp2_stream_next_outbound_item picks below s.
RECURSIVE Pick(_, _)
Pick(T, s) ==
  CASE stream_active(T, s) -> s
    [] ~stream_active(T, s) /\ T[s].obq = <<>> -> Null
    [] OTHER -> Pick(T, T[s].obq[1].id)

\* The walk back up records, in every ancestor, the cycle being served.
RECURSIVE Serve(_, _)
Serve(T, s) ==
  LET d == T[s].dep_prev
  IN  IF d = Null THEN T
      ELSE Serve([T EXCEPT ![d].descendant_last_cycle =
                    T[d].obq[IndexOf(T[d].obq, s)].cycle], d)

-------------------------------------------------------------------------------
(* What validate_tree checks in a debugging build, for a tree that holds the *)
(* streams of P.                                                             *)

KidsOf(T, P, s) == {k \in P : T[k].dep_prev = s}

\* check_dep_prev and check_sum_dep.
SoundTree(T, P) ==
  /\ \A s \in P : nghttp2_stream_dep_find_ancestor(T, s, Root)
  /\ \A s \in P \cup {Root} :
       LET kids == Children(T, s)
       IN  /\ ToSet(kids) = KidsOf(T, P, s)
           /\ Len(kids) = Cardinality(KidsOf(T, P, s))
           /\ \A i \in DOMAIN kids :
                T[kids[i]].sib_prev = IF i = 1 THEN Null ELSE kids[i - 1]
           /\ T[s].sum_dep_weight =
                MapThenSumSet(LAMBDA k : T[k].weight, KidsOf(T, P, s))

\* check_queued and ensure_inactive.
QueuesMatch(T, P) ==
  \A s \in P \cup {Root} :
    /\ s # Root => (T[s].queued <=> stream_subtree_active(T, s))
    /\ {T[s].obq[i].id : i \in DOMAIN T[s].obq} = {k \in KidsOf(T, P, s) : T[k].queued}
    /\ Len(T[s].obq) = Cardinality({k \in KidsOf(T, P, s) : T[k].queued})
===============================================================================
