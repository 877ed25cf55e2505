----------------------------- MODULE StreamSched ------------------------------
(***************************************************************************)
(* The dependency tree under every sequence of the calls a session makes   *)
(* of nghttp2_stream.c, without the rest of the session: any number of     *)
(* streams come, carry DATA, are moved, are deferred and go.               *)
(***************************************************************************)
EXTENDS StreamTree, TLC

CONSTANTS
  Weights,       \* the weights priority specifications carry
  WriteLens,     \* the lengths of the DATA frames written
  Moves          \* what is done with streams that are open: "none", "weights"
                 \* (they get other weights in their places) or "all"

ASSUME WeightsAssumption == Weights \subseteq 1..MaxWeight
ASSUME WriteLensAssumption == WriteLens \subseteq 0..MaxFrame
ASSUME MovesAssumption == Moves \in {"none", "weights", "all"}

VARIABLES
  tree,       \* the streams and the root
  present     \* the streams of the session

vars == <<tree, present>>

Specs(s) == [stream_id : (present \cup {Root}) \ {s}, weight : Weights, exclusive : BOOLEAN]

Init == /\ tree = [s \in Streams |-> nghttp2_stream_init(1)]
        /\ present = {}

\* nghttp2_session_open_stream.
Open(s, spec) ==
  LET T == [tree EXCEPT ![s] = nghttp2_stream_init(spec.weight)]
  IN  /\ s \notin present
      /\ present' = present \cup {s}
      /\ tree' = IF spec.exclusive
                 THEN nghttp2_stream_dep_insert(T, spec.stream_id, s)
                 ELSE nghttp2_stream_dep_add(T, spec.stream_id, s)

\* nghttp2_session_close_stream followed, sooner or later, by
\* nghttp2_session_destroy_stream: the first detaches the item.
Destroy(s) ==
  LET T == IF tree[s].item THEN nghttp2_stream_detach_item(tree, s) ELSE tree
  IN  /\ s \in present
      /\ present' = present \ {s}
      /\ tree' = [nghttp2_stream_dep_remove(T, s) EXCEPT ![s] = nghttp2_stream_init(1)]

Attach(s) == /\ s \in present /\ ~tree[s].item
             /\ tree' = nghttp2_stream_attach_item(tree, s)
             /\ UNCHANGED present

Resume(s) == /\ s \in present /\ tree[s].deferred # {}
             /\ tree' = nghttp2_stream_resume_deferred_item(tree, s, "user")
             /\ UNCHANGED present

Move(s, spec) ==
  /\ s \in present
  /\ \/ Moves = "all"
     \/ Moves = "weights" /\ spec.stream_id = tree[s].dep_prev /\ ~spec.exclusive
  /\ tree' = Reprioritize(tree, s, spec)
  /\ UNCHANGED present

\* nghttp2_stream_next_outbound_item, and what becomes of the item: DATA is
\* packed and the stream rescheduled, the last of it is sent, or it is deferred.
Write(len, outcome) ==
  LET s == Pick(tree, Root)
      T == Serve(tree, s)
      Packed == nghttp2_stream_reschedule([T EXCEPT ![s].last_writelen = len], s)
  IN  /\ s # Null
      /\ tree' = CASE outcome = "more"  -> Packed
                   [] outcome = "eof"   -> nghttp2_stream_detach_item(Packed, s)
                   [] outcome = "defer" -> nghttp2_stream_defer_item(T, s, "user")
      /\ UNCHANGED present

Next ==
  \/ \E s \in StreamIds : Destroy(s) \/ Attach(s) \/ Resume(s)
  \/ \E s \in StreamIds : \E spec \in Specs(s) : Open(s, spec) \/ Move(s, spec)
  \/ \E len \in WriteLens, outcome \in {"more", "eof", "defer"} : Write(len, outcome)

Spec == Init /\ [][Next]_vars

-------------------------------------------------------------------------------
\* Whatever sequence of openings, moves and departures led to it, the tree is a
\* tree: every stream is reached from the root, the links of siblings agree in
\* both directions and sum_dep_weight is the sum of the children's weights, the
\* divisor of the shares when a stream leaves (nghttp2_stream.c:606-933).
TreeIsSound == SoundTree(tree, present)

\* A stream is in its parent's queue exactly if it or a stream below it has DATA
\* to send: nothing ready is forgotten and nothing idle is scheduled, however
\* often the streams above were moved (nghttp2_stream.c:147-224).
QueuedIffActive == QueuesMatch(tree, present)

\* The stream at the top of a queue is due no later than any other in it, in
\* the order of stream_less, which compares cycles modulo their range: what
\* nghttp2_pq_push, pop and remove must keep (nghttp2_pq.c, nghttp2_stream.c:47-58).
EarliestFirst ==
  \A s \in Streams : \A i \in DOMAIN tree[s].obq :
    i > 1 => stream_less(tree[s].obq[1], tree[s].obq[i])

\* The comment of NGHTTP2_MAX_CYCLE_DISTANCE (nghttp2_stream.c:35-43): no two
\* cycles in a queue are further apart, so stream_less orders them although
\* cycles wrap around.  While streams stay where they were opened it follows from
\* TurnsAreBounded; once they are moved it fails: a stream that leaves a queue forgets its
\* descendant_last_cycle while its children stay queued below it.
CyclesAreComparable ==
  \A s \in Streams : \A i, j \in DOMAIN tree[s].obq :
    LET Dist(a, b) == Minus(tree[s].obq[a].cycle, tree[s].obq[b].cycle)
    IN  Dist(i, j) <= MAX_CYCLE_DISTANCE \/ Dist(j, i) <= MAX_CYCLE_DISTANCE

\* No stream is put off by more than one frame of the longest kind at its own
\* weight, nor put before what has been served: its cycle is at most that far
\* ahead of the cycle its parent served last, also when its weight changes while
\* it waits, so its siblings can overtake it by a bounded amount only; and what a
\* frame is worth beyond whole cycles is carried over once, not piled up
\* (nghttp2_stream.c:137-169, 226-246, 248-299).
TurnsAreBounded ==
  \A s \in Streams : \A i \in DOMAIN tree[s].obq :
    LET e == tree[s].obq[i]
    IN  /\ Minus(e.cycle, tree[s].descendant_last_cycle)
             <= MAX_CYCLE_DISTANCE \div tree[e.id].weight
        /\ tree[e.id].pending_penalty < MaxWeight

\* A waiting stream that is given another weight and then its own again is where
\* it was: from the remainder the code recovers exactly the penalty it had
\* charged, after any sequence of frames, departures and changes of weight.
\* (Unless the stream would have been put before what has been served, and was
\* held back to it.)  (nghttp2_stream.c:274-291)
ReweightIsExact ==
  \A s \in present, w \in Weights :
    LET d        == tree[s].dep_prev
        There    == nghttp2_stream_change_weight(tree, s, w)
        Back     == nghttp2_stream_change_weight(There, s, tree[s].weight)
        Cycle(T) == T[d].obq[IndexOf(T[d].obq, s)].cycle
    IN  tree[s].queued /\ Cycle(There) # tree[d].descendant_last_cycle =>
          /\ Cycle(Back) = Cycle(tree)
          /\ Back[s].pending_penalty = tree[s].pending_penalty
===============================================================================
