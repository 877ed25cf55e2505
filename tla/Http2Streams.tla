----------------------------- MODULE Http2Streams -----------------------------
(***************************************************************************)
(* The streams of a server session (lib/nghttp2_session.c): opening,       *)
(* prioritising, closing and forgetting streams, and sending their DATA    *)
(* through the dependency tree of StreamTree.                              *)
(*                                                                         *)
(* session is the part of nghttp2_session these functions work on.  Its    *)
(* stream map is info: a stream whose state is "NONE" is not in the map.   *)
(* The lists of idle and of closed streams are sequences.                  *)
(*                                                                         *)
(* A stream can have two DATA items at a time, one in the frame being sent *)
(* (aob) and one submitted since: items counts how often each of them is   *)
(* allocated and not freed, item is the one stream->item points to, if any.*)
(* What follows the sending of a DATA frame comes in two halves, and calls *)
(* and received frames may come between them; other frames are prepared    *)
(* and sent in one step.                                                   *)
(*                                                                         *)
(* Callbacks do not call back into the session, allocation succeeds, and   *)
(* the peer makes no connection error (the code then tears down the        *)
(* session).  Peer streams are odd and the server's own streams even.      *)
(***************************************************************************)
EXTENDS StreamTree, FiniteSetsExt, TLC

CONSTANTS
  PrioritySpecs,    \* the priority specifications frames and calls carry
  DefaultWeight,    \* NGHTTP2_DEFAULT_WEIGHT
  WriteLens,        \* the lengths of the DATA frames read_callback fills
  MaxConcurrent,    \* pending_local_max_concurrent_stream
  MaxIdle           \* the limit nghttp2_session_adjust_idle_stream computes

ASSUME SpecsAssumption ==
  /\ PrioritySpecs \subseteq
       [stream_id : Streams, weight : 1..MaxWeight, exclusive : BOOLEAN]
  /\ DefaultWeight \in 1..MaxWeight
  /\ WriteLens \subseteq 0..MaxFrame

VARIABLE session

is_my_stream_id(id) == id # 0 /\ id % 2 = 0

DefaultSpec == [stream_id |-> 0, weight |-> DefaultWeight, exclusive |-> FALSE]

NoStream == [state |-> "NONE", push |-> FALSE, closed |-> FALSE,
             rd |-> FALSE, wr |-> FALSE]

\* The frame being sent: its stream, its item, what it ends, and the half of
\* session_after_frame_sent that comes next.
NoFrame == [id |-> Null, item |-> 0, eof |-> "no", due |-> "none"]

-------------------------------------------------------------------------------
(* Looking streams up *)

Exists(S, id) == S.info[id].state # "NONE"      \* nghttp2_session_get_stream_raw

get_stream(S, id) == /\ S.info[id].state \notin {"NONE", "IDLE"}
                     /\ ~S.info[id].closed

detect_idle_stream(S, id) ==
  IF is_my_stream_id(id) THEN S.last_sent_stream_id < id
                         ELSE S.last_recv_stream_id < id

-------------------------------------------------------------------------------
(* Opening *)

\* The idle stream id leaves the list of idle streams and the tree.
TakeIdle(S, id) ==
  IF Exists(S, id)
  THEN [S EXCEPT !.idle = SelectSeq(@, LAMBDA i : i # id),
                 !.tree = nghttp2_stream_dep_remove(@, id)]
  ELSE S

\* A stream object, new or taken from the idle ones, in its initial state.
Enter(S, id, weight, state) ==
  [S EXCEPT
     !.tree[id] = IF Exists(S, id) THEN [@ EXCEPT !.weight = weight]
                  ELSE nghttp2_stream_init(weight),
     !.info[id] = [NoStream EXCEPT !.state = state,
                                   !.push = state = "RESERVED",
                                   !.rd = state = "RESERVED"],
     !.idle = IF state = "IDLE" THEN Append(@, id) ELSE @,
     !.num_outgoing_streams =
        IF state \notin {"IDLE", "RESERVED"} /\ is_my_stream_id(id) THEN @ + 1 ELSE @,
     !.num_incoming_streams =
        IF state \notin {"IDLE", "RESERVED"} /\ ~is_my_stream_id(id) THEN @ + 1 ELSE @]

\* A dependency on an unknown idle stream first creates that stream.
AnchorIdle(S, dep) ==
  IF dep # 0 /\ ~Exists(S, dep) /\ detect_idle_stream(S, dep)
  THEN LET S1 == Enter(S, dep, DefaultWeight, "IDLE")
       IN  [S1 EXCEPT !.tree = nghttp2_stream_dep_add(@, Root, dep)]
  ELSE S

\* A dependency on a stream that is not in the tree gives the default priority.
EffectiveSpec(S, spec) ==
  IF spec.stream_id # 0 /\ ~nghttp2_stream_in_dep_tree(S.tree, spec.stream_id)
  THEN DefaultSpec ELSE spec

nghttp2_session_open_stream(S, id, spec, state) ==
  LET Link(T, sp)   == IF sp.exclusive THEN nghttp2_stream_dep_insert(T, sp.stream_id, id)
                                       ELSE nghttp2_stream_dep_add(T, sp.stream_id, id)
      Under(S1, sp) == [Enter(S1, id, sp.weight, state) EXCEPT !.tree = Link(@, sp)]
      Open(S1)      == Under(S1, EffectiveSpec(S1, spec))
  IN  Open(AnchorIdle(TakeIdle(S, id), spec.stream_id))

-------------------------------------------------------------------------------
(* Closing *)

Free(S, id, item) == [S EXCEPT !.items[id][item] = @ - 1]

\* Items are named by age.  When the older one of a stream is gone, the one it
\* has left is the older one: the names are the model's, not the code's.
Rename(S, id) ==
  IF S.item[id] = 2 /\ S.items[id][1] = 0
  THEN [S EXCEPT !.item[id] = 1, !.items[id] = <<@[2], @[1]>>] ELSE S

\* Fault: the stream is deleted and stays linked.
DestroyUnlinked(S, id) == [S EXCEPT !.tree[id] = nghttp2_stream_init(DefaultWeight),
                                    !.info[id] = NoStream, !.item[id] = 0]

nghttp2_session_destroy_stream(S, id) ==
  [S EXCEPT !.tree = [nghttp2_stream_dep_remove(@, id)
                        EXCEPT ![id] = nghttp2_stream_init(DefaultWeight)],
            !.info[id] = NoStream, !.item[id] = 0]

Detach(S, id) == [S EXCEPT !.tree = nghttp2_stream_detach_item(@, id), !.item[id] = 0]

\* The item of stream id is detached and freed.
Discard(S, id) == Free(Detach(S, id), id, S.item[id])

\* Fault: the frame being sent is taken to hold the item because it is of the
\* same stream.
DropItemOfStream(S, id) ==
  CASE S.item[id] = 0 -> S
    [] S.item[id] # 0 /\ S.aob.id = id -> Detach(S, id)
    [] S.item[id] # 0 /\ S.aob.id # id -> Discard(S, id)

\* The item is freed here unless it is the one being sent.
DropItem(S, id) ==
  LET Sending == <<S.aob.id, S.aob.item>> = <<id, S.item[id]>>
  IN  CASE S.item[id] = 0 -> S
        [] S.item[id] # 0 /\ Sending -> Detach(S, id)
        [] S.item[id] # 0 /\ ~Sending -> Discard(S, id)

Uncount(S, id) ==
  [S EXCEPT !.num_outgoing_streams =
               IF ~S.info[id].push /\ is_my_stream_id(id) THEN @ - 1 ELSE @,
            !.num_incoming_streams =
               IF ~S.info[id].push /\ ~is_my_stream_id(id) THEN @ - 1 ELSE @,
            !.info[id].closed = TRUE]

\* A stream of the peer stays in the tree as a closed one.
Retire(S, id) ==
  IF ~is_my_stream_id(id) THEN [S EXCEPT !.closed = Append(@, id)]
  ELSE nghttp2_session_destroy_stream(S, id)

nghttp2_session_close_stream(S, id) ==
  IF get_stream(S, id) THEN Retire(Uncount(DropItem(S, id), id), id) ELSE S

\* nghttp2_session_add_rst_stream.
AddRstStream(S, id) == [S EXCEPT !.info[id].state = "CLOSING",
                                 !.ob_reg = Append(@, <<"RST_STREAM", id>>)]

CloseIfShut(S, id) ==
  IF S.info[id].rd /\ S.info[id].wr
  THEN nghttp2_session_close_stream(S, id) ELSE S

RECURSIVE nghttp2_session_adjust_closed_stream(_)
nghttp2_session_adjust_closed_stream(S) ==
  IF S.closed # <<>> /\ Len(S.closed) + S.num_incoming_streams > MaxConcurrent
  THEN nghttp2_session_adjust_closed_stream(
         [nghttp2_session_destroy_stream(S, Head(S.closed)) EXCEPT !.closed = Tail(@)])
  ELSE S

RECURSIVE nghttp2_session_adjust_idle_stream(_)
nghttp2_session_adjust_idle_stream(S) ==
  IF Len(S.idle) > MaxIdle
  THEN nghttp2_session_adjust_idle_stream(
         [nghttp2_session_destroy_stream(S, Head(S.idle)) EXCEPT !.idle = Tail(@)])
  ELSE S

-------------------------------------------------------------------------------
(* Priorities *)

nghttp2_session_reprioritize_stream(S, id, spec) ==
  LET Move(S1) == [S1 EXCEPT !.tree = Reprioritize(@, id, EffectiveSpec(S1, spec))]
  IN  Move(AnchorIdle(S, spec.stream_id))

\* A priority can be given to a stream in the map, or to one that is still idle;
\* for any other the frame is ignored and the call is refused.
Prioritisable(S, id, spec) ==
  /\ spec.stream_id # id
  /\ Exists(S, id) \/ detect_idle_stream(S, id)

Prioritise(S, id, spec) ==
  IF Exists(S, id) THEN nghttp2_session_reprioritize_stream(S, id, spec)
                   ELSE nghttp2_session_open_stream(S, id, spec, "IDLE")

-------------------------------------------------------------------------------
(* Sending *)

predicate_data_send(S, id) ==
  /\ get_stream(S, id)
  /\ ~S.info[id].wr
  /\ S.info[id].state = "OPENED"

\* DATA of length len is packed: the stream is rescheduled for it.
Pack(S, id, len) ==
  [S EXCEPT !.tree =
     nghttp2_stream_reschedule([@ EXCEPT ![id].last_writelen = len], id)]

\* session_after_frame_sent1 on DATA.
AfterSent1(S) ==
  LET id == S.aob.id
  IN  CASE ~get_stream(S, id) \/ S.aob.eof = "no" -> S
        [] get_stream(S, id) /\ S.aob.eof = "eof" -> Detach(S, id)
        [] get_stream(S, id) /\ S.aob.eof = "end" ->
             CloseIfShut([Detach(S, id) EXCEPT !.info[id].wr = TRUE], id)

\* session_after_frame_sent2 on DATA: the item is freed at the end of the data
\* and when no more may be sent, and otherwise stays with the stream.
AfterSent2(S) ==
  LET id == S.aob.id
      S1 == IF S.aob.eof = "no" /\ get_stream(S, id) THEN Detach(S, id) ELSE S
      S2 == IF S.aob.eof = "no" /\ predicate_data_send(S, id) THEN S
            ELSE Free(S1, id, S.aob.item)
  IN  Rename([S2 EXCEPT !.aob = NoFrame], id)

-------------------------------------------------------------------------------
Init ==
  session = [tree |-> [s \in Streams |-> nghttp2_stream_init(DefaultWeight)],
             info |-> [s \in StreamIds |-> NoStream],
             idle |-> <<>>, closed |-> <<>>,
             num_incoming_streams |-> 0, num_outgoing_streams |-> 0,
             last_recv_stream_id |-> 0, last_sent_stream_id |-> 0,
             next_stream_id |-> 2, ob_reg |-> <<>>, goaway_sent |-> FALSE,
             aob |-> NoFrame, item |-> [s \in StreamIds |-> 0],
             items |-> [s \in StreamIds |-> <<0, 0>>]]

\* Fault: opening a stream makes no room among the closed ones.
RecvRequestKeepsClosed(id, spec, end) ==
  LET S1 == [session EXCEPT !.last_recv_stream_id = id]
      S2 == nghttp2_session_open_stream(S1, id, spec, "OPENING")
  IN  /\ ~is_my_stream_id(id)
      /\ session.last_recv_stream_id < id
      /\ spec.stream_id # id
      /\ session' = IF \/ session.goaway_sent
                       \/ session.num_incoming_streams >= MaxConcurrent
                    THEN S1 ELSE [S2 EXCEPT !.info[id].rd = end]

\* nghttp2_session_on_request_headers_received, and END_STREAM of the request.
RecvRequest(id, spec, end) ==
  LET S1 == [session EXCEPT !.last_recv_stream_id = id]
      S2 == nghttp2_session_adjust_closed_stream(
              nghttp2_session_open_stream(S1, id, spec, "OPENING"))
  IN  /\ ~is_my_stream_id(id)
      /\ session.last_recv_stream_id < id
      /\ spec.stream_id # id
      /\ session' = IF \/ session.goaway_sent
                       \/ session.num_incoming_streams >= MaxConcurrent
                    THEN S1 ELSE [S2 EXCEPT !.info[id].rd = end]

\* END_STREAM on DATA or on trailers.
RecvEndStream(id) ==
  /\ get_stream(session, id) /\ ~is_my_stream_id(id)
  /\ ~session.info[id].rd /\ session.info[id].state # "CLOSING"
  /\ session' = CloseIfShut([session EXCEPT !.info[id].rd = TRUE], id)

RecvPriority(id, spec) ==
  /\ Prioritisable(session, id, spec)
  /\ session' = nghttp2_session_adjust_idle_stream(Prioritise(session, id, spec))

\* nghttp2_session_change_stream_priority and nghttp2_session_create_idle_stream.
AppPriority(id, spec) ==
  /\ Prioritisable(session, id, spec)
  /\ session' = Prioritise(session, id, spec)

RecvRstStream(id) ==
  /\ ~detect_idle_stream(session, id) /\ get_stream(session, id)
  /\ session' = nghttp2_session_close_stream(
                  [session EXCEPT !.info[id].rd = TRUE], id)

\* nghttp2_session_add_rst_stream on a stream that is not already closing.
SubmitRstStream(id) ==
  /\ get_stream(session, id) /\ session.info[id].state # "CLOSING"
  /\ session' = AddRstStream(session, id)

\* nghttp2_submit_push_promise: the promised stream is opened at once; its id is
\* spent even when the stream it answers is gone.
SubmitPushPromise(assoc) ==
  LET id == session.next_stream_id
      S1 == [session EXCEPT !.next_stream_id = @ + 2]
      S2 == nghttp2_session_open_stream(S1, id,
              [DefaultSpec EXCEPT !.stream_id = assoc], "RESERVED")
  IN  /\ id \in StreamIds /\ ~is_my_stream_id(assoc)
      /\ session' = IF ~get_stream(session, assoc) THEN S1
                    ELSE [S2 EXCEPT !.ob_reg = Append(@, <<"PUSH_PROMISE", id, assoc>>)]

\* nghttp2_session_mem_send takes the first frame of ob_reg and sends it, or
\* refuses the PUSH_PROMISE of a stream that may not send.
SentFrame ==
  LET frame == Head(session.ob_reg)
      id == frame[2]
      Sent(S) == IF /\ frame[1] = "PUSH_PROMISE"
                    /\ get_stream(S, frame[3]) /\ ~S.info[frame[3]].wr
                    /\ S.info[frame[3]].state # "CLOSING"
                 THEN [S EXCEPT !.last_sent_stream_id = id]
                 ELSE nghttp2_session_close_stream(S, id)
  IN  /\ session.aob = NoFrame /\ session.ob_reg # <<>>
      /\ session' = Sent([nghttp2_session_adjust_idle_stream(session)
                            EXCEPT !.ob_reg = Tail(@)])

\* No frame is being sent and none waits before the DATA of the streams.
Idling == session.aob = NoFrame /\ session.ob_reg = <<>>

\* Fault: a promised stream that opens is not counted.
SentResponseUncounted(id, end) ==
  LET S1 == [nghttp2_session_adjust_idle_stream(session) EXCEPT
               !.info[id].state = "OPENED", !.info[id].push = FALSE]
  IN  /\ Idling
      /\ get_stream(session, id) /\ ~session.info[id].wr
      /\ session.info[id].state = IF is_my_stream_id(id) THEN "RESERVED" ELSE "OPENING"
      /\ session' = IF end THEN CloseIfShut([S1 EXCEPT !.info[id].wr = TRUE], id)
                           ELSE S1

\* Response HEADERS are sent, with END_STREAM when no DATA follows.
SentResponse(id, end) ==
  LET S1 == [nghttp2_session_adjust_idle_stream(session) EXCEPT
               !.info[id].state = "OPENED", !.info[id].push = FALSE,
               !.num_outgoing_streams =
                  IF is_my_stream_id(id) THEN @ + 1 ELSE @]
  IN  /\ Idling
      /\ get_stream(session, id) /\ ~session.info[id].wr
      /\ session.info[id].state = IF is_my_stream_id(id) THEN "RESERVED" ELSE "OPENING"
      /\ session' = IF end THEN CloseIfShut([S1 EXCEPT !.info[id].wr = TRUE], id)
                           ELSE S1

\* nghttp2_submit_data: a new item, which need not be the only one of the
\* stream.
SubmitData(id) ==
  LET item == IF session.items[id][1] = 0 THEN 1 ELSE 2
  IN  /\ get_stream(session, id) /\ ~session.tree[id].item
      /\ session' = [session EXCEPT !.tree = nghttp2_stream_attach_item(@, id),
                                    !.item[id] = item, !.items[id][item] = @ + 1]

\* nghttp2_session_resume_data, and WINDOW_UPDATE on a deferred stream.
ResumeData(id, flag) ==
  /\ get_stream(session, id) /\ session.tree[id].item
  /\ flag \in session.tree[id].deferred
  /\ session' = [session EXCEPT !.tree =
                   nghttp2_stream_resume_deferred_item(@, id, flag)]

\* session_prep_frame refuses DATA of a stream that may not send.
PrepRefused(S, id) ==
  /\ ~predicate_data_send(S, id)
  /\ session' = Discard(S, id)

\* The window is closed, or read_callback has nothing yet.
PrepDeferred(S, id, flag) ==
  /\ predicate_data_send(S, id)
  /\ session' = [S EXCEPT !.tree = nghttp2_stream_defer_item(@, id, flag)]

\* read_callback fails: RST_STREAM is submitted.
PrepFailed(S, id) ==
  /\ predicate_data_send(S, id)
  /\ session' = AddRstStream(Discard(S, id), id)

\* An empty last frame that would not end the stream is not sent.
PrepCancelled(S, id) ==
  /\ predicate_data_send(S, id)
  /\ session' = Discard(Pack(S, id, 0), id)

\* read_callback pauses the session: the item keeps its turn.
PrepPaused(S, id) ==
  /\ predicate_data_send(S, id)
  /\ session' = S

Sending(S, id, len, eof, due) ==
  [Pack(S, id, len) EXCEPT
     !.aob = [id |-> id, item |-> S.item[id], eof |-> eof, due |-> due]]

\* nghttp2_session_send hands the frame to send_callback, which may not take it
\* at once: both halves are still to come.
PrepData(S, id, len, eof) ==
  /\ predicate_data_send(S, id)
  /\ session' = Sending(S, id, len, eof, "sent1")

\* nghttp2_session_mem_send returns the frame to the application and counts it
\* as sent: the first half is over when the application goes on.
PrepDataReturned(S, id, len, eof) ==
  /\ predicate_data_send(S, id)
  /\ session' = AfterSent1(Sending(S, id, len, eof, "sent2"))

\* What becomes of the DATA item of stream id, taken in state S.
Prep(S, id) ==
  \/ PrepRefused(S, id)
  \/ \E flag \in {"flow", "user"} : PrepDeferred(S, id, flag)
  \/ PrepFailed(S, id)
  \/ PrepCancelled(S, id)
  \/ PrepPaused(S, id)
  \/ \E len \in WriteLens, eof \in {"no", "eof", "end"} :
        PrepData(S, id, len, eof) \/ PrepDataReturned(S, id, len, eof)

\* nghttp2_session_mem_send takes the next DATA item: the idle streams are
\* adjusted, the item is picked and its cycle recorded.
PopItem ==
  LET Take(S, id) == id # Null /\ Prep([S EXCEPT !.tree = Serve(@, id)], id)
      Pop(S)      == Take(S, Pick(S.tree, Root))
  IN  Idling /\ Pop(nghttp2_session_adjust_idle_stream(session))

\* send_callback has taken the frame: both halves, one after the other.
SentData ==
  /\ session.aob.due = "sent1"
  /\ session' = AfterSent2(AfterSent1(nghttp2_session_adjust_idle_stream(session)))

\* The call of nghttp2_session_mem_send after the one that returned the frame.
SentDataLater ==
  /\ session.aob.due = "sent2"
  /\ session' = AfterSent2(nghttp2_session_adjust_idle_stream(session))

\* nghttp2_session_mem_recv begins with this, whatever frames it then reads, and
\* so does a sending call that sends nothing: nothing is there to send, or
\* send_callback still does not take the frame.
AdjustIdle == session' = nghttp2_session_adjust_idle_stream(session)

\* GOAWAY is sent: the peer's streams above last are closed, in the order in
\* which the stream map yields them.
SentGoaway(last) ==
  /\ Idling /\ ~session.goaway_sent
  /\ \E order \in SetToSeqs({id \in StreamIds : /\ get_stream(session, id)
                                                /\ ~is_my_stream_id(id)
                                                /\ id > last}) :
       session' = FoldLeft(nghttp2_session_close_stream,
                           [nghttp2_session_adjust_idle_stream(session)
                              EXCEPT !.goaway_sent = TRUE], order)

Receive ==
  \E id \in StreamIds :
     \/ \E spec \in PrioritySpecs, end \in BOOLEAN : RecvRequest(id, spec, end)
     \/ \E spec \in PrioritySpecs : RecvPriority(id, spec)
     \/ RecvEndStream(id)
     \/ RecvRstStream(id)
     \/ ResumeData(id, "flow")

Call ==
  \E id \in StreamIds :
     \/ \E spec \in PrioritySpecs : AppPriority(id, spec)
     \/ SubmitPushPromise(id)
     \/ SubmitRstStream(id)
     \/ SubmitData(id)
     \/ ResumeData(id, "user")

Send ==
  \/ SentFrame
  \/ \E id \in StreamIds, end \in BOOLEAN : SentResponse(id, end)
  \/ \E last \in Streams : SentGoaway(last)
  \/ PopItem
  \/ SentData
  \/ SentDataLater

Next == Receive \/ Call \/ Send \/ AdjustIdle

Spec == Init /\ [][Next]_session

-------------------------------------------------------------------------------
\* The tree over which the session schedules is sound whatever the session
\* does: opening, closing and forgetting streams, of the peer and its own, in
\* any order with frames being sent (nghttp2_session.c:824-899, 1290-1728).
SessionTreeIsSound ==
  LET Present == {s \in StreamIds : Exists(session, s)}
  IN  SoundTree(session.tree, Present) /\ QueuesMatch(session.tree, Present)

\* The counters and lists of the session agree with the states of its streams:
\* a stream is counted on one path and uncounted on another, and pushed streams
\* are counted only once they open (nghttp2_session.c:1290-1575, 3005-3015).
CountersAgree ==
  LET Alive == {s \in StreamIds : get_stream(session, s) /\ ~session.info[s].push}
      Kept(l) == {s \in StreamIds : s \in ToSet(l)}
  IN  /\ session.num_incoming_streams = Cardinality({s \in Alive : ~is_my_stream_id(s)})
      /\ session.num_outgoing_streams = Cardinality({s \in Alive : is_my_stream_id(s)})
      /\ Kept(session.idle) = {s \in StreamIds : session.info[s].state = "IDLE"}
      /\ Kept(session.closed) = {s \in StreamIds : session.info[s].closed}
      /\ IsInjective(session.idle) /\ IsInjective(session.closed)

\* On the server the closed streams kept for the tree, with the incoming ones,
\* are at most MAX_CONCURRENT_STREAMS, so a peer that opens and resets streams
\* cannot make the session grow (nghttp2_session.c:1637-1684).
RetentionIsBounded ==
  session.closed # <<>> =>
    Len(session.closed) + session.num_incoming_streams <= MaxConcurrent

\* Every DATA item is allocated once as long as its stream or the frame being
\* sent holds it, and is free otherwise.  None is leaked or freed twice, though
\* between the two halves of a send the data may end, the application may submit
\* new data for the same stream, and RST_STREAM or GOAWAY may close it
\* (nghttp2_session.c:1478-1497, 2889-2940, 3159-3231, 3578-3603).
ItemsAreOwned ==
  \A s \in StreamIds, i \in {1, 2} :
    session.items[s][i] =
      IF session.item[s] = i \/ <<session.aob.id, session.aob.item>> = <<s, i>>
      THEN 1 ELSE 0
===============================================================================
