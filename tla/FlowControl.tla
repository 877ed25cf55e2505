----------------------------- MODULE FlowControl ------------------------------
(***************************************************************************)
(* The flow control of DATA between two nghttp2 sessions, in one           *)
(* direction: the sender's remote windows, the receiver's local windows,   *)
(* and SETTINGS, its acknowledgement, WINDOW_UPDATE and RST_STREAM on the  *)
(* way between them (lib/nghttp2_session.c, nghttp2_helper.c,              *)
(* nghttp2_submit.c, nghttp2_stream.c).                                    *)
(*                                                                         *)
(* A window belongs to a stream or, as window 0, to the connection.  The   *)
(* transport delivers frames in order.  sent, applied, granted and         *)
(* received count bytes and increments for the properties only.  Streams   *)
(* are open in the other direction throughout; DATA has no padding.        *)
(***************************************************************************)
EXTENDS Integers, SequencesExt, SeqSums

CONSTANTS
  Streams,          \* the ids of the streams that carry DATA
  Total,            \* the bytes each stream has to send
  MaxFrameSize,     \* remote_settings.max_frame_size
  MaxWindow,        \* NGHTTP2_MAX_WINDOW_SIZE, scaled down
  Initial,          \* the initial window of the streams and of the connection
  SettingsValues,   \* values of SETTINGS_INITIAL_WINDOW_SIZE the receiver sends
  Sizes,            \* arguments of nghttp2_session_set_local_window_size
  Increments,       \* arguments of nghttp2_submit_window_update
  Tuned,            \* the windows those two calls are made for
  MayReset,         \* the streams the receiver's application may reset
  MaxCalls          \* bound on the calls that change a window, a setting or a stream

Conn == 0
Windows == Streams \cup {Conn}

ASSUME StreamsAssumption ==
  /\ IsFiniteSet(Streams) /\ Conn \notin Streams
  /\ Tuned \subseteq Windows /\ MayReset \subseteq Streams
ASSUME BoundsAssumption ==
  /\ Total \in [Streams -> Nat] /\ MaxFrameSize \in Nat \ {0}
  /\ MaxWindow \in Nat /\ Initial \in 0..MaxWindow
  /\ SettingsValues \subseteq 0..MaxWindow
  /\ Sizes \subseteq 0..MaxWindow /\ Increments \subseteq Int /\ MaxCalls \in Nat

VARIABLES
  \* the sender
  remote,      \* remote_window_size of every window
  initialR,    \* remote_settings.initial_window_size
  left,        \* bytes a stream's read_callback still has
  deferred,    \* the streams deferred by flow control
  gone,        \* the streams the sender has closed
  aob,         \* the DATA frame being sent, or None
  acks,        \* SETTINGS ACKs in ob_urgent
  \* the receiver
  auto,        \* not NGHTTP2_OPT_NO_AUTO_WINDOW_UPDATE
  win,         \* the local side of every window
  initialL,    \* local_settings.initial_window_size
  inflight,    \* inflight_settings
  urgent,      \* SETTINGS in ob_urgent
  ob,          \* WINDOW_UPDATE and RST_STREAM in ob_reg
  state,       \* of a stream: "OPEN", "CLOSING" or "CLOSED"
  ended,       \* the streams whose END_STREAM arrived (SHUT_RD)
  refused,     \* the streams the session reset with FLOW_CONTROL_ERROR
  held,        \* bytes the application has received and not consumed
  calls,       \* calls of the receiver's application so far
  \* the transport
  fwd, back,
  error,       \* a window was overrun or has overflowed: the model stops there
  \* the accounts
  sent, applied, granted, received

sender   == <<remote, initialR, left, deferred, gone, aob, acks, sent, applied>>
receiver == <<auto, win, initialL, inflight, urgent, ob, state, ended, refused,
              held, calls, granted, received>>
vars     == <<sender, receiver, fwd, back, error>>

None == [s |-> Conn, len |-> 0, end |-> FALSE]

Zero(S) == [x \in S |-> 0]

Lesser(a, b) == IF a < b THEN a ELSE b

Greater(a, b) == IF a < b THEN b ELSE a

-------------------------------------------------------------------------------
(* Windows.  An operation yields the window and the increment to announce. *)

Window(size) == [local |-> size, recv |-> 0, reduction |-> 0, consumed |-> 0,
                 queued |-> FALSE]

Silent(w) == [win |-> w, inc |-> 0]

should_send_window_update(local, recv) == recv > 0 /\ recv >= local \div 2

\* adjust_recv_window_size refuses.
Exceeds(w, n) == w.recv > w.local - n \/ w.recv > MaxWindow - n

\* nghttp2_session_update_recv_stream_window_size and its connection twin.
update_recv(w, n, send) ==
  LET recv == w.recv + n
  IN  IF send /\ auto /\ ~w.queued /\ should_send_window_update(w.local, recv)
      THEN [win |-> [w EXCEPT !.recv = 0, !.queued = TRUE], inc |-> recv]
      ELSE Silent([w EXCEPT !.recv = recv])

\* session_update_consumed_size refuses.
Overflows(w, n) == w.consumed > MaxWindow - n

session_update_consumed_size(w, n) ==
  LET consumed == w.consumed + n
      size     == Lesser(consumed, w.recv)
  IN  IF ~w.queued /\ should_send_window_update(w.local, size)
      THEN [win |-> [w EXCEPT !.recv = @ - size, !.consumed = consumed - size,
                              !.queued = TRUE], inc |-> size]
      ELSE Silent([w EXCEPT !.consumed = consumed])

\* What follows a WINDOW_UPDATE that was sent and a change of local_window_size.
Recheck(w) == IF auto THEN update_recv(w, 0, TRUE)
              ELSE session_update_consumed_size(w, 0)

\* nghttp2_adjust_local_window_size for a negative delta: the peer is not told,
\* and delta bytes of what it sends will not be given back.
Decrease(w, delta) == [w EXCEPT !.local = @ + delta, !.recv = @ + delta,
                                !.reduction = @ - delta]

\* Fault: more is paid back than was taken.
IncreaseOverpaid(w, delta) ==
  [win |-> [w EXCEPT !.local = @ + delta, !.recv = @ + delta, !.reduction = @ - delta],
   inc |-> 0]

\* nghttp2_increase_local_window_size: an earlier reduction is paid back first.
nghttp2_increase_local_window_size(w, delta) ==
  LET paid == Lesser(w.reduction, delta)
  IN  [win |-> [w EXCEPT !.local = @ + delta, !.recv = @ + paid,
                         !.reduction = @ - paid],
       inc |-> delta - paid]

\* nghttp2_adjust_local_window_size for a positive delta: it gives the received
\* bytes back first and only then increases the window.
Increase(w, delta) ==
  LET more == delta - Greater(0, w.recv)
      paid == Lesser(w.reduction, more)
  IN  IF more <= 0 THEN [win |-> [w EXCEPT !.recv = @ - delta], inc |-> delta]
      ELSE [win |-> [w EXCEPT !.local = @ + more, !.reduction = @ - paid,
                              !.recv = IF @ < 0 THEN @ + paid ELSE paid],
            inc |-> delta - paid]

-------------------------------------------------------------------------------
Init ==
  /\ remote = [w \in Windows |-> Initial] /\ initialR = Initial
  /\ left = Total /\ deferred = {} /\ gone = {}
  /\ aob = None /\ acks = 0
  /\ auto \in BOOLEAN
  /\ win = [w \in Windows |-> Window(Initial)] /\ initialL = Initial
  /\ inflight = <<>> /\ urgent = <<>> /\ ob = <<>>
  /\ state = [s \in Streams |-> "OPEN"] /\ ended = {} /\ refused = {}
  /\ held = Zero(Streams)
  /\ calls = 0
  /\ fwd = <<>> /\ back = <<>> /\ error = FALSE
  /\ sent = Zero(Windows) /\ applied = Zero(Windows)
  /\ granted = Zero(Windows) /\ received = Zero(Windows)

-------------------------------------------------------------------------------
(* The sender *)

\* The frames of ob_urgent go first, and DATA is popped only while the window
\* of the connection is open.
CanPop(s) == /\ aob = None /\ acks = 0 /\ remote[Conn] > 0
             /\ left[s] > 0 /\ s \notin deferred \cup gone

next_data_read(s) == Lesser(Lesser(remote[s], remote[Conn]), MaxFrameSize)

\* session_prep_frame: a stream whose own window is closed is deferred.
PrepDeferred(s) ==
  /\ CanPop(s) /\ next_data_read(s) <= 0
  /\ deferred' = deferred \cup {s}
  /\ UNCHANGED <<remote, initialR, left, gone, aob, acks, sent, applied,
                 receiver, fwd, back, error>>

\* read_callback fills n bytes, the last of them with END_STREAM.
PrepData(s, n) ==
  /\ CanPop(s) /\ n \in 1..Lesser(next_data_read(s), left[s])
  /\ aob' = [s |-> s, len |-> n, end |-> n = left[s]]
  /\ left' = [left EXCEPT ![s] = @ - n]
  /\ UNCHANGED <<remote, initialR, deferred, gone, acks, sent, applied,
                 receiver, fwd, back, error>>

\* session_after_frame_sent1: the windows shrink when the frame has been sent.
SentData ==
  LET s == aob.s
      n == aob.len
  IN  /\ aob # None
      /\ fwd' = Append(fwd, [type |-> "DATA", s |-> s, len |-> n, end |-> aob.end,
                                 reading |-> FALSE])
      /\ remote' = [remote EXCEPT ![Conn] = @ - n,
                                  ![s] = IF s \in gone THEN @ ELSE @ - n]
      /\ sent' = [sent EXCEPT ![Conn] = @ + n, ![s] = @ + n]
      /\ aob' = None
      /\ UNCHANGED <<initialR, left, deferred, gone, acks, applied, receiver,
                     back, error>>

\* Fault: the acknowledgement overtakes the DATA frame being sent.
SentAckFirst ==
  /\ acks > 0
  /\ acks' = acks - 1
  /\ fwd' = Append(fwd, [type |-> "ACK"])
  /\ UNCHANGED <<remote, initialR, left, deferred, gone, aob, sent, applied,
                 receiver, back, error>>

SentAck ==
  /\ aob = None /\ acks > 0
  /\ acks' = acks - 1
  /\ fwd' = Append(fwd, [type |-> "ACK"])
  /\ UNCHANGED <<remote, initialR, left, deferred, gone, aob, sent, applied,
                 receiver, back, error>>

\* Fault: a deferred stream stays deferred.
ResumedNever(r) == deferred

\* Deferred streams whose window is open again are resumed.
Resumed(r) == {s \in deferred : r[s] <= 0}

\* nghttp2_session_on_settings_received: the windows of the streams move by the
\* change, below zero if need be.
RecvSettings ==
  LET delta == Head(back).value - initialR
      r == [w \in Windows |->
              IF w = Conn \/ w \in gone THEN remote[w] ELSE remote[w] + delta]
  IN  /\ back # <<>> /\ Head(back).type = "SETTINGS"
      /\ remote' = r /\ initialR' = Head(back).value
      /\ deferred' = Resumed(r)
      /\ acks' = acks + 1
      /\ error' = \E s \in Streams \ gone : r[s] > MaxWindow
      /\ back' = Tail(back)
      /\ UNCHANGED <<left, gone, aob, sent, applied, receiver, fwd>>

\* nghttp2_session_on_window_update_received.
RecvWindowUpdate ==
  LET w == Head(back).w
      n == Head(back).value
      r == [remote EXCEPT ![w] = @ + n]
  IN  /\ back # <<>> /\ Head(back).type = "WINDOW_UPDATE"
      /\ IF w \in gone THEN UNCHANGED <<remote, deferred, applied, error>>
         ELSE /\ remote' = r
              /\ deferred' = Resumed(r)
              /\ applied' = [applied EXCEPT ![w] = @ + n]
              /\ error' = (r[w] > MaxWindow)
      /\ back' = Tail(back)
      /\ UNCHANGED <<initialR, left, gone, aob, acks, sent, receiver, fwd>>

\* The stream is closed and its item freed; a frame being sent still goes out.
RecvRstStream ==
  LET s == Head(back).w
  IN  /\ back # <<>> /\ Head(back).type = "RST_STREAM"
      /\ gone' = gone \cup {s}
      /\ deferred' = deferred \ {s}
      /\ left' = [left EXCEPT ![s] = 0]
      /\ back' = Tail(back)
      /\ UNCHANGED <<remote, initialR, aob, acks, sent, applied, receiver, fwd, error>>

-------------------------------------------------------------------------------
(* The receiver *)

WindowUpdate(w, inc) == [type |-> "WINDOW_UPDATE", w |-> w, value |-> inc]

\* nghttp2_session_add_window_update, when there is something to announce.
Announce(q, w, inc) == IF inc > 0 THEN Append(q, WindowUpdate(w, inc)) ELSE q

\* One window changes to r.win, and r.inc is announced.
Change(w, r) ==
  /\ win' = [win EXCEPT ![w] = r.win]
  /\ ob' = Announce(ob, w, r.inc)
  /\ granted' = [granted EXCEPT ![w] = @ + r.inc]

\* n more bytes of the first frame, a DATA frame, have come in.
Comes(n) == fwd # <<>> /\ Head(fwd).type = "DATA" /\ n \in 1..Head(fwd).len

Rest(n, reading) ==
  IF Head(fwd).len = n THEN Tail(fwd)
  ELSE <<[Head(fwd) EXCEPT !.len = @ - n, !.reading = reading]>> \o Tail(fwd)

\* The state of the stream is looked at when the header comes in
\* (session_on_data_received_fail_fast); later only whether it is still there.
Reads == LET f == Head(fwd)
         IN  state[f.s] = "OPEN" \/ (f.reading /\ state[f.s] = "CLOSING")

\* NGHTTP2_IB_READ_DATA: n bytes of a frame for the application.
RecvData(n) ==
  LET s    == Head(fwd).s
      last == Head(fwd).end /\ n = Head(fwd).len
      c    == update_recv(win[Conn], n, TRUE)
      x    == IF Exceeds(win[s], n) THEN Silent(win[s]) ELSE update_recv(win[s], n, ~last)
  IN  /\ Comes(n) /\ Reads
      /\ error' = (Exceeds(win[Conn], n) \/ (state[s] = "OPEN" /\ Exceeds(win[s], n)))
      /\ win' = [win EXCEPT ![Conn] = c.win, ![s] = x.win]
      /\ ob' = Announce(Announce(ob, Conn, c.inc), s, x.inc)
      /\ granted' = [granted EXCEPT ![Conn] = @ + c.inc, ![s] = @ + x.inc]
      /\ received' = [received EXCEPT ![Conn] = @ + n, ![s] = @ + n]
      /\ held' = [held EXCEPT ![s] = @ + n]
      /\ ended' = IF last THEN ended \cup {s} ELSE ended
      /\ fwd' = Rest(n, TRUE)
      /\ UNCHANGED <<sender, auto, initialL, inflight, urgent, state, refused,
                     calls, back>>

\* Fault: DATA of a stream that was reset is dropped uncounted.
IgnoreUncounted(n) ==
  /\ Comes(n) /\ ~Reads
  /\ fwd' = Rest(n, FALSE)
  /\ UNCHANGED <<sender, receiver, back, error>>

\* NGHTTP2_IB_IGN_DATA: DATA of a stream that was reset counts, and is given
\* back, on the connection only.
IgnoreData(n) ==
  LET r == update_recv(win[Conn], n, TRUE)
  IN  /\ Comes(n) /\ ~Reads
      /\ error' = (Exceeds(win[Conn], n) \/ Overflows(win[Conn], n))
      /\ Change(Conn, IF auto THEN r ELSE session_update_consumed_size(r.win, n))
      /\ received' = [received EXCEPT ![Conn] = @ + n]
      /\ fwd' = Rest(n, FALSE)
      /\ UNCHANGED <<sender, auto, initialL, inflight, urgent, state, ended, refused,
                     held, calls, back>>

\* The application has read n bytes of s: nghttp2_session_consume.
Consume(s, n) ==
  LET c == session_update_consumed_size(win[Conn], n)
      x == session_update_consumed_size(win[s], n)
      has == state[s] # "CLOSED"
  IN  /\ ~auto /\ n \in 1..held[s]
      /\ error' = (Overflows(win[Conn], n) \/ (has /\ Overflows(win[s], n)))
      /\ held' = [held EXCEPT ![s] = @ - n]
      /\ win' = [win EXCEPT ![Conn] = c.win, ![s] = IF has THEN x.win ELSE @]
      /\ ob' = Announce(Announce(ob, Conn, c.inc), s, IF has THEN x.inc ELSE 0)
      /\ granted' = [granted EXCEPT ![Conn] = @ + c.inc,
                                    ![s] = IF has THEN @ + x.inc ELSE @]
      /\ UNCHANGED <<sender, auto, initialL, inflight, urgent, state, ended, refused,
                     calls, received, fwd, back>>

SubmitSettings(v) ==
  /\ calls < MaxCalls /\ calls' = calls + 1
  /\ inflight' = Append(inflight, v)
  /\ urgent' = Append(urgent, v)
  /\ UNCHANGED <<sender, auto, win, initialL, ob, state, ended, refused, held, granted, received, fwd, back, error>>

\* nghttp2_session_update_local_settings, on the acknowledgement.
RecvAck ==
  LET delta == Head(inflight) - initialL
      Has(w) == w # Conn /\ state[w] # "CLOSED"
      Moved(w) == LET v == [win[w] EXCEPT !.local = @ + delta]
                  IN  IF v.queued THEN Silent(v) ELSE Recheck(v)
      news == SetToSeq({w \in Streams : Has(w) /\ Moved(w).inc > 0})
  IN  /\ fwd # <<>> /\ Head(fwd).type = "ACK"
      /\ win' = [w \in Windows |-> IF Has(w) THEN Moved(w).win ELSE win[w]]
      /\ granted' = [w \in Windows |->
                       IF Has(w) THEN granted[w] + Moved(w).inc ELSE granted[w]]
      /\ ob' = ob \o [i \in 1..Len(news) |-> WindowUpdate(news[i], Moved(news[i]).inc)]
      /\ initialL' = Head(inflight)
      /\ inflight' = Tail(inflight)
      /\ error' = \E w \in Streams : Has(w) /\ win[w].local + delta > MaxWindow
      /\ fwd' = Tail(fwd)
      /\ UNCHANGED <<sender, auto, urgent, state, ended, refused, held, calls,
                     received, back>>

RstStream(s) == [type |-> "RST_STREAM", w |-> s]

\* adjust_recv_window_size refuses although nothing has come in: the stream is
\* reset, unless it is being reset already.
Refuse(s, v, q) ==
  /\ win' = [win EXCEPT ![s] = v]
  /\ refused' = refused \cup {s}
  /\ state' = [state EXCEPT ![s] = "CLOSING"]
  /\ ob' = IF state[s] = "CLOSING" THEN q ELSE Append(q, RstStream(s))
  /\ UNCHANGED granted

\* nghttp2_session_set_local_window_size.
SetLocalWindowSize(w, size) ==
  LET delta  == size - win[w].local
      r      == nghttp2_increase_local_window_size(win[w], delta)
      checks == delta > 0 /\ r.inc = 0
  IN  /\ calls < MaxCalls /\ delta # 0
      /\ w # Conn => state[w] # "CLOSED"
      /\ calls' = calls + 1
      /\ error' = (w = Conn /\ checks /\ Exceeds(r.win, 0))
      /\ IF w # Conn /\ checks /\ Exceeds(r.win, 0)
         THEN Refuse(w, r.win, ob)
         ELSE /\ Change(w, CASE delta < 0 -> Silent(Decrease(win[w], delta))
                             [] delta >= 0 /\ ~checks -> [r EXCEPT !.win.queued = TRUE]
                             [] checks -> update_recv(r.win, 0, TRUE))
              /\ UNCHANGED <<state, refused>>
      /\ UNCHANGED <<sender, auto, initialL, inflight, urgent, ended, held, received, fwd, back>>

\* nghttp2_submit_window_update.
SubmitWindowUpdate(w, delta) ==
  LET r == Increase(win[w], delta)
      v == [r.win EXCEPT !.queued = TRUE, !.consumed = Greater(0, @ - r.inc)]
  IN  /\ calls < MaxCalls
      /\ w # Conn => state[w] # "CLOSED"
      /\ IF delta < 0 THEN win[w].local + delta >= 0 ELSE r.win.local <= MaxWindow
      /\ calls' = calls + 1
      /\ Change(w, CASE delta < 0 -> Silent(Decrease(win[w], delta))
                     [] delta >= 0 /\ r.inc > 0 -> [win |-> v, inc |-> r.inc]
                     [] delta >= 0 /\ r.inc <= 0 -> r)
      /\ UNCHANGED <<sender, auto, initialL, inflight, urgent, state, ended, refused,
                     held, received, fwd, back, error>>

\* nghttp2_session_add_rst_stream.
SubmitRstStream(s) ==
  /\ calls < MaxCalls /\ calls' = calls + 1
  /\ state[s] = "OPEN"
  /\ state' = [state EXCEPT ![s] = "CLOSING"]
  /\ ob' = Append(ob, RstStream(s))
  /\ UNCHANGED <<sender, auto, win, initialL, inflight, urgent, ended, refused, held, granted, received, fwd, back, error>>

SentSettings ==
  /\ urgent # <<>>
  /\ urgent' = Tail(urgent)
  /\ back' = Append(back, [type |-> "SETTINGS", value |-> Head(urgent)])
  /\ UNCHANGED <<sender, auto, win, initialL, inflight, ob, state, ended, refused, held,
                 calls, granted, received, fwd, error>>

\* A WINDOW_UPDATE is sent, and what has come in meanwhile is announced in turn;
\* the update of a stream that is closing or closed is dropped.
SentWindowUpdate ==
  LET w == Head(ob).w
      v == [win[w] EXCEPT !.queued = FALSE]
      r == IF w \in ended THEN Silent(v) ELSE Recheck(v)
      refuses == auto /\ w \notin ended /\ Exceeds(v, 0)
  IN  /\ urgent = <<>> /\ ob # <<>> /\ Head(ob).type = "WINDOW_UPDATE"
      /\ IF w # Conn /\ state[w] # "OPEN"
         THEN ob' = Tail(ob) /\ UNCHANGED <<win, granted, state, refused, back, error>>
         ELSE /\ back' = Append(back, Head(ob))
              /\ error' = (w = Conn /\ refuses)
              /\ IF w # Conn /\ refuses THEN Refuse(w, v, Tail(ob))
                 ELSE /\ win' = [win EXCEPT ![w] = r.win]
                      /\ granted' = [granted EXCEPT ![w] = @ + r.inc]
                      /\ ob' = Announce(Tail(ob), w, r.inc)
                      /\ UNCHANGED <<state, refused>>
      /\ UNCHANGED <<sender, auto, initialL, inflight, urgent, ended, held, calls, received, fwd>>

SentRstStream ==
  /\ urgent = <<>> /\ ob # <<>> /\ Head(ob).type = "RST_STREAM"
  /\ state' = [state EXCEPT ![Head(ob).w] = "CLOSED"]
  /\ back' = Append(back, Head(ob))
  /\ ob' = Tail(ob)
  /\ UNCHANGED <<sender, auto, win, initialL, inflight, urgent, ended, refused, held, calls, granted, received, fwd, error>>

-------------------------------------------------------------------------------
Send == \/ \E s \in Streams : PrepDeferred(s)
        \/ \E s \in Streams, n \in 1..MaxFrameSize : PrepData(s, n)
        \/ SentData \/ SentAck
        \/ RecvSettings \/ RecvWindowUpdate \/ RecvRstStream

\* What the receiver's session does by itself.
Receive == \/ \E n \in 1..MaxFrameSize : RecvData(n) \/ IgnoreData(n)
           \/ RecvAck
           \/ SentSettings \/ SentWindowUpdate \/ SentRstStream

\* What its application does.
Call == \/ \E v \in SettingsValues : SubmitSettings(v)
        \/ \E w \in Tuned, size \in Sizes : SetLocalWindowSize(w, size)
        \/ \E w \in Tuned, delta \in Increments : SubmitWindowUpdate(w, delta)
        \/ \E s \in MayReset : SubmitRstStream(s)

Read == \E s \in Streams : \E n \in 1..Total[s] : Consume(s, n)

Next == ~error /\ (Send \/ Receive \/ Call \/ Read)

\* Both sessions are driven as long as they have something to do, and the
\* application consumes what it is given; whether it calls anything else is its
\* own affair.
Spec == /\ Init /\ [][Next]_vars
        /\ WF_vars(~error /\ Send) /\ WF_vars(~error /\ Receive) /\ WF_vars(~error /\ Read)

-------------------------------------------------------------------------------
\* A window may be negative, but never what has been reduced or consumed, and a
\* stream that is gone is not deferred (nghttp2_helper.c:155-246).
TypeOK ==
  /\ remote \in [Windows -> Int] /\ initialR \in Nat /\ initialL \in Nat
  /\ win \in [Windows -> [local : Int, recv : Int, reduction : Nat,
                          consumed : Nat, queued : BOOLEAN]]
  /\ left \in [Streams -> Nat] /\ deferred \subseteq Streams \ gone
  /\ {sent, applied, granted, received} \subseteq [Windows -> Nat]

\* No DATA is ever taken for an overrun and no WINDOW_UPDATE or SETTINGS for an
\* overflow: the sender works with the windows the receiver counts with,
\* although a change of SETTINGS_INITIAL_WINDOW_SIZE reaches the two at
\* different times and frames are on the way (nghttp2_session.c:5521-5529,
\* 4576-4685, 5193-5263).  Of overflows the runs see nothing, for their windows
\* stay far below MaxWindow; near it a window that the application has set can
\* overflow (nghttp2_stream.c:569).
PeerHonoursWindows == ~error

\* Bytes of DATA, and increments, on their way for window w.
DataIn(w, m) == IF m.type = "DATA" /\ (w = Conn \/ w = m.s) THEN m.len ELSE 0
UpdateIn(w, m) == IF m.type = "WINDOW_UPDATE" /\ w = m.w THEN m.value ELSE 0

DataInFlight(w) == SumOf([i \in 1..Len(fwd) |-> DataIn(w, fwd[i])])

UpdatesInFlight(w) == SumOf([i \in 1..Len(ob) |-> UpdateIn(w, ob[i])])
                      + SumOf([i \in 1..Len(back) |-> UpdateIn(w, back[i])])

\* No credit is lost and none is made up: what the receiver would still accept
\* is what the sender may still send, plus the DATA and the WINDOW_UPDATEs on
\* their way, plus a change of the settings only one side has made.  It holds
\* through reductions that are hidden from the peer, increases that pay them
\* back, DATA for a reset stream and updates queued while more DATA comes in
\* (nghttp2_helper.c:155-251, nghttp2_session.c:5531-5641, 7077-7235).
CreditIsConserved ==
  \A w \in Windows :
    (w = Conn \/ (w \notin gone /\ state[w] = "OPEN")) =>
      win[w].local - win[w].recv
        = remote[w] + DataInFlight(w) + UpdatesInFlight(w)
          + (IF w = Conn THEN 0 ELSE initialL - initialR)

\* The two sessions never wait for each other: as long as the application keeps
\* its windows open, every stream's DATA arrives or the stream is reset.  A
\* deferred stream must be resumed by every event that opens its window, and
\* credit must be announced however small the window has become
\* (nghttp2_session.c:4576-4627, 5193-5263, 3101-3140).
DataIsDelivered ==
  [](\A w \in Windows : win[w].local > 0) =>
    \A s \in Streams : <>(received[s] = Total[s] \/ state[s] # "OPEN")

\* The comment of adjust_recv_window_size (nghttp2_session.c:5512-5515): a
\* stream is subject to FLOW_CONTROL_ERROR if DATA is received that exceeds the
\* window, so a peer that keeps to its windows meets none.  Violated: the check
\* is made again, for no bytes, when a WINDOW_UPDATE has been sent.
NoSpuriousReset == refused = {}
===============================================================================
