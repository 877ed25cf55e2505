-------------------------- MODULE FlowControlProofs ---------------------------
(***************************************************************************)
(* Proofs about FlowControl, for any number of streams, any sizes of       *)
(* windows and frames and any calls of the application.                    *)
(***************************************************************************)
EXTENDS FlowControl, SeqSumsProofs, FiniteSetTheorems

(* The local side of a window, and what it would still accept. *)
WinRec == [local : Int, recv : Int, reduction : Nat, consumed : Nat, queued : BOOLEAN]

Credit(w) == w.local - w.recv

(* An operation that counts n bytes and announces r.inc keeps the books. *)
Balanced(w, n, r) ==
  /\ r.win \in WinRec /\ r.inc \in Nat
  /\ Credit(r.win) = Credit(w) - n + r.inc

(* The fields of a window are numbers. *)
LEMMA WinFields ==
  ASSUME NEW w \in WinRec
  PROVE  /\ w.local \in Int /\ w.recv \in Int /\ w.reduction \in Nat /\ w.consumed \in Nat
         /\ w.queued \in BOOLEAN
  BY DEF WinRec

(* Bytes come in, and are perhaps given back at once. *)
LEMMA UpdateRecvFacts ==
  ASSUME NEW w \in WinRec, NEW n \in Nat, NEW send
  PROVE  Balanced(w, n, update_recv(w, n, send)) /\ update_recv(w, n, send).win.local = w.local
  <1>. DEFINE recv == w.recv + n
              give == send /\ auto /\ ~w.queued /\ should_send_window_update(w.local, recv)
              u == [w EXCEPT !.recv = 0, !.queued = TRUE]
              v == [w EXCEPT !.recv = recv]
  <1>1. w.local \in Int /\ w.recv \in Int /\ recv \in Int /\ 0 \in Int
    BY WinFields
  <1>2. /\ u \in WinRec /\ u.local = w.local /\ u.recv = 0
        /\ v \in WinRec /\ v.local = w.local /\ v.recv = recv
    BY <1>1, Zenon DEF WinRec
  <1>3. CASE give
    <2>1. update_recv(w, n, send) = [win |-> u, inc |-> recv]
      BY <1>3 DEF update_recv
    <2>2. recv > 0
      BY <1>3 DEF should_send_window_update
    <2>. HIDE DEF u, recv
    <2>3. update_recv(w, n, send).win = u /\ update_recv(w, n, send).inc = recv
      BY <2>1
    <2>. QED
      BY <1>1, <1>2, <2>2, <2>3 DEF Balanced, Credit, recv
  <1>4. CASE ~give
    <2>1. update_recv(w, n, send) = Silent(v)
      BY <1>4 DEF update_recv
    <2>. HIDE DEF v
    <2>2. update_recv(w, n, send).win = v /\ update_recv(w, n, send).inc = 0
      BY <2>1 DEF Silent
    <2>. QED
      BY <1>1, <1>2, <2>2 DEF Balanced, Credit
  <1>. QED
    BY <1>3, <1>4

(* Bytes are consumed, and are perhaps given back. *)
LEMMA ConsumedFacts ==
  ASSUME NEW w \in WinRec, NEW n \in Nat
  PROVE  /\ Balanced(w, 0, session_update_consumed_size(w, n))
         /\ session_update_consumed_size(w, n).win.local = w.local
  <1>. DEFINE consumed == w.consumed + n
              size == Lesser(consumed, w.recv)
              give == ~w.queued /\ should_send_window_update(w.local, size)
              u == [w EXCEPT !.recv = @ - size, !.consumed = consumed - size, !.queued = TRUE]
              v == [w EXCEPT !.consumed = consumed]
              r == session_update_consumed_size(w, n)
  <1>1. /\ w.local \in Int /\ w.recv \in Int /\ consumed \in Nat /\ size \in Int
        /\ w.recv - size \in Int /\ consumed - size \in Nat
    BY WinFields DEF Lesser
  <1>2. /\ u \in WinRec /\ u.local = w.local /\ u.recv = w.recv - size
        /\ v \in WinRec /\ v.local = w.local /\ v.recv = w.recv
    BY <1>1, Zenon DEF WinRec
  <1>3. CASE give
    <2>1. r = [win |-> u, inc |-> size]
      BY <1>3 DEF session_update_consumed_size
    <2>2. size > 0
      BY <1>3 DEF should_send_window_update
    <2>. HIDE DEF u, size, r
    <2>3. r.win = u /\ r.inc = size
      BY <2>1
    <2>. QED
      BY <1>1, <1>2, <2>2, <2>3 DEF Balanced, Credit, r
  <1>4. CASE ~give
    <2>1. r = Silent(v)
      BY <1>4 DEF session_update_consumed_size
    <2>. HIDE DEF v, r
    <2>2. r.win = v /\ r.inc = 0
      BY <2>1 DEF Silent
    <2>. QED
      BY <1>1, <1>2, <2>2 DEF Balanced, Credit, r
  <1>. QED
    BY <1>3, <1>4

(* Both checks that follow a change of a window. *)
LEMMA RecheckFacts ==
  ASSUME NEW w \in WinRec
  PROVE  Balanced(w, 0, Recheck(w)) /\ Recheck(w).win.local = w.local
  BY UpdateRecvFacts, ConsumedFacts DEF Recheck

(* A reduction is hidden from the peer: the credit stays. *)
LEMMA DecreaseFacts ==
  ASSUME NEW w \in WinRec, NEW delta \in Int, delta <= 0
  PROVE  /\ Balanced(w, 0, Silent(Decrease(w, delta)))
         /\ Silent(Decrease(w, delta)).win.local = w.local + delta
  <1>. DEFINE v == [w EXCEPT !.local = @ + delta, !.recv = @ + delta, !.reduction = @ - delta]
  <1>1. /\ w.local \in Int /\ w.recv \in Int
        /\ w.local + delta \in Int /\ w.recv + delta \in Int /\ w.reduction - delta \in Nat
    BY WinFields
  <1>2. v \in WinRec /\ v.local = w.local + delta /\ v.recv = w.recv + delta
    BY <1>1, Zenon DEF WinRec
  <1>3. Decrease(w, delta) = v
    BY DEF Decrease
  <1>. HIDE DEF v
  <1>4. Silent(Decrease(w, delta)).win = v /\ Silent(Decrease(w, delta)).inc = 0
    BY <1>3 DEF Silent
  <1>. QED
    BY <1>1, <1>2, <1>4 DEF Balanced, Credit

(* An increase announces what it does not pay back. *)
LEMMA IncreaseLocalFacts ==
  ASSUME NEW w \in WinRec, NEW delta \in Nat
  PROVE  /\ Balanced(w, 0, nghttp2_increase_local_window_size(w, delta))
         /\ nghttp2_increase_local_window_size(w, delta).win.local = w.local + delta
  <1>. DEFINE paid == Lesser(w.reduction, delta)
              v == [w EXCEPT !.local = @ + delta, !.recv = @ + paid, !.reduction = @ - paid]
              r == nghttp2_increase_local_window_size(w, delta)
  <1>1. /\ w.local \in Int /\ w.recv \in Int /\ paid \in Int /\ delta - paid \in Nat
        /\ w.local + delta \in Int /\ w.recv + paid \in Int /\ w.reduction - paid \in Nat
    BY WinFields DEF Lesser
  <1>2. v \in WinRec /\ v.local = w.local + delta /\ v.recv = w.recv + paid
    BY <1>1, Zenon DEF WinRec
  <1>3. r = [win |-> v, inc |-> delta - paid]
    BY DEF nghttp2_increase_local_window_size
  <1>. HIDE DEF v, paid, r
  <1>4. r.win = v /\ r.inc = delta - paid
    BY <1>3
  <1>. QED
    BY <1>1, <1>2, <1>4 DEF Balanced, Credit, r

(* An increment gives back what was received, and increases by the rest. *)
LEMMA IncreaseFacts ==
  ASSUME NEW w \in WinRec, NEW delta \in Nat
  PROVE  Balanced(w, 0, Increase(w, delta))
  <1>. DEFINE more == delta - Greater(0, w.recv)
              paid == Lesser(w.reduction, more)
              recv == IF w.recv < 0 THEN w.recv + paid ELSE paid
              u == [w EXCEPT !.recv = @ - delta]
              v == [w EXCEPT !.local = @ + more, !.reduction = @ - paid,
                             !.recv = IF @ < 0 THEN @ + paid ELSE paid]
              r == Increase(w, delta)
  <1>1. w.local \in Int /\ w.recv \in Int /\ w.reduction \in Nat /\ more \in Int
    BY WinFields DEF Greater
  <1>2. CASE more <= 0
    <2>1. w.recv - delta \in Int
      BY <1>1
    <2>2. u \in WinRec /\ u.local = w.local /\ u.recv = w.recv - delta
      BY <2>1, Zenon DEF WinRec
    <2>3. r = [win |-> u, inc |-> delta]
      BY <1>2 DEF Increase
    <2>. HIDE DEF u, r
    <2>4. r.win = u /\ r.inc = delta
      BY <2>3
    <2>. QED
      BY <1>1, <2>2, <2>4 DEF Balanced, Credit, r
  <1>3. CASE ~(more <= 0)
    <2>1. /\ paid \in Int /\ w.local + more \in Int /\ w.reduction - paid \in Nat
          /\ delta - paid \in Nat /\ recv \in Int
      BY <1>1, <1>3 DEF Greater, Lesser
    <2>2. v \in WinRec /\ v.local = w.local + more /\ v.recv = recv
      BY <2>1, Zenon DEF WinRec
    <2>3. r = [win |-> v, inc |-> delta - paid]
      BY <1>3 DEF Increase
    <2>. HIDE DEF v, r
    <2>4. r.win = v /\ r.inc = delta - paid
      BY <2>3
    <2>5. (w.local + more) - recv = w.local - w.recv + (delta - paid)
      BY <1>1, <1>3 DEF Greater, Lesser
    <2>. QED
      BY <1>1, <2>1, <2>2, <2>4, <2>5 DEF Balanced, Credit, r
  <1>. QED
    BY <1>2, <1>3
-----------------------------------------------------------------------------
(* The frames of the two directions. *)
DataFrame == [type : {"DATA"}, s : Streams, len : Nat, end : BOOLEAN, reading : BOOLEAN]
Forward  == DataFrame \cup [type : {"ACK"}]
Update   == [type : {"WINDOW_UPDATE"}, w : Windows, value : Nat]
Reset    == [type : {"RST_STREAM"}, w : Streams]
Backward == Update \cup Reset \cup [type : {"SETTINGS"}, value : Nat]

(* What a frame weighs in each of the accounts. *)
DataF(w)   == [m \in Forward |-> DataIn(w, m)]
AckF       == [m \in Forward |-> IF m.type = "ACK" THEN 1 ELSE 0]
UpdateF(w) == [m \in Backward |-> UpdateIn(w, m)]
ResetF(s)  == [m \in Backward |-> IF m.type = "RST_STREAM" /\ m.w = s THEN 1 ELSE 0]
SettingsF  == [m \in Backward |-> IF m.type = "SETTINGS" THEN 1 ELSE 0]

(* The types of the whole state. *)
Types ==
  /\ TypeOK
  /\ gone \subseteq Streams /\ acks \in Nat /\ auto \in BOOLEAN
  /\ aob \in {None} \cup [s : Streams, len : Nat, end : BOOLEAN]
  /\ inflight \in Seq(Nat) /\ urgent \in Seq(Nat)
  /\ state \in [Streams -> {"OPEN", "CLOSING", "CLOSED"}]
  /\ held \in [Streams -> Nat]
  /\ fwd \in Seq(Forward) /\ ob \in Seq(Backward) /\ back \in Seq(Backward)

(* A window both sides still count with. *)
Live(w) == w = Conn \/ state[w] = "OPEN"

Base(w, i) == IF w = Conn THEN Initial ELSE i

(* The receiver's side of a window follows from what it has received and   *)
(* what it has announced.                                                  *)
ReceiverAccount ==
  ~error => \A w \in Windows :
    Live(w) => Credit(win[w]) = Base(w, initialL) + granted[w] - received[w]

(* The sender's side from what it has sent and what was announced to it. *)
SenderAccount ==
  \A w \in Windows : w \notin gone => remote[w] = Base(w, initialR) + applied[w] - sent[w]

(* What was sent has been received or is on its way, or was dropped with   *)
(* its stream,                                                             *)
DataAccount ==
  \A w \in Windows :
    /\ received[w] + Weight(DataF(w), fwd) <= sent[w]
    /\ Live(w) => sent[w] = received[w] + Weight(DataF(w), fwd)

(* and so has what was announced. *)
UpdateAccount ==
  \A w \in Windows :
    /\ applied[w] + Weight(UpdateF(w), ob) + Weight(UpdateF(w), back) <= granted[w]
    /\ Live(w) => granted[w] = applied[w] + Weight(UpdateF(w), ob) + Weight(UpdateF(w), back)

(* Nobody knows of a reset of a stream that is open. *)
ResetAccount ==
  \A s \in Streams : state[s] = "OPEN" =>
    s \notin gone /\ Weight(ResetF(s), ob) = 0 /\ Weight(ResetF(s), back) = 0

(* Every change of the settings that is not acknowledged is on its way,    *)
(* or its acknowledgement is.                                              *)
SettingsAccount ==
  Len(inflight) = Len(urgent) + Weight(SettingsF, back) + acks + Weight(AckF, fwd)

(* The sender stays within the window of the connection. *)
ConnAccount == remote[Conn] >= aob.len

(* The receiver never lets the window of the connection exceed its limit. *)
LocalBound == win[Conn].local <= MaxWindow

IndInv ==
  /\ Types /\ ReceiverAccount /\ SenderAccount /\ DataAccount /\ UpdateAccount
  /\ ResetAccount /\ SettingsAccount /\ ConnAccount /\ LocalBound
-----------------------------------------------------------------------------
(* The connection is not a stream. *)
LEMMA WindowFacts ==
  /\ Conn \in Windows /\ Streams \subseteq Windows /\ Conn \notin Streams
  /\ \A w \in Windows : w # Conn => w \in Streams
  BY StreamsAssumption DEF Windows

(* What Types says of each variable. *)
LEMMA TypeFacts ==
  ASSUME Types
  PROVE  /\ remote \in [Windows -> Int] /\ initialR \in Nat /\ initialL \in Nat
         /\ win \in [Windows -> WinRec] /\ left \in [Streams -> Nat]
         /\ deferred \subseteq Streams \ gone /\ gone \subseteq Streams
         /\ sent \in [Windows -> Nat] /\ applied \in [Windows -> Nat]
         /\ granted \in [Windows -> Nat] /\ received \in [Windows -> Nat]
         /\ acks \in Nat /\ auto \in BOOLEAN
         /\ aob \in {None} \cup [s : Streams, len : Nat, end : BOOLEAN]
         /\ inflight \in Seq(Nat) /\ urgent \in Seq(Nat)
         /\ state \in [Streams -> {"OPEN", "CLOSING", "CLOSED"}]
         /\ held \in [Streams -> Nat]
         /\ fwd \in Seq(Forward) /\ ob \in Seq(Backward) /\ back \in Seq(Backward)
  BY DEF Types, TypeOK, WinRec

(* And back. *)
LEMMA TypesFrom ==
  ASSUME remote \in [Windows -> Int], initialR \in Nat, initialL \in Nat,
         win \in [Windows -> WinRec], left \in [Streams -> Nat],
         deferred \subseteq Streams \ gone, gone \subseteq Streams,
         sent \in [Windows -> Nat], applied \in [Windows -> Nat],
         granted \in [Windows -> Nat], received \in [Windows -> Nat],
         acks \in Nat, auto \in BOOLEAN,
         aob \in {None} \cup [s : Streams, len : Nat, end : BOOLEAN],
         inflight \in Seq(Nat), urgent \in Seq(Nat),
         state \in [Streams -> {"OPEN", "CLOSING", "CLOSED"}],
         held \in [Streams -> Nat],
         fwd \in Seq(Forward), ob \in Seq(Backward), back \in Seq(Backward)
  PROVE  Types
  BY DEF Types, TypeOK, WinRec

(* The frame being sent, if there is one, is a stream's. *)
LEMMA AobFacts ==
  ASSUME Types
  PROVE  /\ aob.len \in Nat /\ None.len = 0
         /\ aob # None => aob.s \in Streams /\ aob.end \in BOOLEAN
  BY DEF Types, None

(* What each frame weighs. *)
LEMMA FrameWeights ==
  /\ \A w : DataF(w) \in [Forward -> Nat]
  /\ \A w : UpdateF(w) \in [Backward -> Nat]
  /\ \A s : ResetF(s) \in [Backward -> Nat]
  /\ AckF \in [Forward -> Nat] /\ SettingsF \in [Backward -> Nat]
  <1>1. ASSUME NEW w, NEW m \in Forward PROVE DataIn(w, m) \in Nat
    BY DEF Forward, DataFrame, DataIn
  <1>2. ASSUME NEW w, NEW m \in Backward PROVE UpdateIn(w, m) \in Nat
    BY DEF Backward, Update, Reset, UpdateIn
  <1>. QED
    BY <1>1, <1>2 DEF DataF, UpdateF, ResetF, AckF, SettingsF

(* The kinds of frames. *)
LEMMA KindFacts ==
  /\ \A m \in Forward : /\ m.type \in {"DATA", "ACK"}
                        /\ m.type = "DATA" => m \in DataFrame
  /\ \A m \in Backward : /\ m.type \in {"WINDOW_UPDATE", "RST_STREAM", "SETTINGS"}
                         /\ m.type = "WINDOW_UPDATE" => m.w \in Windows /\ m.value \in Nat
                         /\ m.type = "RST_STREAM" => m.w \in Streams
                         /\ m.type = "SETTINGS" => m.value \in Nat
  <1>1. ASSUME NEW m \in Forward
        PROVE m.type \in {"DATA", "ACK"} /\ (m.type = "DATA" => m \in DataFrame)
    BY DEF Forward, DataFrame
  <1>2. ASSUME NEW m \in Backward
        PROVE  /\ m.type \in {"WINDOW_UPDATE", "RST_STREAM", "SETTINGS"}
               /\ m.type = "WINDOW_UPDATE" => m.w \in Windows /\ m.value \in Nat
               /\ m.type = "RST_STREAM" => m.w \in Streams
               /\ m.type = "SETTINGS" => m.value \in Nat
    BY DEF Backward, Update, Reset
  <1>. QED
    BY <1>1, <1>2

(* The sums of FlowControl are weights. *)
LEMMA InFlightIsWeight ==
  ASSUME Types, NEW w
  PROVE  /\ DataInFlight(w) = Weight(DataF(w), fwd)
         /\ UpdatesInFlight(w) = Weight(UpdateF(w), ob) + Weight(UpdateF(w), back)
  <1>1. /\ \A i \in 1..Len(fwd) : fwd[i] \in Forward
        /\ \A i \in 1..Len(ob) : ob[i] \in Backward
        /\ \A i \in 1..Len(back) : back[i] \in Backward
    BY TypeFacts, ElementOfSeq
  <1>2. /\ [i \in 1..Len(fwd) |-> DataIn(w, fwd[i])] = [i \in 1..Len(fwd) |-> DataF(w)[fwd[i]]]
        /\ [i \in 1..Len(ob) |-> UpdateIn(w, ob[i])] = [i \in 1..Len(ob) |-> UpdateF(w)[ob[i]]]
        /\ [i \in 1..Len(back) |-> UpdateIn(w, back[i])] =
             [i \in 1..Len(back) |-> UpdateF(w)[back[i]]]
    BY <1>1 DEF DataF, UpdateF
  <1>. QED
    BY <1>2 DEF DataInFlight, UpdatesInFlight, Weight
-----------------------------------------------------------------------------
(* No stream is opened by a step. *)
NoneOpened == \A s \in Streams : state'[s] = "OPEN" => state[s] = "OPEN"

(* A step that leaves alone what an account is about keeps the account. *)
LEMMA Frames ==
  /\ SenderAccount /\ UNCHANGED <<remote, initialR, applied, sent, gone>> => SenderAccount'
  /\ DataAccount /\ NoneOpened /\ UNCHANGED <<sent, received, fwd>> => DataAccount'
  /\ UpdateAccount /\ NoneOpened /\ UNCHANGED <<granted, applied, ob, back>> => UpdateAccount'
  /\ ResetAccount /\ NoneOpened /\ UNCHANGED <<gone, ob, back>> => ResetAccount'
  /\ SettingsAccount /\ UNCHANGED <<inflight, urgent, back, acks, fwd>> => SettingsAccount'
  /\ ConnAccount /\ UNCHANGED <<remote, aob>> => ConnAccount'
  /\ LocalBound /\ UNCHANGED win => LocalBound'
  <1>1. NoneOpened => \A w \in Windows : Live(w)' => Live(w)
    BY WindowFacts DEF NoneOpened, Live
  <1>2. ASSUME SenderAccount, UNCHANGED <<remote, initialR, applied, sent, gone>>
        PROVE  SenderAccount'
    BY <1>2 DEF SenderAccount
  <1>3. ASSUME DataAccount, NoneOpened, UNCHANGED <<sent, received, fwd>>
        PROVE  DataAccount'
    BY <1>1, <1>3 DEF DataAccount
  <1>4. ASSUME UpdateAccount, NoneOpened, UNCHANGED <<granted, applied, ob, back>>
        PROVE  UpdateAccount'
    BY <1>1, <1>4 DEF UpdateAccount
  <1>5. ASSUME ResetAccount, NoneOpened, UNCHANGED <<gone, ob, back>>
        PROVE  ResetAccount'
    BY <1>5 DEF ResetAccount, NoneOpened
  <1>6. ASSUME SettingsAccount, UNCHANGED <<inflight, urgent, back, acks, fwd>>
        PROVE  SettingsAccount'
    BY <1>6 DEF SettingsAccount
  <1>7. ASSUME ConnAccount, UNCHANGED <<remote, aob>> PROVE ConnAccount'
    BY <1>7 DEF ConnAccount
  <1>8. ASSUME LocalBound, UNCHANGED win PROVE LocalBound'
    BY <1>8 DEF LocalBound
  <1>. QED
    BY <1>2, <1>3, <1>4, <1>5, <1>6, <1>7, <1>8

(* A step of the sender leaves the receiver's side of the windows alone. *)
LEMMA SenderFrames ==
  ASSUME IndInv, UNCHANGED receiver, ~error
  PROVE  ReceiverAccount' /\ LocalBound' /\ NoneOpened
  BY DEF IndInv, ReceiverAccount, LocalBound, NoneOpened, Live, receiver, Credit, Base

(* What each kind of frame weighs in each account. *)
LEMMA KindWeights ==
  /\ \A m \in Forward : m.type = "DATA" =>
       /\ AckF[m] = 0 /\ m.len \in Nat /\ m.s \in Streams
       /\ \A w : DataF(w)[m] = IF w = Conn \/ w = m.s THEN m.len ELSE 0
  /\ \A m \in Forward : m.type = "ACK" => AckF[m] = 1 /\ \A w : DataF(w)[m] = 0
  /\ \A m \in Backward : m.type = "SETTINGS" =>
       SettingsF[m] = 1 /\ \A w : UpdateF(w)[m] = 0 /\ ResetF(w)[m] = 0
  /\ \A m \in Backward : m.type = "WINDOW_UPDATE" =>
       /\ SettingsF[m] = 0
       /\ \A w : UpdateF(w)[m] = (IF w = m.w THEN m.value ELSE 0) /\ ResetF(w)[m] = 0
  /\ \A m \in Backward : m.type = "RST_STREAM" =>
       /\ SettingsF[m] = 0
       /\ \A w : UpdateF(w)[m] = 0 /\ ResetF(w)[m] = (IF w = m.w THEN 1 ELSE 0)
  <1>1. ASSUME NEW m \in Forward, m.type = "DATA"
        PROVE  /\ AckF[m] = 0 /\ m.len \in Nat /\ m.s \in Streams
               /\ \A w : DataF(w)[m] = IF w = Conn \/ w = m.s THEN m.len ELSE 0
    BY <1>1, KindFacts DEF AckF, DataF, DataIn, DataFrame
  <1>2. ASSUME NEW m \in Forward, m.type = "ACK"
        PROVE  AckF[m] = 1 /\ \A w : DataF(w)[m] = 0
    BY <1>2 DEF AckF, DataF, DataIn
  <1>3. ASSUME NEW m \in Backward
        PROVE  /\ SettingsF[m] = IF m.type = "SETTINGS" THEN 1 ELSE 0
               /\ \A w : UpdateF(w)[m] = UpdateIn(w, m)
               /\ \A w : ResetF(w)[m] = IF m.type = "RST_STREAM" /\ m.w = w THEN 1 ELSE 0
    BY DEF SettingsF, UpdateF, ResetF
  <1>. QED
    BY <1>1, <1>2, <1>3 DEF UpdateIn

(* The frames that are put together are frames. *)
LEMMA NewFrames ==
  /\ \A w \in Windows, n \in Nat : WindowUpdate(w, n) \in Backward
  /\ \A s \in Streams : RstStream(s) \in Backward
  /\ \A v \in Nat : [type |-> "SETTINGS", value |-> v] \in Backward
  /\ [type |-> "ACK"] \in Forward
  /\ \A s \in Streams, n \in Nat, e \in BOOLEAN, r \in BOOLEAN :
       [type |-> "DATA", s |-> s, len |-> n, end |-> e, reading |-> r] \in DataFrame
  /\ DataFrame \subseteq Forward
  BY DEF WindowUpdate, RstStream, Backward, Update, Reset, Forward, DataFrame

(* Nothing has happened yet. *)
LEMMA InitInv == Init => IndInv
  <1>. SUFFICES ASSUME Init PROVE IndInv
    OBVIOUS
  <1>. USE DEF Init
  <1>1. Window(Initial) \in WinRec /\ Credit(Window(Initial)) = Initial
        /\ Window(Initial).local = Initial
    BY BoundsAssumption DEF Window, WinRec, Credit
  <1>2. win \in [Windows -> WinRec]
    BY <1>1
  <1>3. Types
    <2>1. {sent, applied, granted, received} \subseteq [Windows -> Nat]
      BY DEF Zero
    <2>2. <<>> \in Seq(Nat) /\ <<>> \in Seq(Forward) /\ <<>> \in Seq(Backward)
      BY EmptySeq
    <2>3. held \in [Streams -> Nat]
      BY DEF Zero
    <2>. QED
      BY <1>2, <2>1, <2>2, <2>3, BoundsAssumption DEF Types, TypeOK, WinRec
  <1>4. /\ \A w : Weight(DataF(w), <<>>) = 0 /\ Weight(UpdateF(w), <<>>) = 0
                  /\ Weight(ResetF(w), <<>>) = 0
        /\ Weight(AckF, <<>>) = 0 /\ Weight(SettingsF, <<>>) = 0
    BY FrameWeights, WeightEmpty
  <1>5. ReceiverAccount
    BY <1>1, BoundsAssumption DEF ReceiverAccount, Base, Zero
  <1>6. SenderAccount
    BY BoundsAssumption DEF SenderAccount, Base, Zero
  <1>7. DataAccount /\ UpdateAccount
    <2>1. \A w \in Windows : sent[w] = 0 /\ received[w] = 0 /\ granted[w] = 0 /\ applied[w] = 0
      BY DEF Zero
    <2>2. fwd = <<>> /\ ob = <<>> /\ back = <<>>
      OBVIOUS
    <2>. QED
      BY <1>4, <2>1, <2>2 DEF DataAccount, UpdateAccount
  <1>8. ResetAccount /\ SettingsAccount
    BY <1>4, EmptySeq DEF ResetAccount, SettingsAccount
  <1>9. ConnAccount /\ LocalBound
    BY <1>1, WindowFacts, BoundsAssumption DEF ConnAccount, LocalBound, None
  <1>. QED
    BY <1>3, <1>5, <1>6, <1>7, <1>8, <1>9 DEF IndInv

(* A stream whose window is closed is deferred. *)
LEMMA PrepDeferredInv ==
  ASSUME IndInv, ~error, NEW s \in Streams, PrepDeferred(s)
  PROVE  IndInv'
  <1>. USE DEF PrepDeferred
  <1>1. Types'
    BY DEF IndInv, Types, TypeOK, CanPop, receiver
  <1>. QED
    BY <1>1, SenderFrames, Frames DEF IndInv, receiver

(* The frame that is prepared fits the window of the connection. *)
LEMMA PrepDataInv ==
  ASSUME IndInv, ~error, NEW s \in Streams, NEW n \in Nat, PrepData(s, n)
  PROVE  IndInv'
  <1>. USE DEF PrepData
  <1>1. left[s] \in Nat /\ remote[s] \in Int /\ remote[Conn] \in Int
    BY WindowFacts, TypeFacts DEF IndInv
  <1>2. n <= left[s] /\ n <= remote[Conn]
    BY <1>1, BoundsAssumption DEF next_data_read, Lesser
  <1>3. Types'
    <2>0. left \in [Streams -> Nat]
      BY TypeFacts DEF IndInv
    <2>1. left' \in [Streams -> Nat]
      BY <1>1, <1>2, <2>0
    <2>2. aob' \in [s : Streams, len : Nat, end : BOOLEAN]
      OBVIOUS
    <2>. QED
      BY <2>1, <2>2 DEF IndInv, Types, TypeOK, receiver
  <1>4. ConnAccount'
    BY <1>2 DEF ConnAccount
  <1>. QED
    BY <1>3, <1>4, SenderFrames, Frames DEF IndInv, receiver

(* A DATA frame leaves: what it takes from the windows is on its way. *)
LEMMA SentDataInv ==
  ASSUME IndInv, ~error, SentData
  PROVE  IndInv'
  <1>. DEFINE s == aob.s
              n == aob.len
              m == [type |-> "DATA", s |-> s, len |-> n, end |-> aob.end, reading |-> FALSE]
  <1>0. Types
    BY DEF IndInv
  <1>1. s \in Streams /\ s \in Windows /\ s # Conn /\ n \in Nat /\ aob.end \in BOOLEAN
    BY <1>0, AobFacts, WindowFacts DEF SentData
  <1>2. m \in Forward /\ m.type = "DATA" /\ m.s = s /\ m.len = n
    BY <1>1, NewFrames
  <1>3. fwd' = Append(fwd, m) /\ aob' = None /\ NoneOpened
    BY DEF SentData, receiver, NoneOpened
  <1>. HIDE DEF m
  <1>4. /\ remote' \in [Windows -> Int] /\ sent' \in [Windows -> Nat]
        /\ \A w \in Windows :
             /\ sent'[w] = IF w = Conn \/ w = s THEN sent[w] + n ELSE sent[w]
             /\ w \notin gone =>
                  remote'[w] = IF w = Conn \/ w = s THEN remote[w] - n ELSE remote[w]
        /\ remote'[Conn] = remote[Conn] - n
    <2>1. remote \in [Windows -> Int] /\ sent \in [Windows -> Nat]
      BY <1>0, TypeFacts
    <2>. HIDE DEF n, s
    <2>2. /\ remote' = [remote EXCEPT ![Conn] = @ - n,
                                      ![s] = IF s \in gone THEN @ ELSE @ - n]
          /\ sent' = [sent EXCEPT ![Conn] = @ + n, ![s] = @ + n]
      BY DEF SentData, n, s
    <2>. QED
      BY <1>1, <2>1, <2>2, WindowFacts
  <1>5. /\ fwd' \in Seq(Forward) /\ Weight(AckF, fwd') = Weight(AckF, fwd)
        /\ Weight(AckF, fwd) \in Nat
        /\ \A w : /\ Weight(DataF(w), fwd) \in Nat
                  /\ Weight(DataF(w), fwd') = Weight(DataF(w), fwd) +
                                                IF w = Conn \/ w = s THEN n ELSE 0
    <2>1. fwd \in Seq(Forward)
      BY <1>0, TypeFacts
    <2>2. Weight(AckF, fwd) \in Nat /\ \A w : Weight(DataF(w), fwd) \in Nat
      BY <2>1, FrameWeights, WeightType
    <2>3. \A w : Weight(DataF(w), fwd') = Weight(DataF(w), fwd) + DataF(w)[m]
      <3>. TAKE w
      <3>1. DataF(w) \in [Forward -> Nat]
        BY FrameWeights
      <3>. QED
        BY <1>2, <1>3, <2>1, <3>1, WeightAppend
    <2>5. fwd' \in Seq(Forward) /\ Weight(AckF, fwd') = Weight(AckF, fwd) + AckF[m]
      BY <1>2, <1>3, <2>1, FrameWeights, WeightAppend
    <2>4. AckF[m] = 0 /\ \A w : DataF(w)[m] = IF w = Conn \/ w = s THEN n ELSE 0
      BY <1>2, KindWeights
    <2>. QED
      BY <2>2, <2>3, <2>4, <2>5
  <1>. HIDE DEF n, s
  <1>6. Types'
    <2>1. UNCHANGED <<initialR, left, deferred, gone, acks, applied, receiver, back>>
      BY DEF SentData
    <2>2. /\ remote' \in [Windows -> Int] /\ sent' \in [Windows -> Nat]
          /\ fwd' \in Seq(Forward) /\ aob' \in {None}
      BY <1>3, <1>4, <1>5
    <2>. QED
      BY <1>0, <2>1, <2>2, SMTT(30) DEF Types, TypeOK, receiver
  <1>7. SenderAccount'
    <2>. SUFFICES ASSUME NEW w \in Windows, w \notin gone
                  PROVE  remote'[w] = Base(w, initialR) + applied[w] - sent'[w]
      BY DEF SenderAccount, SentData, Base
    <2>1. remote[w] = Base(w, initialR) + applied[w] - sent[w]
      BY DEF IndInv, SenderAccount
    <2>2. /\ remote[w] \in Int /\ applied[w] \in Nat /\ sent[w] \in Nat
          /\ Base(w, initialR) \in Nat
      BY <1>0, TypeFacts, BoundsAssumption DEF Base
    <2>. QED
      BY <1>1, <1>4, <2>1, <2>2
  <1>8. DataAccount'
    <2>. SUFFICES ASSUME NEW w \in Windows
                  PROVE  /\ received'[w] + Weight(DataF(w), fwd') <= sent'[w]
                         /\ Live(w)' => sent'[w] = received'[w] + Weight(DataF(w), fwd')
      BY DEF DataAccount
    <2>1. (Live(w)' => Live(w)) /\ received' = received
      BY DEF Live, SentData, receiver
    <2>2. /\ received[w] + Weight(DataF(w), fwd) <= sent[w]
          /\ Live(w) => sent[w] = received[w] + Weight(DataF(w), fwd)
      BY DEF IndInv, DataAccount
    <2>3. sent[w] \in Nat /\ received[w] \in Nat
      BY <1>0, TypeFacts
    <2>. QED
      BY <1>1, <1>4, <1>5, <2>1, <2>2, <2>3, SMTT(30)
  <1>9. SettingsAccount'
    BY <1>5 DEF IndInv, SettingsAccount, SentData, receiver
  <1>10. ConnAccount'
    <2>1. remote[Conn] >= n /\ remote[Conn] \in Int
      BY <1>0, TypeFacts, WindowFacts DEF IndInv, ConnAccount, n
    <2>. QED
      BY <1>0, <1>1, <1>3, <1>4, <2>1, AobFacts DEF ConnAccount
  <1>. QED
    BY <1>3, <1>6, <1>7, <1>8, <1>9, <1>10, SenderFrames, Frames DEF IndInv, SentData, receiver

(* An acknowledgement leaves. *)
LEMMA SentAckInv ==
  ASSUME IndInv, ~error, SentAck
  PROVE  IndInv'
  <1>. DEFINE m == [type |-> "ACK"]
  <1>0. Types
    BY DEF IndInv
  <1>1. m \in Forward /\ m.type = "ACK"
    BY NewFrames
  <1>. HIDE DEF m
  <1>2. fwd' = Append(fwd, m) /\ NoneOpened /\ fwd \in Seq(Forward)
    BY <1>0, TypeFacts DEF SentAck, receiver, NoneOpened, m
  <1>3. AckF[m] = 1 /\ \A w : DataF(w)[m] = 0
    BY <1>1, KindWeights
  <1>4. /\ fwd' \in Seq(Forward) /\ Weight(AckF, fwd') = Weight(AckF, fwd) + 1
        /\ Weight(AckF, fwd) \in Nat
    BY <1>1, <1>2, <1>3, FrameWeights, WeightAppend, WeightType
  <1>5. \A w : Weight(DataF(w), fwd') = Weight(DataF(w), fwd)
    <2>. TAKE w
    <2>1. DataF(w) \in [Forward -> Nat]
      BY FrameWeights
    <2>2. Weight(DataF(w), fwd') = Weight(DataF(w), fwd) + 0 /\ Weight(DataF(w), fwd) \in Nat
      BY <1>1, <1>2, <1>3, <2>1, WeightAppend, WeightType
    <2>. QED
      BY <2>2
  <1>6. Types'
    <2>1. acks' \in Nat
      BY <1>0, TypeFacts DEF SentAck
    <2>. QED
      BY <1>4, <2>1 DEF IndInv, Types, TypeOK, SentAck, receiver
  <1>7. DataAccount'
    BY <1>5 DEF IndInv, DataAccount, SentAck, receiver, Live
  <1>8. SettingsAccount'
    <2>1. /\ Len(inflight) = Len(urgent) + Weight(SettingsF, back) + acks + Weight(AckF, fwd)
          /\ acks' = acks - 1 /\ UNCHANGED <<inflight, urgent, back>>
      BY DEF IndInv, SettingsAccount, SentAck, receiver
    <2>2. Len(urgent) \in Nat /\ Weight(SettingsF, back) \in Nat /\ acks \in Nat
      BY <1>0, TypeFacts, LenProperties, FrameWeights, WeightType
    <2>. QED
      BY <1>4, <2>1, <2>2 DEF SettingsAccount
  <1>. QED
    BY <1>2, <1>6, <1>7, <1>8, SenderFrames, Frames DEF IndInv, SentAck, receiver

(* The accounts of a queue of frames to the receiver. *)
LEMMA ForwardQueue ==
  ASSUME NEW q \in Seq(Forward)
  PROVE  /\ \A w : Weight(DataF(w), q) \in Nat
         /\ Weight(AckF, q) \in Nat
         /\ q # <<>> =>
              /\ Head(q) \in Forward /\ Tail(q) \in Seq(Forward)
              /\ \A w : /\ Weight(DataF(w), q) = DataF(w)[Head(q)] + Weight(DataF(w), Tail(q))
                        /\ Weight(DataF(w), Tail(q)) \in Nat
              /\ Weight(AckF, q) = AckF[Head(q)] + Weight(AckF, Tail(q))
              /\ Weight(AckF, Tail(q)) \in Nat
  <1>1. ASSUME NEW F \in [Forward -> Nat]
        PROVE  /\ Weight(F, q) \in Nat
               /\ q # <<>> => /\ Head(q) \in Forward /\ Tail(q) \in Seq(Forward)
                              /\ Weight(F, q) = F[Head(q)] + Weight(F, Tail(q))
                              /\ Weight(F, Tail(q)) \in Nat
    BY WeightType, WeightTail
  <1>. QED
    BY <1>1, FrameWeights

(* The accounts of a queue of frames to the sender. *)
LEMMA BackwardQueue ==
  ASSUME NEW q \in Seq(Backward)
  PROVE  /\ \A w : Weight(UpdateF(w), q) \in Nat /\ Weight(ResetF(w), q) \in Nat
         /\ Weight(SettingsF, q) \in Nat
         /\ q # <<>> =>
              /\ Head(q) \in Backward /\ Tail(q) \in Seq(Backward)
              /\ \A w :
                   /\ Weight(UpdateF(w), q) = UpdateF(w)[Head(q)] + Weight(UpdateF(w), Tail(q))
                   /\ Weight(UpdateF(w), Tail(q)) \in Nat
                   /\ Weight(ResetF(w), q) = ResetF(w)[Head(q)] + Weight(ResetF(w), Tail(q))
                   /\ Weight(ResetF(w), Tail(q)) \in Nat
              /\ Weight(SettingsF, q) = SettingsF[Head(q)] + Weight(SettingsF, Tail(q))
              /\ Weight(SettingsF, Tail(q)) \in Nat
  <1>1. ASSUME NEW F \in [Backward -> Nat]
        PROVE  /\ Weight(F, q) \in Nat
               /\ q # <<>> => /\ Head(q) \in Backward /\ Tail(q) \in Seq(Backward)
                              /\ Weight(F, q) = F[Head(q)] + Weight(F, Tail(q))
                              /\ Weight(F, Tail(q)) \in Nat
    BY WeightType, WeightTail
  <1>. QED
    BY <1>1, FrameWeights

(* One more frame to the sender. *)
LEMMA BackwardAppend ==
  ASSUME NEW q \in Seq(Backward), NEW m \in Backward
  PROVE  /\ Append(q, m) \in Seq(Backward)
         /\ \A w : /\ Weight(UpdateF(w), Append(q, m)) = Weight(UpdateF(w), q) + UpdateF(w)[m]
                   /\ Weight(ResetF(w), Append(q, m)) = Weight(ResetF(w), q) + ResetF(w)[m]
         /\ Weight(SettingsF, Append(q, m)) = Weight(SettingsF, q) + SettingsF[m]
  <1>1. ASSUME NEW F \in [Backward -> Nat]
        PROVE  /\ Append(q, m) \in Seq(Backward)
               /\ Weight(F, Append(q, m)) = Weight(F, q) + F[m]
    BY WeightAppend
  <1>. QED
    BY <1>1, FrameWeights

(* The first frame to the sender is taken off a queue. *)
LEMMA BackwardPop ==
  ASSUME NEW q \in Seq(Backward), q # <<>>
  PROVE  /\ Head(q) \in Backward /\ Tail(q) \in Seq(Backward)
         /\ \A w : /\ Weight(UpdateF(w), Tail(q)) \in Nat
                   /\ Weight(ResetF(w), Tail(q)) \in Nat
         /\ Weight(SettingsF, Tail(q)) \in Nat
         /\ Head(q).type = "SETTINGS" =>
              /\ Head(q).value \in Nat
              /\ \A w : /\ Weight(UpdateF(w), q) = Weight(UpdateF(w), Tail(q))
                        /\ Weight(ResetF(w), q) = Weight(ResetF(w), Tail(q))
              /\ Weight(SettingsF, q) = 1 + Weight(SettingsF, Tail(q))
         /\ Head(q).type = "WINDOW_UPDATE" =>
              /\ Head(q).w \in Windows /\ Head(q).value \in Nat
              /\ \A w : /\ Weight(UpdateF(w), q) =
                             (IF w = Head(q).w THEN Head(q).value ELSE 0)
                               + Weight(UpdateF(w), Tail(q))
                        /\ Weight(ResetF(w), q) = Weight(ResetF(w), Tail(q))
              /\ Weight(SettingsF, q) = Weight(SettingsF, Tail(q))
         /\ Head(q).type = "RST_STREAM" =>
              /\ Head(q).w \in Streams
              /\ \A w : /\ Weight(UpdateF(w), q) = Weight(UpdateF(w), Tail(q))
                        /\ Weight(ResetF(w), q) =
                             (IF w = Head(q).w THEN 1 ELSE 0) + Weight(ResetF(w), Tail(q))
              /\ Weight(SettingsF, q) = Weight(SettingsF, Tail(q))
  <1>. DEFINE h == Head(q)
              t == Tail(q)
  <1>1. /\ h \in Backward /\ t \in Seq(Backward)
        /\ \A w : /\ Weight(UpdateF(w), q) = UpdateF(w)[h] + Weight(UpdateF(w), t)
                  /\ Weight(UpdateF(w), t) \in Nat
                  /\ Weight(ResetF(w), q) = ResetF(w)[h] + Weight(ResetF(w), t)
                  /\ Weight(ResetF(w), t) \in Nat
        /\ Weight(SettingsF, q) = SettingsF[h] + Weight(SettingsF, t)
        /\ Weight(SettingsF, t) \in Nat
    BY BackwardQueue
  <1>. HIDE DEF h, t
  <1>2. CASE h.type = "SETTINGS"
    <2>1. /\ h.value \in Nat
          /\ SettingsF[h] = 1 /\ \A w : UpdateF(w)[h] = 0 /\ ResetF(w)[h] = 0
      BY <1>1, <1>2, KindFacts, KindWeights
    <2>. QED
      BY <1>1, <1>2, <2>1 DEF h, t
  <1>3. CASE h.type = "WINDOW_UPDATE"
    <2>1. /\ h.w \in Windows /\ h.value \in Nat /\ SettingsF[h] = 0
          /\ \A w : UpdateF(w)[h] = (IF w = h.w THEN h.value ELSE 0) /\ ResetF(w)[h] = 0
      BY <1>1, <1>3, KindFacts, KindWeights
    <2>. QED
      BY <1>1, <1>3, <2>1 DEF h, t
  <1>4. CASE h.type = "RST_STREAM"
    <2>1. /\ h.w \in Streams /\ SettingsF[h] = 0
          /\ \A w : UpdateF(w)[h] = 0 /\ ResetF(w)[h] = (IF w = h.w THEN 1 ELSE 0)
      BY <1>1, <1>4, KindFacts, KindWeights
    <2>. QED
      BY <1>1, <1>4, <2>1 DEF h, t
  <1>. QED
    BY <1>1, <1>2, <1>3, <1>4 DEF h, t

(* SETTINGS arrives: the windows of the streams move with the setting. *)
LEMMA RecvSettingsInv ==
  ASSUME IndInv, ~error, RecvSettings
  PROVE  IndInv'
  <1>. DEFINE v == Head(back).value
              r == [w \in Windows |-> IF w = Conn \/ w \in gone THEN remote[w]
                                      ELSE remote[w] + (v - initialR)]
  <1>0. Types
    BY DEF IndInv
  <1>1. /\ back \in Seq(Backward) /\ back # <<>> /\ Head(back).type = "SETTINGS"
        /\ back' = Tail(back)
    BY <1>0, TypeFacts DEF RecvSettings
  <1>2. /\ Head(back) \in Backward /\ back' \in Seq(Backward) /\ v \in Nat
        /\ \A w : /\ Weight(UpdateF(w), back) = Weight(UpdateF(w), back')
                  /\ Weight(ResetF(w), back) = Weight(ResetF(w), back')
        /\ Weight(SettingsF, back) = 1 + Weight(SettingsF, back')
        /\ Weight(SettingsF, back') \in Nat
    BY <1>1, BackwardPop
  <1>3. /\ remote' = r /\ initialR' = v /\ deferred' \subseteq deferred /\ acks' = acks + 1
        /\ UNCHANGED <<left, gone, aob, sent, applied, receiver, fwd>>
    BY DEF RecvSettings, Resumed
  <1>4. NoneOpened
    BY <1>3 DEF receiver, NoneOpened
  <1>. HIDE DEF v
  <1>5. /\ initialR \in Nat /\ remote \in [Windows -> Int] /\ acks \in Nat
        /\ deferred \subseteq Streams \ gone
    BY <1>0, TypeFacts
  <1>6. /\ r \in [Windows -> Int] /\ r[Conn] = remote[Conn]
        /\ \A w \in Windows : w \notin gone =>
             r[w] = IF w = Conn THEN remote[w] ELSE remote[w] + (v - initialR)
    BY <1>2, <1>5, WindowFacts
  <1>. HIDE DEF r
  <1>7. Types'
    <2>1. /\ remote' \in [Windows -> Int] /\ initialR' \in Nat /\ acks' \in Nat
          /\ deferred' \subseteq Streams \ gone /\ back' \in Seq(Backward)
      BY <1>2, <1>3, <1>5, <1>6
    <2>2. UNCHANGED <<left, gone, aob, sent, applied, receiver, fwd>>
      BY <1>3
    <2>. QED
      BY <1>0, <2>1, <2>2 DEF Types, TypeOK, receiver
  <1>8. SenderAccount'
    <2>. SUFFICES ASSUME NEW w \in Windows, w \notin gone
                  PROVE  r[w] = Base(w, v) + applied[w] - sent[w]
      BY <1>3 DEF SenderAccount, Base
    <2>1. remote[w] = Base(w, initialR) + applied[w] - sent[w]
      BY DEF IndInv, SenderAccount
    <2>2. remote[w] \in Int /\ applied[w] \in Nat /\ sent[w] \in Nat /\ Initial \in Nat
      BY <1>0, TypeFacts, BoundsAssumption
    <2>. QED
      BY <1>2, <1>5, <1>6, <2>1, <2>2 DEF Base
  <1>9. UpdateAccount' /\ ResetAccount'
    BY <1>2, <1>3 DEF IndInv, UpdateAccount, ResetAccount, receiver, Live
  <1>10. SettingsAccount'
    <2>1. /\ Len(inflight) = Len(urgent) + Weight(SettingsF, back) + acks + Weight(AckF, fwd)
          /\ UNCHANGED <<inflight, urgent, fwd>>
      BY <1>3 DEF IndInv, SettingsAccount, receiver
    <2>2. Len(urgent) \in Nat /\ Weight(AckF, fwd) \in Nat
      BY <1>0, TypeFacts, LenProperties, ForwardQueue
    <2>. QED
      BY <1>2, <1>3, <1>5, <2>1, <2>2 DEF SettingsAccount
  <1>11. ConnAccount'
    BY <1>3, <1>6 DEF IndInv, ConnAccount
  <1>. QED
    BY <1>3, <1>4, <1>7, <1>8, <1>9, <1>10, <1>11, SenderFrames, Frames DEF IndInv, receiver

(* WINDOW_UPDATE arrives: an increment is applied, unless its stream is gone. *)
LEMMA RecvWindowUpdateInv ==
  ASSUME IndInv, ~error, RecvWindowUpdate
  PROVE  IndInv'
  <1>. DEFINE v == Head(back).w
              n == Head(back).value
  <1>0. Types
    BY DEF IndInv
  <1>1. /\ back \in Seq(Backward) /\ back # <<>> /\ Head(back).type = "WINDOW_UPDATE"
        /\ back' = Tail(back)
    BY <1>0, TypeFacts DEF RecvWindowUpdate
  <1>2. /\ Head(back) \in Backward /\ back' \in Seq(Backward)
        /\ v \in Windows /\ n \in Nat
        /\ \A w : /\ Weight(UpdateF(w), back) =
                       (IF w = v THEN n ELSE 0) + Weight(UpdateF(w), back')
                  /\ Weight(ResetF(w), back) = Weight(ResetF(w), back')
                  /\ Weight(UpdateF(w), back') \in Nat
        /\ Weight(SettingsF, back) = Weight(SettingsF, back')
    BY <1>1, BackwardPop
  <1>3. /\ UNCHANGED <<initialR, left, gone, aob, acks, sent, receiver, fwd>>
        /\ v \in gone => UNCHANGED <<remote, deferred, applied>>
        /\ v \notin gone => /\ remote' = [remote EXCEPT ![v] = @ + n]
                            /\ deferred' \subseteq deferred
                            /\ applied' = [applied EXCEPT ![v] = @ + n]
    BY DEF RecvWindowUpdate, Resumed
  <1>4. NoneOpened
    BY <1>3 DEF receiver, NoneOpened
  <1>. HIDE DEF v, n
  <1>5. /\ remote \in [Windows -> Int] /\ applied \in [Windows -> Nat]
        /\ sent \in [Windows -> Nat] /\ deferred \subseteq Streams \ gone /\ gone \subseteq Streams
    BY <1>0, TypeFacts
  <1>6. /\ remote' \in [Windows -> Int] /\ applied' \in [Windows -> Nat]
        /\ \A w \in Windows : w \notin gone =>
             /\ remote'[w] = IF w = v THEN remote[w] + n ELSE remote[w]
             /\ applied'[w] = IF w = v THEN applied[w] + n ELSE applied[w]
    <2>1. v \in Windows /\ n \in Nat
      BY <1>2
    <2>2. CASE v \in gone
      BY <1>3, <1>5, <2>2
    <2>3. CASE v \notin gone
      BY <1>3, <1>5, <2>1, <2>3
    <2>. QED
      BY <2>2, <2>3
  <1>7. Types'
    <2>1. deferred' \subseteq Streams \ gone
      BY <1>3, <1>5
    <2>2. UNCHANGED <<initialR, left, gone, aob, acks, sent, receiver, fwd>>
      BY <1>3
    <2>3. /\ remote' \in [Windows -> Int] /\ applied' \in [Windows -> Nat]
          /\ back' \in Seq(Backward)
      BY <1>2, <1>6
    <2>. QED
      BY <1>0, <2>1, <2>2, <2>3, SMTT(30) DEF Types, TypeOK, receiver
  <1>8. SenderAccount'
    <2>. SUFFICES ASSUME NEW w \in Windows, w \notin gone
                  PROVE  remote'[w] = Base(w, initialR) + applied'[w] - sent[w]
      BY <1>3 DEF SenderAccount, Base
    <2>1. remote[w] = Base(w, initialR) + applied[w] - sent[w]
      BY DEF IndInv, SenderAccount
    <2>2. /\ remote[w] \in Int /\ applied[w] \in Nat /\ sent[w] \in Nat
          /\ Base(w, initialR) \in Nat
      BY <1>0, TypeFacts, BoundsAssumption DEF Base
    <2>3. n \in Nat
      BY <1>2
    <2>4. /\ remote'[w] = IF w = v THEN remote[w] + n ELSE remote[w]
          /\ applied'[w] = IF w = v THEN applied[w] + n ELSE applied[w]
      BY <1>6
    <2>. QED
      BY <2>1, <2>2, <2>3, <2>4
  <1>9. ResetAccount'
    BY <1>2, <1>3 DEF IndInv, ResetAccount, receiver
  <1>10. UpdateAccount'
    <2>. SUFFICES ASSUME NEW w \in Windows
                  PROVE  /\ applied'[w] + Weight(UpdateF(w), ob)
                              + Weight(UpdateF(w), back') <= granted[w]
                         /\ Live(w) => granted[w] = applied'[w] + Weight(UpdateF(w), ob)
                                                      + Weight(UpdateF(w), back')
      BY <1>3 DEF UpdateAccount, receiver, Live
    <2>1. Live(w) => w \notin gone
      BY <1>5, WindowFacts DEF IndInv, ResetAccount, Live
    <2>2. /\ applied[w] + Weight(UpdateF(w), ob) + Weight(UpdateF(w), back) <= granted[w]
          /\ Live(w) => granted[w] = applied[w] + Weight(UpdateF(w), ob) + Weight(UpdateF(w), back)
      BY DEF IndInv, UpdateAccount
    <2>3. /\ applied[w] \in Nat /\ Weight(UpdateF(w), ob) \in Nat /\ granted[w] \in Nat
          /\ applied'[w] \in Nat
      BY <1>0, <1>6, TypeFacts, BackwardQueue
    <2>4. CASE w \in gone
      <3>1. applied'[w] = applied[w]
        BY <1>3, <1>5, <2>4
      <3>. QED
        BY <1>2, <2>1, <2>2, <2>3, <2>4, <3>1
    <2>5. CASE w \notin gone
      BY <1>2, <1>6, <2>2, <2>3, <2>5, SMTT(30)
    <2>. QED
      BY <2>4, <2>5
  <1>11. SettingsAccount'
    BY <1>2, <1>3 DEF IndInv, SettingsAccount, receiver
  <1>12. ConnAccount'
    <2>1. Conn \notin gone /\ remote[Conn] \in Int
      BY <1>5, WindowFacts
    <2>2. remote'[Conn] >= remote[Conn]
      BY <1>2, <1>6, <2>1, WindowFacts
    <2>3. aob' = aob /\ aob.len \in Nat /\ remote[Conn] >= aob.len /\ remote'[Conn] \in Int
      BY <1>0, <1>3, <1>6, AobFacts, WindowFacts DEF IndInv, ConnAccount
    <2>. QED
      BY <2>1, <2>2, <2>3 DEF ConnAccount
  <1>. QED
    BY <1>3, <1>4, <1>7, <1>8, <1>9, <1>10, <1>11, <1>12, SenderFrames, Frames
       DEF IndInv, receiver

(* RST_STREAM arrives: the stream is gone, and was no longer open. *)
LEMMA RecvRstStreamInv ==
  ASSUME IndInv, ~error, RecvRstStream
  PROVE  IndInv'
  <1>. DEFINE s == Head(back).w
  <1>0. Types
    BY DEF IndInv
  <1>1. /\ back \in Seq(Backward) /\ back # <<>> /\ Head(back).type = "RST_STREAM"
        /\ back' = Tail(back)
    BY <1>0, TypeFacts DEF RecvRstStream
  <1>2. /\ Head(back) \in Backward /\ back' \in Seq(Backward) /\ s \in Streams
        /\ \A w : /\ Weight(UpdateF(w), back) = Weight(UpdateF(w), back')
                  /\ Weight(ResetF(w), back) =
                       (IF w = s THEN 1 ELSE 0) + Weight(ResetF(w), back')
                  /\ Weight(ResetF(w), back') \in Nat
        /\ Weight(SettingsF, back) = Weight(SettingsF, back')
    BY <1>1, BackwardPop
  <1>3. /\ UNCHANGED <<remote, initialR, aob, acks, sent, applied, receiver, fwd, error>>
        /\ gone' = gone \cup {s} /\ deferred' = deferred \ {s}
        /\ left' = [left EXCEPT ![s] = 0]
    BY DEF RecvRstStream
  <1>4. NoneOpened
    BY <1>3 DEF receiver, NoneOpened
  <1>. HIDE DEF s
  <1>5. Types'
    <2>1. /\ left \in [Streams -> Nat] /\ deferred \subseteq Streams \ gone
          /\ gone \subseteq Streams
      BY <1>0, TypeFacts
    <2>2. /\ left' \in [Streams -> Nat] /\ deferred' \subseteq Streams \ gone'
          /\ gone' \subseteq Streams /\ back' \in Seq(Backward)
      BY <1>2, <1>3, <2>1
    <2>3. UNCHANGED <<remote, initialR, aob, acks, sent, applied, receiver, fwd>>
      BY <1>3
    <2>. QED
      BY <1>0, <2>2, <2>3 DEF Types, TypeOK, receiver
  <1>6. SenderAccount'
    BY <1>3 DEF IndInv, SenderAccount
  <1>7. ResetAccount'
    BY <1>2, <1>3 DEF IndInv, ResetAccount, receiver
  <1>8. UpdateAccount'
    BY <1>2, <1>3 DEF IndInv, UpdateAccount, receiver, Live
  <1>9. SettingsAccount'
    BY <1>2, <1>3 DEF IndInv, SettingsAccount, receiver
  <1>. QED
    BY <1>3, <1>4, <1>5, <1>6, <1>7, <1>8, <1>9, SenderFrames, Frames DEF IndInv, receiver
-----------------------------------------------------------------------------
(* An announcement adds its increment to the updates of its window. *)
LEMMA AnnounceFacts ==
  ASSUME NEW q \in Seq(Backward), NEW v \in Windows, NEW inc \in Nat
  PROVE  /\ Announce(q, v, inc) \in Seq(Backward)
         /\ \A w : /\ Weight(UpdateF(w), Announce(q, v, inc)) =
                        Weight(UpdateF(w), q) + (IF w = v THEN inc ELSE 0)
                   /\ Weight(ResetF(w), Announce(q, v, inc)) = Weight(ResetF(w), q)
  <1>. DEFINE m == WindowUpdate(v, inc)
  <1>0. \A w : Weight(UpdateF(w), q) \in Nat /\ Weight(ResetF(w), q) \in Nat
    BY BackwardQueue
  <1>1. CASE inc > 0
    <2>1. m \in Backward /\ m.type = "WINDOW_UPDATE" /\ m.w = v /\ m.value = inc
      BY NewFrames DEF WindowUpdate
    <2>2. Announce(q, v, inc) = Append(q, m)
      BY <1>1 DEF Announce
    <2>. HIDE DEF m
    <2>3. \A w : UpdateF(w)[m] = (IF w = v THEN inc ELSE 0) /\ ResetF(w)[m] = 0
      BY <2>1, KindWeights
    <2>4. /\ Append(q, m) \in Seq(Backward)
          /\ \A w : /\ Weight(UpdateF(w), Append(q, m)) = Weight(UpdateF(w), q) + UpdateF(w)[m]
                    /\ Weight(ResetF(w), Append(q, m)) = Weight(ResetF(w), q) + ResetF(w)[m]
      BY <2>1, BackwardAppend
    <2>. QED
      BY <1>0, <2>2, <2>3, <2>4
  <1>2. CASE ~(inc > 0)
    BY <1>0, <1>2 DEF Announce
  <1>. QED
    BY <1>1, <1>2

(* A reset is announced. *)
LEMMA ResetFacts ==
  ASSUME NEW q \in Seq(Backward), NEW s \in Streams
  PROVE  /\ Append(q, RstStream(s)) \in Seq(Backward)
         /\ \A w : /\ Weight(UpdateF(w), Append(q, RstStream(s))) = Weight(UpdateF(w), q)
                   /\ w # s => Weight(ResetF(w), Append(q, RstStream(s))) = Weight(ResetF(w), q)
  <1>. DEFINE m == RstStream(s)
  <1>0. \A w : Weight(UpdateF(w), q) \in Nat /\ Weight(ResetF(w), q) \in Nat
    BY BackwardQueue
  <1>1. m \in Backward /\ m.type = "RST_STREAM" /\ m.w = s
    BY NewFrames DEF RstStream
  <1>. HIDE DEF m
  <1>2. \A w : UpdateF(w)[m] = 0 /\ ResetF(w)[m] = (IF w = s THEN 1 ELSE 0)
    BY <1>1, KindWeights
  <1>3. /\ Append(q, m) \in Seq(Backward)
        /\ \A w : /\ Weight(UpdateF(w), Append(q, m)) = Weight(UpdateF(w), q) + UpdateF(w)[m]
                  /\ Weight(ResetF(w), Append(q, m)) = Weight(ResetF(w), q) + ResetF(w)[m]
    BY <1>1, BackwardAppend
  <1>. QED
    BY <1>0, <1>2, <1>3 DEF m

(* n bytes are taken off the first frame. *)
LEMMA RestFacts ==
  ASSUME Types, NEW n, Comes(n), NEW b \in BOOLEAN
  PROVE  /\ Head(fwd).s \in Streams /\ n \in Nat
         /\ Rest(n, b) \in Seq(Forward)
         /\ Weight(AckF, Rest(n, b)) = Weight(AckF, fwd)
         /\ \A w : /\ Weight(DataF(w), Rest(n, b)) \in Nat
                   /\ Weight(DataF(w), fwd) = Weight(DataF(w), Rest(n, b)) +
                        (IF w = Conn \/ w = Head(fwd).s THEN n ELSE 0)
  <1>. DEFINE h == Head(fwd)
              t == Tail(fwd)
              m == [h EXCEPT !.len = @ - n, !.reading = b]
  <1>1. fwd \in Seq(Forward) /\ fwd # <<>> /\ h.type = "DATA" /\ n \in 1..h.len
    BY TypeFacts DEF Comes
  <1>2. /\ h \in Forward /\ t \in Seq(Forward)
        /\ \A w : /\ Weight(DataF(w), fwd) = DataF(w)[h] + Weight(DataF(w), t)
                  /\ Weight(DataF(w), t) \in Nat
        /\ Weight(AckF, fwd) = AckF[h] + Weight(AckF, t)
        /\ Weight(AckF, t) \in Nat
    BY <1>1, ForwardQueue
  <1>3. Rest(n, b) = IF h.len = n THEN t ELSE <<m>> \o t
    BY DEF Rest
  <1>. HIDE DEF h, t
  <1>4. /\ AckF[h] = 0 /\ h.len \in Nat /\ h.s \in Streams /\ h \in DataFrame
        /\ \A w : DataF(w)[h] = IF w = Conn \/ w = h.s THEN h.len ELSE 0
    BY <1>1, <1>2, KindWeights, KindFacts
  <1>5. n \in Nat /\ h.len - n \in Nat
    BY <1>1, <1>4
  <1>6. m \in DataFrame /\ m.type = "DATA" /\ m.len = h.len - n /\ m.s = h.s
    BY <1>1, <1>4, <1>5, Zenon DEF DataFrame
  <1>. HIDE DEF m
  <1>7. /\ m \in Forward /\ AckF[m] = 0
        /\ \A w : DataF(w)[m] = IF w = Conn \/ w = h.s THEN h.len - n ELSE 0
    BY <1>6, NewFrames, KindWeights
  <1>8. /\ <<m>> \o t \in Seq(Forward)
        /\ Weight(AckF, <<m>> \o t) = AckF[m] + Weight(AckF, t)
        /\ \A w : Weight(DataF(w), <<m>> \o t) = DataF(w)[m] + Weight(DataF(w), t)
    <2>1. ASSUME NEW F \in [Forward -> Nat]
          PROVE  <<m>> \o t \in Seq(Forward) /\ Weight(F, <<m>> \o t) = F[m] + Weight(F, t)
      BY <1>2, <1>7, WeightPush
    <2>. QED
      BY <2>1, FrameWeights
  <1>. DEFINE c == <<m>> \o t
  <1>. HIDE DEF c
  <1>9. CASE h.len = n
    <2>1. Rest(n, b) = t
      BY <1>3, <1>9
    <2>2. ASSUME NEW w
          PROVE  Weight(DataF(w), fwd) = Weight(DataF(w), t) +
                   (IF w = Conn \/ w = h.s THEN n ELSE 0)
      BY <1>2, <1>4, <1>5, <1>9
    <2>. QED
      BY <1>2, <1>4, <1>5, <2>1, <2>2 DEF h
  <1>10. CASE h.len # n
    <2>1. Rest(n, b) = c
      BY <1>3, <1>10 DEF c
    <2>2. /\ c \in Seq(Forward) /\ Weight(AckF, c) = AckF[m] + Weight(AckF, t)
          /\ \A w : Weight(DataF(w), c) = DataF(w)[m] + Weight(DataF(w), t)
      BY <1>8 DEF c
    <2>3. ASSUME NEW w
          PROVE  /\ Weight(DataF(w), c) \in Nat
                 /\ Weight(DataF(w), fwd) = Weight(DataF(w), c) +
                      (IF w = Conn \/ w = h.s THEN n ELSE 0)
      <3>1. /\ Weight(DataF(w), c) = DataF(w)[m] + Weight(DataF(w), t)
            /\ Weight(DataF(w), fwd) = DataF(w)[h] + Weight(DataF(w), t)
            /\ Weight(DataF(w), t) \in Nat
        BY <1>2, <2>2
      <3>2. CASE w = Conn \/ w = h.s
        BY <1>4, <1>5, <1>7, <3>1, <3>2
      <3>3. CASE ~(w = Conn \/ w = h.s)
        BY <1>4, <1>5, <1>7, <3>1, <3>3
      <3>. QED
        BY <3>2, <3>3
    <2>4. Weight(AckF, c) = Weight(AckF, fwd)
      BY <1>2, <1>4, <1>7, <2>2
    <2>. QED
      BY <1>4, <1>5, <2>1, <2>2, <2>3, <2>4 DEF h
  <1>. QED
    BY <1>9, <1>10

(* A step that counts n bytes, announces inc and moves the window with the *)
(* setting, on every window that stays live, keeps the receiver's books.   *)
LEMMA Books ==
  ASSUME IndInv, ~error, NoneOpened, applied' = applied, win' \in [Windows -> WinRec],
         initialL' \in Nat,
         NEW n \in [Windows -> Nat], NEW inc \in [Windows -> Nat],
         \A w \in Windows : /\ granted'[w] = granted[w] + inc[w]
                            /\ received'[w] = received[w] + n[w],
         \A w \in Windows :
           Weight(UpdateF(w), ob') + Weight(UpdateF(w), back')
             = Weight(UpdateF(w), ob) + Weight(UpdateF(w), back) + inc[w],
         \A w \in Windows : Live(w)' /\ ~error' =>
           Credit(win'[w]) = Credit(win[w]) - n[w] + inc[w]
                               + (Base(w, initialL') - Base(w, initialL)),
         ob' \in Seq(Backward), back' \in Seq(Backward)
  PROVE  ReceiverAccount' /\ UpdateAccount'
  <1>0. Types
    BY DEF IndInv
  <1>1. \A w \in Windows : Live(w)' => Live(w)
    BY WindowFacts DEF NoneOpened, Live
  <1>2. ASSUME NEW w \in Windows
        PROVE  /\ granted[w] \in Nat /\ received[w] \in Nat /\ applied[w] \in Nat
               /\ inc[w] \in Nat /\ n[w] \in Nat
               /\ Base(w, initialL) \in Nat /\ Base(w, initialL') \in Nat
               /\ Credit(win[w]) \in Int /\ Credit(win'[w]) \in Int
    <2>1. granted[w] \in Nat /\ received[w] \in Nat /\ applied[w] \in Nat /\ initialL \in Nat
      BY <1>0, TypeFacts
    <2>2. win[w] \in WinRec /\ win'[w] \in WinRec
      BY <1>0, TypeFacts
    <2>3. Credit(win[w]) \in Int /\ Credit(win'[w]) \in Int
      BY <2>2, WinFields DEF Credit
    <2>4. Base(w, initialL) \in Nat /\ Base(w, initialL') \in Nat
      BY <2>1, BoundsAssumption DEF Base
    <2>. QED
      BY <2>1, <2>3, <2>4
  <1>3. ReceiverAccount'
    <2>. SUFFICES ASSUME ~error', NEW w \in Windows, Live(w)'
                  PROVE  Credit(win'[w]) = Base(w, initialL') + granted'[w] - received'[w]
      BY DEF ReceiverAccount, Credit, Base
    <2>1. Credit(win[w]) = Base(w, initialL) + granted[w] - received[w]
      BY <1>1 DEF IndInv, ReceiverAccount
    <2>2. Credit(win'[w]) = Credit(win[w]) - n[w] + inc[w]
                              + (Base(w, initialL') - Base(w, initialL))
      OBVIOUS
    <2>3. granted'[w] = granted[w] + inc[w] /\ received'[w] = received[w] + n[w]
      OBVIOUS
    <2>. QED
      BY ONLY <1>2, <2>1, <2>2, <2>3, w \in Windows
  <1>4. UpdateAccount'
    <2>. SUFFICES ASSUME NEW w \in Windows
                  PROVE  /\ applied[w] + Weight(UpdateF(w), ob')
                              + Weight(UpdateF(w), back') <= granted'[w]
                         /\ Live(w)' => granted'[w] = applied[w] + Weight(UpdateF(w), ob')
                                                       + Weight(UpdateF(w), back')
      BY DEF UpdateAccount
    <2>1. /\ applied[w] + Weight(UpdateF(w), ob) + Weight(UpdateF(w), back) <= granted[w]
          /\ Live(w)' =>
               granted[w] = applied[w] + Weight(UpdateF(w), ob) + Weight(UpdateF(w), back)
      BY <1>1 DEF IndInv, UpdateAccount
    <2>2. /\ Weight(UpdateF(w), ob) \in Nat /\ Weight(UpdateF(w), back) \in Nat
          /\ Weight(UpdateF(w), ob') \in Nat /\ Weight(UpdateF(w), back') \in Nat
      BY <1>0, TypeFacts, BackwardQueue
    <2>3. Weight(UpdateF(w), ob') + Weight(UpdateF(w), back')
            = Weight(UpdateF(w), ob) + Weight(UpdateF(w), back) + inc[w]
      OBVIOUS
    <2>4. granted'[w] = granted[w] + inc[w]
      OBVIOUS
    <2>. QED
      BY ONLY <1>2, <2>1, <2>2, <2>3, <2>4, w \in Windows
  <1>. QED
    BY <1>3, <1>4

(* One window changes, in balance. *)
LEMMA ChangeBooks ==
  ASSUME IndInv, ~error, NoneOpened, UNCHANGED <<initialL, applied, back, gone>>,
         NEW v \in Windows, NEW r, NEW k \in Nat,
         Change(v, r), Balanced(win[v], k, r),
         \A w \in Windows : received'[w] = IF w = v THEN received[w] + k ELSE received[w]
  PROVE  /\ win' \in [Windows -> WinRec] /\ granted' \in [Windows -> Nat]
         /\ ob' \in Seq(Backward) /\ win' = [win EXCEPT ![v] = r.win]
         /\ ReceiverAccount' /\ UpdateAccount' /\ ResetAccount'
  <1>. DEFINE inc == [w \in Windows |-> IF w = v THEN r.inc ELSE 0]
              n == [w \in Windows |-> IF w = v THEN k ELSE 0]
  <1>0. Types
    BY DEF IndInv
  <1>1. /\ win \in [Windows -> WinRec] /\ granted \in [Windows -> Nat]
        /\ received \in [Windows -> Nat]
        /\ ob \in Seq(Backward) /\ back \in Seq(Backward) /\ initialL \in Nat
    BY <1>0, TypeFacts
  <1>2. /\ win' = [win EXCEPT ![v] = r.win] /\ ob' = Announce(ob, v, r.inc)
        /\ granted' = [granted EXCEPT ![v] = @ + r.inc]
    BY DEF Change
  <1>3. /\ r.win \in WinRec /\ r.inc \in Nat
        /\ Credit(r.win) = Credit(win[v]) - k + r.inc
    BY DEF Balanced
  <1>4. /\ ob' \in Seq(Backward)
        /\ \A w : /\ Weight(UpdateF(w), ob') = Weight(UpdateF(w), ob)
                                                 + (IF w = v THEN r.inc ELSE 0)
                  /\ Weight(ResetF(w), ob') = Weight(ResetF(w), ob)
                  /\ Weight(UpdateF(w), ob) \in Nat /\ Weight(UpdateF(w), back) \in Nat
    <2>. DEFINE a == Announce(ob, v, r.inc)
    <2>0. /\ a \in Seq(Backward)
          /\ \A w : /\ Weight(UpdateF(w), a) = Weight(UpdateF(w), ob)
                                                 + (IF w = v THEN r.inc ELSE 0)
                    /\ Weight(ResetF(w), a) = Weight(ResetF(w), ob)
      BY ONLY <1>1, <1>3, v \in Windows, AnnounceFacts
    <2>1. /\ ob' \in Seq(Backward)
          /\ \A w : /\ Weight(UpdateF(w), ob') = Weight(UpdateF(w), ob)
                                                   + (IF w = v THEN r.inc ELSE 0)
                    /\ Weight(ResetF(w), ob') = Weight(ResetF(w), ob)
      BY <1>2, <2>0
    <2>2. \A w : Weight(UpdateF(w), ob) \in Nat /\ Weight(UpdateF(w), back) \in Nat
      BY <1>1, BackwardQueue
    <2>. QED
      BY <2>1, <2>2
  <1>5. win' \in [Windows -> WinRec] /\ granted' \in [Windows -> Nat]
    BY <1>1, <1>2, <1>3
  <1>6. inc \in [Windows -> Nat] /\ n \in [Windows -> Nat]
    BY <1>3
  <1>7. \A w \in Windows : inc[w] = (IF w = v THEN r.inc ELSE 0) /\ n[w] = IF w = v THEN k ELSE 0
    OBVIOUS
  <1>. HIDE DEF inc, n
  <1>8. ASSUME NEW w \in Windows
        PROVE  /\ granted'[w] = granted[w] + inc[w] /\ received'[w] = received[w] + n[w]
               /\ Credit(win'[w]) = Credit(win[w]) - n[w] + inc[w]
                                      + (Base(w, initialL') - Base(w, initialL))
               /\ Weight(UpdateF(w), ob') + Weight(UpdateF(w), back')
                    = Weight(UpdateF(w), ob) + Weight(UpdateF(w), back) + inc[w]
    <2>1. /\ granted[w] \in Nat /\ received[w] \in Nat /\ inc[w] \in Nat /\ n[w] \in Nat
      BY <1>1, <1>6
    <2>2. Base(w, initialL') - Base(w, initialL) = 0
      BY <1>1, BoundsAssumption DEF Base
    <2>3. Credit(win[w]) \in Int
      BY <1>1, WinFields DEF Credit
    <2>4. CASE w = v
      <3>1. win'[w] = r.win /\ granted'[w] = granted[w] + r.inc
        BY <1>1, <1>2, <2>4
      <3>2. inc[w] = r.inc /\ n[w] = k
        BY <1>7, <2>4
      <3>3. received'[w] = received[w] + n[w]
        BY <2>1, <2>4, <3>2
      <3>4. Credit(win'[w]) = Credit(win[w]) - n[w] + inc[w]
                                + (Base(w, initialL') - Base(w, initialL))
        <4>1. Credit(win'[w]) = Credit(win[w]) - n[w] + inc[w]
          BY <1>3, <2>4, <3>1, <3>2
        <4>. QED
          BY ONLY <2>1, <2>2, <2>3, <4>1
      <3>5. Weight(UpdateF(w), ob') + Weight(UpdateF(w), back')
              = Weight(UpdateF(w), ob) + Weight(UpdateF(w), back) + inc[w]
        <4>1. /\ Weight(UpdateF(w), ob') = Weight(UpdateF(w), ob) + inc[w] /\ back' = back
              /\ Weight(UpdateF(w), ob) \in Nat /\ Weight(UpdateF(w), back) \in Nat
          BY <1>4, <2>4, <3>2
        <4>. QED
          BY <2>1, <4>1
      <3>. QED
        BY <3>1, <3>2, <3>3, <3>4, <3>5
    <2>5. CASE w # v
      <3>1. win'[w] = win[w] /\ granted'[w] = granted[w]
        BY <1>1, <1>2, <2>5
      <3>. QED
        BY <1>4, <1>7, <2>1, <2>2, <2>3, <2>5, <3>1
    <2>. QED
      BY <2>4, <2>5
  <1>9. ReceiverAccount' /\ UpdateAccount'
    BY <1>1, <1>4, <1>5, <1>6, <1>8, Books
  <1>10. ResetAccount'
    BY <1>4 DEF IndInv, ResetAccount, NoneOpened
  <1>. QED
    BY <1>2, <1>4, <1>5, <1>9, <1>10

(* The application asks for other SETTINGS. *)
LEMMA SubmitSettingsInv ==
  ASSUME IndInv, ~error, NEW v \in SettingsValues, SubmitSettings(v)
  PROVE  IndInv'
  <1>0. Types
    BY DEF IndInv
  <1>1. /\ inflight' = Append(inflight, v) /\ urgent' = Append(urgent, v)
        /\ UNCHANGED <<sender, auto, win, initialL, ob, state, ended, refused, held,
                       granted, received, fwd, back, error>>
    BY DEF SubmitSettings
  <1>2. v \in Nat /\ inflight \in Seq(Nat) /\ urgent \in Seq(Nat)
    BY <1>0, TypeFacts, BoundsAssumption
  <1>3. /\ inflight' \in Seq(Nat) /\ Len(inflight') = Len(inflight) + 1
        /\ urgent' \in Seq(Nat) /\ Len(urgent') = Len(urgent) + 1
        /\ Len(inflight) \in Nat /\ Len(urgent) \in Nat
    BY <1>1, <1>2, AppendProperties, LenProperties
  <1>4. Types'
    <2>1. inflight' \in Seq(Nat) /\ urgent' \in Seq(Nat)
      BY <1>3
    <2>2. UNCHANGED <<sender, auto, win, initialL, ob, state, held, granted, received, fwd, back>>
      BY <1>1
    <2>. QED
      BY <1>0, <2>1, <2>2 DEF Types, TypeOK, sender
  <1>5. SettingsAccount'
    <2>1. /\ Len(inflight) = Len(urgent) + Weight(SettingsF, back) + acks + Weight(AckF, fwd)
          /\ UNCHANGED <<acks, fwd, back>>
      BY <1>1 DEF IndInv, SettingsAccount, sender
    <2>2. Weight(SettingsF, back) \in Nat /\ acks \in Nat /\ Weight(AckF, fwd) \in Nat
      BY <1>0, TypeFacts, BackwardQueue, ForwardQueue
    <2>. QED
      BY <1>3, <2>1, <2>2 DEF SettingsAccount
  <1>6. ReceiverAccount' /\ NoneOpened
    BY <1>1 DEF IndInv, ReceiverAccount, NoneOpened, Live, Credit, Base
  <1>. QED
    BY <1>1, <1>4, <1>5, <1>6, Frames DEF IndInv, sender

(* SETTINGS leaves. *)
LEMMA SentSettingsInv ==
  ASSUME IndInv, ~error, SentSettings
  PROVE  IndInv'
  <1>. DEFINE m == [type |-> "SETTINGS", value |-> Head(urgent)]
  <1>0. Types
    BY DEF IndInv
  <1>1. /\ urgent # <<>> /\ urgent' = Tail(urgent) /\ back' = Append(back, m)
        /\ UNCHANGED <<sender, auto, win, initialL, inflight, ob, state, ended, refused, held,
                       calls, granted, received, fwd, error>>
    BY DEF SentSettings
  <1>2. /\ Head(urgent) \in Nat /\ urgent' \in Seq(Nat) /\ Len(urgent) \in Nat
        /\ Len(urgent') = Len(urgent) - 1
    BY <1>0, <1>1, TypeFacts, HeadTailProperties, LenProperties
  <1>3. m \in Backward /\ m.type = "SETTINGS"
    BY <1>2, NewFrames
  <1>. HIDE DEF m
  <1>4. SettingsF[m] = 1 /\ \A w : UpdateF(w)[m] = 0 /\ ResetF(w)[m] = 0
    BY <1>3, KindWeights
  <1>5. back \in Seq(Backward)
    BY <1>0, TypeFacts
  <1>6. /\ \A w : Weight(UpdateF(w), back) \in Nat /\ Weight(ResetF(w), back) \in Nat
        /\ Weight(SettingsF, back) \in Nat
    BY <1>5, BackwardQueue
  <1>7. /\ back' \in Seq(Backward)
        /\ \A w : /\ Weight(UpdateF(w), back') = Weight(UpdateF(w), back) + UpdateF(w)[m]
                  /\ Weight(ResetF(w), back') = Weight(ResetF(w), back) + ResetF(w)[m]
        /\ Weight(SettingsF, back') = Weight(SettingsF, back) + SettingsF[m]
    BY <1>1, <1>3, <1>5, BackwardAppend
  <1>8. /\ \A w : /\ Weight(UpdateF(w), back') = Weight(UpdateF(w), back)
                  /\ Weight(ResetF(w), back') = Weight(ResetF(w), back)
        /\ Weight(SettingsF, back') = Weight(SettingsF, back) + 1
    BY <1>4, <1>6, <1>7
  <1>9. Types'
    <2>1. urgent' \in Seq(Nat) /\ back' \in Seq(Backward)
      BY <1>2, <1>7
    <2>2. UNCHANGED <<sender, auto, win, initialL, inflight, ob, state, held, granted,
                      received, fwd>>
      BY <1>1
    <2>. QED
      BY <1>0, <2>1, <2>2 DEF Types, TypeOK, sender
  <1>10. SettingsAccount'
    <2>1. /\ Len(inflight) = Len(urgent) + Weight(SettingsF, back) + acks + Weight(AckF, fwd)
          /\ UNCHANGED <<acks, fwd, inflight>>
      BY <1>1 DEF IndInv, SettingsAccount, sender
    <2>2. acks \in Nat /\ Weight(AckF, fwd) \in Nat
      BY <1>0, TypeFacts, ForwardQueue
    <2>. QED
      BY <1>2, <1>6, <1>8, <2>1, <2>2, SMTT(30) DEF SettingsAccount
  <1>11. UpdateAccount' /\ ResetAccount'
    BY <1>1, <1>8 DEF IndInv, UpdateAccount, ResetAccount, Live, sender
  <1>12. ReceiverAccount' /\ NoneOpened
    BY <1>1 DEF IndInv, ReceiverAccount, NoneOpened, Live, Credit, Base
  <1>. QED
    BY <1>1, <1>9, <1>10, <1>11, <1>12, Frames DEF IndInv, sender

(* The application resets a stream. *)
LEMMA SubmitRstStreamInv ==
  ASSUME IndInv, ~error, NEW s \in Streams, SubmitRstStream(s)
  PROVE  IndInv'
  <1>0. Types
    BY DEF IndInv
  <1>1. /\ state' = [state EXCEPT ![s] = "CLOSING"] /\ ob' = Append(ob, RstStream(s))
        /\ UNCHANGED <<sender, auto, win, initialL, inflight, urgent, held,
                       granted, received, fwd, back, error>>
    BY DEF SubmitRstStream
  <1>2. ob \in Seq(Backward) /\ state \in [Streams -> {"OPEN", "CLOSING", "CLOSED"}]
    BY <1>0, TypeFacts
  <1>3. /\ ob' \in Seq(Backward)
        /\ \A w : /\ Weight(UpdateF(w), ob') = Weight(UpdateF(w), ob)
                  /\ w # s => Weight(ResetF(w), ob') = Weight(ResetF(w), ob)
    BY <1>1, <1>2, ResetFacts
  <1>4. /\ state' \in [Streams -> {"OPEN", "CLOSING", "CLOSED"}]
        /\ \A x \in Streams : state'[x] = "OPEN" => state[x] = "OPEN" /\ x # s
    BY <1>1, <1>2
  <1>5. NoneOpened /\ \A w \in Windows : Live(w)' => Live(w)
    BY <1>4, WindowFacts DEF NoneOpened, Live
  <1>6. Types'
    <2>1. ob' \in Seq(Backward) /\ state' \in [Streams -> {"OPEN", "CLOSING", "CLOSED"}]
      BY <1>3, <1>4
    <2>2. UNCHANGED <<sender, auto, win, initialL, inflight, urgent, held,
                      granted, received, fwd, back>>
      BY <1>1
    <2>. QED
      BY <1>0, <2>1, <2>2 DEF Types, TypeOK, sender
  <1>7. ReceiverAccount' /\ UpdateAccount'
    BY <1>1, <1>3, <1>5 DEF IndInv, ReceiverAccount, UpdateAccount, Credit, Base, sender
  <1>8. ResetAccount'
    BY <1>1, <1>3, <1>4 DEF IndInv, ResetAccount, sender
  <1>. QED
    BY <1>1, <1>5, <1>6, <1>7, <1>8, Frames DEF IndInv, sender

(* RST_STREAM leaves: its stream was no longer open. *)
LEMMA SentRstStreamInv ==
  ASSUME IndInv, ~error, SentRstStream
  PROVE  IndInv'
  <1>. DEFINE m == Head(ob)
  <1>0. Types
    BY DEF IndInv
  <1>1. /\ ob # <<>> /\ m.type = "RST_STREAM" /\ ob' = Tail(ob)
        /\ state' = [state EXCEPT ![m.w] = "CLOSED"] /\ back' = Append(back, m)
        /\ UNCHANGED <<sender, auto, win, initialL, inflight, urgent, held,
                       granted, received, fwd, error>>
    BY DEF SentRstStream
  <1>2. /\ ob \in Seq(Backward) /\ back \in Seq(Backward)
        /\ state \in [Streams -> {"OPEN", "CLOSING", "CLOSED"}]
    BY <1>0, TypeFacts
  <1>3. /\ m \in Backward /\ ob' \in Seq(Backward) /\ m.w \in Streams
        /\ \A w : /\ Weight(UpdateF(w), ob) = Weight(UpdateF(w), ob')
                  /\ Weight(ResetF(w), ob) = (IF w = m.w THEN 1 ELSE 0) + Weight(ResetF(w), ob')
                  /\ Weight(ResetF(w), ob') \in Nat
    BY <1>1, <1>2, BackwardPop
  <1>. HIDE DEF m
  <1>4. /\ SettingsF[m] = 0
        /\ \A w : UpdateF(w)[m] = 0 /\ ResetF(w)[m] = (IF w = m.w THEN 1 ELSE 0)
    BY <1>1, <1>3, KindWeights
  <1>5. /\ \A w : Weight(UpdateF(w), back) \in Nat /\ Weight(ResetF(w), back) \in Nat
        /\ Weight(SettingsF, back) \in Nat
    BY <1>2, BackwardQueue
  <1>6. /\ back' \in Seq(Backward)
        /\ \A w : /\ Weight(UpdateF(w), back') = Weight(UpdateF(w), back) + UpdateF(w)[m]
                  /\ Weight(ResetF(w), back') = Weight(ResetF(w), back) + ResetF(w)[m]
        /\ Weight(SettingsF, back') = Weight(SettingsF, back) + SettingsF[m]
    BY <1>1, <1>2, <1>3, BackwardAppend
  <1>7. /\ \A w : Weight(UpdateF(w), back') = Weight(UpdateF(w), back)
        /\ Weight(SettingsF, back') = Weight(SettingsF, back)
        /\ \A w : w # m.w => Weight(ResetF(w), back') = Weight(ResetF(w), back)
                             /\ Weight(ResetF(w), ob') = Weight(ResetF(w), ob)
    BY <1>3, <1>4, <1>5, <1>6
  <1>8. /\ state' \in [Streams -> {"OPEN", "CLOSING", "CLOSED"}]
        /\ \A x \in Streams : state'[x] = "OPEN" => state[x] = "OPEN" /\ x # m.w
    BY <1>1, <1>2, <1>3
  <1>9. NoneOpened /\ \A w \in Windows : Live(w)' => Live(w)
    BY <1>8, WindowFacts DEF NoneOpened, Live
  <1>10. Types'
    <2>1. /\ ob' \in Seq(Backward) /\ back' \in Seq(Backward)
          /\ state' \in [Streams -> {"OPEN", "CLOSING", "CLOSED"}]
      BY <1>3, <1>6, <1>8
    <2>2. UNCHANGED <<sender, auto, win, initialL, inflight, urgent, held,
                      granted, received, fwd>>
      BY <1>1
    <2>. QED
      BY <1>0, <2>1, <2>2 DEF Types, TypeOK, sender
  <1>11. ReceiverAccount' /\ UpdateAccount'
    BY <1>1, <1>3, <1>7, <1>9 DEF IndInv, ReceiverAccount, UpdateAccount, Credit, Base, sender
  <1>12. ResetAccount'
    BY <1>1, <1>7, <1>8 DEF IndInv, ResetAccount, sender
  <1>13. SettingsAccount'
    BY <1>1, <1>7 DEF IndInv, SettingsAccount, sender
  <1>. QED
    BY <1>1, <1>9, <1>10, <1>11, <1>12, <1>13, Frames DEF IndInv, sender

(* The types after a step of the receiver. *)
LEMMA ReceiverTypes ==
  ASSUME Types, UNCHANGED <<sender, auto>>, initialL' \in Nat,
         win' \in [Windows -> WinRec], granted' \in [Windows -> Nat],
         received' \in [Windows -> Nat], held' \in [Streams -> Nat],
         state' \in [Streams -> {"OPEN", "CLOSING", "CLOSED"}],
         inflight' \in Seq(Nat), urgent' \in Seq(Nat),
         fwd' \in Seq(Forward), ob' \in Seq(Backward), back' \in Seq(Backward)
  PROVE  Types'
  <1>1. TypeOK'
    BY SMTT(30) DEF Types, TypeOK, sender, WinRec
  <1>. QED
    BY <1>1 DEF Types, sender

-----------------------------------------------------------------------------
(* What the calls of the application and DATA that is dropped make of a     *)
(* window.                                                                  *)
Ignored(w, n) == IF auto THEN update_recv(w, n, TRUE)
                 ELSE session_update_consumed_size(update_recv(w, n, TRUE).win, n)

Submitted(w, delta) ==
  LET r == Increase(w, delta)
      v == [r.win EXCEPT !.queued = TRUE, !.consumed = Greater(0, @ - r.inc)]
  IN  CASE delta < 0 -> Silent(Decrease(w, delta))
        [] delta >= 0 /\ r.inc > 0 -> [win |-> v, inc |-> r.inc]
        [] delta >= 0 /\ r.inc <= 0 -> r

Sized(w, size) ==
  LET delta == size - w.local
      r == nghttp2_increase_local_window_size(w, delta)
      checks == delta > 0 /\ r.inc = 0
  IN  CASE delta < 0 -> Silent(Decrease(w, delta))
        [] delta >= 0 /\ ~checks -> [r EXCEPT !.win.queued = TRUE]
        [] checks -> update_recv(r.win, 0, TRUE)

(* Dropped DATA counts, and its bytes are given back as soon as they may. *)
LEMMA IgnoredFacts ==
  ASSUME NEW w \in WinRec, NEW n \in Nat
  PROVE  Balanced(w, n, Ignored(w, n)) /\ Ignored(w, n).win.local = w.local
  <1>. DEFINE c == update_recv(w, n, TRUE)
              d == session_update_consumed_size(c.win, n)
  <1>1. Balanced(w, n, c) /\ c.win.local = w.local
    BY UpdateRecvFacts
  <1>2. CASE auto
    BY <1>1, <1>2 DEF Ignored
  <1>3. CASE ~auto
    <2>1. Credit(w) \in Int
      BY WinFields DEF Credit
    <2>2. c.win \in WinRec /\ c.inc = 0 /\ Credit(c.win) = Credit(w) - n
      <3>1. c = Silent([w EXCEPT !.recv = w.recv + n])
        BY <1>3 DEF update_recv
      <3>. HIDE DEF c
      <3>2. c.inc = 0
        BY <3>1 DEF Silent
      <3>. QED
        BY <1>1, <2>1, <3>2 DEF Balanced
    <2>3. Balanced(c.win, 0, d) /\ d.win.local = c.win.local
      BY <2>2, ConsumedFacts
    <2>4. Ignored(w, n) = d
      BY <1>3 DEF Ignored
    <2>. HIDE DEF c, d
    <2>. QED
      BY <1>1, <2>1, <2>2, <2>3, <2>4 DEF Balanced
  <1>. QED
    BY <1>2, <1>3

(* nghttp2_submit_window_update lowers the window or was checked before. *)
LEMMA SubmittedFacts ==
  ASSUME NEW w \in WinRec, NEW delta \in Int,
         delta < 0 \/ Increase(w, delta).win.local <= MaxWindow
  PROVE  /\ Balanced(w, 0, Submitted(w, delta))
         /\ \/ Submitted(w, delta).win.local <= w.local
            \/ Submitted(w, delta).win.local <= MaxWindow
  <1>. DEFINE r == Increase(w, delta)
              u == [r.win EXCEPT !.queued = TRUE, !.consumed = Greater(0, @ - r.inc)]
              d == Silent(Decrease(w, delta))
              x == CASE delta < 0 -> d
                     [] delta >= 0 /\ r.inc > 0 -> [win |-> u, inc |-> r.inc]
                     [] delta >= 0 /\ r.inc <= 0 -> r
  <1>0. Submitted(w, delta) = x
    BY DEF Submitted
  <1>1. CASE delta < 0
    <2>1. Balanced(w, 0, d) /\ d.win.local = w.local + delta
      BY <1>1, DecreaseFacts
    <2>2. x = d
      BY <1>1
    <2>. HIDE DEF d, x
    <2>. QED
      BY <1>0, <1>1, <2>1, <2>2, WinFields
  <1>2. CASE ~(delta < 0)
    <2>1. Balanced(w, 0, r) /\ delta \in Nat
      BY <1>2, IncreaseFacts
    <2>2. r.win \in WinRec /\ r.inc \in Nat /\ r.win.local <= MaxWindow
      BY <1>2, <2>1 DEF Balanced
    <2>. HIDE DEF r
    <2>3. CASE r.inc > 0
      <3>1. Greater(0, r.win.consumed - r.inc) \in Nat
        BY <2>2, WinFields DEF Greater
      <3>2. u \in WinRec /\ u.local = r.win.local /\ u.recv = r.win.recv
        BY <2>2, <3>1, Zenon DEF WinRec
      <3>. HIDE DEF u
      <3>3. ~(delta < 0) /\ delta >= 0 /\ r.inc > 0 /\ ~(r.inc <= 0)
        BY <2>1, <2>2, <2>3
      <3>4. x = [win |-> u, inc |-> r.inc]
        BY <3>3, Zenon
      <3>. HIDE DEF x
      <3>5. x.win = u /\ x.inc = r.inc
        BY <3>4
      <3>. QED
        BY <1>0, <2>1, <2>2, <3>2, <3>5 DEF Balanced, Credit
    <2>4. CASE ~(r.inc > 0)
      <3>1. x = r
        BY <1>2, <2>1, <2>2, <2>4
      <3>. HIDE DEF x
      <3>. QED
        BY <1>0, <2>1, <2>2, <3>1
    <2>. QED
      BY <2>3, <2>4
  <1>. QED
    BY <1>1, <1>2

(* nghttp2_session_set_local_window_size makes the window what was asked. *)
LEMMA SizedFacts ==
  ASSUME NEW w \in WinRec, NEW size \in Nat, size # w.local
  PROVE  /\ Balanced(w, 0, Sized(w, size)) /\ Sized(w, size).win.local = size
         /\ size - w.local > 0 =>
              /\ nghttp2_increase_local_window_size(w, size - w.local).win \in WinRec
              /\ nghttp2_increase_local_window_size(w, size - w.local).win.local = size
  <1>. DEFINE delta == size - w.local
              r == nghttp2_increase_local_window_size(w, delta)
              checks == delta > 0 /\ r.inc = 0
              e == [r EXCEPT !.win.queued = TRUE]
              d == Silent(Decrease(w, delta))
              a == update_recv(r.win, 0, TRUE)
              x == CASE delta < 0 -> d
                     [] delta >= 0 /\ ~checks -> e
                     [] checks -> a
  <1>0. Sized(w, size) = x
    BY DEF Sized
  <1>1. /\ delta \in Int /\ w.local \in Int /\ w.local + delta = size /\ delta # 0
        /\ size - w.local = delta
    BY WinFields
  <1>. HIDE DEF delta
  <1>2. delta > 0 => Balanced(w, 0, r) /\ r.win.local = w.local + delta
    <2>1. delta > 0 => delta \in Nat
      BY <1>1
    <2>. QED
      BY <2>1, IncreaseLocalFacts, Zenon
  <1>3. Balanced(w, 0, x) /\ x.win.local = size
    <2>1. CASE delta < 0
      <3>1. Balanced(w, 0, d) /\ d.win.local = w.local + delta
        BY <1>1, <2>1, DecreaseFacts
      <3>2. x = d
        <4>1. delta < 0 /\ ~(delta >= 0) /\ ~checks
          BY <1>1, <2>1
        <4>. HIDE DEF e, d, a, checks
        <4>. QED
          BY <4>1, Zenon
      <3>. HIDE DEF d, x
      <3>. QED
        BY <1>1, <3>1, <3>2
    <2>2. CASE ~(delta < 0) /\ ~checks
      <3>0. delta > 0
        BY <1>1, <2>2
      <3>. HIDE DEF r
      <3>1. Balanced(w, 0, r) /\ r.win.local = size /\ r.win \in WinRec /\ r.inc \in Nat
        BY <1>1, <1>2, <3>0 DEF Balanced
      <3>. DEFINE u == [r.win EXCEPT !.queued = TRUE]
      <3>2. u \in WinRec /\ u.local = r.win.local /\ u.recv = r.win.recv
        BY <3>1, Zenon DEF WinRec
      <3>3. r = [win |-> r.win, inc |-> r.inc]
        BY Zenon DEF r, nghttp2_increase_local_window_size
      <3>4. e.win = u /\ e.inc = r.inc
        <4>1. e = [r EXCEPT !.win = u]
          BY <3>3, Zenon
        <4>. HIDE DEF u, e
        <4>. QED
          BY <3>3, <4>1
      <3>5. x = e
        <4>1. ~(delta < 0) /\ delta >= 0
          BY <1>1, <2>2
        <4>. HIDE DEF e, d, a, checks
        <4>. QED
          BY <2>2, <4>1
      <3>. HIDE DEF u, x, e
      <3>. QED
        BY <3>1, <3>2, <3>4, <3>5 DEF Balanced, Credit
    <2>3. CASE checks
      <3>1. Balanced(w, 0, r) /\ r.win.local = size /\ r.inc = 0 /\ r.win \in WinRec
        BY <1>1, <1>2, <2>3 DEF Balanced
      <3>2. ~(delta < 0)
        BY <1>1, <2>3
      <3>. HIDE DEF r
      <3>3. Balanced(r.win, 0, a) /\ a.win.local = r.win.local
        BY <3>1, UpdateRecvFacts, 0 \in Nat, Zenon
      <3>4. x = a
        <4>. HIDE DEF e, d, a, checks
        <4>. QED
          BY <2>3, <3>2
      <3>5. Credit(w) \in Int
        BY WinFields DEF Credit
      <3>. HIDE DEF a, x
      <3>. QED
        BY <3>1, <3>3, <3>4, <3>5 DEF Balanced
    <2>. QED
      BY <2>1, <2>2, <2>3
  <1>4. delta > 0 => r.win \in WinRec /\ r.win.local = size
    BY <1>1, <1>2 DEF Balanced
  <1>. HIDE DEF x, r
  <1>. QED
    BY <1>0, <1>1, <1>3, <1>4, Zenon DEF r
-----------------------------------------------------------------------------
(* DATA of a stream that was reset counts on the connection alone. *)
LEMMA IgnoreDataInv ==
  ASSUME IndInv, ~error, NEW n, IgnoreData(n)
  PROVE  IndInv'
  <1>. DEFINE r == Ignored(win[Conn], n)
              s == Head(fwd).s
  <1>0. Types
    BY DEF IndInv
  <1>1. /\ Comes(n) /\ ~Reads /\ Change(Conn, r)
        /\ received' = [received EXCEPT ![Conn] = @ + n] /\ fwd' = Rest(n, FALSE)
        /\ UNCHANGED <<sender, auto, initialL, inflight, urgent, state, ended, refused,
                       held, calls, back>>
    BY DEF IgnoreData, Ignored
  <1>2. /\ n \in Nat /\ s \in Streams /\ fwd' \in Seq(Forward)
        /\ Weight(AckF, fwd') = Weight(AckF, fwd)
        /\ \A w : /\ Weight(DataF(w), fwd') \in Nat
                  /\ Weight(DataF(w), fwd) = Weight(DataF(w), fwd') +
                       (IF w = Conn \/ w = s THEN n ELSE 0)
    BY <1>0, <1>1, RestFacts
  <1>3. state[s] # "OPEN" /\ NoneOpened
    BY <1>1 DEF Reads, NoneOpened
  <1>. HIDE DEF s
  <1>4. Conn \in Windows /\ win[Conn] \in WinRec /\ received \in [Windows -> Nat]
    BY <1>0, TypeFacts, WindowFacts
  <1>5. Balanced(win[Conn], n, r) /\ r.win.local = win[Conn].local
    BY <1>2, <1>4, IgnoredFacts
  <1>. HIDE DEF r
  <1>6. \A w \in Windows : received'[w] = IF w = Conn THEN received[w] + n ELSE received[w]
    BY <1>1, <1>4
  <1>7. /\ win' \in [Windows -> WinRec] /\ granted' \in [Windows -> Nat]
        /\ ob' \in Seq(Backward) /\ win' = [win EXCEPT ![Conn] = r.win]
        /\ ReceiverAccount' /\ UpdateAccount' /\ ResetAccount'
    <2>1. UNCHANGED <<initialL, applied, back, gone>>
      BY <1>1 DEF sender
    <2>. QED
      BY <1>1, <1>2, <1>3, <1>4, <1>5, <1>6, <2>1, ChangeBooks
  <1>8. Types'
    <2>1. received' \in [Windows -> Nat]
      BY <1>1, <1>2, <1>4
    <2>2. UNCHANGED <<sender, auto, initialL, inflight, urgent, state, held, back>>
      BY <1>1
    <2>3. /\ win' \in [Windows -> WinRec] /\ granted' \in [Windows -> Nat]
          /\ ob' \in Seq(Backward) /\ fwd' \in Seq(Forward)
      BY <1>2, <1>7
    <2>. QED
      BY <1>0, <2>1, <2>2, <2>3, SMTT(30) DEF Types, TypeOK, sender, WinRec
  <1>9. DataAccount'
    <2>. SUFFICES ASSUME NEW w \in Windows
                  PROVE  /\ received'[w] + Weight(DataF(w), fwd') <= sent[w]
                         /\ Live(w) => sent[w] = received'[w] + Weight(DataF(w), fwd')
      BY <1>1 DEF DataAccount, sender, Live
    <2>1. Live(w) => w # s
      BY <1>2, <1>3, WindowFacts DEF Live
    <2>2. /\ received[w] + Weight(DataF(w), fwd) <= sent[w]
          /\ Live(w) => sent[w] = received[w] + Weight(DataF(w), fwd)
      BY DEF IndInv, DataAccount
    <2>3. received[w] \in Nat /\ sent[w] \in Nat
      BY <1>0, <1>4, TypeFacts
    <2>4. CASE w = Conn
      BY <1>2, <1>6, <2>2, <2>3, <2>4
    <2>5. CASE w # Conn
      BY <1>2, <1>6, <2>1, <2>2, <2>3, <2>5
    <2>. QED
      BY <2>4, <2>5
  <1>10. SettingsAccount'
    BY <1>1, <1>2 DEF IndInv, SettingsAccount, sender
  <1>11. LocalBound'
    <2>1. win'[Conn] = r.win
      BY <1>0, <1>4, <1>7, TypeFacts
    <2>. QED
      BY <1>5, <2>1 DEF IndInv, LocalBound
  <1>. QED
    BY <1>1, <1>3, <1>7, <1>8, <1>9, <1>10, <1>11, Frames DEF IndInv, sender

(* nghttp2_submit_window_update keeps the books. *)
LEMMA SubmitWindowUpdateInv ==
  ASSUME IndInv, ~error, NEW v \in Windows, NEW delta \in Int, SubmitWindowUpdate(v, delta)
  PROVE  IndInv'
  <1>. DEFINE x == Submitted(win[v], delta)
  <1>0. Types
    BY DEF IndInv
  <1>1. /\ Change(v, x)
        /\ delta < 0 \/ Increase(win[v], delta).win.local <= MaxWindow
        /\ UNCHANGED <<sender, auto, initialL, inflight, urgent, state, ended, refused,
                       held, received, fwd, back, error>>
    BY DEF SubmitWindowUpdate, Submitted
  <1>2. win[v] \in WinRec /\ win \in [Windows -> WinRec] /\ received \in [Windows -> Nat]
    BY <1>0, TypeFacts
  <1>3. Balanced(win[v], 0, x) /\ (x.win.local <= win[v].local \/ x.win.local <= MaxWindow)
    BY <1>1, <1>2, SubmittedFacts
  <1>. HIDE DEF x
  <1>4. \A w \in Windows : received'[w] = IF w = v THEN received[w] + 0 ELSE received[w]
    BY <1>1, <1>2
  <1>5. NoneOpened /\ UNCHANGED <<initialL, applied, back, gone>>
    BY <1>1 DEF NoneOpened, sender
  <1>6. /\ win' \in [Windows -> WinRec] /\ granted' \in [Windows -> Nat]
        /\ ob' \in Seq(Backward) /\ win' = [win EXCEPT ![v] = x.win]
        /\ ReceiverAccount' /\ UpdateAccount' /\ ResetAccount'
    BY <1>1, <1>3, <1>4, <1>5, ChangeBooks
  <1>7. Types'
    <2>1. UNCHANGED <<sender, auto, initialL, inflight, urgent, state, held, received, fwd, back>>
      BY <1>1
    <2>2. /\ win' \in [Windows -> WinRec] /\ granted' \in [Windows -> Nat]
          /\ ob' \in Seq(Backward)
      BY <1>6
    <2>. QED
      BY <1>0, <2>1, <2>2, TypeFacts, ReceiverTypes
  <1>8. LocalBound'
    <2>1. win[Conn].local \in Int /\ win[Conn].local <= MaxWindow /\ MaxWindow \in Nat
      BY <1>2, WinFields, WindowFacts, BoundsAssumption DEF IndInv, LocalBound
    <2>2. x.win.local \in Int
      BY <1>3, WinFields DEF Balanced
    <2>3. win'[Conn] = IF v = Conn THEN x.win ELSE win[Conn]
      BY <1>2, <1>6, WindowFacts
    <2>. QED
      BY <1>3, <2>1, <2>2, <2>3 DEF LocalBound
  <1>. QED
    BY <1>1, <1>5, <1>6, <1>7, <1>8, Frames DEF IndInv, sender

(* The session resets a stream by itself: its window no longer counts. *)
LEMMA RefuseBooks ==
  ASSUME IndInv, ~error, UNCHANGED <<initialL, applied, received, gone>>,
         NEW s \in Streams, NEW v \in WinRec, NEW q \in Seq(Backward), Refuse(s, v, q),
         back' \in Seq(Backward),
         \A w : /\ Weight(UpdateF(w), q) + Weight(UpdateF(w), back')
                     = Weight(UpdateF(w), ob) + Weight(UpdateF(w), back)
                /\ Weight(ResetF(w), q) = Weight(ResetF(w), ob)
                /\ Weight(ResetF(w), back') = Weight(ResetF(w), back)
  PROVE  /\ win' \in [Windows -> WinRec] /\ win'[Conn] = win[Conn]
         /\ ob' \in Seq(Backward) /\ granted' \in [Windows -> Nat]
         /\ state' \in [Streams -> {"OPEN", "CLOSING", "CLOSED"}]
         /\ NoneOpened /\ ReceiverAccount' /\ UpdateAccount' /\ ResetAccount'
  <1>. DEFINE p == Append(q, RstStream(s))
  <1>0. Types
    BY DEF IndInv
  <1>1. /\ win \in [Windows -> WinRec] /\ granted \in [Windows -> Nat]
        /\ state \in [Streams -> {"OPEN", "CLOSING", "CLOSED"}]
    BY <1>0, TypeFacts
  <1>2. /\ win' = [win EXCEPT ![s] = v] /\ state' = [state EXCEPT ![s] = "CLOSING"]
        /\ ob' = q \/ ob' = p
        /\ granted' = granted
    BY DEF Refuse
  <1>3. /\ p \in Seq(Backward)
        /\ \A w : /\ Weight(UpdateF(w), p) = Weight(UpdateF(w), q)
                  /\ w # s => Weight(ResetF(w), p) = Weight(ResetF(w), q)
    BY ResetFacts
  <1>. HIDE DEF p
  <1>4. /\ ob' \in Seq(Backward)
        /\ \A w : /\ Weight(UpdateF(w), ob') = Weight(UpdateF(w), q)
                  /\ w # s => Weight(ResetF(w), ob') = Weight(ResetF(w), q)
    BY <1>2, <1>3
  <1>5. /\ win' \in [Windows -> WinRec] /\ \A w \in Windows : w # s => win'[w] = win[w]
        /\ state' \in [Streams -> {"OPEN", "CLOSING", "CLOSED"}]
        /\ \A x \in Streams : state'[x] = "OPEN" => state[x] = "OPEN" /\ x # s
    BY <1>1, <1>2
  <1>6. NoneOpened /\ \A w \in Windows : Live(w)' => Live(w) /\ w # s
    BY <1>5, WindowFacts DEF NoneOpened, Live
  <1>7. ReceiverAccount'
    <2>. SUFFICES ASSUME NEW w \in Windows, Live(w)'
                  PROVE  Credit(win'[w]) = Base(w, initialL) + granted[w] - received[w]
      BY <1>2 DEF ReceiverAccount, Base, Credit
    <2>1. Live(w) /\ win'[w] = win[w]
      BY <1>5, <1>6
    <2>. QED
      BY <2>1 DEF IndInv, ReceiverAccount
  <1>8. UpdateAccount'
    <2>. SUFFICES ASSUME NEW w \in Windows
                  PROVE  /\ applied[w] + Weight(UpdateF(w), ob')
                              + Weight(UpdateF(w), back') <= granted[w]
                         /\ Live(w)' => granted[w] = applied[w] + Weight(UpdateF(w), ob')
                                                      + Weight(UpdateF(w), back')
      BY <1>2 DEF UpdateAccount
    <2>1. /\ applied[w] + Weight(UpdateF(w), ob) + Weight(UpdateF(w), back) <= granted[w]
          /\ Live(w)' =>
               granted[w] = applied[w] + Weight(UpdateF(w), ob) + Weight(UpdateF(w), back)
      BY <1>6 DEF IndInv, UpdateAccount
    <2>2. Weight(UpdateF(w), ob') + Weight(UpdateF(w), back')
            = Weight(UpdateF(w), ob) + Weight(UpdateF(w), back)
      BY <1>4
    <2>3. /\ Weight(UpdateF(w), ob) \in Nat /\ Weight(UpdateF(w), back) \in Nat
          /\ Weight(UpdateF(w), ob') \in Nat /\ Weight(UpdateF(w), back') \in Nat
          /\ applied[w] \in Nat /\ granted[w] \in Nat
      BY <1>0, <1>4, TypeFacts, BackwardQueue
    <2>. QED
      <3>. DEFINE a == applied[w]
                  x == Weight(UpdateF(w), ob)
                  y == Weight(UpdateF(w), back)
                  z == Weight(UpdateF(w), ob')
                  b == Weight(UpdateF(w), back')
      <3>1. a \in Nat /\ x \in Nat /\ y \in Nat /\ z \in Nat /\ b \in Nat /\ z + b = x + y
        BY <2>2, <2>3
      <3>2. a + x + y <= granted[w] /\ (Live(w)' => granted[w] = a + x + y)
        BY <2>1
      <3>. HIDE DEF a, x, y, z, b
      <3>3. a + z + b = a + x + y
        BY ONLY <3>1
      <3>4. a + z + b <= granted[w] /\ (Live(w)' => granted[w] = a + z + b)
        BY ONLY <3>2, <3>3
      <3>. QED
        BY <3>4 DEF a, z, b
  <1>9. ResetAccount'
    BY <1>4, <1>5 DEF IndInv, ResetAccount
  <1>. QED
    BY <1>1, <1>2, <1>4, <1>5, <1>6, <1>7, <1>8, <1>9, WindowFacts

(* nghttp2_session_set_local_window_size keeps the books. *)
LEMMA SetLocalWindowSizeInv ==
  ASSUME IndInv, ~error, NEW v \in Windows, NEW size \in 0..MaxWindow,
         SetLocalWindowSize(v, size)
  PROVE  IndInv'
  <1>. DEFINE delta == size - win[v].local
              r == nghttp2_increase_local_window_size(win[v], delta)
              checks == delta > 0 /\ r.inc = 0
              x == Sized(win[v], size)
              refuses == v # Conn /\ checks /\ Exceeds(r.win, 0)
  <1>0. Types
    BY DEF IndInv
  <1>1. /\ delta # 0
        /\ IF refuses THEN Refuse(v, r.win, ob)
           ELSE Change(v, x) /\ UNCHANGED <<state, refused>>
        /\ UNCHANGED <<sender, auto, initialL, inflight, urgent, ended, held, received, fwd, back>>
    BY DEF SetLocalWindowSize, Sized
  <1>2. /\ win[v] \in WinRec /\ win \in [Windows -> WinRec] /\ received \in [Windows -> Nat]
        /\ ob \in Seq(Backward) /\ back \in Seq(Backward)
        /\ granted \in [Windows -> Nat]
        /\ state \in [Streams -> {"OPEN", "CLOSING", "CLOSED"}]
        /\ held \in [Streams -> Nat] /\ initialL \in Nat
        /\ inflight \in Seq(Nat) /\ urgent \in Seq(Nat) /\ fwd \in Seq(Forward)
    BY <1>0, TypeFacts
  <1>3. size \in Nat /\ size <= MaxWindow /\ size # win[v].local
    BY <1>1, <1>2, WinFields, BoundsAssumption
  <1>4. /\ Balanced(win[v], 0, x) /\ x.win.local = size
        /\ delta > 0 => r.win \in WinRec
    BY <1>2, <1>3, SizedFacts
  <1>. HIDE DEF x, r
  <1>5. UNCHANGED <<initialL, applied, back, gone, received>>
    BY <1>1 DEF sender
  <1>6. /\ win' \in [Windows -> WinRec] /\ granted' \in [Windows -> Nat]
        /\ ob' \in Seq(Backward) /\ win'[Conn].local <= MaxWindow
        /\ state' \in [Streams -> {"OPEN", "CLOSING", "CLOSED"}]
        /\ NoneOpened /\ ReceiverAccount' /\ UpdateAccount' /\ ResetAccount'
    <2>1. CASE refuses
      <3>1. Refuse(v, r.win, ob) /\ r.win \in WinRec /\ v \in Streams
        BY <1>1, <1>4, <2>1, WindowFacts
      <3>2. /\ win' \in [Windows -> WinRec] /\ win'[Conn] = win[Conn]
            /\ ob' \in Seq(Backward) /\ granted' \in [Windows -> Nat]
            /\ state' \in [Streams -> {"OPEN", "CLOSING", "CLOSED"}]
            /\ NoneOpened /\ ReceiverAccount' /\ UpdateAccount' /\ ResetAccount'
        BY ONLY IndInv, ~error, <1>2, <1>5, <3>1, RefuseBooks
      <3>. QED
        BY <3>2 DEF IndInv, LocalBound
    <2>2. CASE ~refuses
      <3>1. Change(v, x) /\ UNCHANGED state /\ NoneOpened
        BY <1>1, <2>2 DEF NoneOpened
      <3>2. \A w \in Windows : received'[w] = IF w = v THEN received[w] + 0 ELSE received[w]
        BY <1>1, <1>2
      <3>4. /\ win' \in [Windows -> WinRec] /\ granted' \in [Windows -> Nat]
            /\ ob' \in Seq(Backward) /\ win' = [win EXCEPT ![v] = x.win]
            /\ ReceiverAccount' /\ UpdateAccount' /\ ResetAccount'
        BY <1>4, <1>5, <3>1, <3>2, ChangeBooks
      <3>5. win'[Conn].local <= MaxWindow
        <4>1. win'[Conn] = IF v = Conn THEN x.win ELSE win[Conn]
          BY <1>2, <3>4, WindowFacts
        <4>. QED
          BY <1>3, <1>4, <4>1 DEF IndInv, LocalBound
      <3>. QED
        BY <1>2, <3>1, <3>4, <3>5
    <2>. QED
      BY <2>1, <2>2
  <1>7. Types'
    <2>1. UNCHANGED <<sender, auto, initialL, inflight, urgent, held, received, fwd, back>>
      BY <1>1
    <2>. QED
      BY <1>0, <1>2, <1>6, <2>1, ReceiverTypes
  <1>. QED
    BY <1>1, <1>6, <1>7, Frames DEF IndInv, sender, LocalBound

(* Two entries of an account go up. *)
LEMMA TwoAdded ==
  ASSUME NEW S, NEW f \in [S -> Nat], NEW a \in S, NEW b \in S, a # b,
         NEW i \in Nat, NEW j \in Nat
  PROVE  /\ [f EXCEPT ![a] = @ + i, ![b] = @ + j] \in [S -> Nat]
         /\ \A w \in S : [f EXCEPT ![a] = @ + i, ![b] = @ + j][w]
                          = IF w = a THEN f[w] + i ELSE IF w = b THEN f[w] + j ELSE f[w]
  <1>. DEFINE g == [w \in S |-> IF w = a THEN f[w] + i ELSE IF w = b THEN f[w] + j ELSE f[w]]
  <1>1. [f EXCEPT ![a] = @ + i, ![b] = @ + j] = g
    BY Zenon
  <1>2. g \in [S -> Nat]
    OBVIOUS
  <1>. QED
    BY <1>1, <1>2, Zenon

(* The connection and a stream change together, in balance. *)
LEMMA TwoBooks ==
  ASSUME IndInv, ~error, NoneOpened, UNCHANGED <<initialL, applied, back, gone>>,
         NEW s \in Streams, NEW c, NEW x, NEW k \in Nat,
         win' = [win EXCEPT ![Conn] = c.win, ![s] = x.win],
         ob' = Announce(Announce(ob, Conn, c.inc), s, x.inc),
         granted' = [granted EXCEPT ![Conn] = @ + c.inc, ![s] = @ + x.inc],
         \A w \in Windows :
           received'[w] = IF w = Conn \/ w = s THEN received[w] + k ELSE received[w],
         Balanced(win[Conn], k, c), x.win \in WinRec, x.inc \in Nat,
         state[s] = "OPEN" /\ ~error' => Balanced(win[s], k, x)
  PROVE  /\ win' \in [Windows -> WinRec] /\ granted' \in [Windows -> Nat]
         /\ ob' \in Seq(Backward) /\ win'[Conn] = c.win
         /\ ReceiverAccount' /\ UpdateAccount' /\ ResetAccount'
  <1>. DEFINE inc == [w \in Windows |-> IF w = Conn THEN c.inc ELSE IF w = s THEN x.inc ELSE 0]
              n == [w \in Windows |-> IF w = Conn \/ w = s THEN k ELSE 0]
              a == Announce(ob, Conn, c.inc)
  <1>0. Types /\ Conn \in Windows /\ s \in Windows /\ s # Conn
    BY WindowFacts DEF IndInv
  <1>1. /\ win \in [Windows -> WinRec] /\ granted \in [Windows -> Nat]
        /\ received \in [Windows -> Nat]
        /\ ob \in Seq(Backward) /\ back \in Seq(Backward) /\ initialL \in Nat
    BY <1>0, TypeFacts
  <1>2. /\ c.win \in WinRec /\ c.inc \in Nat
        /\ Credit(c.win) = Credit(win[Conn]) - k + c.inc
    BY DEF Balanced
  <1>3. /\ a \in Seq(Backward)
        /\ \A w : /\ Weight(UpdateF(w), a) = Weight(UpdateF(w), ob)
                                               + (IF w = Conn THEN c.inc ELSE 0)
                  /\ Weight(ResetF(w), a) = Weight(ResetF(w), ob)
    BY ONLY <1>0, <1>1, <1>2, AnnounceFacts
  <1>. HIDE DEF a
  <1>4. /\ ob' \in Seq(Backward)
        /\ \A w : /\ Weight(UpdateF(w), ob') = Weight(UpdateF(w), a)
                                                 + (IF w = s THEN x.inc ELSE 0)
                  /\ Weight(ResetF(w), ob') = Weight(ResetF(w), a)
    <2>. DEFINE b == Announce(a, s, x.inc)
    <2>1. ob' = b
      BY DEF a
    <2>2. s \in Windows /\ x.inc \in Nat /\ a \in Seq(Backward)
      BY <1>0, <1>3
    <2>3. /\ b \in Seq(Backward)
          /\ \A w : /\ Weight(UpdateF(w), b) = Weight(UpdateF(w), a)
                                                 + (IF w = s THEN x.inc ELSE 0)
                    /\ Weight(ResetF(w), b) = Weight(ResetF(w), a)
      BY ONLY <2>2, AnnounceFacts
    <2>. HIDE DEF b
    <2>. QED
      BY <2>1, <2>3
  <1>5. /\ win' \in [Windows -> WinRec] /\ granted' \in [Windows -> Nat]
        /\ \A w \in Windows :
             /\ win'[w] = IF w = Conn THEN c.win ELSE IF w = s THEN x.win ELSE win[w]
             /\ granted'[w] = granted[w] +
                  IF w = Conn THEN c.inc ELSE IF w = s THEN x.inc ELSE 0
    <2>1. /\ win' = [win EXCEPT ![Conn] = c.win, ![s] = x.win]
          /\ granted' = [granted EXCEPT ![Conn] = @ + c.inc, ![s] = @ + x.inc]
          /\ x.win \in WinRec /\ x.inc \in Nat /\ c.win \in WinRec /\ c.inc \in Nat
      BY <1>2
    <2>2. /\ win' \in [Windows -> WinRec]
          /\ \A w \in Windows :
               win'[w] = IF w = Conn THEN c.win ELSE IF w = s THEN x.win ELSE win[w]
      BY ONLY <1>0, <1>1, <2>1
    <2>3. /\ granted' \in [Windows -> Nat]
          /\ \A w \in Windows :
               granted'[w] = IF w = Conn THEN granted[w] + c.inc
                             ELSE IF w = s THEN granted[w] + x.inc ELSE granted[w]
      <3>. DEFINE i == c.inc
                  j == x.inc
                  g == [granted EXCEPT ![Conn] = @ + i, ![s] = @ + j]
      <3>1. granted' = g /\ i \in Nat /\ j \in Nat
        BY <2>1
      <3>. HIDE DEF i, j
      <3>2. /\ g \in [Windows -> Nat]
            /\ \A w \in Windows : g[w] = IF w = Conn THEN granted[w] + i
                                          ELSE IF w = s THEN granted[w] + j ELSE granted[w]
        BY ONLY <1>0, <1>1, <3>1, TwoAdded, ZenonT(60)
      <3>. HIDE DEF g
      <3>. QED
        BY <3>1, <3>2 DEF i, j
    <2>4. \A w \in Windows : granted[w] \in Nat
      BY <1>1
    <2>. QED
      BY ONLY <2>1, <2>2, <2>3, <2>4
  <1>6. inc \in [Windows -> Nat] /\ n \in [Windows -> Nat]
    BY <1>2
  <1>7. \A w \in Windows :
          /\ inc[w] = IF w = Conn THEN c.inc ELSE IF w = s THEN x.inc ELSE 0
          /\ n[w] = IF w = Conn \/ w = s THEN k ELSE 0
    OBVIOUS
  <1>. HIDE DEF inc, n
  <1>8. ASSUME NEW w \in Windows
        PROVE  /\ granted'[w] = granted[w] + inc[w] /\ received'[w] = received[w] + n[w]
               /\ Live(w)' /\ ~error' =>
                    Credit(win'[w]) = Credit(win[w]) - n[w] + inc[w]
                                        + (Base(w, initialL') - Base(w, initialL))
               /\ Weight(UpdateF(w), ob') + Weight(UpdateF(w), back')
                    = Weight(UpdateF(w), ob) + Weight(UpdateF(w), back) + inc[w]
    <2>1. /\ granted[w] \in Nat /\ received[w] \in Nat /\ inc[w] \in Nat /\ n[w] \in Nat
      BY <1>1, <1>6
    <2>2. Base(w, initialL') - Base(w, initialL) = 0
      BY <1>1, BoundsAssumption DEF Base
    <2>3. Credit(win[w]) \in Int
      BY <1>1, WinFields DEF Credit
    <2>4. Weight(UpdateF(w), ob) \in Nat /\ Weight(UpdateF(w), back) \in Nat
      BY <1>1, BackwardQueue
    <2>5. Weight(UpdateF(w), ob') = Weight(UpdateF(w), ob) + inc[w]
      <3>1. /\ Weight(UpdateF(w), a) = Weight(UpdateF(w), ob) + (IF w = Conn THEN c.inc ELSE 0)
            /\ Weight(UpdateF(w), ob') = Weight(UpdateF(w), a) + (IF w = s THEN x.inc ELSE 0)
            /\ inc[w] = IF w = Conn THEN c.inc ELSE IF w = s THEN x.inc ELSE 0
            /\ c.inc \in Nat /\ x.inc \in Nat
        BY <1>2, <1>3, <1>4, <1>7
      <3>. QED
        BY ONLY <1>0, <2>4, <3>1
    <2>6. received'[w] = received[w] + n[w]
      BY <1>7, <2>1
    <2>7. ASSUME Live(w)', ~error'
          PROVE  Credit(win'[w]) = Credit(win[w]) - n[w] + inc[w]
      <3>1. CASE w = Conn
        <4>1. win'[w] = c.win /\ n[w] = k /\ inc[w] = c.inc
          BY <1>5, <1>7, <3>1
        <4>. QED
          BY <1>2, <3>1, <4>1
      <3>2. CASE w = s
        <4>1. win'[w] = x.win /\ n[w] = k /\ inc[w] = x.inc
          BY <1>0, <1>5, <1>7, <3>2
        <4>2. state[s] = "OPEN"
          BY <1>0, <2>7, <3>2 DEF Live, NoneOpened
        <4>. QED
          BY <2>7, <3>2, <4>1, <4>2 DEF Balanced
      <3>3. CASE w # Conn /\ w # s
        <4>1. win'[w] = win[w] /\ n[w] = 0 /\ inc[w] = 0
          BY <1>5, <1>7, <3>3
        <4>. QED
          BY <2>3, <4>1
      <3>. QED
        BY <3>1, <3>2, <3>3
    <2>8. Live(w)' /\ ~error' =>
            Credit(win'[w]) = Credit(win[w]) - n[w] + inc[w]
                                + (Base(w, initialL') - Base(w, initialL))
      BY <2>1, <2>2, <2>3, <2>7
    <2>9. granted'[w] = granted[w] + inc[w]
      BY <1>5, <1>7
    <2>10. Weight(UpdateF(w), ob') + Weight(UpdateF(w), back')
             = Weight(UpdateF(w), ob) + Weight(UpdateF(w), back) + inc[w]
      BY <2>1, <2>4, <2>5
    <2>. QED
      BY <2>6, <2>8, <2>9, <2>10
  <1>9. ReceiverAccount' /\ UpdateAccount'
    <2>1. initialL' \in Nat /\ back' \in Seq(Backward) /\ applied' = applied
      BY <1>1
    <2>2. /\ \A w \in Windows : /\ granted'[w] = granted[w] + inc[w]
                                /\ received'[w] = received[w] + n[w]
          /\ \A w \in Windows :
               Weight(UpdateF(w), ob') + Weight(UpdateF(w), back')
                 = Weight(UpdateF(w), ob) + Weight(UpdateF(w), back) + inc[w]
          /\ \A w \in Windows : Live(w)' /\ ~error' =>
               Credit(win'[w]) = Credit(win[w]) - n[w] + inc[w]
                                   + (Base(w, initialL') - Base(w, initialL))
      BY <1>8
    <2>. QED
      BY ONLY IndInv, ~error, NoneOpened, <1>4, <1>5, <1>6, <2>1, <2>2, Books
  <1>10. ResetAccount'
    BY <1>3, <1>4 DEF IndInv, ResetAccount, NoneOpened
  <1>. QED
    BY <1>0, <1>4, <1>5, <1>9, <1>10

(* DATA comes in: it counts on the connection and on its stream. *)
LEMMA RecvDataInv ==
  ASSUME IndInv, ~error, NEW n, RecvData(n)
  PROVE  IndInv'
  <1>. DEFINE s == Head(fwd).s
              last == Head(fwd).end /\ n = Head(fwd).len
              c == update_recv(win[Conn], n, TRUE)
              u == update_recv(win[s], n, ~last)
              x == IF Exceeds(win[s], n) THEN Silent(win[s]) ELSE u
  <1>0. Types
    BY DEF IndInv
  <1>1. /\ Comes(n) /\ fwd' = Rest(n, TRUE)
        /\ error' = (Exceeds(win[Conn], n) \/ (state[s] = "OPEN" /\ Exceeds(win[s], n)))
        /\ win' = [win EXCEPT ![Conn] = c.win, ![s] = x.win]
        /\ ob' = Announce(Announce(ob, Conn, c.inc), s, x.inc)
        /\ granted' = [granted EXCEPT ![Conn] = @ + c.inc, ![s] = @ + x.inc]
        /\ received' = [received EXCEPT ![Conn] = @ + n, ![s] = @ + n]
        /\ held' = [held EXCEPT ![s] = @ + n]
        /\ UNCHANGED <<sender, auto, initialL, inflight, urgent, state, refused, calls, back>>
    BY DEF RecvData
  <1>2. /\ n \in Nat /\ s \in Streams /\ fwd' \in Seq(Forward)
        /\ Weight(AckF, fwd') = Weight(AckF, fwd)
        /\ \A w : /\ Weight(DataF(w), fwd') \in Nat
                  /\ Weight(DataF(w), fwd) = Weight(DataF(w), fwd') +
                       (IF w = Conn \/ w = s THEN n ELSE 0)
    BY <1>0, <1>1, RestFacts
  <1>. HIDE DEF s, last
  <1>3. /\ Conn \in Windows /\ s \in Windows /\ s # Conn
        /\ win[Conn] \in WinRec /\ win[s] \in WinRec
        /\ received \in [Windows -> Nat] /\ held \in [Streams -> Nat]
        /\ initialL \in Nat /\ state \in [Streams -> {"OPEN", "CLOSING", "CLOSED"}]
        /\ inflight \in Seq(Nat) /\ urgent \in Seq(Nat) /\ back \in Seq(Backward)
    BY <1>0, <1>2, TypeFacts, WindowFacts
  <1>4. Balanced(win[Conn], n, c) /\ c.win.local = win[Conn].local
    BY <1>2, <1>3, UpdateRecvFacts
  <1>5. Balanced(win[s], n, u)
    BY <1>2, <1>3, UpdateRecvFacts
  <1>6. /\ x.win \in WinRec /\ x.inc \in Nat
        /\ state[s] = "OPEN" /\ ~error' => Balanced(win[s], n, x)
    <2>1. CASE Exceeds(win[s], n)
      <3>1. x = Silent(win[s])
        BY <2>1
      <3>2. x.win = win[s] /\ x.inc = 0
        BY <3>1 DEF Silent
      <3>3. state[s] = "OPEN" => error'
        BY <1>1, <2>1, Zenon
      <3>. QED
        BY <1>3, <3>2, <3>3
    <2>2. CASE ~Exceeds(win[s], n)
      <3>1. x = u
        BY <2>2
      <3>. HIDE DEF u, x
      <3>. QED
        BY <1>5, <3>1 DEF Balanced
    <2>. QED
      BY <2>1, <2>2
  <1>. HIDE DEF c, u, x
  <1>7. /\ received' \in [Windows -> Nat] /\ held' \in [Streams -> Nat]
        /\ \A w \in Windows :
             received'[w] = IF w = Conn \/ w = s THEN received[w] + n ELSE received[w]
    BY <1>1, <1>2, <1>3, SMTT(30)
  <1>8. NoneOpened /\ UNCHANGED <<initialL, applied, back, gone>>
    BY <1>1 DEF NoneOpened, sender
  <1>9. /\ win' \in [Windows -> WinRec] /\ granted' \in [Windows -> Nat]
        /\ ob' \in Seq(Backward) /\ win'[Conn] = c.win
        /\ ReceiverAccount' /\ UpdateAccount' /\ ResetAccount'
    BY <1>1, <1>2, <1>4, <1>6, <1>7, <1>8, TwoBooks
  <1>10. Types'
    <2>1. UNCHANGED <<sender, auto, initialL, inflight, urgent, state, back>>
      BY <1>1
    <2>. QED
      BY <1>0, <1>2, <1>3, <1>7, <1>9, <2>1, ReceiverTypes
  <1>11. DataAccount'
    <2>. SUFFICES ASSUME NEW w \in Windows
                  PROVE  /\ received'[w] + Weight(DataF(w), fwd') <= sent[w]
                         /\ Live(w) => sent[w] = received'[w] + Weight(DataF(w), fwd')
      BY <1>1 DEF DataAccount, sender, Live
    <2>1. /\ received[w] + Weight(DataF(w), fwd) <= sent[w]
          /\ Live(w) => sent[w] = received[w] + Weight(DataF(w), fwd)
      BY DEF IndInv, DataAccount
    <2>2. received[w] \in Nat /\ sent[w] \in Nat
      BY <1>0, <1>3, TypeFacts
    <2>3. CASE w = Conn \/ w = s
      BY <1>2, <1>7, <2>1, <2>2, <2>3
    <2>4. CASE ~(w = Conn \/ w = s)
      BY <1>2, <1>7, <2>1, <2>2, <2>4
    <2>. QED
      BY <2>3, <2>4
  <1>12. SettingsAccount'
    BY <1>1, <1>2 DEF IndInv, SettingsAccount, sender
  <1>13. LocalBound'
    BY <1>4, <1>9 DEF IndInv, LocalBound
  <1>. QED
    BY <1>1, <1>8, <1>9, <1>10, <1>11, <1>12, <1>13, Frames DEF IndInv, sender

(* The application consumes: credit may be given back. *)
LEMMA ConsumeInv ==
  ASSUME IndInv, ~error, NEW s \in Streams, NEW n \in Nat, Consume(s, n)
  PROVE  IndInv'
  <1>. DEFINE has == state[s] # "CLOSED"
              c == session_update_consumed_size(win[Conn], n)
              u == session_update_consumed_size(win[s], n)
              x == IF has THEN u ELSE Silent(win[s])
  <1>0. Types
    BY DEF IndInv
  <1>1. /\ n \in 1..held[s] /\ held' = [held EXCEPT ![s] = @ - n]
        /\ win' = [win EXCEPT ![Conn] = c.win, ![s] = IF has THEN u.win ELSE @]
        /\ ob' = Announce(Announce(ob, Conn, c.inc), s, IF has THEN u.inc ELSE 0)
        /\ granted' = [granted EXCEPT ![Conn] = @ + c.inc, ![s] = IF has THEN @ + u.inc ELSE @]
        /\ UNCHANGED <<sender, auto, initialL, inflight, urgent, state, ended, refused,
                       calls, received, fwd, back>>
    BY DEF Consume
  <1>2. /\ Conn \in Windows /\ s \in Windows /\ s # Conn
        /\ win \in [Windows -> WinRec] /\ granted \in [Windows -> Nat]
        /\ win[Conn] \in WinRec /\ win[s] \in WinRec
        /\ received \in [Windows -> Nat] /\ held \in [Streams -> Nat]
        /\ initialL \in Nat /\ state \in [Streams -> {"OPEN", "CLOSING", "CLOSED"}]
        /\ inflight \in Seq(Nat) /\ urgent \in Seq(Nat) /\ back \in Seq(Backward)
        /\ fwd \in Seq(Forward)
    BY <1>0, TypeFacts, WindowFacts
  <1>3. Balanced(win[Conn], 0, c) /\ c.win.local = win[Conn].local
    BY <1>2, ConsumedFacts
  <1>4. Balanced(win[s], 0, u)
    BY <1>2, ConsumedFacts
  <1>. HIDE DEF c, u
  <1>5. /\ x.win = (IF has THEN u.win ELSE win[s]) /\ x.inc = (IF has THEN u.inc ELSE 0)
        /\ x.win \in WinRec /\ x.inc \in Nat
        /\ state[s] = "OPEN" /\ ~error' => Balanced(win[s], 0, x)
    <2>1. CASE has
      <3>1. x = u
        BY <2>1
      <3>. QED
        BY <1>4, <2>1, <3>1 DEF Balanced
    <2>2. CASE ~has
      <3>1. x = Silent(win[s])
        BY <2>2
      <3>2. x.win = win[s] /\ x.inc = 0
        BY <3>1 DEF Silent
      <3>. QED
        BY <1>2, <2>2, <3>2
    <2>. QED
      BY <2>1, <2>2
  <1>. HIDE DEF x
  <1>6. /\ win' = [win EXCEPT ![Conn] = c.win, ![s] = x.win]
        /\ ob' = Announce(Announce(ob, Conn, c.inc), s, x.inc)
        /\ granted' = [granted EXCEPT ![Conn] = @ + c.inc, ![s] = @ + x.inc]
    <2>1. c.win \in WinRec /\ c.inc \in Nat
      BY <1>3 DEF Balanced
    <2>2. CASE has
      BY <1>1, <1>2, <1>5, <2>1, <2>2
    <2>3. CASE ~has
      <3>1. win' = [win EXCEPT ![Conn] = c.win, ![s] = win[s]]
        BY <1>1, <1>2, <2>3
      <3>2. granted' = [granted EXCEPT ![Conn] = @ + c.inc, ![s] = @ + 0]
        <4>. DEFINE i == c.inc
                    g == [granted EXCEPT ![Conn] = @ + i, ![s] = @ + 0]
        <4>1. granted' = [granted EXCEPT ![Conn] = @ + i, ![s] = @] /\ i \in Nat
          BY <1>1, <2>1, <2>3
        <4>. HIDE DEF i
        <4>2. granted' = [w \in Windows |-> IF w = Conn THEN granted[w] + i ELSE granted[w]]
          BY <1>2, <4>1, Zenon
        <4>3. /\ g \in [Windows -> Nat]
              /\ \A w \in Windows : g[w] = IF w = Conn THEN granted[w] + i
                                            ELSE IF w = s THEN granted[w] + 0 ELSE granted[w]
          BY ONLY <1>2, <4>1, TwoAdded, 0 \in Nat, ZenonT(60)
        <4>. HIDE DEF g
        <4>4. g = [w \in Windows |-> IF w = Conn THEN granted[w] + i ELSE granted[w]]
          <5>1. \A w \in Windows : g[w] = IF w = Conn THEN granted[w] + i ELSE granted[w]
            BY <1>2, <4>3
          <5>2. DOMAIN g = Windows /\ g = [w \in DOMAIN g |-> g[w]]
            BY <4>3, Zenon
          <5>. QED
            BY <5>1, <5>2, Zenon
        <4>. QED
          BY <4>2, <4>4 DEF g, i
      <3>. QED
        BY <1>1, <1>5, <2>3, <3>1, <3>2
    <2>. QED
      BY <2>2, <2>3
  <1>7. /\ held' \in [Streams -> Nat]
        /\ \A w \in Windows :
             received'[w] = IF w = Conn \/ w = s THEN received[w] + 0 ELSE received[w]
    <2>1. held[s] \in Nat
      BY <1>2
    <2>. QED
      BY <1>1, <1>2, <2>1
  <1>8. NoneOpened /\ UNCHANGED <<initialL, applied, back, gone>>
    BY <1>1 DEF NoneOpened, sender
  <1>9. /\ win' \in [Windows -> WinRec] /\ granted' \in [Windows -> Nat]
        /\ ob' \in Seq(Backward) /\ win'[Conn] = c.win
        /\ ReceiverAccount' /\ UpdateAccount' /\ ResetAccount'
    BY <1>3, <1>5, <1>6, <1>7, <1>8, TwoBooks
  <1>10. Types'
    <2>1. UNCHANGED <<sender, auto, initialL, inflight, urgent, state, received, fwd, back>>
      BY <1>1
    <2>. QED
      BY <1>0, <1>2, <1>7, <1>9, <2>1, ReceiverTypes
  <1>11. LocalBound'
    BY <1>3, <1>9 DEF IndInv, LocalBound
  <1>. QED
    BY <1>1, <1>8, <1>9, <1>10, <1>11, Frames DEF IndInv, sender

(* A finite set as a sequence: every element occurs exactly once. *)
LEMMA SetSequence ==
  ASSUME NEW S, IsFiniteSet(S)
  PROVE  /\ SetToSeq(S) \in Seq(S)
         /\ \A x \in S : \E i \in 1..Len(SetToSeq(S)) : SetToSeq(S)[i] = x
         /\ \A i, j \in 1..Len(SetToSeq(S)) : SetToSeq(S)[i] = SetToSeq(S)[j] => i = j
  <1>. DEFINE n == Cardinality(S)
              f == SetToSeq(S)
  <1>1. n \in Nat /\ ExistsBijection(1..n, S)
    BY FS_CardinalityType
  <1>2. \E g \in [1..n -> S] : IsInjective(g)
    BY <1>1, Zenon DEF ExistsBijection, Bijection, Injection
  <1>3. f \in [1..n -> S] /\ IsInjective(f)
    BY <1>2, Zenon DEF SetToSeq
  <1>. HIDE DEF f, n
  <1>4. f \in Surjection(1..n, S)
    <2>1. f \in Injection(1..n, S)
      BY <1>3 DEF Injection
    <2>2. Cardinality(1..n) = n
      BY <1>1, FS_Interval
    <2>. QED
      BY <2>1, <2>2, FS_Injection DEF n
  <1>5. f \in Seq(S) /\ Len(f) = n
    BY <1>1, <1>3
  <1>6. \A x \in S : \E i \in 1..n : f[i] = x
    BY <1>4, Zenon DEF Surjection
  <1>7. \A i, j \in 1..n : f[i] = f[j] => i = j
    BY <1>3, Zenon DEF IsInjective
  <1>. QED
    BY <1>5, <1>6, <1>7, Zenon DEF f

(* The updates that go out at once for a set of streams. *)
LEMMA NewsFacts ==
  ASSUME NEW S \in SUBSET Streams, NEW inc \in [Streams -> Nat], NEW p,
         p = [i \in 1..Len(SetToSeq(S)) |-> WindowUpdate(SetToSeq(S)[i], inc[SetToSeq(S)[i]])]
  PROVE  /\ p \in Seq(Backward)
         /\ \A w : /\ Weight(UpdateF(w), p) = IF w \in S THEN inc[w] ELSE 0
                   /\ Weight(ResetF(w), p) = 0
  <1>. DEFINE q == SetToSeq(S)
  <1>1. /\ q \in Seq(S)
        /\ \A x \in S : \E i \in 1..Len(q) : q[i] = x
        /\ \A i, j \in 1..Len(q) : q[i] = q[j] => i = j
    <2>1. IsFiniteSet(S)
      BY FS_Subset, StreamsAssumption
    <2>. QED
      BY <2>1, SetSequence, Zenon
  <1>2. p = [i \in 1..Len(q) |-> WindowUpdate(q[i], inc[q[i]])]
    OBVIOUS
  <1>. HIDE DEF q
  <1>3. Len(q) \in Nat /\ \A i \in 1..Len(q) : q[i] \in S
    BY <1>1, LenProperties, ElementOfSeq
  <1>4. ASSUME NEW i \in 1..Len(q)
        PROVE  /\ p[i] \in Backward
               /\ \A w : /\ UpdateF(w)[p[i]] = IF w = q[i] THEN inc[w] ELSE 0
                         /\ ResetF(w)[p[i]] = 0
    <2>1. q[i] \in Streams /\ q[i] \in Windows /\ inc[q[i]] \in Nat
      BY <1>3, WindowFacts
    <2>2. p[i] = WindowUpdate(q[i], inc[q[i]])
      BY <1>2
    <2>3. p[i] \in Backward
      BY <2>1, <2>2, NewFrames
    <2>4. p[i].type = "WINDOW_UPDATE" /\ p[i].w = q[i] /\ p[i].value = inc[q[i]]
      BY <2>2 DEF WindowUpdate
    <2>5. \A w : UpdateF(w)[p[i]] = (IF w = p[i].w THEN p[i].value ELSE 0) /\ ResetF(w)[p[i]] = 0
      BY <2>3, <2>4, KindWeights
    <2>. QED
      BY <2>3, <2>4, <2>5, Zenon
  <1>5. p \in Seq(Backward) /\ Len(p) = Len(q)
    <2>1. DOMAIN p = 1..Len(q) /\ p = [i \in 1..Len(q) |-> p[i]]
      BY <1>2, Zenon
    <2>2. p \in [1..Len(q) -> Backward]
      BY <1>4, <2>1, Zenon
    <2>. QED
      BY ONLY <1>3, <2>2
  <1>6. ASSUME NEW w PROVE Weight(ResetF(w), p) = 0
    <2>1. ResetF(w) \in [Backward -> Nat]
      BY FrameWeights
    <2>2. \A i \in 1..Len(p) : ResetF(w)[p[i]] = 0
      BY <1>4, <1>5
    <2>. QED
      BY <1>5, <2>1, <2>2, WeightZero
  <1>7. ASSUME NEW w PROVE Weight(UpdateF(w), p) = IF w \in S THEN inc[w] ELSE 0
    <2>1. UpdateF(w) \in [Backward -> Nat]
      BY FrameWeights
    <2>2. CASE w \in S
      <3>1. PICK k \in 1..Len(q) : q[k] = w
        BY <1>1, <2>2
      <3>2. k \in 1..Len(p) /\ UpdateF(w)[p[k]] = inc[w]
        BY <1>4, <1>5, <3>1
      <3>3. \A i \in 1..Len(p) : i # k => UpdateF(w)[p[i]] = 0
        <4>1. ASSUME NEW i \in 1..Len(p), i # k PROVE UpdateF(w)[p[i]] = 0
          <5>1. i \in 1..Len(q) /\ q[i] # w
            BY <1>1, <1>5, <3>1, <4>1
          <5>. QED
            BY <1>4, <5>1, ZenonT(60)
        <4>. QED
          BY <4>1
      <3>4. Weight(UpdateF(w), p) = UpdateF(w)[p[k]]
        <4>. DEFINE F == UpdateF(w)
        <4>1. /\ F \in [Backward -> Nat] /\ p \in Seq(Backward) /\ k \in 1..Len(p)
              /\ \A i \in 1..Len(p) : i # k => F[p[i]] = 0
          BY <1>5, <2>1, <3>2, <3>3
        <4>. HIDE DEF F
        <4>2. OnlyOne(F, p, k)
          BY <4>1 DEF OnlyOne
        <4>3. Weight(F, p) = F[p[k]]
          BY ONLY <4>1, <4>2, WeightOne, SMTT(30)
        <4>. QED
          BY <4>3 DEF F
      <3>. QED
        BY <2>2, <3>2, <3>4
    <2>3. CASE w \notin S
      <3>1. \A i \in 1..Len(p) : UpdateF(w)[p[i]] = 0
        <4>1. ASSUME NEW i \in 1..Len(p) PROVE UpdateF(w)[p[i]] = 0
          <5>1. i \in 1..Len(q) /\ q[i] # w
            BY <1>3, <1>5, <2>3
          <5>. QED
            BY <1>4, <5>1
        <4>. QED
          BY <4>1
      <3>. QED
        BY <1>5, <2>1, <2>3, <3>1, WeightZero
    <2>. QED
      BY <2>2, <2>3
  <1>. QED
    BY <1>5, <1>6, <1>7

(* A WINDOW_UPDATE leaves, and the window is looked at again. *)
LEMMA SentWindowUpdateInv ==
  ASSUME IndInv, ~error, SentWindowUpdate
  PROVE  IndInv'
  <1>. DEFINE h == Head(ob)
              t == Tail(ob)
              v == h.w
              u == [win[v] EXCEPT !.queued = FALSE]
              r == IF v \in ended THEN Silent(u) ELSE Recheck(u)
              refuses == auto /\ v \notin ended /\ Exceeds(u, 0)
              drops == v # Conn /\ state[v] # "OPEN"
  <1>0. Types
    BY DEF IndInv
  <1>1. /\ ob # <<>> /\ h.type = "WINDOW_UPDATE"
        /\ drops => ob' = t /\ UNCHANGED <<win, granted, state, refused, back, error>>
        /\ ~drops => back' = Append(back, h)
        /\ ~drops /\ v # Conn /\ refuses => Refuse(v, u, t)
        /\ ~drops /\ ~(v # Conn /\ refuses) =>
             /\ win' = [win EXCEPT ![v] = r.win]
             /\ granted' = [granted EXCEPT ![v] = @ + r.inc]
             /\ ob' = Announce(t, v, r.inc)
             /\ state' = state
        /\ UNCHANGED <<sender, auto, initialL, inflight, urgent, ended, held, calls, received, fwd>>
    BY DEF SentWindowUpdate
  <1>2. /\ win \in [Windows -> WinRec] /\ received \in [Windows -> Nat]
        /\ ob \in Seq(Backward) /\ back \in Seq(Backward)
        /\ granted \in [Windows -> Nat]
        /\ state \in [Streams -> {"OPEN", "CLOSING", "CLOSED"}]
        /\ held \in [Streams -> Nat] /\ initialL \in Nat
        /\ inflight \in Seq(Nat) /\ urgent \in Seq(Nat) /\ fwd \in Seq(Forward)
    BY <1>0, TypeFacts
  <1>3. /\ h \in Backward /\ t \in Seq(Backward) /\ v \in Windows /\ h.value \in Nat
        /\ \A w : /\ Weight(UpdateF(w), t) \in Nat /\ Weight(ResetF(w), t) \in Nat
                  /\ Weight(UpdateF(w), ob) =
                       (IF w = v THEN h.value ELSE 0) + Weight(UpdateF(w), t)
                  /\ Weight(ResetF(w), ob) = Weight(ResetF(w), t)
    BY <1>1, <1>2, BackwardPop
  <1>. HIDE DEF h, t
  <1>4. /\ \A w : Weight(UpdateF(w), back) \in Nat /\ Weight(ResetF(w), back) \in Nat
        /\ Weight(SettingsF, back) \in Nat
    BY <1>2, BackwardQueue
  <1>5. ~drops => /\ back' \in Seq(Backward) /\ Weight(SettingsF, back') = Weight(SettingsF, back)
                  /\ \A w : /\ Weight(UpdateF(w), back') = Weight(UpdateF(w), back)
                                                             + (IF w = v THEN h.value ELSE 0)
                            /\ Weight(ResetF(w), back') = Weight(ResetF(w), back)
    <2>1. /\ SettingsF[h] = 0
          /\ \A w : UpdateF(w)[h] = (IF w = v THEN h.value ELSE 0) /\ ResetF(w)[h] = 0
      BY <1>1, <1>3, KindWeights
    <2>. DEFINE b == Append(back, h)
    <2>2. /\ b \in Seq(Backward)
          /\ \A w : /\ Weight(UpdateF(w), b) = Weight(UpdateF(w), back) + UpdateF(w)[h]
                    /\ Weight(ResetF(w), b) = Weight(ResetF(w), back) + ResetF(w)[h]
          /\ Weight(SettingsF, b) = Weight(SettingsF, back) + SettingsF[h]
      BY <1>2, <1>3, BackwardAppend
    <2>. HIDE DEF b
    <2>3. /\ Weight(SettingsF, b) = Weight(SettingsF, back)
          /\ \A w : /\ Weight(UpdateF(w), b) = Weight(UpdateF(w), back)
                                                 + (IF w = v THEN h.value ELSE 0)
                    /\ Weight(ResetF(w), b) = Weight(ResetF(w), back)
      BY <1>4, <2>1, <2>2
    <2>4. ~drops => back' = b
      BY <1>1 DEF b
    <2>. HIDE DEF drops
    <2>. QED
      BY <2>2, <2>3, <2>4
  <1>6. win[v] \in WinRec /\ u \in WinRec /\ Credit(u) = Credit(win[v]) /\ u.local = win[v].local
    <2>1. win[v] \in WinRec
      BY <1>2, <1>3
    <2>2. u \in WinRec /\ u.local = win[v].local /\ u.recv = win[v].recv
      BY <2>1, Zenon DEF WinRec
    <2>. HIDE DEF u
    <2>. QED
      BY <2>1, <2>2 DEF Credit
  <1>. HIDE DEF u
  <1>7. Balanced(win[v], 0, r) /\ r.win.local = win[v].local
    <2>0. Credit(u) \in Int
      BY <1>6, WinFields DEF Credit
    <2>1. CASE v \in ended
      <3>1. r = Silent(u)
        BY <2>1
      <3>2. r.win = u /\ r.inc = 0
        BY <3>1 DEF Silent
      <3>. HIDE DEF r
      <3>. QED
        BY <1>6, <2>0, <3>2 DEF Balanced
    <2>2. CASE v \notin ended
      <3>1. r = Recheck(u)
        BY <2>2
      <3>. HIDE DEF r
      <3>. QED
        BY <1>6, <3>1, RecheckFacts DEF Balanced
    <2>. QED
      BY <2>1, <2>2
  <1>. HIDE DEF r, refuses
  <1>8. UNCHANGED <<initialL, applied, received, gone>>
    BY <1>1 DEF sender
  <1>9. /\ win' \in [Windows -> WinRec] /\ granted' \in [Windows -> Nat]
        /\ ob' \in Seq(Backward) /\ back' \in Seq(Backward) /\ win'[Conn].local <= MaxWindow
        /\ state' \in [Streams -> {"OPEN", "CLOSING", "CLOSED"}]
        /\ Weight(SettingsF, back') = Weight(SettingsF, back)
        /\ NoneOpened /\ ReceiverAccount' /\ UpdateAccount' /\ ResetAccount'
    <2>1. CASE drops
      <3>1. ob' = t /\ UNCHANGED <<win, granted, state, back, error>>
        BY <1>1, <2>1
      <3>2. NoneOpened /\ \A w \in Windows : Live(w)' => Live(w) /\ w # v
        BY <2>1, <3>1 DEF NoneOpened, Live
      <3>3. ReceiverAccount'
        BY <1>8, <3>1, <3>2 DEF IndInv, ReceiverAccount, Credit, Base
      <3>4. UpdateAccount'
        <4>. SUFFICES ASSUME NEW w \in Windows
                      PROVE  /\ applied[w] + Weight(UpdateF(w), t)
                                  + Weight(UpdateF(w), back) <= granted[w]
                             /\ Live(w)' => granted[w] = applied[w] + Weight(UpdateF(w), t)
                                                          + Weight(UpdateF(w), back)
          BY <1>8, <3>1 DEF UpdateAccount
        <4>1. /\ applied[w] + Weight(UpdateF(w), ob) + Weight(UpdateF(w), back) <= granted[w]
              /\ Live(w)' => /\ w # v
                             /\ granted[w] = applied[w] + Weight(UpdateF(w), ob)
                                               + Weight(UpdateF(w), back)
          BY <3>2 DEF IndInv, UpdateAccount
        <4>2. applied[w] \in Nat /\ granted[w] \in Nat
          BY <1>0, TypeFacts
        <4>. DEFINE a == applied[w]
                    g == granted[w]
                    x == Weight(UpdateF(w), ob)
                    y == Weight(UpdateF(w), t)
                    z == Weight(UpdateF(w), back)
        <4>3. /\ a \in Nat /\ g \in Nat /\ y \in Nat /\ z \in Nat
              /\ w # v => x = y
          BY <1>3, <1>4, <4>2
        <4>4. x \in Nat /\ y <= x
          BY <1>3
        <4>5. a + x + z <= g /\ (Live(w)' => w # v /\ g = a + x + z)
          BY <4>1
        <4>. HIDE DEF a, g, x, y, z
        <4>6. a + y + z <= g
          BY ONLY <4>3, <4>4, <4>5
        <4>7. Live(w)' => g = a + y + z
          BY <4>3, <4>5
        <4>. QED
          BY <4>6, <4>7 DEF a, g, y, z
      <3>5. ResetAccount'
        BY <1>3, <1>8, <3>1, <3>2 DEF IndInv, ResetAccount, NoneOpened
      <3>. QED
        BY <1>2, <1>3, <3>1, <3>2, <3>3, <3>4, <3>5 DEF IndInv, LocalBound
    <2>2. CASE ~drops /\ v # Conn /\ refuses
      <3>1. Refuse(v, u, t) /\ v \in Streams /\ u \in WinRec /\ t \in Seq(Backward)
        BY <1>1, <1>3, <1>6, <2>2, WindowFacts
      <3>2. /\ back' \in Seq(Backward)
            /\ \A w : /\ Weight(UpdateF(w), t) + Weight(UpdateF(w), back')
                           = Weight(UpdateF(w), ob) + Weight(UpdateF(w), back)
                      /\ Weight(ResetF(w), t) = Weight(ResetF(w), ob)
                      /\ Weight(ResetF(w), back') = Weight(ResetF(w), back)
        BY <1>3, <1>4, <1>5, <2>2
      <3>3. /\ win' \in [Windows -> WinRec] /\ win'[Conn] = win[Conn]
            /\ ob' \in Seq(Backward) /\ granted' \in [Windows -> Nat]
            /\ state' \in [Streams -> {"OPEN", "CLOSING", "CLOSED"}]
            /\ NoneOpened /\ ReceiverAccount' /\ UpdateAccount' /\ ResetAccount'
        BY ONLY IndInv, ~error, <1>8, <3>1, <3>2, RefuseBooks
      <3>. QED
        BY <1>5, <2>2, <3>2, <3>3 DEF IndInv, LocalBound
    <2>3. CASE ~drops /\ ~(v # Conn /\ refuses)
      <3>. DEFINE inc == [w \in Windows |-> IF w = v THEN r.inc ELSE 0]
                  n == [w \in Windows |-> 0]
                  a == Announce(t, v, r.inc)
      <3>1. /\ win' = [win EXCEPT ![v] = r.win] /\ granted' = [granted EXCEPT ![v] = @ + r.inc]
            /\ ob' = a /\ state' = state
        BY <1>1, <2>3
      <3>2. r.win \in WinRec /\ r.inc \in Nat /\ Credit(r.win) = Credit(win[v]) + r.inc
        <4>1. Credit(win[v]) \in Int
          BY <1>6, WinFields DEF Credit
        <4>. QED
          BY <1>7, <4>1 DEF Balanced
      <3>3. /\ a \in Seq(Backward)
            /\ \A w : /\ Weight(UpdateF(w), a) = Weight(UpdateF(w), t)
                                                   + (IF w = v THEN r.inc ELSE 0)
                      /\ Weight(ResetF(w), a) = Weight(ResetF(w), t)
        BY ONLY <1>3, <3>2, AnnounceFacts
      <3>. HIDE DEF a
      <3>4. win' \in [Windows -> WinRec] /\ granted' \in [Windows -> Nat] /\ NoneOpened
        BY <1>2, <1>3, <3>1, <3>2 DEF NoneOpened
      <3>5. /\ inc \in [Windows -> Nat] /\ n \in [Windows -> Nat]
            /\ \A w \in Windows : inc[w] = (IF w = v THEN r.inc ELSE 0) /\ n[w] = 0
        BY <3>2
      <3>. HIDE DEF inc, n
      <3>6. ASSUME NEW w \in Windows
            PROVE  /\ granted'[w] = granted[w] + inc[w] /\ received'[w] = received[w] + n[w]
                   /\ Credit(win'[w]) = Credit(win[w]) - n[w] + inc[w]
                                          + (Base(w, initialL') - Base(w, initialL))
                   /\ Weight(UpdateF(w), ob') + Weight(UpdateF(w), back')
                        = Weight(UpdateF(w), ob) + Weight(UpdateF(w), back) + inc[w]
        <4>1. /\ granted[w] \in Nat /\ received[w] \in Nat
          BY <1>2
        <4>2. Base(w, initialL') - Base(w, initialL) = 0
          BY <1>2, <1>8, BoundsAssumption DEF Base
        <4>3. Credit(win[w]) \in Int
          BY <1>2, WinFields DEF Credit
        <4>4. received'[w] = received[w] + n[w]
          BY <1>8, <3>5, <4>1
        <4>5. Weight(UpdateF(w), ob') + Weight(UpdateF(w), back')
                = Weight(UpdateF(w), ob) + Weight(UpdateF(w), back) + inc[w]
          <5>1. /\ Weight(UpdateF(w), ob') = Weight(UpdateF(w), t) + inc[w]
                /\ inc[w] \in Nat /\ h.value \in Nat
            BY <1>3, <3>1, <3>3, <3>5
          <5>2. /\ Weight(UpdateF(w), back') = Weight(UpdateF(w), back)
                                                 + (IF w = v THEN h.value ELSE 0)
                /\ Weight(UpdateF(w), ob) = (IF w = v THEN h.value ELSE 0) + Weight(UpdateF(w), t)
                /\ Weight(UpdateF(w), t) \in Nat /\ Weight(UpdateF(w), back) \in Nat
            BY <1>3, <1>4, <1>5, <2>3
          <5>. QED
            BY ONLY <5>1, <5>2
        <4>6. CASE w = v
          <5>1. win'[w] = r.win /\ granted'[w] = granted[w] + r.inc
            BY <1>2, <3>1, <4>6
          <5>. QED
            BY <3>2, <3>5, <4>1, <4>2, <4>3, <4>4, <4>5, <4>6, <5>1
        <4>7. CASE w # v
          <5>1. win'[w] = win[w] /\ granted'[w] = granted[w]
            BY <1>2, <3>1, <4>7
          <5>. QED
            BY <3>5, <4>1, <4>2, <4>3, <4>4, <4>5, <4>7, <5>1
        <4>. QED
          BY <4>6, <4>7
      <3>7. ReceiverAccount' /\ UpdateAccount'
        <4>1. /\ initialL' \in Nat /\ applied' = applied
              /\ ob' \in Seq(Backward) /\ back' \in Seq(Backward)
          BY <1>2, <1>5, <1>8, <2>3, <3>1, <3>3
        <4>. QED
          BY ONLY IndInv, ~error, <3>4, <3>5, <3>6, <4>1, Books
      <3>8. ResetAccount'
        BY <1>3, <1>5, <1>8, <2>3, <3>1, <3>3 DEF IndInv, ResetAccount
      <3>9. win'[Conn].local <= MaxWindow
        <4>1. win'[Conn] = IF v = Conn THEN r.win ELSE win[Conn]
          BY <1>2, <1>3, <3>1, WindowFacts
        <4>. QED
          BY <1>7, <4>1 DEF IndInv, LocalBound
      <3>. QED
        BY <1>2, <1>5, <2>3, <3>1, <3>3, <3>4, <3>7, <3>8, <3>9
    <2>. QED
      BY <2>1, <2>2, <2>3
  <1>10. Types'
    <2>1. UNCHANGED <<sender, auto, initialL, inflight, urgent, held, received, fwd>>
      BY <1>1
    <2>. QED
      BY <1>0, <1>2, <1>9, <2>1, ReceiverTypes
  <1>11. SettingsAccount'
    BY <1>1, <1>9 DEF IndInv, SettingsAccount, sender
  <1>. QED
    BY <1>1, <1>9, <1>10, <1>11, Frames DEF IndInv, sender, LocalBound

(* SETTINGS is acknowledged: the windows of the streams move, and credit   *)
(* that has become due is announced.                                       *)
LEMMA RecvAckInv ==
  ASSUME IndInv, ~error, RecvAck
  PROVE  IndInv'
  <1>. DEFINE delta == Head(inflight) - initialL
              Has(w) == w # Conn /\ state[w] # "CLOSED"
              V(w) == [win[w] EXCEPT !.local = @ + delta]
              Moved(w) == IF V(w).queued THEN Silent(V(w)) ELSE Recheck(V(w))
              S == {w \in Streams : Has(w) /\ Moved(w).inc > 0}
              news == SetToSeq(S)
              m == [w \in Streams |-> Moved(w).inc]
              p == [i \in 1..Len(news) |-> WindowUpdate(news[i], Moved(news[i]).inc)]
              inc == [w \in Windows |-> IF Has(w) THEN Moved(w).inc ELSE 0]
              n == [w \in Windows |-> 0]
  <1>0. Types
    BY DEF IndInv
  <1>1. /\ fwd # <<>> /\ Head(fwd).type = "ACK" /\ fwd' = Tail(fwd)
        /\ win' = [w \in Windows |-> IF Has(w) THEN Moved(w).win ELSE win[w]]
        /\ granted' = [w \in Windows |->
                         IF Has(w) THEN granted[w] + Moved(w).inc ELSE granted[w]]
        /\ ob' = ob \o p
        /\ initialL' = Head(inflight) /\ inflight' = Tail(inflight)
        /\ UNCHANGED <<sender, auto, urgent, state, ended, refused, held, calls, received, back>>
    BY DEF RecvAck
  <1>2. /\ win \in [Windows -> WinRec] /\ received \in [Windows -> Nat]
        /\ ob \in Seq(Backward) /\ back \in Seq(Backward)
        /\ granted \in [Windows -> Nat]
        /\ state \in [Streams -> {"OPEN", "CLOSING", "CLOSED"}]
        /\ held \in [Streams -> Nat] /\ initialL \in Nat
        /\ inflight \in Seq(Nat) /\ urgent \in Seq(Nat) /\ fwd \in Seq(Forward)
    BY <1>0, TypeFacts
  <1>3. /\ fwd' \in Seq(Forward) /\ Weight(AckF, fwd) = 1 + Weight(AckF, fwd')
        /\ Weight(AckF, fwd') \in Nat
        /\ \A w : Weight(DataF(w), fwd') = Weight(DataF(w), fwd)
    <2>. DEFINE h == Head(fwd)
                t == Tail(fwd)
    <2>1. /\ h \in Forward /\ t \in Seq(Forward)
          /\ \A w : /\ Weight(DataF(w), fwd) = DataF(w)[h] + Weight(DataF(w), t)
                    /\ Weight(DataF(w), t) \in Nat
          /\ Weight(AckF, fwd) = AckF[h] + Weight(AckF, t)
          /\ Weight(AckF, t) \in Nat
      BY <1>1, <1>2, ForwardQueue
    <2>2. h.type = "ACK" /\ fwd' = t
      BY <1>1
    <2>. HIDE DEF h, t
    <2>3. AckF[h] = 1 /\ \A w : DataF(w)[h] = 0
      BY <2>1, <2>2, KindWeights
    <2>. QED
      BY <2>1, <2>2, <2>3
  <1>4. /\ initialL' \in Nat /\ inflight' \in Seq(Nat) /\ Len(inflight') = Len(inflight) - 1
        /\ Len(inflight) \in Nat /\ delta \in Int /\ delta = initialL' - initialL
    <2>1. Len(inflight) \in Nat /\ Len(inflight) >= 1
      <3>1. Len(inflight) = Len(urgent) + Weight(SettingsF, back) + acks + Weight(AckF, fwd)
        BY DEF IndInv, SettingsAccount
      <3>2. /\ Len(inflight) \in Nat /\ Len(urgent) \in Nat /\ acks \in Nat
            /\ Weight(SettingsF, back) \in Nat
        BY <1>0, <1>2, TypeFacts, BackwardQueue, LenProperties
      <3>. QED
        BY ONLY <1>3, <3>1, <3>2
    <2>2. inflight # <<>>
      BY <1>2, <2>1
    <2>3. /\ Head(inflight) \in Nat /\ Tail(inflight) \in Seq(Nat)
          /\ Len(Tail(inflight)) = Len(inflight) - 1
      BY <1>2, <2>2, HeadTailProperties
    <2>4. initialL' = Head(inflight) /\ inflight' = Tail(inflight) /\ initialL \in Nat
      BY <1>1, <1>2
    <2>. QED
      BY ONLY <2>1, <2>3, <2>4
  <1>. HIDE DEF delta
  <1>5. ASSUME NEW w \in Windows
        PROVE  /\ Moved(w).win \in WinRec /\ Moved(w).inc \in Nat
               /\ Credit(Moved(w).win) = Credit(win[w]) + delta + Moved(w).inc
    <2>. DEFINE v == V(w)
                r == Moved(w)
    <2>1. win[w] \in WinRec /\ win[w].local \in Int /\ win[w].recv \in Int
          /\ win[w].local + delta \in Int
      BY <1>2, <1>4, WinFields, SMTT(30)
    <2>2. v \in WinRec /\ v.local = win[w].local + delta /\ v.recv = win[w].recv
      BY <2>1, Zenon DEF WinRec
    <2>3. r = IF v.queued THEN Silent(v) ELSE Recheck(v)
      OBVIOUS
    <2>. HIDE DEF v, r
    <2>4. Credit(v) = Credit(win[w]) + delta /\ Credit(v) \in Int
      BY <1>4, <2>1, <2>2 DEF Credit
    <2>5. r.win \in WinRec /\ r.inc \in Nat /\ Credit(r.win) = Credit(v) + r.inc
      <3>1. CASE v.queued
        <4>1. r = Silent(v)
          BY <2>3, <3>1
        <4>2. r.win = v /\ r.inc = 0
          BY <4>1 DEF Silent
        <4>. QED
          BY <2>2, <2>4, <4>2
      <3>2. CASE ~v.queued
        BY <2>2, <2>3, <2>4, <3>2, RecheckFacts DEF Balanced
      <3>. QED
        BY <3>1, <3>2
    <2>6. r.win \in WinRec /\ r.inc \in Nat /\ Credit(r.win) = Credit(win[w]) + delta + r.inc
      BY <2>4, <2>5
    <2>. QED
      BY <2>6, Zenon DEF r
  <1>. HIDE DEF Moved
  <1>6. /\ p \in Seq(Backward)
        /\ \A w : /\ Weight(UpdateF(w), p) = IF w \in S THEN m[w] ELSE 0
                  /\ Weight(ResetF(w), p) = 0
    <2>1. S \in SUBSET Streams /\ IsFiniteSet(S)
      BY FS_Subset, StreamsAssumption
    <2>2. m \in [Streams -> Nat]
      BY <1>5, WindowFacts
    <2>. HIDE DEF S
    <2>3. Len(news) \in Nat /\ \A i \in 1..Len(news) : news[i] \in S
      <3>1. news \in Seq(S)
        BY <2>1, SetSequence, Zenon
      <3>. HIDE DEF news
      <3>. QED
        BY <3>1, LenProperties, ElementOfSeq
    <2>4. \A i \in 1..Len(news) : Moved(news[i]).inc = m[news[i]]
      BY <2>1, <2>3
    <2>5. p = [i \in 1..Len(SetToSeq(S)) |-> WindowUpdate(SetToSeq(S)[i], m[SetToSeq(S)[i]])]
      BY <2>4, Zenon
    <2>. HIDE DEF p, m
    <2>. QED
      BY ONLY <2>1, <2>2, <2>5, NewsFacts
  <1>7. /\ inc \in [Windows -> Nat] /\ n \in [Windows -> Nat]
        /\ \A w \in Windows : n[w] = 0 /\ inc[w] = IF Has(w) THEN Moved(w).inc ELSE 0
    BY <1>5
  <1>8. \A w \in Windows : Weight(UpdateF(w), p) = inc[w]
    <2>. SUFFICES ASSUME NEW w \in Windows PROVE Weight(UpdateF(w), p) = inc[w]
      OBVIOUS
    <2>1. Moved(w).inc \in Nat
      BY <1>5
    <2>2. w \in Streams => m[w] = Moved(w).inc
      OBVIOUS
    <2>3. Has(w) => w \in Streams
      BY WindowFacts
    <2>4. w \in S <=> w \in Streams /\ Has(w) /\ Moved(w).inc > 0
      OBVIOUS
    <2>. HIDE DEF Has, S, m, p, inc
    <2>. QED
      BY <1>6, <1>7, <2>1, <2>2, <2>3, <2>4
  <1>. HIDE DEF p, S, m, inc, n
  <1>9. /\ ob' \in Seq(Backward)
        /\ \A w : /\ Weight(UpdateF(w), ob') = Weight(UpdateF(w), ob) + Weight(UpdateF(w), p)
                  /\ Weight(ResetF(w), ob') = Weight(ResetF(w), ob)
    <2>1. ASSUME NEW F \in [Backward -> Nat]
          PROVE  Weight(F, ob') = Weight(F, ob) + Weight(F, p) /\ Weight(F, ob) \in Nat
      <3>1. ob' = ob \o p /\ ob \in Seq(Backward) /\ p \in Seq(Backward)
        BY <1>1, <1>2, <1>6
      <3>2. Weight(F, ob \o p) = Weight(F, ob) + Weight(F, p)
        BY ONLY <2>1, <3>1, WeightConcat
      <3>. QED
        BY <3>1, <3>2, WeightType
    <2>2. ob' \in Seq(Backward)
      BY <1>1, <1>2, <1>6, ConcatProperties
    <2>3. \A w : /\ Weight(ResetF(w), ob') = Weight(ResetF(w), ob) + 0
                 /\ Weight(ResetF(w), ob) \in Nat
      BY <1>6, <2>1, FrameWeights
    <2>. QED
      BY <2>1, <2>2, <2>3, FrameWeights
  <1>10. NoneOpened /\ applied' = applied /\ back' = back /\ UNCHANGED <<gone, received>>
    BY <1>1 DEF NoneOpened, sender
  <1>11. /\ win' \in [Windows -> WinRec] /\ granted' \in [Windows -> Nat]
         /\ \A w \in Windows :
              /\ win'[w] = IF Has(w) THEN Moved(w).win ELSE win[w]
              /\ granted'[w] = IF Has(w) THEN granted[w] + Moved(w).inc ELSE granted[w]
    BY <1>1, <1>2, <1>5
  <1>12. ASSUME NEW w \in Windows
         PROVE  /\ granted'[w] = granted[w] + inc[w] /\ received'[w] = received[w] + n[w]
                /\ Live(w)' /\ ~error' =>
                     Credit(win'[w]) = Credit(win[w]) - n[w] + inc[w]
                                         + (Base(w, initialL') - Base(w, initialL))
                /\ Weight(UpdateF(w), ob') + Weight(UpdateF(w), back')
                     = Weight(UpdateF(w), ob) + Weight(UpdateF(w), back) + inc[w]
    <2>1. /\ granted[w] \in Nat /\ received[w] \in Nat /\ Credit(win[w]) \in Int
      BY <1>2, WinFields DEF Credit
    <2>2. Weight(UpdateF(w), ob) \in Nat /\ Weight(UpdateF(w), back) \in Nat /\ inc[w] \in Nat
      BY <1>2, <1>7, BackwardQueue
    <2>3. Weight(UpdateF(w), ob') + Weight(UpdateF(w), back')
            = Weight(UpdateF(w), ob) + Weight(UpdateF(w), back) + inc[w]
      BY <1>8, <1>9, <1>10, <2>2
    <2>4. granted'[w] = granted[w] + inc[w] /\ received'[w] = received[w] + n[w]
      BY <1>7, <1>10, <1>11, <2>1
    <2>5. ASSUME Live(w)'
          PROVE  Credit(win'[w]) = Credit(win[w]) - n[w] + inc[w]
                                     + (Base(w, initialL') - Base(w, initialL))
      <3>1. CASE w = Conn
        <4>1. win'[w] = win[w] /\ inc[w] = 0 /\ n[w] = 0
          BY <1>7, <1>11, <3>1
        <4>2. Base(w, initialL') - Base(w, initialL) = 0
          BY <3>1, BoundsAssumption DEF Base
        <4>. QED
          BY <2>1, <4>1, <4>2
      <3>2. CASE w # Conn
        <4>1. Has(w)
          BY <1>1, <2>5, <3>2 DEF Live
        <4>2. win'[w] = Moved(w).win /\ inc[w] = Moved(w).inc /\ n[w] = 0
          BY <1>7, <1>11, <4>1
        <4>3. Base(w, initialL') - Base(w, initialL) = delta
          BY <1>4, <3>2 DEF Base
        <4>4. Credit(Moved(w).win) = Credit(win[w]) + delta + Moved(w).inc
          BY <1>5
        <4>. QED
          BY <1>4, <2>1, <2>2, <4>2, <4>3, <4>4
      <3>. QED
        BY <3>1, <3>2
    <2>. QED
      BY <2>3, <2>4, <2>5
  <1>13. ReceiverAccount' /\ UpdateAccount'
    <2>1. back' \in Seq(Backward)
      BY <1>2, <1>10
    <2>2. /\ \A w \in Windows : /\ granted'[w] = granted[w] + inc[w]
                                /\ received'[w] = received[w] + n[w]
          /\ \A w \in Windows :
               Weight(UpdateF(w), ob') + Weight(UpdateF(w), back')
                 = Weight(UpdateF(w), ob) + Weight(UpdateF(w), back) + inc[w]
          /\ \A w \in Windows : Live(w)' /\ ~error' =>
               Credit(win'[w]) = Credit(win[w]) - n[w] + inc[w]
                                   + (Base(w, initialL') - Base(w, initialL))
      BY <1>12
    <2>. QED
      BY ONLY IndInv, ~error, <1>4, <1>7, <1>9, <1>10, <1>11, <2>1, <2>2, Books
  <1>14. Types'
    <2>1. UNCHANGED <<sender, auto, urgent, state, held, received, back>>
      BY <1>1
    <2>. QED
      BY <1>0, <1>2, <1>3, <1>4, <1>9, <1>11, <2>1, ReceiverTypes
  <1>15. DataAccount'
    BY <1>1, <1>3 DEF IndInv, DataAccount, sender, Live
  <1>16. ResetAccount'
    BY <1>9, <1>10 DEF IndInv, ResetAccount, NoneOpened
  <1>17. SettingsAccount'
    <2>1. /\ Len(inflight) = Len(urgent) + Weight(SettingsF, back) + acks + Weight(AckF, fwd)
          /\ UNCHANGED <<urgent, back, acks>>
      BY <1>1 DEF IndInv, SettingsAccount, sender
    <2>2. Len(urgent) \in Nat /\ acks \in Nat /\ Weight(SettingsF, back) \in Nat
      BY <1>0, <1>2, TypeFacts, BackwardQueue, LenProperties
    <2>. QED
      BY <1>3, <1>4, <2>1, <2>2 DEF SettingsAccount
  <1>18. LocalBound'
    <2>1. win'[Conn] = win[Conn]
      BY <1>11, WindowFacts
    <2>. QED
      BY <2>1 DEF IndInv, LocalBound
  <1>. QED
    BY <1>1, <1>10, <1>13, <1>14, <1>15, <1>16, <1>17, <1>18, Frames DEF IndInv, sender
-----------------------------------------------------------------------------
(* The books are kept by every step. *)
LEMMA NextInv ==
  ASSUME IndInv, [Next]_vars
  PROVE  IndInv'
  <1>1. CASE UNCHANGED vars
    <2>. USE <1>1 DEF vars, sender, receiver
    <2>1. Types'
      BY DEF IndInv, Types, TypeOK
    <2>2. ReceiverAccount' /\ NoneOpened
      BY DEF IndInv, ReceiverAccount, Live, NoneOpened, Credit, Base
    <2>. QED
      BY <2>1, <2>2, Frames DEF IndInv
  <1>2. CASE ~error /\ Send
    <2>1. ASSUME NEW s \in Streams, PrepDeferred(s) PROVE IndInv'
      BY <1>2, <2>1, PrepDeferredInv
    <2>2. ASSUME NEW s \in Streams, NEW n \in 1..MaxFrameSize, PrepData(s, n) PROVE IndInv'
      <3>1. n \in Nat
        BY BoundsAssumption
      <3>. QED
        BY <1>2, <2>2, <3>1, PrepDataInv
    <2>. QED
      BY <1>2, <2>1, <2>2, SentDataInv, SentAckInv, RecvSettingsInv, RecvWindowUpdateInv,
         RecvRstStreamInv DEF Send
  <1>3. CASE ~error /\ Receive
    <2>1. ASSUME NEW n \in 1..MaxFrameSize, RecvData(n) \/ IgnoreData(n) PROVE IndInv'
      BY <1>3, <2>1, RecvDataInv, IgnoreDataInv
    <2>. QED
      BY <1>3, <2>1, RecvAckInv, SentSettingsInv, SentWindowUpdateInv, SentRstStreamInv
         DEF Receive
  <1>4. CASE ~error /\ Call
    <2>1. ASSUME NEW v \in SettingsValues, SubmitSettings(v) PROVE IndInv'
      BY <1>4, <2>1, SubmitSettingsInv
    <2>2. ASSUME NEW w \in Tuned, NEW size \in Sizes, SetLocalWindowSize(w, size) PROVE IndInv'
      <3>1. w \in Windows /\ size \in 0..MaxWindow
        BY StreamsAssumption, BoundsAssumption
      <3>. QED
        BY <1>4, <2>2, <3>1, SetLocalWindowSizeInv
    <2>3. ASSUME NEW w \in Tuned, NEW delta \in Increments, SubmitWindowUpdate(w, delta)
          PROVE  IndInv'
      <3>1. w \in Windows /\ delta \in Int
        BY StreamsAssumption, BoundsAssumption
      <3>. QED
        BY <1>4, <2>3, <3>1, SubmitWindowUpdateInv
    <2>4. ASSUME NEW s \in MayReset, SubmitRstStream(s) PROVE IndInv'
      <3>1. s \in Streams
        BY StreamsAssumption
      <3>. QED
        BY <1>4, <2>4, <3>1, SubmitRstStreamInv
    <2>. QED
      BY <1>4, <2>1, <2>2, <2>3, <2>4 DEF Call
  <1>5. CASE ~error /\ Read
    <2>1. PICK s \in Streams : \E n \in 1..Total[s] : Consume(s, n)
      BY <1>5 DEF Read
    <2>2. PICK n \in 1..Total[s] : Consume(s, n)
      BY <2>1
    <2>3. n \in Nat
      BY BoundsAssumption
    <2>. QED
      BY <1>5, <2>2, <2>3, ConsumeInv
  <1>. QED
    BY <1>1, <1>2, <1>3, <1>4, <1>5 DEF Next

(* The books of both sessions agree with the frames between them, in every *)
(* state (nghttp2_helper.c:155-251, nghttp2_session.c:4576-4685,           *)
(* 5193-5263, 5531-5641, 7077-7235).                                       *)
THEOREM Inductive == Spec => []IndInv
  <1>1. Init => IndInv
    BY InitInv
  <1>2. IndInv /\ [Next]_vars => IndInv'
    BY NextInv
  <1>. QED
    BY <1>1, <1>2, PTL DEF Spec

(* Reductions and consumed bytes never become negative, and no stream that *)
(* is gone stays deferred, for any windows and calls                       *)
(* (nghttp2_helper.c:155-246).                                             *)
THEOREM WindowsTypeCorrect == Spec => []TypeOK
  <1>1. IndInv => TypeOK
    BY DEF IndInv, Types
  <1>. QED
    BY <1>1, Inductive, PTL

(* As long as neither session has reported an error, no credit is lost and *)
(* none is made up, on the connection and on every open stream.  (The step *)
(* that reports one leaves its books half done.)                           *)
THEOREM CreditKept == Spec => [](~error => CreditIsConserved)
  <1>1. ASSUME IndInv, ~error PROVE CreditIsConserved
    <2>. SUFFICES ASSUME NEW w \in Windows, w = Conn \/ (w \notin gone /\ state[w] = "OPEN")
                  PROVE  win[w].local - win[w].recv
                           = remote[w] + DataInFlight(w) + UpdatesInFlight(w)
                             + (IF w = Conn THEN 0 ELSE initialL - initialR)
      BY DEF CreditIsConserved
    <2>0. Types
      BY <1>1 DEF IndInv
    <2>1. Live(w) /\ w \notin gone
      BY <2>0, TypeFacts, WindowFacts DEF Live
    <2>2. /\ Credit(win[w]) = Base(w, initialL) + granted[w] - received[w]
          /\ remote[w] = Base(w, initialR) + applied[w] - sent[w]
          /\ sent[w] = received[w] + Weight(DataF(w), fwd)
          /\ granted[w] = applied[w] + Weight(UpdateF(w), ob) + Weight(UpdateF(w), back)
      BY <1>1, <2>1 DEF IndInv, ReceiverAccount, SenderAccount, DataAccount, UpdateAccount
    <2>3. /\ DataInFlight(w) = Weight(DataF(w), fwd)
          /\ UpdatesInFlight(w) = Weight(UpdateF(w), ob) + Weight(UpdateF(w), back)
      BY <2>0, InFlightIsWeight
    <2>4. /\ Weight(DataF(w), fwd) \in Nat /\ Weight(UpdateF(w), ob) \in Nat
          /\ Weight(UpdateF(w), back) \in Nat
      BY <2>0, TypeFacts, ForwardQueue, BackwardQueue
    <2>5. /\ remote[w] \in Int /\ granted[w] \in Nat /\ received[w] \in Nat
          /\ sent[w] \in Nat /\ applied[w] \in Nat /\ initialL \in Nat /\ initialR \in Nat
          /\ Initial \in Nat
      BY <2>0, TypeFacts, BoundsAssumption
    <2>6. CASE w = Conn
      BY <2>2, <2>3, <2>4, <2>5, <2>6 DEF Credit, Base
    <2>7. CASE w # Conn
      BY <2>2, <2>3, <2>4, <2>5, <2>7 DEF Credit, Base
    <2>. QED
      BY <2>6, <2>7
  <1>. QED
    BY <1>1, Inductive, PTL

(* All DATA on its way fits the window of the connection, so that neither  *)
(* the check for bytes that come in nor the one for no bytes can refuse.   *)
ConnectionHasRoom == ~error => \A n \in 0..DataInFlight(Conn) : ~Exceeds(win[Conn], n)

(* The sender never spends more of it than it was granted. *)
LEMMA RoomOnConnection ==
  ASSUME IndInv
  PROVE  ConnectionHasRoom
  <1>. SUFFICES ASSUME ~error, NEW n \in 0..DataInFlight(Conn)
                PROVE  ~Exceeds(win[Conn], n)
    BY DEF ConnectionHasRoom
  <1>0. Types /\ Conn \in Windows /\ Conn \notin gone /\ Live(Conn)
    BY TypeFacts, WindowFacts DEF IndInv, Live
  <1>2. /\ Credit(win[Conn]) = Initial + granted[Conn] - received[Conn]
        /\ remote[Conn] = Initial + applied[Conn] - sent[Conn]
        /\ sent[Conn] = received[Conn] + Weight(DataF(Conn), fwd)
        /\ granted[Conn] = applied[Conn] + Weight(UpdateF(Conn), ob)
                             + Weight(UpdateF(Conn), back)
    BY <1>0 DEF IndInv, ReceiverAccount, SenderAccount, DataAccount, UpdateAccount, Base
  <1>3. DataInFlight(Conn) = Weight(DataF(Conn), fwd)
    BY <1>0, InFlightIsWeight
  <1>4. /\ Weight(DataF(Conn), fwd) \in Nat /\ Weight(UpdateF(Conn), ob) \in Nat
        /\ Weight(UpdateF(Conn), back) \in Nat
    BY <1>0, TypeFacts, ForwardQueue, BackwardQueue
  <1>5. /\ remote[Conn] \in Int /\ granted[Conn] \in Nat /\ received[Conn] \in Nat
        /\ sent[Conn] \in Nat /\ applied[Conn] \in Nat /\ Initial \in Nat /\ MaxWindow \in Nat
    BY <1>0, TypeFacts, BoundsAssumption
  <1>6. remote[Conn] >= 0
    BY <1>0, <1>5, AobFacts DEF IndInv, ConnAccount
  <1>7. Credit(win[Conn]) >= n /\ n \in Nat
    BY <1>2, <1>3, <1>4, <1>5, <1>6
  <1>8. win[Conn].local <= MaxWindow /\ win[Conn].local \in Int /\ win[Conn].recv \in Int
    BY <1>0, TypeFacts, WinFields DEF IndInv, LocalBound
  <1>. QED
    BY <1>5, <1>7, <1>8 DEF Exceeds, Credit

(* The connection is never torn down for flow control between two of these *)
(* sessions: adjust_recv_window_size has room for all DATA on its way,     *)
(* whatever its window was reduced to meanwhile                            *)
(* (nghttp2_session.c:5521-5529, 5577-5604).                               *)
THEOREM ConnectionNeverOverrun == Spec => []ConnectionHasRoom
  BY RoomOnConnection, Inductive, PTL
-----------------------------------------------------------------------------
(* The frames of q behind the i-th. *)
After(q, i) == SubSeq(q, i + 1, Len(q))

(* They are a queue themselves. *)
LEMMA AfterSeq ==
  ASSUME NEW M, NEW q \in Seq(M), NEW i \in 1..Len(q)
  PROVE  /\ After(q, i) \in Seq(M) /\ Len(After(q, i)) = Len(q) - i /\ Len(q) \in Nat
         /\ \A j \in 1..(Len(q) - i) : After(q, i)[j] = q[i + j]
  <1>1. Len(q) \in Nat /\ i \in Nat /\ i + 1 \in Int /\ i <= Len(q)
    BY LenProperties
  <1>2. \A k \in (i + 1)..Len(q) : q[k] \in M
    BY <1>1, ElementOfSeq
  <1>. DEFINE s == SubSeq(q, i + 1, Len(q))
  <1>3. /\ s \in Seq(M)
        /\ Len(s) = IF i + 1 <= Len(q) THEN Len(q) - (i + 1) + 1 ELSE 0
        /\ \A j \in 1..(Len(q) - (i + 1) + 1) : s[j] = q[(i + 1) + j - 1]
    BY <1>1, <1>2, SubSeqProperties
  <1>. HIDE DEF s
  <1>4. Len(s) = Len(q) - i
    BY <1>1, <1>3
  <1>5. ASSUME NEW j \in 1..(Len(q) - i) PROVE s[j] = q[i + j]
    <2>1. j \in 1..(Len(q) - (i + 1) + 1) /\ (i + 1) + j - 1 = i + j
      BY <1>1
    <2>. QED
      BY <1>3, <2>1
  <1>. QED
    BY <1>1, <1>3, <1>4, <1>5 DEF After, s

(* The first frame leaves. *)
LEMMA AfterPop ==
  ASSUME NEW M, NEW q \in Seq(M), q # <<>>, NEW i \in 1..Len(Tail(q))
  PROVE  /\ i + 1 \in 1..Len(q) /\ Tail(q)[i] = q[i + 1]
         /\ After(Tail(q), i) = After(q, i + 1)
  <1>. DEFINE t == Tail(q)
  <1>1. /\ t \in Seq(M) /\ Len(t) = Len(q) - 1 /\ \A j \in 1..Len(t) : t[j] = q[j + 1]
        /\ Len(q) \in Nat
    BY HeadTailProperties, LenProperties
  <1>. HIDE DEF t
  <1>2. i \in 1..Len(t) /\ i + 1 \in 1..Len(q)
    BY <1>1 DEF t
  <1>. DEFINE a == After(t, i)
              b == After(q, i + 1)
  <1>3. a \in Seq(M) /\ Len(a) = Len(t) - i /\ \A j \in 1..(Len(t) - i) : a[j] = t[i + j]
    BY <1>1, <1>2, AfterSeq
  <1>4. /\ b \in Seq(M) /\ Len(b) = Len(q) - (i + 1)
        /\ \A j \in 1..(Len(q) - (i + 1)) : b[j] = q[i + 1 + j]
    BY <1>2, AfterSeq
  <1>. HIDE DEF a, b
  <1>5. Len(a) = Len(b)
    BY <1>1, <1>2, <1>3, <1>4
  <1>6. ASSUME NEW j \in 1..Len(a) PROVE a[j] = b[j]
    <2>1. j \in 1..(Len(t) - i) /\ i + j \in 1..Len(t) /\ (i + j) + 1 = i + 1 + j
          /\ j \in 1..(Len(q) - (i + 1))
      BY <1>1, <1>2, <1>3
    <2>. QED
      BY <1>1, <1>3, <1>4, <2>1
  <1>7. a = b
    BY <1>3, <1>4, <1>5, <1>6, SeqEqual
  <1>. QED
    BY <1>1, <1>2, <1>7 DEF t, a, b

(* Another frame takes the place of the first. *)
LEMMA AfterPut ==
  ASSUME NEW M, NEW q \in Seq(M), q # <<>>, NEW m \in M
  PROVE  /\ <<m>> \o Tail(q) \in Seq(M) /\ Len(<<m>> \o Tail(q)) = Len(q)
         /\ (<<m>> \o Tail(q))[1] = m
         /\ \A i \in 1..Len(q) : /\ i # 1 => (<<m>> \o Tail(q))[i] = q[i]
                                 /\ After(<<m>> \o Tail(q), i) = After(q, i)
  <1>. DEFINE c == <<m>> \o Tail(q)
  <1>. DEFINE t == Tail(q)
  <1>1. /\ t \in Seq(M) /\ Len(t) = Len(q) - 1 /\ \A j \in 1..Len(t) : t[j] = q[j + 1]
        /\ Len(q) \in Nat
    BY HeadTailProperties, LenProperties
  <1>. HIDE DEF t
  <1>2. <<m>> \in Seq(M) /\ Len(<<m>>) = 1 /\ <<m>>[1] = m
    OBVIOUS
  <1>3. /\ c \in Seq(M) /\ Len(c) = Len(q)
        /\ \A i \in 1..Len(q) : c[i] = IF i <= 1 THEN <<m>>[i] ELSE t[i - 1]
    <2>1. /\ <<m>> \o t \in Seq(M) /\ Len(<<m>> \o t) = Len(<<m>>) + Len(t)
          /\ \A i \in 1..(Len(<<m>>) + Len(t)) :
               (<<m>> \o t)[i] = IF i <= Len(<<m>>) THEN <<m>>[i] ELSE t[i - Len(<<m>>)]
      BY <1>1, <1>2, ConcatProperties
    <2>2. Len(<<m>>) + Len(t) = Len(q) /\ c = <<m>> \o t
      BY <1>1, <1>2 DEF t
    <2>. QED
      BY <1>2, <2>1, <2>2
  <1>. HIDE DEF c
  <1>4. 1 \in 1..Len(q)
    BY <1>1, EmptySeq
  <1>5. c[1] = m
    BY <1>2, <1>3, <1>4
  <1>6. ASSUME NEW i \in 1..Len(q), i # 1 PROVE c[i] = q[i]
    <2>1. c[i] = t[i - 1]
      BY <1>3, <1>6
    <2>2. i - 1 \in 1..Len(t) /\ (i - 1) + 1 = i
      BY <1>1, <1>6
    <2>. QED
      BY <1>1, <2>1, <2>2
  <1>7. ASSUME NEW i \in 1..Len(q) PROVE After(c, i) = After(q, i)
    <2>. DEFINE a == After(c, i)
                b == After(q, i)
    <2>0. i \in 1..Len(c)
      BY <1>3
    <2>1. a \in Seq(M) /\ Len(a) = Len(c) - i /\ \A j \in 1..(Len(c) - i) : a[j] = c[i + j]
      BY ONLY <1>3, <2>0, AfterSeq
    <2>2. b \in Seq(M) /\ Len(b) = Len(q) - i /\ \A j \in 1..(Len(q) - i) : b[j] = q[i + j]
      BY AfterSeq
    <2>. HIDE DEF a, b
    <2>3. ASSUME NEW j \in 1..Len(a) PROVE a[j] = b[j]
      <3>1. j \in 1..(Len(q) - i) /\ i + j \in 1..Len(q) /\ i + j # 1
        BY <1>1, <1>3, <2>1
      <3>. QED
        BY <1>3, <1>6, <2>1, <2>2, <3>1
    <2>4. a = b
      BY <1>3, <2>1, <2>2, <2>3, SeqEqual
    <2>. QED
      BY <2>4 DEF a, b
  <1>. QED
    BY <1>3, <1>5, <1>6, <1>7 DEF c

(* A frame joins at the end. *)
LEMMA AfterAppend ==
  ASSUME NEW M, NEW q \in Seq(M), NEW m \in M
  PROVE  /\ Append(q, m) \in Seq(M) /\ Len(Append(q, m)) = Len(q) + 1
         /\ Append(q, m)[Len(q) + 1] = m /\ After(Append(q, m), Len(q) + 1) = <<>>
         /\ \A i \in 1..Len(q) : /\ Append(q, m)[i] = q[i]
                                 /\ After(Append(q, m), i) = Append(After(q, i), m)
  <1>. DEFINE c == Append(q, m)
  <1>1. /\ c \in Seq(M) /\ Len(c) = Len(q) + 1 /\ Len(q) \in Nat
        /\ \A i \in 1..Len(q) : c[i] = q[i]
        /\ c[Len(q) + 1] = m
    BY AppendProperties, LenProperties
  <1>. HIDE DEF c
  <1>2. After(c, Len(q) + 1) = <<>>
    BY <1>1, SubSeqEmpty DEF After
  <1>3. ASSUME NEW i \in 1..Len(q) PROVE After(c, i) = Append(After(q, i), m)
    <2>. DEFINE a == After(q, i)
                b == After(c, i)
                d == Append(a, m)
    <2>1. i \in 1..Len(c)
      BY <1>1
    <2>2. b \in Seq(M) /\ Len(b) = Len(c) - i /\ \A j \in 1..(Len(c) - i) : b[j] = c[i + j]
      BY ONLY <1>1, <2>1, AfterSeq
    <2>3. a \in Seq(M) /\ Len(a) = Len(q) - i /\ \A j \in 1..(Len(q) - i) : a[j] = q[i + j]
      BY AfterSeq
    <2>0. d = Append(a, m)
      OBVIOUS
    <2>. HIDE DEF a, b, d
    <2>4. /\ d \in Seq(M) /\ Len(d) = Len(a) + 1
          /\ \A j \in 1..Len(a) : d[j] = a[j]
          /\ d[Len(a) + 1] = m
      <3>1. ASSUME NEW x \in Seq(M), NEW y, y = Append(x, m)
            PROVE  /\ y \in Seq(M) /\ Len(y) = Len(x) + 1
                   /\ \A j \in 1..Len(x) : y[j] = x[j]
                   /\ y[Len(x) + 1] = m
        BY <3>1, AppendProperties
      <3>. QED
        BY <2>0, <2>3, <3>1, Zenon
    <2>5. Len(b) = Len(d)
      BY <1>1, <2>2, <2>3, <2>4
    <2>6. ASSUME NEW j \in 1..Len(b) PROVE b[j] = d[j]
      <3>1. /\ j \in Nat /\ 1 <= j /\ j <= Len(q) + 1 - i /\ b[j] = c[i + j]
            /\ i \in Nat /\ 1 <= i /\ i <= Len(q)
        BY <1>1, <2>2
      <3>2. CASE j <= Len(q) - i
        <4>1. j \in 1..Len(a) /\ j \in 1..(Len(q) - i) /\ i + j \in 1..Len(q)
          BY <1>1, <2>3, <3>1, <3>2
        <4>. QED
          BY <1>1, <2>3, <2>4, <3>1, <4>1
      <3>3. CASE ~(j <= Len(q) - i)
        <4>0. Len(a) = Len(q) - i /\ Len(q) \in Nat
          BY <1>1, <2>3
        <4>1. j = Len(a) + 1 /\ i + j = Len(q) + 1
          BY ONLY <3>1, <3>3, <4>0
        <4>. QED
          BY <1>1, <2>4, <3>1, <4>1
      <3>. QED
        BY <3>2, <3>3
    <2>7. b = d
      BY <2>2, <2>4, <2>5, <2>6, SeqEqual
    <2>. QED
      BY <2>7 DEF a, b, d
  <1>. QED
    BY <1>1, <1>2, <1>3 DEF c

(* They weigh no more than all of the queue, *)
LEMMA AfterWeight ==
  ASSUME NEW M, NEW F \in [M -> Nat], NEW q \in Seq(M), NEW i \in 1..Len(q)
  PROVE  Weight(F, After(q, i)) \in Nat /\ Weight(F, After(q, i)) <= Weight(F, q)
  <1>. DEFINE a == SubSeq(q, 1, i)
              b == After(q, i)
  <1>1. Len(q) \in Nat /\ i \in Nat /\ i <= Len(q)
    BY LenProperties
  <1>2. \A k \in 1..i : q[k] \in M
    BY <1>1, ElementOfSeq
  <1>3. a \in Seq(M) /\ b \in Seq(M)
    BY <1>1, <1>2, SubSeqProperties, AfterSeq
  <1>4. a \o b = q
    <2>1. 1 \in 1..(Len(q) + 1) /\ i \in (1 - 1)..Len(q) /\ Len(q) \in i..Len(q)
      BY <1>1
    <2>2. SubSeq(q, 1, i) \o SubSeq(q, i + 1, Len(q)) = SubSeq(q, 1, Len(q))
      BY <2>1, ConcatAdjacentSubSeq
    <2>. QED
      BY <2>2, SubSeqFull DEF After
  <1>. HIDE DEF a, b
  <1>5. Weight(F, a \o b) = Weight(F, a) + Weight(F, b)
    BY <1>3, WeightConcat
  <1>6. Weight(F, a) \in Nat /\ Weight(F, b) \in Nat
    BY <1>3, WeightType
  <1>. QED
    BY <1>4, <1>5, <1>6 DEF b

(* and behind the first one is all the rest. *)
LEMMA AfterFirst ==
  ASSUME NEW M, NEW q \in Seq(M), q # <<>>
  PROVE  1 \in 1..Len(q) /\ q[1] = Head(q) /\ After(q, 1) = Tail(q)
  <1>1. Len(q) \in Nat /\ Len(q) # 0
    BY LenProperties, EmptySeq
  <1>. QED
    BY <1>1, TailIsSubSeq DEF After
-----------------------------------------------------------------------------
(* The settings the receiver counts with once k of those that are on their *)
(* way are acknowledged: i now, and then those of q.                       *)
Setting(i, q, k) == IF k = 0 THEN i ELSE q[k]

(* How many of them the sender has received. *)
Known == Len(inflight) - Len(urgent) - Weight(SettingsF, back)

(* When a DATA frame of an open stream comes in, the receiver has heard    *)
(* the acknowledgements in front of it, and not those behind it: with the  *)
(* settings of that moment there is room for the frame, and for all that   *)
(* was sent before it.                                                     *)
FrameFits ==
  \A i \in 1..Len(fwd) : fwd[i].type = "DATA" /\ state[fwd[i].s] = "OPEN" =>
    Setting(initialL, inflight, Known - acks - Weight(AckF, After(fwd, i))) + granted[fwd[i].s]
      >= sent[fwd[i].s] - Weight(DataF(fwd[i].s), After(fwd, i))

(* The frame being sent is in front of the acknowledgements still to send. *)
BeingSentFits ==
  aob # None /\ state[aob.s] = "OPEN" =>
    Setting(initialL, inflight, Known - acks) + granted[aob.s] >= sent[aob.s] + aob.len

(* The sender's settings are the last it received, *)
KnownSetting == initialR = Setting(initialL, inflight, Known)

(* and the ones it will receive are the last of the receiver's, in order. *)
SettingsInOrder ==
  /\ \A i \in 1..Len(back) : back[i].type = "SETTINGS" =>
       back[i].value = Setting(initialL, inflight,
                         Len(inflight) - Len(urgent) - Weight(SettingsF, After(back, i)))
  /\ \A j \in 1..Len(urgent) :
       urgent[j] = Setting(initialL, inflight, Len(inflight) - Len(urgent) + j)

(* No window is larger than the largest. *)
LocalsBounded == ~error => \A w \in Windows : win[w].local <= MaxWindow

OrderInv == FrameFits /\ BeingSentFits /\ KnownSetting /\ SettingsInOrder /\ LocalsBounded

(* The setting behind a frame is the current one or one of those on their way. *)
LEMMA SettingType ==
  ASSUME NEW i \in Nat, NEW q \in Seq(Nat), NEW k \in 0..Len(q)
  PROVE  Setting(i, q, k) \in Nat
  <1>1. k # 0 => q[k] \in Nat
    BY LenProperties, ElementOfSeq
  <1>. QED
    BY <1>1 DEF Setting

(* What the accounts say of the numbers of settings. *)
LEMMA SettingCounts ==
  ASSUME IndInv
  PROVE  /\ Known = acks + Weight(AckF, fwd) /\ acks \in Nat /\ Weight(AckF, fwd) \in Nat
         /\ Known \in Nat /\ Known <= Len(inflight) - Len(urgent)
         /\ Len(inflight) \in Nat /\ Len(urgent) \in Nat /\ Weight(SettingsF, back) \in Nat
         /\ \A i \in 1..Len(fwd) : /\ Weight(AckF, After(fwd, i)) \in Nat
                                   /\ Weight(AckF, After(fwd, i)) <= Weight(AckF, fwd)
         /\ \A i \in 1..Len(back) :
              /\ Weight(SettingsF, After(back, i)) \in Nat
              /\ Weight(SettingsF, After(back, i)) <= Weight(SettingsF, back)
  <1>0. Types
    BY DEF IndInv
  <1>1. /\ fwd \in Seq(Forward) /\ back \in Seq(Backward) /\ inflight \in Seq(Nat)
        /\ urgent \in Seq(Nat) /\ acks \in Nat
    BY <1>0, TypeFacts
  <1>2. /\ Weight(AckF, fwd) \in Nat /\ Weight(SettingsF, back) \in Nat
        /\ Len(inflight) \in Nat /\ Len(urgent) \in Nat
    BY <1>1, ForwardQueue, BackwardQueue, LenProperties
  <1>3. Len(inflight) = Len(urgent) + Weight(SettingsF, back) + acks + Weight(AckF, fwd)
    BY DEF IndInv, SettingsAccount
  <1>4. /\ Known = acks + Weight(AckF, fwd) /\ Known \in Nat
        /\ Known <= Len(inflight) - Len(urgent)
    BY <1>1, <1>2, <1>3 DEF Known
  <1>5. ASSUME NEW i \in 1..Len(fwd)
        PROVE  /\ Weight(AckF, After(fwd, i)) \in Nat
               /\ Weight(AckF, After(fwd, i)) <= Weight(AckF, fwd)
    BY <1>1, FrameWeights, AfterWeight
  <1>6. ASSUME NEW i \in 1..Len(back)
        PROVE  /\ Weight(SettingsF, After(back, i)) \in Nat
               /\ Weight(SettingsF, After(back, i)) <= Weight(SettingsF, back)
    BY <1>1, FrameWeights, AfterWeight
  <1>. QED
    BY <1>1, <1>2, <1>4, <1>5, <1>6

(* The credit announced for a window never shrinks. *)
Grown == /\ granted \in [Windows -> Nat] /\ granted' \in [Windows -> Nat]
         /\ \A w \in Windows : granted'[w] >= granted[w]

(* A step that leaves alone the DATA and the acknowledgements on their way. *)
LEMMA FrameFitsKept ==
  ASSUME IndInv, FrameFits, NoneOpened, Grown, UNCHANGED <<fwd, sent>>,
         Known' - acks' = Known - acks,
         \A k \in 0..Len(inflight) :
           Setting(initialL', inflight', k) = Setting(initialL, inflight, k)
  PROVE  FrameFits'
  <1>0. Types
    BY DEF IndInv
  <1>1. /\ fwd \in Seq(Forward) /\ initialL \in Nat /\ inflight \in Seq(Nat)
        /\ sent \in [Windows -> Nat]
    BY <1>0, TypeFacts
  <1>2. \A i \in 1..Len(fwd) : Known - acks - Weight(AckF, After(fwd, i)) \in 0..Len(inflight)
    BY SettingCounts
  <1>. SUFFICES ASSUME NEW i \in 1..Len(fwd), fwd[i].type = "DATA",
                       state'[fwd[i].s] = "OPEN"
                PROVE  Setting(initialL', inflight',
                               Known' - acks' - Weight(AckF, After(fwd, i))) + granted'[fwd[i].s]
                         >= sent[fwd[i].s] - Weight(DataF(fwd[i].s), After(fwd, i))
    BY DEF FrameFits
  <1>. DEFINE s == fwd[i].s
              k == Known - acks - Weight(AckF, After(fwd, i))
              x == Setting(initialL, inflight, k)
              d == Weight(DataF(s), After(fwd, i))
  <1>3. fwd[i] \in Forward
    BY <1>1, ElementOfSeq
  <1>4. s \in Streams /\ s \in Windows
    BY <1>3, KindWeights, WindowFacts
  <1>5. state[s] = "OPEN"
    BY <1>4 DEF NoneOpened
  <1>6. x + granted[s] >= sent[s] - d
    BY <1>5 DEF FrameFits
  <1>7. k \in 0..Len(inflight)
    BY <1>2
  <1>8. Setting(initialL', inflight', Known' - acks' - Weight(AckF, After(fwd, i))) = x
    BY <1>7
  <1>. HIDE DEF k, s
  <1>9. x \in Nat
    BY <1>1, <1>7, SettingType
  <1>10. d \in Nat
    BY <1>1, FrameWeights, AfterWeight
  <1>11. granted[s] \in Nat /\ granted'[s] \in Nat /\ granted'[s] >= granted[s] /\ sent[s] \in Nat
    BY <1>1, <1>4 DEF Grown
  <1>. HIDE DEF x, d
  <1>12. x + granted'[s] >= sent[s] - d
    BY <1>6, <1>9, <1>10, <1>11
  <1>. QED
    BY <1>8, <1>12 DEF s, d

(* And the frame being sent. *)
LEMMA BeingSentKept ==
  ASSUME IndInv, BeingSentFits, NoneOpened, Grown, UNCHANGED <<sent, aob>>,
         Known' - acks' = Known - acks,
         \A k \in 0..Len(inflight) :
           Setting(initialL', inflight', k) = Setting(initialL, inflight, k)
  PROVE  BeingSentFits'
  <1>0. Types
    BY DEF IndInv
  <1>1. initialL \in Nat /\ inflight \in Seq(Nat) /\ sent \in [Windows -> Nat]
    BY <1>0, TypeFacts
  <1>2. Known - acks \in 0..Len(inflight)
    BY SettingCounts
  <1>. SUFFICES ASSUME aob # None, state'[aob.s] = "OPEN"
                PROVE  Setting(initialL', inflight', Known' - acks') + granted'[aob.s]
                         >= sent[aob.s] + aob.len
    BY DEF BeingSentFits
  <1>. DEFINE s == aob.s
              x == Setting(initialL, inflight, Known - acks)
  <1>3. s \in Streams /\ s \in Windows /\ aob.len \in Nat
    BY <1>0, AobFacts, WindowFacts
  <1>4. state[s] = "OPEN"
    BY <1>3 DEF NoneOpened
  <1>5. x + granted[s] >= sent[s] + aob.len
    BY <1>4 DEF BeingSentFits
  <1>6. Setting(initialL', inflight', Known' - acks') = x
    BY <1>2
  <1>7. x \in Nat
    BY <1>1, <1>2, SettingType
  <1>8. granted[s] \in Nat /\ granted'[s] \in Nat /\ granted'[s] >= granted[s] /\ sent[s] \in Nat
    BY <1>1, <1>3 DEF Grown
  <1>. HIDE DEF x, s
  <1>9. x + granted'[s] >= sent[s] + aob.len
    BY <1>3, <1>5, <1>7, <1>8
  <1>. QED
    BY <1>6, <1>9 DEF s

(* A frame that is not SETTINGS joins those on their way to the sender. *)
LEMMA OtherAppended ==
  ASSUME NEW q \in Seq(Backward), NEW m \in Backward, m.type # "SETTINGS"
  PROVE  /\ Weight(SettingsF, Append(q, m)) = Weight(SettingsF, q)
         /\ \A i \in 1..Len(Append(q, m)) : Append(q, m)[i].type = "SETTINGS" =>
              /\ i \in 1..Len(q) /\ Append(q, m)[i] = q[i]
              /\ Weight(SettingsF, After(Append(q, m), i)) = Weight(SettingsF, After(q, i))
  <1>. DEFINE b == Append(q, m)
  <1>1. SettingsF[m] = 0
    BY DEF SettingsF
  <1>2. /\ Len(b) = Len(q) + 1 /\ b[Len(q) + 1] = m
        /\ \A i \in 1..Len(q) : b[i] = q[i] /\ After(b, i) = Append(After(q, i), m)
    BY AfterAppend
  <1>. HIDE DEF b
  <1>3. Weight(SettingsF, q) \in Nat /\ Len(q) \in Nat
    BY BackwardQueue, LenProperties
  <1>4. Weight(SettingsF, b) = Weight(SettingsF, q)
    BY <1>1, <1>3, BackwardAppend DEF b
  <1>5. ASSUME NEW i \in 1..Len(b), b[i].type = "SETTINGS"
        PROVE  /\ i \in 1..Len(q) /\ b[i] = q[i]
               /\ Weight(SettingsF, After(b, i)) = Weight(SettingsF, After(q, i))
    <2>1. i # Len(q) + 1
      BY <1>2, <1>5
    <2>2. i \in 1..Len(q)
      BY <1>2, <1>3, <2>1
    <2>. DEFINE a == After(q, i)
    <2>3. a \in Seq(Backward)
      BY <2>2, AfterSeq
    <2>. HIDE DEF a
    <2>4. Weight(SettingsF, a) \in Nat
      BY <2>3, BackwardQueue
    <2>5. Weight(SettingsF, Append(a, m)) = Weight(SettingsF, a)
      BY <1>1, <2>3, <2>4, BackwardAppend
    <2>6. b[i] = q[i] /\ After(b, i) = Append(a, m)
      BY <1>2, <2>2 DEF a
    <2>. QED
      BY <2>2, <2>5, <2>6 DEF a
  <1>. QED
    BY <1>4, <1>5 DEF b

(* A step that leaves alone the SETTINGS. *)
LEMMA OrderKept ==
  ASSUME IndInv, KnownSetting, SettingsInOrder,
         UNCHANGED <<inflight, urgent, initialL, initialR>>,
         \/ back' = back
         \/ \E m \in Backward : m.type # "SETTINGS" /\ back' = Append(back, m)
         \/ back # <<>> /\ Head(back).type # "SETTINGS" /\ back' = Tail(back)
  PROVE  Known' = Known /\ KnownSetting' /\ SettingsInOrder'
  <1>. DEFINE Value(b, i) ==
                b[i].value = Setting(initialL, inflight,
                               Len(inflight) - Len(urgent) - Weight(SettingsF, After(b, i)))
  <1>0. Types
    BY DEF IndInv
  <1>1. back \in Seq(Backward) /\ \A i \in 1..Len(back) : back[i].type = "SETTINGS" => Value(back, i)
    BY <1>0, TypeFacts DEF SettingsInOrder
  <1>2. /\ Weight(SettingsF, back') = Weight(SettingsF, back)
        /\ \A i \in 1..Len(back') : back'[i].type = "SETTINGS" => Value(back', i)
    <2>1. CASE back' = back
      BY <1>1, <2>1
    <2>2. CASE \E m \in Backward : m.type # "SETTINGS" /\ back' = Append(back, m)
      <3>1. PICK m \in Backward : m.type # "SETTINGS" /\ back' = Append(back, m)
        BY <2>2
      <3>2. /\ Weight(SettingsF, back') = Weight(SettingsF, back)
            /\ \A i \in 1..Len(back') : back'[i].type = "SETTINGS" =>
                 /\ i \in 1..Len(back) /\ back'[i] = back[i]
                 /\ Weight(SettingsF, After(back', i)) = Weight(SettingsF, After(back, i))
        BY <1>1, <3>1, OtherAppended
      <3>. QED
        BY <1>1, <3>2
    <2>3. CASE back # <<>> /\ Head(back).type # "SETTINGS" /\ back' = Tail(back)
      <3>. DEFINE t == Tail(back)
      <3>1. Weight(SettingsF, t) = Weight(SettingsF, back)
        <4>1. Head(back) \in Backward
          BY <1>1, <2>3, HeadTailProperties
        <4>3. SettingsF[Head(back)] = 0
          BY <2>3, <4>1 DEF SettingsF
        <4>4. Weight(SettingsF, back) = SettingsF[Head(back)] + Weight(SettingsF, t)
              /\ Weight(SettingsF, t) \in Nat
          BY <1>1, <2>3, BackwardQueue
        <4>. QED
          BY <4>3, <4>4
      <3>2. ASSUME NEW i \in 1..Len(t), t[i].type = "SETTINGS" PROVE Value(t, i)
        <4>1. i + 1 \in 1..Len(back) /\ t[i] = back[i + 1] /\ After(t, i) = After(back, i + 1)
          BY <1>1, <2>3, AfterPop
        <4>2. Value(back, i + 1)
          BY <1>1, <3>2, <4>1
        <4>. QED
          BY <4>1, <4>2
      <3>. HIDE DEF t
      <3>3. back' = t
        BY <2>3 DEF t
      <3>. QED
        BY <3>1, <3>2, <3>3
    <2>. QED
      BY <2>1, <2>2, <2>3
  <1>3. Known' = Known
    BY <1>2 DEF Known
  <1>4. KnownSetting'
    BY <1>3 DEF KnownSetting
  <1>5. SettingsInOrder'
    BY <1>2 DEF SettingsInOrder
  <1>. QED
    BY <1>3, <1>4, <1>5

(* A step that leaves alone both. *)
LEMMA BothKept ==
  ASSUME IndInv, OrderInv, NoneOpened, Grown, LocalsBounded',
         UNCHANGED <<inflight, urgent, initialL, initialR, acks, fwd, sent, aob>>,
         \/ back' = back
         \/ \E m \in Backward : m.type # "SETTINGS" /\ back' = Append(back, m)
         \/ back # <<>> /\ Head(back).type # "SETTINGS" /\ back' = Tail(back)
  PROVE  OrderInv'
  <1>1. Known' = Known /\ KnownSetting' /\ SettingsInOrder'
    BY OrderKept DEF OrderInv
  <1>2. FrameFits' /\ BeingSentFits'
    BY <1>1, FrameFitsKept, BeingSentKept DEF OrderInv
  <1>. QED
    BY <1>1, <1>2 DEF OrderInv

(* A step of the sender announces nothing. *)
LEMMA SenderGrown ==
  ASSUME IndInv, UNCHANGED receiver
  PROVE  Grown /\ NoneOpened
  <1>1. granted \in [Windows -> Nat]
    BY TypeFacts DEF IndInv
  <1>2. granted' = granted /\ state' = state
    BY DEF receiver
  <1>. QED
    BY <1>1, <1>2 DEF Grown, NoneOpened

LEMMA SenderBounded ==
  ASSUME LocalsBounded, ~error, UNCHANGED receiver
  PROVE  LocalsBounded'
  BY DEF LocalsBounded, receiver

LEMMA PrepDeferredOrder ==
  ASSUME IndInv, OrderInv, ~error, NEW s \in Streams, PrepDeferred(s)
  PROVE  OrderInv'
  <1>1. /\ UNCHANGED receiver
        /\ UNCHANGED <<inflight, urgent, initialL, initialR, acks, fwd, sent, aob, back>>
    BY DEF PrepDeferred, receiver
  <1>2. LocalsBounded
    BY DEF OrderInv
  <1>. QED
    BY <1>1, <1>2, SenderGrown, SenderBounded, BothKept

LEMMA RecvWindowUpdateOrder ==
  ASSUME IndInv, OrderInv, ~error, RecvWindowUpdate
  PROVE  OrderInv'
  <1>1. /\ UNCHANGED receiver
        /\ UNCHANGED <<inflight, urgent, initialL, initialR, acks, fwd, sent, aob>>
        /\ back # <<>> /\ Head(back).type # "SETTINGS" /\ back' = Tail(back)
    BY DEF RecvWindowUpdate, receiver
  <1>2. LocalsBounded
    BY DEF OrderInv
  <1>. QED
    BY <1>1, <1>2, SenderGrown, SenderBounded, BothKept

LEMMA RecvRstStreamOrder ==
  ASSUME IndInv, OrderInv, ~error, RecvRstStream
  PROVE  OrderInv'
  <1>1. /\ UNCHANGED receiver
        /\ UNCHANGED <<inflight, urgent, initialL, initialR, acks, fwd, sent, aob>>
        /\ back # <<>> /\ Head(back).type # "SETTINGS" /\ back' = Tail(back)
    BY DEF RecvRstStream, receiver
  <1>2. LocalsBounded
    BY DEF OrderInv
  <1>. QED
    BY <1>1, <1>2, SenderGrown, SenderBounded, BothKept

(* A DATA frame is prepared: no acknowledgement waits, so the receiver will *)
(* have the sender's settings when it comes in.                             *)
LEMMA PrepDataOrder ==
  ASSUME IndInv, OrderInv, ~error, NEW s \in Streams, NEW n \in Nat, PrepData(s, n)
  PROVE  OrderInv'
  <1>0. Types
    BY DEF IndInv
  <1>1. /\ UNCHANGED <<receiver, fwd, sent, acks>>
        /\ UNCHANGED <<inflight, urgent, initialL, initialR, back>>
        /\ acks = 0 /\ s \notin gone /\ n \in 1..Lesser(next_data_read(s), left[s])
        /\ aob' = [s |-> s, len |-> n, end |-> n = left[s]]
    BY DEF PrepData, CanPop, receiver
  <1>2. Grown /\ NoneOpened /\ LocalsBounded'
    BY <1>1, SenderGrown, SenderBounded DEF OrderInv
  <1>3. Known' = Known /\ KnownSetting' /\ SettingsInOrder'
    BY <1>1, OrderKept DEF OrderInv
  <1>4. FrameFits'
    BY <1>1, <1>2, <1>3, FrameFitsKept DEF OrderInv
  <1>5. BeingSentFits'
    <2>1. aob'.s = s /\ aob'.len = n
      BY <1>1
    <2>. SUFFICES ASSUME state[s] = "OPEN"
                  PROVE  Setting(initialL, inflight, Known - 0) + granted[s] >= sent[s] + n
      BY <1>1, <1>3, <2>1 DEF BeingSentFits, receiver
    <2>2. s \in Windows /\ s # Conn /\ Live(s)
      BY WindowFacts DEF Live
    <2>3. /\ remote[s] = initialR + applied[s] - sent[s]
          /\ granted[s] = applied[s] + Weight(UpdateF(s), ob) + Weight(UpdateF(s), back)
      BY <1>1, <2>2 DEF IndInv, SenderAccount, UpdateAccount, Base
    <2>4. /\ remote[s] \in Int /\ remote[Conn] \in Int /\ applied[s] \in Nat /\ sent[s] \in Nat
          /\ initialR \in Nat /\ left[s] \in Nat
          /\ Weight(UpdateF(s), ob) \in Nat /\ Weight(UpdateF(s), back) \in Nat
      BY <1>0, <2>2, TypeFacts, WindowFacts, BackwardQueue
    <2>5. n <= remote[s]
      BY <1>1, <2>4, BoundsAssumption DEF next_data_read, Lesser
    <2>6. Setting(initialL, inflight, Known - 0) = initialR
      <3>1. Known - 0 = Known
        BY SettingCounts
      <3>. QED
        BY <3>1 DEF OrderInv, KnownSetting
    <2>. QED
      BY <2>3, <2>4, <2>5, <2>6
  <1>. QED
    BY <1>2, <1>3, <1>4, <1>5 DEF OrderInv

(* One more frame to the receiver: behind the others, it weighs on each. *)
LEMMA AfterPushed ==
  ASSUME NEW q \in Seq(Forward), NEW m \in Forward
  PROVE  /\ Len(Append(q, m)) = Len(q) + 1 /\ Append(q, m)[Len(q) + 1] = m /\ Len(q) \in Nat
         /\ Weight(AckF, After(Append(q, m), Len(q) + 1)) = 0
         /\ \A w : Weight(DataF(w), After(Append(q, m), Len(q) + 1)) = 0
         /\ \A i \in 1..Len(q) :
              /\ Append(q, m)[i] = q[i] /\ q[i] \in Forward
              /\ Weight(AckF, After(q, i)) \in Nat
              /\ Weight(AckF, After(Append(q, m), i)) = Weight(AckF, After(q, i)) + AckF[m]
              /\ \A w : /\ Weight(DataF(w), After(q, i)) \in Nat
                        /\ Weight(DataF(w), After(Append(q, m), i))
                             = Weight(DataF(w), After(q, i)) + DataF(w)[m]
  <1>. DEFINE c == Append(q, m)
  <1>1. /\ Len(c) = Len(q) + 1 /\ c[Len(q) + 1] = m /\ After(c, Len(q) + 1) = <<>>
        /\ \A i \in 1..Len(q) : c[i] = q[i] /\ After(c, i) = Append(After(q, i), m)
    BY AfterAppend
  <1>. HIDE DEF c
  <1>2. Len(q) \in Nat
    BY LenProperties
  <1>3. Weight(AckF, <<>>) = 0 /\ \A w : Weight(DataF(w), <<>>) = 0
    BY FrameWeights, WeightEmpty
  <1>4. ASSUME NEW i \in 1..Len(q)
        PROVE  /\ q[i] \in Forward
               /\ Weight(AckF, After(q, i)) \in Nat
               /\ Weight(AckF, After(c, i)) = Weight(AckF, After(q, i)) + AckF[m]
               /\ \A w : /\ Weight(DataF(w), After(q, i)) \in Nat
                         /\ Weight(DataF(w), After(c, i))
                              = Weight(DataF(w), After(q, i)) + DataF(w)[m]
    <2>. DEFINE a == After(q, i)
    <2>1. a \in Seq(Forward) /\ q[i] \in Forward
      BY AfterSeq, ElementOfSeq
    <2>2. After(c, i) = Append(a, m)
      BY <1>1
    <2>. HIDE DEF a
    <2>3. ASSUME NEW F \in [Forward -> Nat]
          PROVE  Weight(F, a) \in Nat /\ Weight(F, Append(a, m)) = Weight(F, a) + F[m]
      BY <2>1, WeightType, WeightAppend
    <2>4. /\ Weight(AckF, a) \in Nat /\ Weight(AckF, Append(a, m)) = Weight(AckF, a) + AckF[m]
          /\ \A w : /\ Weight(DataF(w), a) \in Nat
                    /\ Weight(DataF(w), Append(a, m)) = Weight(DataF(w), a) + DataF(w)[m]
      BY <2>3, FrameWeights
    <2>. QED
      BY <2>1, <2>2, <2>4 DEF a
  <1>. QED
    BY <1>1, <1>2, <1>3, <1>4 DEF c

(* It leaves. *)
LEMMA SentDataOrder ==
  ASSUME IndInv, OrderInv, ~error, SentData
  PROVE  OrderInv'
  <1>. DEFINE z == aob.s
              n == aob.len
              m == [type |-> "DATA", s |-> z, len |-> n, end |-> aob.end, reading |-> FALSE]
              K(x) == Setting(initialL, inflight, Known - acks - x)
  <1>0. Types
    BY DEF IndInv
  <1>1. aob # None /\ z \in Streams /\ z \in Windows /\ z # Conn /\ n \in Nat /\ aob.end \in BOOLEAN
    BY <1>0, AobFacts, WindowFacts DEF SentData
  <1>2. m \in Forward /\ m.type = "DATA" /\ m.s = z /\ m.len = n
    BY <1>1, NewFrames
  <1>3. /\ fwd' = Append(fwd, m) /\ aob' = None
        /\ sent' = [sent EXCEPT ![Conn] = @ + n, ![z] = @ + n]
        /\ UNCHANGED <<receiver, acks, inflight, urgent, initialL, initialR, back, granted, state>>
    BY DEF SentData, receiver
  <1>. HIDE DEF m
  <1>4. AckF[m] = 0 /\ \A w : DataF(w)[m] = IF w = Conn \/ w = z THEN n ELSE 0
    BY <1>2, KindWeights
  <1>5. /\ fwd \in Seq(Forward) /\ sent \in [Windows -> Nat] /\ initialL \in Nat
        /\ inflight \in Seq(Nat) /\ granted \in [Windows -> Nat]
    BY <1>0, TypeFacts
  <1>. HIDE DEF z, n
  <1>6. \A w \in Streams : sent'[w] = (IF w = z THEN sent[w] + n ELSE sent[w]) /\ sent[w] \in Nat
    BY <1>1, <1>3, <1>5, WindowFacts
  <1>7. Known' = Known /\ KnownSetting' /\ SettingsInOrder'
    BY <1>3, OrderKept DEF OrderInv
  <1>8. BeingSentFits'
    BY <1>3 DEF BeingSentFits
  <1>9. FrameFits'
    <2>. SUFFICES ASSUME NEW i \in 1..Len(fwd'), fwd'[i].type = "DATA",
                         state[fwd'[i].s] = "OPEN"
                  PROVE  K(Weight(AckF, After(fwd', i))) + granted[fwd'[i].s]
                           >= sent'[fwd'[i].s] - Weight(DataF(fwd'[i].s), After(fwd', i))
      BY <1>3, <1>7 DEF FrameFits
    <2>1. Len(fwd') = Len(fwd) + 1 /\ Len(fwd) \in Nat /\ fwd'[Len(fwd) + 1] = m
      BY <1>2, <1>3, <1>5, AfterPushed
    <2>2. CASE i = Len(fwd) + 1
      <3>1. /\ fwd'[i] = m /\ Weight(AckF, After(fwd', i)) = 0
            /\ Weight(DataF(z), After(fwd', i)) = 0
        BY <1>2, <1>3, <1>5, <2>1, <2>2, AfterPushed
      <3>2. K(0) = Setting(initialL, inflight, Known - acks)
        <4>1. Known - acks - 0 = Known - acks
          BY SettingCounts
        <4>. QED
          BY <4>1
      <3>. HIDE DEF K
      <3>3. K(0) + granted[z] >= sent[z] + n
        BY <1>1, <1>2, <3>1, <3>2 DEF OrderInv, BeingSentFits, z, n
      <3>4. sent'[z] = sent[z] + n /\ sent[z] \in Nat
        BY <1>1, <1>6
      <3>. QED
        BY <1>1, <1>2, <3>1, <3>3, <3>4
    <2>3. CASE i # Len(fwd) + 1
      <3>1. i \in 1..Len(fwd)
        BY <2>1, <2>3
      <3>. DEFINE s == fwd[i].s
                  d == Weight(DataF(s), After(fwd, i))
                  a == Weight(AckF, After(fwd, i))
      <3>2. /\ fwd'[i] = fwd[i] /\ fwd[i] \in Forward /\ d \in Nat /\ a \in Nat
            /\ Weight(AckF, After(fwd', i)) = a + AckF[m]
            /\ Weight(DataF(s), After(fwd', i)) = d + DataF(s)[m]
        BY <1>2, <1>3, <1>5, <3>1, AfterPushed
      <3>3. s \in Streams /\ s # Conn /\ s \in Windows
        BY <3>2, KindWeights, WindowFacts
      <3>4. K(a) + granted[s] >= sent[s] - d
        BY <3>1, <3>2 DEF OrderInv, FrameFits
      <3>5. K(a) \in Nat
        <4>. DEFINE b == Weight(AckF, fwd)
                    l == Len(inflight)
                    u == Len(urgent)
                    e == Known
        <4>1. /\ a \in Nat /\ a <= b /\ b \in Nat /\ e = acks + b /\ acks \in Nat
              /\ e <= l - u /\ l \in Nat /\ u \in Nat
          BY <3>1, SettingCounts
        <4>. HIDE DEF a, b, l, u, e
        <4>2. e - acks - a \in 0..l
          BY ONLY <4>1
        <4>. QED
          BY <1>5, <4>2, SettingType DEF a, e, l
      <3>. HIDE DEF s, d, a, K
      <3>6. Weight(AckF, After(fwd', i)) = a
        BY <1>4, <3>2
      <3>7. granted[s] \in Nat /\ sent[s] \in Nat
        BY <1>5, <3>3
      <3>8. K(a) + granted[s] >= sent'[s] - (d + DataF(s)[m])
        <4>1. CASE s = z
          BY <1>1, <1>4, <1>6, <3>2, <3>3, <3>4, <3>5, <3>7, <4>1
        <4>2. CASE s # z
          BY <1>1, <1>4, <1>6, <3>2, <3>3, <3>4, <3>5, <3>7, <4>2
        <4>. QED
          BY <4>1, <4>2
      <3>. QED
        BY <3>2, <3>6, <3>8 DEF s
    <2>. QED
      BY <2>2, <2>3
  <1>10. LocalsBounded'
    BY <1>3, SenderBounded DEF OrderInv
  <1>. QED
    BY <1>7, <1>8, <1>9, <1>10 DEF OrderInv

(* An acknowledgement leaves, behind all the DATA that was sent. *)
LEMMA SentAckOrder ==
  ASSUME IndInv, OrderInv, ~error, SentAck
  PROVE  OrderInv'
  <1>. DEFINE m == [type |-> "ACK"]
  <1>0. Types
    BY DEF IndInv
  <1>1. m \in Forward /\ m.type = "ACK"
    BY NewFrames
  <1>2. /\ fwd' = Append(fwd, m) /\ aob = None /\ aob' = None /\ acks' = acks - 1
        /\ UNCHANGED <<receiver, sent, inflight, urgent, initialL, initialR, back, granted, state>>
    BY DEF SentAck, receiver
  <1>. HIDE DEF m
  <1>3. AckF[m] = 1 /\ \A w : DataF(w)[m] = 0
    BY <1>1, KindWeights
  <1>4. fwd \in Seq(Forward) /\ acks \in Nat /\ Known \in Nat
    BY <1>0, TypeFacts, SettingCounts
  <1>5. Known' = Known /\ KnownSetting' /\ SettingsInOrder'
    BY <1>2, OrderKept DEF OrderInv
  <1>6. BeingSentFits'
    BY <1>2 DEF BeingSentFits
  <1>7. FrameFits'
    <2>. SUFFICES ASSUME NEW i \in 1..Len(fwd'), fwd'[i].type = "DATA",
                         state[fwd'[i].s] = "OPEN"
                  PROVE  Setting(initialL, inflight,
                                 Known - acks' - Weight(AckF, After(fwd', i))) + granted[fwd'[i].s]
                           >= sent[fwd'[i].s] - Weight(DataF(fwd'[i].s), After(fwd', i))
      BY <1>2, <1>5 DEF FrameFits
    <2>1. Len(fwd') = Len(fwd) + 1 /\ Len(fwd) \in Nat /\ fwd'[Len(fwd) + 1] = m
      BY <1>1, <1>2, <1>4, AfterPushed
    <2>2. i \in 1..Len(fwd)
      BY <1>1, <2>1
    <2>. DEFINE s == fwd[i].s
                d == Weight(DataF(s), After(fwd, i))
                a == Weight(AckF, After(fwd, i))
    <2>3. /\ fwd'[i] = fwd[i] /\ d \in Nat /\ a \in Nat
          /\ Weight(AckF, After(fwd', i)) = a + AckF[m]
          /\ Weight(DataF(s), After(fwd', i)) = d + DataF(s)[m]
      BY <1>1, <1>2, <1>4, <2>2, AfterPushed
    <2>4. Setting(initialL, inflight, Known - acks - a) + granted[s] >= sent[s] - d
      BY <2>2, <2>3 DEF OrderInv, FrameFits
    <2>. HIDE DEF s, d, a
    <2>5. /\ Weight(DataF(s), After(fwd', i)) = d
          /\ Known - acks' - Weight(AckF, After(fwd', i)) = Known - acks - a
      BY <1>2, <1>3, <1>4, <2>3
    <2>. QED
      BY <2>3, <2>4, <2>5 DEF s
  <1>8. LocalsBounded'
    BY <1>2, SenderBounded DEF OrderInv
  <1>. QED
    BY <1>5, <1>6, <1>7, <1>8 DEF OrderInv

(* SETTINGS is received, and an acknowledgement is queued for it. *)
LEMMA RecvSettingsOrder ==
  ASSUME IndInv, OrderInv, ~error, RecvSettings
  PROVE  OrderInv'
  <1>0. Types
    BY DEF IndInv
  <1>1. /\ back # <<>> /\ Head(back).type = "SETTINGS" /\ back' = Tail(back)
        /\ initialR' = Head(back).value /\ acks' = acks + 1
        /\ UNCHANGED <<receiver, fwd, sent, aob, inflight, urgent, initialL, granted, state>>
    BY DEF RecvSettings, receiver
  <1>2. Grown /\ NoneOpened /\ LocalsBounded'
    BY <1>1, SenderGrown, SenderBounded DEF OrderInv
  <1>3. back \in Seq(Backward) /\ acks \in Nat /\ Len(inflight) \in Nat /\ Len(urgent) \in Nat
    BY <1>0, TypeFacts, SettingCounts
  <1>4. /\ Weight(SettingsF, back) = 1 + Weight(SettingsF, back')
        /\ Weight(SettingsF, back') \in Nat
    BY <1>1, <1>3, BackwardPop
  <1>5. Known' = Known + 1 /\ Known \in Nat
    <2>1. Known \in Nat
      BY SettingCounts
    <2>2. /\ Known = Len(inflight) - Len(urgent) - Weight(SettingsF, back)
          /\ Known' = Len(inflight) - Len(urgent) - Weight(SettingsF, back')
      BY <1>1 DEF Known
    <2>. QED
      BY <1>3, <1>4, <2>1, <2>2
  <1>6. KnownSetting'
    <2>1. 1 \in 1..Len(back) /\ back[1] = Head(back) /\ After(back, 1) = back'
      BY <1>1, <1>3, AfterFirst
    <2>2. back[1].value = Setting(initialL, inflight,
                            Len(inflight) - Len(urgent) - Weight(SettingsF, After(back, 1)))
      BY <1>1, <2>1 DEF OrderInv, SettingsInOrder
    <2>3. Known' = Len(inflight) - Len(urgent) - Weight(SettingsF, back')
      BY <1>1 DEF Known
    <2>. QED
      BY <1>1, <2>1, <2>2, <2>3 DEF KnownSetting
  <1>7. SettingsInOrder'
    <2>1. ASSUME NEW i \in 1..Len(back'), back'[i].type = "SETTINGS"
          PROVE  back'[i].value = Setting(initialL, inflight,
                   Len(inflight) - Len(urgent) - Weight(SettingsF, After(back', i)))
      <3>1. i + 1 \in 1..Len(back) /\ back'[i] = back[i + 1] /\ After(back', i) = After(back, i + 1)
        BY <1>1, <1>3, AfterPop
      <3>. QED
        BY <2>1, <3>1 DEF OrderInv, SettingsInOrder
    <2>. QED
      BY <1>1, <2>1 DEF OrderInv, SettingsInOrder
  <1>8. Known' - acks' = Known - acks
    BY <1>1, <1>3, <1>5
  <1>9. FrameFits' /\ BeingSentFits'
    BY <1>1, <1>2, <1>8, FrameFitsKept, BeingSentKept DEF OrderInv
  <1>. QED
    BY <1>2, <1>6, <1>7, <1>9 DEF OrderInv

(* The application asks for other settings. *)
LEMMA SubmitSettingsOrder ==
  ASSUME IndInv, OrderInv, ~error, NEW v \in Nat, SubmitSettings(v)
  PROVE  OrderInv'
  <1>0. Types
    BY DEF IndInv
  <1>1. /\ inflight' = Append(inflight, v) /\ urgent' = Append(urgent, v)
        /\ UNCHANGED <<error, win, fwd, back, acks, sent, aob, initialL, initialR, granted, state>>
    BY DEF SubmitSettings, sender
  <1>2. /\ inflight \in Seq(Nat) /\ urgent \in Seq(Nat) /\ granted \in [Windows -> Nat]
        /\ \A w \in Windows : granted[w] \in Nat
    BY <1>0, TypeFacts
  <1>3. /\ Len(inflight') = Len(inflight) + 1 /\ Len(urgent') = Len(urgent) + 1
        /\ \A i \in 1..Len(inflight) : inflight'[i] = inflight[i]
        /\ \A i \in 1..Len(urgent) : urgent'[i] = urgent[i]
        /\ inflight'[Len(inflight) + 1] = v /\ urgent'[Len(urgent) + 1] = v
    BY <1>1, <1>2, AppendProperties
  <1>4. Grown /\ NoneOpened
    BY <1>1, <1>2 DEF Grown, NoneOpened
  <1>5. Len(inflight) \in Nat /\ Len(urgent) \in Nat /\ Weight(SettingsF, back) \in Nat
    BY SettingCounts
  <1>6. Known' = Known /\ Known \in 0..Len(inflight)
    BY <1>1, <1>3, <1>5, SettingCounts DEF Known
  <1>7. \A k \in 0..Len(inflight) :
          Setting(initialL', inflight', k) = Setting(initialL, inflight, k)
    BY <1>1, <1>3, <1>5 DEF Setting
  <1>8. FrameFits' /\ BeingSentFits'
    BY <1>1, <1>4, <1>6, <1>7, FrameFitsKept, BeingSentKept DEF OrderInv
  <1>9. KnownSetting'
    BY <1>1, <1>6, <1>7 DEF OrderInv, KnownSetting
  <1>10. SettingsInOrder'
    <2>1. ASSUME NEW i \in 1..Len(back), back[i].type = "SETTINGS"
          PROVE  back[i].value = Setting(initialL', inflight',
                   Len(inflight') - Len(urgent') - Weight(SettingsF, After(back, i)))
      <3>. DEFINE k == Len(inflight) - Len(urgent) - Weight(SettingsF, After(back, i))
      <3>0. /\ Weight(SettingsF, After(back, i)) \in Nat
            /\ Weight(SettingsF, After(back, i)) <= Weight(SettingsF, back)
        BY SettingCounts
      <3>1. k \in 0..Len(inflight)
        BY <1>5, <1>6, <3>0 DEF Known
      <3>2. Len(inflight') - Len(urgent') - Weight(SettingsF, After(back, i)) = k
        BY <1>3, <1>5, <3>0
      <3>3. back[i].value = Setting(initialL, inflight, k)
        BY <2>1 DEF OrderInv, SettingsInOrder
      <3>. HIDE DEF k
      <3>. QED
        BY <1>7, <3>1, <3>2, <3>3
    <2>2. ASSUME NEW j \in 1..Len(urgent')
          PROVE  urgent'[j] = Setting(initialL', inflight', Len(inflight') - Len(urgent') + j)
      <3>1. Len(inflight') - Len(urgent') + j = Len(inflight) - Len(urgent) + j
        BY <1>3, <1>5
      <3>2. CASE j = Len(urgent) + 1
        <4>1. Len(inflight) - Len(urgent) + j = Len(inflight) + 1
          BY <1>5, <3>2
        <4>2. Setting(initialL', inflight', Len(inflight) + 1) = v
          BY <1>3, <1>5 DEF Setting
        <4>. QED
          BY <1>3, <3>1, <3>2, <4>1, <4>2
      <3>3. CASE j # Len(urgent) + 1
        <4>1. j \in 1..Len(urgent)
          BY <1>3, <1>5, <3>3
        <4>2. Len(inflight) - Len(urgent) + j \in 0..Len(inflight)
          BY <1>5, <4>1, SettingCounts
        <4>3. urgent[j] = Setting(initialL, inflight, Len(inflight) - Len(urgent) + j)
          BY <4>1 DEF OrderInv, SettingsInOrder
        <4>. QED
          BY <1>3, <1>7, <3>1, <4>1, <4>2, <4>3
      <3>. QED
        BY <3>2, <3>3
    <2>. QED
      BY <1>1, <2>1, <2>2 DEF SettingsInOrder
  <1>11. LocalsBounded'
    BY <1>1 DEF OrderInv, LocalsBounded
  <1>. QED
    BY <1>8, <1>9, <1>10, <1>11 DEF OrderInv

(* SETTINGS leaves. *)
LEMMA SentSettingsOrder ==
  ASSUME IndInv, OrderInv, ~error, SentSettings
  PROVE  OrderInv'
  <1>. DEFINE m == [type |-> "SETTINGS", value |-> Head(urgent)]
  <1>0. Types
    BY DEF IndInv
  <1>1. /\ urgent # <<>> /\ urgent' = Tail(urgent) /\ back' = Append(back, m)
        /\ UNCHANGED <<error, win, fwd, acks, sent, aob, initialL, initialR, inflight, granted, state>>
    BY DEF SentSettings, sender
  <1>2. /\ inflight \in Seq(Nat) /\ urgent \in Seq(Nat) /\ granted \in [Windows -> Nat]
        /\ \A w \in Windows : granted[w] \in Nat
        /\ back \in Seq(Backward)
    BY <1>0, TypeFacts
  <1>3. /\ Head(urgent) \in Nat /\ Len(urgent') = Len(urgent) - 1
        /\ \A i \in 1..Len(urgent') : urgent'[i] = urgent[i + 1]
        /\ 1 \in 1..Len(urgent) /\ urgent[1] = Head(urgent)
    BY <1>1, <1>2, HeadTailProperties, AfterFirst
  <1>4. m \in Backward /\ SettingsF[m] = 1 /\ m.value = Head(urgent)
    BY <1>3, NewFrames, KindWeights
  <1>. HIDE DEF m
  <1>5. Grown /\ NoneOpened
    BY <1>1, <1>2 DEF Grown, NoneOpened
  <1>6. Len(inflight) \in Nat /\ Len(urgent) \in Nat /\ Weight(SettingsF, back) \in Nat
    BY SettingCounts
  <1>7. Weight(SettingsF, back') = Weight(SettingsF, back) + 1
    BY <1>1, <1>2, <1>4, BackwardAppend
  <1>8. Known' = Known
    BY <1>1, <1>3, <1>6, <1>7 DEF Known
  <1>9. FrameFits' /\ BeingSentFits'
    BY <1>1, <1>5, <1>8, FrameFitsKept, BeingSentKept DEF OrderInv
  <1>10. KnownSetting'
    BY <1>1, <1>8 DEF OrderInv, KnownSetting
  <1>11. SettingsInOrder'
    <2>0. /\ Len(back') = Len(back) + 1 /\ back'[Len(back) + 1] = m
          /\ After(back', Len(back) + 1) = <<>> /\ Len(back) \in Nat
          /\ \A i \in 1..Len(back) :
               back'[i] = back[i] /\ After(back', i) = Append(After(back, i), m)
      BY <1>1, <1>2, <1>4, AfterAppend, LenProperties
    <2>1. ASSUME NEW i \in 1..Len(back'), back'[i].type = "SETTINGS"
          PROVE  back'[i].value = Setting(initialL, inflight,
                   Len(inflight) - Len(urgent') - Weight(SettingsF, After(back', i)))
      <3>1. CASE i = Len(back) + 1
        <4>1. Weight(SettingsF, After(back', i)) = 0
          BY <2>0, <3>1, FrameWeights, WeightEmpty
        <4>2. Len(inflight) - Len(urgent') - 0 = Len(inflight) - Len(urgent) + 1
          BY <1>3, <1>6
        <4>3. urgent[1] = Setting(initialL, inflight, Len(inflight) - Len(urgent) + 1)
          BY <1>3 DEF OrderInv, SettingsInOrder
        <4>. QED
          BY <1>3, <1>4, <2>0, <3>1, <4>1, <4>2, <4>3
      <3>2. CASE i # Len(back) + 1
        <4>1. i \in 1..Len(back)
          BY <2>0, <3>2
        <4>. DEFINE a == After(back, i)
        <4>2. a \in Seq(Backward)
          BY <1>2, <4>1, AfterSeq
        <4>3. back'[i] = back[i] /\ After(back', i) = Append(a, m)
          BY <2>0, <4>1
        <4>4. back[i].value = Setting(initialL, inflight,
                                Len(inflight) - Len(urgent) - Weight(SettingsF, a))
          BY <2>1, <4>1, <4>3 DEF OrderInv, SettingsInOrder
        <4>. HIDE DEF a
        <4>5. Weight(SettingsF, Append(a, m)) = Weight(SettingsF, a) + 1 /\ Weight(SettingsF, a) \in Nat
          BY <1>4, <4>2, BackwardAppend, BackwardQueue
        <4>6. Len(inflight) - Len(urgent') - Weight(SettingsF, After(back', i))
                = Len(inflight) - Len(urgent) - Weight(SettingsF, a)
          BY <1>3, <1>6, <4>3, <4>5
        <4>. QED
          BY <4>3, <4>4, <4>6
      <3>. QED
        BY <3>1, <3>2
    <2>2. ASSUME NEW j \in 1..Len(urgent')
          PROVE  urgent'[j] = Setting(initialL, inflight, Len(inflight) - Len(urgent') + j)
      <3>1. j + 1 \in 1..Len(urgent) /\ urgent'[j] = urgent[j + 1]
        BY <1>3, <1>6
      <3>2. Len(inflight) - Len(urgent') + j = Len(inflight) - Len(urgent) + (j + 1)
        BY <1>3, <1>6
      <3>3. urgent[j + 1] = Setting(initialL, inflight, Len(inflight) - Len(urgent) + (j + 1))
        BY <3>1 DEF OrderInv, SettingsInOrder
      <3>. QED
        BY <3>1, <3>2, <3>3
    <2>. QED
      BY <1>1, <2>1, <2>2 DEF SettingsInOrder
  <1>12. LocalsBounded'
    BY <1>1 DEF OrderInv, LocalsBounded
  <1>. QED
    BY <1>9, <1>10, <1>11, <1>12 DEF OrderInv

(* What a step announces, and where it leaves the windows. *)
LEMMA GrownBounded ==
  ASSUME IndInv, granted' \in [Windows -> Nat],
         \A w \in Windows : granted'[w] >= granted[w],
         ~error' => \A w \in Windows : win'[w].local <= MaxWindow
  PROVE  Grown /\ LocalsBounded'
  <1>1. granted \in [Windows -> Nat]
    BY TypeFacts DEF IndInv
  <1>. QED
    BY <1>1 DEF Grown, LocalsBounded

(* One window changes. *)
LEMMA ChangeGrown ==
  ASSUME IndInv, OrderInv, ~error, NEW v \in Windows, NEW r, r.win \in WinRec, r.inc \in Nat,
         r.win.local <= MaxWindow, Change(v, r)
  PROVE  Grown /\ LocalsBounded'
  <1>0. Types
    BY DEF IndInv
  <1>1. win \in [Windows -> WinRec] /\ granted \in [Windows -> Nat]
    BY <1>0, TypeFacts
  <1>2. win' = [win EXCEPT ![v] = r.win] /\ granted' = [granted EXCEPT ![v] = @ + r.inc]
    BY DEF Change
  <1>3. granted' \in [Windows -> Nat] /\ \A w \in Windows : granted'[w] >= granted[w]
    <2>1. ASSUME NEW w \in Windows PROVE granted'[w] >= granted[w]
      <3>1. granted[w] \in Nat
        BY <1>1
      <3>. QED
        BY <1>1, <1>2, <3>1
    <2>. QED
      BY <1>1, <1>2, <2>1
  <1>4. ASSUME NEW w \in Windows PROVE win'[w].local <= MaxWindow
    <2>1. win[w].local <= MaxWindow
      BY DEF OrderInv, LocalsBounded
    <2>2. win'[w] = IF w = v THEN r.win ELSE win[w]
      BY <1>1, <1>2
    <2>. QED
      BY <2>1, <2>2
  <1>. QED
    BY <1>3, <1>4, GrownBounded

(* Two change: the connection's and a stream's. *)
LEMMA TwoGrown ==
  ASSUME IndInv, OrderInv, ~error, NEW s \in Streams, NEW c, NEW x,
         c.win \in WinRec, c.inc \in Nat, x.win \in WinRec, x.inc \in Nat,
         c.win.local <= MaxWindow, x.win.local <= MaxWindow,
         win' = [win EXCEPT ![Conn] = c.win, ![s] = x.win],
         \A w \in Windows : granted'[w] = IF w = Conn THEN granted[w] + c.inc
                                          ELSE IF w = s THEN granted[w] + x.inc ELSE granted[w],
         granted' \in [Windows -> Nat]
  PROVE  Grown /\ LocalsBounded'
  <1>0. Types
    BY DEF IndInv
  <1>1. win \in [Windows -> WinRec] /\ granted \in [Windows -> Nat]
    BY <1>0, TypeFacts
  <1>2. ASSUME NEW w \in Windows PROVE granted'[w] >= granted[w]
    <2>1. granted[w] \in Nat
      BY <1>1
    <2>. QED
      BY <2>1
  <1>3. ASSUME NEW w \in Windows PROVE win'[w].local <= MaxWindow
    <2>1. win[w].local <= MaxWindow
      BY DEF OrderInv, LocalsBounded
    <2>2. win'[w] = IF w = s THEN x.win ELSE IF w = Conn THEN c.win ELSE win[w]
      BY <1>1
    <2>. QED
      BY <2>1, <2>2
  <1>. QED
    BY <1>2, <1>3, GrownBounded

(* The other frames keep their places when n bytes of the first come in. *)
LEMMA RestPlaces ==
  ASSUME Types, NEW n, Comes(n), NEW b \in BOOLEAN
  PROVE  \A i \in 1..Len(Rest(n, b)) : \E j \in 1..Len(fwd) :
           /\ Rest(n, b)[i].type = fwd[j].type
           /\ fwd[j].type = "DATA" => Rest(n, b)[i].s = fwd[j].s
           /\ After(Rest(n, b), i) = After(fwd, j)
  <1>. DEFINE h == Head(fwd)
              m == [h EXCEPT !.len = @ - n, !.reading = b]
  <1>1. fwd \in Seq(Forward) /\ fwd # <<>> /\ h.type = "DATA" /\ n \in 1..h.len
    BY TypeFacts DEF Comes
  <1>2. h \in Forward /\ 1 \in 1..Len(fwd) /\ fwd[1] = h
    BY <1>1, ForwardQueue, AfterFirst
  <1>3. Rest(n, b) = IF h.len = n THEN Tail(fwd) ELSE <<m>> \o Tail(fwd)
    BY DEF Rest
  <1>. HIDE DEF h
  <1>4. h \in DataFrame /\ h.len \in Nat
    BY <1>1, <1>2, KindWeights, KindFacts
  <1>5. CASE h.len = n
    <2>1. ASSUME NEW i \in 1..Len(Tail(fwd))
          PROVE  /\ i + 1 \in 1..Len(fwd) /\ Tail(fwd)[i] = fwd[i + 1]
                 /\ After(Tail(fwd), i) = After(fwd, i + 1)
      BY <1>1, AfterPop
    <2>. QED
      BY <1>3, <1>5, <2>1
  <1>6. CASE h.len # n
    <2>1. n \in Nat /\ h.len - n \in Nat
      BY <1>1, <1>4
    <2>2. m \in DataFrame /\ m.type = "DATA" /\ m.s = h.s
      BY <1>1, <1>4, <2>1, Zenon DEF DataFrame
    <2>. HIDE DEF m
    <2>3. m \in Forward
      BY <2>2, NewFrames
    <2>. DEFINE c == <<m>> \o Tail(fwd)
    <2>4. /\ Len(c) = Len(fwd) /\ c[1] = m
          /\ \A i \in 1..Len(fwd) : (i # 1 => c[i] = fwd[i]) /\ After(c, i) = After(fwd, i)
      BY <1>1, <2>3, AfterPut
    <2>5. Rest(n, b) = c
      BY <1>3, <1>6
    <2>. HIDE DEF c
    <2>6. ASSUME NEW i \in 1..Len(c)
          PROVE  \E j \in 1..Len(fwd) :
                   /\ c[i].type = fwd[j].type
                   /\ fwd[j].type = "DATA" => c[i].s = fwd[j].s
                   /\ After(c, i) = After(fwd, j)
      <3>1. CASE i = 1
        BY <1>1, <1>2, <2>2, <2>4, <3>1
      <3>2. CASE i # 1
        BY <2>4, <3>2
      <3>. QED
        BY <3>1, <3>2
    <2>. QED
      BY <2>5, <2>6
  <1>. QED
    BY <1>5, <1>6

(* Bytes of the first frame come in. *)
LEMMA ComesOrder ==
  ASSUME IndInv, OrderInv, ~error, NEW n, Comes(n), NEW b \in BOOLEAN, fwd' = Rest(n, b),
         Grown, LocalsBounded',
         UNCHANGED <<sender, initialL, inflight, urgent, state, back>>
  PROVE  OrderInv'
  <1>0. Types
    BY DEF IndInv
  <1>1. UNCHANGED <<initialR, acks, sent, aob>> /\ NoneOpened
    BY DEF sender, NoneOpened
  <1>2. Known' = Known /\ KnownSetting' /\ SettingsInOrder'
    BY <1>1, OrderKept DEF OrderInv
  <1>3. BeingSentFits'
    BY <1>1, <1>2, BeingSentKept DEF OrderInv
  <1>4. FrameFits'
    <2>. SUFFICES ASSUME NEW i \in 1..Len(fwd'), fwd'[i].type = "DATA", state[fwd'[i].s] = "OPEN"
                  PROVE  Setting(initialL, inflight, Known - acks - Weight(AckF, After(fwd', i)))
                           + granted'[fwd'[i].s]
                           >= sent[fwd'[i].s] - Weight(DataF(fwd'[i].s), After(fwd', i))
      BY <1>1, <1>2 DEF FrameFits
    <2>1. PICK j \in 1..Len(fwd) : /\ fwd'[i].type = fwd[j].type
                                   /\ fwd[j].type = "DATA" => fwd'[i].s = fwd[j].s
                                   /\ After(fwd', i) = After(fwd, j)
      BY <1>0, RestPlaces
    <2>. DEFINE s == fwd[j].s
                k == Known - acks - Weight(AckF, After(fwd, j))
                x == Setting(initialL, inflight, k)
                d == Weight(DataF(s), After(fwd, j))
    <2>2. /\ fwd \in Seq(Forward) /\ initialL \in Nat /\ inflight \in Seq(Nat)
          /\ sent \in [Windows -> Nat] /\ fwd[j] \in Forward
      BY <1>0, TypeFacts, ElementOfSeq
    <2>3. s \in Streams /\ s \in Windows /\ fwd'[i].s = s
      BY <2>1, <2>2, KindWeights, WindowFacts
    <2>4. x + granted[s] >= sent[s] - d
      BY <2>1, <2>3 DEF OrderInv, FrameFits
    <2>5. k \in 0..Len(inflight)
      <3>. DEFINE a == Weight(AckF, After(fwd, j))
                  v == Weight(AckF, fwd)
                  l == Len(inflight)
                  u == Len(urgent)
                  e == Known
      <3>1. /\ a \in Nat /\ a <= v /\ v \in Nat /\ e = acks + v /\ acks \in Nat
            /\ e <= l - u /\ l \in Nat /\ u \in Nat
        BY SettingCounts
      <3>. HIDE DEF a, v, l, u, e
      <3>2. e - acks - a \in 0..l
        BY ONLY <3>1
      <3>. QED
        BY <3>2 DEF a, e, l
    <2>. HIDE DEF k, s
    <2>6. x \in Nat
      BY <2>2, <2>5, SettingType
    <2>7. d \in Nat
      BY <2>2, FrameWeights, AfterWeight
    <2>8. granted[s] \in Nat /\ granted'[s] \in Nat /\ granted'[s] >= granted[s] /\ sent[s] \in Nat
      BY <2>2, <2>3 DEF Grown
    <2>. HIDE DEF x, d
    <2>9. x + granted'[s] >= sent[s] - d
      BY <2>4, <2>6, <2>7, <2>8
    <2>. QED
      BY <2>1, <2>3, <2>9 DEF x, d, k
  <1>. QED
    BY <1>2, <1>3, <1>4 DEF OrderInv

(* Before n bytes of DATA are counted, the windows have their bounds. *)
LEMMA BoundsFacts ==
  ASSUME IndInv, OrderInv, ~error
  PROVE  \A w \in Windows : win[w] \in WinRec /\ win[w].local <= MaxWindow
  <1>1. win \in [Windows -> WinRec]
    BY TypeFacts DEF IndInv
  <1>. QED
    BY <1>1 DEF OrderInv, LocalsBounded

LEMMA RecvDataOrder ==
  ASSUME IndInv, OrderInv, ~error, NEW n, RecvData(n)
  PROVE  OrderInv'
  <1>. DEFINE s == Head(fwd).s
              last == Head(fwd).end /\ n = Head(fwd).len
              c == update_recv(win[Conn], n, TRUE)
              u == update_recv(win[s], n, ~last)
              x == IF Exceeds(win[s], n) THEN Silent(win[s]) ELSE u
  <1>0. Types
    BY DEF IndInv
  <1>1. /\ Comes(n) /\ fwd' = Rest(n, TRUE)
        /\ win' = [win EXCEPT ![Conn] = c.win, ![s] = x.win]
        /\ granted' = [granted EXCEPT ![Conn] = @ + c.inc, ![s] = @ + x.inc]
        /\ UNCHANGED <<sender, initialL, inflight, urgent, state, back>>
    BY DEF RecvData
  <1>2. n \in Nat /\ s \in Streams
    BY <1>0, <1>1, RestFacts
  <1>. HIDE DEF s, last
  <1>3. /\ Conn \in Windows /\ s \in Windows /\ s # Conn /\ granted \in [Windows -> Nat]
        /\ win[Conn] \in WinRec /\ win[s] \in WinRec
        /\ win[Conn].local <= MaxWindow /\ win[s].local <= MaxWindow
    BY <1>0, <1>2, TypeFacts, WindowFacts, BoundsFacts
  <1>4. Balanced(win[Conn], n, c) /\ c.win.local = win[Conn].local
    BY <1>2, <1>3, UpdateRecvFacts
  <1>5. Balanced(win[s], n, u) /\ u.win.local = win[s].local
    BY <1>2, <1>3, UpdateRecvFacts
  <1>6. x.win \in WinRec /\ x.inc \in Nat /\ x.win.local = win[s].local
    <2>1. CASE Exceeds(win[s], n)
      <3>1. x = Silent(win[s])
        BY <2>1
      <3>2. x.win = win[s] /\ x.inc = 0
        BY <3>1 DEF Silent
      <3>. QED
        BY <1>3, <3>2
    <2>2. CASE ~Exceeds(win[s], n)
      <3>1. x = u
        BY <2>2
      <3>. HIDE DEF u, x
      <3>. QED
        BY <1>5, <3>1 DEF Balanced
    <2>. QED
      BY <2>1, <2>2
  <1>. HIDE DEF c, u, x
  <1>7. c.win \in WinRec /\ c.inc \in Nat
    BY <1>4 DEF Balanced
  <1>8. /\ granted' \in [Windows -> Nat]
        /\ \A w \in Windows : granted'[w] = IF w = Conn THEN granted[w] + c.inc
                                            ELSE IF w = s THEN granted[w] + x.inc ELSE granted[w]
    <2>. DEFINE i == c.inc
                j == x.inc
    <2>1. granted' = [granted EXCEPT ![Conn] = @ + i, ![s] = @ + j] /\ i \in Nat /\ j \in Nat
      BY <1>1, <1>6, <1>7
    <2>. HIDE DEF i, j
    <2>2. /\ granted' \in [Windows -> Nat]
          /\ \A w \in Windows : granted'[w] = IF w = Conn THEN granted[w] + i
                                              ELSE IF w = s THEN granted[w] + j ELSE granted[w]
      BY ONLY <1>3, <2>1, TwoAdded, ZenonT(60)
    <2>. QED
      BY <2>2 DEF i, j
  <1>9. Grown /\ LocalsBounded'
    BY <1>1, <1>2, <1>3, <1>4, <1>6, <1>7, <1>8, TwoGrown
  <1>. QED
    BY <1>1, <1>9, ComesOrder
-----------------------------------------------------------------------------
LEMMA IgnoreDataOrder ==
  ASSUME IndInv, OrderInv, ~error, NEW n, IgnoreData(n)
  PROVE  OrderInv'
  <1>. DEFINE r == Ignored(win[Conn], n)
  <1>0. Types
    BY DEF IndInv
  <1>1. /\ Comes(n) /\ Change(Conn, r) /\ fwd' = Rest(n, FALSE)
        /\ UNCHANGED <<sender, initialL, inflight, urgent, state, back>>
    BY DEF IgnoreData, Ignored
  <1>2. n \in Nat /\ Conn \in Windows /\ win[Conn] \in WinRec /\ win[Conn].local <= MaxWindow
    BY <1>0, <1>1, RestFacts, WindowFacts, BoundsFacts
  <1>3. Balanced(win[Conn], n, r) /\ r.win.local = win[Conn].local
    BY <1>2, IgnoredFacts
  <1>. HIDE DEF r
  <1>4. Grown /\ LocalsBounded'
    BY <1>1, <1>2, <1>3, ChangeGrown DEF Balanced
  <1>. QED
    BY <1>1, <1>4, ComesOrder

LEMMA ConsumeOrder ==
  ASSUME IndInv, OrderInv, ~error, NEW s \in Streams, NEW n \in Nat, Consume(s, n)
  PROVE  OrderInv'
  <1>. DEFINE has == state[s] # "CLOSED"
              c == session_update_consumed_size(win[Conn], n)
              u == session_update_consumed_size(win[s], n)
  <1>0. Types
    BY DEF IndInv
  <1>1. /\ win' = [win EXCEPT ![Conn] = c.win, ![s] = IF has THEN u.win ELSE @]
        /\ granted' = [granted EXCEPT ![Conn] = @ + c.inc, ![s] = IF has THEN @ + u.inc ELSE @]
        /\ UNCHANGED <<sender, initialL, inflight, urgent, state, fwd, back>>
    BY DEF Consume
  <1>2. /\ Conn \in Windows /\ s \in Windows /\ s # Conn
        /\ win \in [Windows -> WinRec] /\ granted \in [Windows -> Nat]
        /\ \A w \in Windows : win[w] \in WinRec /\ win[w].local <= MaxWindow
    BY <1>0, TypeFacts, WindowFacts, BoundsFacts
  <1>3. /\ c.win.local = win[Conn].local /\ c.inc \in Nat
        /\ u.win.local = win[s].local /\ u.inc \in Nat
    BY <1>2, ConsumedFacts DEF Balanced
  <1>. HIDE DEF c, u, has
  <1>4. ASSUME NEW w \in Windows
        PROVE  /\ granted'[w] \in Nat /\ granted'[w] >= granted[w] /\ win'[w].local <= MaxWindow
    <2>1. granted[w] \in Nat
      BY <1>2
    <2>2. CASE w = Conn
      <3>1. granted'[w] = granted[w] + c.inc /\ win'[w] = c.win
        BY <1>1, <1>2, <2>2
      <3>. QED
        BY <1>2, <1>3, <2>1, <2>2, <3>1
    <2>3. CASE w = s
      <3>1. /\ granted'[w] = IF has THEN granted[w] + u.inc ELSE granted[w]
            /\ win'[w] = IF has THEN u.win ELSE win[w]
        BY <1>1, <1>2, <2>3
      <3>. QED
        BY <1>2, <1>3, <2>1, <2>3, <3>1
    <2>4. CASE w # Conn /\ w # s
      <3>1. granted'[w] = granted[w] /\ win'[w] = win[w]
        BY <1>1, <1>2, <2>4
      <3>. QED
        BY <1>2, <2>1, <3>1
    <2>. QED
      BY <2>2, <2>3, <2>4
  <1>5. granted' \in [Windows -> Nat]
    <2>1. DOMAIN granted' = Windows /\ granted' = [w \in DOMAIN granted' |-> granted'[w]]
      BY <1>1, <1>2, Zenon
    <2>. QED
      BY <1>4, <2>1
  <1>6. Grown /\ LocalsBounded'
    BY <1>4, <1>5, GrownBounded
  <1>7. NoneOpened /\ UNCHANGED <<initialR, acks, sent, aob>>
    BY <1>1 DEF NoneOpened, sender
  <1>. QED
    BY <1>1, <1>6, <1>7, BothKept

LEMMA SubmitWindowUpdateOrder ==
  ASSUME IndInv, OrderInv, ~error, NEW v \in Windows, NEW delta \in Int,
         SubmitWindowUpdate(v, delta)
  PROVE  OrderInv'
  <1>. DEFINE x == Submitted(win[v], delta)
  <1>1. /\ Change(v, x)
        /\ delta < 0 \/ Increase(win[v], delta).win.local <= MaxWindow
        /\ UNCHANGED <<sender, initialL, inflight, urgent, state, fwd, back>>
    BY DEF SubmitWindowUpdate, Submitted
  <1>2. win[v] \in WinRec /\ win[v].local <= MaxWindow
    BY BoundsFacts
  <1>3. /\ Balanced(win[v], 0, x)
        /\ x.win.local <= win[v].local \/ x.win.local <= MaxWindow
    BY <1>1, <1>2, SubmittedFacts
  <1>. HIDE DEF x
  <1>4. x.win \in WinRec /\ x.inc \in Nat /\ x.win.local <= MaxWindow
    <2>1. x.win \in WinRec /\ x.inc \in Nat
      BY <1>3 DEF Balanced
    <2>2. x.win.local \in Int /\ win[v].local \in Int /\ MaxWindow \in Nat
      BY <1>2, <2>1, WinFields, BoundsAssumption
    <2>. QED
      BY <1>2, <1>3, <2>1, <2>2
  <1>5. Grown /\ LocalsBounded'
    BY <1>1, <1>4, ChangeGrown
  <1>6. NoneOpened /\ UNCHANGED <<initialR, acks, sent, aob>>
    BY <1>1 DEF NoneOpened, sender
  <1>. QED
    BY <1>1, <1>5, <1>6, BothKept

(* The session resets a stream by itself. *)
LEMMA RefuseGrown ==
  ASSUME IndInv, OrderInv, ~error, NEW s \in Streams, NEW v \in WinRec, v.local <= MaxWindow,
         NEW q, Refuse(s, v, q)
  PROVE  Grown /\ LocalsBounded' /\ NoneOpened
  <1>0. Types
    BY DEF IndInv
  <1>1. /\ win \in [Windows -> WinRec] /\ granted \in [Windows -> Nat]
        /\ state \in [Streams -> {"OPEN", "CLOSING", "CLOSED"}]
        /\ \A w \in Windows : win[w].local <= MaxWindow
    BY <1>0, TypeFacts, BoundsFacts
  <1>2. /\ win' = [win EXCEPT ![s] = v] /\ state' = [state EXCEPT ![s] = "CLOSING"]
        /\ granted' = granted
    BY DEF Refuse
  <1>3. \A w \in Windows : win'[w].local <= MaxWindow
    BY <1>1, <1>2
  <1>4. \A w \in Windows : granted'[w] >= granted[w]
    BY <1>1, <1>2
  <1>5. NoneOpened
    BY <1>1, <1>2 DEF NoneOpened
  <1>. QED
    BY <1>1, <1>2, <1>3, <1>4, <1>5, GrownBounded

LEMMA SetLocalWindowSizeOrder ==
  ASSUME IndInv, OrderInv, ~error, NEW v \in Windows, NEW size \in 0..MaxWindow,
         SetLocalWindowSize(v, size)
  PROVE  OrderInv'
  <1>. DEFINE delta == size - win[v].local
              r == nghttp2_increase_local_window_size(win[v], delta)
              checks == delta > 0 /\ r.inc = 0
              x == Sized(win[v], size)
              refuses == v # Conn /\ checks /\ Exceeds(r.win, 0)
  <1>1. /\ delta # 0
        /\ IF refuses THEN Refuse(v, r.win, ob) ELSE Change(v, x) /\ UNCHANGED state
        /\ UNCHANGED <<sender, initialL, inflight, urgent, fwd, back>>
    BY DEF SetLocalWindowSize, Sized
  <1>2. win[v] \in WinRec /\ size \in Nat /\ size <= MaxWindow
    BY BoundsFacts, BoundsAssumption
  <1>3. size # win[v].local
    BY <1>1, <1>2
  <1>4. /\ Balanced(win[v], 0, x) /\ x.win.local = size
        /\ delta > 0 => r.win \in WinRec /\ r.win.local = size
    BY <1>2, <1>3, SizedFacts
  <1>. HIDE DEF x, r
  <1>5. Grown /\ LocalsBounded' /\ NoneOpened
    <2>1. CASE refuses
      <3>1. /\ Refuse(v, r.win, ob) /\ r.win \in WinRec /\ r.win.local <= MaxWindow
            /\ v \in Streams
        BY <1>1, <1>2, <1>4, <2>1, WindowFacts
      <3>. QED
        BY <3>1, RefuseGrown
    <2>2. CASE ~refuses
      <3>1. Change(v, x) /\ NoneOpened
        BY <1>1, <2>2 DEF NoneOpened
      <3>2. x.win \in WinRec /\ x.inc \in Nat /\ x.win.local <= MaxWindow
        BY <1>2, <1>4 DEF Balanced
      <3>. QED
        BY <3>1, <3>2, ChangeGrown
    <2>. QED
      BY <2>1, <2>2
  <1>6. UNCHANGED <<initialR, acks, sent, aob>>
    BY <1>1 DEF sender
  <1>. QED
    BY <1>1, <1>5, <1>6, BothKept

LEMMA SubmitRstStreamOrder ==
  ASSUME IndInv, OrderInv, ~error, NEW s \in Streams, SubmitRstStream(s)
  PROVE  OrderInv'
  <1>0. Types
    BY DEF IndInv
  <1>1. /\ state' = [state EXCEPT ![s] = "CLOSING"]
        /\ UNCHANGED <<sender, win, granted, initialL, inflight, urgent, fwd, back, error>>
    BY DEF SubmitRstStream
  <1>2. /\ state \in [Streams -> {"OPEN", "CLOSING", "CLOSED"}] /\ granted \in [Windows -> Nat]
        /\ \A w \in Windows : win[w].local <= MaxWindow
    BY <1>0, TypeFacts, BoundsFacts
  <1>3. NoneOpened
    BY <1>1, <1>2 DEF NoneOpened
  <1>4. Grown /\ LocalsBounded'
    <2>1. \A w \in Windows : granted'[w] >= granted[w] /\ win'[w].local <= MaxWindow
      BY <1>1, <1>2
    <2>. QED
      BY <1>1, <1>2, <2>1, GrownBounded
  <1>5. UNCHANGED <<initialR, acks, sent, aob>>
    BY <1>1 DEF sender
  <1>. QED
    BY <1>1, <1>3, <1>4, <1>5, BothKept

LEMMA SentRstStreamOrder ==
  ASSUME IndInv, OrderInv, ~error, SentRstStream
  PROVE  OrderInv'
  <1>. DEFINE h == Head(ob)
  <1>0. Types
    BY DEF IndInv
  <1>1. /\ ob # <<>> /\ h.type = "RST_STREAM" /\ state' = [state EXCEPT ![h.w] = "CLOSED"]
        /\ back' = Append(back, h)
        /\ UNCHANGED <<sender, win, granted, initialL, inflight, urgent, fwd, error>>
    BY DEF SentRstStream
  <1>2. /\ state \in [Streams -> {"OPEN", "CLOSING", "CLOSED"}] /\ granted \in [Windows -> Nat]
        /\ \A w \in Windows : win[w].local <= MaxWindow
        /\ ob \in Seq(Backward)
    BY <1>0, TypeFacts, BoundsFacts
  <1>3. h \in Backward /\ h.type # "SETTINGS"
    BY <1>1, <1>2, HeadTailProperties
  <1>. HIDE DEF h
  <1>4. NoneOpened
    BY <1>1, <1>2 DEF NoneOpened
  <1>5. Grown /\ LocalsBounded'
    <2>1. \A w \in Windows : granted'[w] >= granted[w] /\ win'[w].local <= MaxWindow
      BY <1>1, <1>2
    <2>. QED
      BY <1>1, <1>2, <2>1, GrownBounded
  <1>6. UNCHANGED <<initialR, acks, sent, aob>>
    BY <1>1 DEF sender
  <1>. QED
    BY <1>1, <1>3, <1>4, <1>5, <1>6, BothKept

LEMMA SentWindowUpdateOrder ==
  ASSUME IndInv, OrderInv, ~error, SentWindowUpdate
  PROVE  OrderInv'
  <1>. DEFINE h == Head(ob)
              v == h.w
              u == [win[v] EXCEPT !.queued = FALSE]
              r == IF v \in ended THEN Silent(u) ELSE Recheck(u)
              refuses == auto /\ v \notin ended /\ Exceeds(u, 0)
              drops == v # Conn /\ state[v] # "OPEN"
  <1>0. Types
    BY DEF IndInv
  <1>1. /\ ob # <<>> /\ h.type = "WINDOW_UPDATE"
        /\ drops => UNCHANGED <<win, granted, state, back, error>>
        /\ ~drops => back' = Append(back, h)
        /\ ~drops /\ v # Conn /\ refuses => Refuse(v, u, Tail(ob))
        /\ ~drops /\ ~(v # Conn /\ refuses) =>
             /\ win' = [win EXCEPT ![v] = r.win]
             /\ granted' = [granted EXCEPT ![v] = @ + r.inc]
             /\ state' = state
        /\ UNCHANGED <<sender, initialL, inflight, urgent, fwd>>
    BY DEF SentWindowUpdate
  <1>2. /\ win \in [Windows -> WinRec] /\ granted \in [Windows -> Nat] /\ ob \in Seq(Backward)
        /\ \A w \in Windows : win[w].local <= MaxWindow
    BY <1>0, TypeFacts, BoundsFacts
  <1>3. h \in Backward /\ v \in Windows /\ h.type # "SETTINGS"
    BY <1>1, <1>2, BackwardPop
  <1>. HIDE DEF h
  <1>4. win[v] \in WinRec /\ u \in WinRec /\ u.local <= MaxWindow
    <2>1. win[v] \in WinRec /\ win[v].local <= MaxWindow
      BY <1>2, <1>3
    <2>2. u \in WinRec /\ u.local = win[v].local
      BY <2>1, Zenon DEF WinRec
    <2>. HIDE DEF u
    <2>. QED
      BY <2>1, <2>2
  <1>. HIDE DEF u
  <1>5. r.win.local <= MaxWindow /\ r.inc \in Nat
    <2>1. CASE v \in ended
      <3>1. r = Silent(u)
        BY <2>1
      <3>2. r.win = u /\ r.inc = 0
        BY <3>1 DEF Silent
      <3>. HIDE DEF r
      <3>. QED
        BY <1>4, <3>2
    <2>2. CASE v \notin ended
      <3>1. r = Recheck(u)
        BY <2>2
      <3>. HIDE DEF r
      <3>. QED
        BY <1>4, <3>1, RecheckFacts DEF Balanced
    <2>. QED
      BY <2>1, <2>2
  <1>. HIDE DEF r, refuses
  <1>6. Grown /\ LocalsBounded' /\ NoneOpened
    <2>1. CASE drops
      <3>1. /\ granted' \in [Windows -> Nat] /\ NoneOpened
            /\ \A w \in Windows : granted'[w] >= granted[w] /\ win'[w].local <= MaxWindow
        BY <1>1, <1>2, <2>1 DEF NoneOpened
      <3>. QED
        BY <3>1, GrownBounded
    <2>2. CASE ~drops /\ v # Conn /\ refuses
      <3>1. Refuse(v, u, Tail(ob)) /\ v \in Streams
        BY <1>1, <1>3, <2>2, WindowFacts
      <3>. QED
        BY <1>4, <3>1, RefuseGrown
    <2>3. CASE ~drops /\ ~(v # Conn /\ refuses)
      <3>1. /\ win' = [win EXCEPT ![v] = r.win] /\ granted' = [granted EXCEPT ![v] = @ + r.inc]
            /\ NoneOpened
        BY <1>1, <2>3 DEF NoneOpened
      <3>2. ASSUME NEW w \in Windows
            PROVE  granted'[w] >= granted[w] /\ win'[w].local <= MaxWindow
        <4>1. granted[w] \in Nat /\ win[w].local <= MaxWindow
          BY <1>2
        <4>. QED
          BY <1>2, <1>5, <3>1, <4>1
      <3>3. granted' \in [Windows -> Nat]
        <4>. DEFINE i == r.inc
        <4>1. granted' = [granted EXCEPT ![v] = @ + i] /\ i \in Nat
          BY <1>5, <3>1
        <4>. HIDE DEF i
        <4>. QED
          BY <1>2, <1>3, <4>1
      <3>. QED
        BY <3>1, <3>2, <3>3, GrownBounded
    <2>. QED
      BY <2>1, <2>2, <2>3
  <1>7. UNCHANGED <<initialR, acks, sent, aob>>
    BY <1>1 DEF sender
  <1>8. back' = back \/ back' = Append(back, h)
    BY <1>1
  <1>. HIDE DEF drops
  <1>. QED
    BY <1>1, <1>3, <1>6, <1>7, <1>8, BothKept

(* What was to come once one more change is acknowledged comes next. *)
LEMMA SettingShift ==
  ASSUME NEW q \in Seq(Nat), q # <<>>, NEW i, NEW k \in 0..(Len(q) - 1)
  PROVE  Setting(Head(q), Tail(q), k) = Setting(i, q, k + 1)
  <1>1. /\ Len(q) \in Nat /\ Head(q) = q[1] /\ Len(Tail(q)) = Len(q) - 1
        /\ \A j \in 1..Len(Tail(q)) : Tail(q)[j] = q[j + 1]
    BY HeadTailProperties, LenProperties, AfterFirst
  <1>2. k \in Nat /\ k + 1 # 0 /\ k <= Len(q) - 1
    BY <1>1
  <1>3. CASE k = 0
    BY <1>1, <1>3 DEF Setting
  <1>4. CASE k # 0
    <2>1. k \in 1..Len(Tail(q))
      BY <1>1, <1>2, <1>4
    <2>. QED
      BY <1>1, <1>2, <1>4, <2>1 DEF Setting
  <1>. QED
    BY <1>3, <1>4

(* The first change becomes the receiver's setting: every frame is one     *)
(* change nearer to its own.                                               *)
LEMMA RecvAckOrder ==
  ASSUME IndInv, OrderInv, ~error, RecvAck
  PROVE  OrderInv'
  <1>. DEFINE delta == Head(inflight) - initialL
              Has(w) == w # Conn /\ state[w] # "CLOSED"
              V(w) == [win[w] EXCEPT !.local = @ + delta]
              Moved(w) == IF V(w).queued THEN Silent(V(w)) ELSE Recheck(V(w))
  <1>0. Types
    BY DEF IndInv
  <1>1. /\ fwd # <<>> /\ Head(fwd).type = "ACK" /\ fwd' = Tail(fwd)
        /\ win' = [w \in Windows |-> IF Has(w) THEN Moved(w).win ELSE win[w]]
        /\ granted' = [w \in Windows |->
                         IF Has(w) THEN granted[w] + Moved(w).inc ELSE granted[w]]
        /\ initialL' = Head(inflight) /\ inflight' = Tail(inflight)
        /\ error' = \E w \in Streams : Has(w) /\ win[w].local + delta > MaxWindow
        /\ UNCHANGED <<sender, urgent, state, back>>
    BY DEF RecvAck
  <1>2. /\ win \in [Windows -> WinRec] /\ granted \in [Windows -> Nat]
        /\ inflight \in Seq(Nat) /\ fwd \in Seq(Forward) /\ initialL \in Nat
        /\ sent \in [Windows -> Nat]
        /\ \A w \in Windows : win[w].local <= MaxWindow
    BY <1>0, TypeFacts, BoundsFacts
  <1>3. UNCHANGED <<initialR, acks, sent, aob>>
    BY <1>1 DEF sender
  <1>4. fwd' \in Seq(Forward) /\ Weight(AckF, fwd) = 1 + Weight(AckF, fwd')
        /\ Weight(AckF, fwd') \in Nat
    <2>1. /\ Head(fwd) \in Forward /\ Tail(fwd) \in Seq(Forward)
          /\ Weight(AckF, fwd) = AckF[Head(fwd)] + Weight(AckF, Tail(fwd))
          /\ Weight(AckF, Tail(fwd)) \in Nat
      BY <1>1, <1>2, ForwardQueue
    <2>2. AckF[Head(fwd)] = 1
      BY <1>1, <2>1, KindWeights
    <2>. QED
      BY <1>1, <2>1, <2>2
  <1>5. /\ Known = acks + 1 + Weight(AckF, fwd') /\ acks \in Nat /\ Known <= Len(inflight)
        /\ Len(inflight) \in Nat /\ Len(urgent) \in Nat /\ Weight(SettingsF, back) \in Nat
        /\ Known <= Len(inflight) - Len(urgent)
        /\ Known = Len(inflight) - Len(urgent) - Weight(SettingsF, back)
    BY <1>4, SettingCounts DEF Known
  <1>6. inflight # <<>> /\ Len(inflight') = Len(inflight) - 1
    <2>1. inflight # <<>>
      BY <1>2, <1>4, <1>5
    <2>. QED
      BY <1>1, <1>2, <2>1, HeadTailProperties
  <1>7. Known' = Known - 1
    BY <1>1, <1>5, <1>6 DEF Known
  <1>7a. /\ Known \in Nat /\ Known' \in Nat /\ Known = Known' + 1 /\ acks \in Nat
         /\ Known' - acks = Weight(AckF, fwd') /\ Known' - acks \in Nat
         /\ Len(inflight) \in Nat /\ Known <= Len(inflight)
         /\ Known' - acks \in 0..(Len(inflight) - 1) /\ (Known' - acks) + 1 = Known - acks
         /\ Known - acks \in 0..Len(inflight)
    <2>1. /\ acks \in Nat /\ Weight(AckF, fwd') \in Nat /\ Len(inflight) \in Nat
          /\ Known = acks + 1 + Weight(AckF, fwd') /\ Known' = Known - 1
          /\ Known <= Len(inflight)
      BY <1>4, <1>5, <1>7
    <2>. DEFINE k == Known
                j == Known'
                l == Len(inflight)
                w == Weight(AckF, fwd')
    <2>2. /\ acks \in Nat /\ w \in Nat /\ l \in Nat /\ k = acks + 1 + w /\ j = k - 1 /\ k <= l
      BY <2>1
    <2>. HIDE DEF k, j, l, w
    <2>3. /\ k \in Nat /\ j \in Nat /\ k = j + 1 /\ j - acks = w /\ j - acks \in Nat
          /\ j - acks \in 0..(l - 1) /\ (j - acks) + 1 = k - acks /\ k - acks \in 0..l
      BY ONLY <2>2
    <2>. QED
      BY <2>2, <2>3 DEF k, j, l, w
  <1>8. \A k \in 0..(Len(inflight) - 1) :
          Setting(initialL', inflight', k) = Setting(initialL, inflight, k + 1)
    BY <1>1, <1>2, <1>6, SettingShift
  <1>9. \A w \in Windows : Moved(w).inc \in Nat /\ Moved(w).win.local = win[w].local + delta
    <2>. SUFFICES ASSUME NEW w \in Windows
                  PROVE  Moved(w).inc \in Nat /\ Moved(w).win.local = win[w].local + delta
      OBVIOUS
    <2>. DEFINE v == V(w)
                r == Moved(w)
    <2>1. win[w] \in WinRec /\ win[w].local + delta \in Int
      <3>1. delta \in Int
        BY <1>2, <1>6, HeadTailProperties
      <3>. HIDE DEF delta
      <3>2. win[w] \in WinRec
        BY <1>2
      <3>. QED
        BY <3>1, <3>2, WinFields
    <2>. HIDE DEF delta
    <2>2. v \in WinRec /\ v.local = win[w].local + delta
      BY <2>1, Zenon DEF WinRec
    <2>3. r = IF v.queued THEN Silent(v) ELSE Recheck(v)
      OBVIOUS
    <2>. HIDE DEF v, r
    <2>4. r.inc \in Nat /\ r.win.local = v.local
      <3>1. CASE v.queued
        <4>1. r = Silent(v)
          BY <2>3, <3>1
        <4>. QED
          BY <4>1 DEF Silent
      <3>2. CASE ~v.queued
        BY <2>2, <2>3, <3>2, RecheckFacts DEF Balanced
      <3>. QED
        BY <3>1, <3>2
    <2>5. r.inc \in Nat /\ r.win.local = win[w].local + delta
      BY <2>2, <2>4
    <2>. QED
      BY <2>5, Zenon DEF r
  <1>. HIDE DEF Moved
  <1>10. Grown /\ LocalsBounded' /\ NoneOpened
    <2>1. granted' \in [Windows -> Nat] /\ \A w \in Windows : granted'[w] >= granted[w]
      <3>1. ASSUME NEW w \in Windows
            PROVE  /\ (IF Has(w) THEN granted[w] + Moved(w).inc ELSE granted[w]) \in Nat
                   /\ (IF Has(w) THEN granted[w] + Moved(w).inc ELSE granted[w]) >= granted[w]
        <4>1. granted[w] \in Nat /\ Moved(w).inc \in Nat
          BY <1>2, <1>9
        <4>. QED
          BY <4>1
      <3>. QED
        BY <1>1, <3>1
    <2>2. ASSUME ~error', NEW w \in Windows PROVE win'[w].local <= MaxWindow
      <3>1. CASE Has(w)
        <4>1. w \in Streams /\ win'[w].local = win[w].local + delta
          BY <1>1, <1>9, <3>1, WindowFacts
        <4>2. ~(win[w].local + delta > MaxWindow)
          BY <1>1, <2>2, <3>1, <4>1
        <4>3. delta \in Int /\ win[w].local \in Int /\ MaxWindow \in Nat
          BY <1>2, <1>6, HeadTailProperties, WinFields, BoundsAssumption
        <4>. HIDE DEF delta
        <4>. QED
          BY <4>1, <4>2, <4>3
      <3>2. CASE ~Has(w)
        BY <1>1, <1>2, <3>2
      <3>. QED
        BY <3>1, <3>2
    <2>3. NoneOpened
      BY <1>1 DEF NoneOpened
    <2>. QED
      BY <2>1, <2>2, <2>3, GrownBounded
  <1>. HIDE DEF delta, Has
  <1>11. FrameFits'
    <2>. SUFFICES ASSUME NEW i \in 1..Len(fwd'), fwd'[i].type = "DATA", state[fwd'[i].s] = "OPEN"
                  PROVE  Setting(initialL', inflight', Known' - acks - Weight(AckF, After(fwd', i)))
                           + granted'[fwd'[i].s]
                           >= sent[fwd'[i].s] - Weight(DataF(fwd'[i].s), After(fwd', i))
      BY <1>1, <1>3 DEF FrameFits
    <2>1. /\ i + 1 \in 1..Len(fwd) /\ fwd'[i] = fwd[i + 1]
          /\ After(fwd', i) = After(fwd, i + 1) /\ fwd[i + 1] \in Forward
      BY <1>1, <1>2, AfterPop, ElementOfSeq
    <2>. DEFINE s == fwd[i + 1].s
                a == Weight(AckF, After(fwd, i + 1))
                d == Weight(DataF(s), After(fwd, i + 1))
                x == Setting(initialL, inflight, Known - acks - a)
    <2>2. s \in Streams /\ s \in Windows /\ fwd'[i].s = s /\ fwd[i + 1].type = "DATA"
      BY <2>1, KindWeights, WindowFacts
    <2>3. x + granted[s] >= sent[s] - d
      BY <2>1, <2>2 DEF OrderInv, FrameFits
    <2>4. a \in Nat /\ d \in Nat
      BY <1>2, <2>1, FrameWeights, AfterWeight
    <2>5. a <= Weight(AckF, fwd')
      <3>1. Weight(AckF, After(fwd', i)) <= Weight(AckF, fwd')
        BY <1>4, FrameWeights, AfterWeight
      <3>. QED
        BY <2>1, <3>1
    <2>. HIDE DEF s, a
    <2>6. /\ Known' - acks - a \in 0..(Len(inflight) - 1)
          /\ (Known' - acks - a) + 1 = Known - acks - a
          /\ Known - acks - a \in 0..Len(inflight)
      <3>1. a <= Known' - acks /\ Known' - acks <= Len(inflight) - 1
        BY <1>7a, <2>5
      <3>. DEFINE k == Known
                  j == Known'
                  l == Len(inflight)
      <3>2. /\ a \in Nat /\ l \in Nat /\ acks \in Nat /\ j \in Nat /\ k = j + 1 /\ k <= l
            /\ a <= j - acks /\ j - acks <= l - 1
        BY <1>7a, <2>4, <3>1
      <3>. HIDE DEF k, j, l
      <3>3. j - acks - a \in 0..(l - 1) /\ (j - acks - a) + 1 = k - acks - a
            /\ k - acks - a \in 0..l
        BY ONLY <3>2
      <3>. QED
        BY <3>3 DEF k, j, l
    <2>7. Setting(initialL', inflight', Known' - acks - a) = x
      BY <1>8, <2>6
    <2>8. x \in Nat
      BY <1>2, <2>6, SettingType
    <2>9. granted[s] \in Nat /\ granted'[s] \in Nat /\ granted'[s] >= granted[s] /\ sent[s] \in Nat
      BY <1>2, <1>10, <2>2 DEF Grown
    <2>. HIDE DEF x, d
    <2>10. x + granted'[s] >= sent[s] - d
      BY <2>3, <2>4, <2>8, <2>9
    <2>. QED
      BY <2>1, <2>2, <2>7, <2>10 DEF a, d
  <1>12. BeingSentFits'
    <2>. SUFFICES ASSUME aob # None, state[aob.s] = "OPEN"
                  PROVE  Setting(initialL', inflight', Known' - acks) + granted'[aob.s]
                           >= sent[aob.s] + aob.len
      BY <1>1, <1>3 DEF BeingSentFits
    <2>. DEFINE s == aob.s
                x == Setting(initialL, inflight, Known - acks)
    <2>1. s \in Streams /\ s \in Windows /\ aob.len \in Nat
      BY <1>0, AobFacts, WindowFacts
    <2>2. x + granted[s] >= sent[s] + aob.len
      BY DEF OrderInv, BeingSentFits
    <2>3. /\ Known' - acks \in 0..(Len(inflight) - 1) /\ (Known' - acks) + 1 = Known - acks
          /\ Known - acks \in 0..Len(inflight)
      BY ONLY <1>7a
    <2>4. Setting(initialL', inflight', Known' - acks) = x
      BY <1>8, <2>3
    <2>5. x \in Nat
      BY <1>2, <2>3, SettingType
    <2>6. granted[s] \in Nat /\ granted'[s] \in Nat /\ granted'[s] >= granted[s] /\ sent[s] \in Nat
      BY <1>2, <1>10, <2>1 DEF Grown
    <2>. HIDE DEF x, s
    <2>7. x + granted'[s] >= sent[s] + aob.len
      BY <2>1, <2>2, <2>5, <2>6
    <2>. QED
      BY <2>4, <2>7 DEF s
  <1>13. KnownSetting'
    <2>1. Known' \in 0..(Len(inflight) - 1) /\ Known' + 1 = Known
      BY <1>4, <1>5, <1>7
    <2>2. Setting(initialL', inflight', Known') = Setting(initialL, inflight, Known)
      BY <1>8, <2>1
    <2>. QED
      BY <1>3, <2>2 DEF OrderInv, KnownSetting
  <1>14. SettingsInOrder'
    <2>1. ASSUME NEW i \in 1..Len(back), back[i].type = "SETTINGS"
          PROVE  back[i].value = Setting(initialL', inflight',
                   Len(inflight') - Len(urgent) - Weight(SettingsF, After(back, i)))
      <3>. DEFINE k == Len(inflight) - Len(urgent) - Weight(SettingsF, After(back, i))
      <3>1. /\ Weight(SettingsF, After(back, i)) \in Nat
            /\ Weight(SettingsF, After(back, i)) <= Weight(SettingsF, back)
        BY SettingCounts
      <3>2. /\ Len(inflight') - Len(urgent) - Weight(SettingsF, After(back, i))
                 \in 0..(Len(inflight) - 1)
            /\ (Len(inflight') - Len(urgent) - Weight(SettingsF, After(back, i))) + 1 = k
        <4>. DEFINE a == Weight(SettingsF, After(back, i))
                    b == Weight(SettingsF, back)
                    l == Len(inflight)
                    u == Len(urgent)
                    m == Len(inflight')
        <4>1. /\ a \in Nat /\ b \in Nat /\ l \in Nat /\ u \in Nat /\ a <= b
              /\ m = l - 1 /\ b + 1 <= l - u
          <5>1. /\ Known = acks + 1 + Weight(AckF, fwd') /\ acks \in Nat
                /\ Weight(AckF, fwd') \in Nat /\ Known = l - u - b
                /\ l \in Nat /\ u \in Nat /\ b \in Nat
            BY <1>4, <1>5
          <5>. HIDE DEF a, b, l, u, m
          <5>2. b + 1 <= l - u
            BY ONLY <5>1
          <5>3. a \in Nat /\ a <= b /\ m = l - 1
            BY <1>6, <3>1 DEF a, b, l, m
          <5>. QED
            BY <5>1, <5>2, <5>3
        <4>2. k = l - u - a
          OBVIOUS
        <4>. HIDE DEF a, b, l, u, m, k
        <4>3. m - u - a \in 0..(l - 1) /\ (m - u - a) + 1 = k
          BY ONLY <4>1, <4>2
        <4>. QED
          BY <4>3 DEF a, l, u, m
      <3>3. back[i].value = Setting(initialL, inflight, k)
        BY <2>1 DEF OrderInv, SettingsInOrder
      <3>. HIDE DEF k
      <3>. QED
        BY <1>8, <3>2, <3>3
    <2>2. ASSUME NEW j \in 1..Len(urgent)
          PROVE  urgent[j] = Setting(initialL', inflight', Len(inflight') - Len(urgent) + j)
      <3>1. /\ Len(inflight') - Len(urgent) + j \in 0..(Len(inflight) - 1)
            /\ (Len(inflight') - Len(urgent) + j) + 1 = Len(inflight) - Len(urgent) + j
        BY <1>4, <1>5, <1>6
      <3>2. urgent[j] = Setting(initialL, inflight, Len(inflight) - Len(urgent) + j)
        BY DEF OrderInv, SettingsInOrder
      <3>. QED
        BY <1>8, <3>1, <3>2
    <2>. QED
      BY <1>1, <2>1, <2>2 DEF SettingsInOrder
  <1>. QED
    BY <1>10, <1>11, <1>12, <1>13, <1>14 DEF OrderInv
-----------------------------------------------------------------------------
(* At first nothing is on its way. *)
LEMMA InitOrder == Init => OrderInv
  <1>. SUFFICES ASSUME Init PROVE OrderInv
    OBVIOUS
  <1>1. /\ fwd = <<>> /\ back = <<>> /\ inflight = <<>> /\ urgent = <<>> /\ aob = None
        /\ initialL = Initial /\ initialR = Initial
        /\ win = [w \in Windows |-> Window(Initial)]
    BY DEF Init
  <1>2. Len(<<>>) = 0 /\ Weight(SettingsF, <<>>) = 0
    BY FrameWeights, WeightEmpty, EmptySeq
  <1>3. Known = 0 /\ \A q : Setting(initialL, q, 0) = Initial
    BY <1>1, <1>2 DEF Known, Setting
  <1>4. FrameFits /\ BeingSentFits /\ SettingsInOrder
    BY <1>1, <1>2 DEF FrameFits, BeingSentFits, SettingsInOrder
  <1>5. KnownSetting
    BY <1>1, <1>3 DEF KnownSetting
  <1>6. LocalsBounded
    <2>1. Window(Initial).local = Initial /\ Initial <= MaxWindow
      BY BoundsAssumption DEF Window
    <2>. QED
      BY <1>1, <2>1 DEF LocalsBounded
  <1>. QED
    BY <1>4, <1>5, <1>6 DEF OrderInv

(* Every step keeps the frames in order. *)
LEMMA NextOrder ==
  ASSUME IndInv, OrderInv, [Next]_vars
  PROVE  OrderInv'
  <1>1. CASE UNCHANGED vars
    <2>. USE <1>1 DEF vars, sender, receiver
    <2>1. Known' = Known
      BY DEF Known
    <2>2. FrameFits'
      BY <2>1 DEF OrderInv, FrameFits
    <2>3. BeingSentFits' /\ KnownSetting'
      BY <2>1 DEF OrderInv, BeingSentFits, KnownSetting
    <2>4. SettingsInOrder'
      BY DEF OrderInv, SettingsInOrder
    <2>5. LocalsBounded'
      BY DEF OrderInv, LocalsBounded
    <2>. QED
      BY <2>2, <2>3, <2>4, <2>5 DEF OrderInv
  <1>2. CASE ~error /\ Send
    <2>1. ASSUME NEW s \in Streams, PrepDeferred(s) PROVE OrderInv'
      BY <1>2, <2>1, PrepDeferredOrder
    <2>2. ASSUME NEW s \in Streams, NEW n \in 1..MaxFrameSize, PrepData(s, n) PROVE OrderInv'
      <3>1. n \in Nat
        BY BoundsAssumption
      <3>. QED
        BY <1>2, <2>2, <3>1, PrepDataOrder
    <2>. QED
      BY <1>2, <2>1, <2>2, SentDataOrder, SentAckOrder, RecvSettingsOrder,
         RecvWindowUpdateOrder, RecvRstStreamOrder DEF Send
  <1>3. CASE ~error /\ Receive
    <2>1. ASSUME NEW n \in 1..MaxFrameSize, RecvData(n) \/ IgnoreData(n) PROVE OrderInv'
      BY <1>3, <2>1, RecvDataOrder, IgnoreDataOrder
    <2>. QED
      BY <1>3, <2>1, RecvAckOrder, SentSettingsOrder, SentWindowUpdateOrder, SentRstStreamOrder
         DEF Receive
  <1>4. CASE ~error /\ Call
    <2>1. ASSUME NEW v \in SettingsValues, SubmitSettings(v) PROVE OrderInv'
      <3>1. v \in Nat
        BY BoundsAssumption
      <3>. QED
        BY <1>4, <2>1, <3>1, SubmitSettingsOrder
    <2>2. ASSUME NEW w \in Tuned, NEW size \in Sizes, SetLocalWindowSize(w, size) PROVE OrderInv'
      <3>1. w \in Windows /\ size \in 0..MaxWindow
        BY StreamsAssumption, BoundsAssumption
      <3>. QED
        BY <1>4, <2>2, <3>1, SetLocalWindowSizeOrder
    <2>3. ASSUME NEW w \in Tuned, NEW delta \in Increments, SubmitWindowUpdate(w, delta)
          PROVE  OrderInv'
      <3>1. w \in Windows /\ delta \in Int
        BY StreamsAssumption, BoundsAssumption
      <3>. QED
        BY <1>4, <2>3, <3>1, SubmitWindowUpdateOrder
    <2>4. ASSUME NEW s \in MayReset, SubmitRstStream(s) PROVE OrderInv'
      <3>1. s \in Streams
        BY StreamsAssumption
      <3>. QED
        BY <1>4, <2>4, <3>1, SubmitRstStreamOrder
    <2>. QED
      BY <1>4, <2>1, <2>2, <2>3, <2>4 DEF Call
  <1>5. CASE ~error /\ Read
    <2>1. PICK s \in Streams : \E n \in 1..Total[s] : Consume(s, n)
      BY <1>5 DEF Read
    <2>2. PICK n \in 1..Total[s] : Consume(s, n)
      BY <2>1
    <2>3. n \in Nat
      BY BoundsAssumption
    <2>. QED
      BY <1>5, <2>2, <2>3, ConsumeOrder
  <1>. QED
    BY <1>1, <1>2, <1>3, <1>4, <1>5 DEF Next

(* In every state, each DATA frame fits the settings its receiver will     *)
(* have heard of when it comes in, and SETTINGS and their acknowledgements *)
(* take effect on both sides in the order they were asked for              *)
(* (nghttp2_session.c:4576-4685, 3101-3140).                               *)
THEOREM OrderIsKept == Spec => [](IndInv /\ OrderInv)
  <1>1. Init => IndInv /\ OrderInv
    BY InitInv, InitOrder
  <1>2. IndInv /\ OrderInv /\ [Next]_vars => IndInv' /\ OrderInv'
    BY NextInv, NextOrder
  <1>. QED
    BY <1>1, <1>2, PTL DEF Spec

(* DATA that comes in fits the windows it is counted on, also while a       *)
(* change of the settings or its acknowledgement is under way: the          *)
(* acknowledgement is behind the DATA that was sent with the old window.    *)
DataHasRoom ==
  ~error /\ fwd # <<>> /\ Head(fwd).type = "DATA" =>
    \A n \in 0..Head(fwd).len :
      /\ ~Exceeds(win[Conn], n)
      /\ state[Head(fwd).s] = "OPEN" => ~Exceeds(win[Head(fwd).s], n)

(* For the frame at the head of the queue nothing is in front of it.       *)
LEMMA HeadHasRoom ==
  ASSUME IndInv, OrderInv
  PROVE  DataHasRoom
  <1>. DEFINE h == Head(fwd)
              s == h.s
              t == Tail(fwd)
  <1>. SUFFICES ASSUME ~error, fwd # <<>>, h.type = "DATA", NEW n \in 0..h.len
                PROVE  /\ ~Exceeds(win[Conn], n)
                       /\ state[s] = "OPEN" => ~Exceeds(win[s], n)
    BY DEF DataHasRoom
  <1>0. Types
    BY DEF IndInv
  <1>1. /\ fwd \in Seq(Forward) /\ win \in [Windows -> WinRec] /\ initialL \in Nat
        /\ granted \in [Windows -> Nat] /\ received \in [Windows -> Nat]
        /\ sent \in [Windows -> Nat] /\ MaxWindow \in Nat
    BY <1>0, TypeFacts, BoundsAssumption
  <1>2. /\ h \in Forward /\ t \in Seq(Forward)
        /\ \A w : /\ Weight(DataF(w), fwd) = DataF(w)[h] + Weight(DataF(w), t)
                  /\ Weight(DataF(w), t) \in Nat
        /\ Weight(AckF, fwd) = AckF[h] + Weight(AckF, t)
        /\ Weight(AckF, t) \in Nat
    BY <1>1, ForwardQueue
  <1>3. 1 \in 1..Len(fwd) /\ fwd[1] = h /\ After(fwd, 1) = t
    BY <1>1, AfterFirst
  <1>. HIDE DEF h, t
  <1>4. /\ AckF[h] = 0 /\ h.len \in Nat /\ s \in Streams
        /\ \A w : DataF(w)[h] = IF w = Conn \/ w = s THEN h.len ELSE 0
    BY <1>2, KindWeights
  <1>. HIDE DEF s
  <1>5. n \in Nat /\ n <= h.len
    BY <1>4
  <1>6. ~Exceeds(win[Conn], n)
    <2>1. ConnectionHasRoom
      BY RoomOnConnection
    <2>2. DataInFlight(Conn) = h.len + Weight(DataF(Conn), t)
      BY <1>0, <1>2, <1>4, InFlightIsWeight, WindowFacts
    <2>3. n \in 0..DataInFlight(Conn)
      BY <1>2, <1>4, <1>5, <2>2
    <2>. QED
      BY <2>1, <2>3 DEF ConnectionHasRoom
  <1>7. ASSUME state[s] = "OPEN" PROVE ~Exceeds(win[s], n)
    <2>1. s \in Windows /\ s # Conn /\ Live(s)
      BY <1>4, <1>7, WindowFacts DEF Live
    <2>2. /\ Credit(win[s]) = initialL + granted[s] - received[s]
          /\ sent[s] = received[s] + Weight(DataF(s), fwd)
      BY <2>1 DEF IndInv, ReceiverAccount, DataAccount, Base
    <2>3. Weight(DataF(s), fwd) = h.len + Weight(DataF(s), t) /\ Weight(DataF(s), t) \in Nat
      BY <1>2, <1>4
    <2>4. Known - acks - Weight(AckF, t) = 0
      <3>1. Weight(AckF, fwd) = Weight(AckF, t)
        BY <1>2, <1>4
      <3>. QED
        BY <1>2, <3>1, SettingCounts
    <2>5. Setting(initialL, inflight, Known - acks - Weight(AckF, t)) = initialL
      BY <2>4 DEF Setting
    <2>6. initialL + granted[s] >= sent[s] - Weight(DataF(s), t)
      <3>1. Setting(initialL, inflight, Known - acks - Weight(AckF, After(fwd, 1)))
              + granted[fwd[1].s] >= sent[fwd[1].s] - Weight(DataF(fwd[1].s), After(fwd, 1))
        BY <1>3, <1>7 DEF OrderInv, FrameFits, s
      <3>. QED
        BY <1>3, <2>5, <3>1 DEF s
    <2>7. granted[s] \in Nat /\ received[s] \in Nat /\ sent[s] \in Nat
      BY <1>1, <2>1
    <2>8. Credit(win[s]) >= n
      <3>. DEFINE c == Credit(win[s])
                  d == Weight(DataF(s), fwd)
                  e == Weight(DataF(s), t)
                  l == h.len
                  g == granted[s]
                  x == sent[s]
                  y == received[s]
      <3>1. /\ c = initialL + g - y /\ x = y + d /\ d = l + e /\ e \in Nat
            /\ initialL + g >= x - e /\ g \in Nat /\ x \in Nat /\ y \in Nat
            /\ initialL \in Nat /\ l \in Nat /\ n \in Nat /\ n <= l
        BY <1>1, <1>4, <1>5, <2>2, <2>3, <2>6, <2>7
      <3>. HIDE DEF c, d, e, l, g, x, y
      <3>2. c >= n
        BY ONLY <3>1
      <3>. QED
        BY <3>2 DEF c
    <2>9. win[s].local \in Int /\ win[s].recv \in Int /\ win[s].local <= MaxWindow
      BY <2>1, BoundsFacts, WinFields
    <2>. QED
      BY <1>1, <1>5, <2>8, <2>9 DEF Exceeds, Credit
  <1>. QED
    BY <1>6, <1>7

(* The next bytes of the frame at the head of the queue fit both windows   *)
(* they are counted on.  On the connection, because the sender never spends *)
(* more than it was granted; on the stream, because the acknowledgements   *)
(* in front of the frame have been heard and those behind it not yet.      *)
(* It holds for any settings, increments and reductions                    *)
(* (nghttp2_session.c:5512-5529, 5531-5604).                               *)
THEOREM DataAlwaysFits == Spec => []DataHasRoom
  BY HeadHasRoom, OrderIsKept, PTL
-----------------------------------------------------------------------------
(* When the application changes no window by itself, the sizes of the      *)
(* windows are those of the settings, and nothing is given back that was   *)
(* not received: no window overflows.                                      *)

(* The session still has the window. *)
Kept(w) == w = Conn \/ state[w] # "CLOSED"

(* The bytes the application still holds. *)
Held == Weight(held, SetToSeq(Streams))

SettingsBounded == /\ initialL <= MaxWindow
                   /\ \A i \in 1..Len(inflight) : inflight[i] <= MaxWindow

LocalsAreSet == \A w \in Windows : Kept(w) => win[w].local = Base(w, initialL)

RecvBounded == \A w \in Windows : 0 <= win[w].recv /\ win[w].recv <= MaxWindow

(* What was announced is a part of what was received; *)
GrantsEarned == \A w \in Windows : granted[w] + win[w].recv <= received[w]

(* what was consumed, or will be, is a part of what was not announced. *)
HeldBack ==
  /\ auto => \A w \in Windows : win[w].consumed = 0
  /\ ~auto => /\ win[Conn].consumed + Held <= win[Conn].recv
              /\ \A s \in Streams : Kept(s) => win[s].consumed + held[s] <= win[s].recv

(* The rest of a frame whose beginning was read fits although the stream is *)
(* being reset. *)
HeadFits ==
  fwd # <<>> /\ Head(fwd).type = "DATA" /\ Head(fwd).reading
    /\ state[Head(fwd).s] = "CLOSING" => Credit(win[Head(fwd).s]) >= Head(fwd).len

OnlyHeadRead ==
  \A i \in 1..Len(fwd) : fwd[i].type = "DATA" /\ i # 1 => ~fwd[i].reading

Earned == RecvBounded /\ GrantsEarned /\ HeldBack

PlainInv == /\ ~error /\ SettingsBounded /\ LocalsAreSet /\ Earned
            /\ HeadFits /\ OnlyHeadRead

(* An operation that counts n bytes, k of them as consumed, announces a    *)
(* part of those it has counted.                                           *)
Gives(w, n, k, r) ==
  /\ r.win \in WinRec /\ r.inc \in Nat /\ r.win.local = w.local
  /\ r.win.recv = w.recv + n - r.inc /\ r.win.recv >= 0
  /\ r.win.consumed = IF auto THEN w.consumed ELSE w.consumed + k - r.inc

(* Silence gives nothing. *)
LEMMA SilentGives ==
  ASSUME NEW w \in WinRec, w.recv >= 0
  PROVE  Gives(w, 0, 0, Silent(w))
  <1>1. Silent(w).win = w /\ Silent(w).inc = 0
    BY DEF Silent
  <1>2. w.recv \in Int /\ w.consumed \in Nat
    BY WinFields
  <1>. QED
    BY <1>1, <1>2 DEF Gives

(* Bytes that come in are counted, and all of them announced or none.      *)
LEMMA RecvGives ==
  ASSUME NEW w \in WinRec, NEW n \in Nat, NEW send, w.recv >= 0
  PROVE  Gives(w, n, 0, update_recv(w, n, send))
  <1>. DEFINE recv == w.recv + n
              give == send /\ auto /\ ~w.queued /\ should_send_window_update(w.local, recv)
              u == [w EXCEPT !.recv = 0, !.queued = TRUE]
              v == [w EXCEPT !.recv = recv]
              r == update_recv(w, n, send)
  <1>1. w.local \in Int /\ w.recv \in Int /\ recv \in Int /\ w.consumed \in Nat /\ 0 \in Int
        /\ recv >= 0
    BY WinFields
  <1>2. /\ u \in WinRec /\ u.local = w.local /\ u.recv = 0 /\ u.consumed = w.consumed
        /\ v \in WinRec /\ v.local = w.local /\ v.recv = recv /\ v.consumed = w.consumed
    BY <1>1, Zenon DEF WinRec
  <1>3. CASE give
    <2>1. r = [win |-> u, inc |-> recv] /\ auto
      BY <1>3 DEF update_recv
    <2>. HIDE DEF u, r
    <2>2. r.win = u /\ r.inc = recv
      BY <2>1
    <2>. QED
      BY <1>1, <1>2, <2>1, <2>2 DEF Gives, r
  <1>4. CASE ~give
    <2>1. r = Silent(v)
      BY <1>4 DEF update_recv
    <2>. HIDE DEF v, r
    <2>2. r.win = v /\ r.inc = 0
      BY <2>1 DEF Silent
    <2>. QED
      BY <1>1, <1>2, <2>2 DEF Gives, r
  <1>. QED
    BY <1>3, <1>4

(* Bytes that are consumed are announced as far as they have come in.      *)
LEMMA ConsumedGives ==
  ASSUME NEW w \in WinRec, NEW n \in Nat, w.recv >= 0, ~auto
  PROVE  Gives(w, 0, n, session_update_consumed_size(w, n))
  <1>. DEFINE consumed == w.consumed + n
              size == Lesser(consumed, w.recv)
              give == ~w.queued /\ should_send_window_update(w.local, size)
              u == [w EXCEPT !.recv = @ - size, !.consumed = consumed - size, !.queued = TRUE]
              v == [w EXCEPT !.consumed = consumed]
              r == session_update_consumed_size(w, n)
  <1>1. /\ w.local \in Int /\ w.recv \in Int /\ consumed \in Nat /\ size \in Nat
        /\ w.recv - size \in Int /\ w.recv - size >= 0 /\ consumed - size \in Nat
        /\ w.consumed \in Nat
    BY WinFields DEF Lesser
  <1>2. /\ u \in WinRec /\ u.local = w.local /\ u.recv = w.recv - size
        /\ u.consumed = consumed - size
        /\ v \in WinRec /\ v.local = w.local /\ v.recv = w.recv /\ v.consumed = consumed
    BY <1>1, Zenon DEF WinRec
  <1>3. CASE give
    <2>1. r = [win |-> u, inc |-> size]
      BY <1>3 DEF session_update_consumed_size
    <2>. HIDE DEF u, r, size
    <2>2. r.win = u /\ r.inc = size
      BY <2>1
    <2>. QED
      BY <1>1, <1>2, <2>2 DEF Gives, r
  <1>4. CASE ~give
    <2>1. r = Silent(v)
      BY <1>4 DEF session_update_consumed_size
    <2>. HIDE DEF v, r
    <2>2. r.win = v /\ r.inc = 0
      BY <2>1 DEF Silent
    <2>. QED
      BY <1>1, <1>2, <2>2 DEF Gives, r
  <1>. QED
    BY <1>3, <1>4

(* To look again counts nothing.                                           *)
LEMMA RecheckGives ==
  ASSUME NEW w \in WinRec, w.recv >= 0
  PROVE  Gives(w, 0, 0, Recheck(w))
  BY RecvGives, ConsumedGives DEF Recheck

(* Bytes that are dropped count as come in and as consumed.                *)
LEMMA IgnoredGives ==
  ASSUME NEW w \in WinRec, NEW n \in Nat, w.recv >= 0
  PROVE  Gives(w, n, n, Ignored(w, n))
  <1>. DEFINE c == update_recv(w, n, TRUE)
              d == session_update_consumed_size(c.win, n)
  <1>1. Gives(w, n, 0, c)
    BY RecvGives
  <1>2. CASE auto
    <2>1. Ignored(w, n) = c
      BY <1>2 DEF Ignored
    <2>. HIDE DEF c
    <2>. QED
      BY <1>1, <1>2, <2>1 DEF Gives
  <1>3. CASE ~auto
    <2>1. c.inc = 0
      <3>1. c = Silent([w EXCEPT !.recv = w.recv + n])
        BY <1>3 DEF update_recv
      <3>. HIDE DEF c
      <3>. QED
        BY <3>1 DEF Silent
    <2>2. Ignored(w, n) = d
      BY <1>3 DEF Ignored
    <2>. HIDE DEF c
    <2>3. /\ w.recv \in Int /\ w.consumed \in Nat
          /\ c.win \in WinRec /\ c.win.recv \in Int /\ c.win.consumed \in Nat
          /\ c.win.recv = w.recv + n /\ c.win.consumed = w.consumed /\ c.win.local = w.local
      BY <1>1, <1>3, <2>1, WinFields DEF Gives
    <2>4. Gives(c.win, 0, n, d)
      BY <1>1, <1>3, <2>3, ConsumedGives DEF Gives
    <2>. HIDE DEF d
    <2>. QED
      BY <1>3, <2>2, <2>3, <2>4 DEF Gives
  <1>. QED
    BY <1>2, <1>3

(* Stream s holds d more by g than by f. *)
HoldsMore(f, g, s, d) ==
  /\ f \in [Streams -> Nat] /\ g \in [Streams -> Nat] /\ s \in Streams /\ d \in Nat
  /\ g[s] = f[s] + d /\ \A x \in Streams : x # s => g[x] = f[x]

(* What is held grows with what one stream holds. *)
LEMMA HeldGrows ==
  ASSUME NEW f, NEW g, NEW s, NEW d, HoldsMore(f, g, s, d)
  PROVE  /\ Weight(f, SetToSeq(Streams)) \in Nat
         /\ Weight(g, SetToSeq(Streams)) = Weight(f, SetToSeq(Streams)) + d
  <1>. DEFINE q == SetToSeq(Streams)
  <1>0. /\ f \in [Streams -> Nat] /\ g \in [Streams -> Nat] /\ s \in Streams /\ d \in Nat
        /\ g[s] = f[s] + d /\ \A x \in Streams : x # s => g[x] = f[x]
    BY DEF HoldsMore
  <1>1. /\ q \in Seq(Streams)
        /\ \A x \in Streams : \E i \in 1..Len(q) : q[i] = x
        /\ \A i, j \in 1..Len(q) : q[i] = q[j] => i = j
    <2>1. IsFiniteSet(Streams)
      BY StreamsAssumption
    <2>. QED
      BY <2>1, SetSequence, Zenon
  <1>. HIDE DEF q
  <1>2. PICK k \in 1..Len(q) : q[k] = s
    BY <1>0, <1>1
  <1>3. g[q[k]] = f[q[k]] + d
    BY <1>0, <1>2
  <1>4. ASSUME NEW i \in 1..Len(q), i # k PROVE g[q[i]] = f[q[i]]
    <2>1. q[i] \in Streams /\ q[i] # s
      BY <1>1, <1>2, <1>4, ElementOfSeq
    <2>. QED
      BY <1>0, <2>1
  <1>5. Weight(g, q) = Weight(f, q) + d
    <2>1. OneMore(Streams, f, g, q, k, d)
      BY <1>0, <1>1, <1>3, <1>4 DEF OneMore
    <2>. QED
      BY ONLY <2>1, WeightMore
  <1>6. Weight(f, q) \in Nat
    BY <1>0, <1>1, WeightType
  <1>. QED
    BY <1>5, <1>6 DEF q

(* What is held when nothing changes hands. *)
LEMMA HeldType ==
  ASSUME held \in [Streams -> Nat]
  PROVE  Held \in Nat
  <1>1. IsFiniteSet(Streams)
    BY StreamsAssumption
  <1>2. SetToSeq(Streams) \in Seq(Streams)
    BY <1>1, SetSequence, Zenon
  <1>. QED
    BY <1>2, WeightType DEF Held

(* A step in which window w counts n[w] bytes, k[w] of them as consumed,   *)
(* and announces inc[w] of what it has counted.                            *)
LEMMA EarnedStep ==
  ASSUME Types, Types', Earned, auto' = auto,
         NEW n \in [Windows -> Nat], NEW k \in [Windows -> Nat], NEW inc \in [Windows -> Nat],
         \A w \in Windows :
           /\ win'[w].recv = win[w].recv + n[w] - inc[w] /\ win'[w].recv >= 0
           /\ win'[w].consumed = (IF auto THEN win[w].consumed
                                  ELSE win[w].consumed + k[w] - inc[w])
           /\ win[w].recv + n[w] <= MaxWindow
           /\ granted'[w] = granted[w] + inc[w] /\ received'[w] = received[w] + n[w],
         ~auto => /\ k[Conn] + Held' <= n[Conn] + Held
                  /\ \A s \in Streams :
                       Kept(s)' => Kept(s) /\ k[s] + held'[s] <= n[s] + held[s]
  PROVE  Earned'
  <1>1. ASSUME NEW w \in Windows
        PROVE  /\ win[w].recv \in Int /\ win'[w].recv \in Int
               /\ win[w].consumed \in Nat /\ win'[w].consumed \in Nat
               /\ granted[w] \in Nat /\ received[w] \in Nat
               /\ n[w] \in Nat /\ k[w] \in Nat /\ inc[w] \in Nat
    <2>1. win[w] \in WinRec /\ granted[w] \in Nat /\ received[w] \in Nat
      BY TypeFacts
    <2>2. win' \in [Windows -> WinRec]
      BY Types' DEF Types, TypeOK, WinRec
    <2>3. win'[w] \in WinRec
      BY <2>2
    <2>. QED
      BY <2>1, <2>3, WinFields
  <1>2. /\ Conn \in Windows /\ \A s \in Streams : s \in Windows
        /\ MaxWindow \in Nat
    BY WindowFacts, BoundsAssumption
  <1>3. /\ held \in [Streams -> Nat] /\ held' \in [Streams -> Nat]
    BY Types' DEF Types
  <1>4. Held \in Nat
    BY <1>3, HeldType
  <1>5. Held' \in Nat
    <2>1. IsFiniteSet(Streams)
      BY StreamsAssumption
    <2>2. SetToSeq(Streams) \in Seq(Streams)
      BY <2>1, SetSequence, Zenon
    <2>. QED
      BY <1>3, <2>2, WeightType DEF Held
  <1>6. RecvBounded'
    <2>. SUFFICES ASSUME NEW w \in Windows PROVE 0 <= win'[w].recv /\ win'[w].recv <= MaxWindow
      BY DEF RecvBounded
    <2>. QED
      BY <1>1, <1>2
  <1>7. GrantsEarned'
    <2>. SUFFICES ASSUME NEW w \in Windows PROVE granted'[w] + win'[w].recv <= received'[w]
      BY DEF GrantsEarned
    <2>1. granted[w] + win[w].recv <= received[w]
      BY DEF Earned, GrantsEarned
    <2>. QED
      BY <1>1, <2>1
  <1>8. HeldBack'
    <2>1. CASE auto
      <3>1. \A w \in Windows : win[w].consumed = 0
        BY <2>1 DEF Earned, HeldBack
      <3>. QED
        BY <2>1, <3>1 DEF HeldBack
    <2>2. CASE ~auto
      <3>1. win'[Conn].consumed + Held' <= win'[Conn].recv
        <4>1. win[Conn].consumed + Held <= win[Conn].recv
          BY <2>2 DEF Earned, HeldBack
        <4>2. /\ win'[Conn].recv = win[Conn].recv + n[Conn] - inc[Conn]
              /\ win'[Conn].consumed = win[Conn].consumed + k[Conn] - inc[Conn]
              /\ k[Conn] + Held' <= n[Conn] + Held
          BY <1>2, <2>2
        <4>. QED
          BY <1>1, <1>2, <1>4, <1>5, <4>1, <4>2
      <3>2. ASSUME NEW s \in Streams, Kept(s)'
            PROVE  win'[s].consumed + held'[s] <= win'[s].recv
        <4>1. s \in Windows /\ held[s] \in Nat /\ held'[s] \in Nat
          BY <1>2, <1>3
        <4>2. Kept(s) /\ k[s] + held'[s] <= n[s] + held[s]
          BY <2>2, <3>2
        <4>3. win[s].consumed + held[s] <= win[s].recv
          BY <2>2, <4>2 DEF Earned, HeldBack
        <4>4. /\ win'[s].recv = win[s].recv + n[s] - inc[s]
              /\ win'[s].consumed = win[s].consumed + k[s] - inc[s]
          BY <2>2, <4>1
        <4>. QED
          BY <1>1, <4>1, <4>2, <4>3, <4>4
      <3>. QED
        BY <2>2, <3>1, <3>2 DEF HeldBack
    <2>. QED
      BY <2>1, <2>2
  <1>. QED
    BY <1>6, <1>7, <1>8 DEF Earned

(* What an operation gives, in numbers. *)
LEMMA GivesFacts ==
  ASSUME NEW w \in WinRec, NEW n \in Nat, NEW k \in Nat, NEW r, Gives(w, n, k, r)
  PROVE  /\ r.win \in WinRec /\ r.inc \in Nat /\ r.win.local = w.local
         /\ r.win.recv = w.recv + n - r.inc /\ r.win.recv >= 0
         /\ r.win.consumed = (IF auto THEN w.consumed ELSE w.consumed + k - r.inc)
         /\ Credit(w) \in Int /\ Credit(r.win) = Credit(w) - n + r.inc
  <1>1. /\ r.win \in WinRec /\ r.inc \in Nat /\ r.win.local = w.local
        /\ r.win.recv = w.recv + n - r.inc /\ r.win.recv >= 0
        /\ r.win.consumed = (IF auto THEN w.consumed ELSE w.consumed + k - r.inc)
    BY DEF Gives
  <1>2. w.local \in Int /\ w.recv \in Int
    BY WinFields
  <1>3. Credit(w) \in Int /\ Credit(r.win) = Credit(w) - n + r.inc
    BY <1>1, <1>2 DEF Credit
  <1>. QED
    BY <1>1, <1>3

(* An operation on the window of the connection and on that of a stream. *)
TwoSteps(s, c, x, n, k, m, j) ==
  /\ UNCHANGED <<auto, state>>
  /\ Gives(win[Conn], n, k, c) /\ Gives(win[s], m, j, x)
  /\ win[Conn].recv + n <= MaxWindow /\ win[s].recv + m <= MaxWindow
  /\ \A w \in Windows :
       /\ win'[w] = IF w = Conn THEN c.win ELSE IF w = s THEN x.win ELSE win[w]
       /\ granted'[w] = IF w = Conn THEN granted[w] + c.inc
                        ELSE IF w = s THEN granted[w] + x.inc ELSE granted[w]
       /\ received'[w] = IF w = Conn THEN received[w] + n
                         ELSE IF w = s THEN received[w] + m ELSE received[w]
  /\ \A z \in Streams : z # s => held'[z] = held[z]
  /\ ~auto => k + Held' <= n + Held
  /\ ~auto /\ Kept(s) => j + held'[s] <= m + held[s]

(* What two operations announce is earned,                                 *)
LEMMA TwoEarned ==
  ASSUME Types, Types', Earned, NEW s \in Streams, NEW c, NEW x,
         NEW n \in Nat, NEW k \in Nat, NEW m \in Nat, NEW j \in Nat,
         TwoSteps(s, c, x, n, k, m, j)
  PROVE  Earned'
  <1>. USE DEF TwoSteps
  <1>. DEFINE N == [w \in Windows |-> IF w = Conn THEN n ELSE IF w = s THEN m ELSE 0]
              K == [w \in Windows |-> IF w = Conn THEN k ELSE IF w = s THEN j ELSE 0]
              I == [w \in Windows |-> IF w = Conn THEN c.inc ELSE IF w = s THEN x.inc ELSE 0]
  <1>1. /\ Conn \in Windows /\ s \in Windows /\ s # Conn /\ \A z \in Streams : z \in Windows /\ z # Conn
        /\ MaxWindow \in Nat
        /\ win \in [Windows -> WinRec] /\ granted \in [Windows -> Nat]
        /\ received \in [Windows -> Nat] /\ held \in [Streams -> Nat]
    BY TypeFacts, WindowFacts, BoundsAssumption
  <1>2. win[Conn] \in WinRec /\ win[s] \in WinRec
    BY <1>1
  <1>3. /\ c.win \in WinRec /\ c.inc \in Nat
        /\ c.win.recv = win[Conn].recv + n - c.inc /\ c.win.recv >= 0
        /\ c.win.consumed = (IF auto THEN win[Conn].consumed ELSE win[Conn].consumed + k - c.inc)
    BY <1>2, GivesFacts
  <1>4. /\ x.win \in WinRec /\ x.inc \in Nat
        /\ x.win.recv = win[s].recv + m - x.inc /\ x.win.recv >= 0
        /\ x.win.consumed = (IF auto THEN win[s].consumed ELSE win[s].consumed + j - x.inc)
    BY <1>2, GivesFacts
  <1>5. /\ N \in [Windows -> Nat] /\ K \in [Windows -> Nat] /\ I \in [Windows -> Nat]
        /\ \A w \in Windows :
             /\ N[w] = (IF w = Conn THEN n ELSE IF w = s THEN m ELSE 0)
             /\ K[w] = (IF w = Conn THEN k ELSE IF w = s THEN j ELSE 0)
             /\ I[w] = (IF w = Conn THEN c.inc ELSE IF w = s THEN x.inc ELSE 0)
    BY <1>3, <1>4
  <1>. HIDE DEF N, K, I
  <1>6. ASSUME NEW w \in Windows
        PROVE  /\ win'[w].recv = win[w].recv + N[w] - I[w] /\ win'[w].recv >= 0
               /\ win'[w].consumed = (IF auto THEN win[w].consumed
                                      ELSE win[w].consumed + K[w] - I[w])
               /\ win[w].recv + N[w] <= MaxWindow
               /\ granted'[w] = granted[w] + I[w] /\ received'[w] = received[w] + N[w]
    <2>0. /\ win[w] \in WinRec /\ granted[w] \in Nat /\ received[w] \in Nat
          /\ win[w].recv \in Int /\ win[w].consumed \in Nat
          /\ 0 <= win[w].recv /\ win[w].recv <= MaxWindow
      BY <1>1, WinFields DEF Earned, RecvBounded
    <2>1. CASE w = Conn
      <3>1. win'[w] = c.win /\ granted'[w] = granted[w] + c.inc
        BY <1>1, <2>1
      <3>. QED
        BY <1>3, <1>5, <2>1, <3>1
    <2>2. CASE w = s
      <3>1. win'[w] = x.win /\ granted'[w] = granted[w] + x.inc
        BY <1>1, <2>2
      <3>2. received'[w] = received[w] + m /\ N[w] = m /\ K[w] = j /\ I[w] = x.inc
        BY <1>1, <1>5, <2>2
      <3>. QED
        BY <1>4, <2>2, <3>1, <3>2
    <2>3. CASE w # Conn /\ w # s
      <3>1. win'[w] = win[w] /\ granted'[w] = granted[w]
        BY <1>1, <2>3
      <3>2. received'[w] = received[w] /\ N[w] = 0 /\ K[w] = 0 /\ I[w] = 0
        BY <1>5, <2>3
      <3>. QED
        BY <2>0, <3>1, <3>2
    <2>. QED
      BY <2>1, <2>2, <2>3
  <1>7. ASSUME ~auto
        PROVE  /\ K[Conn] + Held' <= N[Conn] + Held
               /\ \A z \in Streams : Kept(z)' => Kept(z) /\ K[z] + held'[z] <= N[z] + held[z]
    <2>1. K[Conn] = k /\ N[Conn] = n
      BY <1>1, <1>5
    <2>2. ASSUME NEW z \in Streams, Kept(z)'
          PROVE  Kept(z) /\ K[z] + held'[z] <= N[z] + held[z]
      <3>1. Kept(z)
        BY <2>2 DEF Kept
      <3>2. CASE z = s
        <4>1. K[z] = j /\ N[z] = m
          BY <1>1, <1>5, <3>2
        <4>. QED
          BY <1>7, <3>1, <3>2, <4>1
      <3>3. CASE z # s
        <4>1. K[z] = 0 /\ N[z] = 0 /\ held'[z] = held[z] /\ held[z] \in Nat
          BY <1>1, <1>5, <3>3
        <4>. QED
          BY <3>1, <4>1
      <3>. QED
        BY <3>2, <3>3
    <2>. QED
      BY <1>7, <2>1, <2>2
  <1>8. auto' = auto /\ (~auto =>
          /\ K[Conn] + Held' <= N[Conn] + Held
          /\ \A z \in Streams : Kept(z)' => Kept(z) /\ K[z] + held'[z] <= N[z] + held[z])
    BY <1>7
  <1>9. N \in [Windows -> Nat] /\ K \in [Windows -> Nat] /\ I \in [Windows -> Nat]
    BY <1>5
  <1>. QED
    BY ONLY Types, Types', Earned, <1>6, <1>8, <1>9, EarnedStep, SMTT(30)

(* An operation on one window. *)
OneStep(v, r, n) ==
  /\ UNCHANGED <<auto, held>> /\ \A s \in Streams : Kept(s)' => Kept(s)
  /\ Gives(win[v], n, n, r) /\ win[v].recv + n <= MaxWindow
  /\ win' = [win EXCEPT ![v] = r.win] /\ granted' = [granted EXCEPT ![v] = @ + r.inc]
  /\ \A w \in Windows : received'[w] = IF w = v THEN received[w] + n ELSE received[w]

(* and so is what one does.                                                *)
LEMMA OneEarned ==
  ASSUME Types, Types', Earned, NEW v \in Windows, NEW r, NEW n \in Nat, OneStep(v, r, n)
  PROVE  Earned'
  <1>. USE DEF OneStep
  <1>. DEFINE N == [w \in Windows |-> IF w = v THEN n ELSE 0]
              I == [w \in Windows |-> IF w = v THEN r.inc ELSE 0]
  <1>1. /\ Conn \in Windows /\ \A z \in Streams : z \in Windows
        /\ MaxWindow \in Nat
        /\ win \in [Windows -> WinRec] /\ granted \in [Windows -> Nat]
        /\ received \in [Windows -> Nat] /\ held \in [Streams -> Nat]
    BY TypeFacts, WindowFacts, BoundsAssumption
  <1>2. win[v] \in WinRec
    BY <1>1
  <1>3. /\ r.win \in WinRec /\ r.inc \in Nat
        /\ r.win.recv = win[v].recv + n - r.inc /\ r.win.recv >= 0
        /\ r.win.consumed = (IF auto THEN win[v].consumed ELSE win[v].consumed + n - r.inc)
    BY <1>2, GivesFacts
  <1>4. /\ N \in [Windows -> Nat] /\ I \in [Windows -> Nat]
        /\ \A w \in Windows : /\ N[w] = (IF w = v THEN n ELSE 0)
                              /\ I[w] = (IF w = v THEN r.inc ELSE 0)
    BY <1>3
  <1>. HIDE DEF N, I
  <1>5. ASSUME NEW w \in Windows
        PROVE  /\ win'[w].recv = win[w].recv + N[w] - I[w] /\ win'[w].recv >= 0
               /\ win'[w].consumed = (IF auto THEN win[w].consumed
                                      ELSE win[w].consumed + N[w] - I[w])
               /\ win[w].recv + N[w] <= MaxWindow
               /\ granted'[w] = granted[w] + I[w] /\ received'[w] = received[w] + N[w]
    <2>0. /\ win[w] \in WinRec /\ granted[w] \in Nat /\ received[w] \in Nat
          /\ win[w].recv \in Int /\ win[w].consumed \in Nat
          /\ 0 <= win[w].recv /\ win[w].recv <= MaxWindow
      BY <1>1, WinFields DEF Earned, RecvBounded
    <2>1. CASE w = v
      <3>1. win'[w] = r.win /\ granted'[w] = granted[w] + r.inc
        BY <1>1, <2>1
      <3>. QED
        BY <1>3, <1>4, <2>1, <3>1
    <2>2. CASE w # v
      <3>1. win'[w] = win[w] /\ granted'[w] = granted[w]
        BY <1>1, <2>2
      <3>2. received'[w] = received[w] /\ N[w] = 0 /\ I[w] = 0
        BY <1>4, <2>2
      <3>. QED
        BY <2>0, <3>1, <3>2
    <2>. QED
      BY <2>1, <2>2
  <1>6. /\ N[Conn] + Held' <= N[Conn] + Held
        /\ \A z \in Streams : Kept(z)' => Kept(z) /\ N[z] + held'[z] <= N[z] + held[z]
    <2>1. Held' = Held /\ Held \in Nat
      BY <1>1, HeldType DEF Held
    <2>2. \A w \in Windows : N[w] \in Nat
      BY <1>4
    <2>. QED
      BY <1>1, <2>1, <2>2
  <1>7. auto' = auto /\ N \in [Windows -> Nat] /\ I \in [Windows -> Nat]
    BY <1>4
  <1>. QED
    BY ONLY Types, Types', Earned, <1>5, <1>6, <1>7, EarnedStep, SMTT(30)

(* The first frame of an open stream, and the rest of one that is being    *)
(* reset, fit the window of the stream.                                    *)
LEMMA HeadCredit ==
  ASSUME IndInv, OrderInv, PlainInv, fwd # <<>>, Head(fwd).type = "DATA",
         state[Head(fwd).s] = "OPEN" \/ (Head(fwd).reading /\ state[Head(fwd).s] = "CLOSING")
  PROVE  Head(fwd).s \in Streams /\ Head(fwd).len \in Nat
         /\ Credit(win[Head(fwd).s]) >= Head(fwd).len
  <1>. DEFINE h == Head(fwd)
  <1>0. Types
    BY DEF IndInv
  <1>1. h \in Forward /\ h.type = "DATA"
    BY <1>0, TypeFacts, ForwardQueue
  <1>. HIDE DEF h
  <1>2. h.s \in Streams /\ h.s \in Windows /\ h.len \in Nat
    BY <1>1, KindWeights, WindowFacts
  <1>3. CASE state[h.s] = "OPEN"
    <2>1. ~error
      BY DEF PlainInv
    <2>2. h.len \in 0..h.len
      BY <1>2
    <2>3. ~Exceeds(win[h.s], h.len)
      BY <1>1, <1>3, <2>1, <2>2, HeadHasRoom DEF DataHasRoom, h
    <2>4. win[h.s].local \in Int /\ win[h.s].recv \in Int
      BY <1>0, <1>2, TypeFacts, WinFields
    <2>5. Credit(win[h.s]) >= h.len
      BY <1>2, <2>3, <2>4 DEF Exceeds, Credit
    <2>. QED
      BY <1>2, <2>5 DEF h
  <1>4. CASE h.reading /\ state[h.s] = "CLOSING"
    BY <1>1, <1>2, <1>4 DEF PlainInv, HeadFits, h
  <1>. QED
    BY <1>3, <1>4 DEF h

(* No window shrinks while the first frame waits for its rest. *)
LEMMA HeadKept ==
  ASSUME IndInv, IndInv', OrderInv, PlainInv, fwd' = fwd,
         \A s \in Streams : Credit(win'[s]) >= Credit(win[s]),
         \A s \in Streams : state'[s] = "CLOSING" => state[s] # "CLOSED"
  PROVE  HeadFits' /\ OnlyHeadRead'
  <1>1. HeadFits'
    <2>. DEFINE s == Head(fwd).s
    <2>. SUFFICES ASSUME fwd # <<>>, Head(fwd).type = "DATA", Head(fwd).reading,
                         state'[s] = "CLOSING"
                  PROVE  Credit(win'[s]) >= Head(fwd).len
      BY DEF HeadFits, Credit
    <2>0. Types /\ Types'
      BY DEF IndInv
    <2>1. Head(fwd) \in Forward
      BY <2>0, TypeFacts, ForwardQueue
    <2>2. s \in Streams /\ s \in Windows /\ Head(fwd).len \in Nat
      BY <2>1, KindWeights, WindowFacts
    <2>3. state[s] = "OPEN" \/ state[s] = "CLOSING"
      BY <2>0, <2>2, TypeFacts
    <2>4. Credit(win[s]) >= Head(fwd).len
      BY <2>3, HeadCredit
    <2>5. win[s] \in WinRec /\ win'[s] \in WinRec
      <3>1. win' \in [Windows -> WinRec]
        BY <2>0 DEF Types, TypeOK, WinRec
      <3>. QED
        BY <2>0, <2>2, <3>1, TypeFacts
    <2>6. Credit(win[s]) \in Int /\ Credit(win'[s]) \in Int
      BY <2>5, WinFields DEF Credit
    <2>7. Credit(win'[s]) >= Credit(win[s])
      BY <2>2
    <2>. QED
      BY <2>2, <2>4, <2>6, <2>7
  <1>2. OnlyHeadRead'
    BY DEF PlainInv, OnlyHeadRead
  <1>. QED
    BY <1>1, <1>2

(* A frame of which nothing was read joins the queue. *)
LEMMA HeadPushed ==
  ASSUME Types, HeadFits, OnlyHeadRead, UNCHANGED <<win, state>>,
         NEW m \in Forward, m.type = "DATA" => ~m.reading, fwd' = Append(fwd, m)
  PROVE  HeadFits' /\ OnlyHeadRead'
  <1>1. fwd \in Seq(Forward)
    BY TypeFacts
  <1>2. /\ fwd' \in Seq(Forward) /\ Len(fwd') = Len(fwd) + 1 /\ fwd'[Len(fwd) + 1] = m
        /\ Len(fwd) \in Nat /\ \A i \in 1..Len(fwd) : fwd'[i] = fwd[i]
    BY <1>1, AfterAppend, LenProperties
  <1>3. fwd' # <<>> /\ Head(fwd') = fwd'[1]
    <2>1. Len(fwd') # 0
      BY <1>2
    <2>2. fwd' # <<>>
      BY <2>1
    <2>. QED
      BY <1>2, <2>2, AfterFirst
  <1>4. OnlyHeadRead'
    <2>. SUFFICES ASSUME NEW i \in 1..Len(fwd'), fwd'[i].type = "DATA", i # 1
                  PROVE  ~fwd'[i].reading
      BY DEF OnlyHeadRead
    <2>1. CASE i \in 1..Len(fwd)
      BY <1>2, <2>1 DEF OnlyHeadRead
    <2>2. CASE i = Len(fwd) + 1
      BY <1>2, <2>2
    <2>. QED
      BY <1>2, <2>1, <2>2
  <1>5. HeadFits'
    <2>1. CASE fwd = <<>>
      <3>1. fwd'[1] = m
        BY <1>2, <2>1, EmptySeq
      <3>. QED
        BY <1>3, <3>1 DEF HeadFits
    <2>2. CASE fwd # <<>>
      <3>1. 1 \in 1..Len(fwd) /\ fwd[1] = Head(fwd)
        BY <1>1, <2>2, AfterFirst
      <3>2. Head(fwd') = Head(fwd)
        BY <1>2, <1>3, <3>1
      <3>. QED
        BY <1>3, <2>2, <3>2 DEF HeadFits, Credit
    <2>. QED
      BY <2>1, <2>2
  <1>. QED
    BY <1>4, <1>5

(* The first frame leaves. *)
LEMMA HeadPopped ==
  ASSUME Types, OnlyHeadRead, fwd # <<>>
  PROVE  \A i \in 1..Len(Tail(fwd)) : Tail(fwd)[i].type = "DATA" => ~Tail(fwd)[i].reading
  <1>. SUFFICES ASSUME NEW i \in 1..Len(Tail(fwd)), Tail(fwd)[i].type = "DATA"
                PROVE  ~Tail(fwd)[i].reading
    OBVIOUS
  <1>1. fwd \in Seq(Forward)
    BY TypeFacts
  <1>2. i + 1 \in 1..Len(fwd) /\ Tail(fwd)[i] = fwd[i + 1] /\ i + 1 # 1
    BY <1>1, AfterPop
  <1>. QED
    BY <1>2 DEF OnlyHeadRead

(* When bytes of the first frame have come in, the reading of its rest, if *)
(* there is one, goes on as b says.                                        *)
LEMMA HeadRest ==
  ASSUME Types, OnlyHeadRead, NEW n, Comes(n), NEW b \in BOOLEAN, fwd' = Rest(n, b)
  PROVE  /\ OnlyHeadRead'
         /\ fwd' # <<>> /\ Head(fwd').type = "DATA" /\ Head(fwd').reading =>
              b /\ Head(fwd').s = Head(fwd).s /\ Head(fwd').len = Head(fwd).len - n
  <1>. DEFINE h == Head(fwd)
              m == [h EXCEPT !.len = @ - n, !.reading = b]
              t == Tail(fwd)
  <1>1. fwd \in Seq(Forward) /\ fwd # <<>> /\ h.type = "DATA" /\ n \in 1..h.len
    BY TypeFacts DEF Comes
  <1>2. h \in Forward /\ t \in Seq(Forward)
    BY <1>1, ForwardQueue
  <1>3. \A i \in 1..Len(t) : t[i].type = "DATA" => ~t[i].reading
    BY <1>1, HeadPopped
  <1>4. Rest(n, b) = IF h.len = n THEN t ELSE <<m>> \o t
    BY DEF Rest
  <1>. HIDE DEF h, t
  <1>5. h \in DataFrame /\ h.len \in Nat
    BY <1>1, <1>2, KindWeights, KindFacts
  <1>6. CASE h.len = n
    <2>1. fwd' = t
      BY <1>4, <1>6
    <2>2. OnlyHeadRead'
      BY <1>3, <2>1 DEF OnlyHeadRead
    <2>3. fwd' # <<>> => 1 \in 1..Len(t) /\ Head(fwd') = t[1]
      BY <1>2, <2>1, AfterFirst
    <2>. QED
      BY <1>3, <2>2, <2>3
  <1>7. CASE h.len # n
    <2>1. n \in Nat /\ h.len - n \in Nat
      BY <1>1, <1>5
    <2>2. m \in DataFrame /\ m.type = "DATA" /\ m.s = h.s /\ m.len = h.len - n /\ m.reading = b
      BY <1>1, <1>5, <2>1, Zenon DEF DataFrame
    <2>. HIDE DEF m
    <2>3. m \in Forward
      BY <2>2, NewFrames
    <2>4. fwd' = <<m>> \o t
      BY <1>4, <1>7
    <2>5. /\ <<m>> \o Tail(fwd) \in Seq(Forward) /\ Len(<<m>> \o Tail(fwd)) = Len(fwd)
          /\ (<<m>> \o Tail(fwd))[1] = m
          /\ \A i \in 1..Len(fwd) : i # 1 => (<<m>> \o Tail(fwd))[i] = fwd[i]
      BY <1>1, <2>3, AfterPut
    <2>6. /\ fwd' \in Seq(Forward) /\ Len(fwd') = Len(fwd) /\ fwd'[1] = m
          /\ \A i \in 1..Len(fwd) : i # 1 => fwd'[i] = fwd[i]
      BY <2>4, <2>5 DEF t
    <2>7. OnlyHeadRead'
      BY <2>6 DEF OnlyHeadRead
    <2>8. fwd' # <<>> => Head(fwd') = m
      BY <2>6, AfterFirst
    <2>. QED
      BY <2>2, <2>7, <2>8 DEF h
  <1>. QED
    BY <1>6, <1>7

(* The sizes of the windows stay. *)
LEMMA LocalsKept ==
  ASSUME LocalsAreSet, initialL' = initialL,
         \A w \in Windows : win'[w].local = win[w].local,
         \A s \in Streams : state'[s] # "CLOSED" => state[s] # "CLOSED"
  PROVE  LocalsAreSet' /\ \A w \in Windows : Kept(w)' => Kept(w)
  <1>1. \A w \in Windows : Kept(w)' => Kept(w)
    BY WindowFacts DEF Kept
  <1>. QED
    BY <1>1 DEF LocalsAreSet, Base

(* A step of the sender that the receiver does not see. *)
LEMMA SenderPlain ==
  ASSUME IndInv, IndInv', OrderInv, PlainInv, UNCHANGED receiver, ~error',
         \/ fwd' = fwd
         \/ \E m \in Forward : (m.type = "DATA" => ~m.reading) /\ fwd' = Append(fwd, m)
  PROVE  PlainInv'
  <1>0. Types
    BY DEF IndInv
  <1>1. UNCHANGED <<auto, win, initialL, inflight, state, held, granted, received>>
    BY DEF receiver
  <1>2. SettingsBounded'
    BY <1>1 DEF PlainInv, SettingsBounded
  <1>3. LocalsAreSet'
    BY <1>1 DEF PlainInv, LocalsAreSet, Kept, Base
  <1>4. Earned'
    BY <1>1 DEF PlainInv, Earned, RecvBounded, GrantsEarned, HeldBack, Kept, Held
  <1>5. HeadFits' /\ OnlyHeadRead'
    <2>1. CASE fwd' = fwd
      <3>1. HeadFits'
        BY <1>1, <2>1 DEF PlainInv, HeadFits, Credit
      <3>2. OnlyHeadRead'
        BY <2>1 DEF PlainInv, OnlyHeadRead
      <3>. QED
        BY <3>1, <3>2
    <2>2. CASE \E m \in Forward : (m.type = "DATA" => ~m.reading) /\ fwd' = Append(fwd, m)
      BY <1>0, <1>1, <2>2, HeadPushed DEF PlainInv
    <2>. QED
      BY <2>1, <2>2
  <1>. QED
    BY <1>2, <1>3, <1>4, <1>5 DEF PlainInv

(* A step of the receiver that changes no count of a window. *)
LEMMA ReceiverPlain ==
  ASSUME IndInv, IndInv', OrderInv, PlainInv, ~error', SettingsBounded',
         UNCHANGED <<auto, initialL, held, granted, received, fwd>>,
         \A w \in Windows : /\ win'[w].local = win[w].local /\ win'[w].recv = win[w].recv
                            /\ win'[w].consumed = win[w].consumed,
         \A s \in Streams : state'[s] # "CLOSED" => state[s] # "CLOSED"
  PROVE  PlainInv'
  <1>1. LocalsAreSet' /\ \A w \in Windows : Kept(w)' => Kept(w)
    BY LocalsKept DEF PlainInv
  <1>2. Earned'
    <2>1. RecvBounded'
      BY DEF PlainInv, Earned, RecvBounded
    <2>2. GrantsEarned'
      BY DEF PlainInv, Earned, GrantsEarned
    <2>3. HeldBack'
      BY <1>1, WindowFacts DEF PlainInv, Earned, HeldBack, Held
    <2>. QED
      BY <2>1, <2>2, <2>3 DEF Earned
  <1>3. HeadFits' /\ OnlyHeadRead'
    <2>1. \A s \in Streams : Credit(win'[s]) >= Credit(win[s])
      <3>. SUFFICES ASSUME NEW s \in Streams PROVE Credit(win'[s]) >= Credit(win[s])
        OBVIOUS
      <3>1. s \in Windows /\ win[s] \in WinRec
        BY WindowFacts, TypeFacts DEF IndInv
      <3>2. Credit(win'[s]) = Credit(win[s]) /\ Credit(win[s]) \in Int
        BY <3>1, WinFields DEF Credit
      <3>. QED
        BY <3>2
    <2>2. \A s \in Streams : state'[s] = "CLOSING" => state[s] # "CLOSED"
      OBVIOUS
    <2>. QED
      BY <2>1, <2>2, HeadKept
  <1>. QED
    BY <1>1, <1>2, <1>3 DEF PlainInv

(* No setting on its way is larger than the largest window. *)
LEMMA SettingBound ==
  ASSUME SettingsBounded, NEW k \in 0..Len(inflight)
  PROVE  Setting(initialL, inflight, k) <= MaxWindow
  <1>1. CASE k = 0
    BY <1>1 DEF Setting, SettingsBounded
  <1>2. CASE k # 0
    <2>1. k \in 1..Len(inflight)
      BY <1>2
    <2>. QED
      BY <1>2, <2>1 DEF Setting, SettingsBounded
  <1>. QED
    BY <1>1, <1>2

(* All the credit a sender has, or will have, beyond the setting, is for   *)
(* DATA it has sent.                                                       *)
LEMMA CreditEarned ==
  ASSUME IndInv, PlainInv, NEW w \in Windows
  PROVE  /\ applied[w] + Weight(UpdateF(w), back) <= sent[w]
         /\ applied[w] \in Nat /\ sent[w] \in Nat /\ Weight(UpdateF(w), back) \in Nat
  <1>0. Types
    BY DEF IndInv
  <1>1. /\ applied[w] \in Nat /\ sent[w] \in Nat /\ granted[w] \in Nat /\ received[w] \in Nat
        /\ win[w].recv \in Int
    BY <1>0, TypeFacts, WinFields
  <1>2. /\ Weight(UpdateF(w), back) \in Nat /\ Weight(UpdateF(w), ob) \in Nat
        /\ Weight(DataF(w), fwd) \in Nat
    BY <1>0, TypeFacts, BackwardQueue, ForwardQueue
  <1>3. /\ applied[w] + Weight(UpdateF(w), ob) + Weight(UpdateF(w), back) <= granted[w]
        /\ received[w] + Weight(DataF(w), fwd) <= sent[w]
    BY DEF IndInv, UpdateAccount, DataAccount
  <1>4. granted[w] + win[w].recv <= received[w] /\ 0 <= win[w].recv
    BY DEF PlainInv, Earned, GrantsEarned, RecvBounded
  <1>. QED
    BY <1>1, <1>2, <1>3, <1>4

(* SETTINGS never makes a window overflow, *)
LEMMA RecvSettingsPlain ==
  ASSUME IndInv, IndInv', OrderInv, PlainInv, RecvSettings
  PROVE  PlainInv'
  <1>. DEFINE v == Head(back).value
              r == [w \in Windows |->
                      IF w = Conn \/ w \in gone THEN remote[w] ELSE remote[w] + (v - initialR)]
  <1>0. Types
    BY DEF IndInv
  <1>1. /\ back # <<>> /\ Head(back).type = "SETTINGS"
        /\ error' = \E s \in Streams \ gone : r[s] > MaxWindow
        /\ UNCHANGED <<receiver, fwd>>
    BY DEF RecvSettings
  <1>2. v <= MaxWindow /\ v \in Nat
    <2>0. back \in Seq(Backward) /\ initialL \in Nat /\ inflight \in Seq(Nat)
      BY <1>0, TypeFacts
    <2>1. 1 \in 1..Len(back) /\ back[1] = Head(back)
      BY <1>1, <2>0, AfterFirst
    <2>. DEFINE k == Len(inflight) - Len(urgent) - Weight(SettingsF, After(back, 1))
    <2>2. k \in 0..Len(inflight)
      <3>1. /\ Weight(SettingsF, After(back, 1)) \in Nat
            /\ Weight(SettingsF, After(back, 1)) <= Weight(SettingsF, back)
            /\ Known \in Nat /\ Len(inflight) \in Nat /\ Len(urgent) \in Nat
            /\ Weight(SettingsF, back) \in Nat
        BY <2>1, SettingCounts
      <3>. QED
        BY <3>1 DEF Known
    <2>3. v = Setting(initialL, inflight, k)
      BY <1>1, <2>1 DEF OrderInv, SettingsInOrder
    <2>. HIDE DEF k
    <2>. QED
      BY <2>0, <2>2, <2>3, SettingBound, SettingType DEF PlainInv
  <1>3. ASSUME NEW s \in Streams \ gone PROVE ~(r[s] > MaxWindow)
    <2>1. s \in Windows /\ s # Conn
      BY WindowFacts
    <2>2. remote[s] = initialR + applied[s] - sent[s]
      BY <2>1 DEF IndInv, SenderAccount, Base
    <2>3. applied[s] <= sent[s] /\ applied[s] \in Nat /\ sent[s] \in Nat
      BY <2>1, CreditEarned
    <2>4. initialR \in Nat /\ remote[s] \in Int /\ MaxWindow \in Nat
      BY <1>0, <2>1, TypeFacts, BoundsAssumption
    <2>5. r[s] = remote[s] + (v - initialR)
      BY <2>1
    <2>. HIDE DEF v, r
    <2>. QED
      BY <1>2, <2>2, <2>3, <2>4, <2>5
  <1>. HIDE DEF r
  <1>4. ~error'
    BY <1>1, <1>3
  <1>. QED
    BY <1>1, <1>4, SenderPlain

(* and no WINDOW_UPDATE does. *)
LEMMA RecvWindowUpdatePlain ==
  ASSUME IndInv, IndInv', OrderInv, PlainInv, RecvWindowUpdate
  PROVE  PlainInv'
  <1>. DEFINE w == Head(back).w
              n == Head(back).value
              r == [remote EXCEPT ![w] = @ + n]
  <1>0. Types
    BY DEF IndInv
  <1>1. /\ back # <<>> /\ Head(back).type = "WINDOW_UPDATE"
        /\ (w \in gone /\ error' = error) \/ (w \notin gone /\ error' = (r[w] > MaxWindow))
        /\ UNCHANGED <<receiver, fwd>>
    BY DEF RecvWindowUpdate
  <1>2. /\ w \in Windows /\ n \in Nat /\ n <= Weight(UpdateF(w), back)
    <2>1. back \in Seq(Backward)
      BY <1>0, TypeFacts
    <2>2. /\ w \in Windows /\ n \in Nat
          /\ Weight(UpdateF(w), Tail(back)) \in Nat
          /\ Weight(UpdateF(w), back) = (IF w = w THEN n ELSE 0) + Weight(UpdateF(w), Tail(back))
      BY <1>1, <2>1, BackwardPop
    <2>. QED
      BY <2>2
  <1>3. ASSUME w \notin gone PROVE ~(r[w] > MaxWindow)
    <2>1. remote[w] = Base(w, initialR) + applied[w] - sent[w]
      BY <1>2, <1>3 DEF IndInv, SenderAccount
    <2>2. /\ applied[w] + Weight(UpdateF(w), back) <= sent[w]
          /\ applied[w] \in Nat /\ sent[w] \in Nat /\ Weight(UpdateF(w), back) \in Nat
      BY <1>2, CreditEarned
    <2>3. Base(w, initialR) <= MaxWindow /\ Base(w, initialR) \in Nat
      <3>1. Known \in 0..Len(inflight)
        BY SettingCounts
      <3>2. initialR <= MaxWindow /\ initialR \in Nat
        BY <1>0, <3>1, SettingBound, TypeFacts DEF OrderInv, KnownSetting, PlainInv
      <3>. QED
        BY <3>2, BoundsAssumption DEF Base
    <2>4. r[w] = remote[w] + n /\ remote[w] \in Int /\ MaxWindow \in Nat
      BY <1>0, <1>2, TypeFacts, BoundsAssumption
    <2>. HIDE DEF w, n, r
    <2>. QED
      BY <1>2, <2>1, <2>2, <2>3, <2>4
  <1>. HIDE DEF w, r
  <1>4. ~error'
    BY <1>1, <1>3 DEF PlainInv
  <1>. QED
    BY <1>1, <1>4, SenderPlain

(* The other steps of the sender make no error. *)
LEMMA SenderStepsPlain ==
  ASSUME IndInv, IndInv', OrderInv, PlainInv,
         \/ \E s \in Streams : PrepDeferred(s)
         \/ \E s \in Streams, n \in 1..MaxFrameSize : PrepData(s, n)
         \/ SentData \/ SentAck \/ RecvRstStream
  PROVE  PlainInv'
  <1>0. Types /\ ~error
    BY DEF IndInv, PlainInv
  <1>1. CASE \E s \in Streams : PrepDeferred(s)
    <2>1. UNCHANGED <<receiver, fwd, error>>
      BY <1>1 DEF PrepDeferred
    <2>. QED
      BY <1>0, <2>1, SenderPlain
  <1>2. CASE \E s \in Streams, n \in 1..MaxFrameSize : PrepData(s, n)
    <2>1. UNCHANGED <<receiver, fwd, error>>
      BY <1>2 DEF PrepData
    <2>. QED
      BY <1>0, <2>1, SenderPlain
  <1>3. CASE SentData
    <2>. DEFINE m == [type |-> "DATA", s |-> aob.s, len |-> aob.len, end |-> aob.end,
                      reading |-> FALSE]
    <2>1. aob # None /\ fwd' = Append(fwd, m) /\ UNCHANGED <<receiver, error>>
      BY <1>3 DEF SentData
    <2>2. aob.s \in Streams /\ aob.len \in Nat /\ aob.end \in BOOLEAN
      BY <1>0, <2>1, AobFacts
    <2>3. m \in Forward /\ ~m.reading
      BY <2>2, NewFrames
    <2>. HIDE DEF m
    <2>. QED
      BY <1>0, <2>1, <2>3, SenderPlain
  <1>4. CASE SentAck
    <2>. DEFINE m == [type |-> "ACK"]
    <2>1. fwd' = Append(fwd, m) /\ UNCHANGED <<receiver, error>>
      BY <1>4 DEF SentAck
    <2>2. m \in Forward /\ m.type # "DATA"
      BY NewFrames
    <2>. HIDE DEF m
    <2>. QED
      BY <1>0, <2>1, <2>2, SenderPlain
  <1>5. CASE RecvRstStream
    <2>1. UNCHANGED <<receiver, fwd, error>>
      BY <1>5 DEF RecvRstStream
    <2>. QED
      BY <1>0, <2>1, SenderPlain
  <1>. QED
    BY <1>1, <1>2, <1>3, <1>4, <1>5

(* A setting no larger than the largest window is submitted. *)
LEMMA SubmitSettingsPlain ==
  ASSUME IndInv, IndInv', OrderInv, PlainInv, NEW v \in SettingsValues, SubmitSettings(v)
  PROVE  PlainInv'
  <1>1. /\ inflight' = Append(inflight, v)
        /\ UNCHANGED <<auto, win, initialL, held, granted, received, fwd, state, error>>
    BY DEF SubmitSettings
  <1>2. v \in Nat /\ v <= MaxWindow /\ inflight \in Seq(Nat)
    BY BoundsAssumption, TypeFacts DEF IndInv
  <1>3. SettingsBounded'
    <2>1. /\ Len(inflight') = Len(inflight) + 1 /\ inflight'[Len(inflight) + 1] = v
          /\ Len(inflight) \in Nat /\ \A i \in 1..Len(inflight) : inflight'[i] = inflight[i]
      BY <1>1, <1>2, AppendProperties, LenProperties
    <2>. SUFFICES ASSUME NEW i \in 1..Len(inflight') PROVE inflight'[i] <= MaxWindow
      BY <1>1 DEF PlainInv, SettingsBounded
    <2>2. CASE i \in 1..Len(inflight)
      BY <2>1, <2>2 DEF PlainInv, SettingsBounded
    <2>3. CASE i = Len(inflight) + 1
      BY <1>2, <2>1, <2>3
    <2>. QED
      BY <2>1, <2>2, <2>3
  <1>4. ~error'
    BY <1>1 DEF PlainInv
  <1>. QED
    BY <1>1, <1>3, <1>4, ReceiverPlain

(* Frames are queued and sent, and streams are reset and closed. *)
LEMMA QueueStepsPlain ==
  ASSUME IndInv, IndInv', OrderInv, PlainInv,
         SentSettings \/ SentRstStream \/ \E s \in Streams : SubmitRstStream(s)
  PROVE  PlainInv'
  <1>1. UNCHANGED <<auto, win, initialL, inflight, held, granted, received, fwd, error>>
    BY DEF SentSettings, SentRstStream, SubmitRstStream
  <1>2. ASSUME NEW z \in Streams, state'[z] # "CLOSED" PROVE state[z] # "CLOSED"
    <2>0. state \in [Streams -> {"OPEN", "CLOSING", "CLOSED"}]
      BY TypeFacts DEF IndInv
    <2>1. CASE SentSettings
      BY <1>2, <2>1 DEF SentSettings
    <2>2. CASE SentRstStream
      BY <1>2, <2>0, <2>2 DEF SentRstStream
    <2>3. CASE \E s \in Streams : SubmitRstStream(s)
      BY <1>2, <2>0, <2>3 DEF SubmitRstStream
    <2>. QED
      BY <2>1, <2>2, <2>3
  <1>3. SettingsBounded' /\ ~error'
    BY <1>1 DEF PlainInv, SettingsBounded
  <1>. QED
    BY <1>1, <1>2, <1>3, ReceiverPlain

(* Dropped DATA fits the connection, and its bytes can be consumed. *)
LEMMA IgnoreDataPlain ==
  ASSUME IndInv, IndInv', OrderInv, PlainInv, NEW n, IgnoreData(n)
  PROVE  PlainInv'
  <1>. DEFINE r == Ignored(win[Conn], n)
  <1>0. Types /\ Types' /\ ~error
    BY DEF IndInv, PlainInv
  <1>1. /\ Comes(n) /\ fwd' = Rest(n, FALSE) /\ Change(Conn, r)
        /\ error' = (Exceeds(win[Conn], n) \/ Overflows(win[Conn], n))
        /\ received' = [received EXCEPT ![Conn] = @ + n]
        /\ UNCHANGED <<auto, initialL, inflight, state, held>>
    BY DEF IgnoreData, Ignored
  <1>2. /\ Conn \in Windows /\ win \in [Windows -> WinRec] /\ win[Conn] \in WinRec
        /\ win[Conn].recv \in Int /\ win[Conn].local \in Int /\ win[Conn].consumed \in Nat
        /\ received \in [Windows -> Nat] /\ MaxWindow \in Nat
        /\ 0 <= win[Conn].recv /\ win[Conn].recv <= MaxWindow
    BY <1>0, TypeFacts, WindowFacts, WinFields, BoundsAssumption
       DEF PlainInv, Earned, RecvBounded
  <1>3. n \in Nat /\ ~Exceeds(win[Conn], n)
    <2>1. n \in 0..Head(fwd).len /\ n \in Nat /\ fwd # <<>> /\ Head(fwd).type = "DATA"
      BY <1>0, <1>1, RestFacts DEF Comes
    <2>. QED
      BY <1>0, <2>1, HeadHasRoom DEF DataHasRoom
  <1>4. win[Conn].recv + n <= MaxWindow
    BY <1>2, <1>3 DEF Exceeds
  <1>5. ~Overflows(win[Conn], n)
    <2>1. win[Conn].consumed <= win[Conn].recv
      <3>1. CASE auto
        BY <1>2, <3>1 DEF PlainInv, Earned, HeldBack
      <3>2. CASE ~auto
        <4>1. Held \in Nat
          BY <1>0, TypeFacts, HeldType
        <4>. QED
          BY <1>2, <3>2, <4>1 DEF PlainInv, Earned, HeldBack
      <3>. QED
        BY <3>1, <3>2
    <2>. QED
      BY <1>2, <1>3, <1>4, <2>1 DEF Overflows
  <1>6. ~error'
    BY <1>1, <1>3, <1>5
  <1>7. Gives(win[Conn], n, n, r)
    BY <1>2, <1>3, IgnoredGives
  <1>. HIDE DEF r
  <1>8. /\ win' = [win EXCEPT ![Conn] = r.win] /\ granted' = [granted EXCEPT ![Conn] = @ + r.inc]
        /\ r.win.local = win[Conn].local
    BY <1>1, <1>2, <1>3, <1>7, GivesFacts DEF Change
  <1>9. \A w \in Windows : win'[w].local = win[w].local
    BY <1>2, <1>8
  <1>10. LocalsAreSet' /\ \A w \in Windows : Kept(w)' => Kept(w)
    BY <1>1, <1>9, LocalsKept DEF PlainInv
  <1>11. Earned'
    <2>1. \A w \in Windows : received'[w] = IF w = Conn THEN received[w] + n ELSE received[w]
      BY <1>1, <1>2
    <2>2. Earned /\ \A s \in Streams : Kept(s)' => Kept(s)
      BY <1>10, WindowFacts DEF PlainInv
    <2>3. OneStep(Conn, r, n)
      BY <1>1, <1>4, <1>7, <1>8, <2>1, <2>2 DEF OneStep
    <2>. QED
      BY <1>0, <1>2, <1>3, <2>2, <2>3, OneEarned
  <1>12. HeadFits' /\ OnlyHeadRead'
    BY <1>0, <1>1, HeadRest DEF PlainInv, HeadFits
  <1>13. SettingsBounded'
    BY <1>1 DEF PlainInv, SettingsBounded
  <1>. QED
    BY <1>6, <1>10, <1>11, <1>12, <1>13 DEF PlainInv

(* DATA for the application fits both windows. *)
LEMMA RecvDataPlain ==
  ASSUME IndInv, IndInv', OrderInv, PlainInv, NEW n, RecvData(n)
  PROVE  PlainInv'
  <1>. DEFINE s == Head(fwd).s
              last == Head(fwd).end /\ n = Head(fwd).len
              c == update_recv(win[Conn], n, TRUE)
              u == update_recv(win[s], n, ~last)
              x == IF Exceeds(win[s], n) THEN Silent(win[s]) ELSE u
  <1>0. Types /\ Types' /\ ~error
    BY DEF IndInv, PlainInv
  <1>1. /\ Comes(n) /\ Reads /\ fwd' = Rest(n, TRUE)
        /\ error' = (Exceeds(win[Conn], n) \/ (state[s] = "OPEN" /\ Exceeds(win[s], n)))
        /\ win' = [win EXCEPT ![Conn] = c.win, ![s] = x.win]
        /\ granted' = [granted EXCEPT ![Conn] = @ + c.inc, ![s] = @ + x.inc]
        /\ received' = [received EXCEPT ![Conn] = @ + n, ![s] = @ + n]
        /\ held' = [held EXCEPT ![s] = @ + n]
        /\ UNCHANGED <<auto, initialL, inflight, state>>
    BY DEF RecvData
  <1>2. /\ fwd # <<>> /\ Head(fwd).type = "DATA" /\ n \in 1..Head(fwd).len
        /\ state[s] = "OPEN" \/ (Head(fwd).reading /\ state[s] = "CLOSING")
    BY <1>1 DEF Comes, Reads
  <1>3. s \in Streams /\ Head(fwd).len \in Nat /\ Credit(win[s]) >= Head(fwd).len
    BY <1>2, HeadCredit
  <1>4. n \in Nat /\ n \in 0..Head(fwd).len
    BY <1>2, <1>3
  <1>. DEFINE l == Head(fwd).len
  <1>5. /\ Conn \in Windows /\ s \in Windows /\ s # Conn
        /\ win \in [Windows -> WinRec] /\ win[Conn] \in WinRec /\ win[s] \in WinRec
        /\ win[Conn].recv \in Int /\ win[s].recv \in Int /\ win[s].local \in Int
        /\ win[Conn].local \in Int
        /\ received \in [Windows -> Nat] /\ held \in [Streams -> Nat] /\ MaxWindow \in Nat
        /\ 0 <= win[Conn].recv /\ 0 <= win[s].recv /\ win[s].local <= MaxWindow
        /\ granted \in [Windows -> Nat]
    BY <1>0, <1>3, TypeFacts, WindowFacts, WinFields, BoundsAssumption, BoundsFacts
       DEF PlainInv, Earned, RecvBounded
  <1>6. ~Exceeds(win[Conn], n)
    BY <1>0, <1>2, <1>4, HeadHasRoom DEF DataHasRoom
  <1>7. win[Conn].recv + n <= MaxWindow
    BY <1>4, <1>5, <1>6 DEF Exceeds
  <1>8. win[s].recv + n <= win[s].local
    <2>1. win[s].local - win[s].recv >= Head(fwd).len
      BY <1>3 DEF Credit
    <2>. HIDE DEF s
    <2>. QED
      BY <1>2, <1>3, <1>4, <1>5, <2>1
  <1>9. ~Exceeds(win[s], n) /\ win[s].recv + n <= MaxWindow
    <2>. HIDE DEF s
    <2>. QED
      BY <1>4, <1>5, <1>8 DEF Exceeds
  <1>10. ~error'
    BY <1>1, <1>6, <1>9
  <1>11. Gives(win[Conn], n, 0, c)
    BY <1>4, <1>5, RecvGives
  <1>12. Gives(win[s], n, 0, x)
    <2>1. x = u
      BY <1>9
    <2>2. Gives(win[s], n, 0, u)
      BY <1>4, <1>5, RecvGives
    <2>. HIDE DEF u, x
    <2>. QED
      BY <2>1, <2>2
  <1>. HIDE DEF c, x, s, last, u
  <1>13. /\ c.win.local = win[Conn].local /\ x.win.local = win[s].local
         /\ x.inc \in Nat /\ Credit(win[s]) \in Int
         /\ Credit(x.win) = Credit(win[s]) - n + x.inc
    BY <1>4, <1>5, <1>11, <1>12, GivesFacts
  <1>14. LocalsAreSet' /\ \A w \in Windows : Kept(w)' => Kept(w)
    <2>1. \A w \in Windows : win'[w].local = win[w].local
      BY <1>1, <1>5, <1>13
    <2>. QED
      BY <1>1, <2>1, LocalsKept DEF PlainInv
  <1>15. Earned'
    <2>1. \A w \in Windows : received'[w] = IF w = Conn THEN received[w] + n
                                            ELSE IF w = s THEN received[w] + n ELSE received[w]
      BY <1>1, <1>4, <1>5, SMTT(30)
    <2>2. held'[s] = held[s] + n /\ \A z \in Streams : z # s => held'[z] = held[z]
      BY <1>1, <1>3, <1>5
    <2>3. Held \in Nat /\ Held' = Held + n
      <3>1. held' \in [Streams -> Nat]
        BY <1>0 DEF Types
      <3>. QED
        <4>1. HoldsMore(held, held', s, n)
          BY <1>3, <1>4, <1>5, <2>2, <3>1 DEF HoldsMore
        <4>2. /\ Weight(held, SetToSeq(Streams)) \in Nat
              /\ Weight(held', SetToSeq(Streams)) = Weight(held, SetToSeq(Streams)) + n
          BY ONLY <4>1, HeldGrows
        <4>. QED
          BY <4>2 DEF Held
    <2>4. /\ ~auto => 0 + Held' <= n + Held
          /\ ~auto /\ Kept(s) => 0 + held'[s] <= n + held[s]
      <3>1. held[s] \in Nat
        BY <1>3, <1>5
      <3>. QED
        BY <1>4, <2>2, <2>3, <3>1
    <2>5. TwoSteps(s, c, x, n, 0, n, 0)
      <3>1. \A w \in Windows :
              /\ win'[w] = IF w = Conn THEN c.win ELSE IF w = s THEN x.win ELSE win[w]
              /\ granted'[w] = IF w = Conn THEN granted[w] + c.inc
                               ELSE IF w = s THEN granted[w] + x.inc ELSE granted[w]
        BY <1>1, <1>5
      <3>. QED
        BY <1>1, <1>7, <1>9, <1>11, <1>12, <2>1, <2>2, <2>4, <3>1 DEF TwoSteps
    <2>6. Earned /\ 0 \in Nat
      BY DEF PlainInv
    <2>. QED
      BY <1>0, <1>3, <1>4, <2>5, <2>6, TwoEarned
  <1>16. HeadFits' /\ OnlyHeadRead'
    <2>1. /\ OnlyHeadRead'
          /\ fwd' # <<>> /\ Head(fwd').type = "DATA" /\ Head(fwd').reading =>
               Head(fwd').s = s /\ Head(fwd').len = l - n
      BY <1>0, <1>1, HeadRest DEF PlainInv, s
    <2>2. Credit(win'[s]) >= l - n
      <3>1. win'[s] = x.win
        BY <1>1, <1>5
      <3>. HIDE DEF l
      <3>2. l \in Nat /\ Credit(win[s]) >= l
        BY <1>3 DEF l
      <3>. QED
        BY <1>4, <1>13, <3>1, <3>2
    <2>3. HeadFits'
      BY <2>1, <2>2 DEF HeadFits, Credit
    <2>. QED
      BY <2>1, <2>3
  <1>17. SettingsBounded'
    BY <1>1 DEF PlainInv, SettingsBounded
  <1>. QED
    BY <1>10, <1>14, <1>15, <1>16, <1>17 DEF PlainInv

(* The application cannot consume more than it holds. *)
LEMMA ConsumePlain ==
  ASSUME IndInv, IndInv', OrderInv, PlainInv, NEW s \in Streams, NEW n \in Nat, Consume(s, n)
  PROVE  PlainInv'
  <1>. DEFINE has == state[s] # "CLOSED"
              c == session_update_consumed_size(win[Conn], n)
              u == session_update_consumed_size(win[s], n)
              x == IF has THEN u ELSE Silent(win[s])
              j == IF has THEN n ELSE 0
  <1>0. Types /\ Types' /\ ~error
    BY DEF IndInv, PlainInv
  <1>1. /\ ~auto /\ n \in 1..held[s]
        /\ error' = (Overflows(win[Conn], n) \/ (has /\ Overflows(win[s], n)))
        /\ held' = [held EXCEPT ![s] = @ - n]
        /\ win' = [win EXCEPT ![Conn] = c.win, ![s] = IF has THEN u.win ELSE @]
        /\ granted' = [granted EXCEPT ![Conn] = @ + c.inc, ![s] = IF has THEN @ + u.inc ELSE @]
        /\ UNCHANGED <<auto, initialL, inflight, state, received, fwd>>
    BY DEF Consume
  <1>2. /\ Conn \in Windows /\ s \in Windows /\ s # Conn
        /\ win \in [Windows -> WinRec] /\ granted \in [Windows -> Nat]
        /\ win[Conn] \in WinRec /\ win[s] \in WinRec
        /\ win[Conn].recv \in Int /\ win[s].recv \in Int
        /\ win[Conn].consumed \in Nat /\ win[s].consumed \in Nat
        /\ received \in [Windows -> Nat] /\ held \in [Streams -> Nat] /\ MaxWindow \in Nat
        /\ 0 <= win[Conn].recv /\ 0 <= win[s].recv
        /\ win[Conn].recv <= MaxWindow /\ win[s].recv <= MaxWindow
    BY <1>0, TypeFacts, WindowFacts, WinFields, BoundsAssumption
       DEF PlainInv, Earned, RecvBounded
  <1>3. /\ held' \in [Streams -> Nat] /\ held[s] = held'[s] + n /\ held'[s] \in Nat
        /\ \A z \in Streams : z # s => held'[z] = held[z]
    <2>1. held' \in [Streams -> Nat]
      BY <1>0 DEF Types
    <2>. QED
      BY <1>1, <1>2, <2>1
  <1>4. Held' \in Nat /\ Held = Held' + n
    <2>. DEFINE g == held'
    <2>1. /\ g \in [Streams -> Nat] /\ held[s] = g[s] + n
          /\ \A z \in Streams : z # s => held[z] = g[z]
      BY <1>3
    <2>. HIDE DEF g
    <2>2. HoldsMore(g, held, s, n)
      BY <1>2, <2>1 DEF HoldsMore
    <2>3. /\ Weight(g, SetToSeq(Streams)) \in Nat
          /\ Weight(held, SetToSeq(Streams)) = Weight(g, SetToSeq(Streams)) + n
      BY ONLY <2>2, HeldGrows
    <2>. QED
      BY <2>3 DEF Held, g
  <1>5. /\ win[Conn].consumed + Held <= win[Conn].recv
        /\ has => win[s].consumed + held[s] <= win[s].recv
    BY <1>1 DEF PlainInv, Earned, HeldBack, Kept
  <1>6. ~Overflows(win[Conn], n) /\ (has => ~Overflows(win[s], n))
    <2>. HIDE DEF has
    <2>. QED
      BY <1>2, <1>3, <1>4, <1>5 DEF Overflows
  <1>7. ~error'
    BY <1>1, <1>6
  <1>8. Gives(win[Conn], 0, n, c)
    BY <1>1, <1>2, ConsumedGives
  <1>9. Gives(win[s], 0, j, x) /\ j \in Nat
    <2>1. CASE has
      <3>1. x = u /\ j = n
        BY <2>1
      <3>2. Gives(win[s], 0, n, u)
        BY <1>1, <1>2, ConsumedGives
      <3>. HIDE DEF x, u, j
      <3>. QED
        BY <3>1, <3>2
    <2>2. CASE ~has
      <3>1. x = Silent(win[s]) /\ j = 0
        BY <2>2
      <3>2. Gives(win[s], 0, 0, Silent(win[s]))
        BY <1>2, SilentGives
      <3>. HIDE DEF x, j
      <3>. QED
        BY <3>1, <3>2
    <2>. QED
      BY <2>1, <2>2
  <1>10. /\ x.win = (IF has THEN u.win ELSE win[s])
         /\ x.inc = (IF has THEN u.inc ELSE 0)
    BY DEF Silent
  <1>. HIDE DEF c, x, u, j
  <1>11. /\ c.win.local = win[Conn].local /\ x.win.local = win[s].local
         /\ x.inc \in Nat /\ Credit(win[s]) \in Int
         /\ Credit(x.win) = Credit(win[s]) - 0 + x.inc
    BY <1>2, <1>8, <1>9, GivesFacts
  <1>12. \A w \in Windows :
           /\ win'[w] = IF w = Conn THEN c.win ELSE IF w = s THEN x.win ELSE win[w]
           /\ granted'[w] = IF w = Conn THEN granted[w] + c.inc
                            ELSE IF w = s THEN granted[w] + x.inc ELSE granted[w]
    <2>1. CASE has
      BY <1>1, <1>2, <1>10, <2>1
    <2>2. CASE ~has
      BY <1>1, <1>2, <1>10, <2>2
    <2>. QED
      BY <2>1, <2>2
  <1>13. LocalsAreSet' /\ \A w \in Windows : Kept(w)' => Kept(w)
    <2>1. \A w \in Windows : win'[w].local = win[w].local
      BY <1>11, <1>12
    <2>. QED
      BY <1>1, <2>1, LocalsKept DEF PlainInv
  <1>14. Earned'
    <2>1. /\ n + Held' <= 0 + Held
          /\ Kept(s) => j + held'[s] <= 0 + held[s]
      <3>1. n + Held' <= 0 + Held
        <4>. DEFINE a == Held'
        <4>1. a \in Nat /\ Held = a + n
          BY <1>4
        <4>. HIDE DEF a
        <4>2. n + a <= 0 + Held
          BY <4>1
        <4>. QED
          BY <4>2 DEF a
      <3>2. ASSUME Kept(s) PROVE j + held'[s] <= 0 + held[s]
        <4>1. j = n
          BY <1>2, <3>2 DEF Kept, j
        <4>. QED
          BY <1>3, <4>1
      <3>. QED
        BY <3>1, <3>2
    <2>2. TwoSteps(s, c, x, 0, n, 0, j)
      <3>1. \A w \in Windows : received'[w] = received[w] /\ received[w] \in Nat
        BY <1>1, <1>2
      <3>2. \A w \in Windows : received'[w] = IF w = Conn THEN received[w] + 0
                                       ELSE IF w = s THEN received[w] + 0 ELSE received[w]
        BY <3>1
      <3>3. win[Conn].recv + 0 <= MaxWindow /\ win[s].recv + 0 <= MaxWindow
        BY <1>2
      <3>. QED
        BY <1>1, <1>3, <1>8, <1>9, <1>12, <2>1, <3>2, <3>3 DEF TwoSteps
    <2>3. Earned /\ 0 \in Nat
      BY DEF PlainInv
    <2>. QED
      BY <1>0, <1>9, <2>2, <2>3, TwoEarned
  <1>15. HeadFits' /\ OnlyHeadRead'
    <2>1. ASSUME NEW z \in Streams PROVE Credit(win'[z]) >= Credit(win[z])
      <3>1. z \in Windows /\ z # Conn
        BY WindowFacts
      <3>2. Credit(win[z]) \in Int
        BY <1>2, <3>1, WinFields DEF Credit
      <3>3. CASE z = s
        <4>1. win'[z] = x.win
          BY <1>12, <3>1, <3>3
        <4>. QED
          BY <1>11, <3>3, <4>1
      <3>4. CASE z # s
        <4>1. win'[z] = win[z]
          BY <1>12, <3>1, <3>4
        <4>. QED
          BY <3>2, <4>1
      <3>. QED
        BY <3>3, <3>4
    <2>2. \A z \in Streams : state'[z] = "CLOSING" => state[z] # "CLOSED"
      BY <1>1
    <2>. QED
      BY <1>1, <2>1, <2>2, HeadKept
  <1>16. SettingsBounded'
    BY <1>1 DEF PlainInv, SettingsBounded
  <1>. QED
    BY <1>7, <1>13, <1>14, <1>15, <1>16 DEF PlainInv

(* When a WINDOW_UPDATE leaves, the window of the connection is never found *)
(* to be overrun. *)
LEMMA SentWindowUpdatePlain ==
  ASSUME IndInv, IndInv', OrderInv, PlainInv, SentWindowUpdate
  PROVE  PlainInv'
  <1>. DEFINE h == Head(ob)
              v == h.w
              u == [win[v] EXCEPT !.queued = FALSE]
              r == IF v \in ended THEN Silent(u) ELSE Recheck(u)
              refuses == auto /\ v \notin ended /\ Exceeds(u, 0)
              drops == v # Conn /\ state[v] # "OPEN"
  <1>0. Types /\ Types' /\ ~error
    BY DEF IndInv, PlainInv
  <1>1. /\ ob # <<>> /\ h.type = "WINDOW_UPDATE"
        /\ drops => UNCHANGED <<win, granted, state, error>>
        /\ ~drops => error' = (v = Conn /\ refuses)
        /\ ~drops /\ v # Conn /\ refuses => Refuse(v, u, Tail(ob))
        /\ ~drops /\ ~(v # Conn /\ refuses) =>
             /\ win' = [win EXCEPT ![v] = r.win]
             /\ granted' = [granted EXCEPT ![v] = @ + r.inc]
             /\ state' = state
        /\ UNCHANGED <<auto, initialL, inflight, held, received, fwd>>
    BY DEF SentWindowUpdate
  <1>2. v \in Windows /\ Conn \in Windows
    <2>1. ob \in Seq(Backward)
      BY <1>0, TypeFacts
    <2>. QED
      BY <1>1, <2>1, BackwardPop, WindowFacts
  <1>. HIDE DEF h
  <1>3. /\ win \in [Windows -> WinRec] /\ granted \in [Windows -> Nat]
        /\ received \in [Windows -> Nat] /\ MaxWindow \in Nat
        /\ state \in [Streams -> {"OPEN", "CLOSING", "CLOSED"}]
        /\ win[v] \in WinRec /\ win[v].recv \in Int /\ win[v].local \in Int
        /\ 0 <= win[v].recv /\ win[v].recv <= MaxWindow
    BY <1>0, <1>2, TypeFacts, WinFields, BoundsAssumption DEF PlainInv, Earned, RecvBounded
  <1>4. /\ u \in WinRec /\ u.local = win[v].local /\ u.recv = win[v].recv
        /\ u.consumed = win[v].consumed
    BY <1>3, Zenon DEF WinRec
  <1>. HIDE DEF u
  <1>5. ~error'
    <2>1. CASE drops
      BY <1>0, <1>1, <2>1
    <2>2. CASE ~drops
      <3>1. v = Conn => ~Exceeds(u, 0)
        <4>. SUFFICES ASSUME v = Conn PROVE ~Exceeds(u, 0)
          OBVIOUS
        <4>1. DataInFlight(Conn) \in Nat
          BY <1>0, InFlightIsWeight, TypeFacts, ForwardQueue
        <4>2. ConnectionHasRoom
          BY RoomOnConnection
        <4>3. ~Exceeds(win[Conn], 0)
          BY <1>0, <4>1, <4>2 DEF ConnectionHasRoom
        <4>. QED
          BY <1>4, <4>3 DEF Exceeds
      <3>. QED
        BY <1>1, <2>2, <3>1
    <2>. QED
      BY <2>1, <2>2
  <1>6. SettingsBounded'
    BY <1>1 DEF PlainInv, SettingsBounded
  <1>7. CASE drops
    BY <1>1, <1>5, <1>6, <1>7, ReceiverPlain
  <1>8. CASE ~drops /\ v # Conn /\ refuses
    <2>1. /\ v \in Streams /\ win' = [win EXCEPT ![v] = u]
          /\ state' = [state EXCEPT ![v] = "CLOSING"] /\ granted' = granted
          /\ state[v] = "OPEN"
      BY <1>1, <1>2, <1>8, WindowFacts DEF Refuse
    <2>2. \A w \in Windows : /\ win'[w].local = win[w].local /\ win'[w].recv = win[w].recv
                             /\ win'[w].consumed = win[w].consumed
      BY <1>3, <1>4, <2>1
    <2>3. \A z \in Streams : state'[z] # "CLOSED" => state[z] # "CLOSED"
      BY <1>3, <2>1
    <2>. QED
      BY <1>1, <1>5, <1>6, <2>1, <2>2, <2>3, ReceiverPlain
  <1>9. CASE ~drops /\ ~(v # Conn /\ refuses)
    <2>1. win' = [win EXCEPT ![v] = r.win] /\ granted' = [granted EXCEPT ![v] = @ + r.inc]
          /\ state' = state
      BY <1>1, <1>9
    <2>2. Gives(win[v], 0, 0, r)
      <3>1. Gives(u, 0, 0, r)
        <4>1. CASE v \in ended
          <5>1. r = Silent(u)
            BY <4>1
          <5>. HIDE DEF r
          <5>. QED
            BY <1>3, <1>4, <5>1, SilentGives
        <4>2. CASE v \notin ended
          <5>1. r = Recheck(u)
            BY <4>2
          <5>. HIDE DEF r
          <5>. QED
            BY <1>3, <1>4, <5>1, RecheckGives
        <4>. QED
          BY <4>1, <4>2
      <3>. HIDE DEF r
      <3>. QED
        BY <1>4, <3>1 DEF Gives
    <2>. HIDE DEF r
    <2>3. /\ r.win.local = win[v].local /\ r.inc \in Nat /\ Credit(win[v]) \in Int
          /\ Credit(r.win) = Credit(win[v]) - 0 + r.inc
      BY <1>3, <2>2, GivesFacts
    <2>4. LocalsAreSet' /\ \A w \in Windows : Kept(w)' => Kept(w)
      <3>1. \A w \in Windows : win'[w].local = win[w].local
        BY <1>3, <2>1, <2>3
      <3>. QED
        BY <1>1, <2>1, <3>1, LocalsKept DEF PlainInv
    <2>5. Earned'
      <3>1. \A w \in Windows : received'[w] = IF w = v THEN received[w] + 0 ELSE received[w]
        BY <1>1, <1>3
      <3>2. Earned /\ \A s \in Streams : Kept(s)' => Kept(s)
        BY <2>4, WindowFacts DEF PlainInv
      <3>3. OneStep(v, r, 0)
        BY <1>1, <1>3, <2>1, <2>2, <3>1, <3>2 DEF OneStep
      <3>. QED
        BY <1>0, <1>2, <3>2, <3>3, OneEarned
    <2>6. HeadFits' /\ OnlyHeadRead'
      <3>1. ASSUME NEW s \in Streams PROVE Credit(win'[s]) >= Credit(win[s])
        <4>1. s \in Windows /\ Credit(win[s]) \in Int
          BY <1>3, WindowFacts, WinFields DEF Credit
        <4>2. CASE s = v
          <5>1. win'[s] = r.win
            BY <1>3, <2>1, <4>1, <4>2
          <5>. QED
            BY <2>3, <4>2, <5>1
        <4>3. CASE s # v
          <5>1. win'[s] = win[s]
            BY <1>3, <2>1, <4>1, <4>3
          <5>. QED
            BY <4>1, <5>1
        <4>. QED
          BY <4>2, <4>3
      <3>2. \A s \in Streams : state'[s] = "CLOSING" => state[s] # "CLOSED"
        BY <2>1
      <3>. QED
        BY <1>1, <3>1, <3>2, HeadKept
    <2>. QED
      BY <1>5, <1>6, <2>4, <2>5, <2>6 DEF PlainInv
  <1>. QED
    BY <1>7, <1>8, <1>9

(* The acknowledgement moves every window of the receiver to the setting.  *)
LEMMA RecvAckPlain ==
  ASSUME IndInv, IndInv', OrderInv, PlainInv, RecvAck
  PROVE  PlainInv'
  <1>. DEFINE delta == Head(inflight) - initialL
              Has(w) == w # Conn /\ state[w] # "CLOSED"
              V(w) == [win[w] EXCEPT !.local = @ + delta]
              Moved(w) == IF V(w).queued THEN Silent(V(w)) ELSE Recheck(V(w))
              n == [w \in Windows |-> 0]
              inc == [w \in Windows |-> IF Has(w) THEN Moved(w).inc ELSE 0]
  <1>0. Types /\ Types' /\ ~error
    BY DEF IndInv, PlainInv
  <1>1. /\ fwd # <<>> /\ Head(fwd).type = "ACK" /\ fwd' = Tail(fwd)
        /\ win' = [w \in Windows |-> IF Has(w) THEN Moved(w).win ELSE win[w]]
        /\ granted' = [w \in Windows |->
                         IF Has(w) THEN granted[w] + Moved(w).inc ELSE granted[w]]
        /\ initialL' = Head(inflight) /\ inflight' = Tail(inflight)
        /\ error' = \E w \in Streams : Has(w) /\ win[w].local + delta > MaxWindow
        /\ UNCHANGED <<auto, state, held, received>>
    BY DEF RecvAck
  <1>2. /\ win \in [Windows -> WinRec] /\ granted \in [Windows -> Nat]
        /\ received \in [Windows -> Nat] /\ held \in [Streams -> Nat]
        /\ inflight \in Seq(Nat) /\ fwd \in Seq(Forward) /\ initialL \in Nat
        /\ MaxWindow \in Nat
        /\ \A w \in Windows : 0 <= win[w].recv /\ win[w].recv <= MaxWindow
    BY <1>0, TypeFacts, BoundsAssumption DEF PlainInv, Earned, RecvBounded
  <1>3. inflight # <<>>
    <2>1. /\ Head(fwd) \in Forward
          /\ Weight(AckF, fwd) = AckF[Head(fwd)] + Weight(AckF, Tail(fwd))
          /\ Weight(AckF, Tail(fwd)) \in Nat
      BY <1>1, <1>2, ForwardQueue
    <2>2. AckF[Head(fwd)] = 1
      BY <1>1, <2>1, KindWeights
    <2>3. /\ Len(inflight) = Len(urgent) + Weight(SettingsF, back) + acks + Weight(AckF, fwd)
          /\ Len(urgent) \in Nat /\ acks \in Nat /\ Weight(SettingsF, back) \in Nat
      BY <1>0, TypeFacts, BackwardQueue, LenProperties DEF IndInv, SettingsAccount
    <2>4. Len(inflight) # 0
      BY ONLY <2>1, <2>2, <2>3
    <2>. QED
      BY <2>4, EmptySeq
  <1>4. /\ 1 \in 1..Len(inflight) /\ inflight[1] = Head(inflight)
        /\ Head(inflight) \in Nat /\ delta \in Int /\ initialL + delta = Head(inflight)
    <2>1. 1 \in 1..Len(inflight) /\ inflight[1] = Head(inflight) /\ Head(inflight) \in Nat
      BY <1>2, <1>3, AfterFirst, HeadTailProperties
    <2>. QED
      BY <1>2, <2>1
  <1>5. Head(inflight) <= MaxWindow
    BY <1>4 DEF PlainInv, SettingsBounded
  <1>6. SettingsBounded'
    <2>. SUFFICES ASSUME NEW i \in 1..Len(Tail(inflight)) PROVE Tail(inflight)[i] <= MaxWindow
      BY <1>1, <1>5 DEF SettingsBounded
    <2>1. i + 1 \in 1..Len(inflight) /\ Tail(inflight)[i] = inflight[i + 1]
      BY <1>2, <1>3, AfterPop
    <2>. QED
      BY <2>1 DEF PlainInv, SettingsBounded
  <1>. HIDE DEF delta
  <1>7. ASSUME NEW w \in Windows, Has(w) PROVE win[w].local = initialL
    BY <1>7 DEF PlainInv, LocalsAreSet, Kept, Base
  <1>8. ~error'
    <2>. SUFFICES ASSUME NEW w \in Streams, Has(w) PROVE ~(win[w].local + delta > MaxWindow)
      BY <1>1
    <2>1. win[w].local + delta = Head(inflight)
      BY <1>4, <1>7, WindowFacts
    <2>. QED
      BY <1>2, <1>4, <1>5, <2>1
  <1>9. ASSUME NEW w \in Windows
        PROVE  /\ Moved(w).win.local = win[w].local + delta /\ Moved(w).inc \in Nat
               /\ Moved(w).win.recv = win[w].recv + 0 - Moved(w).inc /\ Moved(w).win.recv >= 0
               /\ Moved(w).win.consumed = (IF auto THEN win[w].consumed
                                           ELSE win[w].consumed + 0 - Moved(w).inc)
    <2>. DEFINE v == V(w)
                r == Moved(w)
    <2>1. win[w] \in WinRec /\ win[w].local + delta \in Int /\ win[w].recv >= 0
      <3>1. win[w] \in WinRec /\ win[w].recv \in Int /\ 0 <= win[w].recv
        BY <1>2, WinFields
      <3>. QED
        BY <1>4, <3>1, WinFields
    <2>2. /\ v \in WinRec /\ v.local = win[w].local + delta /\ v.recv = win[w].recv
          /\ v.consumed = win[w].consumed
      BY <2>1, Zenon DEF WinRec
    <2>3. r = IF v.queued THEN Silent(v) ELSE Recheck(v)
      OBVIOUS
    <2>. HIDE DEF v, r
    <2>4. Gives(v, 0, 0, r)
      <3>1. CASE v.queued
        BY <2>1, <2>2, <2>3, <3>1, SilentGives
      <3>2. CASE ~v.queued
        BY <2>1, <2>2, <2>3, <3>2, RecheckGives
      <3>. QED
        BY <3>1, <3>2
    <2>5. /\ r.win.local = win[w].local + delta /\ r.inc \in Nat
          /\ r.win.recv = win[w].recv + 0 - r.inc /\ r.win.recv >= 0
          /\ r.win.consumed = (IF auto THEN win[w].consumed
                               ELSE win[w].consumed + 0 - r.inc)
      BY <2>2, <2>4 DEF Gives
    <2>. QED
      BY <2>5, Zenon DEF r
  <1>. HIDE DEF Moved
  <1>10. LocalsAreSet'
    <2>. SUFFICES ASSUME NEW w \in Windows, Kept(w)
                  PROVE  win'[w].local = Base(w, Head(inflight))
      BY <1>1 DEF LocalsAreSet, Kept, Base
    <2>1. CASE w = Conn
      <3>1. win'[w] = win[w] /\ win[w].local = Base(w, initialL)
        BY <1>1, <2>1 DEF PlainInv, LocalsAreSet
      <3>. QED
        BY <2>1, <3>1 DEF Base
    <2>2. CASE w # Conn
      <3>1. Has(w)
        BY <2>2 DEF Kept
      <3>2. win'[w].local = win[w].local + delta
        BY <1>1, <1>9, <3>1
      <3>. QED
        BY <1>4, <1>7, <2>2, <3>1, <3>2 DEF Base
    <2>. QED
      BY <2>1, <2>2
  <1>11. Earned'
    <2>1. /\ n \in [Windows -> Nat] /\ inc \in [Windows -> Nat]
          /\ \A w \in Windows : n[w] = 0 /\ inc[w] = IF Has(w) THEN Moved(w).inc ELSE 0
      BY <1>9
    <2>. HIDE DEF n, inc
    <2>2. ASSUME NEW w \in Windows
          PROVE  /\ win'[w].recv = win[w].recv + n[w] - inc[w] /\ win'[w].recv >= 0
                 /\ win'[w].consumed = (IF auto THEN win[w].consumed
                                        ELSE win[w].consumed + n[w] - inc[w])
                 /\ win[w].recv + n[w] <= MaxWindow
                 /\ granted'[w] = granted[w] + inc[w] /\ received'[w] = received[w] + n[w]
      <3>0. /\ granted[w] \in Nat /\ received[w] \in Nat
            /\ win[w].recv \in Int /\ win[w].consumed \in Nat
            /\ 0 <= win[w].recv /\ win[w].recv <= MaxWindow
            /\ n[w] = 0
        BY <1>2, <2>1, WinFields
      <3>1. CASE Has(w)
        <4>1. win'[w] = Moved(w).win /\ granted'[w] = granted[w] + Moved(w).inc
              /\ inc[w] = Moved(w).inc
          BY <1>1, <2>1, <3>1
        <4>2. received'[w] = received[w]
          BY <1>1
        <4>. QED
          BY <1>9, <3>0, <4>1, <4>2
      <3>2. CASE ~Has(w)
        <4>1. win'[w] = win[w] /\ granted'[w] = granted[w] /\ inc[w] = 0
          BY <1>1, <2>1, <3>2
        <4>2. received'[w] = received[w]
          BY <1>1
        <4>. QED
          BY <3>0, <4>1, <4>2
      <3>. QED
        BY <3>1, <3>2
    <2>3. /\ n[Conn] + Held' <= n[Conn] + Held
          /\ \A z \in Streams : Kept(z)' => Kept(z) /\ n[z] + held'[z] <= n[z] + held[z]
      <3>1. Held' = Held /\ Held \in Nat
        BY <1>1, <1>2, HeldType DEF Held
      <3>2. /\ n[Conn] = 0
            /\ \A z \in Streams : n[z] = 0 /\ held'[z] = held[z] /\ held[z] \in Nat
                                  /\ (Kept(z)' => Kept(z))
        BY <1>1, <1>2, <2>1, WindowFacts DEF Kept
      <3>. QED
        BY <3>1, <3>2
    <2>4. auto' = auto /\ n \in [Windows -> Nat] /\ inc \in [Windows -> Nat]
      BY <1>1, <2>1
    <2>5. Earned
      BY DEF PlainInv
    <2>. QED
      BY ONLY <1>0, <2>2, <2>3, <2>4, <2>5, EarnedStep, SMTT(30)
  <1>12. HeadFits' /\ OnlyHeadRead'
    <2>1. \A i \in 1..Len(Tail(fwd)) : Tail(fwd)[i].type = "DATA" => ~Tail(fwd)[i].reading
      BY <1>0, <1>1, HeadPopped DEF PlainInv
    <2>2. OnlyHeadRead'
      BY <1>1, <2>1 DEF OnlyHeadRead
    <2>3. Tail(fwd) # <<>> => 1 \in 1..Len(Tail(fwd)) /\ Head(Tail(fwd)) = Tail(fwd)[1]
      <3>1. Tail(fwd) \in Seq(Forward)
        BY <1>1, <1>2, HeadTailProperties
      <3>. QED
        BY <3>1, AfterFirst
    <2>4. HeadFits'
      BY <1>1, <2>1, <2>3 DEF HeadFits
    <2>. QED
      BY <2>2, <2>4
  <1>. QED
    BY <1>6, <1>8, <1>10, <1>11, <1>12 DEF PlainInv

(* At first nothing is counted and nothing is held. *)
LEMMA InitPlain == Init => PlainInv
  <1>. SUFFICES ASSUME Init PROVE PlainInv
    OBVIOUS
  <1>1. /\ fwd = <<>> /\ inflight = <<>> /\ initialL = Initial /\ ~error
        /\ win = [w \in Windows |-> Window(Initial)]
        /\ held = Zero(Streams) /\ granted = Zero(Windows) /\ received = Zero(Windows)
    BY DEF Init
  <1>2. Initial \in Nat /\ Initial <= MaxWindow /\ MaxWindow \in Nat
    BY BoundsAssumption
  <1>3. SettingsBounded
    BY <1>1, <1>2, EmptySeq DEF SettingsBounded
  <1>4. \A w \in Windows : /\ win[w].local = Initial /\ win[w].recv = 0
                           /\ win[w].consumed = 0 /\ granted[w] = 0 /\ received[w] = 0
    BY <1>1 DEF Window, Zero
  <1>5. Held = 0 /\ \A s \in Streams : held[s] = 0
    <2>1. held \in [Streams -> Nat] /\ \A s \in Streams : held[s] = 0
      BY <1>1 DEF Zero
    <2>2. SetToSeq(Streams) \in Seq(Streams)
      <3>1. IsFiniteSet(Streams)
        BY StreamsAssumption
      <3>. QED
        BY <3>1, SetSequence, Zenon
    <2>. DEFINE q == SetToSeq(Streams)
    <2>. HIDE DEF q
    <2>3. q \in Seq(Streams)
      BY <2>2 DEF q
    <2>4. \A i \in 1..Len(q) : held[q[i]] = 0
      BY <2>1, <2>3, ElementOfSeq
    <2>5. Weight(held, q) = 0
      BY <2>1, <2>3, <2>4, WeightZero
    <2>. QED
      BY <2>1, <2>5 DEF Held, q
  <1>6. LocalsAreSet
    <2>1. \A w \in Windows : Base(w, Initial) = Initial
      BY DEF Base
    <2>. QED
      BY <1>1, <1>4, <2>1 DEF LocalsAreSet
  <1>7. Earned
    BY <1>2, <1>4, <1>5, WindowFacts DEF Earned, RecvBounded, GrantsEarned, HeldBack
  <1>8. HeadFits /\ OnlyHeadRead
    BY <1>1, EmptySeq DEF HeadFits, OnlyHeadRead
  <1>. QED
    BY <1>1, <1>3, <1>6, <1>7, <1>8 DEF PlainInv

(* Every step of an application that tunes no window keeps it so. *)
LEMMA NextPlain ==
  ASSUME Tuned = {}, IndInv, IndInv', OrderInv, PlainInv, [Next]_vars
  PROVE  PlainInv'
  <1>1. CASE UNCHANGED vars
    <2>1. UNCHANGED <<receiver, fwd, error>>
      BY <1>1 DEF vars
    <2>. QED
      BY <2>1, SenderPlain DEF PlainInv
  <1>2. CASE Send
    BY <1>2, SenderStepsPlain, RecvSettingsPlain, RecvWindowUpdatePlain DEF Send
  <1>3. CASE Receive
    BY <1>3, RecvDataPlain, IgnoreDataPlain, RecvAckPlain, QueueStepsPlain,
       SentWindowUpdatePlain DEF Receive
  <1>4. CASE Call
    <2>1. \/ \E v \in SettingsValues : SubmitSettings(v)
          \/ \E s \in Streams : SubmitRstStream(s)
      BY <1>4, StreamsAssumption DEF Call
    <2>. QED
      BY <2>1, SubmitSettingsPlain, QueueStepsPlain
  <1>5. CASE Read
    <2>1. PICK s \in Streams : \E n \in 1..Total[s] : Consume(s, n)
      BY <1>5 DEF Read
    <2>2. PICK n \in 1..Total[s] : Consume(s, n)
      BY <2>1
    <2>3. n \in Nat
      BY BoundsAssumption
    <2>. QED
      BY <2>2, <2>3, ConsumePlain
  <1>. QED
    BY <1>1, <1>2, <1>3, <1>4, <1>5 DEF Next

(* An application that calls neither nghttp2_session_set_local_window_size *)
(* nor nghttp2_submit_window_update never sees a flow control error:       *)
(* whatever settings it sends, whatever streams it resets and however late *)
(* it consumes, no DATA overruns a window, no SETTINGS and no WINDOW_UPDATE *)
(* makes one overflow, and nghttp2_session_consume never refuses           *)
(* (nghttp2_session.c:5512-5529, 4576-4685, 5193-5263, 5606-5641).         *)
THEOREM UntunedHonoursWindows == ASSUME Tuned = {} PROVE Spec => []PeerHonoursWindows
  <1>1. Init => IndInv /\ OrderInv /\ PlainInv
    BY InitInv, InitOrder, InitPlain
  <1>2. IndInv /\ OrderInv /\ PlainInv /\ [Next]_vars => IndInv' /\ OrderInv' /\ PlainInv'
    BY NextInv, NextOrder, NextPlain
  <1>3. PlainInv => PeerHonoursWindows
    BY DEF PlainInv, PeerHonoursWindows
  <1>. QED
    BY <1>1, <1>2, <1>3, PTL DEF Spec
===============================================================================
