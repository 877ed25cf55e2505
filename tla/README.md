# Verification of the LyraT microphone monitor and its components

TLA+ models, model-checking runs and machine-checked proofs for this repository:
the ESP32-LyraT application in `main/main.c`, which plays what the microphone
records, and two of the libraries it carries under `managed_components/`: the JSON
tokenizer jsmn and the core of the HTTP/2 library nghttp2.

## 1. The system

| Part | State | Operations | Interacts with |
|---|---|---|---|
| `app_main` (`main/main.c:90-171`) | its handles, `seconds_played` | twelve calls in a row, then an endless loop | calls ESP-ADF; no return value is checked |
| I2S configurations (`main.c:27-86`) | constants | used by `i2s_stream_init` | fix the sizes of the data path |
| data path (ESP-ADF elements, ring buffer, I2S driver) | DMA buffers, process buffers, ring buffer | two element tasks on two cores, two DMA interrupts | started by `audio_pipeline_run` |
| event interface | a queue of bounded length | elements report to it | nobody reads it (`main.c:163` declares a message that is never used) |
| tear-down (`main.c:172-190`) | - | never executed | - |
| WAV encoder and decoder (`main.c:130-138`) | - | commented out | - |
| jsmn (`espressif__jsmn/include/jsmn.h`) | parser (`pos`, `toknext`, `toksuper`) and token array, both owned by the caller | `jsmn_init`, `jsmn_parse` | called again after an error with the same parser |
| nghttp2 priority queue (`lib/nghttp2_pq.c`) | a binary heap | push, pop, remove | under the dependency tree |
| nghttp2 dependency tree (`lib/nghttp2_stream.c`) | links, weights, a queue of children per stream, cycles | attach, detach, defer, resume, insert, add, remove, move, change of weight, choice of the next stream | called by the session |
| nghttp2 session: streams (`lib/nghttp2_session.c`, `nghttp2_submit.c`) | stream map, lists of idle and of closed streams, counters, the frame being sent | one per received frame, API call and frame sent | keeps the tree |
| nghttp2 flow control (`nghttp2_session.c`, `nghttp2_helper.c`, `nghttp2_submit.c`) | two windows per stream and per connection, deferred streams | DATA, WINDOW_UPDATE, SETTINGS, their acknowledgement, RST_STREAM, API calls | two sessions over a transport |
| nghttp2 HPACK (`lib/nghttp2_hd.c`) | a dynamic table on each side, a ring and a hash map | deflate, inflate, change of size | two sessions over a transport |
| the rest of nghttp2 (frames, buffers, hash map, tools under `nghttp2/src`) | - | - | not modelled |

ESP-ADF and ESP-IDF are not in the repository. What `main.c` relies on of them is
modelled from its use here, and marked external in the map of `PROJECT.json`.
`main.c` does not call jsmn or nghttp2: they are dependencies the component manager
pulled in. They are modelled for what they promise any caller.

What is hard here:

* **partial failure**: a failed call leaves a NULL handle or half a pipeline
  behind, and the next call is made all the same. `mem_assert(pipeline)` is empty
  in this build: the object file of `main.c` refers to no assertion handler;
* **crash and restart**: a NULL handle may crash, and the panic handler reboots
  (`sdkconfig:871`) into a new start-up, in which other calls may fail;
* **concurrency**: two tasks and two DMA interrupts share three buffers; the
  process buffer (900 bytes, 450 frames) is half a DMA buffer (900 frames), and the
  ring buffer is no multiple of it, so transfers are partial;
* **limits**: two DMA buffers per port, one of which the DMA is always at work on, an
  event queue that nobody empties, closed HTTP/2 streams that are kept;
* **resumption**: jsmn goes on after running out of tokens or text, in the middle
  of malformed input too, and indexes its tokens without checks;
* **long sequences**: every priority change rewires a linked tree, its sums of
  weights and a chain of queues; a release build checks none of them;
* **two copies in step**: flow-control windows and HPACK tables exist on both ends
  of a connection, are never compared, and change at different times on the two;
* **ownership**: while the DATA frame of a stream is being sent, and between the two
  halves of what follows, the stream may be closed or be given new DATA.

The hazards, each at its line and with the properties that cover it, are listed in
`PROJECT.json`.

## 2. Modules

| Module | Models |
|---|---|
| `AudioLine` | abstract specification: an ordered line from the microphone to the speaker that may lose frames at its young end and plays from its old end |
| `MonitorPath` | the data path: `RxDma`, `ReaderInput`, `ReaderOutput`, `WriterInput`, `WriterOutput`, `TxDma`, `Start` |
| `MonitorPathSync` | `MonitorPath` with the timing of the configuration: interrupts alternate, tasks are late by at most `MaxLate` of them |
| `MicMonitor` | `app_main`: one action per call, with failure, crash and reboot |
| `MonitorSystem` | `MicMonitor` and `MonitorPath` composed; the tasks of the path are the elements `app_main` started |
| `Jsmn` | `jsmn_parse`, one step per iteration of its loop, and the caller its README describes |
| `Pq` | `nghttp2_pq.c`: the heap, with the order as a parameter |
| `StreamTree` | `nghttp2_stream.c`: the tree as operators from trees to trees, over `Pq` |
| `StreamSched` | the tree under every sequence of calls a session makes of it |
| `Http2Streams` | a server session over `StreamTree` |
| `FlowControl` | the windows of two sessions, one direction of DATA |
| `Hpack` | deflater and inflater of one direction, and the SETTINGS that resize their tables |
| `SeqSums` | sums over sequences, for the accounts of `FlowControl` |
| `MonitorPathProofs`, `MicMonitorProofs`, `MonitorSystemProofs`, `FlowControlProofs`, `JsmnProofs`, `JsmnResumeProofs`, `HpackProofs` | the theorems about `MonitorPath`, `MicMonitor`, `MonitorSystem`, `FlowControl`, `Jsmn` and `Hpack` |
| `SeqSumsProofs` | lemmas about sums over sequences, used for flow control, jsmn and HPACK |
| `MCMonitorPath`, `MCJsmn`, `MCStreamSched`, `MCHttp2Streams`, `MCFlowControl`, `MCHpack` | values of the constants for TLC |

`MonitorSystem` extends `MicMonitor` and instantiates `MonitorPath` with
`on <- running`. `MonitorPath` instantiates `AudioLine` with `held <- Held`, the
concatenation of all its buffers. `StreamTree` instantiates `Pq` with
`Less <- stream_less`; `StreamSched` and `Http2Streams` both extend `StreamTree`.
`MonitorSystemProofs` instantiates `MonitorPathProofs` as `MonitorSystem` does
`MonitorPath`, and so takes over its lemmas about the steps of the path.

### How state corresponds to the code

* `MonitorPath`: a frame is the number of its capture, so order, repetition and loss
  are visible. `rx` and `tx` are the DMA descriptors of the two ports, `rbuf` and
  `wbuf` the process buffers (`buffer_len`), `ring` the ring buffer
  (`out_rb_size`). A task is in its input or its output call (`rphase`, `wphase`);
  a blocking transfer moves what it can and blocks for the rest. The DMA never stops,
  so one descriptor of a port is always the one it is at work on: unread or unplayed
  sound has `dma_buf_count - 1` of them (`DmaFrames`), that is one. This takes it that
  the driver never hands the task the descriptor the DMA is at work on. When nobody
  reads, the RX DMA overwrites its oldest frames. When nobody writes, the TX DMA plays
  silence with `tx_desc_auto_clear`, and the old descriptor without it.
* `MicMonitor`: `pc` is the next call. `handles` holds the locals that are not NULL,
  `failed` the calls that failed since boot. `el_list`, `linked`, `in_rb`, `out_rb`,
  `listener` and `running` are the pipeline. A call with a NULL handle either is
  refused (`NullHandle`) or crashes (`Panic`); `board_handle->audio_hal` always crashes.
* `Jsmn`: `call` holds the arguments of the call under way, `st` the parser, the
  tokens, `count` and the value returned. `js[k]` counts from 0 as in C. Without
  `JSMN_PARENT_LINKS` there is no parent, which is written -1. Characters stand for
  classes: a digit, `f`, `n` and `x` for the letters the code tells apart, `BAD` for
  unprintable ones.
* `StreamTree`: a tree is a function from stream ids to the fields of
  `nghttp2_stream`; NULL is -1 and the root is 0, as in the session. A loop along
  links is a recursive operator. `cycle` and `seq` of a queued stream live in its
  entry of the parent's queue. `seq` is kept as the age of the entry in its queue,
  since only the order of the pushes counts; `cycle` keeps its modulus (`CycleMod`
  for 2^64), because the comparison of cycles depends on it.
* `Http2Streams`: `session` has the fields of `nghttp2_session` that these functions
  use. A stream that is not in the map has state `NONE`. A stream can have two DATA
  items, one in the frame being sent (`aob`, for `session->aob`) and one submitted
  since: `items` counts how often each is allocated and not freed, and `item` is the
  one `stream->item` points to. `Rename` gives the younger of them the name of the
  older when that one is freed; names are the model's, and the code does nothing here.
  Sending is split where the application can act in between. `PopItem` picks an item
  and prepares its frame. `nghttp2_session_send` then offers it to `send_callback`,
  which may not take it at once (`PrepData`), and does both halves of what follows in
  one call (`SentData`). `nghttp2_session_mem_send` does the first half,
  `session_after_frame_sent1`, when it returns the frame (`PrepDataReturned`), and the
  second, `session_after_frame_sent2`, when it is called again (`SentDataLater`).
  Calls of the application and received frames come in between. A call that sends
  nothing, and each call of `nghttp2_session_mem_recv` before it reads a frame, adjusts
  the idle streams (`AdjustIdle`). Frames without DATA are
  prepared and sent in one step: they hold no item of a stream.
* `FlowControl`: `remote` is the sender's side of a window, `win` the receiver's
  (`local_window_size`, `recv_window_size`, `recv_reduction`, `consumed_size` and
  `window_update_queued`). `fwd` and `back` are the two directions of the transport,
  in order and without loss, as TCP gives them. A DATA frame may come in in pieces.
  `error` stands for a connection error.
* `Hpack`: a header block is the sequence of its representations, a field its name
  and value; `Room` gives the size of an entry. Entries are in a ring whose size is a
  power of two (`hd_ringbuf`), and the deflater also has them in hash chains.
  `next_seq` keeps its modulus (`SeqRange` for 2^32).

Definitions whose comment starts with *Fault* are never part of a specification.
Each is a variant of the definition that follows it with a plausible error, and the
list `mutants` of `PROJECT.json` says which property it breaks.

## 3. Runs

| Run | Question | Bounds |
|---|---|---|
| `path` | order, no stall, loss only by overrun, refinement of `AudioLine`, everything read is heard | buffers 2, DMA 4, ring 3, 20 frames: five DMA buffers, so what a port can hold fills, overflows and drains, and a ring that is no multiple of a buffer |
| `path_sync` | the deadlines: no drop-out as long as every TX interrupt finds the tasks through with their work, no loss as long as every RX interrupt does, each whatever the interrupts of the other port find | as above, 36 frames, tasks late for up to two interrupts in a row (`MaxLate`), one whole DMA period, so that frames are lost and played short in the run; with the two ports exchanged both properties are violated, so the deadlines are sharp |
| `system` | `app_main` and the path together: what runs is fed and observed, a crash has a cause, sound means a working start-up, start-up settles, the microphone is heard | any of the twelve calls may fail, any number of reboots; buffers 1, DMA 2, ring 1, 6 frames |
| `jsmn` | the tokens of a text, with too few tokens at first and with texts in pieces | all texts of up to five of 8 characters and 546 JSON documents of depth two in all four builds; strict builds also with texts cut anywhere: four characters, documents of depth one, string literals with escapes, `\u` followed by up to five characters, and NUL |
| `sched` | links, sums of weights, queues, heap order under every sequence of opening, moving, attaching, deferring, sending and closing | four streams (up to renaming), two weights; frames of no length, so only the order of arrival decides |
| `sched_cycles` | the fair queue with cycles that wrap around and weights that change: order, no stream put off for long, a change that is taken back leaves no trace | two streams (up to renaming), weights 2 and 3 of at most 3 that change at any time, frames of length 0 and 1, cycles modulo 11: several times around |
| `streams` | a server session, with calls and received frames between the two halves of what follows a DATA frame: tree, counters, retained closed streams and ownership of DATA items | streams 1 and 3 of the peer, 2 pushed; plain dependencies on stream 3, also while it is idle, closed or gone, and exclusive ones on the root; at most one stream open and one idle one kept, so that refusal and eviction happen |
| `flow` | no window is overrun or overflows, no credit is lost, DATA arrives | two streams of two bytes and one, windows of 2, SETTINGS of 1 and 3, two calls that change a window, a setting or reset a stream; automatic and manual updates |
| `hpack` | what is encoded is decoded; the two tables agree | blocks of up to two of six fields, three of them; two SETTINGS frames that shrink, empty and grow the table, one with two values; table of up to four entries, `next_seq` modulo 5, deflaters limited above and below the default |

Three runs check what a comment or a header file says and the code does not do. TLC
finds each violated:

* `sched_moved`: "Maximum distance between any two stream's cycle in the same
  priority queue" (`nghttp2_stream.c:35`). A stream that is moved is first taken out of its parent's
  queue, which resets its `descendant_last_cycle` while its children stay queued
  with the cycles they have. The next child is given a cycle near 0 and is served
  before or after its siblings depending on how far they had come. The order of
  service can be wrong for a while; the structures stay sound (`sched`).
* `flow_reset`: `adjust_recv_window_size` is documented to refuse DATA beyond the
  window. After a WINDOW_UPDATE has been sent the check is made again for no bytes;
  when the window was lowered by an acknowledged SETTINGS in between, a stream is
  reset with FLOW_CONTROL_ERROR although the peer kept to its windows.
* `hpack_cancel`: `before_frame_send_callback` may cancel a frame
  (`nghttp2.h:1528`). A HEADERS frame has been deflated by then and the entries it
  added stay in the deflater's table, so a later block is decoded to other fields or
  refused.

Seen while modelling, without a run of their own:

* "Started audio pipeline" (`main.c:162`) is printed also when the writer does not
  run; the chain printed at `main.c:151` names an encoder and a decoder that are not
  linked; the events of `main.c:159` are never read;
* the jsmn build `sdkconfig` selects (not strict) reads `[11]`, cut after `[1`, as
  two numbers; the strict builds do not. `{}:}` is accepted with parent links and
  refused without;
* after a window has been lowered to 0 and used up, `nghttp2_submit_window_update`
  with an increment that is wholly paid by `recv_reduction` announces nothing and
  checks nothing again: the peer waits for ever. `DataIsDelivered` therefore assumes
  that windows stay above 0;
* a window that is lowered silently and then raised by SETTINGS can exceed 2^31-1 on
  the peer's side only.

`CHECK_DEADLOCK FALSE` stands where a behaviour is cut by a bound (`MaxFrames`,
`MaxSeconds`, `MaxCalls`, `MaxBlocks`), where the caller of jsmn has its answer and
stops, and where both sessions have nothing left to do. `path` and the runs of the
scheduler check for deadlock.

### Fairness

* `MonitorPath`: weak fairness of the DMA engines, which never stop, and of each task:
  `main.c` pins them to different cores (`task_core`, `main.c:47, 78`).
* `MicMonitor`, `MonitorSystem`: weak fairness of the main task, the element tasks and
  the panic handler, all scheduled by FreeRTOS. No fairness says that a call succeeds.
* `Jsmn`: the thread of the caller runs.
* `FlowControl`: each session is driven while it has something to read or write, as
  `nghttp2_session_want_read` and `_want_write` ask of an application, and received
  bytes are consumed in the end. No other call is ever certain to be made.

## 4. Proofs

The theorems hold for every value of the constants that meets the assumptions of the
modules. The inductive invariants were checked by TLC before they were proved.

| Theorem | States | Of |
|---|---|---|
| `TypeCorrect`, `OrderPreserved`, `TasksNeverStall`, `LossAccounted`, `ImplementsLine` | `TypeOK`, `FramesInOrder`, `NoStall`, `LossOnlyByOverrun`, `LineSpec` | `MonitorPath` |
| `MainTypeCorrect`, `WriterAlwaysFed`, `EventsAlwaysRouted`, `PanicsExplained` | `TypeOK`, `WriterIsFed`, `EventsAreRouted`, `PanicIsExplained` | `MicMonitor` |
| `SystemKeepsOrder`, `SoundProvesStart` | `SysFramesInOrder`, `SoundMeansStarted` | `MonitorSystem` |
| `WindowsTypeCorrect`, `CreditKept` | `TypeOK`, `CreditIsConserved` | `FlowControl` |
| `ConnectionNeverOverrun`, `OrderIsKept`, `DataAlwaysFits` | all DATA on the way fits the connection window; the order of DATA, SETTINGS and acknowledgements; DATA that comes in fits its windows | `FlowControl` |
| `UntunedHonoursWindows` | `PeerHonoursWindows`, of an application that changes no window by itself | `FlowControl` |
| `IndicesStayInBounds`, `SizesAreRight`, `TokensAlwaysNest` | `TypeOK`, `SizeCountsChildren`, `TokensNest` | `Jsmn` |
| `ResumingIsInvisible`, `CountingIsRight` | `ResumeIsInvisible`, `NullCountAgrees` | `Jsmn` |
| `Invariance`, `SoundTables`, `RoundTrip`, `Agreement` | the invariant, `TablesAreSound`, `DecodedAsEncoded`, `TablesAgree` | `Hpack` |

### The data path

For all buffer, DMA and ring sizes and every number of frames; sizes are positive.
All five theorems rest on `IndInv == TypeOK /\ PhasesMatchBuffers /\
FramesInOrder`. `FramesInOrder` alone is nearly inductive, but the frames an RX
interrupt adds are new only because `TypeOK` bounds every frame under way by
`captured`. `NoStall` needs `PhasesMatchBuffers`: a task in its output call has
something to put out, so it is blocked only by what is downstream. The argument for
the task steps is one lemma, `Transfer`: moving the oldest `k` frames of a buffer to
the end of the one downstream leaves the concatenation of the path as it is. `RxLine`
says how an interrupt changes its young end, and `SplitFront` that playing takes from
its old end. Concatenation is hidden behind `Cat`, since the provers match facts about
an uninterpreted operator better.

### Start-up

For every set of calls that may fail, every length of the event queue and every number
of failures, crashes and reboots. `WriterIsFed` speaks of the elements that run; why
it holds lies several calls back, so the invariant tells the history of the boot:
a handle is NULL only if its call failed (`HandlesExplained`), only calls that were
made have failed (`FailuresArePast`), a crash is at a call with a NULL handle
(`CrashHasCause`), an element is registered by a call that had its handles
(`RegisteredOnce`), what is linked is a prefix of reader and writer and determines the
ring buffers (`LinkedInOrder`), and elements run only after the listener was set, the
reader first (`ListenerBeforeRun`). There is one lemma for each call of `app_main`.

### The system

`SysInv` is the invariant of `app_main`, that of the data path with `on <- running`, and
`SoundNeedsLink`: without an input ring buffer of the writer nothing has got past the
ring buffer. The last is what `SoundMeansStarted` needs: the writer is fed only once
all is linked, which by `RegisteredOnce` and `HandlesExplained` means that every call
that builds the path has succeeded. A reboot empties the path, so the frames that are
heard are in order across boots only because the line starts anew.
`SysFramesInOrder` is only proved; the run `path` checks the order of the path alone.
The lemmas about `app_main` are used as they are, for a step of the system is one of
`app_main` or leaves it alone (`MainStep`).

### Flow control

For any finite set of streams, any windows, SETTINGS, increments, frame sizes and
number of calls. The state of a window is spread over two sessions and four queues.
The invariant keeps one account for each of them: the receiver's credit is what it
started with and announced, less what it received (`ReceiverAccount`); the sender's
window is what it started with and applied, less what it sent (`SenderAccount`); what
was sent is received or under way (`DataAccount`), and so is what was announced
(`UpdateAccount`); for a stream that is gone, at most that much. `CreditIsConserved`
is their sum. The others say that the queues
hold what the accounts expect: no reset of an open stream is under way
(`ResetAccount`), every SETTINGS that is not acknowledged is (`SettingsAccount`), the
frame being sent fits the connection window (`ConnAccount`), and the receiver's
connection window is at most `MaxWindow` (`LocalBound`). What a queue holds is a sum
over its frames; `SeqSumsProofs` proves how it changes when frames are put in, taken
out or cut, by induction over a set of counterexamples with a least element.

`CreditKept` is stated up to a connection error. The step that reports one returns in
the middle of its updates, and for general constants there is such a step: a window may
pass `MaxWindow`. The session then sends GOAWAY and the books no longer matter.
`ConnectionNeverOverrun` says that all DATA under way fits the connection window.

For a stream the accounts are not enough. By `CreditIsConserved` its window at the
receiver is what the sender may send, plus what is under way, plus `initialL -
initialR`, and while SETTINGS are on their way that difference may be negative. What
saves the receiver is an order: the sender applies new SETTINGS when they come in,
puts the acknowledgement into the urgent queue, sends no DATA before it, and the
transport keeps the order, so DATA sent with the old window comes in before the
acknowledgement and DATA sent with the new one after it. `OrderInv` says this for any
number of SETTINGS under way. `Setting(initialL, inflight, k)` is the initial window
size the receiver will use after `k` more acknowledgements. `KnownSetting`: the sender
uses the one after all SETTINGS it has read. `FrameFits`: each DATA frame fits the
window its stream will have at the receiver when it comes in, with the acknowledgements
ahead of it applied and the DATA behind it left out. `BeingSentFits`:
so does the frame that is popped but not sent yet. `SettingsInOrder`: the values on the
way are those of `inflight`, in its order. `LocalsBounded`: a receiver's window is at
most `MaxWindow` as long as no error is reported, for `Exceeds` looks at the two limits
separately. For the first DATA frame of the queue nothing is ahead, and `FrameFits` gives
`DataAlwaysFits`: what TLC checks as the first half of
`PeerHonoursWindows`. Like the accounts, this needs no bound on sizes, calls or SETTINGS.

`PeerHonoursWindows` says in addition that no window and no count of consumed bytes
passes `MaxWindow`. For general constants this is false, for an application can lower
a stream's window without the peer hearing of it and then raise it by SETTINGS (the
hazard of `nghttp2_stream.c:569`). `UntunedHonoursWindows` proves it for every
application that calls neither `nghttp2_session_set_local_window_size` nor
`nghttp2_submit_window_update` (`Tuned = {}`), whatever settings it sends, whatever
streams it resets, and whether or not windows are updated automatically. Its invariant
`PlainInv` says where credit comes from. A receiver's window has the size of the
setting (`LocalsAreSet`) and every setting on its way is at most `MaxWindow`
(`SettingsBounded`). What was announced is a part of what was received
(`GrantsEarned`), so by the accounts a sender's window is never larger than a setting,
and neither SETTINGS nor WINDOW_UPDATE makes it overflow. What was consumed, and what
the application still holds and may consume, is a part of what was received and not
announced (`HeldBack`), on the connection and on each stream, so
`nghttp2_session_consume` never refuses. `HeadFits` carries a frame over whose stream
is reset between two reads of it: the check at its first bytes covers the rest. What
each operation on a window announces is one predicate, `Gives`, and `EarnedStep` sums
it up for any number of windows at once.

### jsmn

For every text, valid JSON or not, every number of tokens, all four builds and any
pieces in which the text arrives; of the texts it is assumed only that they are
sequences of characters. The code indexes the token array by `toksuper`, `toknext - 1`
and parent links without a check; `IndicesStayInBounds` says that it may.

The invariant `Sound` has two halves. Numbers, indices and sizes (`Numbers`, `Within`,
`Sizes`) hold always. Positions hold until a call has reported invalid input, which
may stop with a token half changed: tokens start before the position and only objects
and arrays have no end (`Places`), they nest (`Nested`), and no link leads out of an
object or array that is not closed (`Enclosed`). `Enclosed` is what nesting needs in
the builds with parent links: there a closing bracket finds its partner by walking
along the links, and `PartnerFacts` proves from it that the walk ends at the innermost
token that is not closed, the one the other builds find by searching backwards.

The scans of strings and of links are recursive functions. `SearchExists` shows that
such a search has a value, when each step lowers a rank, and `SearchFinds` that the
value is where it stops and that what each step preserves holds there. Both are proved
once, by the least counterexample. Each iteration of the loop then is one lemma
(`CloseSound` for brackets, `AddSound` for every new token), and so is each way a call
can begin (`StartSound`, `AgainSound`).

`ResumingIsInvisible` and `CountingIsRight` compare whole parses: the interrupted one
with one call that has all it needs, and with one call that has no token array. They
assume that the builds that read text in pieces are strict; the others end a number
where a piece ends, and section 3 shows the difference. The invariant `ResumeInv` adds
to `Sound` that a parser that will go on is `OnCourse`: its state, made ready for the
next call, is one that the uninterrupted call passes through (`Path`), and the counting
call passes through a state at the same position with as many tokens counted. The
argument has three parts.

* `StepAgrees`: a step that does not end the call for lack of tokens or text is the
  same step with more tokens and more text. For strings and primitives this is a fact
  about the scans (`StringEndAgrees`, `PrimitiveEndAgrees`). `PathLonger` extends it to
  all states of a call, so a path stays one when text arrives.
* `Together`: at the same position the parse with tokens and the one without do the
  same, or the former returns. What the text alone decides is named `Goes`.
* `PathEnds`: the step that ends a path is what `jsmn_parse` returns. A path visits no
  position twice, so it is no longer than the recursion of `jsmn_parse`. When the parse
  runs out of tokens the counting call is not at its end yet; `NullBound` follows it
  and shows that it returns an error or counts at least one more.

### HPACK

For every static table, every finite or infinite set of fields with any sizes and any
hash, every sequence of SETTINGS and header blocks, any limits of the deflater and
every modulus of `next_seq` above all sizes of a table. The last is how the code is:
sizes and `seq` both have 32 bits, and an entry takes at least `Overhead` bytes (32),
so a table has never as many entries as `seq` has values.

*One side.* A context is reduced to an abstract table, the sequence of its fields
(`TableOf`), on which two things can be done: `Trim` keeps the longest beginning that
fits a size, `Added` trims and puts a field in front. The ring, the sequence numbers,
the count of bytes and the hash chains are four views of that sequence; `CtxOk` and
`MapOk` say how each of them shows it, and `Sound` that it fits its limit. Every
operation is proved to keep the views together and to do to the table what the abstract
operation does: pushing on a ring that may have to be rebuilt (`PushFront`), evicting
the oldest entry until there is room (the loop of `Evict` is a least number of steps,
`EvictTrims`), inserting into and removing from a chain. So `search_hd_table` answers
with an index at which the table has the field (`Finds`), and an index means the same
on a side that has no map.

*Both sides, one block.* Tables that are equal stay equal through one representation
of the block. The sides need not be equal when it starts: after a change of size the
deflater has already evicted what the inflater still has. `Synced` says how far apart
they may be. If nothing is to be announced they are the same (`InSync`); otherwise
(`Behind`) the deflater's table is the inflater's, trimmed to the least size it has had
since (`Low`), and that size and the present one are such that the inflater will accept
them. `BlockDecoded` is the central lemma: from `Synced`, a block is decoded to its
fields without an error, and the two are `Synced` after it. It follows the two loops
over the block side by side.

*Both sides, everything under way.* The deflater is ahead of the inflater by all the
frames in the queue, including the acknowledgements not yet sent, each of which will
change the inflater's size. `Inv` therefore says that there is a sequence of states of
the inflater, one after each frame of the queue (`Chain`), with every block decoded to
its fields on the way, of which the last is `Synced` with the deflater (`Follows`); the
SETTINGS that the deflater has not seen are the last ones in flight. A frame that is
sent makes the chain longer, one that is received makes it shorter at the other end,
and a SETTINGS that is received changes the last state and the deflater in the same
way (`RecvSettingsInv`). `DecodedAsEncoded` is the first link of the chain,
`TablesAgree` its last state when only acknowledgements are left: these can make the
inflater's table shorter but no shorter than the deflater's.

The recursive functions of the model (the eviction, the two loops over a block) and the
chain are treated alike: `InflatesToExists`, `DeflatesToExists` and `EvictsToExists` show
that the sequence of states exists, by a least counterexample, and all else is said
about that sequence.

### Only model-checked

* Liveness (`TakenIsHeard`, `StartupSettles`, `MicrophoneIsHeard`, `CallerIsAnswered`,
  `DataIsDelivered`), which needs fairness.
* The timing properties of `MonitorPathSync`.
* Of jsmn, `TokensAreTheTree` and `StringEndsAtItsQuote`, which compare with
  recursive reference definitions.
* `PeerHonoursWindows` with windows that the application tunes: there the theorems give
  only that DATA overruns no window, not that no window overflows (above).
* Scheduler and session (`StreamSched`, `Http2Streams`), whose loops along links and
  heaps are recursive operators, which the provers cannot use.

## 5. Not modelled

* ESP-ADF and ESP-IDF beyond what `main.c` uses; registers, pins, clocks, volume.
* The tear-down and the WAV elements, which are not executed: the loop of `main.c:165`
  has no exit, unlike the routine the repository's README describes.
* What an element does when the event queue is full is ESP-ADF's. The model drops the
  event, so no property says that the unread queue (`main.c:165`) does not hold up the
  sound.
* Of sending DATA: `NGHTTP2_DATA_FLAG_NO_COPY` with its `send_data_callback`, header
  blocks that need CONTINUATION, and callbacks that call into the session. The limit on
  idle streams is modelled, but no property states it: they are adjusted only when the
  session sends or receives, so there may be more of them in between.
* Of nghttp2: frame packing and unpacking, buffers, integers and the Huffman code of
  HPACK (encodings of bytes whose correctness is a matter of test vectors); a header
  block that is resumed in the middle of a representation; the rules for the contents
  of requests and responses (`nghttp2_http.c`); client sessions, ALTSVC, ORIGIN,
  RFC 9218 priorities; failures of memory allocation. `nghttp2_map.c` is modelled by
  the map it implements, a function.
* The programs under `nghttp2/src` (nghttp, nghttpd, nghttpx, h2load), their tests,
  tools and third-party code, and the tables of data: most of the lines of this
  repository, none of which the firmware builds or calls.
* The build system and its products have no behaviour. Overflow of `seconds_played`
  takes 68 years.

The models cover the application completely and, of the libraries, the parts whose
state is hard to test; by lines this is a small share of a repository that consists
mostly of vendored programs.

## 6. Plan

1. Done: data path, its abstract specification and its proofs; start-up; composition;
   jsmn; priority queue, dependency tree, session, flow control and HPACK of nghttp2;
   proofs of start-up, composition, flow control, jsmn and
   HPACK.
2. Proofs: that no window overflows when only the connection's window is tuned, or
   when tuning and settings stay well below `MaxWindow`; the heap of `Pq` with its loops as recursive
   functions, as those of `Hpack` are.
3. Further models: `nghttp2_map.c` (robin hood hashing with removal) against an
   abstract map; the frame reader of `nghttp2_session_mem_recv` with frames cut
   anywhere.
