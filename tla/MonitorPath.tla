----------------------------- MODULE MonitorPath -----------------------------
(***************************************************************************)
(* The run-time data path main.c builds: microphone -> I2S RX DMA ->       *)
(* i2s_reader task -> ring buffer -> i2s_writer task -> I2S TX DMA ->      *)
(* codec.  The two configurations are main.c's; the element tasks, the     *)
(* ring buffer and the I2S driver they configure are ESP-ADF/ESP-IDF code  *)
(* outside the repository, modelled from what main.c asks of them.         *)
(*                                                                         *)
(* A frame is the number of its capture, so order, loss and repetition are *)
(* visible.  Lengths are in frames.                                        *)
(***************************************************************************)
EXTENDS Integers, Sequences

CONSTANTS BufferLen,        \* .buffer_len (900 bytes, 450 frames)
          DmaBufLen,        \* .dma_buf_len (900 frames)
          RingBufferSize,   \* I2S_STREAM_RINGBUFFER_SIZE
          MaxFrames         \* bound: frames captured in a behaviour

ASSUME BufferLenAssumption == BufferLen \in Nat \ {0}
ASSUME DmaBufLenAssumption == DmaBufLen \in Nat \ {0}
ASSUME RingAssumption      == RingBufferSize \in Nat \ {0}
ASSUME MaxFramesAssumption == MaxFrames \in Nat

VARIABLES on,         \* tags of the elements whose task is running
          captured,   \* frames in the RX descriptors filled so far
          rx,         \* in full RX descriptors, not read yet
          rbuf,       \* process buffer of the reader task
          rphase,     \* "input": in i2s_read; "output": in rb_write
          ring,       \* ring buffer between the two elements
          wbuf,       \* process buffer of the writer task
          wphase,     \* "input": in rb_read; "output": in i2s_write
          tx,         \* in TX descriptors the DMA has not reached yet
          heard       \* frames the DMA has played or is at work on

taskVars == <<on, rbuf, rphase, ring, wbuf, wphase>>
vars == <<on, captured, rx, rbuf, rphase, ring, wbuf, wphase, tx, heard>>
-----------------------------------------------------------------------------
(* The two configurations of main.c: the fields the data path depends on. *)
(* Faults: a port with one DMA buffer, a port that does not clear the      *)
(* descriptors it has played, a process buffer of almost two of them.      *)
ReadCfgOneBuffer ==
    [type |-> "AUDIO_STREAM_READER", i2s_port |-> 0,
     dma_buf_count |-> 1, dma_buf_len |-> DmaBufLen, tx_desc_auto_clear |-> TRUE,
     out_rb_size |-> RingBufferSize, task_core |-> 0, buffer_len |-> BufferLen]

WriteCfgNoClear ==
    [type |-> "AUDIO_STREAM_WRITER", i2s_port |-> 1,
     dma_buf_count |-> 2, dma_buf_len |-> DmaBufLen, tx_desc_auto_clear |-> FALSE,
     out_rb_size |-> RingBufferSize, task_core |-> 1, buffer_len |-> BufferLen]

WriteCfgLongBuffer ==
    [type |-> "AUDIO_STREAM_WRITER", i2s_port |-> 1,
     dma_buf_count |-> 2, dma_buf_len |-> DmaBufLen, tx_desc_auto_clear |-> TRUE,
     out_rb_size |-> RingBufferSize, task_core |-> 1, buffer_len |-> 2 * DmaBufLen - 1]

I2S_STREAM_CUSTOM_READ_CFG ==
    [type |-> "AUDIO_STREAM_READER", i2s_port |-> 0,
     dma_buf_count |-> 2, dma_buf_len |-> DmaBufLen, tx_desc_auto_clear |-> TRUE,
     out_rb_size |-> RingBufferSize, task_core |-> 0, buffer_len |-> BufferLen]

I2S_STREAM_CUSTOM_WRITE_CFG ==
    [type |-> "AUDIO_STREAM_WRITER", i2s_port |-> 1,
     dma_buf_count |-> 2, dma_buf_len |-> DmaBufLen, tx_desc_auto_clear |-> TRUE,
     out_rb_size |-> RingBufferSize, task_core |-> 1, buffer_len |-> BufferLen]

i2s_read_cfg  == I2S_STREAM_CUSTOM_READ_CFG
i2s_write_cfg == I2S_STREAM_CUSTOM_WRITE_CFG

(* Frames a port holds for its task.  The DMA never stops, so one of the   *)
(* descriptors is always the one it is at work on: unread or unplayed      *)
(* sound has only the others.                                              *)
DmaFrames(cfg) == (cfg.dma_buf_count - 1) * cfg.dma_buf_len

Min2(a, b) == IF a <= b THEN a ELSE b
Take(s, k) == SubSeq(s, 1, k)
Drop(s, k) == SubSeq(s, k + 1, Len(s))
-----------------------------------------------------------------------------
Init ==
    /\ on = {} /\ captured = 0
    /\ rx = <<>> /\ rbuf = <<>> /\ ring = <<>> /\ wbuf = <<>> /\ tx = <<>>
    /\ rphase = "input" /\ wphase = "input"
    /\ heard = <<>>

(* audio_pipeline_run resumes the tasks in link order: reader, then writer. *)
Start(el) ==
    /\ el \notin on
    /\ el = "i2sw" => "i2sr" \in on
    /\ on' = on \cup {el}
    /\ UNCHANGED <<captured, rx, rbuf, rphase, ring, wbuf, wphase, tx, heard>>

(* An RX descriptor is full: it becomes readable, and the DMA, running     *)
(* since i2s_stream_init, goes on to the next one.  When that one has not  *)
(* been read, the oldest frames are lost.                                  *)
Fresh == [i \in 1..DmaBufLen |-> captured + i]
(* Fault: the RX DMA never gives up an unread buffer. *)
OverrunUnbounded == 0

Overrun == LET n == Len(rx) + DmaBufLen
           IN  n - Min2(n, DmaFrames(i2s_read_cfg))

RxDma ==
    /\ captured + DmaBufLen <= MaxFrames
    /\ captured' = captured + DmaBufLen
    /\ rx' = Drop(rx \o Fresh, Overrun)
    /\ UNCHANGED <<on, rbuf, rphase, ring, wbuf, wphase, tx, heard>>

(* How much each of the four blocking transfers can move right now. *)
ReadRoom  == Min2(Len(rx), i2s_read_cfg.buffer_len - Len(rbuf))
RingRoom  == Min2(Len(rbuf), i2s_read_cfg.out_rb_size - Len(ring))
FetchRoom == Min2(Len(ring), i2s_write_cfg.buffer_len - Len(wbuf))
WriteRoom == Min2(Len(wbuf), DmaFrames(i2s_write_cfg) - Len(tx))

(* i2s_read: blocks until a whole process buffer is filled. *)
ReaderInput ==
    /\ "i2sr" \in on /\ rphase = "input" /\ ReadRoom > 0
    /\ rbuf' = rbuf \o Take(rx, ReadRoom)
    /\ rx' = Drop(rx, ReadRoom)
    /\ rphase' = IF Len(rbuf) + ReadRoom = i2s_read_cfg.buffer_len
                 THEN "output" ELSE "input"
    /\ UNCHANGED <<on, captured, ring, wbuf, wphase, tx, heard>>

(* Faults: what does not fit into the ring is thrown away; the task goes   *)
(* on only when a whole buffer has fitted at once.                         *)
ReaderOutputDrops ==
    /\ "i2sr" \in on /\ rphase = "output" /\ RingRoom > 0
    /\ ring' = ring \o Take(rbuf, RingRoom)
    /\ rbuf' = <<>> /\ rphase' = "input"
    /\ UNCHANGED <<on, captured, rx, wbuf, wphase, tx, heard>>

ReaderOutputWhole ==
    /\ "i2sr" \in on /\ rphase = "output" /\ RingRoom > 0
    /\ ring' = ring \o Take(rbuf, RingRoom)
    /\ rbuf' = Drop(rbuf, RingRoom)
    /\ rphase' = IF RingRoom = i2s_read_cfg.buffer_len THEN "input" ELSE "output"
    /\ UNCHANGED <<on, captured, rx, wbuf, wphase, tx, heard>>

(* rb_write: blocks until the whole buffer is in the ring, moving what     *)
(* fits; the ring size need not be a multiple of the buffer size.          *)
ReaderOutput ==
    /\ "i2sr" \in on /\ rphase = "output" /\ RingRoom > 0
    /\ ring' = ring \o Take(rbuf, RingRoom)
    /\ rbuf' = Drop(rbuf, RingRoom)
    /\ rphase' = IF RingRoom = Len(rbuf) THEN "input" ELSE "output"
    /\ UNCHANGED <<on, captured, rx, wbuf, wphase, tx, heard>>

(* Fault: the writer peeks into the ring and leaves the frames there. *)
WriterInputPeeks ==
    /\ "i2sw" \in on /\ wphase = "input" /\ FetchRoom > 0
    /\ wbuf' = wbuf \o Take(ring, FetchRoom)
    /\ wphase' = IF Len(wbuf) + FetchRoom = i2s_write_cfg.buffer_len
                 THEN "output" ELSE "input"
    /\ UNCHANGED <<on, captured, rx, rbuf, rphase, ring, tx, heard>>

(* rb_read: blocks until a whole process buffer is filled. *)
WriterInput ==
    /\ "i2sw" \in on /\ wphase = "input" /\ FetchRoom > 0
    /\ wbuf' = wbuf \o Take(ring, FetchRoom)
    /\ ring' = Drop(ring, FetchRoom)
    /\ wphase' = IF Len(wbuf) + FetchRoom = i2s_write_cfg.buffer_len
                 THEN "output" ELSE "input"
    /\ UNCHANGED <<on, captured, rx, rbuf, rphase, tx, heard>>

(* Fault: the writer never goes back for more. *)
WriterOutputOnce ==
    /\ "i2sw" \in on /\ wphase = "output" /\ WriteRoom > 0
    /\ tx' = tx \o Take(wbuf, WriteRoom)
    /\ wbuf' = Drop(wbuf, WriteRoom)
    /\ UNCHANGED <<on, captured, rx, rbuf, rphase, ring, wphase, heard>>

(* i2s_write: blocks until the DMA has taken the whole buffer. *)
WriterOutput ==
    /\ "i2sw" \in on /\ wphase = "output" /\ WriteRoom > 0
    /\ tx' = tx \o Take(wbuf, WriteRoom)
    /\ wbuf' = Drop(wbuf, WriteRoom)
    /\ wphase' = IF WriteRoom = Len(wbuf) THEN "input" ELSE "output"
    /\ UNCHANGED <<on, captured, rx, rbuf, rphase, ring, heard>>

(* The TX DMA goes on to the next descriptor and plays what the writer has *)
(* put there by now.  The rest of it is silence if tx_desc_auto_clear is   *)
(* set, and otherwise what the descriptor held the last time.              *)
Stale(k) == IF i2s_write_cfg.tx_desc_auto_clear THEN <<>>
            ELSE Drop(heard, Len(heard) - Min2(Len(heard), DmaBufLen - k))

TxDma ==
    LET k == Min2(Len(tx), i2s_write_cfg.dma_buf_len)
    IN  /\ heard' = heard \o Take(tx, k) \o Stale(k)
        /\ tx' = Drop(tx, k)
        /\ UNCHANGED <<on, captured, rx, rbuf, rphase, ring, wbuf, wphase>>

TaskNext == ReaderInput \/ ReaderOutput \/ WriterInput \/ WriterOutput

Next == (\E el \in {"i2sr", "i2sw"} : Start(el)) \/ RxDma \/ TxDma \/ TaskNext

(* The DMA engines never stop; the two tasks are pinned to different cores *)
(* (task_core), so neither can keep the other from running.                *)
Fairness ==
    /\ WF_vars(Start("i2sr")) /\ WF_vars(Start("i2sw"))
    /\ WF_vars(RxDma) /\ WF_vars(TxDma)
    /\ WF_vars(ReaderInput \/ ReaderOutput)
    /\ WF_vars(WriterInput \/ WriterOutput)

Spec == Init /\ [][Next]_vars

FairSpec == Spec /\ Fairness
-----------------------------------------------------------------------------
(* Frames on their way from the reader task to the speaker, oldest first,  *)
(* and all frames that have been captured and neither lost nor heard.      *)
Taken == tx \o (wbuf \o (ring \o rbuf))
Held  == tx \o (wbuf \o (ring \o (rbuf \o rx)))

Increasing(s) == \A i, j \in 1..Len(s) : i < j => s[i] < s[j]
Elements(s) == {s[i] : i \in 1..Len(s)}

Lost == captured - Len(heard) - Len(Held)

(* Every buffer within its capacity, every frame one that was captured. *)
TypeOK ==
    /\ on \subseteq {"i2sr", "i2sw"}
    /\ captured \in 0..MaxFrames
    /\ rx \in Seq(1..captured) /\ rbuf \in Seq(1..captured)
    /\ ring \in Seq(1..captured) /\ wbuf \in Seq(1..captured)
    /\ tx \in Seq(1..captured) /\ heard \in Seq(1..captured)
    /\ Len(rx) <= DmaFrames(i2s_read_cfg)
    /\ Len(rbuf) <= i2s_read_cfg.buffer_len
    /\ Len(ring) <= i2s_read_cfg.out_rb_size
    /\ Len(wbuf) <= i2s_write_cfg.buffer_len
    /\ Len(tx) <= DmaFrames(i2s_write_cfg)
    /\ rphase \in {"input", "output"} /\ wphase \in {"input", "output"}

(* The frames heard, followed by the frames under way in the order they    *)
(* will be heard, are in the order of their capture, none twice: neither   *)
(* the partial ring-buffer transfers nor a DMA overrun reorder or repeat   *)
(* sound (main.c:45, 54, 85).                                              *)
FramesInOrder == Increasing(heard \o Held)

(* A task is in its output call exactly while it has something to put out, *)
(* and in its input call only while its buffer has room.                   *)
PhasesMatchBuffers ==
    /\ rphase = "output" => Len(rbuf) > 0
    /\ rphase = "input" => Len(rbuf) < i2s_read_cfg.buffer_len
    /\ wphase = "output" => Len(wbuf) > 0
    /\ wphase = "input" => Len(wbuf) < i2s_write_cfg.buffer_len

ReaderBlocked == IF rphase = "input" THEN ReadRoom = 0 ELSE RingRoom = 0
WriterBlocked == IF wphase = "input" THEN FetchRoom = 0 ELSE WriteRoom = 0

(* The two tasks never wait for each other: when both run and both are     *)
(* blocked, either there is nothing captured to read or the TX DMA is      *)
(* full, and a DMA interrupt will wake one of them.                        *)
NoStall ==
    on = {"i2sr", "i2sw"} /\ ReaderBlocked /\ WriterBlocked =>
        rx = <<>> \/ Len(tx) = DmaFrames(i2s_write_cfg)

(* Sound is lost in one place only: a step loses frames only when it is    *)
(* an RX DMA interrupt that finds its descriptors unread (main.c:36).      *)
LossOnlyByOverrun ==
    [][Lost' # Lost => RxDma /\ Lost' = Lost + Overrun]_vars

(* The monitor implements the abstract line. *)
Line == INSTANCE AudioLine WITH held <- Held
LineSpec == Line!Spec

(* Every frame the reader has taken is eventually heard: no buffer of the  *)
(* path keeps sound for ever while capture goes on.  The last DMA buffers  *)
(* of a bounded behaviour are excluded.                                    *)
TakenIsHeard ==
    \A f \in 1..(MaxFrames - 2 * DmaBufLen) :
        f \in Elements(Taken) ~> f \in Elements(heard)
=============================================================================
