--------------------------- MODULE MonitorPathSync ---------------------------
(***************************************************************************)
(* MonitorPath under the timing main.c configures: both I2S ports run at   *)
(* the same sample_rate and dma_buf_len, so their DMA interrupts alternate *)
(* for ever, and the element tasks are late by at most MaxLate interrupts. *)
(* Which deadlines do the sizes chosen in the two configurations set?      *)
(***************************************************************************)
EXTENDS MonitorPath

CONSTANT MaxLate   \* bound: DMA interrupts in a row that find work undone

ASSUME MaxLateAssumption == MaxLate \in Nat

VARIABLES turn,    \* the port whose DMA interrupt is next
          late,    \* DMA interrupts in a row that found a task with work left
          settled, \* both tasks have started and caught up once
          ontime   \* ports none of whose interrupts since then found work left

syncVars == <<vars, turn, late, settled, ontime>>

SyncInit == Init /\ turn \in {"rx", "tx"} /\ late = 0
            /\ settled = FALSE /\ ontime = {"rx", "tx"}

(* No task that is running has anything left to move. *)
Idle == /\ "i2sr" \in on => ReaderBlocked
        /\ "i2sw" \in on => WriterBlocked

Interrupt(port) ==
    /\ turn = port
    /\ Idle \/ late < MaxLate
    /\ late' = IF Idle THEN 0 ELSE late + 1
    /\ settled' = (settled \/ (Idle /\ on = {"i2sr", "i2sw"}))
    /\ ontime' = IF settled /\ ~Idle THEN ontime \ {port} ELSE ontime

SyncRx == Interrupt("rx") /\ RxDma /\ turn' = "tx"

SyncTx == Interrupt("tx") /\ TxDma /\ turn' = "rx"

SyncTasks ==
    /\ TaskNext \/ \E el \in {"i2sr", "i2sw"} : Start(el)
    /\ UNCHANGED <<turn, late, settled, ontime>>

SyncNext == SyncRx \/ SyncTx \/ SyncTasks

SyncSpec == SyncInit /\ [][SyncNext]_syncVars
-----------------------------------------------------------------------------
(* The writer's deadline: once the tasks have caught up with the start,    *)
(* and as long as each TX interrupt finds them through with their work, no *)
(* TX descriptor is played short, also when they are late for RX           *)
(* interrupts: buffer_len fits the DMA buffers (main.c:67, 68, 85).        *)
NoUnderrun ==
    [][SyncTx /\ settled /\ "tx" \in ontime' =>
           Len(heard') = Len(heard) + DmaBufLen]_syncVars

(* The reader's deadline: of dma_buf_count = 2 descriptors one holds       *)
(* unread sound, so the next RX interrupt is the last moment to have it    *)
(* read.  As long as each RX interrupt finds the tasks through, no frame   *)
(* is lost, also when they are late for TX interrupts, and whatever the    *)
(* reader had piled up before the writer started (main.c:36, 37, 45).      *)
NoOverrun ==
    [][settled /\ "rx" \in ontime' => Lost' = Lost]_syncVars
=============================================================================
