---------------------------- MODULE MonitorSystem ----------------------------
(***************************************************************************)
(* The whole monitor: app_main (MicMonitor) sets up and starts the data    *)
(* path (MonitorPath), both run at the same time, and a crash of the one   *)
(* takes the other down.                                                   *)
(***************************************************************************)
EXTENDS MicMonitor

CONSTANTS BufferLen, DmaBufLen, RingBufferSize, MaxFrames

ASSUME PathAssumption ==
    /\ BufferLen \in Nat \ {0} /\ DmaBufLen \in Nat \ {0}
    /\ RingBufferSize \in Nat \ {0} /\ MaxFrames \in Nat

VARIABLES captured, rx, rbuf, rphase, ring, wbuf, wphase, tx, heard

pathVars == <<captured, rx, rbuf, rphase, ring, wbuf, wphase, tx, heard>>
sysVars  == <<mainVars, pathVars>>

(* The tasks of the path are the element tasks app_main has started. *)
Path == INSTANCE MonitorPath WITH on <- running

SysInit == Init /\ Path!Init

Main ==
    /\ AppMain \/ \E tag \in {"i2sr", "i2sw"} : Report(tag)
    /\ UNCHANGED pathVars

SysReboot ==
    /\ Reboot
    /\ captured' = 0
    /\ rx' = <<>> /\ rbuf' = <<>> /\ ring' = <<>> /\ wbuf' = <<>> /\ tx' = <<>>
    /\ rphase' = "input" /\ wphase' = "input"
    /\ heard' = <<>>

(* i2s_stream_init installs the driver of its port and starts its DMA. *)
Capture ==
    /\ cpu = "up" /\ "i2s_reader" \in handles
    /\ Path!RxDma
    /\ UNCHANGED mainVars

Playback ==
    /\ cpu = "up" /\ "i2s_writer" \in handles
    /\ Path!TxDma
    /\ UNCHANGED mainVars

(* An element moves data only through the ring buffers it was linked to. *)
Reader ==
    /\ cpu = "up" /\ "i2sr" \in out_rb
    /\ Path!ReaderInput \/ Path!ReaderOutput
    /\ UNCHANGED mainVars

Writer ==
    /\ cpu = "up" /\ "i2sw" \in in_rb
    /\ Path!WriterInput \/ Path!WriterOutput
    /\ UNCHANGED mainVars

SysNext == Main \/ SysReboot \/ Capture \/ Playback \/ Reader \/ Writer

(* FreeRTOS runs the main task, the element tasks and the panic handler,   *)
(* and the DMA of a port never stops.                                      *)
SysFairness ==
    /\ WF_sysVars(Main) /\ WF_sysVars(SysReboot) /\ WF_sysVars(Reader) /\ WF_sysVars(Writer)
    /\ WF_sysVars(Capture) /\ WF_sysVars(Playback)

SysSpec == SysInit /\ [][SysNext]_sysVars /\ SysFairness
-----------------------------------------------------------------------------
(* Sound is a proof of a working start-up: a frame is heard only if every  *)
(* call that builds the path has succeeded, in this boot.                  *)
SoundMeansStarted ==
    heard # <<>> =>
        {"audio_pipeline_init", "init_reader", "init_writer", "register_reader",
         "register_writer", "audio_pipeline_link"} \cap failed = {}

(* End to end: whenever a start-up has gone without failure, the           *)
(* microphone is heard: the elements that app_main registers, links and    *)
(* runs are the ones that carry the sound (main.c:140-161).                *)
MicrophoneIsHeard == pc = "loop" /\ failed = {} ~> heard # <<>>

(* The data path keeps its order also while app_main starts the tasks that *)
(* move the sound, and over restarts, each of which starts it anew.        *)
SysFramesInOrder == Path!FramesInOrder
=============================================================================
