------------------------- MODULE MonitorSystemProofs --------------------------
(***************************************************************************)
(* Proofs about the whole monitor: app_main and the data path together.    *)
(* The lemmas of the two parts are used as they stand; those of the data   *)
(* path with the running element tasks for its variable "on".              *)
(***************************************************************************)
EXTENDS MonitorSystem, MicMonitorProofs

Data == INSTANCE MonitorPathProofs WITH on <- running

(* The path of MonitorSystem and the path the lemmas are about are one. *)
LEMMA SamePath ==
    /\ Path!Init <=> Data!Init
    /\ Path!RxDma <=> Data!RxDma
    /\ Path!TxDma <=> Data!TxDma
    /\ Path!ReaderInput <=> Data!ReaderInput
    /\ Path!ReaderOutput <=> Data!ReaderOutput
    /\ Path!WriterInput <=> Data!WriterInput
    /\ Path!WriterOutput <=> Data!WriterOutput
    /\ Path!FramesInOrder <=> Data!FramesInOrder
  <1>1. /\ Path!i2s_read_cfg = Data!i2s_read_cfg
        /\ Path!i2s_write_cfg = Data!i2s_write_cfg
    BY DEF Path!i2s_read_cfg, Data!i2s_read_cfg, Path!i2s_write_cfg, Data!i2s_write_cfg,
           Path!I2S_STREAM_CUSTOM_READ_CFG, Data!I2S_STREAM_CUSTOM_READ_CFG,
           Path!I2S_STREAM_CUSTOM_WRITE_CFG, Data!I2S_STREAM_CUSTOM_WRITE_CFG
  <1>2. /\ \A a, b : Path!Min2(a, b) = Data!Min2(a, b)
        /\ \A s, k : Path!Take(s, k) = Data!Take(s, k) /\ Path!Drop(s, k) = Data!Drop(s, k)
        /\ \A c : Path!DmaFrames(c) = Data!DmaFrames(c)
    BY DEF Path!Min2, Data!Min2, Path!Take, Data!Take, Path!Drop, Data!Drop,
           Path!DmaFrames, Data!DmaFrames
  <1>3. /\ Path!ReadRoom = Data!ReadRoom /\ Path!RingRoom = Data!RingRoom
        /\ Path!FetchRoom = Data!FetchRoom /\ Path!WriteRoom = Data!WriteRoom
    BY <1>1, <1>2 DEF Path!ReadRoom, Data!ReadRoom, Path!RingRoom, Data!RingRoom,
                      Path!FetchRoom, Data!FetchRoom, Path!WriteRoom, Data!WriteRoom
  <1>4. Path!Init <=> Data!Init
    BY DEF Path!Init, Data!Init
  <1>5. Path!RxDma <=> Data!RxDma
    BY <1>1, <1>2 DEF Path!RxDma, Data!RxDma, Path!Overrun, Data!Overrun, Path!Fresh, Data!Fresh
  <1>6. Path!TxDma <=> Data!TxDma
    BY <1>1, <1>2 DEF Path!TxDma, Data!TxDma, Path!Stale, Data!Stale
  <1>7. /\ Path!ReaderInput <=> Data!ReaderInput
        /\ Path!ReaderOutput <=> Data!ReaderOutput
    BY <1>1, <1>2, <1>3 DEF Path!ReaderInput, Data!ReaderInput,
                            Path!ReaderOutput, Data!ReaderOutput
  <1>8. /\ Path!WriterInput <=> Data!WriterInput
        /\ Path!WriterOutput <=> Data!WriterOutput
    BY <1>1, <1>2, <1>3 DEF Path!WriterInput, Data!WriterInput,
                            Path!WriterOutput, Data!WriterOutput
  <1>9. Path!FramesInOrder <=> Data!FramesInOrder
    BY DEF Path!FramesInOrder, Data!FramesInOrder, Path!Held, Data!Held,
           Path!Increasing, Data!Increasing
  <1>. QED
    BY <1>4, <1>5, <1>6, <1>7, <1>8, <1>9
-----------------------------------------------------------------------------
(* Every step of the system is a step of app_main or leaves it alone: what *)
(* the lemmas about app_main say holds here too.                           *)
LEMMA MainStep == [SysNext]_sysVars => [Next]_mainVars
  BY DEF SysNext, Main, SysReboot, Capture, Playback, Reader, Writer, Next, sysVars

-----------------------------------------------------------------------------
(* Frames get past the ring buffer only through the writer, and the writer *)
(* has an input ring buffer only once everything is linked.                *)
SoundNeedsLink == "i2sw" \notin in_rb => wbuf = <<>> /\ tx = <<>> /\ heard = <<>>

(* The invariant of the whole: that of app_main, that of the data path,    *)
(* and how the two are connected.                                          *)
SysInv == IndInv /\ Data!IndInv /\ SoundNeedsLink

(* The path starts empty. *)
LEMMA SysInvInit == SysInit => SysInv
  <1>. SUFFICES ASSUME SysInit PROVE SysInv
    OBVIOUS
  <1>1. IndInv
    BY IndInvInit DEF SysInit
  <1>2. Data!IndInv
    BY SamePath, Data!IndInvInit, PathAssumption DEF SysInit
  <1>3. SoundNeedsLink
    BY DEF SysInit, Path!Init, SoundNeedsLink
  <1>. QED
    BY <1>1, <1>2, <1>3 DEF SysInv

(* The data path does not mind what app_main does while it runs. *)
LEMMA DataKept ==
    ASSUME Data!IndInv, UNCHANGED pathVars, running' \subseteq Elements
    PROVE  Data!IndInv'
  <1>1. Data!TypeOK'
    BY DEF Data!IndInv, Data!TypeOK, pathVars, Elements, Data!DmaFrames, Data!i2s_read_cfg,
           Data!i2s_write_cfg, Data!I2S_STREAM_CUSTOM_READ_CFG, Data!I2S_STREAM_CUSTOM_WRITE_CFG
  <1>2. Data!PhasesMatchBuffers' /\ Data!FramesInOrder'
    BY SMTT(30) DEF Data!IndInv, Data!PhasesMatchBuffers, Data!FramesInOrder, Data!Held, pathVars,
           Data!Increasing
  <1>. QED
    BY <1>1, <1>2 DEF Data!IndInv

(* app_main gives the writer its ring buffer once and never takes it away  *)
(* except by a reboot.                                                     *)
LEMMA RingBufferKept ==
    ASSUME IndInv, Main \/ UNCHANGED mainVars
    PROVE  in_rb \subseteq in_rb'
  <1>1. CASE Link
    <2>1. ~Past("audio_pipeline_link")
      BY <1>1, ReturnStep DEF Link
    <2>2. in_rb = {}
      BY <2>1, LinkedFacts DEF IndInv, LinkedInOrder
    <2>. QED
      BY <2>2
  <1>2. CASE UNCHANGED mainVars
    BY <1>2 DEF mainVars
  <1>3. ASSUME AppMain, ~Link PROVE in_rb' = in_rb
    BY <1>3 DEF AppMain, Create, CtrlCodec, Register, SetListener, Resume, Run, NullHandle,
                Panic, Loop
  <1>4. ASSUME NEW tag, Report(tag) PROVE in_rb' = in_rb
    BY <1>4 DEF Report
  <1>. QED
    BY <1>1, <1>2, <1>3, <1>4 DEF Main

(* A step of the data path keeps the invariant of the path. *)
LEMMA DataStep ==
    ASSUME Data!IndInv, Capture \/ Playback \/ Reader \/ Writer
    PROVE  Data!IndInv'
  <1>1. Data!Next
    BY SamePath DEF Capture, Playback, Reader, Writer, Data!Next, Data!TaskNext
  <1>. QED
    BY <1>1, Data!IndInvNext, PathAssumption

(* Every step of the system keeps the invariant. *)
LEMMA SysInvNext == SysInv /\ [SysNext]_sysVars => SysInv'
  <1>. SUFFICES ASSUME SysInv, [SysNext]_sysVars PROVE SysInv'
    OBVIOUS
  <1>0. IndInv /\ Data!IndInv /\ SoundNeedsLink
    BY DEF SysInv
  <1>1. IndInv'
    BY <1>0, MainStep, IndInvNext
  <1>2. running' \subseteq Elements
    BY <1>1 DEF IndInv, TypeOK
  <1>3. CASE Main \/ UNCHANGED sysVars
    <2>1. UNCHANGED pathVars /\ (Main \/ UNCHANGED mainVars)
      BY <1>3 DEF Main, sysVars
    <2>2. Data!IndInv'
      BY <1>0, <1>2, <2>1, DataKept
    <2>3. in_rb \subseteq in_rb'
      BY <1>0, <2>1, RingBufferKept
    <2>4. SoundNeedsLink'
      BY <1>0, <2>1, <2>3 DEF SoundNeedsLink, pathVars
    <2>. QED
      BY <1>1, <2>2, <2>4 DEF SysInv
  <1>4. CASE SysReboot
    <2>1. Data!Init'
      BY <1>4 DEF SysReboot, Reboot, Data!Init
    <2>2. (Data!Init => Data!IndInv)'
      BY Data!IndInvInit, PathAssumption, PTL
    <2>3. SoundNeedsLink'
      BY <1>4 DEF SysReboot, SoundNeedsLink
    <2>. QED
      BY <1>1, <2>1, <2>2, <2>3 DEF SysInv
  <1>5. CASE Capture \/ Reader
    <2>1. Data!IndInv'
      BY <1>0, <1>5, DataStep
    <2>2. UNCHANGED <<wbuf, tx, heard, in_rb>>
      BY <1>5 DEF Capture, Reader, mainVars, Path!RxDma, Path!ReaderInput, Path!ReaderOutput
    <2>3. SoundNeedsLink'
      BY <1>0, <2>2 DEF SoundNeedsLink
    <2>. QED
      BY <1>1, <2>1, <2>3 DEF SysInv
  <1>6. CASE Writer
    <2>1. Data!IndInv'
      BY <1>0, <1>6, DataStep
    <2>2. SoundNeedsLink'
      BY <1>6 DEF Writer, SoundNeedsLink, mainVars
    <2>. QED
      BY <1>1, <2>1, <2>2 DEF SysInv
  <1>7. CASE Playback
    <2>1. Data!IndInv'
      BY <1>0, <1>7, DataStep
    <2>2. SoundNeedsLink'
      <3>. SUFFICES ASSUME "i2sw" \notin in_rb
                    PROVE  wbuf' = <<>> /\ tx' = <<>> /\ heard' = <<>>
        BY <1>7 DEF SoundNeedsLink, Playback, mainVars
      <3>1. wbuf = <<>> /\ tx = <<>> /\ heard = <<>>
        BY <1>0 DEF SoundNeedsLink
      <3>2. Data!TxDma /\ Data!TypeOK
        BY <1>0, <1>7, SamePath DEF Playback, Data!IndInv
      <3>3. PICK k \in 0..Len(tx) :
              heard' = Data!Cat(heard, Data!Take(tx, k)) /\ tx' = Data!Drop(tx, k)
        BY <3>2, Data!TxStep, PathAssumption
      <3>4. Len(tx) = 0 /\ k = 0
        BY <3>1, <3>3
      <3>5. Data!Take(tx, k) = <<>> /\ Data!Drop(tx, k) = <<>>
        BY <3>1, <3>4, SubSeqEmpty DEF Data!Take, Data!Drop
      <3>6. heard' = <<>>
        BY <3>1, <3>3, <3>5 DEF Data!Cat
      <3>7. wbuf' = wbuf
        BY <3>2 DEF Data!TxDma
      <3>. QED
        BY <3>1, <3>3, <3>5, <3>6, <3>7
    <2>. QED
      BY <1>1, <2>1, <2>2 DEF SysInv
  <1>. QED
    BY <1>3, <1>4, <1>5, <1>6, <1>7 DEF SysNext

(* The invariant holds throughout, whatever fails and whenever. *)
THEOREM SysInductive == SysSpec => []SysInv
  BY SysInvInit, SysInvNext, PTL DEF SysSpec
-----------------------------------------------------------------------------
(* The four properties of app_main hold with the data path running at the  *)
(* same time: in the system its state is typed, the writer is fed, events  *)
(* are routed and crashes are explained.                                   *)
THEOREM SystemKeepsMain ==
    SysSpec => [](TypeOK /\ WriterIsFed /\ EventsAreRouted /\ PanicIsExplained)
  <1>1. SysInv => IndInv
    BY DEF SysInv
  <1>. QED
    BY <1>1, SysInductive, IndInvImplies, PTL

(* Frames keep the order of their capture while app_main starts, stops and *)
(* restarts the tasks that move them, and after a crash.                   *)
THEOREM SystemKeepsOrder == SysSpec => []SysFramesInOrder
  <1>1. SysInv => SysFramesInOrder
    BY SamePath DEF SysInv, Data!IndInv, SysFramesInOrder
  <1>. QED
    BY <1>1, SysInductive, PTL

(* A frame is heard only if every call that builds the path has succeeded  *)
(* since the last boot.                                                    *)
THEOREM SoundProvesStart == SysSpec => []SoundMeansStarted
  <1>1. SysInv => SoundMeansStarted
    <2>. SUFFICES ASSUME SysInv, heard # <<>>
                  PROVE  {"audio_pipeline_init", "init_reader", "init_writer", "register_reader",
                          "register_writer", "audio_pipeline_link"} \cap failed = {}
      BY DEF SoundMeansStarted
    <2>1. el_list = Elements /\ "audio_pipeline_link" \notin failed
      BY DEF SysInv, SoundNeedsLink, IndInv, LinkedInOrder
    <2>2. /\ "register_reader" \notin failed /\ Uses["register_reader"] \subseteq handles
          /\ "register_writer" \notin failed /\ Uses["register_writer"] \subseteq handles
      BY <2>1 DEF SysInv, IndInv, RegisteredOnce, Registers, Elements
    <2>3. {"pipeline", "i2s_reader", "i2s_writer"} \subseteq handles
      BY <2>2, HandleFacts
    <2>4. \A c \in {"audio_pipeline_init", "init_reader", "init_writer"} : c \notin failed
      BY <2>3, HandleFacts DEF SysInv, IndInv, HandlesExplained
    <2>. QED
      BY <2>1, <2>2, <2>4
  <1>. QED
    BY <1>1, SysInductive, PTL
===============================================================================
