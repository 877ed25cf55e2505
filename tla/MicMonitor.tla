------------------------------ MODULE MicMonitor ------------------------------
(***************************************************************************)
(* app_main of main/main.c: one action per call it makes, in the order of  *)
(* Program, then the endless loop.  app_main checks no return value, so a  *)
(* failed call leaves a NULL handle or a missing effect behind and the     *)
(* next call is made all the same.  The calls go to ESP-ADF, which is not  *)
(* part of the repository: what they do is modelled from their use here.   *)
(***************************************************************************)
EXTENDS Integers, Sequences, FiniteSets

CONSTANTS MayFail,        \* the calls that may fail
          EvtQueueSize,   \* capacity of the event queue of evt
          MaxSeconds      \* bound: iterations of the loop

VARIABLES cpu,            \* "up", or "panic" until the watchdog reboots
          pc,             \* the call app_main makes next, or "loop"
          handles,        \* local handles of app_main that are not NULL
          failed,         \* calls that have failed since boot
          codec,          \* the codec chip has been started
          el_list,        \* tags registered with the pipeline
          linked,         \* tags linked so far, in order
          in_rb, out_rb,  \* tags with an input / output ring buffer
          listener,       \* tags whose events go to evt
          running,        \* tags whose element task runs
          evq,            \* events in the queue of evt
          seconds_played

mainVars == <<cpu, pc, handles, failed, codec, el_list, linked, in_rb, out_rb,
              listener, running, evq, seconds_played>>
-----------------------------------------------------------------------------
(* Faults: the listener is set before there are elements linked; the       *)
(* writer is registered before it is created.                              *)
ProgramListenerFirst ==
    <<"audio_board_init", "esp_periph_set_init", "audio_hal_ctrl_codec",
      "audio_pipeline_init", "init_reader", "init_writer",
      "audio_event_iface_init", "audio_pipeline_set_listener",
      "register_reader", "register_writer", "audio_pipeline_link",
      "audio_pipeline_run", "loop">>

ProgramWriterLate ==
    <<"audio_board_init", "esp_periph_set_init", "audio_hal_ctrl_codec",
      "audio_pipeline_init", "init_reader",
      "register_reader", "register_writer", "init_writer", "audio_pipeline_link",
      "audio_event_iface_init", "audio_pipeline_set_listener",
      "audio_pipeline_run", "loop">>

(* The calls of app_main in program order. *)
Program ==
    <<"audio_board_init", "esp_periph_set_init", "audio_hal_ctrl_codec",
      "audio_pipeline_init", "init_reader", "init_writer",
      "register_reader", "register_writer", "audio_pipeline_link",
      "audio_event_iface_init", "audio_pipeline_set_listener",
      "audio_pipeline_run", "loop">>

Calls == {Program[i] : i \in 1..(Len(Program) - 1)}

ASSUME MayFailAssumption == MayFail \subseteq Calls
ASSUME EvtQueueSizeAssumption == EvtQueueSize \in Nat \ {0}
ASSUME MaxSecondsAssumption == MaxSeconds \in Nat \ {0}

(* The handle a creating call returns, and the handles the others use. *)
Creates ==
    [audio_board_init |-> "board_handle", esp_periph_set_init |-> "set",
     audio_pipeline_init |-> "pipeline", init_reader |-> "i2s_reader",
     init_writer |-> "i2s_writer", audio_event_iface_init |-> "evt"]

Uses ==
    [audio_hal_ctrl_codec |-> {"board_handle"},
     register_reader |-> {"pipeline", "i2s_reader"},
     register_writer |-> {"pipeline", "i2s_writer"},
     audio_pipeline_link |-> {"pipeline"},
     audio_pipeline_set_listener |-> {"pipeline", "evt"},
     audio_pipeline_run |-> {"pipeline"}]

(* Fault: the chain is the wrong way round. *)
LinkTagReversed == <<"i2sw", "i2sr">>

link_tag == <<"i2sr", "i2sw">>
-----------------------------------------------------------------------------
Init ==
    /\ cpu = "up" /\ pc = Program[1]
    /\ handles = {} /\ failed = {} /\ codec = FALSE
    /\ el_list = {} /\ linked = <<>> /\ in_rb = {} /\ out_rb = {}
    /\ listener = {} /\ running = {} /\ evq = 0
    /\ seconds_played = 1

Calling(c) == cpu = "up" /\ pc = c

(* app_main goes on after call c, whatever the call returned. *)
Return(c) ==
    /\ \E i \in 1..(Len(Program) - 1) : Program[i] = c /\ pc' = Program[i + 1]
    /\ UNCHANGED <<cpu, evq, seconds_played>>

Succeeds == failed' = failed
Fails(c) == failed' = failed \cup {c}

(* A call is given only handles that were really created. *)
Ready(c) == Uses[c] \subseteq handles

(* The six calls that create something and return a handle, or NULL. *)
Create(c) ==
    /\ Calling(c) /\ Return(c)
    /\ \/ Succeeds /\ handles' = handles \cup {Creates[c]}
       \/ c \in MayFail /\ Fails(c) /\ handles' = handles
    /\ UNCHANGED <<codec, el_list, linked, in_rb, out_rb, listener, running>>

(* board_handle->audio_hal is a load from address 0 when there is no board. *)
CtrlCodec ==
    LET c == "audio_hal_ctrl_codec"
    IN  /\ Calling(c) /\ Ready(c) /\ Return(c)
        /\ \/ Succeeds /\ codec' = TRUE
           \/ c \in MayFail /\ Fails(c) /\ codec' = codec
        /\ UNCHANGED <<handles, el_list, linked, in_rb, out_rb, listener, running>>

Register(c, tag) ==
    /\ Calling(c) /\ Ready(c) /\ Return(c)
    /\ \/ Succeeds /\ el_list' = el_list \cup {tag}
       \/ c \in MayFail /\ Fails(c) /\ el_list' = el_list
    /\ UNCHANGED <<handles, codec, linked, in_rb, out_rb, listener, running>>

(* The first n tags have been linked: each but the last of the chain has   *)
(* been given an output ring buffer, which is the input of the next one.   *)
Linked(n) ==
    /\ linked' = SubSeq(link_tag, 1, n)
    /\ out_rb' = {link_tag[i] : i \in 1..n} \ {link_tag[Len(link_tag)]}
    /\ in_rb' = {link_tag[i] : i \in 2..n}

(* Fault: a ring buffer that could not be created does not end the call. *)
LinkPastFailure ==
    LET c == "audio_pipeline_link"
    IN  /\ Calling(c) /\ Ready(c) /\ Return(c)
        /\ \A i \in 1..Len(link_tag) : link_tag[i] \in el_list
        /\ Linked(Len(link_tag))
        /\ Succeeds \/ (c \in MayFail /\ Fails(c))
        /\ UNCHANGED <<handles, codec, el_list, listener, running>>

(* Tags are linked one by one; an unknown tag, or no memory for a ring     *)
(* buffer, ends the call and leaves the earlier ones linked.               *)
Link ==
    LET c == "audio_pipeline_link"
        Known(n) == \A i \in 1..n : link_tag[i] \in el_list
    IN  /\ Calling(c) /\ Ready(c) /\ Return(c)
        /\ \/ Known(Len(link_tag)) /\ Linked(Len(link_tag)) /\ Succeeds
           \/ \E n \in 0..(Len(link_tag) - 1) :
                /\ Known(n) /\ (c \in MayFail \/ ~Known(n + 1))
                /\ Linked(n) /\ Fails(c)
        /\ UNCHANGED <<handles, codec, el_list, listener, running>>

(* The listener is given to every element linked at this moment. *)
SetListener ==
    LET c == "audio_pipeline_set_listener"
        tags == {linked[i] : i \in 1..Len(linked)}
    IN  /\ Calling(c) /\ Ready(c) /\ Return(c)
        /\ \/ Succeeds /\ listener' = tags
           \/ c \in MayFail /\ Fails(c) /\ listener' \in SUBSET tags
        /\ UNCHANGED <<handles, codec, el_list, linked, in_rb, out_rb, running>>

(* Fault: the elements are resumed in any order. *)
ResumeAny ==
    /\ Calling("audio_pipeline_run") /\ Ready("audio_pipeline_run")
    /\ \E i \in 1..Len(linked) :
         linked[i] \notin running /\ running' = running \cup {linked[i]}
    /\ UNCHANGED <<cpu, pc, handles, failed, codec, el_list, linked, in_rb, out_rb,
                   listener, evq, seconds_played>>

(* audio_pipeline_run resumes the element tasks one by one in link order,  *)
(* while those already resumed run; a failure terminates them all.         *)
Resume ==
    /\ Calling("audio_pipeline_run") /\ Ready("audio_pipeline_run")
    /\ \E i \in 1..Len(linked) :
         /\ running = {linked[j] : j \in 1..(i - 1)}
         /\ running' = running \cup {linked[i]}
    /\ UNCHANGED <<cpu, pc, handles, failed, codec, el_list, linked, in_rb, out_rb,
                   listener, evq, seconds_played>>

(* Fault: the call waits for every element main.c names. *)
RunAwaitsAll ==
    LET c == "audio_pipeline_run"
    IN  /\ Calling(c) /\ Ready(c) /\ Return(c)
        /\ running = {"i2sr", "i2sw"} /\ running' = running /\ Succeeds
        /\ UNCHANGED <<handles, codec, el_list, linked, in_rb, out_rb, listener>>

Run ==
    LET c == "audio_pipeline_run"
    IN  /\ Calling(c) /\ Ready(c) /\ Return(c)
        /\ \/ /\ running = {linked[i] : i \in 1..Len(linked)}
              /\ Succeeds /\ running' = running
           \/ c \in MayFail /\ Fails(c) /\ running' = {}
        /\ UNCHANGED <<handles, codec, el_list, linked, in_rb, out_rb, listener>>

(* A call given a NULL handle crashes, or finds out and does nothing.      *)
(* mem_assert(pipeline) is empty in this build and stops neither.          *)
NullHandle(c) ==
    /\ Calling(c) /\ ~Ready(c) /\ c # "audio_hal_ctrl_codec"
    /\ Return(c) /\ Fails(c)
    /\ UNCHANGED <<handles, codec, el_list, linked, in_rb, out_rb, listener, running>>

Panic(c) ==
    /\ Calling(c) /\ ~Ready(c)
    /\ cpu' = "panic"
    /\ UNCHANGED <<pc, handles, failed, codec, el_list, linked, in_rb, out_rb,
                   listener, running, evq, seconds_played>>

(* The panic handler prints and reboots (CONFIG_ESP_SYSTEM_PANIC_PRINT_REBOOT). *)
Reboot ==
    /\ cpu = "panic"
    /\ cpu' = "up" /\ pc' = Program[1]
    /\ handles' = {} /\ failed' = {} /\ codec' = FALSE
    /\ el_list' = {} /\ linked' = <<>> /\ in_rb' = {} /\ out_rb' = {}
    /\ listener' = {} /\ running' = {} /\ evq' = 0
    /\ seconds_played' = 1

(* Fault: the queue has no bound. *)
ReportUnbounded(tag) ==
    /\ cpu = "up" /\ tag \in running \cap listener
    /\ evq' = evq + 1
    /\ UNCHANGED <<cpu, pc, handles, failed, codec, el_list, linked, in_rb, out_rb,
                   listener, running, seconds_played>>

(* A running element reports to its listener.  Nothing in main.c ever      *)
(* takes an event out of the queue; when it is full the event is dropped.  *)
Report(tag) ==
    /\ cpu = "up" /\ tag \in running \cap listener
    /\ evq < EvtQueueSize /\ evq' = evq + 1
    /\ UNCHANGED <<cpu, pc, handles, failed, codec, el_list, linked, in_rb, out_rb,
                   listener, running, seconds_played>>

(* while (1): wait a second, print, count. *)
Loop ==
    /\ Calling("loop") /\ seconds_played < MaxSeconds
    /\ seconds_played' = seconds_played + 1
    /\ UNCHANGED <<cpu, pc, handles, failed, codec, el_list, linked, in_rb, out_rb,
                   listener, running, evq>>

AppMain ==
    \/ \E c \in DOMAIN Creates : Create(c)
    \/ CtrlCodec
    \/ Register("register_reader", "i2sr") \/ Register("register_writer", "i2sw")
    \/ Link \/ SetListener \/ Resume \/ Run
    \/ \E c \in DOMAIN Uses : NullHandle(c) \/ Panic(c)
    \/ Loop

Next == AppMain \/ Reboot \/ \E tag \in {"i2sr", "i2sw"} : Report(tag)

Spec == Init /\ [][Next]_mainVars
-----------------------------------------------------------------------------
Elements == {"i2sr", "i2sw"}

(* The types of app_main's state; what has been linked is a beginning of    *)
(* link_tag, and the event queue holds no more than it can.                *)
TypeOK ==
    /\ cpu \in {"up", "panic"} /\ pc \in Calls \cup {"loop"}
    /\ handles \subseteq {"board_handle", "set", "pipeline", "i2s_reader", "i2s_writer", "evt"}
    /\ failed \subseteq Calls /\ codec \in BOOLEAN
    /\ el_list \subseteq Elements /\ linked \in {SubSeq(link_tag, 1, n) : n \in 0..2}
    /\ in_rb \subseteq Elements /\ out_rb \subseteq Elements
    /\ listener \subseteq Elements /\ running \subseteq Elements
    /\ evq \in 0..EvtQueueSize
    /\ seconds_played \in 1..MaxSeconds

(* The writer's task never runs without its input: when it runs, it has    *)
(* the ring buffer the reader writes to and the reader runs, whichever     *)
(* calls of the start-up have failed unnoticed (main.c:141-161).           *)
WriterIsFed ==
    "i2sw" \in running =>
        "i2sr" \in running /\ "i2sr" \in out_rb /\ "i2sw" \in in_rb

(* No element runs unobserved: its events go to evt unless the very call   *)
(* that sets the listener failed, so the listener must be set after the    *)
(* elements are linked and before they run (main.c:150, 158, 161).         *)
EventsAreRouted ==
    \A tag \in running :
        tag \in listener \/ "audio_pipeline_set_listener" \in failed

(* A crash is always the late effect of a call that failed to create       *)
(* something: app_main never uses a handle before it asked for it.         *)
PanicIsExplained == cpu = "panic" => failed \cap DOMAIN Creates # {}

(* The start-up neither hangs nor stops half way: it always reaches the    *)
(* loop or a crash, and a crash always leads to a new start-up.            *)
StartupSettles ==
    /\ cpu = "up" ~> pc = "loop" \/ cpu = "panic"
    /\ cpu = "panic" ~> cpu = "up"
=============================================================================
