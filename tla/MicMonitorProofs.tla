--------------------------- MODULE MicMonitorProofs ---------------------------
(***************************************************************************)
(* Proofs about MicMonitor, whichever calls of app_main may fail and       *)
(* whatever the capacity of the event queue.                               *)
(***************************************************************************)
EXTENDS MicMonitor, SequenceTheorems, TLAPS

(* app_main has gone past call c. *)
Past(c) == \E i, j \in 1..13 : i < j /\ Program[i] = c /\ Program[j] = pc

(* A call that created something is behind app_main with its handle or its *)
(* failure left, never both.                                               *)
HandlesExplained ==
    \A c \in DOMAIN Creates :
        /\ Creates[c] \in handles => Past(c) /\ c \notin failed
        /\ Past(c) => Creates[c] \in handles \/ c \in failed

(* Only calls that were made have failed. *)
FailuresArePast == \A c \in failed : Past(c)

(* A crash comes at a call that was given a NULL handle. *)
CrashHasCause == cpu = "panic" => \E c \in DOMAIN Uses : pc = c /\ ~Ready(c)

(* The call that registers an element, and the call that created it. *)
Registers == [i2sr |-> "register_reader", i2sw |-> "register_writer"]

(* An element is registered only by a call that did not fail and that had  *)
(* all its handles.                                                        *)
RegisteredOnce ==
    \A tag \in el_list :
        /\ Past(Registers[tag]) /\ Registers[tag] \notin failed
        /\ Uses[Registers[tag]] \subseteq handles

(* The elements linked so far, and the ring buffers that follow from them. *)
Tags == {linked[i] : i \in 1..Len(linked)}

LinkedInOrder ==
    /\ linked \in {<<>>, <<"i2sr">>, <<"i2sr", "i2sw">>}
    /\ linked # <<>> => Past("audio_pipeline_link")
    /\ out_rb = {"i2sr"} \cap Tags /\ in_rb = {"i2sw"} \cap Tags
    /\ "i2sw" \in in_rb => el_list = Elements /\ "audio_pipeline_link" \notin failed

(* The listener is complete once it has been set, and the elements run     *)
(* only after that, the reader first.                                      *)
ListenerBeforeRun ==
    /\ Past("audio_pipeline_set_listener") =>
         listener = Tags \/ "audio_pipeline_set_listener" \in failed
    /\ running # {} => Past("audio_pipeline_set_listener")
    /\ running \subseteq Tags
    /\ "i2sw" \in running => "i2sr" \in running

IndInv ==
    /\ TypeOK /\ HandlesExplained /\ FailuresArePast /\ CrashHasCause
    /\ RegisteredOnce /\ LinkedInOrder /\ ListenerBeforeRun
-----------------------------------------------------------------------------
(* Program, position by position; no call is made twice. *)
LEMMA ProgramFacts ==
    /\ Len(Program) = 13
    /\ Program[1] = "audio_board_init" /\ Program[2] = "esp_periph_set_init"
    /\ Program[3] = "audio_hal_ctrl_codec" /\ Program[4] = "audio_pipeline_init"
    /\ Program[5] = "init_reader" /\ Program[6] = "init_writer"
    /\ Program[7] = "register_reader" /\ Program[8] = "register_writer"
    /\ Program[9] = "audio_pipeline_link" /\ Program[10] = "audio_event_iface_init"
    /\ Program[11] = "audio_pipeline_set_listener"
    /\ Program[12] = "audio_pipeline_run" /\ Program[13] = "loop"
  BY DEF Program

(* No call is made twice. *)
LEMMA ProgramInjective ==
    \A i, j \in 1..13 : Program[i] = Program[j] => i = j
  BY ProgramFacts

(* The calls as a set. *)
LEMMA CallsFacts ==
    /\ Calls = {Program[i] : i \in 1..12}
    /\ "loop" \notin Calls
    /\ Calls \cup {"loop"} = {Program[i] : i \in 1..13}
  BY ProgramFacts DEF Calls

(* Which call creates what, and which uses what. *)
LEMMA HandleFacts ==
    /\ DOMAIN Creates = {"audio_board_init", "esp_periph_set_init", "audio_pipeline_init",
                         "init_reader", "init_writer", "audio_event_iface_init"}
    /\ Creates["audio_board_init"] = "board_handle"
    /\ Creates["esp_periph_set_init"] = "set"
    /\ Creates["audio_pipeline_init"] = "pipeline"
    /\ Creates["init_reader"] = "i2s_reader"
    /\ Creates["init_writer"] = "i2s_writer"
    /\ Creates["audio_event_iface_init"] = "evt"
    /\ DOMAIN Uses = {"audio_hal_ctrl_codec", "register_reader", "register_writer",
                      "audio_pipeline_link", "audio_pipeline_set_listener",
                      "audio_pipeline_run"}
    /\ Uses["audio_hal_ctrl_codec"] = {"board_handle"}
    /\ Uses["register_reader"] = {"pipeline", "i2s_reader"}
    /\ Uses["register_writer"] = {"pipeline", "i2s_writer"}
    /\ Uses["audio_pipeline_link"] = {"pipeline"}
    /\ Uses["audio_pipeline_set_listener"] = {"pipeline", "evt"}
    /\ Uses["audio_pipeline_run"] = {"pipeline"}
  BY DEF Creates, Uses

(* A call that returns is behind app_main from then on, with those before  *)
(* it and no other.                                                        *)
LEMMA ReturnStep ==
    ASSUME NEW c, Calling(c), Return(c)
    PROVE  /\ pc' \in Calls \cup {"loop"} /\ cpu' = "up" /\ ~Past(c)
           /\ \A d : Past(d)' <=> Past(d) \/ d = c
  <1>1. PICK k \in 1..12 : Program[k] = c /\ pc = c /\ pc' = Program[k + 1] /\ cpu' = "up"
    BY ProgramFacts DEF Return, Calling
  <1>2. pc' \in Calls \cup {"loop"}
    BY <1>1, CallsFacts
  <1>3. ~Past(c)
    BY <1>1, ProgramInjective DEF Past
  <1>4. ASSUME NEW d PROVE Past(d)' <=> Past(d) \/ d = c
    <2>1. Past(d) <=> \E i \in 1..13 : i < k /\ Program[i] = d
      BY <1>1, ProgramInjective DEF Past
    <2>2. Past(d)' <=> \E i \in 1..13 : i < k + 1 /\ Program[i] = d
      BY <1>1, ProgramInjective DEF Past
    <2>. QED
      BY <1>1, <2>1, <2>2
  <1>. QED
    BY <1>1, <1>2, <1>3, <1>4

(* Where app_main is tells what it has gone past. *)
LEMMA PastFacts ==
    /\ pc = "audio_pipeline_run" => Past("audio_pipeline_set_listener")
    /\ \A c \in DOMAIN Uses : \A h \in Uses[c] :
         pc = c => \E d \in DOMAIN Creates : Creates[d] = h /\ Past(d)
  <1>1. /\ pc = "audio_hal_ctrl_codec" => Past("audio_board_init")
        /\ pc = "register_reader" => Past("audio_pipeline_init") /\ Past("init_reader")
        /\ pc = "register_writer" => Past("audio_pipeline_init") /\ Past("init_writer")
        /\ pc = "audio_pipeline_link" => Past("audio_pipeline_init")
        /\ pc = "audio_pipeline_set_listener" =>
             Past("audio_pipeline_init") /\ Past("audio_event_iface_init")
        /\ pc = "audio_pipeline_run" =>
             Past("audio_pipeline_init") /\ Past("audio_pipeline_set_listener")
    BY ProgramFacts DEF Past
  <1>. QED
    BY <1>1, HandleFacts

(* At most two elements are linked, and their tags. *)
LEMMA LinkedFacts ==
    /\ {SubSeq(link_tag, 1, n) : n \in 0..2} = {<<>>, <<"i2sr">>, <<"i2sr", "i2sw">>}
    /\ linked = <<>> => Tags = {}
    /\ linked = <<"i2sr">> => Tags = {"i2sr"}
    /\ linked = <<"i2sr", "i2sw">> => Tags = {"i2sr", "i2sw"}
    /\ SubSeq(link_tag, 1, 0) = <<>> /\ SubSeq(link_tag, 1, 1) = <<"i2sr">>
    /\ SubSeq(link_tag, 1, 2) = <<"i2sr", "i2sw">>
    /\ Len(link_tag) = 2 /\ link_tag[1] = "i2sr" /\ link_tag[2] = "i2sw"
  <1>1. /\ SubSeq(link_tag, 1, 0) = <<>> /\ SubSeq(link_tag, 1, 1) = <<"i2sr">>
        /\ SubSeq(link_tag, 1, 2) = <<"i2sr", "i2sw">>
        /\ Len(link_tag) = 2 /\ link_tag[1] = "i2sr" /\ link_tag[2] = "i2sw"
    <2>1. /\ link_tag \in Seq({"i2sr", "i2sw"})
          /\ Len(link_tag) = 2 /\ link_tag[1] = "i2sr" /\ link_tag[2] = "i2sw"
      BY DEF link_tag
    <2>2. SubSeq(link_tag, 1, 0) = <<>>
      BY <2>1, SubSeqEmpty
    <2>3. SubSeq(link_tag, 1, 2) = <<"i2sr", "i2sw">>
      BY <2>1, SubSeqFull DEF link_tag
    <2>4. SubSeq(link_tag, 1, 1) = <<"i2sr">>
      <3>1. /\ SubSeq(link_tag, 1, 1) \in Seq({"i2sr", "i2sw"})
            /\ Len(SubSeq(link_tag, 1, 1)) = 1
            /\ SubSeq(link_tag, 1, 1)[1] = "i2sr"
        BY <2>1, SubSeqProperties
      <3>2. /\ <<"i2sr">> \in Seq({"i2sr", "i2sw"}) /\ Len(<<"i2sr">>) = 1
            /\ <<"i2sr">>[1] = "i2sr"
        OBVIOUS
      <3>3. \A i \in 1..Len(SubSeq(link_tag, 1, 1)) :
              SubSeq(link_tag, 1, 1)[i] = <<"i2sr">>[i]
        BY <3>1, <3>2
      <3>. QED
        BY <3>1, <3>2, <3>3, SeqEqual
    <2>. QED
      BY <2>1, <2>2, <2>3, <2>4
  <1>2. {SubSeq(link_tag, 1, n) : n \in 0..2} = {<<>>, <<"i2sr">>, <<"i2sr", "i2sw">>}
    <2>1. 0..2 = {0, 1, 2}
      OBVIOUS
    <2>. QED
      BY <1>1, <2>1
  <1>3. linked = <<>> => Tags = {}
    BY DEF Tags
  <1>4. linked = <<"i2sr">> => Tags = {"i2sr"}
    BY DEF Tags
  <1>5. linked = <<"i2sr", "i2sw">> => Tags = {"i2sr", "i2sw"}
    <2>1. 1..2 = {1, 2}
      OBVIOUS
    <2>. QED
      BY <2>1 DEF Tags
  <1>. QED
    BY <1>1, <1>2, <1>3, <1>4, <1>5

-----------------------------------------------------------------------------
(* Nothing has been called after power on. *)
LEMMA IndInvInit == Init => IndInv
  <1>. SUFFICES ASSUME Init PROVE IndInv
    OBVIOUS
  <1>0. linked = <<>> /\ handles = {} /\ failed = {} /\ el_list = {} /\ running = {}
    BY DEF Init
  <1>1. TypeOK
    <2>1. linked \in {SubSeq(link_tag, 1, n) : n \in 0..2}
      BY <1>0, LinkedFacts
    <2>2. pc \in Calls \cup {"loop"}
      BY CallsFacts DEF Init
    <2>3. evq \in 0..EvtQueueSize /\ seconds_played \in 1..MaxSeconds
      BY EvtQueueSizeAssumption, MaxSecondsAssumption DEF Init
    <2>. QED
      BY <1>0, <2>1, <2>2, <2>3 DEF Init, TypeOK
  <1>2. \A c : ~Past(c)
    BY ProgramInjective DEF Init, Past
  <1>3. HandlesExplained /\ FailuresArePast /\ CrashHasCause /\ RegisteredOnce
    BY <1>0, <1>2 DEF Init, HandlesExplained, FailuresArePast, CrashHasCause, RegisteredOnce
  <1>4. LinkedInOrder /\ ListenerBeforeRun
    BY <1>0, <1>2, LinkedFacts DEF Init, LinkedInOrder, ListenerBeforeRun
  <1>. QED
    BY <1>1, <1>3, <1>4 DEF IndInv

(* What every call that returns has in common, whether it failed or not. *)
LEMMA CallStep ==
    ASSUME IndInv, NEW c \in Calls, Calling(c), Return(c),
           failed' = failed \/ failed' = failed \cup {c}
    PROVE  /\ cpu' = "up" /\ pc' \in Calls \cup {"loop"} /\ failed' \subseteq Calls
           /\ evq' \in 0..EvtQueueSize /\ seconds_played' \in 1..MaxSeconds
           /\ c \notin failed /\ ~Past(c) /\ \A d : Past(d)' <=> Past(d) \/ d = c
           /\ FailuresArePast' /\ CrashHasCause'
  <1>1. /\ cpu' = "up" /\ pc' \in Calls \cup {"loop"} /\ ~Past(c)
        /\ \A d : Past(d)' <=> Past(d) \/ d = c
    BY ReturnStep
  <1>2. c \notin failed /\ failed' \subseteq Calls
    BY <1>1 DEF IndInv, FailuresArePast, TypeOK
  <1>3. evq' \in 0..EvtQueueSize /\ seconds_played' \in 1..MaxSeconds
    BY DEF IndInv, TypeOK, Return
  <1>4. FailuresArePast'
    <2>. SUFFICES ASSUME NEW d \in failed' PROVE Past(d)'
      BY DEF FailuresArePast
    <2>. QED
      BY <1>1 DEF IndInv, FailuresArePast
  <1>5. CrashHasCause'
    BY <1>1 DEF CrashHasCause
  <1>. QED
    BY <1>1, <1>2, <1>3, <1>4, <1>5

(* A call that creates nothing leaves the account of the handles alone. *)
LEMMA HandlesKept ==
    ASSUME IndInv, NEW c \in Calls \ DOMAIN Creates, Calling(c), Return(c),
           failed' = failed \/ failed' = failed \cup {c}, handles' = handles
    PROVE  HandlesExplained'
  <1>1. \A d : Past(d)' <=> Past(d) \/ d = c
    BY CallStep
  <1>2. ASSUME NEW d \in DOMAIN Creates
        PROVE  /\ Creates[d] \in handles' => Past(d)' /\ d \notin failed'
               /\ Past(d)' => Creates[d] \in handles' \/ d \in failed'
    BY <1>1 DEF IndInv, HandlesExplained
  <1>. QED
    BY <1>2 DEF HandlesExplained

(* A call that registers nothing leaves the registered elements alone. *)
LEMMA RegisteredKept ==
    ASSUME IndInv, NEW c \in Calls, Calling(c), Return(c),
           failed' = failed \/ failed' = failed \cup {c}, handles \subseteq handles',
           el_list' = el_list
    PROVE  RegisteredOnce'
  <1>1. ~Past(c) /\ \A d : Past(d)' <=> Past(d) \/ d = c
    BY CallStep
  <1>2. ASSUME NEW tag \in el_list
        PROVE  /\ Past(Registers[tag])' /\ Registers[tag] \notin failed'
               /\ Uses[Registers[tag]] \subseteq handles'
    BY <1>1 DEF IndInv, RegisteredOnce
  <1>. QED
    BY <1>2 DEF RegisteredOnce

(* A call that links nothing leaves the chain alone. *)
LEMMA LinkedKept ==
    ASSUME IndInv, NEW c \in Calls, c # "audio_pipeline_link", Calling(c), Return(c),
           failed' = failed \/ failed' = failed \cup {c}, el_list \subseteq el_list',
           el_list' \subseteq Elements, UNCHANGED <<linked, in_rb, out_rb>>
    PROVE  LinkedInOrder' /\ Tags' = Tags
  <1>1. \A d : Past(d)' <=> Past(d) \/ d = c
    BY CallStep
  <1>2. Tags' = Tags
    BY DEF Tags
  <1>. QED
    BY <1>1, <1>2 DEF IndInv, LinkedInOrder

(* A call other than the last three leaves the listener and the tasks alone. *)
LEMMA RunKept ==
    ASSUME IndInv, NEW c \in Calls, c # "audio_pipeline_set_listener", Calling(c), Return(c),
           failed' = failed \/ failed' = failed \cup {c},
           Tags' = Tags, UNCHANGED <<listener, running>>
    PROVE  ListenerBeforeRun'
  <1>1. \A d : Past(d)' <=> Past(d) \/ d = c
    BY CallStep
  <1>. QED
    BY <1>1 DEF IndInv, ListenerBeforeRun

(* A successful or failed creation. *)
LEMMA CreateStep ==
    ASSUME IndInv, NEW c \in DOMAIN Creates, Create(c)
    PROVE  IndInv'
  <1>0. /\ c \in Calls /\ Calling(c) /\ Return(c) /\ c # "audio_pipeline_link"
        /\ c # "audio_pipeline_set_listener"
    BY HandleFacts, ProgramFacts, CallsFacts DEF Create
  <1>1. /\ failed' = failed \/ failed' = failed \cup {c}
        /\ handles \subseteq handles'
        /\ UNCHANGED <<codec, el_list, linked, in_rb, out_rb, listener, running>>
    BY DEF Create, Succeeds, Fails
  <1>2. /\ ~Past(c) /\ c \notin failed /\ \A d : Past(d)' <=> Past(d) \/ d = c
        /\ FailuresArePast' /\ CrashHasCause'
    BY <1>0, <1>1, CallStep
  <1>3. HandlesExplained'
    <2>1. ASSUME NEW d \in DOMAIN Creates, d # c PROVE Creates[d] # Creates[c]
      BY <2>1, HandleFacts
    <2>2. \/ failed' = failed /\ handles' = handles \cup {Creates[c]}
          \/ failed' = failed \cup {c} /\ handles' = handles
      BY DEF Create, Succeeds, Fails
    <2>3. ASSUME NEW d \in DOMAIN Creates
          PROVE  /\ Creates[d] \in handles' => Past(d)' /\ d \notin failed'
                 /\ Past(d)' => Creates[d] \in handles' \/ d \in failed'
      BY <1>2, <2>1, <2>2 DEF IndInv, HandlesExplained
    <2>. QED
      BY <2>3 DEF HandlesExplained
  <1>4. RegisteredOnce'
    BY <1>0, <1>1, RegisteredKept
  <1>5. LinkedInOrder' /\ Tags' = Tags
    BY <1>0, <1>1, LinkedKept DEF IndInv, TypeOK
  <1>6. ListenerBeforeRun'
    BY <1>0, <1>1, <1>5, RunKept
  <1>7. TypeOK'
    <2>1. Creates[c] \in {"board_handle", "set", "pipeline", "i2s_reader", "i2s_writer", "evt"}
      BY HandleFacts
    <2>2. handles' \subseteq {"board_handle", "set", "pipeline", "i2s_reader", "i2s_writer", "evt"}
      BY <2>1 DEF IndInv, TypeOK, Create
    <2>3. /\ cpu' = "up" /\ pc' \in Calls \cup {"loop"} /\ failed' \subseteq Calls
          /\ evq' \in 0..EvtQueueSize /\ seconds_played' \in 1..MaxSeconds
      BY <1>0, <1>1, CallStep
    <2>. QED
      BY <1>1, <2>2, <2>3 DEF IndInv, TypeOK
  <1>. QED
    BY <1>2, <1>3, <1>4, <1>5, <1>6, <1>7 DEF IndInv

(* A call that changes neither handles nor registered elements nor the     *)
(* chain: audio_hal_ctrl_codec, and any call that finds a handle NULL.     *)
LEMMA IdleStep ==
    ASSUME IndInv, NEW c \in Calls \ DOMAIN Creates, Calling(c), Return(c),
           failed' = failed \cup {c} \/ (failed' = failed /\ c = "audio_hal_ctrl_codec"),
           codec' \in BOOLEAN,
           UNCHANGED <<handles, el_list, linked, in_rb, out_rb, listener, running>>
    PROVE  IndInv'
  <1>1. failed' = failed \/ failed' = failed \cup {c}
    OBVIOUS
  <1>2. /\ cpu' = "up" /\ pc' \in Calls \cup {"loop"} /\ failed' \subseteq Calls
        /\ evq' \in 0..EvtQueueSize /\ seconds_played' \in 1..MaxSeconds
        /\ \A d : Past(d)' <=> Past(d) \/ d = c
        /\ FailuresArePast' /\ CrashHasCause' /\ ~Past(c)
    BY <1>1, CallStep
  <1>3. HandlesExplained' /\ RegisteredOnce'
    BY <1>1, HandlesKept, RegisteredKept
  <1>4. Tags' = Tags
    BY DEF Tags
  <1>5. LinkedInOrder'
    <2>1. CASE c # "audio_pipeline_link"
      BY <1>1, <2>1, LinkedKept DEF IndInv, TypeOK
    <2>2. CASE c = "audio_pipeline_link"
      <3>1. linked = <<>>
        BY <1>2, <2>2 DEF IndInv, LinkedInOrder
      <3>. QED
        BY <1>4, <3>1, LinkedFacts DEF IndInv, LinkedInOrder
    <2>. QED
      BY <2>1, <2>2
  <1>6. ListenerBeforeRun'
    BY <1>2, <1>4, HandleFacts DEF IndInv, ListenerBeforeRun
  <1>7. TypeOK'
    BY <1>2 DEF IndInv, TypeOK
  <1>. QED
    BY <1>2, <1>3, <1>5, <1>6, <1>7 DEF IndInv

(* An element is registered, or its registration fails. *)
LEMMA RegisterStep ==
    ASSUME IndInv, NEW tag \in Elements, NEW c \in Calls, c = Registers[tag], Register(c, tag)
    PROVE  IndInv'
  <1>0. /\ c \in Calls \ DOMAIN Creates /\ c # "audio_pipeline_link"
        /\ c # "audio_pipeline_set_listener" /\ Calling(c) /\ Return(c)
        /\ Uses[c] \subseteq handles
        /\ UNCHANGED <<handles, codec, linked, in_rb, out_rb, listener, running>>
        /\ \/ failed' = failed /\ el_list' = el_list \cup {tag}
           \/ failed' = failed \cup {c} /\ el_list' = el_list
    BY HandleFacts DEF Register, Elements, Registers, Ready, Succeeds, Fails
  <1>1. failed' = failed \/ failed' = failed \cup {c}
    BY <1>0
  <1>2. /\ cpu' = "up" /\ pc' \in Calls \cup {"loop"} /\ failed' \subseteq Calls
        /\ evq' \in 0..EvtQueueSize /\ seconds_played' \in 1..MaxSeconds
        /\ \A d : Past(d)' <=> Past(d) \/ d = c
        /\ FailuresArePast' /\ CrashHasCause' /\ ~Past(c) /\ c \notin failed
    BY <1>0, <1>1, CallStep
  <1>3. HandlesExplained'
    BY <1>0, <1>1, HandlesKept
  <1>4. RegisteredOnce'
    <2>1. ASSUME NEW t \in el_list'
          PROVE  /\ Past(Registers[t])' /\ Registers[t] \notin failed'
                 /\ Uses[Registers[t]] \subseteq handles'
      <3>1. CASE t \in el_list
        BY <1>0, <1>2, <3>1 DEF IndInv, RegisteredOnce
      <3>2. CASE t \notin el_list
        BY <1>0, <1>2, <3>2
      <3>. QED
        BY <3>1, <3>2
    <2>. QED
      BY <2>1 DEF RegisteredOnce
  <1>5. LinkedInOrder' /\ Tags' = Tags
    BY <1>0, <1>1, LinkedKept DEF IndInv, TypeOK
  <1>6. ListenerBeforeRun'
    BY <1>0, <1>1, <1>5, RunKept
  <1>7. TypeOK'
    BY <1>0, <1>2 DEF IndInv, TypeOK
  <1>. QED
    BY <1>2, <1>3, <1>4, <1>5, <1>6, <1>7 DEF IndInv

(* Linking n of the two elements yields these tags and ring buffers. *)
LEMMA LinkedStep ==
    ASSUME NEW n \in 0..2, Linked(n)
    PROVE  /\ linked' \in {<<>>, <<"i2sr">>, <<"i2sr", "i2sw">>}
           /\ out_rb' = {"i2sr"} \cap Tags' /\ in_rb' = {"i2sw"} \cap Tags'
           /\ "i2sw" \in in_rb' => n = 2
  <1>0. n \in {0, 1, 2}
    OBVIOUS
  <1>1. /\ linked' = <<>> => Tags' = {}
        /\ linked' = <<"i2sr">> => Tags' = {"i2sr"}
        /\ linked' = <<"i2sr", "i2sw">> => Tags' = {"i2sr", "i2sw"}
    <2>1. 1..2 = {1, 2}
      OBVIOUS
    <2>. QED
      BY <2>1 DEF Tags
  <1>2. CASE n = 0
    <2>1. {link_tag[i] : i \in 1..0} = {} /\ {link_tag[i] : i \in 2..0} = {}
      OBVIOUS
    <2>. QED
      BY <1>1, <1>2, <2>1, LinkedFacts DEF Linked
  <1>3. CASE n = 1
    <2>1. {link_tag[i] : i \in 1..1} = {"i2sr"} /\ {link_tag[i] : i \in 2..1} = {}
      BY LinkedFacts
    <2>. QED
      BY <1>1, <1>3, <2>1, LinkedFacts DEF Linked
  <1>4. CASE n = 2
    <2>0. 1..2 = {1, 2} /\ 2..2 = {2}
      OBVIOUS
    <2>1. {link_tag[i] : i \in 1..2} = {"i2sr", "i2sw"} /\ {link_tag[i] : i \in 2..2} = {"i2sw"}
      BY <2>0, LinkedFacts
    <2>. QED
      BY <1>1, <1>4, <2>1, LinkedFacts DEF Linked
  <1>. QED
    BY <1>0, <1>2, <1>3, <1>4

(* The chain is built, or its beginning if the call fails. *)
LEMMA LinkStep == IndInv /\ Link => IndInv'
  <1>. SUFFICES ASSUME IndInv, Link PROVE IndInv'
    OBVIOUS
  <1>. DEFINE c == "audio_pipeline_link"
  <1>0. /\ c \in Calls \ DOMAIN Creates /\ Calling(c) /\ Return(c)
        /\ UNCHANGED <<handles, codec, el_list, listener, running>>
    BY HandleFacts, CallsFacts, ProgramFacts DEF Link
  <1>1. /\ failed' = failed \/ failed' = failed \cup {c}
        /\ \E n \in 0..2 :
             /\ Linked(n)
             /\ n = 2 => failed' = failed /\ link_tag[1] \in el_list /\ link_tag[2] \in el_list
    BY LinkedFacts DEF Link, Succeeds, Fails
  <1>2. /\ cpu' = "up" /\ pc' \in Calls \cup {"loop"} /\ failed' \subseteq Calls
        /\ evq' \in 0..EvtQueueSize /\ seconds_played' \in 1..MaxSeconds
        /\ \A d : Past(d)' <=> Past(d) \/ d = c
        /\ FailuresArePast' /\ CrashHasCause' /\ ~Past(c) /\ c \notin failed
    BY <1>0, <1>1, CallStep
  <1>3. HandlesExplained' /\ RegisteredOnce'
    BY <1>0, <1>1, HandlesKept, RegisteredKept
  <1>4. LinkedInOrder'
    <2>1. PICK n \in 0..2 :
            /\ Linked(n)
            /\ n = 2 => failed' = failed /\ link_tag[1] \in el_list /\ link_tag[2] \in el_list
      BY <1>1
    <2>2. /\ linked' \in {<<>>, <<"i2sr">>, <<"i2sr", "i2sw">>}
          /\ out_rb' = {"i2sr"} \cap Tags' /\ in_rb' = {"i2sw"} \cap Tags'
          /\ "i2sw" \in in_rb' => n = 2
      BY <2>1, LinkedStep
    <2>3. n = 2 => el_list' = Elements /\ c \notin failed'
      BY <1>0, <1>2, <2>1, LinkedFacts DEF IndInv, TypeOK, Elements
    <2>. QED
      BY <1>2, <2>2, <2>3 DEF LinkedInOrder
  <1>5. ~Past("audio_pipeline_set_listener")
    BY <1>0, ProgramFacts, ProgramInjective DEF Past, Calling
  <1>6. ListenerBeforeRun'
    BY <1>0, <1>2, <1>5 DEF IndInv, ListenerBeforeRun
  <1>7. TypeOK'
    <2>1. linked' \in {SubSeq(link_tag, 1, n) : n \in 0..2}
      BY <1>4, LinkedFacts DEF LinkedInOrder
    <2>2. in_rb' \subseteq Elements /\ out_rb' \subseteq Elements
      BY <1>4 DEF LinkedInOrder, Elements
    <2>. QED
      BY <1>0, <1>2, <2>1, <2>2 DEF IndInv, TypeOK
  <1>. QED
    BY <1>2, <1>3, <1>4, <1>6, <1>7 DEF IndInv

(* The listener is set for all the elements linked, or the call fails. *)
LEMMA SetListenerStep == IndInv /\ SetListener => IndInv'
  <1>. SUFFICES ASSUME IndInv, SetListener PROVE IndInv'
    OBVIOUS
  <1>. DEFINE c == "audio_pipeline_set_listener"
  <1>0. /\ c \in Calls \ DOMAIN Creates /\ c # "audio_pipeline_link" /\ Calling(c) /\ Return(c)
        /\ UNCHANGED <<handles, codec, el_list, linked, in_rb, out_rb, running>>
        /\ \/ failed' = failed /\ listener' = Tags
           \/ failed' = failed \cup {c} /\ listener' \in SUBSET Tags
    BY HandleFacts, CallsFacts, ProgramFacts DEF SetListener, Tags, Succeeds, Fails
  <1>1. failed' = failed \/ failed' = failed \cup {c}
    BY <1>0
  <1>2. /\ cpu' = "up" /\ pc' \in Calls \cup {"loop"} /\ failed' \subseteq Calls
        /\ evq' \in 0..EvtQueueSize /\ seconds_played' \in 1..MaxSeconds
        /\ \A d : Past(d)' <=> Past(d) \/ d = c
        /\ FailuresArePast' /\ CrashHasCause' /\ ~Past(c)
    BY <1>0, <1>1, CallStep
  <1>3. HandlesExplained' /\ RegisteredOnce'
    BY <1>0, <1>1, HandlesKept, RegisteredKept
  <1>4. LinkedInOrder' /\ Tags' = Tags
    BY <1>0, <1>1, LinkedKept DEF IndInv, TypeOK
  <1>5. ListenerBeforeRun'
    BY <1>0, <1>2, <1>4 DEF IndInv, ListenerBeforeRun
  <1>6. TypeOK'
    <2>1. Tags \subseteq Elements
      BY LinkedFacts DEF IndInv, LinkedInOrder, Elements
    <2>. QED
      BY <1>0, <1>2, <2>1 DEF IndInv, TypeOK
  <1>. QED
    BY <1>2, <1>3, <1>4, <1>5, <1>6 DEF IndInv

(* audio_pipeline_run returns, all elements running or none. *)
LEMMA RunStep == IndInv /\ Run => IndInv'
  <1>. SUFFICES ASSUME IndInv, Run PROVE IndInv'
    OBVIOUS
  <1>. DEFINE c == "audio_pipeline_run"
  <1>0. /\ c \in Calls \ DOMAIN Creates /\ c # "audio_pipeline_link" /\ Calling(c) /\ Return(c)
        /\ UNCHANGED <<handles, codec, el_list, linked, in_rb, out_rb, listener>>
        /\ failed' = failed \/ failed' = failed \cup {c}
        /\ running' = running \/ running' = {}
    BY HandleFacts, CallsFacts, ProgramFacts DEF Run, Succeeds, Fails
  <1>2. /\ cpu' = "up" /\ pc' \in Calls \cup {"loop"} /\ failed' \subseteq Calls
        /\ evq' \in 0..EvtQueueSize /\ seconds_played' \in 1..MaxSeconds
        /\ \A d : Past(d)' <=> Past(d) \/ d = c
        /\ FailuresArePast' /\ CrashHasCause' /\ ~Past(c)
    BY <1>0, CallStep
  <1>3. HandlesExplained' /\ RegisteredOnce'
    BY <1>0, HandlesKept, RegisteredKept
  <1>4. LinkedInOrder' /\ Tags' = Tags
    BY <1>0, LinkedKept DEF IndInv, TypeOK
  <1>5. ListenerBeforeRun'
    BY <1>0, <1>2, <1>4 DEF IndInv, ListenerBeforeRun
  <1>6. TypeOK'
    BY <1>0, <1>2 DEF IndInv, TypeOK
  <1>. QED
    BY <1>2, <1>3, <1>4, <1>5, <1>6 DEF IndInv

(* The tasks are resumed in link order. *)
LEMMA ResumeStep == IndInv /\ Resume => IndInv'
  <1>. SUFFICES ASSUME IndInv, Resume PROVE IndInv'
    OBVIOUS
  <1>1. /\ UNCHANGED <<cpu, pc, handles, failed, codec, el_list, linked, in_rb, out_rb,
                       listener, evq, seconds_played>>
        /\ pc = "audio_pipeline_run"
    BY DEF Resume, Calling
  <1>2. PICK i \in 1..Len(linked) :
          running = {linked[j] : j \in 1..(i - 1)} /\ running' = running \cup {linked[i]}
    BY DEF Resume
  <1>3. Tags' = Tags /\ \A d : Past(d)' <=> Past(d)
    BY <1>1 DEF Tags, Past
  <1>4. linked \in {<<>>, <<"i2sr">>, <<"i2sr", "i2sw">>}
    BY DEF IndInv, LinkedInOrder
  <1>5. /\ linked[i] \in Tags
        /\ linked[i] = "i2sw" => "i2sr" \in running
    <2>1. linked[i] \in Tags
      BY <1>2 DEF Tags
    <2>2. linked = <<>> => Len(linked) = 0
      OBVIOUS
    <2>3. CASE linked = <<"i2sr">>
      BY <2>1, <2>3
    <2>4. CASE linked = <<"i2sr", "i2sw">>
      <3>1. i = 1 \/ i = 2
        BY <2>4
      <3>. QED
        BY <1>2, <2>1, <2>4, <3>1
    <2>. QED
      BY <1>4, <2>1, <2>2, <2>3, <2>4
  <1>6. ListenerBeforeRun'
    BY <1>1, <1>2, <1>3, <1>5, PastFacts DEF IndInv, ListenerBeforeRun
  <1>7. TypeOK'
    <2>1. Tags \subseteq Elements
      BY <1>4, LinkedFacts DEF Elements
    <2>. QED
      BY <1>1, <1>2, <1>5, <2>1 DEF IndInv, TypeOK
  <1>8. HandlesExplained' /\ FailuresArePast' /\ CrashHasCause' /\ RegisteredOnce'
    BY <1>1, <1>3 DEF IndInv, HandlesExplained, FailuresArePast, CrashHasCause,
                      RegisteredOnce, Ready
  <1>9. LinkedInOrder'
    BY <1>1, <1>3 DEF IndInv, LinkedInOrder
  <1>. QED
    BY <1>6, <1>7, <1>8, <1>9 DEF IndInv

(* A step that moves none of what app_main has set up. *)
LEMMA QuietStep ==
    ASSUME IndInv, cpu' = cpu \/ \E c \in DOMAIN Uses : Panic(c),
           UNCHANGED <<pc, handles, failed, codec, el_list, linked, in_rb, out_rb,
                       listener, running>>,
           evq' \in 0..EvtQueueSize, seconds_played' \in 1..MaxSeconds
    PROVE  IndInv'
  <1>1. Tags' = Tags /\ \A d : Past(d)' <=> Past(d)
    BY DEF Tags, Past
  <1>2. HandlesExplained' /\ FailuresArePast' /\ RegisteredOnce'
    BY <1>1 DEF IndInv, HandlesExplained, FailuresArePast, RegisteredOnce
  <1>3. LinkedInOrder' /\ ListenerBeforeRun'
    BY <1>1 DEF IndInv, LinkedInOrder, ListenerBeforeRun
  <1>4. CrashHasCause'
    BY DEF IndInv, CrashHasCause, Ready, Panic, Calling
  <1>5. TypeOK'
    BY DEF IndInv, TypeOK, Panic
  <1>. QED
    BY <1>2, <1>3, <1>4, <1>5 DEF IndInv

(* Every step preserves the invariant: one case for each action. *)
LEMMA IndInvNext == IndInv /\ [Next]_mainVars => IndInv'
  <1>. SUFFICES ASSUME IndInv, [Next]_mainVars PROVE IndInv'
    OBVIOUS
  <1>0. evq \in 0..EvtQueueSize /\ seconds_played \in 1..MaxSeconds
    BY DEF IndInv, TypeOK
  <1>1. ASSUME NEW c \in DOMAIN Creates, Create(c) PROVE IndInv'
    BY <1>1, CreateStep
  <1>2. CASE CtrlCodec
    <2>1. "audio_hal_ctrl_codec" \in Calls \ DOMAIN Creates
      BY HandleFacts, CallsFacts, ProgramFacts
    <2>2. codec' \in BOOLEAN
      BY <1>2 DEF CtrlCodec, IndInv, TypeOK
    <2>. QED
      BY <1>2, <2>1, <2>2, IdleStep DEF CtrlCodec, Succeeds, Fails
  <1>3. CASE Register("register_reader", "i2sr")
    <2>1. "register_reader" \in Calls
      BY CallsFacts, ProgramFacts
    <2>. QED
      BY <1>3, <2>1, RegisterStep DEF Elements, Registers
  <1>4. CASE Register("register_writer", "i2sw")
    <2>1. "register_writer" \in Calls
      BY CallsFacts, ProgramFacts
    <2>. QED
      BY <1>4, <2>1, RegisterStep DEF Elements, Registers
  <1>5. CASE Link \/ SetListener \/ Resume \/ Run
    BY <1>5, LinkStep, SetListenerStep, ResumeStep, RunStep
  <1>6. ASSUME NEW c \in DOMAIN Uses, NullHandle(c) PROVE IndInv'
    <2>1. c \in Calls \ DOMAIN Creates
      BY HandleFacts, CallsFacts, ProgramFacts
    <2>2. codec' \in BOOLEAN
      BY <1>6 DEF NullHandle, IndInv, TypeOK
    <2>. QED
      BY <1>6, <2>1, <2>2, IdleStep DEF NullHandle, Fails
  <1>7. ASSUME NEW c \in DOMAIN Uses, Panic(c) PROVE IndInv'
    BY <1>0, <1>7, QuietStep DEF Panic
  <1>8. CASE Loop
    <2>1. seconds_played' \in 1..MaxSeconds
      BY <1>0, <1>8, MaxSecondsAssumption DEF Loop
    <2>. QED
      BY <1>0, <1>8, <2>1, QuietStep DEF Loop
  <1>9. CASE Reboot
    <2>1. Init'
      BY <1>9 DEF Reboot, Init
    <2>2. (Init => IndInv)'
      BY IndInvInit, PTL
    <2>. QED
      BY <2>1, <2>2
  <1>10. ASSUME NEW tag \in {"i2sr", "i2sw"}, Report(tag) PROVE IndInv'
    <2>1. evq' \in 0..EvtQueueSize
      BY <1>0, <1>10, EvtQueueSizeAssumption DEF Report
    <2>. QED
      BY <1>0, <1>10, <2>1, QuietStep DEF Report
  <1>11. CASE UNCHANGED mainVars
    BY <1>0, <1>11, QuietStep DEF mainVars
  <1>. QED
    BY <1>1, <1>2, <1>3, <1>4, <1>5, <1>6, <1>7, <1>8, <1>9, <1>10, <1>11 DEF Next, AppMain

(* The invariant holds in every state, whichever calls fail and however    *)
(* often the board reboots.                                                *)
THEOREM Inductive == Spec => []IndInv
  BY IndInvInit, IndInvNext, PTL DEF Spec
-----------------------------------------------------------------------------
(* What the invariant says of the properties of MicMonitor. *)
LEMMA IndInvImplies ==
    IndInv => TypeOK /\ WriterIsFed /\ EventsAreRouted /\ PanicIsExplained
  <1>. SUFFICES ASSUME IndInv
                PROVE  TypeOK /\ WriterIsFed /\ EventsAreRouted /\ PanicIsExplained
    OBVIOUS
  <1>1. TypeOK
    BY DEF IndInv
  <1>2. WriterIsFed
    BY DEF IndInv, ListenerBeforeRun, LinkedInOrder, WriterIsFed
  <1>3. EventsAreRouted
    BY DEF IndInv, ListenerBeforeRun, EventsAreRouted
  <1>4. PanicIsExplained
    <2>. SUFFICES ASSUME cpu = "panic" PROVE failed \cap DOMAIN Creates # {}
      BY DEF PanicIsExplained
    <2>1. PICK c \in DOMAIN Uses : pc = c /\ ~Ready(c)
      BY DEF IndInv, CrashHasCause
    <2>2. PICK h \in Uses[c] : h \notin handles
      BY <2>1 DEF Ready
    <2>3. PICK d \in DOMAIN Creates : Creates[d] = h /\ Past(d)
      BY <2>1, PastFacts
    <2>. QED
      BY <2>2, <2>3 DEF IndInv, HandlesExplained
  <1>. QED
    BY <1>1, <1>2, <1>3, <1>4

(* Type correctness of app_main's state: the chain is always a beginning   *)
(* of link_tag and the event queue never exceeds its capacity.             *)
THEOREM MainTypeCorrect == Spec => []TypeOK
  BY Inductive, IndInvImplies, PTL

(* The writer never runs without the reader and the ring buffer that feeds *)
(* it, although app_main looks at no return value.                         *)
THEOREM WriterAlwaysFed == Spec => []WriterIsFed
  BY Inductive, IndInvImplies, PTL

(* No element runs whose events are not routed to evt, unless              *)
(* audio_pipeline_set_listener itself has failed.                          *)
THEOREM EventsAlwaysRouted == Spec => []EventsAreRouted
  BY Inductive, IndInvImplies, PTL

(* Every crash is preceded, in the same boot, by a call that failed to     *)
(* create what a later call was given.                                     *)
THEOREM PanicsExplained == Spec => []PanicIsExplained
  BY Inductive, IndInvImplies, PTL
===============================================================================
