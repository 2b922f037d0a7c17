-------------------------- MODULE JetcamRtspProofs --------------------------
(***************************************************************************)
(* Proofs about JetcamRtsp for any number of signals and messages: types,  *)
(* the stopping of the capture pipeline, and the refinement of             *)
(* CameraService.                                                          *)
(***************************************************************************)
EXTENDS JetcamRtsp, FiniteSetTheorems, TLAPS

Pcs == {"sources", "parse", "server", "attach", "play", "loop", "null",
        "release", "done", "killed"}

(* The turn of the bus comes only while there is a message. *)
LoopInv ==
    /\ pc \notin {"loop", "killed"} => batch = {}
    /\ "bus" \in batch => bus # <<>>

FlagTypes == running \in BOOLEAN /\ built \in BOOLEAN

LEMMA FlagStep == FlagTypes /\ [Next]_vars => FlagTypes'
<1> SUFFICES ASSUME FlagTypes, [Next]_vars PROVE FlagTypes'
  OBVIOUS
<1> USE DEF FlagTypes, Goto, common, loop
<1>1. CASE AddStopSources /\ UNCHANGED <<built, rtsp>>
  BY <1>1, Zenon DEF AddStopSources
<1>2. CASE NotBuilt \/ ParseCapture \/ CreateServer \/ AttachServer \/ SetPlaying
  BY <1>2, Zenon DEF NotBuilt, ParseCapture, ParsePipeline, CreateServer, AttachServer,
     SetPlaying
<1>3. CASE LoopStep /\ UNCHANGED <<built, rtsp>>
  BY <1>3, Zenon DEF LoopStep, Iterate, QuitLoop, OnBusMessage, LeaveLoop, Dispatch
<1>4. CASE SetNull \/ Release \/ UNCHANGED vars
  BY <1>4, Zenon DEF SetNull, Release, vars
<1>5. CASE Environment
  BY <1>5, Zenon DEF Environment, ElementPosts, Deliver
<1> QED  BY <1>1, <1>2, <1>3, <1>4, <1>5 DEF Next, Main, Finished

(* What the loop and the signals share keeps its type. *)
LEMMA CommonStep == CommonTypes /\ LoopInv /\ [Next]_vars => CommonTypes'
<1> SUFFICES ASSUME CommonTypes, LoopInv, [Next]_vars PROVE CommonTypes'
  OBVIOUS
<1> USE DEF CommonTypes, Goto, common, loop
<1>1. StopSignals \subseteq Signals
  BY DEF Signals
<1>2. CASE AddStopSources
  BY <1>1, <1>2 DEF AddStopSources
<1>3. CASE NotBuilt \/ ParseCapture \/ CreateServer \/ AttachServer
  BY <1>3 DEF NotBuilt, ParseCapture, ParsePipeline, CreateServer, AttachServer
<1>4. CASE SetPlaying
  <2>1. /\ code' \in {code, 1} /\ camera' \in {camera, "held", "abandoned"}
        /\ UNCHANGED <<caught, pending, bus, batch, sent, first>>
    BY <1>4 DEF SetPlaying
  <2> QED  BY <2>1
<1>5. CASE Iterate
  <2>1. Signals \subseteq SourceSet /\ "bus" \in SourceSet
    BY DEF SourceSet
  <2> QED  BY <1>5, <2>1 DEF Iterate
<1>6. CASE \E s \in StopSignals : QuitLoop(s)
  BY <1>6 DEF QuitLoop, Dispatch
<1>7. CASE OnBusMessage
  <2>1. Tail(bus) \in Seq(Messages)
    BY <1>7 DEF OnBusMessage, Dispatch, LoopInv
  <2>2. /\ bus' = Tail(bus) /\ code' \in {1, code}
        /\ batch' \subseteq batch /\ pending' \subseteq pending
        /\ UNCHANGED <<caught, camera, sent, first>>
    BY <1>7 DEF OnBusMessage, Dispatch, CodeAfter
  <2> QED  BY <2>1, <2>2
<1>8. CASE LeaveLoop \/ SetNull \/ Release
  <2>1. /\ camera' \in {camera, "free"}
        /\ UNCHANGED <<code, caught, pending, bus, batch, sent, first>>
    BY <1>8, Zenon DEF LeaveLoop, SetNull, Release
  <2> QED  BY <2>1
<1>9. CASE ElementPosts
  BY <1>9 DEF ElementPosts, Post, FirstOf
<1>10. CASE \E s \in Signals : Deliver(s)
  BY <1>10 DEF Deliver, FirstOf
<1>11. CASE UNCHANGED vars
  BY <1>11 DEF vars
<1> QED
  BY <1>2, <1>3, <1>4, <1>5, <1>6, <1>7, <1>8, <1>9, <1>10, <1>11
  DEF Next, Main, LoopStep, Environment, Finished

(* The process, its pipeline and its server stay at known places. *)
PlaceTypes == pc \in Pcs /\ capture \in CaptureStates /\ server \in ServerStates

LEMMA PlaceStep == PlaceTypes /\ [Next]_vars => PlaceTypes'
<1> SUFFICES ASSUME PlaceTypes, [Next]_vars PROVE PlaceTypes'
  OBVIOUS
<1> USE DEF PlaceTypes, Pcs, CaptureStates, ServerStates, Destroyed, Goto, rtsp, common
<1>1. CASE AddStopSources /\ UNCHANGED <<built, rtsp>>
  BY <1>1, Zenon DEF AddStopSources
<1>2. CASE NotBuilt \/ ParseCapture \/ CreateServer \/ AttachServer \/ SetPlaying
  BY <1>2, Zenon DEF NotBuilt, ParseCapture, ParsePipeline, CreateServer, AttachServer,
     SetPlaying
<1>3. CASE LoopStep /\ UNCHANGED <<built, rtsp>>
  BY <1>3, Zenon DEF LoopStep, Iterate, QuitLoop, OnBusMessage, LeaveLoop
<1>4. CASE SetNull \/ Release
  BY <1>4, Zenon DEF SetNull, Release
<1>5. CASE Environment
  BY <1>5, Zenon DEF Environment, ElementPosts, Deliver
<1>6. CASE UNCHANGED vars
  BY <1>6, Zenon DEF vars
<1> QED  BY <1>1, <1>2, <1>3, <1>4, <1>5, <1>6 DEF Next, Main, Finished

LEMMA LoopInvStep == LoopInv /\ CommonTypes /\ [Next]_vars => LoopInv'
<1> SUFFICES ASSUME LoopInv, CommonTypes, [Next]_vars PROVE LoopInv'
  OBVIOUS
<1> USE DEF LoopInv, Goto, common, loop
<1>1. CASE AddStopSources \/ LeaveLoop \/ SetNull \/ Release
  BY <1>1 DEF AddStopSources, LeaveLoop, SetNull, Release
<1>2. CASE NotBuilt \/ ParseCapture \/ CreateServer \/ AttachServer \/ SetPlaying
  BY <1>2 DEF NotBuilt, ParseCapture, ParsePipeline, CreateServer, AttachServer, SetPlaying
<1>3. CASE Iterate
  <2>1. "bus" \notin pending
    BY DEF CommonTypes, Signals, StopSignals
  <2> QED  BY <1>3, <2>1 DEF Iterate
<1>4. CASE OnBusMessage \/ \E s \in StopSignals : QuitLoop(s)
  BY <1>4 DEF QuitLoop, OnBusMessage, Dispatch
<1>5. CASE ElementPosts
  <2>1. bus' # <<>> /\ UNCHANGED <<pc, batch>>
    BY <1>5 DEF ElementPosts, Post, CommonTypes
  <2> QED  BY <2>1
<1>6. CASE \E s \in Signals : Deliver(s)
  BY <1>6, Zenon DEF Deliver
<1>7. CASE UNCHANGED vars
  BY <1>7 DEF vars
<1> QED
  BY <1>1, <1>2, <1>3, <1>4, <1>5, <1>6, <1>7
  DEF Next, Main, LoopStep, Environment, Finished

LEMMA CoreInvariant == Spec => [](TypeOK /\ LoopInv)
<1> DEFINE Core == FlagTypes /\ CommonTypes /\ PlaceTypes /\ LoopInv
<1>1. Init => Core
  <2> SUFFICES ASSUME Init PROVE Core
    OBVIOUS
  <2>1. FlagTypes
    BY Zenon DEF Init, CommonInit, FlagTypes
  <2>2. CommonTypes /\ PlaceTypes /\ LoopInv
    BY DEF Init, CommonInit, CommonTypes, PlaceTypes, LoopInv, Pcs, CaptureStates,
           ServerStates, Signals, Messages
  <2> QED  BY <2>1, <2>2
<1>2. Core /\ [Next]_vars => Core'
  BY FlagStep, CommonStep, PlaceStep, LoopInvStep
<1>3. Core => TypeOK /\ LoopInv
  BY Zenon DEF TypeOK, FlagTypes, PlaceTypes, Pcs
<1> QED  BY <1>1, <1>2, <1>3, PTL DEF Spec

(* Every variable keeps its type in every reachable state. *)
THEOREM TypeCorrect == Spec => []TypeOK
  BY CoreInvariant, PTL
-----------------------------------------------------------------------------
(***************************************************************************)
(* The capture pipeline and the camera, by where the process is; and the   *)
(* signals that have lost their source, or never had one.                  *)
(***************************************************************************)
Starting == {"sources", "parse", "server", "attach", "play"}

CaptureInv ==
    /\ pc \in Starting => camera = "free" /\ code = 0
    /\ pc \in {"server", "attach", "play", "release"} => capture = "NULL"
    /\ pc = "release" => camera = "free"
    /\ pc \in {"loop", "null"} => camera = "held"
    /\ pc = "done" /\ code = 0 => capture = "destroyed"
    /\ pc = "done" => camera = "free" \/ (camera = "abandoned" /\ code = 1
                                          /\ capture = "destroyed live")
    /\ camera = "held" => pc \in {"loop", "null"}
    /\ camera = "abandoned" => pc \in {"done", "killed"}

LEMMA CaptureStep == CaptureInv /\ [Next]_vars => CaptureInv'
<1> SUFFICES ASSUME CaptureInv, [Next]_vars PROVE CaptureInv'
  OBVIOUS
<1> USE DEF CaptureInv, Starting, Goto, rtsp, common
<1>1. CASE AddStopSources /\ UNCHANGED <<built, rtsp>>
  BY <1>1 DEF AddStopSources
<1>2. CASE NotBuilt
  BY <1>2 DEF NotBuilt
<1>3. CASE ParseCapture
  BY <1>3 DEF ParseCapture, ParsePipeline
<1>4. CASE CreateServer
  BY <1>4 DEF CreateServer
<1>5. CASE AttachServer
  BY <1>5 DEF AttachServer
<1>6. CASE SetPlaying
  <2>1. /\ pc = "play"
        /\ \/ pc' = "loop" /\ camera' = "held"
           \/ pc' = "done" /\ code' = 1 /\ UNCHANGED camera
           \/ /\ pc' = "done" /\ code' = 1
              /\ camera' = "abandoned" /\ capture' = "destroyed live"
    BY <1>6 DEF SetPlaying, Destroyed
  <2>2. camera = "free"
    BY <2>1
  <2>3. CASE pc' = "loop" /\ camera' = "held"
    BY <2>3
  <2>4. CASE pc' = "done" /\ code' = 1 /\ camera' = "free"
    <3>1. code' = 1
      BY <2>4, Zenon
    <3>2. code' # 0
      BY ONLY <3>1, SMT
    <3> QED  BY <2>4, <3>2, Zenon
  <2>5. CASE pc' = "done" /\ code' = 1 /\ camera' = "abandoned" /\ capture' = "destroyed live"
    <3>1. code' = 1
      BY <2>5, Zenon
    <3>2. code' # 0
      BY ONLY <3>1, SMT
    <3> QED  BY <2>5, <3>2, Zenon
  <2> QED  BY <2>1, <2>2, <2>3, <2>4, <2>5, Zenon
<1>7. CASE LoopStep /\ UNCHANGED <<built, rtsp>>
  <2>1. /\ pc = "loop" /\ pc' \in {"loop", "null"} /\ UNCHANGED <<camera, capture>>
    BY <1>7 DEF LoopStep, Iterate, QuitLoop, OnBusMessage, LeaveLoop, Dispatch
  <2> QED  BY <2>1
<1>8. CASE SetNull
  BY <1>8 DEF SetNull
<1>9. CASE Release
  BY <1>9 DEF Release, Destroyed
<1>10. CASE Environment
  <2>1. /\ pc \notin {"done", "killed"} /\ UNCHANGED <<code, capture>>
        /\ \/ UNCHANGED <<pc, camera>>
           \/ /\ pc' = "killed"
              /\ camera' = IF camera = "held" THEN "abandoned" ELSE camera
    BY <1>10 DEF Environment, ElementPosts, Deliver, Alive
  <2> QED  BY <2>1
<1>11. CASE UNCHANGED vars
  BY <1>11 DEF vars
<1> QED
  BY <1>1, <1>2, <1>3, <1>4, <1>5, <1>6, <1>7, <1>8, <1>9, <1>10, <1>11
  DEF Next, Main, Finished

SourceInv ==
    /\ pc = "sources" => caught = {}
    /\ pc \notin {"sources", "killed"} =>
          \A s \in StopSignals : s \in caught \/ sent[s] >= 1
    /\ \A s \in Signals : s \in pending \/ s \in batch => sent[s] >= 1
    /\ camera = "abandoned" /\ pc = "killed" =>
          sent["SIGUSR1"] >= 1 \/ \E s \in StopSignals : sent[s] >= 2

LEMMA SourceStep ==
    SourceInv /\ CaptureInv /\ CommonTypes /\ [Next]_vars => SourceInv'
<1> SUFFICES ASSUME SourceInv, CaptureInv, CommonTypes, [Next]_vars
             PROVE  SourceInv'
  OBVIOUS
<1> USE DEF Goto, common, loop
<1>0. ASSUME pc \notin {"sources", "killed"}, pc' \notin {"sources", "killed"},
             UNCHANGED <<caught, pending, batch, sent>>
      PROVE  SourceInv'
  BY <1>0 DEF SourceInv
<1>1. CASE AddStopSources
  BY <1>1 DEF AddStopSources, SourceInv
<1>2. CASE NotBuilt \/ ParseCapture \/ CreateServer \/ AttachServer
  BY <1>0, <1>2 DEF NotBuilt, ParseCapture, ParsePipeline, CreateServer, AttachServer
<1>3. CASE SetPlaying
  <2>1. /\ pc = "play" /\ pc' \in {"loop", "done"}
        /\ UNCHANGED <<caught, pending, batch, sent>>
    BY <1>3 DEF SetPlaying
  <2> QED  BY <1>0, <2>1
<1>4. CASE LeaveLoop \/ SetNull \/ Release
  BY <1>0, <1>4 DEF LeaveLoop, SetNull, Release
<1>5. CASE Iterate
  <2>1. "bus" \notin Signals
    BY DEF Signals, StopSignals
  <2> QED  BY <1>5, <2>1 DEF Iterate, SourceInv
<1>6. CASE \E s \in StopSignals : QuitLoop(s)
  <2> PICK s \in StopSignals : QuitLoop(s)
    BY <1>6
  <2>1. s \in Signals /\ s \in batch /\ pc = "loop"
    BY DEF QuitLoop, Dispatch, Signals
  <2>2. /\ pending' \subseteq pending /\ batch' \subseteq batch /\ caught' = caught \ {s}
        /\ UNCHANGED <<pc, camera, sent>>
    BY DEF QuitLoop, Dispatch
  <2> QED  BY <2>1, <2>2 DEF SourceInv
<1>7. CASE OnBusMessage
  <2>1. /\ pending' \subseteq pending /\ batch' \subseteq batch
        /\ UNCHANGED <<pc, caught, camera, sent>>
    BY <1>7 DEF OnBusMessage, Dispatch
  <2> QED  BY <2>1 DEF SourceInv
<1>8. CASE ElementPosts \/ UNCHANGED vars
  BY <1>8 DEF ElementPosts, vars, SourceInv
<1>9. CASE \E s \in Signals : Deliver(s)
  <2> PICK s \in Signals : Deliver(s)
    BY <1>9
  <2>1. /\ sent' = [sent EXCEPT ![s] = @ + 1] /\ pc \notin {"done", "killed"}
        /\ UNCHANGED <<caught, batch>>
    BY DEF Deliver, Alive
  <2>2. /\ sent'[s] = sent[s] + 1 /\ \A t \in Signals : sent'[t] >= sent[t]
        /\ \A t \in Signals : sent[t] \in Nat /\ sent'[t] \in Nat
    BY <2>1 DEF CommonTypes
  <2>3. StopSignals \subseteq Signals /\ Signals = StopSignals \cup {"SIGUSR1"}
    BY DEF Signals
  <2>4. CASE pending' = pending \cup {s} /\ UNCHANGED <<pc, camera>>
    BY <2>1, <2>2, <2>3, <2>4 DEF SourceInv
  <2>5. CASE /\ s \notin caught /\ pc' = "killed" /\ pending' = pending
             /\ camera' = IF camera = "held" THEN "abandoned" ELSE camera
    <3>1. CASE camera = "held"
      <4>1. pc \in {"loop", "null"}
        BY <3>1 DEF CaptureInv
      <4>2. s = "SIGUSR1" \/ (s \in StopSignals /\ sent[s] >= 1)
        BY <2>3, <2>5, <4>1 DEF SourceInv
      <4>3. sent'["SIGUSR1"] >= 1 \/ \E t \in StopSignals : sent'[t] >= 2
        BY <2>2, <4>2
      <4> QED  BY <2>1, <2>2, <2>5, <4>3 DEF SourceInv
    <3>2. CASE camera # "held"
      <4>1. camera' # "abandoned"
        BY <2>1, <2>5, <3>2 DEF CaptureInv
      <4> QED  BY <2>1, <2>2, <2>5, <4>1 DEF SourceInv
    <3> QED  BY <3>1, <3>2
  <2> QED  BY <2>4, <2>5 DEF Deliver
<1> QED
  BY <1>1, <1>2, <1>3, <1>4, <1>5, <1>6, <1>7, <1>8, <1>9
  DEF Next, Main, LoopStep, Environment, Finished

ServiceInv == TypeOK /\ CaptureInv /\ SourceInv

LEMMA ServiceInvariant == Spec => []ServiceInv
<1>1. Init => CaptureInv /\ SourceInv
  BY DEF Init, CommonInit, CaptureInv, SourceInv, Starting
<1>2. CaptureInv /\ SourceInv /\ TypeOK /\ [Next]_vars => (CaptureInv /\ SourceInv)'
  BY CaptureStep, SourceStep DEF TypeOK
<1>3. Spec => [](CaptureInv /\ SourceInv)
  BY <1>1, <1>2, TypeCorrect, PTL DEF Spec
<1> QED  BY <1>3, TypeCorrect, PTL DEF ServiceInv

(* However the loop ends, the capture pipeline is stopped before it is      *)
(* destroyed; a camera left behind has one of the three known causes.       *)
THEOREM ServedStops == Spec => []ServedIsStopped
<1>1. ServiceInv => ServedIsStopped
  <2> SUFFICES ASSUME ServiceInv PROVE ServedIsStopped
    OBVIOUS
  <2>1. pc = "done" /\ code = 0 => capture = "destroyed"
    BY DEF ServiceInv, CaptureInv
  <2>2. sent["SIGUSR1"] >= 1 => sent["SIGUSR1"] > 0
    BY DEF ServiceInv, TypeOK, CommonTypes, Signals
  <2>3. camera = "abandoned" =>
          \/ pc = "done" /\ code = 1 /\ capture = "destroyed live"
          \/ sent["SIGUSR1"] > 0
          \/ \E s \in StopSignals : sent[s] >= 2
    BY <2>2 DEF ServiceInv, CaptureInv, SourceInv
  <2> QED  BY <2>1, <2>3 DEF ServedIsStopped
<1> QED  BY <1>1, ServiceInvariant, PTL
-----------------------------------------------------------------------------
(* One step of the service is one step of CameraService. *)
ServiceStep == Service!Next \/ UNCHANGED Service!vars

LEMMA ServiceSimulates == ServiceInv /\ [Next]_vars => ServiceStep
<1> SUFFICES ASSUME ServiceInv, [Next]_vars PROVE ServiceStep
  OBVIOUS
<1> USE DEF ServiceStep, ServiceInv, Goto
<1>a. code \in {0, 1, 3} /\ camera \in {"free", "held", "abandoned"}
  BY DEF TypeOK, CommonTypes
<1>b. Service!Alive <=> pc \notin {"done", "killed"}
  BY <1>a DEF Service!Alive, Service!NoExit, ExitStatus
<1>0. ASSUME UNCHANGED <<camera, sent>>,
             \/ UNCHANGED <<pc, code>>
             \/ {pc, pc'} \cap {"sources", "done", "killed"} = {}
      PROVE  ServiceStep
  <2>1. UNCHANGED Asked
    BY <1>0 DEF Asked
  <2>2. UNCHANGED <<Listening, ExitStatus>>
    BY <1>0 DEF Listening, ExitStatus
  <2> QED  BY <1>0, <2>1, <2>2 DEF Service!vars
<1>1. CASE AddStopSources
  <2>1. /\ pc = "sources" /\ pc' = "parse" /\ UNCHANGED <<camera, sent>>
    BY <1>1 DEF AddStopSources
  <2>2. UNCHANGED Asked
    BY <2>1 DEF Asked
  <2>3. ~Listening /\ Listening' /\ ExitStatus = -1 /\ ExitStatus' = -1
    BY <2>1 DEF Listening, ExitStatus
  <2>4. Service!Listen
    BY <1>b, <2>1, <2>2, <2>3 DEF Service!Listen
  <2> QED  BY <2>4 DEF Service!Next, Service!Act
<1>2. ASSUME pc \notin {"sources", "done", "killed"}, pc' = "done",
             code' \in {0, 1, 3}, sent' = sent, camera = "free",
             camera' = "free" \/ (camera' = "abandoned" /\ code' = 1)
      PROVE  ServiceStep
  <2>1. UNCHANGED Asked
    BY <1>2 DEF Asked
  <2>2. Listening /\ Listening' /\ ExitStatus' = code'
    BY <1>2 DEF Listening, ExitStatus
  <2>3. CASE camera' = "free"
    <3>1. Service!Exit(code') /\ code' \in Service!Statuses
      BY <1>b, <1>2, <2>1, <2>2, <2>3 DEF Service!Exit, Service!Statuses
    <3> QED  BY <3>1 DEF Service!Next, Service!Act
  <2>4. CASE camera' = "abandoned" /\ code' = 1
    <3>1. Service!FailedStart
      BY <1>b, <1>2, <2>1, <2>2, <2>4 DEF Service!FailedStart
    <3> QED  BY <3>1 DEF Service!Next, Service!Act
  <2> QED  BY <1>2, <2>3, <2>4
<1>3. pc \in Starting \cup {"release"} => camera = "free"
  BY DEF CaptureInv
<1>4. CASE NotBuilt \/ ParseCapture \/ CreateServer \/ AttachServer
  <2>1. /\ pc \in Starting \ {"sources"} /\ UNCHANGED <<camera, sent>>
        /\ \/ pc' \in {"server", "attach", "play"}
           \/ pc' = "done" /\ code' \in {0, 1, 3}
    BY <1>4 DEF NotBuilt, ParseCapture, ParsePipeline, CreateServer, AttachServer, Starting
  <2> QED  BY <1>0, <1>2, <1>3, <2>1 DEF Starting
<1>5. CASE SetPlaying
  <2>1. /\ pc = "play" /\ camera = "free" /\ UNCHANGED sent
    BY <1>3, <1>5 DEF SetPlaying, Starting
  <2>2. CASE pc' = "loop" /\ camera' = "held"
    <3>1. UNCHANGED Asked
      BY <2>1 DEF Asked
    <3>2. Listening /\ Listening' /\ ExitStatus = -1 /\ ExitStatus' = -1
      BY <2>1, <2>2 DEF Listening, ExitStatus
    <3>3. Service!Claim
      BY <1>b, <2>1, <2>2, <3>1, <3>2 DEF Service!Claim
    <3> QED  BY <3>3 DEF Service!Next, Service!Act
  <2>3. CASE /\ pc' = "done" /\ code' = 1
             /\ camera' = "free" \/ camera' = "abandoned"
    BY <1>2, <2>1, <2>3
  <2> QED  BY <1>5, <2>1, <2>2, <2>3 DEF SetPlaying
<1>6. CASE Release
  <2>1. pc = "release" /\ pc' = "done" /\ UNCHANGED <<code, camera, sent>>
    BY <1>6 DEF Release
  <2> QED  BY <1>a, <1>2, <1>3, <2>1
<1>7. CASE SetNull
  <2>1. /\ pc = "null" /\ pc' = "release" /\ UNCHANGED sent
        /\ camera = "held" /\ camera' = "free"
    BY <1>7 DEF SetNull, CaptureInv
  <2>2. UNCHANGED Asked
    BY <2>1 DEF Asked
  <2>3. Listening /\ Listening' /\ ExitStatus = -1 /\ ExitStatus' = -1
    BY <2>1 DEF Listening, ExitStatus
  <2>4. Service!GiveBack
    BY <1>b, <2>1, <2>2, <2>3 DEF Service!GiveBack
  <2> QED  BY <2>4 DEF Service!Next, Service!Act
<1>8. CASE LoopStep
  <2>1. /\ pc = "loop" /\ pc' \in {"loop", "null"} /\ UNCHANGED <<camera, sent>>
    BY <1>8 DEF LoopStep, Iterate, QuitLoop, OnBusMessage, LeaveLoop, Dispatch
  <2> QED  BY <1>0, <2>1
<1>9. CASE ElementPosts \/ UNCHANGED vars
  <2>1. UNCHANGED <<pc, code, camera, sent>>
    BY <1>9, Zenon DEF ElementPosts, vars, common
  <2> QED  BY <1>0, <2>1
<1>10. CASE \E s \in Signals : Deliver(s)
  <2> PICK s \in Signals : Deliver(s)
    BY <1>10
  <2>1. /\ pc \notin {"done", "killed"} /\ UNCHANGED code
        /\ \A t \in Signals : sent'[t] = IF t = s THEN sent[t] + 1 ELSE sent[t]
        /\ \A t \in Signals : sent[t] \in Nat
    BY DEF Deliver, Alive, TypeOK, CommonTypes
  <2>2. StopSignals = {"SIGINT", "SIGTERM"} /\ Signals = {"SIGINT", "SIGTERM", "SIGUSR1"}
    BY DEF StopSignals, Signals
  <2>3. Asked' = Asked \cup ({s} \cap StopSignals)
    <3>1. \A t \in StopSignals : sent'[t] > 0 <=> sent[t] > 0 \/ t = s
      BY <2>1, <2>2
    <3>2. \A t \in StopSignals : t \in Asked' <=> t \in Asked \/ t = s
      BY <3>1 DEF Asked
    <3> QED  BY <3>2 DEF Asked
  <2>4. CASE s \in caught /\ UNCHANGED <<pc, camera>>
    <3>1. UNCHANGED <<Listening, ExitStatus, camera>>
      BY <2>1, <2>4 DEF Listening, ExitStatus
    <3>2. Listening
      BY <2>1, <2>4 DEF SourceInv, Listening
    <3>3. CASE s = "SIGUSR1"
      <4>1. UNCHANGED Asked
        BY <2>2, <2>3, <3>3
      <4> QED  BY <3>1, <4>1 DEF Service!vars
    <3>4. CASE s # "SIGUSR1"
      <4>1. s \in {"SIGINT", "SIGTERM"} /\ Asked' = Asked \cup {s}
        BY <2>2, <2>3, <3>4
      <4>2. Service!Stop(s)
        BY <1>b, <2>1, <3>1, <3>2, <4>1 DEF Service!Stop
      <4> QED  BY <4>1, <4>2 DEF Service!Next
    <3> QED  BY <3>3, <3>4
  <2>5. CASE /\ s \notin caught /\ pc' = "killed"
             /\ camera' = IF camera = "held" THEN "abandoned" ELSE camera
    <3>1. ~Listening' /\ ExitStatus' = Service!Killed
      BY <2>5 DEF Listening, ExitStatus, Service!Killed
    <3>2. ~Listening \/ s \in Asked \/ s = "SIGUSR1"
      <4>1. CASE pc = "sources"
        BY <4>1 DEF Listening
      <4>2. CASE pc # "sources" /\ s \in StopSignals
        BY <2>1, <2>5, <4>2 DEF SourceInv, Asked
      <4> QED  BY <2>2, <4>1, <4>2
    <3>3. Service!Die(s)
      BY <1>b, <2>1, <2>2, <2>3, <2>5, <3>1, <3>2 DEF Service!Die
    <3> QED  BY <2>2, <3>3 DEF Service!Next
  <2> QED  BY <2>4, <2>5 DEF Deliver
<1> QED
  BY <1>1, <1>4, <1>5, <1>6, <1>7, <1>8, <1>9, <1>10
  DEF Next, Main, Environment, Finished

(* The RTSP service keeps CameraService's promises except the two its       *)
(* constants give up: for any number of signals and messages.               *)
THEOREM RtspIsCameraService == Spec => ImplementsService
<1>1. Init => Service!Init
  <2> SUFFICES ASSUME Init PROVE Service!Init
    OBVIOUS
  <2>1. pc = "sources" /\ camera = "free" /\ \A s \in StopSignals : sent[s] = 0
    BY DEF Init, CommonInit, Signals
  <2>2. Asked = {}
    BY <2>1 DEF Asked
  <2> QED  BY <2>1, <2>2 DEF Service!Init, Service!NoExit, Listening, ExitStatus
<1>2. ServiceInv /\ [Next]_vars => [Service!Next]_(Service!vars)
  BY ServiceSimulates DEF ServiceStep
<1> QED
  BY <1>1, <1>2, ServiceInvariant, PTL DEF Spec, ImplementsService, Service!Spec
-----------------------------------------------------------------------------
(***************************************************************************)
(* The exit code, as in JetcamUdpProofs: an ERROR that comes first heads   *)
(* the bus until it is dispatched, and a stop signal that ends the loop is *)
(* dispatched in an iteration that has seen the bus.  Messages come only   *)
(* while the camera is held, so only in the loop and behind it.            *)
(***************************************************************************)
StopWaits == (pending \cup batch) \cap StopSignals # {}

ErrorAtHead ==
    /\ bus # <<>> /\ Head(bus) = "ERROR"
    /\ running \/ "bus" \in batch
    /\ batch \cap StopSignals # {} => "bus" \in batch

FirstInv ==
    /\ first = "none" => bus = <<>> /\ ~StopWaits
    /\ pc \in Starting => first \in {"none", "signal"}
    /\ pc = "loop" /\ ~running => first # "none"
    /\ pc = "null" => first # "none"
    /\ pc \in {"null", "release", "done"} /\ first = "ERROR" => code = 1
    /\ pc = "loop" /\ first = "ERROR" /\ code # 1 => ErrorAtHead

LEMMA FirstStep ==
    FirstInv /\ CaptureInv /\ LoopInv /\ CommonTypes /\ [Next]_vars => FirstInv'
<1> SUFFICES ASSUME FirstInv, CaptureInv, LoopInv, CommonTypes, [Next]_vars
             PROVE  FirstInv'
  OBVIOUS
<1>0. ASSUME UNCHANGED <<pc, code, bus, running, batch, pending, first>> PROVE FirstInv'
  BY <1>0 DEF FirstInv, StopWaits, ErrorAtHead
<1>1. CASE AddStopSources \/ NotBuilt \/ ParseCapture \/ CreateServer \/ AttachServer
  <2>1. /\ pc \in Starting /\ pc' \in Starting \cup {"done"}
        /\ UNCHANGED <<bus, running, batch, pending, first>>
    BY <1>1, Zenon DEF AddStopSources, NotBuilt, ParseCapture, ParsePipeline, CreateServer,
       AttachServer, Goto, loop, Starting
  <2> QED  BY <2>1 DEF FirstInv, StopWaits, Starting
<1>2. CASE SetPlaying
  <2>1. /\ pc \in Starting /\ UNCHANGED <<bus, batch, pending, first>>
        /\ (pc' = "loop" /\ running') \/ pc' = "done"
    BY <1>2, Zenon DEF SetPlaying, Goto, loop, Starting
  <2> QED  BY <2>1 DEF FirstInv, StopWaits, Starting
<1>3. CASE Iterate
  <2>1. "bus" \notin StopSignals
    BY DEF StopSignals
  <2> QED  BY <1>3, <2>1 DEF Iterate, FirstInv, StopWaits, ErrorAtHead, Starting
<1>4. CASE \E s \in StopSignals : QuitLoop(s)
  <2> PICK s \in StopSignals : QuitLoop(s)
    BY <1>4
  <2>1. /\ pc = "loop" /\ s \in batch /\ s # "bus"
        /\ batch' = batch \ {s} /\ pending' = pending \ {s} /\ running' = FALSE
        /\ UNCHANGED <<pc, code, bus, first>>
    BY DEF QuitLoop, Dispatch, StopSignals
  <2>2. first # "none"
    BY <2>1 DEF FirstInv, StopWaits
  <2> QED  BY <2>1, <2>2 DEF FirstInv, StopWaits, ErrorAtHead, Starting
<1>5. CASE OnBusMessage
  <2>1. /\ pc = "loop" /\ "bus" \in batch /\ code' = CodeAfter(Head(bus))
        /\ UNCHANGED <<pc, first>>
    BY <1>5 DEF OnBusMessage, Dispatch
  <2>2. first # "none"
    BY <2>1 DEF FirstInv, LoopInv
  <2>3. first = "ERROR" => code' = 1
    BY <2>1 DEF FirstInv, ErrorAtHead, CodeAfter
  <2> QED  BY <2>1, <2>2, <2>3 DEF FirstInv, Starting
<1>6. CASE LeaveLoop
  <2>1. /\ pc = "loop" /\ ~running /\ batch = {} /\ pc' = "null"
        /\ UNCHANGED <<code, bus, batch, pending, first>>
    BY <1>6, Zenon DEF LeaveLoop, loop
  <2> QED  BY <2>1 DEF FirstInv, StopWaits, ErrorAtHead, Starting
<1>7. CASE SetNull \/ Release
  <2>1. /\ pc \in {"null", "release"} /\ pc' \in {"release", "done"}
        /\ UNCHANGED <<code, bus, batch, pending, first>>
    BY <1>7, Zenon DEF SetNull, Release, Goto, loop
  <2> QED  BY <2>1 DEF FirstInv, StopWaits, Starting
<1>8. CASE ElementPosts
  <2> PICK m \in Messages : Post(m)
    BY <1>8 DEF ElementPosts
  <2>1. /\ pc \in {"loop", "null"} /\ UNCHANGED <<pc, code, running, batch, pending>>
        /\ bus' = Append(bus, m) /\ first' = FirstOf(m) /\ m # "none"
    BY <1>8 DEF ElementPosts, loop, CaptureInv, Post, Messages
  <2>2. bus' # <<>> /\ (bus # <<>> => Head(bus') = Head(bus)) /\ (bus = <<>> => Head(bus') = m)
    BY <2>1 DEF CommonTypes
  <2>3. CASE first # "none"
    <3>1. first' = first
      BY <2>1, <2>3 DEF FirstOf
    <3> QED  BY <2>1, <2>2, <2>3, <3>1 DEF FirstInv, ErrorAtHead, Starting
  <2>4. CASE first = "none"
    <3>1. pc = "loop" /\ running /\ bus = <<>> /\ first' = m /\ batch \cap StopSignals = {}
      BY <2>1, <2>4 DEF FirstInv, FirstOf, StopWaits
    <3> QED  BY <2>1, <2>2, <3>1 DEF FirstInv, ErrorAtHead, Starting
  <2> QED  BY <2>3, <2>4
<1>9. CASE \E s \in Signals : Deliver(s)
  <2> PICK s \in Signals : Deliver(s)
    BY <1>9
  <2>1. /\ UNCHANGED <<code, bus, running, batch>>
        /\ first' = IF s \in StopSignals THEN FirstOf("signal") ELSE first
        /\ \/ pending' = pending \cup {s} /\ UNCHANGED pc
           \/ pc' = "killed" /\ UNCHANGED pending
    BY DEF Deliver
  <2>2. \/ first' = first
        \/ first' = "signal" /\ first = "none" /\ s \in StopSignals
    BY <2>1 DEF FirstOf
  <2>3. s \notin StopSignals => (StopWaits' => StopWaits)
    BY <2>1 DEF StopWaits
  <2>4. s \in StopSignals => first' # "none"
    BY <2>1 DEF FirstOf
  <2> QED  BY <2>1, <2>2, <2>3, <2>4 DEF FirstInv, ErrorAtHead, Starting
<1>10. CASE UNCHANGED vars
  BY <1>0, <1>10, Zenon DEF vars, common, loop
<1> QED
  BY <1>1, <1>2, <1>3, <1>4, <1>5, <1>6, <1>7, <1>8, <1>9, <1>10
  DEF Next, Main, LoopStep, Environment, Finished

(* An ERROR that comes first decides the exit code of the RTSP service too. *)
THEOREM ErrorDecidesExitCode == Spec => []ErrorReachesExitCode
<1>1. Init => FirstInv
  BY DEF Init, CommonInit, FirstInv, StopWaits, Starting
<1>2. FirstInv => ErrorReachesExitCode
  BY DEF FirstInv, ErrorReachesExitCode
<1>3. ServiceInv => CaptureInv /\ CommonTypes
  BY DEF ServiceInv, TypeOK
<1> QED
  BY <1>1, <1>2, <1>3, FirstStep, ServiceInvariant, CoreInvariant, PTL DEF Spec
-----------------------------------------------------------------------------
(***************************************************************************)
(* How long a stop takes.  Left counts the steps the main thread can still *)
(* take once it has been asked to end: the way from each place to the      *)
(* exit, with the sources the current iteration still has to dispatch.     *)
(***************************************************************************)
Left ==
    CASE pc \in {"done", "killed"}                       -> 0
      [] pc = "release"                                  -> 1
      [] pc = "null"                                     -> 2
      [] pc = "loop" /\ ~running                         -> 3 + Cardinality(batch)
      [] pc = "loop" /\ running /\ batch # {}            -> 4 + Cardinality(batch)
      [] pc = "loop" /\ running /\ batch = {}            -> 9
      [] pc = "play"                                     -> 10
      [] pc = "attach"                                   -> 11
      [] pc = "server"                                   -> 12
      [] pc = "parse"                                    -> 13
      [] pc = "sources"                                  -> 14

(* A stop signal has been sent, the bus has a message, or the loop has     *)
(* been told to quit.                                                      *)
Ending ==
    \/ \E s \in StopSignals : sent[s] > 0
    \/ bus # <<>>
    \/ pc = "loop" /\ ~running
    \/ pc \in {"null", "release", "done", "killed"}

(* As long as the loop has not been told to quit, no stop signal has been  *)
(* forgotten.                                                              *)
AskInv ==
    pc \in Starting \/ (pc = "loop" /\ running) =>
        \A s \in StopSignals : sent[s] > 0 => s \in pending

LEMMA AskStep ==
    AskInv /\ SourceInv /\ CommonTypes /\ [Next]_vars => AskInv'
<1> SUFFICES ASSUME AskInv, SourceInv, CommonTypes, [Next]_vars PROVE AskInv'
  OBVIOUS
<1> USE DEF Goto, common, loop
<1>0. ASSUME pc' \notin Starting, ~(pc' = "loop" /\ running') PROVE AskInv'
  BY <1>0, Zenon DEF AskInv
<1>1. ASSUME pc \in Starting \/ (pc = "loop" /\ running), UNCHANGED <<pending, sent>>
      PROVE  AskInv'
  BY <1>1, Zenon DEF AskInv
<1>2. CASE AddStopSources \/ NotBuilt \/ ParseCapture \/ CreateServer \/ AttachServer
           \/ SetPlaying
  <2>1. pc \in Starting
    BY <1>2 DEF AddStopSources, NotBuilt, ParseCapture, ParsePipeline, CreateServer,
       AttachServer, SetPlaying, Starting
  <2>2. UNCHANGED <<pending, sent>>
    BY <1>2, Zenon DEF AddStopSources, NotBuilt, ParseCapture, ParsePipeline,
       CreateServer, AttachServer, SetPlaying
  <2> QED  BY <1>1, <2>1, <2>2, Zenon
<1>3. CASE Iterate
  BY <1>1, <1>3, Zenon DEF Iterate
<1>4. CASE OnBusMessage \/ \E s \in StopSignals : QuitLoop(s)
  <2>1. pc' = "loop" /\ ~running'
    BY <1>4, Zenon DEF OnBusMessage, QuitLoop, Dispatch
  <2> QED  BY <1>0, <2>1 DEF Starting
<1>5. CASE LeaveLoop \/ SetNull \/ Release
  <2>1. pc' \in {"null", "release", "done"}
    BY <1>5 DEF LeaveLoop, SetNull, Release
  <2> QED  BY <1>0, <2>1 DEF Starting
<1>6. CASE ElementPosts \/ UNCHANGED vars
  BY <1>6, Zenon DEF ElementPosts, vars, AskInv
<1>7. CASE \E s \in Signals : Deliver(s)
  <2> PICK s \in Signals : Deliver(s)
    BY <1>7
  <2>1. CASE pc' = "killed"
    BY <1>0, <2>1 DEF Starting
  <2>2. CASE pc' # "killed"
    <3>1. /\ pending' = pending \cup {s} /\ UNCHANGED <<pc, running>>
          /\ sent' = [sent EXCEPT ![s] = @ + 1]
      BY <2>2, Zenon DEF Deliver
    <3>2. \A t \in StopSignals : t # s => sent'[t] = sent[t]
      BY <3>1 DEF CommonTypes, Signals
    <3> QED  BY <3>1, <3>2, Zenon DEF AskInv
  <2> QED  BY <2>1, <2>2
<1> QED
  BY <1>2, <1>3, <1>4, <1>5, <1>6, <1>7
  DEF Next, Main, LoopStep, Environment, Finished

(* A batch has at most four sources. *)
LEMMA BatchSize ==
    ASSUME NEW B, B \subseteq SourceSet
    PROVE  IsFiniteSet(B) /\ Cardinality(B) \in 0 .. 4
<1> DEFINE A == {"SIGINT"}
           C == A \cup {"SIGTERM"}
           D == C \cup {"SIGUSR1"}
           E == D \cup {"bus"}
<1>1. IsFiniteSet(A) /\ Cardinality(A) = 1
  BY FS_Singleton
<1>2. IsFiniteSet(C) /\ Cardinality(C) = 2
  BY <1>1, FS_AddElement
<1>3. IsFiniteSet(D) /\ Cardinality(D) = 3
  BY <1>2, FS_AddElement
<1>4. IsFiniteSet(E) /\ Cardinality(E) = 4
  BY <1>3, FS_AddElement
<1>5. SourceSet = E
  BY DEF SourceSet, Signals, StopSignals
<1>6. IsFiniteSet(B) /\ Cardinality(B) <= 4
  BY <1>4, <1>5, FS_Subset
<1> QED  BY <1>6, FS_CardinalityType

\* the values of Left that its CASE gives
LeftFacts ==
    /\ pc \in {"done", "killed"} => Left = 0
    /\ pc = "release" => Left = 1
    /\ pc = "null" => Left = 2
    /\ pc = "loop" /\ ~running => Left = 3 + Cardinality(batch)
    /\ pc = "loop" /\ running /\ batch # {} => Left = 4 + Cardinality(batch)
    /\ pc = "loop" /\ running /\ batch = {} => Left = 9
    /\ pc = "play" => Left = 10
    /\ pc = "attach" => Left = 11
    /\ pc = "server" => Left = 12
    /\ pc = "parse" => Left = 13
    /\ pc = "sources" => Left = 14

LEMMA LeftAt == LeftFacts
  BY DEF LeftFacts, Left

(* Left is a number, and 0 when the process has ended. *)
LEMMA LeftRange ==
    ASSUME TypeOK, LeftFacts
    PROVE  /\ Left \in 0 .. 14
           /\ Left = 0 <=> pc \in {"done", "killed"}
<1>1. Cardinality(batch) \in 0 .. 4
  BY BatchSize DEF TypeOK, CommonTypes
<1>2. batch \subseteq SourceSet /\ pc \in Pcs
  BY DEF TypeOK, CommonTypes, Pcs
<1>3. \/ pc \in {"done", "killed"} /\ Left = 0
      \/ pc \notin {"done", "killed"} /\ Left \in 1 .. 14
  <2>1. CASE pc = "loop"
    BY <1>1, <2>1 DEF LeftFacts
  <2>2. CASE pc \in {"done", "killed", "release", "null"}
    BY <2>2 DEF LeftFacts
  <2>3. CASE pc \in {"play", "attach", "server", "parse", "sources"}
    BY <2>3 DEF LeftFacts
  <2> QED  BY <1>2, <2>1, <2>2, <2>3, Zenon DEF Pcs
<1> QED  BY <1>3

(* A reason to end stays one. *)
LEMMA EndingStays ==
    ASSUME Ending, CommonTypes, LoopInv, [Next]_vars PROVE Ending'
<1> USE DEF Goto, common, loop
<1>1. CASE NotBuilt \/ LeaveLoop \/ SetNull \/ Release
  <2>1. pc' \in {"null", "release", "done"}
    BY <1>1 DEF NotBuilt, LeaveLoop, SetNull, Release
  <2> QED  BY <2>1 DEF Ending
<1>2. CASE OnBusMessage \/ \E s \in StopSignals : QuitLoop(s)
  <2>1. pc' = "loop" /\ ~running'
    BY <1>2, Zenon DEF OnBusMessage, QuitLoop, Dispatch
  <2> QED  BY <2>1, Zenon DEF Ending
<1>3. CASE AddStopSources \/ ParseCapture \/ CreateServer \/ AttachServer \/ SetPlaying
  <2>1. pc \notin {"loop", "null", "release", "done", "killed"} /\ UNCHANGED <<bus, sent>>
    BY <1>3 DEF AddStopSources, ParseCapture, ParsePipeline, CreateServer,
       AttachServer, SetPlaying
  <2> QED  BY <2>1, Zenon DEF Ending
<1>4. CASE Iterate
  BY <1>4, Zenon DEF Iterate, Ending
<1>5. CASE ElementPosts
  <2>1. bus' # <<>>
    BY <1>5 DEF ElementPosts, Post, CommonTypes
  <2> QED  BY <2>1, Zenon DEF Ending
<1>6. CASE \E s \in Signals : Deliver(s)
  <2> PICK s \in Signals : Deliver(s)
    BY <1>6
  <2>1. CASE pc' = "killed"
    BY <2>1 DEF Ending
  <2>2. CASE pc' # "killed"
    <3>1. /\ UNCHANGED <<pc, running, bus>> /\ sent' = [sent EXCEPT ![s] = @ + 1]
      BY <2>2, Zenon DEF Deliver
    <3>2. \A t \in StopSignals : sent[t] > 0 => sent'[t] > 0
      BY <3>1 DEF CommonTypes, Signals
    <3> QED  BY <3>1, <3>2, Zenon DEF Ending
  <2> QED  BY <2>1, <2>2
<1>7. CASE UNCHANGED vars
  BY <1>7, Zenon DEF vars, Ending
<1> QED
  BY <1>1, <1>2, <1>3, <1>4, <1>5, <1>6, <1>7
  DEF Next, Main, LoopStep, Environment, Finished

(* A source dispatched is one less. *)
LEMMA DispatchShrinks ==
    ASSUME CommonTypes, NEW s, Dispatch(s)
    PROVE  /\ batch # {} /\ Cardinality(batch') = Cardinality(batch) - 1
           /\ Cardinality(batch) \in 0 .. 4 /\ pc = "loop"
<1>1. s \in batch /\ batch' = batch \ {s} /\ pc = "loop"
  BY DEF Dispatch
<1>2. IsFiniteSet(batch) /\ Cardinality(batch) \in 0 .. 4
  BY BatchSize DEF CommonTypes
<1>3. Cardinality(batch') = Cardinality(batch) - 1
  BY <1>1, <1>2, FS_RemoveElement
<1> QED  BY <1>1, <1>2, <1>3

(* Every step of the main thread is one step less. *)
LEMMA StepsCountDown ==
    ASSUME TypeOK, TypeOK', LoopInv, LoopInv', AskInv, LeftFacts, LeftFacts',
           Ending, Main
    PROVE  Left' < Left
<1> USE DEF Goto
<1>1. CASE AddStopSources
  <2>1. pc = "sources" /\ pc' = "parse"
    BY <1>1, Zenon DEF AddStopSources
  <2> QED  BY <2>1 DEF LeftFacts
<1>2. CASE NotBuilt \/ ParseCapture
  <2>1. pc = "parse" /\ pc' \in {"server", "done"}
    BY <1>2 DEF NotBuilt, ParseCapture, ParsePipeline
  <2> QED  BY <2>1 DEF LeftFacts
<1>3. CASE CreateServer
  <2>1. pc = "server" /\ pc' = "attach"
    BY <1>3, Zenon DEF CreateServer
  <2> QED  BY <2>1 DEF LeftFacts
<1>4. CASE AttachServer
  <2>1. pc = "attach" /\ pc' \in {"play", "done"}
    BY <1>4 DEF AttachServer
  <2> QED  BY <2>1 DEF LeftFacts
<1>5. CASE SetPlaying
  <2>1. CASE pc = "play" /\ pc' = "done"
    BY <2>1 DEF LeftFacts
  <2>2. CASE pc = "play" /\ pc' = "loop" /\ running' /\ batch' = batch
    <3>1. batch' = {}
      BY <2>2 DEF LoopInv
    <3> QED  BY <2>2, <3>1 DEF LeftFacts
  <2> QED  BY <1>5, <2>1, <2>2, Zenon DEF SetPlaying
<1>6. CASE Iterate
  <2>1. /\ pc = "loop" /\ running /\ batch = {} /\ UNCHANGED <<pc, running>>
        /\ batch' = pending \cup (IF bus = <<>> THEN {} ELSE {"bus"})
    BY <1>6, Zenon DEF Iterate, loop
  <2>2. batch' # {}
    <3>1. bus # <<>> \/ \E s \in StopSignals : sent[s] > 0
      BY <2>1 DEF Ending
    <3>2. bus # <<>> \/ \E s \in StopSignals : s \in pending
      BY <2>1, <3>1, Zenon DEF AskInv
    <3> QED  BY <2>1, <3>2
  <2>3. Cardinality(batch') \in 0 .. 4
    <3>1. batch' \subseteq SourceSet
      BY DEF TypeOK, CommonTypes
    <3> QED  BY <3>1, BatchSize
  <2> QED  BY <2>1, <2>2, <2>3 DEF LeftFacts
<1>7. CASE OnBusMessage \/ \E s \in StopSignals : QuitLoop(s)
  <2>1. PICK s : Dispatch(s)
    BY <1>7, Zenon DEF OnBusMessage, QuitLoop
  <2>2. pc' = "loop" /\ ~running'
    BY <1>7, Zenon DEF OnBusMessage, QuitLoop, Dispatch
  <2>3. /\ batch # {} /\ Cardinality(batch') = Cardinality(batch) - 1
        /\ Cardinality(batch) \in 0 .. 4 /\ pc = "loop"
    BY <2>1, DispatchShrinks DEF TypeOK
  <2>4. Left' = 3 + Cardinality(batch')
    BY <2>2, Zenon DEF LeftFacts
  <2>5. Left = 3 + Cardinality(batch) \/ Left = 4 + Cardinality(batch)
    BY <2>3, Zenon DEF LeftFacts
  <2> QED  BY <2>3, <2>4, <2>5
<1>8. CASE LeaveLoop
  <2>1. pc = "loop" /\ ~running /\ pc' = "null"
    BY <1>8, Zenon DEF LeaveLoop
  <2>2. Cardinality(batch) \in 0 .. 4
    BY BatchSize DEF TypeOK, CommonTypes
  <2> QED  BY <2>1, <2>2 DEF LeftFacts
<1>9. CASE SetNull
  <2>1. pc = "null" /\ pc' = "release"
    BY <1>9, Zenon DEF SetNull
  <2> QED  BY <2>1 DEF LeftFacts
<1>10. CASE Release
  <2>1. pc = "release" /\ pc' = "done"
    BY <1>10, Zenon DEF Release
  <2> QED  BY <2>1 DEF LeftFacts
<1> QED
  BY <1>1, <1>2, <1>3, <1>4, <1>5, <1>6, <1>7, <1>8, <1>9, <1>10
  DEF Main, LoopStep

(* Messages and signals add nothing to the way, though a signal may end it. *)
LEMMA OthersWait ==
    ASSUME TypeOK, LeftFacts, LeftFacts', [Next]_vars, ~Main PROVE Left' <= Left
<1>0. Left \in 0 .. 14
  BY LeftRange
<1>1. CASE pc' = "killed"
  <2>1. Left' = 0
    BY <1>1, Zenon DEF LeftFacts
  <2> QED  BY <1>0, <2>1
<1>2. CASE UNCHANGED <<pc, running, batch>>
  <2>1. Left' = Left
    BY <1>2, Zenon DEF Left
  <2> QED  BY <1>0, <2>1
<1>3. pc' = "killed" \/ UNCHANGED <<pc, running, batch>>
  <2>1. CASE ElementPosts
    BY <2>1, Zenon DEF ElementPosts, loop
  <2>2. CASE \E s \in Signals : Deliver(s)
    BY <2>2, Zenon DEF Deliver
  <2>3. CASE UNCHANGED vars
    BY <2>3, Zenon DEF vars, common, loop
  <2> QED  BY <2>1, <2>2, <2>3 DEF Next, Environment, Finished
<1> QED  BY <1>1, <1>2, <1>3

(* No stop signal and no message is forgotten: from any state in which the *)
(* service has been asked to end, its main thread takes at most 14 more    *)
(* steps, whatever arrives meanwhile, and has none left exactly when the   *)
(* process has ended.  With the scheduling that FairSpec assumes this is   *)
(* ServiceEnds.                                                            *)
THEOREM StopTakesBoundedSteps ==
    Spec => /\ [](Left \in 0 .. 14 /\ (Left = 0 <=> Ended))
            /\ [][Ending => /\ Ending' /\ Left' <= Left
                            /\ Main => Left' < Left]_vars
<1>1. Init => AskInv
  BY DEF Init, CommonInit, AskInv, Signals, StopSignals
<1>2. ServiceInv /\ AskInv /\ [Next]_vars => AskInv'
  BY AskStep DEF ServiceInv, TypeOK
<1>3. Spec => []AskInv
  BY <1>1, <1>2, ServiceInvariant, PTL DEF Spec
<1>4. TypeOK /\ LeftFacts => Left \in 0 .. 14 /\ (Left = 0 <=> Ended)
  BY LeftRange, Zenon DEF Ended, Alive
<1>5. TypeOK /\ TypeOK' /\ LoopInv /\ LoopInv' /\ AskInv /\ LeftFacts /\ LeftFacts'
      /\ [Next]_vars =>
        [Ending => /\ Ending' /\ Left' <= Left
                   /\ Main => Left' < Left]_vars
  <2> SUFFICES ASSUME TypeOK, TypeOK', LoopInv, LoopInv', AskInv, LeftFacts,
                      LeftFacts', [Next]_vars, Ending
               PROVE  Ending' /\ Left' <= Left /\ (Main => Left' < Left)
    BY Zenon
  <2>1. Ending'
    BY EndingStays DEF TypeOK
  <2>2. CASE Main
    <3>1. Left' < Left
      BY <2>2, StepsCountDown
    <3>2. Left \in 0 .. 14
      BY LeftRange
    <3>3. Left' \in 0 .. 14
      <4>1. (TypeOK /\ LeftFacts => Left \in 0 .. 14)'
        BY LeftRange, PTL
      <4> QED  BY <4>1
    <3> QED  BY <2>1, <3>1, <3>2, <3>3
  <2>3. CASE ~Main
    BY <2>1, <2>3, OthersWait
  <2> QED  BY <2>2, <2>3
<1> QED  BY <1>3, <1>4, <1>5, LeftAt, CoreInvariant, PTL DEF Spec
=============================================================================
