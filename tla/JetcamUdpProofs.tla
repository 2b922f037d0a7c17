-------------------------- MODULE JetcamUdpProofs ---------------------------
(***************************************************************************)
(* Proofs about JetcamUdp for any number of frames, signals and messages   *)
(* and any capacity of the encoder's queue.                                *)
(***************************************************************************)
EXTENDS JetcamUdp, FiniteSetTheorems, TLAPS

USE DEF NoFrame, Torn, NoReport

(* The Boolean variables keep their type. *)
LEMMA FlagStep == FlagTypes /\ [Next]_vars => FlagTypes'
<1> SUFFICES ASSUME FlagTypes, [Next]_vars PROVE FlagTypes'
  OBVIOUS
<1> USE DEF FlagTypes, Goto, Quiet, Elsewhere, common, loop, pipeline, counting,
            snapthread, requested
<1>1. CASE (AddStopSources \/ ParsePipeline("elements")) /\ Quiet
  BY <1>1, Zenon DEF AddStopSources, ParsePipeline
<1>2. CASE FindElements \/ Connect \/ SetPlaying
  BY <1>2, Zenon DEF FindElements, Connect, SetPlaying
<1>3. CASE Announce \/ OnSigusr1
  BY <1>3, Zenon DEF Announce, OnSigusr1, Dispatch, RequestSnapshot
<1>4. CASE LoopStep /\ Quiet
  BY <1>4, Zenon DEF LoopStep, Iterate, QuitLoop, OnBusMessage, LeaveLoop, Dispatch
<1>5. CASE SetNull \/ Join \/ Release \/ ReportStopped
  BY <1>5, Zenon DEF SetNull, Join, Release, ReportStopped
<1>6. CASE Produce \/ OnFrame
  BY <1>6, Zenon DEF Produce, OnFrame
<1>7. CASE SnapThread
  BY <1>7, Zenon DEF SnapThread, TakeFrame, PassValve, PullSample, OpenFile,
                     WriteFile, FlushFile, CloseValve, ReturnFlow
<1>8. CASE Environment
  BY <1>8, Zenon DEF Environment, ElementPosts, Deliver
<1>9. CASE UNCHANGED vars
  BY <1>9, Zenon DEF vars
<1> QED
  BY <1>1, <1>2, <1>3, <1>4, <1>5, <1>6, <1>7, <1>8, <1>9 DEF Next, Main, Finished

(* Nothing waits for its turn outside the loop, and the turn of the bus comes *)
(* only while there is a message.                                            *)
LoopInv ==
    /\ pc \notin {"loop", "killed"} => batch = {}
    /\ "bus" \in batch => bus # <<>>

(* What the loop and the signals share with the RTSP service keeps its type. *)
LEMMA CommonStep == CommonTypes /\ LoopInv /\ [Next]_vars => CommonTypes'
<1> SUFFICES ASSUME CommonTypes, LoopInv, [Next]_vars PROVE CommonTypes'
  OBVIOUS
<1> USE DEF CommonTypes, Goto, common, loop
<1>1. StopSignals \subseteq Signals /\ "SIGUSR1" \in Signals
  BY DEF Signals, StopSignals
<1>2. CASE AddStopSources \/ Connect
  BY <1>1, <1>2 DEF AddStopSources, Connect
<1>3. CASE ParsePipeline("elements") \/ FindElements \/ SetPlaying \/ Announce
  BY <1>3 DEF ParsePipeline, FindElements, SetPlaying, Announce
<1>4. CASE Iterate
  <2>1. Signals \subseteq SourceSet /\ "bus" \in SourceSet
    BY DEF SourceSet
  <2> QED  BY <1>4, <2>1 DEF Iterate
<1>5. CASE OnSigusr1 \/ \E s \in StopSignals : QuitLoop(s)
  BY <1>5 DEF OnSigusr1, QuitLoop, Dispatch
<1>6. CASE OnBusMessage
  <2>1. Tail(bus) \in Seq(Messages)
    BY <1>6 DEF OnBusMessage, Dispatch, LoopInv
  <2>2. /\ bus' = Tail(bus) /\ code' \in {1, code}
        /\ batch' \subseteq batch /\ pending' \subseteq pending
        /\ UNCHANGED <<caught, camera, sent, first>>
    BY <1>6 DEF OnBusMessage, Dispatch, CodeAfter
  <2> QED  BY <2>1, <2>2
<1>7. CASE LeaveLoop \/ SetNull \/ Join \/ Release \/ ReportStopped
  <2>1. /\ bus' \in {bus, <<>>} /\ camera' \in {camera, "free"}
        /\ UNCHANGED <<code, caught, pending, batch, sent, first>>
    BY <1>7, Zenon DEF LeaveLoop, SetNull, Join, Release, ReportStopped
  <2>2. <<>> \in Seq(Messages)
    OBVIOUS
  <2> QED  BY <2>1, <2>2, Zenon
<1>8. ASSUME NEW m \in Messages, Post(m),
             UNCHANGED <<code, caught, pending, batch, camera, sent>>
      PROVE  CommonTypes'
  BY <1>8 DEF Post, FirstOf
<1>9. CASE Produce
  <2>1. /\ UNCHANGED <<code, caught, pending, batch, camera, sent>>
        /\ Post("ERROR") \/ UNCHANGED <<bus, first>>
    BY <1>9, Zenon DEF Produce
  <2>2. "ERROR" \in Messages
    BY DEF Messages
  <2> QED  BY <1>8, <2>1, <2>2
<1>10. CASE ElementPosts
  BY <1>8, <1>10 DEF ElementPosts
<1>11. CASE \E s \in Signals : Deliver(s)
  BY <1>11 DEF Deliver, FirstOf
<1>12. CASE UNCHANGED common
  BY <1>12
<1>13. CASE OnFrame \/ SnapThread \/ UNCHANGED vars
  BY <1>12, <1>13, Zenon DEF SnapThread, ReturnFlow, OnFrame, TakeFrame, PassValve, PullSample,
     OpenFile, WriteFile, FlushFile, CloseValve, vars
<1> QED
  BY <1>2, <1>3, <1>4, <1>5, <1>6, <1>7, <1>9, <1>10, <1>11, <1>13
  DEF Next, Main, LoopStep, Environment, Finished

(* Both threads stay at known places. *)
LEMMA PlaceStep == PlaceTypes /\ [Next]_vars => PlaceTypes'
<1> SUFFICES ASSUME PlaceTypes, [Next]_vars PROVE PlaceTypes'
  OBVIOUS
<1> USE DEF PlaceTypes
<1>1. CASE (AddStopSources \/ ParsePipeline("elements")) /\ Quiet
  BY <1>1, Zenon DEF Pcs, Quiet, pipeline, snapthread,
     AddStopSources, ParsePipeline
<1>2. CASE FindElements \/ Connect \/ SetPlaying \/ Announce
  BY <1>2, Zenon DEF Pcs, Quiet, Goto, pipeline, snapthread,
     FindElements, Connect, SetPlaying, Announce
<1>3. CASE OnSigusr1 \/ (LoopStep /\ Quiet)
  BY <1>3, Zenon DEF Pcs, Quiet, pipeline, snapthread,
     OnSigusr1, LoopStep, Iterate, QuitLoop, OnBusMessage, LeaveLoop
<1>4. CASE SetNull \/ Join \/ Release \/ ReportStopped
  BY <1>4, Zenon DEF Pcs, Quiet, Goto, pipeline, snapthread,
     SetNull, Join, Release, ReportStopped
<1>5. CASE Produce \/ OnFrame
  BY <1>5, Zenon DEF common, pipeline, snapthread,
     Produce, OnFrame, vars
<1>6. CASE UNCHANGED vars
  BY <1>6 DEF vars, common, pipeline, snapthread
<1>7. CASE SnapThread
  BY <1>7, Zenon DEF SnapPcs, common,
     SnapThread, TakeFrame, PassValve, PullSample, OpenFile,
     WriteFile, FlushFile, CloseValve, ReturnFlow
<1>8. CASE Environment
  BY <1>8, Zenon DEF Pcs, Quiet, pipeline, snapthread,
     Environment, ElementPosts, Deliver
<1> QED
  BY <1>1, <1>2, <1>3, <1>4, <1>5, <1>6, <1>7, <1>8 DEF Next, Main, Finished

(* The frames and counts keep their types. *)
LEMMA FrameStep == FrameTypes /\ [Next]_vars => FrameTypes'
<1> SUFFICES ASSUME FrameTypes, [Next]_vars PROVE FrameTypes'
  OBVIOUS
<1> USE JetcamUdpAssumption DEF FrameTypes
<1>0. CASE UNCHANGED <<produced, frames, encodeq, stopped, snapq, current, photo, shots, requests>>
  BY <1>0
<1>1. CASE UNCHANGED <<pipeline, stopped, requested>>
  BY <1>0, <1>1, Zenon DEF pipeline, counting, snapthread, requested
<1>2. CASE Quiet \/ FindElements \/ Connect \/ SetPlaying \/ SetNull \/ Release
           \/ UNCHANGED vars
  BY <1>0, <1>2, Zenon DEF Quiet, FindElements, Connect, SetPlaying, SetNull, Release, vars,
     pipeline, counting, snapthread, requested
<1>3. CASE Announce \/ OnSigusr1
  <2>1. /\ requests' \in {requests, requests + 1}
        /\ UNCHANGED <<produced, frames, encodeq, stopped, snapq, current, photo, shots>>
    BY <1>3, Zenon DEF Announce, OnSigusr1, RequestSnapshot, requested, pipeline,
       counting, snapthread
  <2> QED  BY <2>1
<1>4. CASE Join
  <2>1. /\ snapq' = NoFrame /\ encodeq' = 0
        /\ UNCHANGED <<produced, frames, stopped, current, photo, shots, requests>>
    BY <1>4, Zenon DEF Join, snapthread, requested
  <2> QED  BY <2>1
<1>5. CASE ReportStopped
  <2>1. /\ stopped' = frames
        /\ UNCHANGED <<produced, frames, encodeq, snapq, current, photo, shots, requests>>
    BY <1>5, Zenon DEF ReportStopped, pipeline, counting, snapthread, requested
  <2> QED  BY <2>1
<1>6. CASE Produce
  <2>1. /\ produced' = Bounded(produced + 1)
        /\ encodeq' = IF encodeq < EncodeQueue THEN encodeq + 1 ELSE encodeq
        /\ snapq' \in {snapq, produced'}
        /\ UNCHANGED <<frames, stopped, current, photo, shots, requests>>
    BY <1>6, Zenon DEF Produce, snapthread, requested
  <2> QED  BY <2>1 DEF Bounded
<1>7. CASE OnFrame
  <2>1. /\ encodeq > 0 /\ encodeq' = encodeq - 1 /\ frames' = Bounded(frames + 1)
        /\ UNCHANGED <<produced, snapq, stopped, current, photo, shots, requests>>
    BY <1>7, Zenon DEF OnFrame, snapthread, requested
  <2> QED  BY <2>1 DEF Bounded
<1>8. CASE TakeFrame \/ PassValve \/ PullSample \/ OpenFile \/ CloseValve \/ ReturnFlow
  <2>1. /\ current' \in {current, snapq, NoFrame} /\ snapq' \in {snapq, NoFrame}
        /\ photo' \in {photo, Torn}
        /\ UNCHANGED <<produced, frames, encodeq, stopped, shots, requests>>
    BY <1>8, Zenon DEF TakeFrame, PassValve, PullSample, OpenFile, CloseValve,
       ReturnFlow, Elsewhere, counting, requested
  <2> QED  BY <2>1
<1>9. CASE WriteFile \/ FlushFile
  <2>1. /\ photo' \in {photo, current}
        /\ shots' \in {shots, Append(shots, current)}
        /\ UNCHANGED <<produced, frames, encodeq, stopped, snapq, current, requests>>
    BY <1>9, Zenon DEF WriteFile, FlushFile, Elsewhere, counting, requested
  <2>2. Append(shots, current) \in Seq(0 .. MaxFrames)
    OBVIOUS
  <2> QED  BY <2>1, <2>2
<1> QED
  BY <1>2, <1>3, <1>4, <1>5, <1>6, <1>7, <1>8, <1>9
  DEF Next, Main, SnapThread, Environment, Finished

(* Every action keeps batch and bus in step. *)
LEMMA LoopInvStep == LoopInv /\ CommonTypes /\ [Next]_vars => LoopInv'
<1> SUFFICES ASSUME LoopInv, CommonTypes, [Next]_vars PROVE LoopInv'
  OBVIOUS
<1> USE DEF LoopInv, Goto, common, loop
<1>1. CASE AddStopSources \/ Connect \/ ParsePipeline("elements") \/ FindElements
  BY <1>1, Zenon DEF AddStopSources, Connect, ParsePipeline, FindElements
<1>2. CASE SetPlaying \/ Announce \/ LeaveLoop
  BY <1>2, Zenon DEF SetPlaying, Announce, LeaveLoop
<1>3. CASE SetNull \/ Join \/ Release \/ ReportStopped
  BY <1>3 DEF SetNull, Join, Release, ReportStopped
<1>4. CASE Iterate
  <2>1. "bus" \notin pending
    BY DEF CommonTypes, Signals, StopSignals
  <2> QED  BY <1>4, <2>1 DEF Iterate
<1>5. CASE OnSigusr1 \/ OnBusMessage \/ \E s \in StopSignals : QuitLoop(s)
  BY <1>5 DEF OnSigusr1, QuitLoop, OnBusMessage, Dispatch
<1>6. ASSUME NEW m \in Messages, Post(m), UNCHANGED <<pc, batch>> PROVE LoopInv'
  <2>1. bus' # <<>>
    BY <1>6 DEF Post, CommonTypes
  <2> QED  BY <1>6, <2>1
<1>7. CASE Produce
  <2>1. /\ UNCHANGED <<pc, batch>>
        /\ Post("ERROR") \/ UNCHANGED bus
    BY <1>7, Zenon DEF Produce
  <2>2. "ERROR" \in Messages
    BY DEF Messages
  <2> QED  BY <1>6, <2>1, <2>2
<1>8. CASE ElementPosts
  BY <1>6, <1>8 DEF ElementPosts
<1>9. CASE \E s \in Signals : Deliver(s)
  BY <1>9, Zenon DEF Deliver
<1>10. CASE UNCHANGED common
  BY <1>10
<1>11. CASE OnFrame \/ SnapThread \/ UNCHANGED vars
  BY <1>10, <1>11, Zenon DEF SnapThread, ReturnFlow, OnFrame, TakeFrame, PassValve, PullSample,
     OpenFile, WriteFile, FlushFile, CloseValve, vars
<1> QED
  BY <1>1, <1>2, <1>3, <1>4, <1>5, <1>7, <1>8, <1>9, <1>11
  DEF Next, Main, LoopStep, Environment, Finished

(* The initial state is well typed. *)
LEMMA TypeInit == Init => TypeOK
<1> SUFFICES ASSUME Init PROVE TypeOK
  OBVIOUS
<1>1. FlagTypes
  BY Zenon DEF Init, CommonInit, FlagTypes
<1>2. CommonTypes
  BY DEF Init, CommonInit, CommonTypes, Signals, Messages
<1>3. PlaceTypes
  BY Zenon DEF Init, CommonInit, PlaceTypes, Pcs, SnapPcs
<1>4. FrameTypes
  BY JetcamUdpAssumption DEF Init, FrameTypes
<1> QED  BY <1>1, <1>2, <1>3, <1>4 DEF TypeOK

(* Types and the loop's batch together are inductive. *)
LEMMA CoreInvariant == Spec => [](TypeOK /\ LoopInv)
<1>1. Init => LoopInv
  BY Zenon DEF Init, CommonInit, LoopInv
<1>2. TypeOK /\ LoopInv /\ [Next]_vars => (TypeOK /\ LoopInv)'
  BY FlagStep, CommonStep, PlaceStep, FrameStep, LoopInvStep DEF TypeOK
<1> QED  BY <1>1, <1>2, TypeInit, PTL DEF Spec

(* Every variable keeps its type in every reachable state. *)
THEOREM TypeCorrect == Spec => []TypeOK
  BY CoreInvariant, PTL
-----------------------------------------------------------------------------
(***************************************************************************)
(* One photo per request.  A frame is past the valve only while the valve  *)
(* is open, an open valve is owed a photo, and the debt is paid between    *)
(* the write and the closing.                                              *)
(***************************************************************************)
PhotoInv ==
    /\ snappc \in {"pull", "open", "write", "flush", "close"} => ~drop
    /\ saved => snappc \in {"flush", "close", "return"}
    /\ ~drop /\ ~(snappc \in {"flush", "close"} /\ saved) => Len(shots) < requests
    /\ Len(shots) <= requests

LEMMA PhotoStep == PhotoInv /\ FrameTypes /\ [Next]_vars => PhotoInv'
<1> SUFFICES ASSUME PhotoInv, FrameTypes, [Next]_vars PROVE PhotoInv'
  OBVIOUS
<1>0. Len(shots) \in Nat /\ requests \in Nat
  BY DEF FrameTypes
<1>1. CASE UNCHANGED <<snappc, drop, saved, shots, requests>>
  BY <1>1 DEF PhotoInv
<1>2. CASE Quiet \/ FindElements \/ Connect \/ SetPlaying \/ SetNull \/ Join
           \/ Release \/ ReportStopped
  BY <1>1, <1>2, Zenon DEF Quiet, FindElements, Connect, SetPlaying, SetNull, Join,
     Release, ReportStopped, pipeline, snapthread, requested
<1>3. CASE Produce \/ OnFrame \/ UNCHANGED vars
  BY <1>1, <1>3, Zenon DEF Produce, OnFrame, vars, pipeline, snapthread, requested
<1>4. CASE Announce \/ OnSigusr1
  <2>1. CASE RequestSnapshot /\ UNCHANGED <<snappc, saved, shots>>
    BY <2>1, <1>0 DEF PhotoInv, RequestSnapshot
  <2> QED
    BY <1>1, <1>4, <2>1, Zenon DEF Announce, OnSigusr1, pipeline, snapthread, requested
<1>5. CASE TakeFrame
  BY <1>5 DEF TakeFrame, PhotoInv, requested
<1>6. CASE PassValve
  <2>1. /\ snappc = "valve" /\ UNCHANGED <<drop, saved, shots, requests>>
        /\ snappc' = "idle" \/ (~drop /\ snappc' = "pull")
    BY <1>6, Zenon DEF PassValve
  <2> QED  BY <2>1 DEF PhotoInv
<1>7. CASE PullSample
  BY <1>7 DEF PullSample, PhotoInv, requested
<1>8. CASE OpenFile
  <2>1. /\ snappc = "open" /\ UNCHANGED <<drop, saved, shots, requests>>
        /\ snappc' \in {"write", "close"}
    BY <1>8, Zenon DEF OpenFile, requested
  <2> QED  BY <2>1 DEF PhotoInv
<1>9. CASE WriteFile
  <2>1. /\ snappc = "write" /\ snappc' = "flush" /\ UNCHANGED <<drop, requests>>
        /\ \/ saved' = TRUE /\ shots' = IF Len(shots) > requests THEN shots
                                                          ELSE Append(shots, current)
           \/ UNCHANGED <<saved, shots>>
    BY <1>9, Zenon DEF WriteFile, requested
  <2>2. Len(Append(shots, current)) = Len(shots) + 1
    BY DEF FrameTypes
  <2> QED  BY <1>0, <2>1, <2>2 DEF PhotoInv
<1>10. CASE FlushFile
  <2>1. /\ snappc = "flush" /\ snappc' = "close"
        /\ UNCHANGED <<drop, saved, shots, requests>>
    BY <1>10, Zenon DEF FlushFile, requested
  <2> QED  BY <2>1 DEF PhotoInv
<1>11. CASE CloseValve
  BY <1>11 DEF CloseValve, PhotoInv
<1>12. CASE ReturnFlow
  <2>1. /\ snappc = "return" /\ snappc' \in {"idle", "stopped"} /\ saved' = FALSE
        /\ UNCHANGED <<drop, shots, requests>>
    BY <1>12, Zenon DEF ReturnFlow, requested
  <2> QED  BY <1>0, <2>1 DEF PhotoInv
<1> QED
  BY <1>2, <1>3, <1>4, <1>5, <1>6, <1>7, <1>8, <1>9, <1>10, <1>11, <1>12
  DEF Next, Main, SnapThread, Environment, Finished

LEMMA PhotoInvariant == Spec => []PhotoInv
<1>1. Init => PhotoInv
  BY DEF Init, PhotoInv
<1>2. PhotoInv /\ TypeOK /\ [Next]_vars => PhotoInv'
  BY PhotoStep DEF TypeOK
<1> QED  BY <1>1, <1>2, TypeCorrect, PTL DEF Spec

(* The file is torn only while it is written, and what fails there is not    *)
(* saved, so the callback returns an error; but for the last flush, which    *)
(* nobody sees.                                                              *)
TornInv ==
    /\ TornIsReported
    /\ snappc \in {"write", "flush"} => photo = Torn /\ ~unseen

LEMMA TornStep ==
    TornInv /\ PhotoInv /\ FrameTypes /\ [Next]_vars => TornInv'
<1> SUFFICES ASSUME TornInv, PhotoInv, FrameTypes, [Next]_vars
             PROVE  TornInv'
  OBVIOUS
<1> USE DEF TornInv
<1>0. CASE /\ UNCHANGED <<snappc, saved, photo, unseen, current>>
           /\ pc = "killed" => pc' = "killed"
  BY <1>0 DEF TornIsReported
<1>1. CASE Quiet /\ (AddStopSources \/ ParsePipeline("elements") \/ LoopStep)
  BY <1>0, <1>1, Zenon DEF Quiet, pipeline, snapthread, AddStopSources, ParsePipeline, LoopStep,
     Iterate, QuitLoop, OnBusMessage, LeaveLoop
<1>2. CASE FindElements \/ Connect \/ SetPlaying \/ Announce \/ OnSigusr1
  BY <1>0, <1>2, Zenon DEF FindElements, Connect, SetPlaying, Announce, OnSigusr1, Quiet,
     Dispatch, pipeline, snapthread
<1>3. CASE SetNull \/ Join \/ Release \/ ReportStopped
  BY <1>0, <1>3, Zenon DEF SetNull, Join, Release, ReportStopped, Quiet, pipeline, snapthread
<1>4. CASE Produce \/ OnFrame \/ UNCHANGED vars
  BY <1>0, <1>4, Zenon DEF Produce, OnFrame, vars, common, pipeline, snapthread
<1>5. CASE TakeFrame \/ PassValve \/ PullSample
  <2>1. /\ snappc \in {"idle", "valve", "pull"} /\ pc # "killed"
        /\ snappc' \in {"idle", "valve", "pull", "open", "stopped"}
        /\ UNCHANGED <<photo, unseen>>
    BY <1>5 DEF TakeFrame, PassValve, PullSample, Alive
  <2>2. photo = Torn => unseen
    BY <2>1 DEF TornIsReported
  <2>3. /\ photo' = Torn => unseen'
        /\ snappc' \notin {"write", "flush", "close", "return"}
        /\ unseen' => photo' = Torn
    BY <2>1, <2>2 DEF TornIsReported
  <2> QED  BY <2>3 DEF TornIsReported
<1>6. CASE OpenFile
  <2>1. /\ snappc = "open" /\ pc # "killed" /\ UNCHANGED saved
        /\ \/ snappc' = "write" /\ photo' = Torn /\ unseen' = FALSE
           \/ snappc' = "close" /\ UNCHANGED <<photo, unseen>>
    BY <1>6, Zenon DEF OpenFile, Alive
  <2>2. ~saved
    BY <2>1 DEF PhotoInv
  <2> QED  BY <2>1, <2>2 DEF TornIsReported
<1>7. CASE WriteFile
  <2>1. snappc = "write" /\ snappc' = "flush" /\ UNCHANGED <<photo, unseen>>
    BY <1>7, Zenon DEF WriteFile
  <2> QED  BY <2>1 DEF TornIsReported
<1>8. CASE FlushFile
  <2>1. /\ snappc = "flush" /\ snappc' = "close" /\ pc # "killed"
        /\ UNCHANGED <<saved, current>>
        /\ \/ saved /\ photo' = current /\ UNCHANGED unseen
           \/ saved /\ unseen' = TRUE /\ UNCHANGED photo
           \/ ~saved /\ UNCHANGED <<photo, unseen>>
    BY <1>8, Zenon DEF FlushFile, Alive
  <2>2. current # Torn
    BY DEF FrameTypes
  <2> QED  BY <2>1, <2>2 DEF TornIsReported
<1>9. CASE CloseValve
  <2>1. /\ snappc = "close" /\ snappc' = "return" /\ pc # "killed"
        /\ UNCHANGED <<saved, photo, unseen, current>>
    BY <1>9, Zenon DEF CloseValve, Alive
  <2> QED  BY <2>1 DEF TornIsReported
<1>10. CASE ReturnFlow
  <2>1. /\ snappc = "return" /\ pc # "killed" /\ UNCHANGED <<photo, unseen>>
        /\ snappc' = IF saved THEN "idle" ELSE "stopped"
    BY <1>10, Zenon DEF ReturnFlow, Alive
  <2>2. current # Torn
    BY DEF FrameTypes
  <2> QED  BY <2>1, <2>2 DEF TornIsReported
<1>11. CASE Environment
  BY <1>0, <1>11, Zenon DEF Environment, Quiet, pipeline, snapthread, ElementPosts, Deliver,
     Alive
<1> QED
  BY <1>1, <1>2, <1>3, <1>4, <1>5, <1>6, <1>7, <1>8, <1>9, <1>10, <1>11
  DEF Next, Main, SnapThread, Finished

(* Nobody is told of a torn snapshot_file, and a file announced as saved is  *)
(* not whole, only when the flush of the ofstream's destructor has failed.   *)
THEOREM TornIsAlwaysReported == Spec => []TornIsReported
<1>1. Init => TornInv
  BY DEF Init, TornInv, TornIsReported
<1>2. TornInv /\ PhotoInv /\ TypeOK /\ [Next]_vars => TornInv'
  BY TornStep DEF TypeOK
<1>3. TornInv => TornIsReported
  BY DEF TornInv
<1> QED  BY <1>1, <1>2, <1>3, TypeCorrect, PhotoInvariant, PTL DEF Spec

(* A frame on its way to the file is newer than every photo and older than   *)
(* the one that waits behind it.                                             *)
InHand == {"valve", "pull", "open", "write"}

Newer(frame) == \A i \in 1 .. Len(shots) : shots[i] < frame

Rising == \A i \in 1 .. Len(shots) - 1 : shots[i] < shots[i + 1]

OrderInv ==
    /\ Newer(produced + 1) /\ Rising
    /\ snapq # NoFrame => snapq <= produced /\ Newer(snapq)
    /\ snappc \in InHand =>
          /\ current \in 1 .. produced /\ Newer(current)
          /\ snapq # NoFrame => current < snapq

LEMMA OrderStep ==
    ASSUME ~Endless, OrderInv, FrameTypes, [Next]_vars PROVE OrderInv'
<1>0. CASE UNCHANGED <<produced, snapq, current, shots>> /\ snappc' \in {snappc, "idle", "flush", "close", "return", "stopped"}
  BY <1>0 DEF OrderInv, Newer, Rising, InHand
<1>1. CASE UNCHANGED <<produced, snapq, snapthread>>
  BY <1>0, <1>1, Zenon DEF snapthread
<1>2. CASE Quiet \/ FindElements \/ Connect \/ SetPlaying \/ Announce \/ OnSigusr1
           \/ SetNull \/ Release \/ ReportStopped \/ OnFrame \/ UNCHANGED vars
  BY <1>1, <1>2, Zenon DEF Quiet, FindElements, Connect, SetPlaying, Announce, OnSigusr1,
     SetNull, Release, ReportStopped, OnFrame, vars, pipeline
<1>3. CASE Join
  <2>1. snapq' = NoFrame /\ UNCHANGED <<produced, snappc, current, shots>>
    BY <1>3, Zenon DEF Join, snapthread
  <2> QED  BY <2>1 DEF OrderInv, Newer, Rising
<1>4. CASE Produce
  <2>1. /\ produced < MaxFrames
        /\ produced' = Bounded(produced + 1) /\ snapq' \in {snapq, produced'}
        /\ UNCHANGED <<snappc, current, shots>>
    BY <1>4, Zenon DEF Produce, snapthread
  <2>2. produced' = produced + 1
    BY <2>1, JetcamUdpAssumption DEF Bounded, FrameTypes
  <2>3. shots \in Seq(0 .. MaxFrames) /\ produced \in Nat /\ snapq \in Nat
    BY JetcamUdpAssumption DEF FrameTypes
  <2>4. \A i \in 1 .. Len(shots) : shots[i] \in Nat
    BY <2>3, JetcamUdpAssumption
  <2>5. Newer(produced + 1)' /\ Newer(produced)' /\ Rising'
    BY <2>1, <2>2, <2>3, <2>4 DEF OrderInv, Newer, Rising
  <2>6. snapq' # NoFrame => snapq' <= produced' /\ Newer(snapq)'
    BY <2>1, <2>2, <2>3, <2>5 DEF OrderInv, Newer
  <2>7. snappc' \in InHand =>
            /\ current' \in 1 .. produced' /\ Newer(current)'
            /\ snapq' # NoFrame => current' < snapq'
    BY <2>1, <2>2, <2>3 DEF OrderInv, Newer
  <2> QED  BY <2>5, <2>6, <2>7 DEF OrderInv
<1>5. CASE TakeFrame
  <2>1. /\ snapq # NoFrame /\ snapq' = NoFrame /\ current' = snapq
        /\ UNCHANGED <<produced, shots>>
    BY <1>5, Zenon DEF TakeFrame, Elsewhere
  <2> QED  BY <2>1 DEF OrderInv, Newer, Rising, FrameTypes
<1>6. CASE PassValve
  <2>1. /\ snappc = "valve" /\ UNCHANGED <<produced, snapq, shots>>
        /\ snappc' = "idle" \/ (snappc' = "pull" /\ current' = current)
    BY <1>6, Zenon DEF PassValve, Elsewhere
  <2> QED  BY <2>1 DEF OrderInv, Newer, Rising, InHand
<1>7. CASE PullSample \/ OpenFile
  <2>1. /\ snappc \in InHand /\ UNCHANGED <<produced, snapq, current, shots>>
    BY <1>7, Zenon DEF PullSample, OpenFile, Elsewhere, InHand
  <2> QED  BY <2>1 DEF OrderInv, Newer, Rising, InHand
<1>8. CASE WriteFile
  <2>1. /\ snappc = "write" /\ snappc' = "flush"
        /\ UNCHANGED <<produced, snapq, current>>
        /\ shots' \in {shots, Append(shots, current)}
    BY <1>8, Zenon DEF WriteFile, Elsewhere
  <2>2. CASE shots' = shots
    BY <1>0, <2>1, <2>2
  <2>3. CASE shots' = Append(shots, current)
    <3>1. /\ shots \in Seq(0 .. MaxFrames)
          /\ produced \in Nat /\ snapq \in Nat /\ current \in 0 .. MaxFrames
      BY JetcamUdpAssumption DEF FrameTypes
    <3>2. current \in 1 .. produced /\ Newer(current)
          /\ (snapq # NoFrame => current < snapq)
      BY <2>1 DEF OrderInv, InHand
    <3>3. /\ Len(shots') = Len(shots) + 1 /\ shots'[Len(shots) + 1] = current
          /\ \A i \in 1 .. Len(shots) : shots'[i] = shots[i]
      BY <2>3, <3>1
    <3>4. Rising'
      BY <3>1, <3>2, <3>3 DEF OrderInv, Newer, Rising
    <3>5. Newer(produced + 1)'
      BY <2>1, <3>1, <3>2, <3>3 DEF OrderInv, Newer
    <3>6. snapq # NoFrame => snapq <= produced /\ Newer(snapq)'
      BY <2>1, <3>1, <3>2, <3>3 DEF OrderInv, Newer
    <3> QED  BY <2>1, <3>4, <3>5, <3>6 DEF OrderInv, InHand
  <2> QED  BY <2>1, <2>2, <2>3
<1>9. CASE FlushFile \/ CloseValve \/ ReturnFlow
  <2>1. /\ snappc' \in {"idle", "close", "return", "stopped"}
        /\ UNCHANGED <<produced, snapq, shots>>
    BY <1>9 DEF FlushFile, CloseValve, ReturnFlow, Elsewhere
  <2> QED  BY <2>1 DEF OrderInv, Newer, Rising, InHand
<1> QED
  BY <1>2, <1>3, <1>4, <1>5, <1>6, <1>7, <1>8, <1>9
  DEF Next, Main, SnapThread, Environment, Finished

(* Every request is good for one photo at most, and photos are taken in the *)
(* order of their frames (for a camera whose frames are told apart).        *)
THEOREM PhotosMatchRequests == ~Endless => (Spec => []OnePhotoPerRequest)
<1> SUFFICES ASSUME ~Endless PROVE Spec => []OnePhotoPerRequest
  OBVIOUS
<1>1. Init => OrderInv
  BY DEF Init, OrderInv, Newer, Rising, InHand
<1>2. OrderInv /\ TypeOK /\ [Next]_vars => OrderInv'
  BY OrderStep DEF TypeOK
<1>3. PhotoInv /\ OrderInv => OnePhotoPerRequest
  BY DEF PhotoInv, OrderInv, Rising, OnePhotoPerRequest
<1> QED  BY <1>1, <1>2, <1>3, TypeCorrect, PhotoInvariant, PTL DEF Spec
-----------------------------------------------------------------------------
(***************************************************************************)
(* The cleanup.  Before PLAYING nothing has left the main thread; between  *)
(* set_state(NULL) and the join the source is silent, so that once the     *)
(* snapshot thread has left its callback the pipeline stays empty.         *)
(***************************************************************************)
Starting == {"sources", "parse", "elements", "connect", "play"}

Empty ==
    /\ snappc \in {"idle", "stopped"}
    /\ ~streaming /\ encodeq = 0 /\ snapq = NoFrame
    /\ camera = "free"

ReleaseInv ==
    /\ pc \in Starting => Empty /\ snappc = "idle"
    /\ pc = "join" => ~streaming
    /\ pc \in {"release", "report", "done"} => Empty
    /\ pc \notin {"done", "killed"} => stopped = NoReport
    /\ pc = "done" => stopped \in {NoReport, frames}

LEMMA ReleaseStep == ReleaseInv /\ [Next]_vars => ReleaseInv'
<1> SUFFICES ASSUME ReleaseInv, [Next]_vars PROVE ReleaseInv'
  OBVIOUS
<1>0. CASE /\ UNCHANGED <<pc, snappc, streaming, encodeq, snapq, camera, stopped, frames>>
  BY <1>0 DEF ReleaseInv, Empty
<1>1. ASSUME UNCHANGED <<snappc, streaming, encodeq, snapq, camera, stopped, frames>>,
             \/ pc \in Starting /\ pc' \in Starting \cup {"done", "null"}
             \/ pc \in {"play", "announce"} /\ pc' = "loop"
             \/ pc = "loop" /\ pc' = "null"
             \/ pc = "null" /\ pc' = "null"
             \/ pc = "release" /\ pc' = "report"
      PROVE  ReleaseInv'
  BY <1>1 DEF ReleaseInv, Empty, Starting
<1>2. CASE (AddStopSources \/ ParsePipeline("elements")) /\ Quiet
  BY <1>1, <1>2 DEF AddStopSources, ParsePipeline, Quiet, pipeline, counting, snapthread,
     Starting
<1>3. CASE FindElements \/ Connect \/ Announce \/ Release
  BY <1>1, <1>3 DEF FindElements, Connect, Announce, Release, Goto, Quiet, pipeline,
     counting, snapthread, Starting
<1>4. CASE SetPlaying
  <2>1. pc = "play" /\ pc' \in {"announce", "null"} /\ UNCHANGED stopped
    BY <1>4, Zenon DEF SetPlaying, Goto
  <2> QED  BY <2>1 DEF ReleaseInv, Starting
<1>5. CASE OnSigusr1 \/ (Quiet /\ (Iterate \/ OnBusMessage \/ \E s \in StopSignals : QuitLoop(s)))
  BY <1>0, <1>5, Zenon DEF OnSigusr1, Iterate, OnBusMessage, QuitLoop, Quiet, pipeline,
     counting, snapthread
<1>6. CASE LeaveLoop /\ Quiet
  BY <1>1, <1>6, Zenon DEF LeaveLoop, Quiet, pipeline, counting, snapthread
<1>7. CASE SetNull
  <2>1. pc = "null" /\ pc' = "join" /\ streaming' = FALSE /\ UNCHANGED stopped
    BY <1>7, Zenon DEF SetNull, Goto
  <2> QED  BY <2>1 DEF ReleaseInv, Starting
<1>8. CASE Join
  <2>1. /\ pc = "join" /\ pc' = "release" /\ snappc \in {"idle", "stopped"}
        /\ camera' = "free" /\ snapq' = NoFrame /\ encodeq' = 0
        /\ UNCHANGED <<streaming, snappc, stopped>>
    BY <1>8, Zenon DEF Join, snapthread
  <2> QED  BY <2>1 DEF ReleaseInv, Empty, Starting
<1>9. CASE ReportStopped
  <2>1. /\ pc = "report" /\ pc' = "done" /\ stopped' = frames
        /\ UNCHANGED <<streaming, encodeq, frames, snapq, snappc, camera>>
    BY <1>9, Zenon DEF ReportStopped, Goto, pipeline, counting, snapthread
  <2> QED  BY <2>1 DEF ReleaseInv, Empty, Starting
<1>10. ASSUME pc \notin Starting \cup {"release", "report", "done"}, streaming' => streaming,
              UNCHANGED <<pc, stopped>>
       PROVE  ReleaseInv'
  BY <1>10 DEF ReleaseInv
<1>11. CASE Produce
  <2>1. streaming /\ Alive /\ UNCHANGED <<pc, stopped>> /\ (streaming' => streaming)
    BY <1>11, Zenon DEF Produce
  <2> QED  BY <1>10, <2>1 DEF ReleaseInv, Empty
<1>12. CASE OnFrame
  <2>1. Alive /\ encodeq > 0 /\ UNCHANGED <<pc, stopped, streaming>>
    BY <1>12, Zenon DEF OnFrame, common
  <2>2. encodeq # 0
    BY <2>1
  <2> QED  BY <1>10, <2>1, <2>2 DEF ReleaseInv, Empty
<1>13. CASE TakeFrame
  <2>1. snapq # NoFrame /\ UNCHANGED <<pc, stopped, streaming>>
    BY <1>13, Zenon DEF TakeFrame, common, Elsewhere
  <2> QED  BY <1>10, <1>13, <2>1 DEF ReleaseInv, Empty, TakeFrame, Alive
<1>14. CASE PassValve \/ PullSample \/ OpenFile \/ WriteFile \/ FlushFile \/ CloseValve \/ ReturnFlow
  <2>1. /\ snappc \in {"valve", "pull", "open", "write", "flush", "close", "return"}
        /\ UNCHANGED <<pc, stopped, streaming>>
    BY <1>14, Zenon DEF PassValve, PullSample, OpenFile, WriteFile, FlushFile, CloseValve, ReturnFlow,
       common, Elsewhere
  <2> QED  BY <1>10, <2>1 DEF ReleaseInv, Empty
<1>15. CASE Environment
  <2>1. /\ UNCHANGED <<snappc, streaming, encodeq, snapq, stopped, frames>>
        /\ \/ pc' = "killed"
           \/ UNCHANGED <<pc, camera>>
    BY <1>15, Zenon DEF Environment, ElementPosts, Deliver, Quiet, pipeline, counting,
       snapthread
  <2> QED  BY <1>0, <2>1 DEF ReleaseInv, Starting
<1>16. CASE UNCHANGED vars
  BY <1>0, <1>16, Zenon DEF vars, common, pipeline, counting, snapthread
<1> QED
  BY <1>2, <1>3, <1>4, <1>5, <1>6, <1>7, <1>8, <1>9, <1>11, <1>12, <1>13, <1>14, <1>15, <1>16
  DEF Next, Main, LoopStep, SnapThread, Environment, Finished

LEMMA ReleaseInvariant == Spec => []ReleaseInv
<1>1. Init => ReleaseInv
  BY DEF Init, CommonInit, ReleaseInv, Empty
<1> QED  BY <1>1, ReleaseStep, PTL DEF Spec

(* Whatever the cleanup releases, no thread of the pipeline can still use it. *)
THEOREM CleanupIsQuiet == Spec => []ReleasedQuietly
<1>1. ReleaseInv => ReleasedQuietly
  BY Zenon DEF ReleaseInv, Empty, ReleasedQuietly
<1> QED  BY <1>1, ReleaseInvariant, PTL
-----------------------------------------------------------------------------
(***************************************************************************)
(* Stop signals.  While the camera is held, a signal without a source is a *)
(* stop signal whose source has been dispatched, so one was sent before.   *)
(***************************************************************************)
SourceInv ==
    /\ pc \in {"parse", "elements", "connect"} => StopSignals \subseteq caught
    /\ pc = "play" => caught = Signals
    /\ \A s \in Signals : s \in pending \cup batch => sent[s] >= 1
    /\ camera = "held" =>
          \A s \in Signals : s \notin caught => s \in StopSignals /\ sent[s] >= 1
    /\ camera = "abandoned" =>
          pc = "killed" /\ \E s \in StopSignals : sent[s] >= 2

LEMMA SourceStep == SourceInv /\ CommonTypes /\ [Next]_vars => SourceInv'
<1> SUFFICES ASSUME SourceInv, CommonTypes, [Next]_vars PROVE SourceInv'
  OBVIOUS
<1>0. CASE UNCHANGED <<pc, caught, pending, batch, camera, sent>>
  BY <1>0 DEF SourceInv
<1>1. CASE AddStopSources
  BY <1>1 DEF AddStopSources, SourceInv, loop
<1>2. ASSUME pc # "killed", UNCHANGED <<caught, pending, batch, sent>>,
             camera' \in {camera, "free"},
             pc' \in {"elements", "connect"} => pc \in {"parse", "elements"},
             pc' \notin {"parse", "play"}
      PROVE  SourceInv'
  BY <1>2 DEF SourceInv
<1>3. CASE ParsePipeline("elements") \/ FindElements \/ LeaveLoop \/ Announce \/ SetNull
           \/ Join \/ Release \/ ReportStopped
  BY <1>2, <1>3, Zenon DEF ParsePipeline, FindElements, LeaveLoop, Announce, SetNull, Join,
     Release, ReportStopped, Goto, loop
<1>4. CASE Connect
  <2>1. caught' = Signals
    BY <1>4 DEF Connect, SourceInv, CommonTypes, Signals
  <2> QED  BY <1>4, <2>1 DEF Connect, SourceInv, loop
<1>5. CASE SetPlaying
  <2>1. /\ pc = "play" /\ pc' \in {"announce", "null"} /\ camera' = "held"
        /\ UNCHANGED <<caught, pending, batch, sent>>
    BY <1>5, Zenon DEF SetPlaying, Goto, loop
  <2> QED  BY <2>1 DEF SourceInv
<1>6. CASE Iterate
  <2>1. "bus" \notin Signals
    BY DEF Signals, StopSignals
  <2> QED  BY <1>6, <2>1 DEF Iterate, SourceInv
<1>7. CASE \E s \in StopSignals : QuitLoop(s)
  <2> PICK s \in StopSignals : QuitLoop(s)
    BY <1>7
  <2>1. s \in Signals /\ s \in batch /\ pc = "loop"
    BY DEF QuitLoop, Dispatch, Signals
  <2>2. /\ pending' \subseteq pending /\ batch' \subseteq batch /\ caught' = caught \ {s}
        /\ UNCHANGED <<pc, camera, sent>>
    BY DEF QuitLoop, Dispatch
  <2> QED  BY <2>1, <2>2 DEF SourceInv
<1>8. CASE OnSigusr1 \/ OnBusMessage
  <2>1. /\ pending' \subseteq pending /\ batch' \subseteq batch
        /\ UNCHANGED <<pc, caught, camera, sent>>
    BY <1>8 DEF OnSigusr1, OnBusMessage, Dispatch
  <2> QED  BY <2>1 DEF SourceInv
<1>9. CASE \E s \in Signals : Deliver(s)
  <2> PICK s \in Signals : Deliver(s)
    BY <1>9
  <2>1. /\ sent' = [sent EXCEPT ![s] = @ + 1] /\ pc # "killed"
        /\ UNCHANGED <<caught, batch>>
    BY DEF Deliver, Alive
  <2>2. /\ sent'[s] = sent[s] + 1 /\ \A t \in Signals : sent'[t] >= sent[t]
        /\ \A t \in Signals : sent[t] \in Nat /\ sent'[t] \in Nat
    BY <2>1 DEF CommonTypes
  <2>3. CASE pending' = pending \cup {s} /\ UNCHANGED <<pc, camera>>
    BY <2>1, <2>2, <2>3 DEF SourceInv
  <2>4. CASE /\ s \notin caught /\ pc' = "killed" /\ pending' = pending
             /\ camera' = IF camera = "held" THEN "abandoned" ELSE camera
    <3>1. camera = "held" => s \in StopSignals /\ sent'[s] >= 2
      BY <2>2, <2>4 DEF SourceInv
    <3> QED  BY <2>1, <2>2, <2>4, <3>1 DEF SourceInv
  <2> QED  BY <2>3, <2>4 DEF Deliver
<1>10. CASE Produce \/ OnFrame \/ SnapThread \/ ElementPosts \/ UNCHANGED vars
  BY <1>0, <1>10, Zenon DEF Produce, OnFrame, SnapThread, TakeFrame, PassValve, PullSample,
     OpenFile, WriteFile, FlushFile, CloseValve, ReturnFlow, ElementPosts, vars, common, loop
<1> QED
  BY <1>1, <1>3, <1>4, <1>5, <1>6, <1>7, <1>8, <1>9, <1>10
  DEF Next, Main, LoopStep, Environment, Finished

(* The camera is abandoned only on the second signal of one kind. *)
THEOREM OneStopIsSafe == Spec => []AbandonedNeedsTwo
<1>1. Init => SourceInv
  BY DEF Init, CommonInit, SourceInv
<1>2. SourceInv /\ TypeOK /\ [Next]_vars => SourceInv'
  BY SourceStep DEF TypeOK
<1>3. SourceInv => AbandonedNeedsTwo
  BY DEF SourceInv, AbandonedNeedsTwo
<1> QED  BY <1>1, <1>2, <1>3, TypeCorrect, PTL DEF Spec
-----------------------------------------------------------------------------
(***************************************************************************)
(* The exit code.  An ERROR that comes first stands at the head of the bus *)
(* until it is dispatched, and the loop cannot be left before that: a stop *)
(* signal that ends it is dispatched in an iteration that has seen the bus.*)
(***************************************************************************)
Ending == {"null", "join", "release", "report", "done"}

StopWaits == (pending \cup batch) \cap StopSignals # {}

ErrorAtHead ==
    /\ pc \in {"announce", "loop"}
    /\ bus # <<>> /\ Head(bus) = "ERROR"
    /\ pc = "loop" => running \/ "bus" \in batch
    /\ batch \cap StopSignals # {} => "bus" \in batch

FirstInv ==
    /\ first = "none" => bus = <<>> /\ ~StopWaits
    /\ pc = "loop" /\ ~running => first # "none"
    /\ pc \in Ending /\ first \in {"none", "ERROR"} => code = 1
    /\ first = "ERROR" /\ code # 1 /\ pc # "killed" => ErrorAtHead

\* what the step of FirstInv needs of the other invariants
Support == CommonTypes /\ PlaceTypes /\ LoopInv /\ ReleaseInv

LEMMA FirstPost ==
    ASSUME FirstInv, Support, NEW m \in Messages, Post(m), pc \notin Starting \cup {"killed"},
           UNCHANGED <<pc, code, running, batch, pending>>
    PROVE  FirstInv'
<1>1. /\ bus' = Append(bus, m) /\ first' = FirstOf(m) /\ first' # "none"
  BY DEF Post, FirstOf, Messages
<1>2. bus' # <<>> /\ (bus # <<>> => Head(bus') = Head(bus)) /\ (bus = <<>> => Head(bus') = m)
  BY <1>1 DEF Support, CommonTypes
<1>3. pc \in {"announce", "loop"} \cup Ending
  BY DEF Support, PlaceTypes, Pcs, Starting, Ending
<1>4. CASE first # "none"
  <2>1. first' = first
    BY <1>1, <1>4 DEF FirstOf
  <2> QED  BY <1>1, <1>2, <2>1 DEF FirstInv, ErrorAtHead
<1>5. CASE first = "none"
  <2>1. first' = m /\ bus = <<>> /\ ~StopWaits /\ "bus" \notin batch
    BY <1>1, <1>5 DEF FirstOf, FirstInv, Support, LoopInv
  <2>2. pc = "loop" => running
    BY <1>5 DEF FirstInv
  <2>3. pc \in Ending => code = 1
    BY <1>5 DEF FirstInv
  <2>4. batch \cap StopSignals = {}
    BY <2>1 DEF StopWaits
  <2> QED  BY <1>1, <1>2, <1>3, <2>1, <2>2, <2>3, <2>4 DEF FirstInv, ErrorAtHead
<1> QED  BY <1>4, <1>5

LEMMA FirstStep == FirstInv /\ Support /\ [Next]_vars => FirstInv'
<1> SUFFICES ASSUME FirstInv, Support, [Next]_vars PROVE FirstInv'
  OBVIOUS
<1>0. CASE UNCHANGED <<pc, code, bus, running, batch, pending, first>>
  BY <1>0 DEF FirstInv, StopWaits, ErrorAtHead
<1>1. ASSUME UNCHANGED <<bus, running, batch, pending, first>>, pc \in Starting,
             \/ pc' \in Starting \cup {"announce"} /\ code' = code
             \/ pc' \in {"done", "null"} /\ code' = 1
      PROVE  FirstInv'
  BY <1>1 DEF FirstInv, StopWaits, ErrorAtHead, Starting, Ending
<1>2. CASE AddStopSources \/ ParsePipeline("elements") \/ FindElements \/ Connect \/ SetPlaying
  BY <1>1, <1>2, Zenon DEF AddStopSources, ParsePipeline, FindElements, Connect, SetPlaying,
     Goto, loop, Starting
<1>3. CASE Announce
  <2>1. /\ pc = "announce" /\ pc' = "loop" /\ running' = TRUE
        /\ UNCHANGED <<code, bus, batch, pending, first>>
    BY <1>3, Zenon DEF Announce
  <2> QED  BY <2>1 DEF FirstInv, StopWaits, ErrorAtHead, Ending
<1>4. CASE Iterate
  <2>1. "bus" \notin StopSignals
    BY DEF StopSignals
  <2> QED  BY <1>4, <2>1 DEF Iterate, FirstInv, StopWaits, ErrorAtHead
<1>5. CASE \E s \in StopSignals : QuitLoop(s)
  <2> PICK s \in StopSignals : QuitLoop(s)
    BY <1>5
  <2>1. /\ pc = "loop" /\ s \in batch /\ s # "bus"
        /\ batch' = batch \ {s} /\ pending' = pending \ {s} /\ running' = FALSE
        /\ UNCHANGED <<pc, code, bus, first>>
    BY DEF QuitLoop, Dispatch, StopSignals
  <2>2. first # "none"
    BY <2>1 DEF FirstInv, StopWaits
  <2> QED  BY <2>1, <2>2 DEF FirstInv, StopWaits, ErrorAtHead, Ending
<1>6. CASE OnBusMessage
  <2>1. /\ pc = "loop" /\ "bus" \in batch /\ code' = CodeAfter(Head(bus)) /\ running' = FALSE
        /\ UNCHANGED <<pc, first>>
    BY <1>6 DEF OnBusMessage, Dispatch
  <2>2. bus # <<>> /\ first # "none"
    BY <2>1 DEF FirstInv, Support, LoopInv
  <2>3. first = "ERROR" => code' = 1
    BY <2>1 DEF FirstInv, ErrorAtHead, CodeAfter
  <2> QED  BY <2>1, <2>2, <2>3 DEF FirstInv, Ending
<1>7. CASE OnSigusr1
  <2>1. /\ pc = "loop" /\ batch' = batch \ {"SIGUSR1"} /\ pending' = pending \ {"SIGUSR1"}
        /\ UNCHANGED <<pc, code, bus, running, first>>
    BY <1>7, Zenon DEF OnSigusr1, Dispatch
  <2>2. "SIGUSR1" \notin StopSignals \cup {"bus"}
    BY DEF StopSignals
  <2> QED  BY <2>1, <2>2 DEF FirstInv, StopWaits, ErrorAtHead, Ending
<1>8. CASE LeaveLoop
  <2>1. /\ pc = "loop" /\ ~running /\ batch = {} /\ pc' = "null"
        /\ UNCHANGED <<code, bus, batch, pending, first>>
    BY <1>8, Zenon DEF LeaveLoop, loop
  <2> QED  BY <2>1 DEF FirstInv, StopWaits, ErrorAtHead
<1>9. CASE SetNull \/ Join \/ Release \/ ReportStopped
  <2>1. /\ pc \in Ending /\ pc' \in Ending /\ bus' \in {bus, <<>>}
        /\ UNCHANGED <<code, batch, pending, first>>
    BY <1>9, Zenon DEF SetNull, Join, Release, ReportStopped, Goto, loop, Ending
  <2>2. pc' # "loop" /\ pc \notin {"announce", "loop"}
    BY <2>1 DEF Ending
  <2> QED  BY <2>1, <2>2 DEF FirstInv, StopWaits, ErrorAtHead
<1>10. CASE Produce
  <2>0. streaming /\ Alive /\ UNCHANGED <<pc, code, running, batch, pending>>
    BY <1>10, Zenon DEF Produce, loop
  <2>1. CASE UNCHANGED <<bus, first>>
    BY <1>0, <2>0, <2>1
  <2>2. CASE Post("ERROR")
    <3>1. pc \notin Starting \cup {"killed"}
      BY <2>0 DEF Alive, Support, ReleaseInv, Empty
    <3> QED  BY <2>0, <2>2, <3>1, FirstPost DEF Messages
  <2> QED  BY <1>10, <2>1, <2>2, Zenon DEF Produce
<1>11. CASE ElementPosts
  <2>1. /\ camera = "held" /\ Alive /\ UNCHANGED <<pc, code, running, batch, pending>>
    BY <1>11, Zenon DEF ElementPosts, loop
  <2>2. pc \notin Starting \cup {"killed"}
    BY <2>1 DEF Alive, Support, ReleaseInv, Empty
  <2> QED  BY <1>11, <2>1, <2>2, FirstPost DEF ElementPosts
<1>12. CASE \E s \in Signals : Deliver(s)
  <2> PICK s \in Signals : Deliver(s)
    BY <1>12
  <2>1. /\ pc # "killed" /\ UNCHANGED <<code, bus, running, batch>>
        /\ first' = IF s \in StopSignals THEN FirstOf("signal") ELSE first
        /\ \/ pending' = pending \cup {s} /\ UNCHANGED pc
           \/ pc' = "killed" /\ UNCHANGED pending
    BY DEF Deliver, Alive
  <2>2. \/ first' = first
        \/ first' = "signal" /\ first = "none" /\ s \in StopSignals
    BY <2>1 DEF FirstOf
  <2>3. s \notin StopSignals => (StopWaits' => StopWaits)
    BY <2>1 DEF StopWaits
  <2>4. s \in StopSignals => first' # "none"
    BY <2>1 DEF FirstOf
  <2> QED  BY <2>1, <2>2, <2>3, <2>4 DEF FirstInv, ErrorAtHead, Ending
<1>13. CASE OnFrame \/ SnapThread \/ UNCHANGED vars
  BY <1>0, <1>13, Zenon DEF SnapThread, ReturnFlow, OnFrame, TakeFrame, PassValve, PullSample,
     OpenFile, WriteFile, FlushFile, CloseValve, vars, common, loop
<1> QED
  BY <1>2, <1>3, <1>4, <1>5, <1>6, <1>7, <1>8, <1>9, <1>10, <1>11, <1>12, <1>13
  DEF Next, Main, LoopStep, Environment, Finished

(* An ERROR that comes first decides the exit code. *)
THEOREM ErrorDecidesExitCode == Spec => []ErrorReachesExitCode
<1>1. Init => FirstInv
  BY DEF Init, CommonInit, FirstInv, StopWaits, Ending
<1>2. FirstInv => ErrorReachesExitCode
  BY DEF FirstInv, Ending, ErrorReachesExitCode
<1>3. TypeOK /\ LoopInv /\ ReleaseInv => Support
  BY DEF TypeOK, Support
<1> QED  BY <1>1, <1>2, <1>3, FirstStep, CoreInvariant, ReleaseInvariant, PTL DEF Spec
-----------------------------------------------------------------------------
(* The service implements CameraService: every step of its threads, of its *)
(* elements and of a signal is one step of that specification, or one it   *)
(* does not see.  The invariants above supply what the abstract steps      *)
(* demand: where the camera is held, and which signals have lost their     *)
(* source.                                                                 *)

(* Between installing the handlers and the end, a stop signal without a    *)
(* source has been sent before; the camera is held from PLAYING to NULL.   *)
Holding == {"announce", "loop", "null", "join"}

ListenInv ==
    /\ pc = "sources" => caught = {}
    /\ pc \notin {"sources", "killed"} =>
          \A s \in StopSignals : s \in caught \/ sent[s] >= 1
    /\ camera = "held" => pc \in Holding

LEMMA ListenStep ==
    ListenInv /\ SourceInv /\ CommonTypes /\ [Next]_vars => ListenInv'
<1> SUFFICES ASSUME ListenInv, SourceInv, CommonTypes, [Next]_vars
             PROVE  ListenInv'
  OBVIOUS
<1>0. CASE UNCHANGED <<pc, caught, camera, sent>>
  BY <1>0 DEF ListenInv
<1>1. CASE AddStopSources
  BY <1>1 DEF AddStopSources, ListenInv, Holding
<1>2. ASSUME pc \notin {"sources", "killed"}, pc' \notin {"sources", "killed"},
             caught \subseteq caught', sent' = sent,
             camera' = "held" => pc' \in Holding
      PROVE  ListenInv'
  BY <1>2 DEF ListenInv
<1>3. CASE ParsePipeline("elements") \/ FindElements \/ Release \/ ReportStopped
  BY <1>2, <1>3 DEF ParsePipeline, FindElements, Release, ReportStopped, Goto,
     ListenInv, Holding
<1>4. CASE LeaveLoop \/ SetNull \/ Announce
  BY <1>2, <1>4 DEF LeaveLoop, SetNull, Announce, Goto, Holding
<1>5. CASE Connect \/ SetPlaying \/ Join
  BY <1>2, <1>5 DEF Connect, SetPlaying, Join, Goto, ListenInv, Holding
<1>6. CASE \E s \in StopSignals : QuitLoop(s)
  <2> PICK s \in StopSignals : QuitLoop(s)
    BY <1>6
  <2>1. s \in Signals /\ s \in batch /\ pc = "loop"
    BY DEF QuitLoop, Dispatch, Signals
  <2>2. caught' = caught \ {s} /\ UNCHANGED <<pc, camera, sent>>
    BY DEF QuitLoop
  <2>3. sent[s] >= 1
    BY <2>1 DEF SourceInv
  <2> QED  BY <2>1, <2>2, <2>3 DEF ListenInv
<1>7. CASE \E s \in Signals : Deliver(s)
  <2> PICK s \in Signals : Deliver(s)
    BY <1>7
  <2>1. \A t \in Signals : sent'[t] >= sent[t] /\ sent[t] \in Nat /\ sent'[t] \in Nat
    BY DEF Deliver, CommonTypes
  <2>2. StopSignals \subseteq Signals
    BY DEF Signals
  <2>3. /\ caught' = caught
        /\ \/ UNCHANGED <<pc, camera>>
           \/ pc' = "killed" /\ camera' # "held"
    BY DEF Deliver
  <2> QED  BY <2>1, <2>2, <2>3 DEF ListenInv
<1>8. CASE OnSigusr1 \/ OnBusMessage \/ Iterate
  BY <1>0, <1>8, Zenon DEF OnSigusr1, OnBusMessage, Iterate
<1>9. CASE Produce \/ OnFrame \/ SnapThread \/ ElementPosts \/ UNCHANGED vars
  BY <1>0, <1>9, Zenon DEF Produce, OnFrame, SnapThread, TakeFrame, PassValve, PullSample,
     OpenFile, WriteFile, FlushFile, CloseValve, ReturnFlow, ElementPosts, vars, common
<1> QED
  BY <1>1, <1>3, <1>4, <1>5, <1>6, <1>7, <1>8, <1>9
  DEF Next, Main, LoopStep, Environment, Finished
-----------------------------------------------------------------------------
(* One step of the service is one step of CameraService. *)
ServiceStep == Service!Next \/ UNCHANGED Service!vars

ServiceInv == TypeOK /\ SourceInv /\ ListenInv /\ ReleaseInv

LEMMA ServiceSimulates == ServiceInv /\ [Next]_vars => ServiceStep
<1> SUFFICES ASSUME ServiceInv, [Next]_vars PROVE ServiceStep
  OBVIOUS
<1> USE DEF ServiceStep, ServiceInv
<1>a. code \in {0, 1, 3} /\ camera \in {"free", "held", "abandoned"}
  BY DEF TypeOK, CommonTypes
<1>b. Service!Alive <=> pc \notin {"done", "killed"}
  BY <1>a DEF Service!Alive, Service!NoExit, ExitStatus
<1>0. ASSUME UNCHANGED <<camera, sent>>,
             \/ UNCHANGED <<pc, code>>
             \/ {pc, pc'} \cap {"sources", "done", "killed"} = {}
      PROVE  ServiceStep
  <2>1. UNCHANGED Asked
    BY <1>0 DEF Asked
  <2>2. UNCHANGED <<Listening, ExitStatus>>
    BY <1>0 DEF Listening, ExitStatus
  <2> QED  BY <1>0, <2>1, <2>2 DEF Service!vars
<1>1. CASE AddStopSources
  <2>1. /\ pc = "sources" /\ pc' = "parse" /\ UNCHANGED <<camera, sent>>
    BY <1>1 DEF AddStopSources
  <2>2. UNCHANGED Asked
    BY <2>1 DEF Asked
  <2>3. ~Listening /\ Listening' /\ ExitStatus = -1 /\ ExitStatus' = -1
    BY <2>1 DEF Listening, ExitStatus
  <2>4. Service!Listen
    BY <1>b, <2>1, <2>2, <2>3 DEF Service!Listen
  <2> QED  BY <2>4 DEF Service!Next, Service!Act
<1>2. ASSUME pc \in {"parse", "report"}, pc' = "done", code' \in {0, 1, 3}, camera = "free",
             UNCHANGED <<camera, sent>>
      PROVE  ServiceStep
  <2>1. UNCHANGED Asked
    BY <1>2 DEF Asked
  <2>2. Listening /\ Listening' /\ ExitStatus' = code'
    BY <1>2 DEF Listening, ExitStatus
  <2>3. Service!Exit(code') /\ code' \in Service!Statuses
    BY <1>b, <1>2, <2>1, <2>2 DEF Service!Exit, Service!Statuses
  <2> QED  BY <2>3 DEF Service!Next, Service!Act
<1>3. CASE ParsePipeline("elements")
  <2>1. /\ pc = "parse" /\ UNCHANGED <<camera, sent>>
        /\ \/ pc' = "elements"
           \/ pc' = "done" /\ code' = 1
    BY <1>3 DEF ParsePipeline
  <2>2. camera = "free"
    BY <2>1 DEF ReleaseInv, Starting, Empty
  <2> QED  BY <1>0, <1>2, <2>1, <2>2
<1>4. CASE ReportStopped
  <2>1. pc = "report" /\ pc' = "done" /\ UNCHANGED <<code, camera, sent>>
    BY <1>4 DEF ReportStopped, Goto
  <2>2. camera = "free"
    BY <2>1 DEF ReleaseInv, Empty
  <2> QED  BY <1>a, <1>2, <2>1, <2>2
<1>5. CASE FindElements \/ Connect \/ Announce \/ LeaveLoop \/ SetNull \/ Release
  <2>1. /\ UNCHANGED <<camera, sent>>
        /\ {pc, pc'} \cap {"sources", "done", "killed"} = {}
    BY <1>5 DEF FindElements, Connect, Announce, LeaveLoop, SetNull, Release, Goto
  <2> QED  BY <1>0, <2>1
<1>6. CASE SetPlaying \/ Join
  <2>1. /\ pc \in {"play", "join"} /\ pc' \in {"announce", "null", "release"}
        /\ UNCHANGED sent
        /\ \/ pc = "play" /\ camera' = "held"
           \/ pc = "join" /\ camera' = "free"
    BY <1>6 DEF SetPlaying, Join, Goto
  <2>2. UNCHANGED Asked
    BY <2>1 DEF Asked
  <2>3. Listening /\ Listening' /\ ExitStatus = -1 /\ ExitStatus' = -1
    BY <2>1 DEF Listening, ExitStatus
  <2>4. pc = "play" => camera = "free"
    BY DEF ReleaseInv, Starting, Empty
  <2>5. pc = "join" => camera \in {"free", "held"}
    BY <1>a DEF SourceInv
  <2>6. Service!Claim \/ Service!GiveBack \/ UNCHANGED Service!vars
    BY <1>b, <2>1, <2>2, <2>3, <2>4, <2>5
    DEF Service!Claim, Service!GiveBack, Service!vars
  <2> QED  BY <2>6 DEF Service!Next, Service!Act
<1>7. CASE \E s \in Signals : Deliver(s)
  <2> PICK s \in Signals : Deliver(s)
    BY <1>7
  <2>1. /\ pc \notin {"done", "killed"} /\ UNCHANGED code
        /\ \A t \in Signals : sent'[t] = IF t = s THEN sent[t] + 1 ELSE sent[t]
        /\ \A t \in Signals : sent[t] \in Nat
    BY DEF Deliver, Alive, TypeOK, CommonTypes
  <2>2. StopSignals = {"SIGINT", "SIGTERM"} /\ Signals = {"SIGINT", "SIGTERM", "SIGUSR1"}
    BY DEF StopSignals, Signals
  <2>3. Asked' = Asked \cup ({s} \cap StopSignals)
    <3>1. \A t \in StopSignals : sent'[t] > 0 <=> sent[t] > 0 \/ t = s
      BY <2>1, <2>2
    <3>2. \A t \in StopSignals : t \in Asked' <=> t \in Asked \/ t = s
      BY <3>1 DEF Asked
    <3> QED  BY <3>2 DEF Asked
  <2>4. CASE s \in caught /\ UNCHANGED <<pc, camera>>
    <3>1. UNCHANGED <<Listening, ExitStatus, camera>>
      BY <2>1, <2>4 DEF Listening, ExitStatus
    <3>2. pc \notin {"sources", "killed"}
      BY <2>1, <2>4 DEF ListenInv
    <3>3. Listening
      BY <3>2 DEF Listening
    <3>4. CASE s = "SIGUSR1"
      <4>1. UNCHANGED Asked
        BY <2>2, <2>3, <3>4
      <4> QED  BY <3>1, <4>1 DEF Service!vars
    <3>5. CASE s # "SIGUSR1"
      <4>1. s \in {"SIGINT", "SIGTERM"} /\ Asked' = Asked \cup {s}
        BY <2>2, <2>3, <3>5
      <4>2. Service!Stop(s)
        BY <1>b, <2>1, <3>1, <3>3, <4>1 DEF Service!Stop
      <4> QED  BY <4>1, <4>2 DEF Service!Next
    <3> QED  BY <3>4, <3>5
  <2>5. CASE /\ s \notin caught /\ pc' = "killed"
             /\ camera' = IF camera = "held" THEN "abandoned" ELSE camera
    <3>1. ~Listening' /\ ExitStatus' = Service!Killed
      BY <2>5 DEF Listening, ExitStatus, Service!Killed
    <3>2. \/ ~Listening
          \/ s \in Asked
          \/ s = "SIGUSR1" /\ camera # "held"
      <4>1. CASE pc = "sources"
        BY <4>1 DEF Listening
      <4>2. CASE pc # "sources" /\ s \in StopSignals
        BY <2>1, <2>5, <4>2 DEF ListenInv, Asked
      <4>3. CASE s \notin StopSignals
        BY <2>2, <2>5, <4>3 DEF SourceInv
      <4> QED  BY <4>1, <4>2, <4>3
    <3>3. Service!Die(s)
      BY <1>b, <2>1, <2>2, <2>3, <2>5, <3>1, <3>2 DEF Service!Die
    <3> QED  BY <2>2, <3>3 DEF Service!Next
  <2> QED  BY <2>4, <2>5 DEF Deliver
<1>8. CASE OnSigusr1 \/ Iterate \/ \E s \in StopSignals : QuitLoop(s)
  <2>1. UNCHANGED <<pc, code, camera, sent>>
    BY <1>8, Zenon DEF OnSigusr1, Iterate, QuitLoop
  <2> QED  BY <1>0, <2>1
<1>9. CASE OnBusMessage
  <2>1. pc = "loop" /\ pc' = "loop" /\ UNCHANGED <<camera, sent>>
    BY <1>9, Zenon DEF OnBusMessage, Dispatch
  <2> QED  BY <1>0, <2>1
<1>10. CASE Produce \/ OnFrame \/ SnapThread \/ ElementPosts \/ UNCHANGED vars
  <2>1. UNCHANGED <<pc, code, camera, sent>>
    BY <1>10, Zenon DEF Produce, OnFrame, SnapThread, TakeFrame, PassValve, PullSample,
       OpenFile, WriteFile, FlushFile, CloseValve, ReturnFlow, ElementPosts, vars, common
  <2> QED  BY <1>0, <2>1
<1> QED
  BY <1>1, <1>3, <1>4, <1>5, <1>6, <1>7, <1>8, <1>9, <1>10
  DEF Next, Main, LoopStep, Environment, Finished

LEMMA ServiceInvariant == Spec => []ServiceInv
<1>1. Init => SourceInv /\ ListenInv
  BY DEF Init, CommonInit, SourceInv, ListenInv
<1>2. SourceInv /\ ListenInv /\ TypeOK /\ [Next]_vars => (SourceInv /\ ListenInv)'
  BY SourceStep, ListenStep DEF TypeOK
<1>3. Spec => [](SourceInv /\ ListenInv)
  BY <1>1, <1>2, TypeCorrect, PTL DEF Spec
<1> QED  BY <1>3, TypeCorrect, ReleaseInvariant, PTL DEF ServiceInv

(* What a script or a service manager may rely on: one stop signal never    *)
(* kills the UDP service and the camera is given back before it exits, for  *)
(* any number of frames, signals and messages.                              *)
THEOREM UdpIsCameraService == Spec => ImplementsService
<1>1. Init => Service!Init
  <2> SUFFICES ASSUME Init PROVE Service!Init
    OBVIOUS
  <2>1. pc = "sources" /\ camera = "free" /\ \A s \in StopSignals : sent[s] = 0
    BY DEF Init, CommonInit, Signals
  <2>2. Asked = {}
    BY <2>1 DEF Asked
  <2> QED  BY <2>1, <2>2 DEF Service!Init, Service!NoExit, Listening, ExitStatus
<1>2. ServiceInv /\ [Next]_vars => [Service!Next]_(Service!vars)
  BY ServiceSimulates DEF ServiceStep
<1> QED
  BY <1>1, <1>2, ServiceInvariant, PTL DEF Spec, ImplementsService, Service!Spec
-----------------------------------------------------------------------------
(***************************************************************************)
(* How long a stop takes.  Left counts the steps the main thread can still *)
(* take once it has been asked to end: the way from each place to the      *)
(* exit, with the sources the current iteration still has to dispatch.     *)
(* An iteration without a quitter is the one that was under way when the   *)
(* stop arrived: it has at most the snapshot signal to dispatch.           *)
(***************************************************************************)
Quitters == StopSignals \cup {"bus"}

Left ==
    CASE pc \in {"done", "killed"}                     -> 0
      [] pc = "report"                                 -> 1
      [] pc = "release"                                -> 2
      [] pc = "join"                                   -> 3
      [] pc = "null"                                   -> 4
      [] pc = "loop" /\ ~(running /\ batch \cap Quitters = {})
                                                       -> 5 + Cardinality(batch)
      [] pc = "loop" /\ running /\ batch = {}          -> 10
      [] pc = "loop" /\ running /\ batch # {} /\ batch \cap Quitters = {}
                                                       -> 11
      [] pc = "announce"                               -> 11
      [] pc = "play"                                   -> 12
      [] pc = "connect"                                -> 13
      [] pc = "elements"                               -> 14
      [] pc = "parse"                                  -> 15
      [] pc = "sources"                                -> 16

(* The steps the snapshot thread can still take while the cleanup waits    *)
(* for it to leave its callback.                                           *)
Callback ==
    CASE snappc \in {"idle", "stopped"} -> 0
      [] snappc = "return"              -> 1
      [] snappc = "close"               -> 2
      [] snappc = "flush"               -> 3
      [] snappc = "write"               -> 4
      [] snappc = "open"                -> 5
      [] snappc = "pull"                -> 6
      [] snappc = "valve"               -> 7

(* A stop signal has been sent, the bus has a message, or the loop has     *)
(* been told to quit.                                                      *)
EndAsked ==
    \/ \E s \in StopSignals : sent[s] > 0
    \/ bus # <<>>
    \/ pc = "loop" /\ ~running
    \/ pc \in Ending \cup {"killed"}

(* As long as the loop has not been told to quit, no stop signal has been  *)
(* forgotten.                                                              *)
AskInv ==
    pc \in Starting \cup {"announce"} \/ (pc = "loop" /\ running) =>
        \A s \in StopSignals : sent[s] > 0 => s \in pending

LEMMA AskStep ==
    AskInv /\ CommonTypes /\ [Next]_vars => AskInv'
<1> SUFFICES ASSUME AskInv, CommonTypes, [Next]_vars PROVE AskInv'
  OBVIOUS
<1> USE DEF Goto, common, loop
<1>0. ASSUME pc' \notin Starting \cup {"announce"}, ~(pc' = "loop" /\ running')
      PROVE  AskInv'
  BY <1>0, Zenon DEF AskInv
<1>1. ASSUME pc \in Starting \cup {"announce"} \/ (pc = "loop" /\ running),
             UNCHANGED <<pending, sent>>
      PROVE  AskInv'
  BY <1>1, Zenon DEF AskInv
<1>2. CASE AddStopSources \/ ParsePipeline("elements") \/ FindElements \/ Connect
           \/ SetPlaying \/ Announce
  <2>1. pc \in Starting \cup {"announce"}
    BY <1>2 DEF AddStopSources, ParsePipeline, FindElements, Connect, SetPlaying,
       Announce, Starting
  <2>2. UNCHANGED <<pending, sent>>
    BY <1>2, Zenon DEF AddStopSources, ParsePipeline, FindElements, Connect,
       SetPlaying, Announce
  <2> QED  BY <1>1, <2>1, <2>2, Zenon
<1>3. CASE Iterate
  BY <1>1, <1>3, Zenon DEF Iterate
<1>4. CASE OnBusMessage \/ \E s \in StopSignals : QuitLoop(s)
  <2>1. pc' = "loop" /\ ~running'
    BY <1>4, Zenon DEF OnBusMessage, QuitLoop, Dispatch
  <2> QED  BY <1>0, <2>1 DEF Starting
<1>5. CASE OnSigusr1
  <2>1. UNCHANGED <<pc, running, sent>> /\ pending' = pending \ {"SIGUSR1"}
    BY <1>5, Zenon DEF OnSigusr1, Dispatch
  <2>2. "SIGUSR1" \notin StopSignals
    BY DEF StopSignals
  <2> QED  BY <2>1, <2>2, Zenon DEF AskInv
<1>6. CASE LeaveLoop \/ SetNull \/ Join \/ Release \/ ReportStopped
  <2>1. pc' \in {"null", "join", "release", "report", "done"}
    BY <1>6 DEF LeaveLoop, SetNull, Join, Release, ReportStopped
  <2> QED  BY <1>0, <2>1 DEF Starting
<1>7. CASE UNCHANGED <<pc, running, pending, sent>>
  BY <1>7, Zenon DEF AskInv
<1>8. CASE \E s \in Signals : Deliver(s)
  <2> PICK s \in Signals : Deliver(s)
    BY <1>8
  <2>1. CASE pc' = "killed"
    BY <1>0, <2>1 DEF Starting
  <2>2. CASE pc' # "killed"
    <3>1. /\ pending' = pending \cup {s} /\ UNCHANGED <<pc, running>>
          /\ sent' = [sent EXCEPT ![s] = @ + 1]
      BY <2>2, Zenon DEF Deliver
    <3>2. \A t \in StopSignals : t # s => sent'[t] = sent[t]
      BY <3>1 DEF CommonTypes, Signals
    <3> QED  BY <3>1, <3>2, Zenon DEF AskInv
  <2> QED  BY <2>1, <2>2
<1>9. \/ UNCHANGED <<pc, running, pending, sent>>
      \/ Main \/ \E s \in Signals : Deliver(s)
  <2>1. CASE Produce \/ OnFrame \/ UNCHANGED vars
    BY <2>1, Zenon DEF Produce, OnFrame, vars
  <2>2. CASE SnapThread
    BY <2>2, Zenon DEF SnapThread, TakeFrame, PassValve, PullSample, OpenFile,
       WriteFile, FlushFile, CloseValve, ReturnFlow
  <2>3. CASE ElementPosts
    BY <2>3, Zenon DEF ElementPosts
  <2> QED  BY <2>1, <2>2, <2>3 DEF Next, Environment, Finished
<1> QED
  BY <1>2, <1>3, <1>4, <1>5, <1>6, <1>7, <1>8, <1>9 DEF Main, LoopStep

(* A batch has at most four sources. *)
LEMMA BatchSize ==
    ASSUME NEW B, B \subseteq SourceSet
    PROVE  IsFiniteSet(B) /\ Cardinality(B) \in 0 .. 4
<1> DEFINE A == {"SIGINT"}
           C == A \cup {"SIGTERM"}
           D == C \cup {"SIGUSR1"}
           E == D \cup {"bus"}
<1>1. IsFiniteSet(A) /\ Cardinality(A) = 1
  BY FS_Singleton
<1>2. IsFiniteSet(C) /\ Cardinality(C) = 2
  BY <1>1, FS_AddElement
<1>3. IsFiniteSet(D) /\ Cardinality(D) = 3
  BY <1>2, FS_AddElement
<1>4. IsFiniteSet(E) /\ Cardinality(E) = 4
  BY <1>3, FS_AddElement
<1>5. SourceSet = E
  BY DEF SourceSet, Signals, StopSignals
<1>6. IsFiniteSet(B) /\ Cardinality(B) <= 4
  BY <1>4, <1>5, FS_Subset
<1> QED  BY <1>6, FS_CardinalityType

\* whether the current iteration is under way to leave the loop
Quitting == ~(running /\ batch \cap Quitters = {})

\* the values of Left that its CASE gives
LeftFacts ==
    /\ pc \in {"done", "killed"} => Left = 0
    /\ pc = "report" => Left = 1
    /\ pc = "release" => Left = 2
    /\ pc = "join" => Left = 3
    /\ pc = "null" => Left = 4
    /\ pc = "loop" /\ Quitting => Left = 5 + Cardinality(batch)
    /\ pc = "loop" /\ ~Quitting /\ batch = {} => Left = 10
    /\ pc = "loop" /\ ~Quitting /\ batch # {} => Left = 11
    /\ pc = "announce" => Left = 11
    /\ pc = "play" => Left = 12
    /\ pc = "connect" => Left = 13
    /\ pc = "elements" => Left = 14
    /\ pc = "parse" => Left = 15
    /\ pc = "sources" => Left = 16

LEMMA LeftAt == LeftFacts
  BY DEF LeftFacts, Left, Quitting

(* Left is a number, and 0 when the process has ended. *)
LEMMA LeftRange ==
    ASSUME TypeOK, LeftFacts
    PROVE  /\ Left \in 0 .. 16
           /\ Left = 0 <=> pc \in {"done", "killed"}
<1>1. Cardinality(batch) \in 0 .. 4
  BY BatchSize DEF TypeOK, CommonTypes
<1>2. pc \in Pcs
  BY DEF TypeOK, PlaceTypes
<1>3. \/ pc \in {"done", "killed"} /\ Left = 0
      \/ pc \notin {"done", "killed"} /\ Left \in 1 .. 16
  <2>1. CASE pc = "loop"
    <3>1. \/ Left = 5 + Cardinality(batch)
          \/ Left = 10
          \/ Left = 11
      BY <2>1, Zenon DEF LeftFacts
    <3> QED  BY <1>1, <2>1, <3>1
  <2>2. CASE pc \in {"done", "killed", "report", "release", "join", "null"}
    BY <2>2 DEF LeftFacts
  <2>3. CASE pc \in {"announce", "play", "connect", "elements", "parse", "sources"}
    BY <2>3 DEF LeftFacts
  <2> QED  BY <1>2, <2>1, <2>2, <2>3, Zenon DEF Pcs
<1> QED  BY <1>3

(* A reason to end stays one. *)
LEMMA EndingStays ==
    ASSUME EndAsked, CommonTypes, LoopInv, [Next]_vars PROVE EndAsked'
<1> USE DEF Goto, common, loop
<1>1. CASE LeaveLoop \/ SetNull \/ Join \/ Release \/ ReportStopped
  <2>1. pc' \in {"null", "join", "release", "report", "done"}
    BY <1>1 DEF LeaveLoop, SetNull, Join, Release, ReportStopped
  <2> QED  BY <2>1, Zenon DEF EndAsked, Ending
<1>2. CASE OnBusMessage \/ \E s \in StopSignals : QuitLoop(s)
  <2>1. pc' = "loop" /\ ~running'
    BY <1>2, Zenon DEF OnBusMessage, QuitLoop, Dispatch
  <2> QED  BY <2>1, Zenon DEF EndAsked
<1>3. CASE AddStopSources \/ ParsePipeline("elements") \/ FindElements \/ Connect
           \/ SetPlaying \/ Announce
  <2>1. /\ pc \in {"sources", "parse", "elements", "connect", "play", "announce"}
        /\ UNCHANGED <<bus, sent>>
    BY <1>3 DEF AddStopSources, ParsePipeline, FindElements, Connect, SetPlaying,
       Announce
  <2>2. pc # "loop" /\ pc \notin Ending \cup {"killed"}
    BY <2>1 DEF Ending
  <2> QED  BY <2>1, <2>2, Zenon DEF EndAsked
<1>4. CASE Iterate
  BY <1>4, Zenon DEF Iterate, EndAsked
<1>5. CASE OnSigusr1
  BY <1>5, Zenon DEF OnSigusr1, Dispatch, EndAsked
<1>6. CASE UNCHANGED <<pc, running, sent>> /\ (UNCHANGED bus \/ \E m : bus' = Append(bus, m))
  <2>1. bus # <<>> => bus' # <<>>
    BY <1>6 DEF CommonTypes
  <2> QED  BY <1>6, <2>1, Zenon DEF EndAsked
<1>7. CASE \E s \in Signals : Deliver(s)
  <2> PICK s \in Signals : Deliver(s)
    BY <1>7
  <2>1. CASE pc' = "killed"
    BY <2>1 DEF EndAsked
  <2>2. CASE pc' # "killed"
    <3>1. /\ UNCHANGED <<pc, running, bus>> /\ sent' = [sent EXCEPT ![s] = @ + 1]
      BY <2>2, Zenon DEF Deliver
    <3>2. \A t \in StopSignals : sent[t] > 0 => sent'[t] > 0
      BY <3>1 DEF CommonTypes, Signals
    <3> QED  BY <3>1, <3>2, Zenon DEF EndAsked
  <2> QED  BY <2>1, <2>2
<1>8. \/ UNCHANGED <<pc, running, sent>> /\ (UNCHANGED bus \/ \E m : bus' = Append(bus, m))
      \/ Main \/ \E s \in Signals : Deliver(s)
  <2>1. CASE Produce \/ OnFrame \/ UNCHANGED vars
    BY <2>1, Zenon DEF Produce, Post, OnFrame, vars
  <2>2. CASE SnapThread
    BY <2>2, Zenon DEF SnapThread, TakeFrame, PassValve, PullSample, OpenFile,
       WriteFile, FlushFile, CloseValve, ReturnFlow
  <2>3. CASE ElementPosts
    BY <2>3, Zenon DEF ElementPosts, Post
  <2> QED  BY <2>1, <2>2, <2>3 DEF Next, Environment, Finished
<1> QED
  BY <1>1, <1>2, <1>3, <1>4, <1>5, <1>6, <1>7, <1>8 DEF Main, LoopStep

(* While the service runs the camera streams, or a reason to end is known:  *)
(* the source stops by itself only when it posts that the snapshot branch   *)
(* has refused a frame.                                                     *)
StreamInv == pc \in {"announce", "loop"} => streaming \/ EndAsked

(* A source that finds the snapshot branch failed gives a reason to end.    *)
LEMMA SourceTells ==
    ASSUME CommonTypes, Produce, snappc = "stopped" PROVE EndAsked'
<1>1. bus' = Append(bus, "ERROR")
  BY DEF Produce, Post
<1>2. bus' # <<>>
  BY <1>1 DEF CommonTypes
<1> QED  BY <1>2, Zenon DEF EndAsked

LEMMA StreamStep ==
    ASSUME StreamInv, CommonTypes, LoopInv, [Next]_vars PROVE StreamInv'
<1>1. CASE EndAsked
  BY <1>1, EndingStays DEF StreamInv
<1>2. CASE UNCHANGED streaming /\ (pc \in {"announce", "loop"} \/ UNCHANGED pc)
  <2>1. CASE streaming
    BY <1>2, <2>1 DEF StreamInv
  <2>2. CASE ~streaming /\ UNCHANGED pc
    BY <1>1, <2>2, Zenon DEF StreamInv
  <2>3. CASE ~streaming /\ pc \in {"announce", "loop"}
    BY <1>1, <2>3, Zenon DEF StreamInv
  <2> QED  BY <1>2, <2>1, <2>2, <2>3
<1>3. CASE SetPlaying
  <2>1. pc' = "null" \/ streaming'
    BY <1>3, Zenon DEF SetPlaying, Goto
  <2> QED  BY <2>1 DEF StreamInv
<1>4. CASE AddStopSources \/ ParsePipeline("elements") \/ FindElements \/ Connect
           \/ SetNull \/ Join \/ Release \/ ReportStopped
  <2>1. pc' \in {"parse", "elements", "connect", "play", "null", "join", "release", "report",
                 "done"}
    BY <1>4 DEF AddStopSources, ParsePipeline, FindElements, Connect, SetNull, Join, Release,
       ReportStopped, Goto
  <2> QED  BY <2>1 DEF StreamInv
<1>5. CASE Announce \/ OnSigusr1 \/ (LoopStep /\ Quiet)
  <2>1. pc \in {"announce", "loop"} /\ UNCHANGED streaming
    BY <1>5, Zenon DEF Announce, OnSigusr1, LoopStep, Iterate, QuitLoop, OnBusMessage, LeaveLoop,
       Dispatch, Quiet, pipeline
  <2> QED  BY <1>2, <2>1
<1>6. CASE Produce
  <2>1. CASE snappc = "stopped"
    BY <1>6, <2>1, SourceTells DEF StreamInv
  <2>2. CASE snappc # "stopped"
    <3>1. UNCHANGED <<pc, streaming>>
      BY <1>6, <2>2, Zenon DEF Produce
    <3> QED  BY <1>2, <3>1
  <2> QED  BY <2>1, <2>2
<1>7. CASE OnFrame \/ SnapThread \/ UNCHANGED vars
  <2>1. UNCHANGED <<pc, streaming>>
    BY <1>7, Zenon DEF OnFrame, SnapThread, TakeFrame, PassValve, PullSample, OpenFile,
       WriteFile, FlushFile, CloseValve, ReturnFlow, Elsewhere, vars, common, pipeline
  <2> QED  BY <1>2, <2>1
<1>8. CASE Environment
  <2>1. UNCHANGED streaming /\ (UNCHANGED pc \/ pc' = "killed")
    BY <1>8, Zenon DEF Environment, ElementPosts, Deliver, Quiet, pipeline
  <2> QED  BY <1>2, <2>1 DEF StreamInv
<1> QED
  BY <1>3, <1>4, <1>5, <1>6, <1>7, <1>8 DEF Next, Main, Finished

(* A snapshot thread that has stopped is known to the main thread, or the   *)
(* camera still streams and its next frame will tell.                       *)
LEMMA StoppedIsTold ==
    ASSUME StreamInv, ReleaseInv, PlaceTypes, snappc = "stopped"
    PROVE  streaming \/ EndAsked
<1>1. pc \notin Starting
  BY DEF ReleaseInv
<1>2. pc \in {"announce", "loop"} \cup Ending \cup {"killed"}
  BY <1>1 DEF PlaceTypes, Pcs, Starting, Ending
<1> QED  BY <1>2 DEF StreamInv, EndAsked

(* A source dispatched is one less. *)
LEMMA DispatchShrinks ==
    ASSUME CommonTypes, NEW s, Dispatch(s)
    PROVE  /\ batch # {} /\ Cardinality(batch') = Cardinality(batch) - 1
           /\ Cardinality(batch) \in 0 .. 4 /\ pc = "loop"
<1>1. s \in batch /\ batch' = batch \ {s} /\ pc = "loop"
  BY DEF Dispatch
<1>2. IsFiniteSet(batch) /\ Cardinality(batch) \in 0 .. 4
  BY BatchSize DEF CommonTypes
<1>3. Cardinality(batch') = Cardinality(batch) - 1
  BY <1>1, <1>2, FS_RemoveElement
<1> QED  BY <1>1, <1>2, <1>3

(* Every step of the main thread is one step less. *)
LEMMA StepsCountDown ==
    ASSUME TypeOK, TypeOK', LoopInv, LoopInv', AskInv, LeftFacts, LeftFacts',
           EndAsked, Main
    PROVE  Left' < Left
<1> USE DEF Goto
<1>1. CASE AddStopSources
  <2>1. pc = "sources" /\ pc' = "parse"
    BY <1>1, Zenon DEF AddStopSources
  <2> QED  BY <2>1 DEF LeftFacts
<1>2. CASE ParsePipeline("elements")
  <2>1. pc = "parse" /\ pc' \in {"elements", "done"}
    BY <1>2 DEF ParsePipeline
  <2> QED  BY <2>1 DEF LeftFacts
<1>3. CASE FindElements
  <2>1. pc = "elements" /\ pc' \in {"connect", "null"}
    BY <1>3 DEF FindElements
  <2> QED  BY <2>1 DEF LeftFacts
<1>4. CASE Connect
  <2>1. pc = "connect" /\ pc' = "play"
    BY <1>4, Zenon DEF Connect
  <2> QED  BY <2>1 DEF LeftFacts
<1>5. CASE SetPlaying
  <2>1. pc = "play" /\ pc' \in {"announce", "null"}
    BY <1>5 DEF SetPlaying
  <2> QED  BY <2>1 DEF LeftFacts
<1>6. CASE Announce
  <2>1. pc = "announce" /\ pc' = "loop" /\ running' /\ batch' = batch
    BY <1>6, Zenon DEF Announce
  <2>2. batch' = {}
    BY <2>1 DEF LoopInv
  <2>3. ~Quitting'
    BY <2>1, <2>2 DEF Quitting
  <2>4. Left' = 10 /\ Left = 11
    BY <2>1, <2>2, <2>3, Zenon DEF LeftFacts
  <2> QED  BY <2>4
<1>7. CASE Iterate
  <2>1. /\ pc = "loop" /\ running /\ batch = {} /\ UNCHANGED <<pc, running>>
        /\ batch' = pending \cup (IF bus = <<>> THEN {} ELSE {"bus"})
    BY <1>7, Zenon DEF Iterate, loop
  <2>2. Quitting'
    <3>1. bus # <<>> \/ \E s \in StopSignals : sent[s] > 0
      BY <2>1 DEF EndAsked, Ending
    <3>2. bus # <<>> \/ \E s \in StopSignals : s \in pending
      BY <2>1, <3>1, Zenon DEF AskInv
    <3>3. batch' \cap Quitters # {}
      BY <2>1, <3>2 DEF Quitters
    <3> QED  BY <3>3 DEF Quitting
  <2>3. Cardinality(batch') \in 0 .. 4
    <3>1. batch' \subseteq SourceSet
      BY DEF TypeOK, CommonTypes
    <3> QED  BY <3>1, BatchSize
  <2>4. ~Quitting
    BY <2>1 DEF Quitting
  <2>5. Left = 10 /\ Left' = 5 + Cardinality(batch')
    BY <2>1, <2>2, <2>4, Zenon DEF LeftFacts
  <2> QED  BY <2>3, <2>5
<1>8. CASE OnBusMessage \/ \E s \in StopSignals : QuitLoop(s)
  <2>1. PICK s \in Quitters : Dispatch(s)
    BY <1>8, Zenon DEF OnBusMessage, QuitLoop, Quitters
  <2>2. pc' = "loop" /\ ~running'
    BY <1>8, Zenon DEF OnBusMessage, QuitLoop, Dispatch
  <2>3. /\ batch # {} /\ Cardinality(batch') = Cardinality(batch) - 1
        /\ Cardinality(batch) \in 0 .. 4 /\ pc = "loop"
    BY <2>1, DispatchShrinks DEF TypeOK
  <2>4. Quitting /\ Quitting'
    BY <2>1, <2>2 DEF Quitting, Dispatch
  <2>5. Left' = 5 + Cardinality(batch') /\ Left = 5 + Cardinality(batch)
    BY <2>2, <2>3, <2>4, Zenon DEF LeftFacts
  <2> QED  BY <2>3, <2>5
<1>9. CASE OnSigusr1
  <2>1. Dispatch("SIGUSR1") /\ UNCHANGED <<pc, running>>
    BY <1>9, Zenon DEF OnSigusr1
  <2>2. /\ batch # {} /\ Cardinality(batch') = Cardinality(batch) - 1
        /\ Cardinality(batch) \in 0 .. 4 /\ pc = "loop"
    BY <2>1, DispatchShrinks DEF TypeOK
  <2>3. "SIGUSR1" \notin Quitters /\ batch' = batch \ {"SIGUSR1"}
    BY <2>1 DEF Quitters, StopSignals, Dispatch
  <2>4. CASE Quitting
    <3>1. Quitting'
      BY <2>1, <2>3, <2>4 DEF Quitting
    <3>2. Left' = 5 + Cardinality(batch') /\ Left = 5 + Cardinality(batch)
      BY <2>1, <2>2, <2>4, <3>1, Zenon DEF LeftFacts
    <3> QED  BY <2>2, <3>2
  <2>5. CASE ~Quitting
    <3>1. batch' = {}
      <4>1. batch \subseteq {"SIGINT", "SIGTERM", "SIGUSR1", "bus"}
        BY DEF TypeOK, CommonTypes, SourceSet, Signals, StopSignals
      <4>2. batch \cap {"SIGINT", "SIGTERM", "bus"} = {}
        BY <2>5 DEF Quitting, Quitters, StopSignals
      <4> QED  BY <2>3, <4>1, <4>2
    <3>2. ~Quitting'
      BY <2>1, <2>5, <3>1 DEF Quitting
    <3>3. Left' = 10 /\ Left = 11
      BY <2>1, <2>2, <2>5, <3>1, <3>2, Zenon DEF LeftFacts
    <3> QED  BY <3>3
  <2> QED  BY <2>4, <2>5
<1>10. CASE LeaveLoop
  <2>1. pc = "loop" /\ ~running /\ pc' = "null"
    BY <1>10, Zenon DEF LeaveLoop
  <2>2. Cardinality(batch) \in 0 .. 4
    BY BatchSize DEF TypeOK, CommonTypes
  <2>3. Quitting
    BY <2>1 DEF Quitting
  <2>4. Left = 5 + Cardinality(batch) /\ Left' = 4
    BY <2>1, <2>3, Zenon DEF LeftFacts
  <2> QED  BY <2>2, <2>4
<1>11. CASE SetNull
  <2>1. pc = "null" /\ pc' = "join"
    BY <1>11, Zenon DEF SetNull
  <2> QED  BY <2>1 DEF LeftFacts
<1>12. CASE Join
  <2>1. pc = "join" /\ pc' = "release"
    BY <1>12, Zenon DEF Join
  <2> QED  BY <2>1 DEF LeftFacts
<1>13. CASE Release
  <2>1. pc = "release" /\ pc' = "report"
    BY <1>13, Zenon DEF Release
  <2> QED  BY <2>1 DEF LeftFacts
<1>14. CASE ReportStopped
  <2>1. pc = "report" /\ pc' = "done"
    BY <1>14, Zenon DEF ReportStopped
  <2> QED  BY <2>1 DEF LeftFacts
<1> QED
  BY <1>1, <1>2, <1>3, <1>4, <1>5, <1>6, <1>7, <1>8, <1>9, <1>10, <1>11, <1>12, <1>13,
     <1>14
  DEF Main, LoopStep

(* Frames, messages and signals add nothing to the way, though a signal    *)
(* may end it.                                                             *)
LEMMA OthersWait ==
    ASSUME TypeOK, LeftFacts, LeftFacts', [Next]_vars, ~Main PROVE Left' <= Left
<1>0. Left \in 0 .. 16
  BY LeftRange
<1>1. CASE pc' = "killed"
  <2>1. Left' = 0
    BY <1>1, Zenon DEF LeftFacts
  <2> QED  BY <1>0, <2>1
<1>2. CASE UNCHANGED <<pc, running, batch>>
  <2>1. Left' = Left
    BY <1>2, Zenon DEF Left
  <2> QED  BY <1>0, <2>1
<1>3. pc' = "killed" \/ UNCHANGED <<pc, running, batch>>
  <2> USE DEF common, loop
  <2>1. CASE Produce \/ OnFrame \/ UNCHANGED vars
    BY <2>1, Zenon DEF Produce, OnFrame, vars
  <2>2. CASE SnapThread
    BY <2>2, Zenon DEF SnapThread, TakeFrame, PassValve, PullSample, OpenFile,
       WriteFile, FlushFile, CloseValve, ReturnFlow
  <2>3. CASE ElementPosts
    BY <2>3, Zenon DEF ElementPosts
  <2>4. CASE \E s \in Signals : Deliver(s)
    BY <2>4, Zenon DEF Deliver
  <2> QED  BY <2>1, <2>2, <2>3, <2>4 DEF Next, Environment, Finished
<1> QED  BY <1>1, <1>2, <1>3

\* the values of Callback that its CASE gives
CallbackFacts ==
    /\ snappc \in {"idle", "stopped"} => Callback = 0
    /\ snappc = "return" => Callback = 1
    /\ snappc = "close" => Callback = 2
    /\ snappc = "flush" => Callback = 3
    /\ snappc = "write" => Callback = 4
    /\ snappc = "open" => Callback = 5
    /\ snappc = "pull" => Callback = 6
    /\ snappc = "valve" => Callback = 7

LEMMA CallbackAt == CallbackFacts
  BY DEF CallbackFacts, Callback

(* While the cleanup waits for it, every step of the snapshot thread is one *)
(* step less of its callback, and no other thread gives it more.           *)
LEMMA CallbackCountsDown ==
    ASSUME PlaceTypes, CallbackFacts, CallbackFacts', pc = "join", [Next]_vars
    PROVE  Callback' <= Callback /\ (SnapThread => Callback' < Callback)
<1>1. CASE SnapThread
  <2>1. \/ snappc = "valve" /\ snappc' = "idle"
        \/ snappc = "pull" /\ snappc' \in {"open", "stopped"}
        \/ snappc = "open" /\ snappc' \in {"write", "close"}
        \/ snappc = "write" /\ snappc' = "flush"
        \/ snappc = "flush" /\ snappc' = "close"
        \/ snappc = "close" /\ snappc' = "return"
        \/ snappc = "return" /\ snappc' \in {"idle", "stopped"}
    BY <1>1 DEF SnapThread, TakeFrame, PassValve, PullSample, OpenFile,
       WriteFile, FlushFile, CloseValve, ReturnFlow
  <2>2. Callback' < Callback /\ Callback' <= Callback
    BY <2>1 DEF CallbackFacts
  <2> QED  BY <2>2
<1>2. CASE ~SnapThread
  <2>1. snappc' = snappc
    BY <1>2, Zenon DEF Next, Main, Finished, Quiet, FindElements, Connect, SetPlaying, Announce,
       OnSigusr1, SetNull, Join, Release, ReportStopped, Produce, OnFrame,
       Environment, vars, pipeline, snapthread
  <2>2. Callback' = Callback
    BY <2>1, Zenon DEF Callback
  <2>3. Callback \in 0 .. 7
    BY DEF CallbackFacts, PlaceTypes, SnapPcs
  <2> QED  BY <1>2, <2>2, <2>3
<1> QED  BY <1>1, <1>2

(* No reason to end is forgotten: from any state in which a stop signal    *)
(* has been sent or the bus has a message, the main thread takes at most   *)
(* 16 more steps, whatever the camera, the elements and other signals do   *)
(* meanwhile.  A failed snapshot becomes such a reason at the next frame   *)
(* of the camera, which is still streaming.  The cleanup waits for the     *)
(* snapshot thread, which takes at most 7 steps to leave its callback      *)
(* wherever the stop has met it.  With the scheduling that FairSpec        *)
(* assumes, and a camera that delivers for the failed snapshot, this is    *)
(* StopEnds.                                                               *)
THEOREM StopTakesBoundedSteps ==
    Spec => /\ [](Left \in 0 .. 16 /\ (Left = 0 <=> Ended))
            /\ [](snappc = "stopped" => streaming \/ EndAsked)
            /\ [][snappc = "stopped" /\ Produce => EndAsked']_vars
            /\ [][EndAsked => /\ EndAsked' /\ Left' <= Left
                              /\ Main => Left' < Left]_vars
            /\ [](Callback \in 0 .. 7 /\ (Callback = 0 <=> snappc \in {"idle", "stopped"}))
            /\ [][pc = "join" => /\ Callback' <= Callback
                                 /\ SnapThread => Callback' < Callback]_vars
<1>1. Init => AskInv /\ StreamInv
  BY DEF Init, CommonInit, AskInv, StreamInv, Signals, StopSignals
<1>2. TypeOK /\ LoopInv /\ AskInv /\ StreamInv /\ [Next]_vars => (AskInv /\ StreamInv)'
  BY AskStep, StreamStep DEF TypeOK
<1>3. Spec => [](AskInv /\ StreamInv)
  BY <1>1, <1>2, CoreInvariant, PTL DEF Spec
<1>8. StreamInv /\ ReleaseInv /\ TypeOK => (snappc = "stopped" => streaming \/ EndAsked)
  BY StoppedIsTold DEF TypeOK
<1>9. TypeOK /\ [Next]_vars => [snappc = "stopped" /\ Produce => EndAsked']_vars
  BY SourceTells DEF TypeOK
<1>4. TypeOK /\ LeftFacts => Left \in 0 .. 16 /\ (Left = 0 <=> Ended)
  BY LeftRange, Zenon DEF Ended, Alive
<1>5. TypeOK /\ TypeOK' /\ LoopInv /\ LoopInv' /\ AskInv /\ LeftFacts /\ LeftFacts'
      /\ [Next]_vars =>
        [EndAsked => /\ EndAsked' /\ Left' <= Left
                     /\ Main => Left' < Left]_vars
  <2> SUFFICES ASSUME TypeOK, TypeOK', LoopInv, LoopInv', AskInv, LeftFacts,
                      LeftFacts', [Next]_vars, EndAsked
               PROVE  EndAsked' /\ Left' <= Left /\ (Main => Left' < Left)
    BY Zenon
  <2>1. EndAsked'
    BY EndingStays DEF TypeOK
  <2>2. CASE Main
    <3>1. Left' < Left
      BY <2>2, StepsCountDown
    <3>2. Left \in 0 .. 16
      BY LeftRange
    <3>3. Left' \in 0 .. 16
      <4>1. (TypeOK /\ LeftFacts => Left \in 0 .. 16)'
        BY LeftRange, PTL
      <4> QED  BY <4>1
    <3> QED  BY <2>1, <3>1, <3>2, <3>3
  <2>3. CASE ~Main
    BY <2>1, <2>3, OthersWait
  <2> QED  BY <2>2, <2>3
<1>6. TypeOK /\ CallbackFacts =>
        Callback \in 0 .. 7 /\ (Callback = 0 <=> snappc \in {"idle", "stopped"})
  BY DEF TypeOK, PlaceTypes, SnapPcs, CallbackFacts
<1>7. TypeOK /\ CallbackFacts /\ CallbackFacts' /\ [Next]_vars =>
        [pc = "join" => /\ Callback' <= Callback
                        /\ SnapThread => Callback' < Callback]_vars
  <2> SUFFICES ASSUME TypeOK, CallbackFacts, CallbackFacts', [Next]_vars, pc = "join"
               PROVE  Callback' <= Callback /\ (SnapThread => Callback' < Callback)
    BY Zenon
  <2> QED  BY CallbackCountsDown DEF TypeOK
<1> QED
  BY <1>3, <1>4, <1>5, <1>6, <1>7, <1>8, <1>9, LeftAt, CallbackAt, CoreInvariant,
     ReleaseInvariant, PTL DEF Spec
=============================================================================
