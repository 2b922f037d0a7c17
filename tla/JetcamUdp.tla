----------------------------- MODULE JetcamUdp ------------------------------
(***************************************************************************)
(* jetcamd with output=udp: main, the callbacks on Runtime, and the        *)
(* threads of the pipeline that build_udp_pipeline describes.  A tee gives *)
(* every camera frame to two leaky queues; one thread counts and encodes   *)
(* what leaves the first, another passes what leaves the second to a       *)
(* valve, the JPEG encoder and the appsink, whose callback on_snapshot     *)
(* runs in that thread.  The main thread opens the valve on SIGUSR1.       *)
(*                                                                         *)
(* Left out: encoding and sending, the JPEG bytes, and report_fps, which   *)
(* prints every five seconds what no other code reads.                     *)
(***************************************************************************)
EXTENDS Jetcamd

CONSTANTS
    MaxFrames,      \* bound: frames told apart
    EncodeQueue,    \* capacity of the encoder's queue
    Endless,        \* whether frames go on after MaxFrames
    Faults          \* whether elements and files may fail

ASSUME JetcamUdpAssumption ==
    /\ MaxFrames \in Nat /\ EncodeQueue \in Nat \ {0}
    /\ Endless \in BOOLEAN /\ Faults \in BOOLEAN

Frames == 1 .. MaxFrames
NoFrame == 0
Torn == -1       \* a snapshot_file that is truncated or written in part
NoReport == -1

VARIABLES
    snapshotOnStart,  \* config.snapshot_on_start
    streaming,    \* the source thread produces frames
    produced,     \* frames of the camera
    encodeq,      \* frames in the encoder's queue
    frames,       \* Runtime::frames
    stopped,      \* the count printed with state=STOPPED
    snapq,        \* the frame in the snapshot queue
    snappc,       \* where the snapshot thread is
    current,      \* the frame in its hands
    drop,         \* the valve is closed
    saved,        \* on_snapshot's saved
    photo,        \* content of snapshot_file
    unseen,       \* history: the last flush of snapshot_file has failed,
                  \* which the ofstream's destructor tells nobody
    shots,        \* history: frames taken for saved, in order, up to one more
                  \* than there were requests
    requests,     \* history: calls of request_snapshot
    unserved      \* history: a request since a frame last passed the valve

counting == <<encodeq, frames>>
snapthread == <<snappc, current, saved, photo, unseen, shots>>
requested == <<drop, requests, unserved>>
pipeline == <<streaming, produced, counting, snapq, snapthread>>
vars == <<common, snapshotOnStart, pipeline, stopped, requested>>

Init ==
    /\ CommonInit
    /\ snapshotOnStart \in BOOLEAN
    /\ streaming = FALSE /\ produced = 0
    /\ encodeq = 0 /\ frames = 0
    /\ stopped = NoReport
    /\ snapq = NoFrame /\ snappc = "idle" /\ current = NoFrame
    /\ drop = TRUE /\ saved = FALSE
    /\ photo = NoFrame /\ unseen = FALSE /\ shots = <<>>
    /\ requests = 0 /\ unserved = FALSE
-----------------------------------------------------------------------------
(* The main thread. *)

Quiet == UNCHANGED <<snapshotOnStart, pipeline, stopped, requested>>

Goto(label) ==
    /\ pc' = label
    /\ UNCHANGED <<caught, bus, loop, sent, first>>

\* a required element is missing: to the cleanup
FindElements ==
    /\ pc = "elements"
    /\ \/ Goto("connect") /\ code' = code
       \/ Faults /\ Goto("null") /\ code' = 1
    /\ UNCHANGED camera
    /\ Quiet

\* the callbacks, the source of SIGUSR1, the bus watch
Connect ==
    /\ pc = "connect"
    /\ pc' = "play"
    /\ caught' = caught \cup {"SIGUSR1"}
    /\ UNCHANGED <<code, bus, loop, camera, sent, first>>
    /\ Quiet

\* A failure may come after the camera has been claimed.
SetPlaying ==
    /\ pc = "play"
    /\ camera' = "held"
    /\ \/ Goto("announce") /\ streaming' = TRUE /\ code' = code
       \/ Faults /\ Goto("null") /\ code' = 1 /\ UNCHANGED streaming
    /\ UNCHANGED <<snapshotOnStart, produced, counting, snapq, snapthread,
                   stopped, requested>>

RequestSnapshot ==
    /\ drop' = FALSE
    /\ requests' = requests + 1
    /\ unserved' = TRUE

\* snapshot_on_start, and into the loop
Announce ==
    /\ pc = "announce"
    /\ pc' = "loop" /\ running' = TRUE
    /\ IF snapshotOnStart THEN RequestSnapshot ELSE UNCHANGED requested
    /\ UNCHANGED <<code, caught, bus, batch, pending, camera, sent, first>>
    /\ UNCHANGED <<snapshotOnStart, pipeline, stopped>>

\* mistake: the callback returns G_SOURCE_REMOVE
OnSigusr1Remove ==
    /\ Dispatch("SIGUSR1")
    /\ RequestSnapshot
    /\ caught' = caught \ {"SIGUSR1"}
    /\ UNCHANGED <<pc, code, bus, running, camera, sent, first>>
    /\ UNCHANGED <<snapshotOnStart, pipeline, stopped>>

OnSigusr1 ==
    /\ Dispatch("SIGUSR1")
    /\ RequestSnapshot
    /\ UNCHANGED <<pc, code, caught, bus, running, camera, sent, first>>
    /\ UNCHANGED <<snapshotOnStart, pipeline, stopped>>

\* mistake: the cleanup does not wait for the threads
SetNullAsync ==
    /\ pc = "null"
    /\ Goto("release")
    /\ streaming' = FALSE
    /\ camera' = "free"
    /\ UNCHANGED <<code, snapshotOnStart, produced, counting, snapq, snapthread,
                   stopped, requested>>

\* gst_element_set_state(NULL): no thread gets another frame, ...
SetNull ==
    /\ pc = "null"
    /\ Goto("join")
    /\ streaming' = FALSE
    /\ UNCHANGED <<code, camera, snapshotOnStart, produced, counting, snapq,
                   snapthread, stopped, requested>>

\* ... and when they have left their callbacks the camera is given back.
Join ==
    /\ pc = "join"
    /\ snappc \in {"idle", "stopped"}
    /\ pc' = "release"
    /\ camera' = "free"
    /\ bus' = <<>> /\ snapq' = NoFrame /\ encodeq' = 0
    /\ UNCHANGED <<code, caught, loop, sent, first, snapshotOnStart, streaming,
                   produced, frames, snapthread, stopped, requested>>

\* the elements, the pipeline and the loop are released
Release ==
    /\ pc = "release"
    /\ Goto("report")
    /\ UNCHANGED <<code, camera>>
    /\ Quiet

ReportStopped ==
    /\ pc = "report"
    /\ Goto("done")
    /\ stopped' = frames
    /\ UNCHANGED <<code, camera, snapshotOnStart, pipeline, requested>>

Main ==
    \/ (AddStopSources \/ ParsePipeline("elements")) /\ Quiet
    \/ FindElements \/ Connect \/ SetPlaying \/ Announce
    \/ LoopStep /\ Quiet
    \/ OnSigusr1
    \/ SetNull \/ Join \/ Release \/ ReportStopped
-----------------------------------------------------------------------------
(* The camera and the threads of the pipeline. *)

Bounded(n) == IF n > MaxFrames THEN MaxFrames ELSE n

\* A frame reaches the tee.  Both queues are leaky: a full one drops its
\* oldest frame.  A branch that has failed refuses the frame: the source
\* stops and posts the error.
Produce ==
    /\ Alive /\ streaming
    /\ produced < MaxFrames \/ Endless
    /\ produced' = Bounded(produced + 1)
    /\ encodeq' = IF encodeq < EncodeQueue THEN encodeq + 1 ELSE encodeq
    /\ IF snappc = "stopped"
         THEN streaming' = FALSE /\ Post("ERROR") /\ UNCHANGED snapq
         ELSE snapq' = produced' /\ UNCHANGED <<streaming, bus, first>>
    /\ UNCHANGED <<pc, code, caught, loop, camera, sent>>
    /\ UNCHANGED <<snapshotOnStart, frames, snapthread, stopped, requested>>

\* on_frame
OnFrame ==
    /\ Alive /\ pc # "join"
    /\ encodeq > 0
    /\ encodeq' = encodeq - 1
    /\ frames' = Bounded(frames + 1)
    /\ UNCHANGED <<common, snapshotOnStart, streaming, produced, snapq,
                   snapthread, stopped, requested>>

Elsewhere == UNCHANGED <<snapshotOnStart, streaming, produced, counting, stopped>>

TakeFrame ==
    /\ Alive /\ pc # "join"
    /\ snappc = "idle" /\ snapq # NoFrame
    /\ snappc' = "valve" /\ current' = snapq
    /\ snapq' = NoFrame
    /\ UNCHANGED <<common, saved, photo, unseen, shots, requested>>
    /\ Elsewhere

\* a flushing pipeline takes the frame away
PassValve ==
    /\ Alive
    /\ snappc = "valve"
    /\ IF drop \/ pc = "join"
         THEN snappc' = "idle" /\ current' = NoFrame /\ UNCHANGED unserved
         ELSE snappc' = "pull" /\ unserved' = FALSE /\ UNCHANGED current
    /\ UNCHANGED <<common, snapq, saved, photo, unseen, shots, drop, requests>>
    /\ Elsewhere

\* on_snapshot finds a sample; only when the sink is being stopped there may
\* be none, and the callback returns with the valve as it is.
PullSample ==
    /\ Alive
    /\ snappc = "pull"
    /\ \/ snappc' = "open"
       \/ pc = "join" /\ snappc' = "stopped"
    /\ UNCHANGED <<common, snapq, current, saved, photo, unseen, shots, requested>>
    /\ Elsewhere

\* gst_buffer_map and the ofstream, which truncates the file
OpenFile ==
    /\ Alive
    /\ snappc = "open"
    /\ \/ snappc' = "write" /\ photo' = Torn /\ unseen' = FALSE
       \/ Faults /\ snappc' = "close" /\ UNCHANGED <<photo, unseen>>
    /\ UNCHANGED <<common, snapq, current, saved, shots, requested>>
    /\ Elsewhere

\* output.good() is asked while the bytes may still be in the buffer
WriteFile ==
    /\ Alive
    /\ snappc = "write"
    /\ snappc' = "flush"
    /\ \/ /\ saved' = TRUE
          /\ shots' = IF Len(shots) > requests THEN shots ELSE Append(shots, current)
       \/ Faults /\ UNCHANGED <<saved, shots>>
    /\ UNCHANGED <<common, snapq, current, photo, unseen, requested>>
    /\ Elsewhere

\* the destructor of the ofstream: flush and close, whose failure is not seen
FlushFile ==
    /\ Alive
    /\ snappc = "flush"
    /\ snappc' = "close"
    /\ \/ saved /\ photo' = current /\ UNCHANGED unseen
       \/ Faults /\ saved /\ unseen' = TRUE /\ UNCHANGED photo
       \/ ~saved /\ UNCHANGED <<photo, unseen>>
    /\ UNCHANGED <<common, snapq, current, saved, shots, requested>>
    /\ Elsewhere

\* mistake: the valve stays open
CloseValveNever ==
    /\ Alive
    /\ snappc = "close"
    /\ snappc' = "return"
    /\ UNCHANGED <<common, snapq, current, saved, photo, unseen, shots, requested>>
    /\ Elsewhere

CloseValve ==
    /\ Alive
    /\ snappc = "close"
    /\ snappc' = "return"
    /\ drop' = TRUE
    /\ UNCHANGED <<common, snapq, current, saved, photo, unseen, shots, requests,
                   unserved>>
    /\ Elsewhere

\* mistake: GST_FLOW_OK in any case
ReturnFlowOk ==
    /\ Alive
    /\ snappc = "return"
    /\ snappc' = "idle" /\ saved' = FALSE /\ current' = NoFrame
    /\ UNCHANGED <<common, snapq, photo, unseen, shots, requested>>
    /\ Elsewhere

\* GST_FLOW_OK, or GST_FLOW_ERROR, on which the queue's thread stops; the
\* queue keeps the error for the next frame it is given
ReturnFlow ==
    /\ Alive
    /\ snappc = "return"
    /\ snappc' = IF saved THEN "idle" ELSE "stopped"
    /\ saved' = FALSE /\ current' = NoFrame
    /\ UNCHANGED <<common, snapq, photo, unseen, shots, requested>>
    /\ Elsewhere

SnapThread == TakeFrame \/ PassValve \/ PullSample \/ OpenFile \/ WriteFile
                        \/ FlushFile \/ CloseValve \/ ReturnFlow
-----------------------------------------------------------------------------
Environment ==
    /\ ElementPosts \/ \E s \in Signals : Deliver(s)
    /\ Quiet

Finished == Ended /\ UNCHANGED vars

Next == Main \/ Produce \/ OnFrame \/ SnapThread \/ Environment \/ Finished

Spec == Init /\ [][Next]_vars

(* The threads are scheduled. *)
FairSpec == Spec /\ WF_vars(Main) /\ WF_vars(SnapThread)
-----------------------------------------------------------------------------
Pcs == {"sources", "parse", "elements", "connect", "play", "announce", "loop",
        "null", "join", "release", "report", "done", "killed"}
SnapPcs == {"idle", "valve", "pull", "open", "write", "flush", "close", "return",
            "stopped"}

FlagTypes ==
    /\ running \in BOOLEAN /\ snapshotOnStart \in BOOLEAN
    /\ streaming \in BOOLEAN /\ drop \in BOOLEAN
    /\ saved \in BOOLEAN /\ unseen \in BOOLEAN /\ unserved \in BOOLEAN

PlaceTypes == pc \in Pcs /\ snappc \in SnapPcs

FrameTypes ==
    /\ produced \in 0 .. MaxFrames /\ frames \in 0 .. MaxFrames
    /\ encodeq \in 0 .. EncodeQueue
    /\ stopped \in 0 .. MaxFrames \cup {NoReport}
    /\ snapq \in 0 .. MaxFrames /\ current \in 0 .. MaxFrames
    /\ photo \in 0 .. MaxFrames \cup {Torn}
    /\ shots \in Seq(0 .. MaxFrames) /\ requests \in Nat

\* Every variable ranges over its type.
TypeOK == FlagTypes /\ CommonTypes /\ PlaceTypes /\ FrameTypes

\* When the cleanup releases the valve, the elements and the loop, no thread
\* is in a callback that uses them or can get into one, and the count printed
\* with state=STOPPED is final.
ReleasedQuietly ==
    /\ pc \in {"release", "report", "done"} =>
          /\ snappc \in {"idle", "stopped"}
          /\ ~streaming /\ encodeq = 0 /\ snapq = NoFrame
          /\ camera = "free"
    /\ pc = "done" => stopped \in {NoReport, frames}

\* A request opens the snapshot branch for exactly one JPEG (jetcamd.conf:16):
\* there are never more photos than requests, and each is of a later frame.
OnePhotoPerRequest ==
    /\ Len(shots) <= requests
    /\ \A i \in 1 .. Len(shots) - 1 : shots[i] < shots[i + 1]

\* A snapshot_file that is not whole is being written, or its failure is being
\* reported, or the process was killed over it; and a file announced with
\* snapshot=saved is the whole frame.  Both but for the one failure nobody sees:
\* main.cpp:64 asks output.good() before the ofstream is flushed and closed,
\* and then a torn file is announced and stays.
TornIsReported ==
    /\ photo = Torn =>
          \/ snappc \in {"write", "flush"}
          \/ snappc \in {"close", "return"} /\ ~saved
          \/ snappc = "stopped"
          \/ pc = "killed"
          \/ unseen
    /\ snappc \in {"close", "return"} /\ saved => photo = current \/ unseen
    /\ unseen => photo = Torn

\* The UDP service is a CameraService that handles the snapshot signal and
\* cleans up after a failed start: no step of its threads kills it, takes the
\* camera or gives it back in a way that specification does not allow.
Service == INSTANCE CameraService WITH
    listening <- Listening, stops <- Asked, exit <- ExitStatus,
    SnapshotSignal <- TRUE, CleanStart <- TRUE

ImplementsService == Service!Spec

\* SIGINT or SIGTERM ends the service, also before the loop runs and while a
\* snapshot is being written.  So does a failed snapshot, as long as the camera
\* delivers: on_snapshot's GST_FLOW_ERROR stops the queue, and the source finds
\* out with its next frame and posts the ERROR.
StopEnds ==
    /\ (\E s \in StopSignals : sent[s] > 0) ~> Ended
    /\ WF_vars(Produce) => (snappc = "stopped" ~> Ended)

\* While the camera delivers, an open valve is closed again after a JPEG, or
\* the service ends.
RequestServed == WF_vars(Produce) => (~drop ~> drop \/ Ended)

\* "Send SIGUSR1 to save one JPEG" (main.cpp:120): no request is forgotten; the
\* valve is not closed while there is one no frame was taken for.
RequestNotLost == unserved => ~drop
=============================================================================
