----------------------------- MODULE JetcamRtsp -----------------------------
(***************************************************************************)
(* jetcamd with output=rtsp: the branch of main and run_rtsp_server.  The  *)
(* capture pipeline sends RTP to 127.0.0.1:5400, where the shared factory  *)
(* of the RTSP server picks it up; the process owns the pipeline, the      *)
(* server's clients come and go inside gst-rtsp-server, which is external  *)
(* and not modelled.  SIGUSR1 has no source in this mode.                  *)
(***************************************************************************)
EXTENDS Jetcamd

VARIABLES
    built,     \* compiled with JETCAM_HAVE_RTSP_SERVER
    capture,   \* state of the capture pipeline, or how it was destroyed
    server     \* "none", "idle" without its source, "attached", "destroyed"

CaptureStates == {"none", "NULL", "READY", "PLAYING", "destroyed", "destroyed live"}
ServerStates == {"none", "idle", "attached", "destroyed"}

rtsp == <<capture, server>>
vars == <<common, built, rtsp>>

Init == CommonInit /\ built \in BOOLEAN /\ capture = "none" /\ server = "none"
-----------------------------------------------------------------------------
Goto(label) ==
    /\ pc' = label
    /\ UNCHANGED <<caught, bus, loop, sent, first, built>>

NotBuilt ==
    /\ pc = "parse" /\ ~built
    /\ Goto("done") /\ code' = 3
    /\ UNCHANGED <<camera, rtsp>>

ParseCapture ==
    /\ built
    /\ ParsePipeline("server")
    /\ capture' = IF code' = 0 THEN "NULL" ELSE capture
    /\ UNCHANGED <<built, server>>

\* the server, its mount point and the shared factory
CreateServer ==
    /\ pc = "server"
    /\ Goto("attach") /\ server' = "idle"
    /\ UNCHANGED <<code, camera, capture>>

\* unref of the last reference: what happens depends on the state left
Destroyed(state) == IF state = "NULL" THEN "destroyed" ELSE "destroyed live"

AttachServer ==
    /\ pc = "attach"
    /\ \/ Goto("play") /\ server' = "attached" /\ UNCHANGED <<code, capture>>
       \/ /\ Goto("done") /\ code' = 1
          /\ server' = "destroyed" /\ capture' = Destroyed(capture)
    /\ UNCHANGED camera

\* The failure path releases the pipeline in the state it has got to.
SetPlaying ==
    /\ pc = "play"
    /\ \/ /\ pc' = "loop" /\ running' = TRUE
          /\ capture' = "PLAYING" /\ camera' = "held"
          /\ UNCHANGED <<code, caught, bus, batch, pending, sent, first, built, server>>
       \/ \E reached \in {"NULL", "READY"} :
             /\ Goto("done") /\ code' = 1
             /\ capture' = Destroyed(reached)
             /\ camera' = IF reached = "NULL" THEN camera ELSE "abandoned"
             /\ server' = "destroyed"

\* mistake: the loop's end releases the pipeline as the failure path does
SetNullSkipped ==
    /\ pc = "null"
    /\ Goto("release")
    /\ UNCHANGED <<code, camera, rtsp>>

SetNull ==
    /\ pc = "null"
    /\ Goto("release")
    /\ capture' = "NULL" /\ camera' = "free"
    /\ UNCHANGED <<code, server>>

\* first the pipeline, then the server
Release ==
    /\ pc = "release"
    /\ Goto("done")
    /\ capture' = Destroyed(capture) /\ server' = "destroyed"
    /\ UNCHANGED <<code, camera>>

Main ==
    \/ AddStopSources /\ UNCHANGED <<built, rtsp>>
    \/ NotBuilt \/ ParseCapture \/ CreateServer \/ AttachServer \/ SetPlaying
    \/ LoopStep /\ UNCHANGED <<built, rtsp>>
    \/ SetNull \/ Release

Environment ==
    /\ ElementPosts \/ \E s \in Signals : Deliver(s)
    /\ UNCHANGED <<built, rtsp>>

Finished == Ended /\ UNCHANGED vars

Next == Main \/ Environment \/ Finished

Spec == Init /\ [][Next]_vars

(* The main thread is scheduled. *)
FairSpec == Spec /\ WF_vars(Main)
-----------------------------------------------------------------------------
\* Every variable ranges over its type.
TypeOK ==
    /\ CommonTypes
    /\ pc \in {"sources", "parse", "server", "attach", "play", "loop", "null",
               "release", "done", "killed"}
    /\ running \in BOOLEAN /\ built \in BOOLEAN
    /\ capture \in CaptureStates /\ server \in ServerStates

\* Whoever ends the loop, the capture pipeline is stopped before it is
\* destroyed, and the camera is free (stage4-video-service.md:36-38); what is
\* left behind takes a failed start, a second stop signal or a SIGUSR1.
ServedIsStopped ==
    /\ pc = "done" /\ code = 0 => capture = "destroyed"
    /\ camera = "abandoned" =>
          \/ pc = "done" /\ code = 1 /\ capture = "destroyed live"
          \/ sent["SIGUSR1"] > 0
          \/ \E s \in StopSignals : sent[s] >= 2

\* The RTSP service is a CameraService too, without the two promises: SIGUSR1
\* and a failed start may leave the camera abandoned.
Service == INSTANCE CameraService WITH
    listening <- Listening, stops <- Asked, exit <- ExitStatus,
    SnapshotSignal <- FALSE, CleanStart <- FALSE

ImplementsService == Service!Spec

\* SIGINT, SIGTERM, a pipeline error and the end of the stream end the service.
ServiceEnds ==
    (\E s \in StopSignals : sent[s] > 0) \/ bus # <<>> ~> Ended
=============================================================================
