------------------------------ MODULE Jetcamd -------------------------------
(***************************************************************************)
(* What the two modes of the video service jetcamd share: the GLib main    *)
(* loop with its sources, the Unix signals and the pipeline's bus.  One    *)
(* iteration of the loop collects every source that is ready and           *)
(* dispatches all of them, in the order they were attached, even after     *)
(* one of them has told the loop to quit.  A signal without a source has   *)
(* its default action: the process dies where it stands.  GLib removes the *)
(* source of a stop signal when quit_loop returns G_SOURCE_REMOVE, and     *)
(* with it the handler.  GLib and GStreamer are external to the            *)
(* repository: they are modelled by what the code relies on.               *)
(***************************************************************************)
EXTENDS Integers, Sequences

CONSTANTS
    MaxSignals,   \* bound: signals sent
    MaxMessages   \* bound: messages of the pipeline's elements on the bus

ASSUME JetcamdAssumption == MaxSignals \in Nat /\ MaxMessages \in Nat

StopSignals == {"SIGINT", "SIGTERM"}
Signals == StopSignals \cup {"SIGUSR1"}
Messages == {"ERROR", "EOS"}

VARIABLES
    pc,        \* the call the main thread makes next
    code,      \* exit_code
    caught,    \* signals with a source
    pending,   \* caught signals waiting to be dispatched
    bus,       \* messages waiting on the pipeline's bus
    running,   \* the loop has been run and not been told to quit
    batch,     \* sources the current iteration still has to dispatch
    camera,    \* "free", "held" by this process, "abandoned" by its death
    sent,      \* history: how often each signal was sent
    first      \* history: the first event that asked the service to end

loop == <<running, batch, pending>>
common == <<pc, code, caught, bus, loop, camera, sent, first>>

CommonInit ==
    /\ pc = "sources" /\ code = 0
    /\ caught = {} /\ pending = {} /\ bus = <<>>
    /\ running = FALSE /\ batch = {}
    /\ camera = "free"
    /\ sent = [s \in Signals |-> 0] /\ first = "none"

Alive == pc \notin {"done", "killed"}
Ended == ~Alive

\* the source of SIGINT and the source of SIGTERM
AddStopSources ==
    /\ pc = "sources"
    /\ pc' = "parse"
    /\ caught' = caught \cup StopSignals
    /\ UNCHANGED <<code, bus, loop, camera, sent, first>>

\* gst_parse_launch; a text it cannot parse ends the program at once
ParsePipeline(next) ==
    /\ pc = "parse"
    /\ \/ pc' = next /\ code' = code
       \/ pc' = "done" /\ code' = 1
    /\ UNCHANGED <<caught, bus, loop, camera, sent, first>>

FirstOf(event) == IF first = "none" THEN event ELSE first

\* an element posts a message on the bus
Post(message) ==
    /\ bus' = Append(bus, message)
    /\ first' = FirstOf(message)

\* Any element of a pipeline that has left NULL may report an error, and the
\* source the end of the stream.
ElementPosts ==
    /\ Alive /\ camera = "held"
    /\ Len(bus) < MaxMessages
    /\ \E message \in Messages : Post(message)
    /\ UNCHANGED <<pc, code, caught, loop, camera, sent>>
-----------------------------------------------------------------------------
(* The loop. *)

Sources == <<"SIGINT", "SIGTERM", "SIGUSR1", "bus">>
SourceSet == Signals \cup {"bus"}
Before(s, t) == \E i, j \in 1 .. 4 : i < j /\ Sources[i] = s /\ Sources[j] = t

Iterate ==
    /\ pc = "loop" /\ running /\ batch = {}
    /\ batch' = pending \cup (IF bus = <<>> THEN {} ELSE {"bus"})
    /\ UNCHANGED <<pc, code, caught, bus, running, pending, camera, sent, first>>

\* it is the turn of source s
Dispatch(s) ==
    /\ pc = "loop" /\ s \in batch
    /\ \A t \in batch : ~Before(t, s)
    /\ batch' = batch \ {s}
    /\ pending' = pending \ {s}

\* mistake: quit_loop gives up its source and forgets the loop
QuitLoopForgets(s) ==
    /\ Dispatch(s)
    /\ caught' = caught \ {s}
    /\ UNCHANGED <<pc, code, bus, running, camera, sent, first>>

QuitLoop(s) ==
    /\ Dispatch(s)
    /\ running' = FALSE
    /\ caught' = caught \ {s}
    /\ UNCHANGED <<pc, code, bus, camera, sent, first>>

\* mistake: an error quits like the end of the stream
CodeAfterUnset(message) == code

CodeAfter(message) == IF message = "ERROR" THEN 1 ELSE code

\* mistake: an error is only printed
OnBusMessageStays ==
    /\ Dispatch("bus")
    /\ bus' = Tail(bus)
    /\ code' = CodeAfter(Head(bus))
    /\ running' = (running /\ Head(bus) = "ERROR")
    /\ UNCHANGED <<pc, caught, camera, sent, first>>

\* on_bus_message and on_capture_bus_message: one message each time
OnBusMessage ==
    /\ Dispatch("bus")
    /\ bus' = Tail(bus)
    /\ code' = CodeAfter(Head(bus))
    /\ running' = FALSE
    /\ UNCHANGED <<pc, caught, camera, sent, first>>

LeaveLoop ==
    /\ pc = "loop" /\ ~running /\ batch = {}
    /\ pc' = "null"
    /\ UNCHANGED <<code, caught, bus, loop, camera, sent, first>>

\* what both modes dispatch
LoopStep == Iterate \/ (\E s \in StopSignals : QuitLoop(s)) \/ OnBusMessage \/ LeaveLoop
-----------------------------------------------------------------------------
(* Signals. *)

Deliver(s) ==
    /\ Alive
    /\ sent["SIGINT"] + sent["SIGTERM"] + sent["SIGUSR1"] < MaxSignals
    /\ sent' = [sent EXCEPT ![s] = @ + 1]
    /\ first' = IF s \in StopSignals THEN FirstOf("signal") ELSE first
    /\ \/ /\ s \in caught
          /\ pending' = pending \cup {s}
          /\ UNCHANGED <<pc, camera>>
       \/ /\ s \notin caught
          /\ pc' = "killed"
          /\ camera' = IF camera = "held" THEN "abandoned" ELSE camera
          /\ UNCHANGED pending
    /\ UNCHANGED <<code, caught, bus, running, batch>>

\* The process as a CameraService.
Listening == pc \notin {"sources", "killed"}
Asked == {s \in StopSignals : sent[s] > 0}
ExitStatus == IF pc = "done" THEN code ELSE IF pc = "killed" THEN 128 ELSE -1

CommonTypes ==
    /\ code \in {0, 1, 3}
    /\ caught \in SUBSET Signals /\ pending \in SUBSET Signals
    /\ bus \in Seq(Messages) /\ batch \in SUBSET SourceSet
    /\ camera \in {"free", "held", "abandoned"}
    /\ sent \in [Signals -> Nat]
    /\ first \in {"none", "signal"} \cup Messages

\* If an ERROR is what first asks the service to end, the exit code says so,
\* whatever signals and messages follow it before the loop has looked at the
\* bus (jetcamd-usage.md:216).
ErrorReachesExitCode == pc = "done" /\ first = "ERROR" => code = 1

\* One stop signal never makes the service abandon the camera: that takes the
\* same signal a second time, after quit_loop has given up its source.
AbandonedNeedsTwo ==
    camera = "abandoned" => \E s \in StopSignals : sent[s] >= 2
=============================================================================
