----------------------------- MODULE RawCapture -----------------------------
(***************************************************************************)
(* The capture tool jetcam-raw-test: run_capture and the class V4l2Device  *)
(* of src/app/jetcam-raw-test/src/main.cpp.  One action is one system call *)
(* together with the straight-line code that follows it, so that a signal  *)
(* can arrive between any two of them, as it can in the program: the       *)
(* handler stores the signal number in g_stop_signal and the rest of the   *)
(* program finds it there when it next looks.  A call that a signal        *)
(* interrupts fails with EINTR.  The V4L2 driver and the sensor are the    *)
(* environment: what they may do is taken from how the code uses them.     *)
(*                                                                         *)
(* Left out: formats, rates and sizes as values, timestamps, the PROGRESS  *)
(* records, --help.  The deadline of --duration is an event, Expire.       *)
(***************************************************************************)
EXTENDS CaptureStats, Integers, Sequences, FiniteSets

CONSTANTS
    MaxBuffers,       \* bound: buffers the driver grants
    MaxSensorFrames,  \* bound: frames the sensor produces before it falls silent
    MaxSignals,       \* bound: signals sent
    FirstSeq,         \* sequence number of the first sensor frame
    FrameChunks,      \* write() calls one RAW frame takes, 0 for an empty buffer
    OptionChoices,    \* command lines to explore
    Spurious,         \* whether poll may report ready without a frame
    Faults            \* whether calls may fail for reasons of their own

SIGINT == 2
SIGTERM == 15
NoBuffer == -1
NoSignal == -1

(* The command line.  frames = 0: no --frames limit; saveAt = 0: no        *)
(* --save-frame; timed: a --duration is given; mode: not "none".           *)
Options == [list : BOOLEAN, mode : BOOLEAN, timed : BOOLEAN,
            allowDrops : BOOLEAN, frames : Nat, saveAt : Nat]

\* what parse_options lets through
ValidOptions == {o \in Options : o.frames # 0 => o.saveAt <= o.frames}

ASSUME RawCaptureAssumption ==
    /\ MaxBuffers \in Nat /\ MaxBuffers >= 2
    /\ MaxSensorFrames \in Nat /\ MaxSensorFrames < SeqMod
    /\ MaxSignals \in Nat
    /\ FirstSeq \in SeqNum
    /\ FrameChunks \in Nat
    /\ Spurious \in BOOLEAN /\ Faults \in BOOLEAN

ASSUME OptionsAssumption == \A o \in OptionChoices : o \in ValidOptions

Buffers == 0 .. MaxBuffers - 1
SensorFrames == 1 .. MaxSensorFrames

VARIABLES
    \* the process
    opts,       \* the parsed command line
    pc,         \* the system call the program makes next
    stop,       \* g_stop_signal
    intr,       \* a signal arrived while the program was at pc
    streaming,  \* V4l2Device::streaming_
    stats,      \* CaptureStats
    saved,      \* run_capture's saved
    held,       \* index of the buffer dequeued and not yet requeued
    file,       \* chunks of the RAW output, each the frame it came from
    result,     \* status of the RESULT line printed
    printed,    \* its signal=, 0 without one
    code,       \* exit code, -1 until one is decided
    \* the driver and the sensor
    fd, granted, mapped, owner, kstream, refused,   \* see V4l2Session
    frame,      \* frame number in each buffer's memory, 0 for none
    flagged,    \* frames the driver flagged V4L2_BUF_FLAG_ERROR
    produced,   \* frames the sensor has produced
    \* time and signals
    expired,    \* --duration has elapsed
    sigs,       \* signals sent
    \* history
    taken,      \* frames counted, in order
    atStop,     \* frames counted when the first signal arrived, or NoSignal
    late        \* signals that arrived between the INTERRUPTED line and its return

session == <<fd, granted, mapped, owner, kstream, refused>>
sensor == <<frame, flagged, produced>>
signals == <<stop, atStop, sigs, late>>
tally == <<stats, taken>>
output == <<held, file, saved>>
verdict == <<result, printed, code>>
control == <<pc, intr>>
vars == <<opts, streaming, session, sensor, signals, tally, output, verdict,
          control, expired>>

LoopPcs == {"check", "poll", "recheck", "dequeue", "create", "write",
            "closeout", "refuse", "requeue"}

Init ==
    /\ opts \in OptionChoices
    /\ pc = "open" /\ stop = 0 /\ intr = FALSE
    /\ streaming = FALSE /\ stats = NewStats
    /\ saved = FALSE /\ held = NoBuffer /\ file = <<>>
    /\ result = "none" /\ printed = 0 /\ code = -1
    /\ fd = FALSE /\ granted = 0 /\ mapped = {}
    /\ owner = [b \in Buffers |-> "user"]
    /\ kstream = FALSE /\ refused = FALSE
    /\ frame = [b \in Buffers |-> 0] /\ flagged = {}
    /\ produced = 0
    /\ expired = FALSE /\ sigs = 0
    /\ taken = <<>> /\ atStop = NoSignal /\ late = {}
-----------------------------------------------------------------------------
Goto(label) == pc' = label /\ intr' = FALSE

\* mistake: the error path calls exit instead of unwinding
ThrowExits(exitCode) ==
    /\ Goto("done")
    /\ code' = exitCode
    /\ UNCHANGED <<result, printed>>

\* an exception leaves run_capture: the destructor runs, main picks the code
Throw(exitCode) ==
    /\ Goto("unwind")
    /\ code' = exitCode
    /\ UNCHANGED <<result, printed>>

Proceed(label) == Goto(label) /\ UNCHANGED verdict

\* xioctl gives up with -1: the driver refused the call, or a signal
\* interrupted it.  The retry on EINTR needs g_stop_signal = 0, which no
\* handled signal leaves behind.
CallFails == Faults \/ (intr /\ stop # 0)

\* mistake: only one of the two signals ends the run
StopRequestedInt == stop = SIGINT

StopRequested == stop # 0

Least(set) == {b \in set : \A c \in set : b <= c}   \* {the least}, or {}

\* mistake: the sequence number kept in a wider type
SeqOfWide(n) == FirstSeq + n - 1

\* the driver's __u32 v4l2_buffer.sequence of the n-th sensor frame
SeqOf(n) == (FirstSeq + n - 1) % SeqMod

\* what a call to the driver leaves alone, and a call that changes nothing
Quiet == UNCHANGED <<opts, streaming, sensor, signals, tally, output, expired>>
Idle == Quiet /\ UNCHANGED session
-----------------------------------------------------------------------------
(* Opening and configuring the device. *)

\* The constructor of V4l2Device: if it throws there is no destructor to run.
Open ==
    /\ pc = "open"
    /\ \/ fd' = TRUE /\ Proceed("querycap")
       \/ /\ CallFails /\ fd' = fd
          /\ Goto("done") /\ code' = 3 /\ UNCHANGED <<result, printed>>
    /\ Quiet
    /\ UNCHANGED <<granted, mapped, owner, kstream, refused>>

\* A configuration call: VIDIOC_QUERYCAP, QUERY_EXT_CTRL and S_EXT_CTRLS of
\* sensor_mode, S_FMT, S_PARM.  An out-of-range mode or rate is an
\* invalid_argument, hence code 2.
Configure(here, next, rangeChecked) ==
    /\ pc = here
    /\ \/ Proceed(next)
       \/ CallFails /\ Throw(3)
       \/ Faults /\ rangeChecked /\ Throw(2)
    /\ Idle

QueryCapabilities ==
    Configure("querycap", IF opts.list THEN "list"
                          ELSE IF opts.mode THEN "mode" ELSE "format", FALSE)
QuerySensorMode == Configure("mode", "setmode", TRUE)
SetSensorMode == Configure("setmode", "format", FALSE)
SetFormat == Configure("format", "rate", FALSE)
SetFrameRate == Configure("rate", "reqbufs", TRUE)

(* --list, three nested loops; EINVAL means that there is no more.  Each   *)
(* size of a format is a step of its own, and so is each interval of a     *)
(* discrete size.                                                          *)
EnumerateFormats ==
    /\ pc = "list"
    /\ \/ Proceed("sizes")
       \/ Goto("unwind") /\ code' = 0 /\ result' = "PASS" /\ UNCHANGED printed
       \/ CallFails /\ Throw(3)
    /\ Idle

EnumerateSizes ==
    /\ pc = "sizes"
    /\ \/ \E next \in {"list", "sizes", "intervals"} : Proceed(next)
       \/ CallFails /\ Throw(3)
    /\ Idle

EnumerateIntervals ==
    /\ pc = "intervals"
    /\ \/ \E next \in {"sizes", "intervals"} : Proceed(next)
       \/ CallFails /\ Throw(3)
    /\ Idle

RequestBuffers ==
    /\ pc = "reqbufs"
    /\ \/ /\ granted' \in 0 .. MaxBuffers
          /\ IF granted' < 2 THEN Throw(3) ELSE Proceed("map")
       \/ CallFails /\ Throw(3) /\ granted' = granted
    /\ Quiet
    /\ UNCHANGED <<fd, mapped, owner, kstream, refused>>

\* VIDIOC_QUERYBUF of the next buffer, ...
QueryBuffer ==
    /\ pc = "map"
    /\ \/ Proceed("mmap")
       \/ CallFails /\ Throw(3)
    /\ Idle

\* ... and its mmap, which no signal interrupts
MapBuffer ==
    /\ pc = "mmap"
    /\ \/ \E b \in Least({c \in Buffers : c < granted /\ c \notin mapped}) :
             /\ mapped' = mapped \cup {b}
             /\ Proceed(IF b + 1 = granted THEN "qbuf" ELSE "map")
       \/ Faults /\ Throw(3) /\ mapped' = mapped
    /\ Quiet
    /\ UNCHANGED <<fd, granted, owner, kstream, refused>>

QueueInitial ==
    /\ pc = "qbuf"
    /\ \/ \E b \in Least({c \in mapped : owner[c] = "user"}) :
             /\ owner' = [owner EXCEPT ![b] = "queued"]
             /\ Proceed(IF b + 1 = granted THEN "streamon" ELSE "qbuf")
       \/ CallFails /\ Throw(3) /\ owner' = owner
    /\ Quiet
    /\ UNCHANGED <<fd, granted, mapped, kstream, refused>>

StreamOn ==
    /\ pc = "streamon"
    /\ \/ kstream' = TRUE /\ streaming' = TRUE /\ Proceed("check")
       \/ CallFails /\ Throw(3) /\ UNCHANGED <<kstream, streaming>>
    /\ UNCHANGED <<opts, sensor, signals, tally, output, expired>>
    /\ UNCHANGED <<fd, granted, mapped, owner, refused>>
-----------------------------------------------------------------------------
(* The capture loop. *)

\* mistakes: one frame too many; a deadline that nobody looks at
LimitReachedLate ==
    \/ opts.frames # 0 /\ stats.frames > opts.frames
    \/ opts.timed /\ expired

LimitReachedNoDeadline == opts.frames # 0 /\ stats.frames >= opts.frames

LimitReached ==
    \/ opts.frames # 0 /\ stats.frames >= opts.frames
    \/ opts.timed /\ expired

CheckLoop ==
    /\ pc = "check"
    /\ Proceed(IF StopRequested \/ LimitReached THEN "streamoff" ELSE "poll")
    /\ Idle

Done == {b \in Buffers : owner[b] = "done"}

\* wait_for_frame.  With g_stop_signal set an interrupted poll counts as ready.
PollReady ==
    /\ pc = "poll"
    /\ Done # {} \/ (intr /\ stop # 0) \/ Spurious
    /\ Proceed("recheck")
    /\ Idle

\* mistake: a timeout only starts the next wait
PollTimeoutRetries ==
    /\ pc = "poll"
    /\ Done = {}
    /\ Proceed("check")
    /\ Idle

PollTimeout ==
    /\ pc = "poll"
    /\ Done = {}
    /\ Goto("unwind") /\ result' = "TIMEOUT" /\ code' = 4 /\ UNCHANGED printed
    /\ Idle

\* POLLHUP, POLLNVAL or an errno other than EINTR
PollFails ==
    /\ pc = "poll"
    /\ Faults
    /\ Throw(3)
    /\ Idle

Recheck ==
    /\ pc = "recheck"
    /\ Proceed(IF StopRequested THEN "streamoff" ELSE "dequeue")
    /\ Idle

\* frames leave the driver in the order they were completed
Oldest == {b \in Done : \A c \in Done : frame[b] <= frame[c]}

SaveNow(count) == opts.saveAt # 0 /\ ~saved /\ count = opts.saveAt

\* mistakes: a flagged frame is skipped with `continue`; or saved like any other
AfterCountSkips(count, bufferError) ==
    IF bufferError THEN "check" ELSE IF SaveNow(count) THEN "create" ELSE "requeue"

AfterCountTrusts(count, bufferError) ==
    IF SaveNow(count) THEN "create" ELSE "requeue"

AfterCount(count, bufferError) ==
    IF ~SaveNow(count) THEN "requeue"
    ELSE IF bufferError THEN "refuse" ELSE "create"

\* VIDIOC_DQBUF, add_frame and the decision what to do with the frame
Dequeue ==
    /\ pc = "dequeue"
    /\ \E b \in Oldest :
          LET n == frame[b]
              bufferError == n \in flagged
          IN  /\ owner' = [owner EXCEPT ![b] = "user"]
              /\ held' = b
              /\ stats' = AddFrame(stats, SeqOf(n), bufferError)
              /\ taken' = Append(taken, n)
              /\ Proceed(AfterCount(stats'.frames, bufferError))
    /\ UNCHANGED <<opts, streaming, sensor, signals, expired, file, saved>>
    /\ UNCHANGED <<fd, granted, mapped, kstream, refused>>

\* mistake: EAGAIN taken for a frame, with the number of the one before
DequeueNothingCounts ==
    /\ pc = "dequeue"
    /\ Done = {}
    /\ stats' = AddFrame(stats, stats.last, FALSE) /\ taken' = taken
    /\ Proceed("check")
    /\ UNCHANGED <<opts, streaming, sensor, signals, output, expired, session>>

\* EAGAIN: the wake-up brought no frame
DequeueNothing ==
    /\ pc = "dequeue"
    /\ Done = {}
    /\ Proceed("check")
    /\ Idle

\* The call fails, or the buffer it returned does not pass the range check.
DequeueFails ==
    /\ pc = "dequeue"
    /\ \/ CallFails /\ owner' = owner
       \/ Faults /\ \E b \in Oldest : owner' = [owner EXCEPT ![b] = "user"]
    /\ Throw(3)
    /\ Quiet
    /\ UNCHANGED <<fd, granted, mapped, kstream, refused>>

\* VIDIOC_QBUF of the held buffer; after a refusal to save, an exception.
Requeue ==
    /\ pc \in {"requeue", "refuse"}
    /\ \/ /\ owner' = [owner EXCEPT ![held] = "queued"]
          /\ held' = NoBuffer
          /\ IF pc = "refuse" THEN Throw(3) ELSE Proceed("check")
       \/ CallFails /\ Throw(3) /\ UNCHANGED <<owner, held>>
    /\ UNCHANGED <<opts, streaming, sensor, signals, tally, expired, file, saved>>
    /\ UNCHANGED <<fd, granted, mapped, kstream, refused>>
-----------------------------------------------------------------------------
(* save_buffer: open with O_TRUNC, write until nothing remains, close.  An *)
(* interrupted write is repeated whatever g_stop_signal says.              *)

CreateOutput ==
    /\ pc = "create"
    /\ \/ /\ file' = <<>>
          /\ Proceed(IF FrameChunks = 0 THEN "closeout" ELSE "write")
       \/ CallFails /\ Throw(3) /\ file' = file
    /\ UNCHANGED <<opts, streaming, sensor, signals, tally, expired, held, saved, session>>

WriteChunk ==
    /\ pc = "write"
    /\ \/ /\ file' = Append(file, frame[held])
          /\ Proceed(IF Len(file') = FrameChunks THEN "closeout" ELSE "write")
       \/ Faults /\ Throw(3) /\ file' = file
    /\ UNCHANGED <<opts, streaming, sensor, signals, tally, expired, held, saved, session>>

CloseOutput ==
    /\ pc = "closeout"
    /\ \/ saved' = TRUE /\ Proceed("requeue")
       \/ CallFails /\ Throw(3) /\ saved' = saved
    /\ UNCHANGED <<opts, streaming, sensor, signals, tally, expired, held, file, session>>
-----------------------------------------------------------------------------
(* The end of the run. *)

AllUser == [b \in Buffers |-> "user"]

StopStreaming ==
    /\ pc = "streamoff"
    /\ \/ /\ kstream' = FALSE /\ owner' = AllUser /\ streaming' = FALSE
          /\ Proceed("judge")
          /\ UNCHANGED refused
       \/ /\ CallFails /\ Throw(3)
          /\ refused' = TRUE
          /\ UNCHANGED <<kstream, owner, streaming>>
    /\ UNCHANGED <<opts, sensor, signals, tally, output, expired, fd, granted, mapped>>

Passed == SequenceOk(stats) \/ opts.allowDrops

\* The verdict.  The INTERRUPTED line prints g_stop_signal, and the return
\* after it reads g_stop_signal again for the exit code.
Judge ==
    /\ pc = "judge"
    /\ IF StopRequested
         THEN /\ Goto("interrupted") /\ result' = "INTERRUPTED"
              /\ printed' = stop /\ code' = code
         ELSE IF opts.saveAt # 0 /\ ~saved
         THEN Throw(3)
         ELSE /\ Goto("unwind")
              /\ result' = IF Passed THEN "PASS" ELSE "FAIL"
              /\ code' = IF Passed THEN 0 ELSE 5
              /\ UNCHANGED printed
    /\ Idle

\* mistake: the signal is printed, and the verdict returned
InterruptedCodeVerdict == IF Passed THEN 0 ELSE 5

InterruptedCode == 128 + stop

ReturnSignal ==
    /\ pc = "interrupted"
    /\ Goto("unwind") /\ code' = InterruptedCode /\ UNCHANGED <<result, printed>>
    /\ Idle

\* mistake: a destructor that relies on close to end the stream
UnwindWithoutStop ==
    /\ pc = "unwind"
    /\ streaming' = FALSE
    /\ Proceed("unmap")
    /\ UNCHANGED <<opts, sensor, signals, tally, output, expired, session>>

\* ~V4l2Device: one STREAMOFF whose result nobody looks at, ...
Unwind ==
    /\ pc = "unwind"
    /\ \/ /\ streaming
          /\ kstream' = FALSE /\ owner' = AllUser /\ UNCHANGED refused
       \/ /\ streaming /\ CallFails
          /\ refused' = TRUE /\ UNCHANGED <<kstream, owner>>
       \/ ~streaming /\ UNCHANGED <<kstream, owner, refused>>
    /\ streaming' = FALSE
    /\ Proceed("unmap")
    /\ UNCHANGED <<opts, sensor, signals, tally, output, expired, fd, granted, mapped>>

\* ... every mapped buffer unmapped, ...
UnmapBuffer ==
    /\ pc = "unmap"
    /\ \E b \in Least(mapped) : mapped' = mapped \ {b}
    /\ Proceed("unmap")
    /\ Quiet
    /\ UNCHANGED <<fd, granted, owner, kstream, refused>>

\* ... and the descriptor closed, which makes the driver drop what is left.
CloseDevice ==
    /\ pc = "unmap"
    /\ mapped = {}
    /\ fd' = FALSE /\ kstream' = FALSE /\ granted' = 0 /\ owner' = AllUser
    /\ Proceed("done")
    /\ Quiet
    /\ UNCHANGED <<mapped, refused>>

Step ==
    \/ Open \/ QueryCapabilities
    \/ EnumerateFormats \/ EnumerateSizes \/ EnumerateIntervals
    \/ QuerySensorMode \/ SetSensorMode \/ SetFormat \/ SetFrameRate
    \/ RequestBuffers \/ QueryBuffer \/ MapBuffer \/ QueueInitial \/ StreamOn
    \/ CheckLoop \/ PollReady \/ PollTimeout \/ PollFails \/ Recheck
    \/ Dequeue \/ DequeueNothing \/ DequeueFails \/ Requeue
    \/ CreateOutput \/ WriteChunk \/ CloseOutput
    \/ StopStreaming \/ Judge \/ ReturnSignal
    \/ Unwind \/ UnmapBuffer \/ CloseDevice
-----------------------------------------------------------------------------
(* The environment. *)

process == <<opts, pc, streaming, tally, output, verdict>>

\* handle_signal, for SIGINT and SIGTERM, at any moment
Signal ==
    /\ pc # "done"
    /\ sigs < MaxSignals
    /\ stop' \in {SIGINT, SIGTERM}
    /\ intr' = TRUE
    /\ sigs' = sigs + 1
    /\ atStop' = IF atStop = NoSignal THEN stats.frames ELSE atStop
    /\ late' = IF pc = "interrupted" THEN late \cup {stop'} ELSE late
    /\ UNCHANGED <<process, session, sensor, expired>>

\* The sensor completes a frame: into a queued buffer, or, with none queued
\* or a frame lost on the link, nowhere; the driver numbers it either way.
NextFrame ==
    /\ kstream
    /\ produced < MaxSensorFrames
    /\ produced' = produced + 1

FillBuffer ==
    /\ NextFrame
    /\ \E b \in Buffers :
          /\ owner[b] = "queued"
          /\ owner' = [owner EXCEPT ![b] = "done"]
          /\ frame' = [frame EXCEPT ![b] = produced']
    /\ flagged' \in {flagged, flagged \cup {produced'}}
    /\ UNCHANGED <<process, intr, signals, expired>>
    /\ UNCHANGED <<fd, granted, mapped, kstream, refused>>

MissFrame ==
    /\ NextFrame
    /\ UNCHANGED <<process, intr, session, signals, expired, frame, flagged>>

Expire ==
    /\ opts.timed /\ pc \in LoopPcs /\ ~expired
    /\ expired' = TRUE
    /\ UNCHANGED <<process, intr, session, sensor, signals>>

Finished == pc = "done" /\ UNCHANGED vars

Next == Step \/ Signal \/ FillBuffer \/ MissFrame \/ Expire
             \/ Finished

Spec == Init /\ [][Next]_vars

(* Every call returns (poll by its timeout at the latest), so the program  *)
(* goes on; and the clock reaches the deadline of --duration.              *)
FairSpec == Spec /\ WF_vars(Step) /\ WF_vars(Expire)
-----------------------------------------------------------------------------
Pcs == LoopPcs \cup
       {"open", "querycap", "list", "sizes", "intervals", "mode",
        "setmode", "format", "rate", "reqbufs", "map", "mmap", "qbuf",
        "streamon", "streamoff", "judge", "interrupted", "unwind", "unmap",
        "done"}

FlagTypes ==
    /\ intr \in BOOLEAN /\ streaming \in BOOLEAN /\ saved \in BOOLEAN
    /\ fd \in BOOLEAN /\ kstream \in BOOLEAN /\ refused \in BOOLEAN
    /\ expired \in BOOLEAN

DataTypes ==
    /\ opts \in OptionChoices /\ pc \in Pcs
    /\ stop \in {0, SIGINT, SIGTERM}
    /\ stats \in Stats
    /\ held \in Buffers \cup {NoBuffer}
    /\ result \in {"none", "PASS", "FAIL", "TIMEOUT", "INTERRUPTED"}
    /\ printed \in {0, SIGINT, SIGTERM} /\ late \subseteq {SIGINT, SIGTERM}
    /\ code \in {-1, 0, 2, 3, 4, 5, 128, 128 + SIGINT, 128 + SIGTERM}
    /\ granted \in 0 .. MaxBuffers /\ mapped \in SUBSET Buffers
    /\ owner \in [Buffers -> {"user", "queued", "done"}]
    /\ frame \in [Buffers -> Nat] /\ flagged \in SUBSET Nat
    /\ produced \in Nat
    /\ sigs \in Nat
    /\ atStop \in Nat \cup {NoSignal}

HistoryTypes == file \in Seq(Nat) /\ taken \in Seq(Nat)

\* Every variable ranges over its type.
TypeOK == FlagTypes /\ DataTypes /\ HistoryTypes

\* No path through the loop (EAGAIN, a refused save, a save, a signal) leaks
\* a buffer: while the stream runs the tool holds the one it is working on
\* and the driver has all the others; back at the loop head it has them all.
BuffersAccounted ==
    /\ pc \in {"check", "poll", "recheck", "dequeue", "streamoff"} => held = NoBuffer
    /\ pc \in LoopPcs \cup {"streamoff"} =>
          \A b \in 0 .. granted - 1 : owner[b] = "user" <=> b = held

\* The RAW file holds one whole frame, the one --save-at asks for and one the
\* driver did not flag, although the driver goes on filling buffers and
\* signals arrive during the writes; a run that gives a verdict has saved it.
SnapshotFaithful ==
    /\ \A i \in 1 .. Len(file) :
          /\ opts.saveAt \in 1 .. Len(taken)
          /\ file[i] = taken[opts.saveAt]
          /\ file[i] \notin flagged
    /\ saved => Len(file) = FrameChunks
    /\ code \in {0, 5} /\ opts.saveAt # 0 => saved \/ opts.list

\* Without --allow-drops PASS means what it says: consecutive sensor frames,
\* none flagged, and the limit or the deadline reached.
PassIsSound ==
    result = "PASS" /\ ~opts.allowDrops /\ ~opts.list =>
        /\ \A i \in 1 .. Len(taken) - 1 : taken[i + 1] = taken[i] + 1
        /\ \A i \in 1 .. Len(taken) : taken[i] \notin flagged
        /\ LimitReached

\* --frames is never exceeded, and after the first signal at most one more
\* frame is counted, however long the signal takes to be noticed.
StopsInTime ==
    /\ opts.frames # 0 => stats.frames <= opts.frames
    /\ atStop # NoSignal => stats.frames <= atStop + 1

CodeTellsResult ==
    /\ code = 0 <=> result = "PASS"
    /\ code = 5 <=> result = "FAIL"
    /\ code = 4 <=> result = "TIMEOUT"
    /\ code \in {128 + SIGINT, 128 + SIGTERM} <=> result = "INTERRUPTED"
    /\ code \in {2, 3} <=> result = "none"

CodeTellsSignal ==
    result = "INTERRUPTED" => \E n \in {printed} \cup late : code = 128 + n

\* The exit code and the RESULT line tell the same story, on every path.  Two
\* reads of g_stop_signal make them (main.cpp:714, 716): the exit code of an
\* interrupted run is that of the signal the line names, unless other signals
\* arrived after the line was written, and then it may be that of one of them:
\* a line with signal=2 and exit code 143 are possible together, but only so.
ExitMatchesResult == pc = "done" => CodeTellsResult /\ CodeTellsSignal

\* Whatever ended the run, a device that was opened is given back: nothing
\* mapped, not streaming, closed, so that the next run can open it
\* (jetcam-raw-test-usage.md:376-377).
ReleasedAtExit ==
    pc = "done" => ~fd /\ mapped = {} /\ ~kstream /\ ~streaming

\* The calls the driver sees are in the order it demands.
Session == INSTANCE V4l2Session
CallOrder == Session!Spec

(* The ledger of FrameLedger, read off the frames that were counted: the   *)
(* sensor frames between the first and the last of them that were not, the *)
(* flagged ones, and whether two were half the number range apart.         *)
Skipped == IF taken = <<>> THEN 0
           ELSE taken[Len(taken)] + 1 - taken[1] - Len(taken)
FlaggedTaken == Cardinality({i \in 1 .. Len(taken) : taken[i] \in flagged})
Leap == \E i \in 1 .. Len(taken) - 1 :
           taken[i + 1] - taken[i] >= KBackwardThreshold

Ledger == INSTANCE FrameLedger
          WITH MaxFrames <- MaxSensorFrames, lost <- Skipped, breaks <- 0,
               flagged <- FlaggedTaken, far <- Leap

\* The counters of the loop are those of a source whose frames come in order:
\* through requeued buffers, EAGAIN, a slow save and a stream stopped early,
\* every frame is counted once, with its own number, and none goes back.
CountsTruly == Ledger!Spec

\* A SIGINT or SIGTERM, and --duration, end the program, wherever they find it
\* and even if poll keeps reporting a frame that is not there; the loops of --list do not
\* look at it and end with what the driver has to list.
StopHonoured == (stop # 0 \/ opts.timed) /\ ~opts.list ~> pc = "done"

\* A sensor that falls silent does not hang a run without limits, once poll
\* has stopped to report frames that are not there.
SilentSensorEnds ==
    <>[][PollReady => Done # {} \/ (intr /\ stop # 0)]_vars
        => (produced = MaxSensorFrames ~> pc = "done")

\* The exit codes of jetcam-raw-test-usage.md:309-312: a run that has received
\* SIGINT or SIGTERM ends as interrupted, it does not report a timeout.
TimeoutIsNotInterrupt ==
    [][result' = "TIMEOUT" /\ result = "none" => stop = 0]_vars
=============================================================================
