# jetcam-stack: TLA+ models, checks and proofs

jetcam-stack drives an IMX219 camera on a Jetson Orin Nano. This directory
keeps a formal model of its programs beside the code: TLA+ modules translated
from the source, TLC configurations that check them on small instances, and
theorems that TLAPS proves for every value of the constants. Paths below are
relative to `src/`.

## The system

| Part | Code | State | Operations |
|---|---|---|---|
| frame accounting | `app/jetcam-raw-test/include/jetcam/capture_stats.hpp` | counters, first/last sequence | `add_frame`, the verdict |
| capture tool | `app/jetcam-raw-test/src/main.cpp` | descriptor, mapped buffers, `streaming_`, `g_stop_signal`, statistics, RAW file | one run from `open` to the exit code |
| UDP service | `app/jetcamd/src/main.cpp`, `pipeline.cpp` | GLib loop and sources, bus, valve, queues, snapshot file, frame count, camera | main, `on_frame`, `on_snapshot`, `request_snapshot`, `quit_loop`, `on_bus_message` |
| RTSP service | `app/jetcamd/src/rtsp_server.cpp` | the same loop, capture pipeline, server | `run_rtsp_server`, its bus handler |
| jetcamd's configuration | `app/jetcamd/src/config.cpp`, `main.cpp:125-169` | `Config` | option loop, load, assign, validate, announce |
| capture tool's options | `app/jetcam-raw-test/src/main.cpp:118-270`, `:384-401` | `Options` | `parse_options`, the rate asked of the driver |
| driver patch | `driver/patches/0001-...patch` | test-pattern control, two registers | set control, synchronise at stream start |
| acceptance scripts | `scripts/*.sh` | child processes, control state | run the programs and judge their output |
| the rest | `baseline/`, `docs/`, overlay patch | data | none |

How they interact: the capture tool talks to the V4L2 driver by system calls,
one thread, interrupted by signals. The service builds a GStreamer pipeline
whose threads call back into it, while its main thread runs a GLib loop that
dispatches signals and bus messages; both sides share the snapshot valve and
the frame counter. The two programs share the camera, one through V4L2 and one
through Argus, never at the same time. In RTSP mode the capture pipeline hands
RTP packets to the server's factory over `127.0.0.1:5400`.

What is hard: signals between any two system calls and in the middle of one;
buffers that change hands between process and driver on every path, error
paths included; sequence numbers that wrap; verdict and exit code that are
read from state a signal may still change; a valve two threads write; a
cleanup that must not release what a callback uses; an error, an end of stream
and signals racing for the exit code; configuration that is put together from
files and options in any order; two register writes of which one may fail;
scripts whose traps run while the programs they test are still at work.
`PROJECT.json` lists each hazard with its line and the properties that watch it.

## Modules

| Module | Models | Extended by |
|---|---|---|
| `CaptureStats` | class `CaptureStats` as operators on records | `FrameLedger`, `RawCapture` |
| `FrameLedger` | the counters beside the true history of frames | `FrameLedgerProofs`; implemented by `RawCapture` |
| `V4l2Session` | abstract: the call order a V4L2 driver demands | implemented by `RawCapture` |
| `RawCapture` | the capture tool, with driver, sensor, clock and signals as environment | `MCRawCapture`, `RawCaptureProofs` |
| `Jetcamd` | GLib loop, Unix signals, bus and bus handlers | `JetcamUdp`, `JetcamRtsp` |
| `JetcamUdp` | the UDP service with its pipeline threads | `JetcamUdpProofs` |
| `JetcamRtsp` | the RTSP service | `JetcamRtspProofs` |
| `CameraService` | abstract: a jetcamd process to whoever starts it | `Stage4Test`; implemented by `JetcamUdp`, `JetcamRtsp` |
| `JetcamConfig` | jetcamd's command line, files, validation, announcement | `MCJetcamConfig`, `JetcamConfigProofs` |
| `RawOptions` | the capture tool's command line | `MCRawOptions`, `RawOptionsProofs` |
| `TestPattern` | the test-pattern control of the driver patch | `Stage3Test` |
| `Stage3Test` | `test-stage3.sh` over the driver and Argus sessions | `Stage3TestProofs` |
| `Stage4Test` | `test-stage4.sh` over a `CameraService` | `Stage4TestProofs` |
| `FrameLedgerProofs` | theorems on the counters | |
| `RawCaptureProofs` | theorems on the capture tool: types and session, verdict, frames and file, its two refinements, the length of a stop | |
| `JetcamUdpProofs` | theorems on the UDP service, its refinement, the length of a stop | |
| `JetcamRtspProofs` | theorems on the RTSP service, its refinement, the length of a stop | |
| `JetcamConfigProofs`, `RawOptionsProofs` | theorems on the two command lines | |
| `Stage3TestProofs`, `Stage4TestProofs` | theorems on the two scripts and the driver patch | |

**CaptureStats, FrameLedger.** `AddFrame` is `add_frame` with its 32-bit
difference: `SeqMod` stands for 2^32, `KBackwardThreshold` for half of it.
Timestamps and `fps()` are left out: no counter depends on them. `FrameLedger`
delivers frames whose true distance it remembers (next frame, losses, a
repetition or a jump back) and compares.

**RawCapture.** One action is one system call together with the straight-line
code up to the next call, so a signal can arrive between any two. `pc` names
the next call. `intr` says that a signal has arrived since the last call: an
interruptible call may then fail with `EINTR`; `xioctl` retries only while
`g_stop_signal` is 0, which no handled signal leaves it, so the retry is not an
action of its own. An exception is `Throw(code)`: the destructor's steps
(`Unwind`, `UnmapBuffer`, `CloseDevice`) run and `main` returns the code. The
driver's side (`owner`, `frame`, `flagged`, `produced`) is external and taken
from how the code uses it: frames are completed into queued buffers, numbered
whether or not they reach one, and given out oldest first. RAW frames are
written in `FrameChunks` calls of `write`. Formats, sizes and the text of the
output are left out, but not the number in the INTERRUPTED line: `Judge` prints
one read of `g_stop_signal` (`printed`), `ReturnSignal` makes the exit code from
a second one, and `late` remembers what arrived in between. The command line is
reduced to the combinations that
`parse_options` lets through (`ValidOptions`). `RawOptions` has the
parsing itself and checks the part of them the capture relies on. `--list` walks the
device's formats, sizes and intervals, each an ioctl that may fail.

**V4l2Session.** Open, grant, map in order, queue, stream on, take and give
one buffer at a time, stream off, unmap, close. Unmapping under a running
stream is allowed only after a `STREAMOFF` that failed. The refinement is by
equal variable names (`Session == INSTANCE V4l2Session`).

**FrameLedger, seen from RawCapture.** The capture loop also implements
`FrameLedger` (`CountsTruly`), with a mapping that is computed: `lost` is the
number of sensor frames between the first and the last one counted that were
not (`Skipped`), `flagged` the faulty ones among those counted, `far` whether
two neighbours were half the number range apart (`Leap`), and `breaks` is 0. So
each counted frame is one delivery of the ledger, and every other step, be it an
`EAGAIN`, a requeue or a save, changes nothing it can see.

**Jetcamd.** GLib is modelled by what the code relies on: an iteration
collects the ready sources and dispatches all of them in the order attached,
also after one of them has called `g_main_loop_quit`; a signal with a source is
remembered once until it is dispatched; a signal without one kills. `quit_loop`
returns `G_SOURCE_REMOVE`, after which GLib restores the default action.
`report_fps` is left out: it prints what no other code reads. So are messages
other than ERROR and EOS, which the handlers ignore.

**JetcamUdp.** Main goes through the program in order; `SetNull` and `Join` are
the two halves of `gst_element_set_state(NULL)`, which waits for the streaming
threads. A frame reaches both leaky queues; `OnFrame` empties the first, and
`TakeFrame` ... `ReturnFlow` are the thread behind the second: valve, encoder
and `on_snapshot`, split where another thread can get in between (the pull, the
truncating open, the write, the flush in the destructor, the closing of the
valve, the return). `WriteFile` ends with `output.good()`; `FlushFile` comes
after it and may fail without anybody looking (`unseen`). A `GST_FLOW_ERROR`
stops the queue's thread, and the source hears of it when it offers the queue
its next frame: then it stops and posts the ERROR (`Produce`).

**JetcamRtsp.** The branch of `main` and `run_rtsp_server`. Clients are inside
gst-rtsp-server and change nothing the program reads.

**CameraService.** What a shell or a service manager can rely on: handlers are
installed before the camera is claimed; from then on one stop signal never
kills; the camera is given back before the process exits. Both modes implement
it (`Service == INSTANCE CameraService WITH ...`: `listening` is "the stop
sources exist", `stops` the stop signals sent, `exit` the exit code or 128).
They differ in two constants: the UDP service handles `SIGUSR1` and gives the
camera back after a failed start, the RTSP service does neither. `Stage4Test`
builds on the abstract process, not on one mode.

**JetcamConfig.** A key or value is a `Text`: blanks, a word, a number. Files
and arguments are strings that `Split` takes apart at the first `=`. `ReadLine`
and `CloseFile` are `load_config`, `ConfigOption` ... `WrongArgument` the
branches of main's loop, `Validate` and `Announce` what follows it. The lines of
a file are those read up to its end or to a read error, which the code does not
tell apart; a directory is a file without lines. A text key may hold its default
or any value a line or an assignment gives it (`Texts`).

**RawOptions.** One action per kind of branch of `parse_options`; `Meaning`
says for every option what its text stands for, or that it is refused.
`Numeral` is what `strtoull` and `strtod` find in a text; doubles count
ten-thousandths, so positive values below 0.0001, overflow and infinities are
not among them. The widths of the integer types are constants, because TLC's
own integers have 32 bits: the instance has a 17-bit `U64Max`, a 16-bit
`U32Max` and a 15-bit `IntMax`, in the same order as the real ones, and values
at and just beyond each. The theorems hold for every width.

**TestPattern.** `SetControl` is an `S_CTRL`; `WriteMsb` and `WriteLsb` are the
two writes of `imx219_set_test_pattern`, each of which may fail with or without
effect; `StartStream` powers the sensor on and writes the control again,
because the patch adds it to `tegracam_sync_cids`. The framework around the
patch is external and modelled by what the patch relies on, as the module's
head says.

**Stage3Test.** The script's commands in order and its EXIT trap, with the tools
it runs as processes of their own. Each is forked by one step and does its work
in later ones: a `v4l2-ctl` its call of the driver (`setter`), the capture tool
its stream. A signal ends the script at any command, in the trap as well, from
where it does not come back, and any number of times. Ctrl-C ends the tool too;
SIGTERM leaves it running, before, in or after its call (`orphans`). Argus
sessions take the camera at any moment and may leave `bypass_mode` behind.

**Stage4Test.** The script's commands in order, for each mode, and its trap,
which runs when the foreground command has ended and does not exit. Ctrl-C
reaches script and service; a background command ignores SIGINT until jetcamd
installs its own handler. `Modes` services run one after the other.

## Runs

| Run | Shows | Bounds |
|---|---|---|
| `frame_ledger` | counters equal true losses and regressions; `sequence_ok` is never wrong; first, last, frames and dropped agree modulo the range | 12 sequence numbers, 4 frames: several wraps, jumps at and around half the range |
| `raw_capture` | no buffer leaks, RAW file faithful, PASS sound, limits kept, exit code and RESULT agree up to what arrives between their two reads, device released, call order, the counters are a ledger of the frames taken | 2 buffers (the least the tool accepts), 3 sensor frames, first number 7 of 8 so it wraps, 2 signals, faults in every call, 5 command lines |
| `raw_capture_stop` | a signal or the deadline ends the tool; a sensor that falls silent ends a run without limits | endless command lines, 1 signal, spurious readiness without end, 3 frames and then silence |
| `raw_capture_interrupt` | *violation*: a signal at a poll timeout is reported as TIMEOUT | as above |
| `jetcam_udp` | errors reach the exit code, one photo per request and each of a later frame, torn files reported but for an unseen flush, quiet cleanup; it implements `CameraService`, so that one stop signal never abandons the camera | 3 signals of any kind (two equal ones and another), 2 frames, 1 element message beside the snapshot's own |
| `jetcam_udp_stop` | a stop signal ends the service; while the camera delivers, a snapshot that failed does so too, and an opened valve is closed again after a JPEG, or the service ends | 2 signals; frames go on for ever, with one number |
| `jetcam_udp_lost` | *violation*: a request during the previous snapshot is lost | 2 requests, 2 frames, no faults |
| `jetcam_rtsp` | the pipeline is stopped before it is destroyed, the service ends; it implements `CameraService` | 3 signals, 2 messages |
| `jetcam_config` | nothing invalid is accepted, the last assignment wins, nothing wrong is passed over | six arguments: a file, two assignments, or two files and one; six files (both modes, half a mode, a bad line, a value out of range, a directory); values at and beyond the ends of ranges |
| `raw_options` | accepted values are in range and the saved frame within the limit, the last value wins, a refusal has its cause, the rate is the requested one | three options, every option with values at the ends of its range |
| `stage4_test` | PASS is earned, no service left behind, the camera abandoned only with help from outside, the script ends | two modes, two signals from outside (Ctrl-C and SIGTERM), at any command |
| `stage3_test` | a streaming sensor shows the control, PASS means the two right patterns, the pattern is restored with three exceptions that are all there are, a bypassed capture has a late session | two Argus sessions (one before and one after the guard), failing commands and writes, any number of signals at any command, tool or place in the trap |

The bounds are where the cases the properties speak of all occur: a save on the
first and on the last frame, losses and flagged frames next to good ones, a
second signal after the first was seen, a queue that is full. Frames and
signals are bounded in the guards (`MaxSensorFrames`, `MaxSignals`,
`MaxFrames`, `MaxMessages`); `MaxSensorFrames` is also the silence of the
sensor. 64-bit counters are not wrapped.

### Fairness

`RawCapture!FairSpec`: weak fairness of the program's steps (every system call
returns; `poll` by its timeout) and of the clock reaching the deadline. Nothing
is assumed of sensor, signals or the driver. `JetcamUdp!FairSpec`: the main
thread and the snapshot thread are scheduled; `RequestServed`, and `StopEnds` for
a failed snapshot, ask for a camera that delivers, and say so themselves
(`WF_vars(Produce) => ...`), as
`SilentSensorEnds` asks for a `poll` that has stopped to report frames that are
not there. `JetcamRtsp!FairSpec`: the main thread is scheduled.
`Stage4Test!Fairness`: the script goes on, and a service that was
asked to end gives the camera back and exits, which is what `jetcam_udp_stop`
and `jetcam_rtsp` show of the two modes (`StopEnds`, `ServiceEnds`). It is
strong for the exit because the abstract service may claim the camera again.
Whether a call takes its failing or its succeeding outcome is never assumed.

### What disagrees

The two violation runs are findings, quoted in `PROJECT.json`: TIMEOUT reported
for an interrupted wait; a snapshot request lost while the previous one is being
written.

What the other modules state as it is, beside what a document says:

- The failure path of `run_rtsp_server` destroys its pipeline without taking it
  to NULL (`rtsp_server.cpp:81-86`; `docs/stage4-video-service.md:37-38`
  describes the exit as going through NULL), and SIGUSR1 has no source in RTSP
  mode and kills the service with the camera held, although the usage text
  (`app/jetcamd/src/main.cpp:120`) offers it. Both are causes `ServedIsStopped`
  admits, and the two promises of `CameraService` the RTSP service is without
  (`CleanStart`, `SnapshotSignal`).
- RTSP mode prints neither `state=STOPPED` nor `metric=frames`, which
  `docs/jetcamd-usage.md` §9 describes for the program as a whole.
- `parse_unsigned` refuses a minus sign at the very front of a value only:
  behind a blank `strtoull` takes it modulo 2^64, so `--width ' -131070'` of
  the scaled instance is 2. `OptionsInRange` says no more than that the result
  lies in the option's range.
- A rate below 0.0005 passes `--fps` and asks the driver for an interval of
  1/0, which `RateIsRequested` admits as the only rate that is not the
  requested one.

The stage 4 script can hang, and the property that says when is
`EndsUnlessIgnored`: a service that is sent SIGINT before it has installed its
handlers ignores it, and `wait` in the script waits for a service nobody has
asked to end. `AbandonedNeedsInterrupt` says the same of its other weakness:
Ctrl-C and the trap's own SIGINT make two, and two abandon the camera.

Other properties name their exceptions too, and what they show is that there
are no more:

- `ExitMatchesResult`: `main.cpp:714` prints `g_stop_signal` and `:716` reads it
  again. A second, different signal between the two makes a line with `signal=2`
  and exit code 143. The code is that of the signal printed, or of one that
  arrived after the line; and INTERRUPTED always goes with such a code.
- `TornIsReported`: `main.cpp:64` asks `output.good()` before the ofstream is
  flushed and closed. When that fails, a torn file is announced with
  `snapshot=saved`. A write that fails before is always reported, and a process
  killed over the file leaves it torn.
- `StopEnds`: a snapshot that failed ends the service only with the camera's
  next frame.
- `PatternRestored`: the script can end with a pattern set if the trap's
  `v4l2-ctl` fails (its status is ignored), if a second signal ends the script in
  the trap before that call is done, or if the `v4l2-ctl` of Color Bars was
  forked, lost its script to a SIGTERM, and calls the driver after the trap.
- `PassMeansBars`: a driver that streams although its synchronisation failed
  (`unsynced`).

## Proofs

The proofs hold for every value of the constants that the named assumptions
allow: a sequence range of at least eight numbers (`SeqModAssumption`), at
least two buffers, a frame of any number of chunks, none included, and fewer
sensor frames than sequence numbers (`RawCaptureAssumption`), an encoder queue of
at least one frame (`JetcamUdpAssumption`), and natural numbers for the bounds
(`JetcamdAssumption`, `Stage3TestAssumption`, `Stage4TestAssumption`; at least
one mode). `OptionsAssumption` says that the command lines are ones
`parse_options` accepts. `JetcamConfigAssumption` says what the files, the
arguments and `Split` are; `RawOptionsAssumption` orders the integer types by
their width, lets an `int` hold the default timeout and gives the default pixel
format its four characters. In both, files and command lines have any content,
and `MaxArgs` and `MaxOptions` any value.

*Frame ledger.* The remainder the code computes from two wrapped numbers is the
true distance when that is below the range (`DeltaRecoversDistance`), and
remainders shift under addition (`RemainderShift`). From these the invariant
"counters = history as long as every jump was within half the range" is
inductive: `LedgerTheorem`, `CleanTheorem` and `RangeTheorem` follow.

*Capture tool.* `BuffersAccounted` alone is not inductive: whether a path may
requeue, unmap or close depends on where the program is. `SessionInv` says for
every `pc` what is open, granted, mapped, queued and streaming, and which
buffer is held. With the types it is inductive; it gives `BuffersTheorem`,
`ReleasedTheorem`, and, because each call then meets the precondition of the
protocol, the step simulation of `Implements` (`RawCapture` implements
`V4l2Session`).

The verdict adds what the loop knows when it leaves (`VerdictInv`: which
result and code belong to which place; `StopInv`: how many frames may still be
counted after a signal) for `ExitTellsResult` and `StopIsPrompt`.
`FrameInv` is the part about frames, in four conjuncts: the
frames in the driver's buffers are in the order of the sensor and later than
all taken (`SensorInv`); the counters are those of the frames taken, so that
clean counters mean consecutive frames (`TallyInv`); what a verdict rests on
(`EndInv`); and the file holds a prefix of the frame in hand, whose buffer the
driver does not own (`FileInv`). It yields `PassMeansAllFrames` and
`FileHoldsTheFrame`. Fewer sensor frames than sequence numbers is needed here:
otherwise a loss of a whole cycle is invisible to any program.

`CountsFollowLedger` is the second refinement. Its step needs that a frame
taken is later than the last one counted (`SensorInv`), and that there are never
fewer sensor frames than counted ones (`CountInv`: the i-th frame counted is at
least the sensor's i-th), which keeps the ledger within its bound; a dequeued
frame is then `FirstFrame` or `Advance` of the ledger, and what the
ledger adds to `lost` is the change of `Skipped`. The theorems about the ledger
are instantiated with the mapping (`Proved`), so that `DroppedIsSkipped`
states them of the tool's own counters.

*How long a stop takes.* That a stop is honoured (`StopHonoured`, `StopEnds`,
`ServiceEnds`) is liveness and stays with TLC. The part of the argument that
does not rest on fairness is proved as a safety property, once for each
program (`StopTakesBoundedSteps`): when a reason to end is there, it stays; a
measure `Left` falls with every step of the main thread, whatever outcome the
step has; no step of the camera, the elements, other threads or signals raises
it; and it is 0 exactly at the exit. What fairness adds is that the thread is
scheduled and that its calls return. The measure is the way of the control flow
to the exit, with what is repeated on it: chunks still to be written, buffers to
be queried, mapped, queued and unmapped (at most `4 * MaxBuffers + FrameChunks + 22`
steps of the capture tool), sources the loop still has to dispatch (14 steps of
the RTSP service, 16 of the UDP service). For the services it needs `AskInv`:
until the loop has been told to quit, a stop signal that was sent is pending,
wherever the start-up was when it came, so an iteration of the loop cannot find
nothing to do. After a failed snapshot it is the source's next frame that asks
for the end: while the queue's thread is stopped, the source is still streaming
or the end has been asked for, and the frame it produces posts the ERROR
(`StreamInv`). The UDP service's cleanup waits for the snapshot thread in
`join`; there a second measure, `Callback`, bounds the thread's steps by 7.

*UDP service.* Each theorem has its own inductive part, so that a change in the
code breaks as few as possible:

| Theorem | Strengthening | Argument |
|---|---|---|
| `TypeCorrect` | `LoopInv` | a message is dispatched only while there is one, so `Tail` is safe |
| `PhotosMatchRequests` | `PhotoInv`, `OrderInv` | past the valve it is open; an open valve is owed a photo; a frame in hand is newer than all photos and older than the one queued behind it |
| `TornIsAlwaysReported` | `PhotoInv`, `TornInv` | what fails while the file is torn is not saved, unless the flush failed unseen |
| `CleanupIsQuiet` | `ReleaseInv` | the source is silent from `set_state(NULL)` on, so after the join the pipeline stays empty |
| `OneStopIsSafe` | `SourceInv` | while the camera is held, a stop signal without a source has been sent before |
| `ErrorDecidesExitCode` | `FirstInv` (on `LoopInv`, `ReleaseInv`) | an ERROR that came first heads the bus, and a stop signal that ends the loop is dispatched in an iteration that has seen the bus |

`PhotosMatchRequests` assumes `~Endless`: with `Endless` the camera's later
frames share the number `MaxFrames` (a device of the liveness runs), so their
order is not visible in the model.

*Refinement.* The last part of `JetcamUdpProofs` shows that each step of the UDP service is
a step of `CameraService` or a stutter. It needs from `SourceInv` that a stop
signal without a source was sent before, and from `ReleaseInv` that the camera
is free when the process exits.

*RTSP service.* `CaptureInv` says for every `pc` where capture pipeline and
camera are, `SourceInv` which signals have lost their source. `ServedStops` and
`RtspIsCameraService` follow from both; `ErrorDecidesExitCode` has its
`FirstInv` as in the UDP service, with `CaptureInv` to say that messages come
only from the loop on.

*Command lines.* Both properties called `LastWins` speak of a maximum over all
positions of the command line, which a step that appends to it disturbs
everywhere. The invariants name the maximum by a witness instead (`LastOf`: a
member that none exceeds), so that an appended argument either is the new
witness or leaves the old one; `MaxIsLast` leads back to `Max`. In
`JetcamConfig` the same is done for the lines of the file being read
(`FileSaysUpTo`): while it is read, `loaded` holds what its first lines say
(`LineInv`), and the program's `config` is untouched, as a file that turns out
to be wrong must leave it. `SaidInv` and `RightInv` then hold at every place
where the command line is complete, and `ClosedInv` says that an option waiting
for its value is never the last of such a list, so that an append cannot change
what came before. `ValidInv` keeps each key in its range (`ValuesTyped`: no
conversion returns a value outside it). `RawOptions` needs no such care: an
option and its value arrive together, and what refuses a command line is its
last argument, so `RefusedForCause` is inductive beside the types.

`RateIsRequestedHolds` is arithmetic. The divisor of `set_frame_rate` is a
maximum over a set of common divisors; `MaxExists` finds it by the
well-foundedness of the naturals, and `LowestTerms` shows for any two numbers
that divided by their greatest common divisor they have none left. Because an
accepted rate is at most `U32Max`, both parts of the fraction fit, and a
denominator of 0 needs a rate below half a thousandth.

*Stage 3 script.* `DriverInv` follows one call through its two register writes:
a call is one of the stream's start exactly while the sensor is powered and not
yet streaming, and a streaming sensor with no call at work holds the control in
its registers unless a write failed. It does not depend on the script and gives
`StreamShowsControlHolds`. `ControlInv` says at each command what the control
is; that until a signal sends the script to its trap, every call of the driver is
that of the `v4l2-ctl` the script waits for; and that behind the trap's own the
pattern is disabled and no call at work sets another (`Settled`), unless an
orphan came late. `FileInv` says what each file holds from its capture on,
`GuardInv` that a bypass seen behind the guard belongs to a session begun behind
it. `PassMeansBarsHolds`, `PatternRestoredHolds` and
`BypassTakesLateSessionHolds` read these off.

*Stage 4 script.* The trap does not exit: it runs wherever the script is and
comes back. What holds at a command must therefore hold throughout a cleanup
that returns to it, and the invariants speak of `In(labels)`: at one of these
commands, or in a cleanup that will go back to one. `PlaceInv` says that a
service which has been started and not waited for is in `active_pid`, so that
any cleanup finds it (`NoServiceLeftHolds`); `StatusInv` that as long as nothing
has failed one status 0 was noted for each service (`PassIsEarnedHolds`);
`QuietInv` that before the first signal from outside the cleanup runs only at
the end, and has sent a living service at most the one SIGINT it is waiting for
(`AbandonedNeedsInterruptHolds`). Services are those of `CameraService`, so this
holds for whatever implements it; the two refinements say that both modes do.

## Left to the model checker, and left out

Every safety invariant of the runs, the call order and the refinements are
proved. Some theorems have no run beside them: the type invariants of
`FrameLedger`, `JetcamUdp` and `JetcamRtsp`, the RTSP service's
`ErrorReachesExitCode`, `OneStopIsSafe` of the UDP service, which the refinement
of `CameraService` contains, `DroppedIsSkipped`, which follows from
`CountsTruly`, and `StopTakesBoundedSteps` of the three programs, whose lively
counterparts the runs check.

Model-checked only are the liveness properties (`StopHonoured`,
`SilentSensorEnds`, `StopEnds`, `RequestServed`, `ServiceEnds`,
`EndsUnlessIgnored`): they rest on fairness, hence on ENABLED, which the provers
do not handle. The abstract specifications state no fairness; their refinements
are about steps only.

Not modelled:

- the text of logs and records, number formatting, encoding and networking; the
  wording of the three pipeline texts, in which addresses, port and payload type
  are written once per file (`pipeline.cpp`, `rtsp_server.cpp`, `config.cpp`);
- a source that becomes ready between GLib's poll and its check: an iteration
  collects what is ready in one step, so `ErrorReachesExitCode` says nothing of
  an ERROR posted in that gap while a stop signal is already seen;
- gst-rtsp-server's clients, which change nothing the program reads;
- `report_fps` and the PROGRESS lines, which only print;
- `test-stage2.sh`, which runs the capture tool three times in the foreground
  under `set -e` and looks at the size of a file;
- `test-stage4-stability.sh`, which is one mode of the stage 4 script, trap
  included, with `tegrastats` as a second background process;
- the overlay patch (static device-tree data), `collect-baseline.sh` (reads the
  host and stores text), recorded evidence;
- `jetcamctl`, `systemd` and the tests directories, which hold no code.

## Plan

1. done: frame accounting, capture tool, UDP and RTSP service, their proofs.
2. done: configuration and both command lines, the driver patch, the stage 3
   and stage 4 scripts, the abstract service and its two refinements.
3. done: the invariants of both command lines, of the driver patch and of the
   two scripts as theorems, for instances of any size.
4. done: the refinement of `FrameLedger` by the capture loop's counters, and
   the length of a stop as a theorem for the three programs.
5. next: the second background process of `test-stage4-stability.sh`.
