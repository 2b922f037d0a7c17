-------------------------- MODULE RawCaptureProofs --------------------------
(***************************************************************************)
(* Proofs about RawCapture for any number of buffers, sensor frames and    *)
(* signals and for every command line that parse_options accepts: the      *)
(* session with the driver, the verdict a run tells its caller, and what   *)
(* PASS and the RAW file are worth.                                        *)
(***************************************************************************)
EXTENDS RawCapture, FiniteSetTheorems, TLAPS

USE DEF Buffers, NoBuffer, NoSignal, SIGINT, SIGTERM

(* A number below SeqMod is its own remainder, one in the next cycle loses *)
(* SeqMod.  Used wherever uint32_t arithmetic wraps at most once.          *)
LEMMA RemainderOnce ==
    ASSUME NEW x \in Nat
    PROVE  /\ x < SeqMod => x % SeqMod = x
           /\ SeqMod <= x /\ x < 2 * SeqMod => x % SeqMod = x - SeqMod
           /\ x % SeqMod \in SeqNum
  BY SeqModAssumption DEF SeqNum

(* add_frame keeps the counters in their types. *)
LEMMA AddFrameType ==
    ASSUME NEW s \in Stats, NEW q \in SeqNum, NEW e \in BOOLEAN
    PROVE  AddFrame(s, q, e) \in Stats
<1>1. s.last \in Nat /\ s.last < SeqMod /\ q \in Nat /\ SeqMod \in Nat
  BY SeqModAssumption DEF Stats, SeqNum
<1>2. Delta(s, q) \in Nat
  BY <1>1, RemainderOnce DEF Delta, SeqNum
<1> QED  BY <1>2 DEF AddFrame, Stats, Missing, IsGap

(* The Boolean variables keep their type.  These steps are first-order and *)
(* go to Zenon; the other variables need arithmetic and sets.              *)
LEMMA FlagStep == FlagTypes /\ [Next]_vars => FlagTypes'
<1> SUFFICES ASSUME FlagTypes, [Next]_vars PROVE FlagTypes'
  OBVIOUS
<1> USE DEF FlagTypes, Goto, Proceed, Throw, Quiet, Idle, session, sensor,
            signals, tally, output, verdict, control
<1>1. CASE \/ Open \/ QueryCapabilities \/ QuerySensorMode \/ SetSensorMode
           \/ SetFormat \/ SetFrameRate \/ EnumerateFormats \/ EnumerateSizes \/ EnumerateIntervals
  BY <1>1, Zenon DEF Open, QueryCapabilities, QuerySensorMode, SetSensorMode, SetFormat,
                     SetFrameRate, Configure, EnumerateFormats,
                     EnumerateSizes, EnumerateIntervals
<1>2. CASE RequestBuffers \/ QueryBuffer \/ MapBuffer \/ QueueInitial \/ StreamOn
  BY <1>2, Zenon DEF RequestBuffers, QueryBuffer, MapBuffer, QueueInitial, StreamOn
<1>3. CASE CheckLoop \/ PollReady \/ PollTimeout \/ PollFails \/ Recheck
  BY <1>3, Zenon DEF CheckLoop, PollReady, PollTimeout, PollFails, Recheck
<1>4. CASE Dequeue \/ DequeueNothing \/ DequeueFails \/ Requeue
  BY <1>4, Zenon DEF Dequeue, DequeueNothing, DequeueFails, Requeue
<1>5. CASE CreateOutput \/ WriteChunk \/ CloseOutput
  BY <1>5, Zenon DEF CreateOutput, WriteChunk, CloseOutput
<1>6. CASE StopStreaming \/ Judge \/ ReturnSignal
  BY <1>6, Zenon DEF StopStreaming, Judge, ReturnSignal
<1>7. CASE Unwind \/ UnmapBuffer \/ CloseDevice
  BY <1>7, Zenon DEF Unwind, UnmapBuffer, CloseDevice
<1>8. CASE Signal \/ FillBuffer \/ MissFrame \/ Expire
  BY <1>8, Zenon DEF Signal, FillBuffer, MissFrame, NextFrame, Expire, process
<1>9. CASE UNCHANGED vars
  BY <1>9, Zenon DEF vars
<1> QED
  BY <1>1, <1>2, <1>3, <1>4, <1>5, <1>6, <1>7, <1>8, <1>9 DEF Next, Step, Finished

(* Every other variable keeps its type. *)
LEMMA DataStep == DataTypes /\ [Next]_vars => DataTypes'
<1> SUFFICES ASSUME DataTypes, [Next]_vars PROVE DataTypes'
  OBVIOUS
<1> USE DEF DataTypes, Goto, Proceed, Throw, Quiet, Idle, session, sensor,
            signals, tally, output, verdict, control
<1>0. ASSUME pc' \in Pcs, code' \in {code, 0, 2, 3}, result' \in {result, "PASS"},
             granted' \in 0 .. MaxBuffers,
             owner' \in [Buffers -> {"user", "queued", "done"}],
             UNCHANGED <<opts, stop, stats, held, mapped, frame, flagged,
                         produced, sigs, atStop, printed, late>>
      PROVE  DataTypes'
  BY <1>0
<1>1. CASE Open
  <2>1. pc' \in {"querycap", "done"} /\ code' \in {code, 3}
    BY <1>1, Zenon DEF Open
  <2>2. pc' \in Pcs
    BY <2>1 DEF Pcs, LoopPcs
  <2>3. UNCHANGED <<opts, stop, stats, held, result, granted, mapped, owner, frame,
                  flagged, produced, sigs, atStop, printed, late>>
    BY <1>1, Zenon DEF Open
  <2> QED  BY <1>0, <2>1, <2>2, <2>3
<1>2. CASE QueryCapabilities \/ QuerySensorMode \/ SetSensorMode \/ SetFormat \/ SetFrameRate
  <2>1. PICK here, next, checked : Configure(here, next, checked)
                                   /\ next \in {"list", "mode", "setmode", "format", "rate", "reqbufs"}
    BY <1>2 DEF QueryCapabilities, QuerySensorMode, SetSensorMode, SetFormat, SetFrameRate
  <2>2. pc' \in {next, "unwind"} /\ code' \in {code, 2, 3}
    BY <2>1, Zenon DEF Configure
  <2>3. pc' \in Pcs
    BY <2>1, <2>2 DEF Pcs
  <2>4. UNCHANGED <<opts, stop, stats, held, result, granted, mapped, owner, frame,
                    flagged, produced, sigs, atStop, printed, late>>
    BY <2>1, Zenon DEF Configure
  <2> QED  BY <1>0, <2>2, <2>3, <2>4
<1>3. CASE EnumerateFormats \/ EnumerateSizes \/ EnumerateIntervals
  <2>1. CASE EnumerateFormats
    <3>1. pc' \in {"sizes", "unwind"} /\ code' \in {code, 0, 3}
      BY <2>1 DEF EnumerateFormats
    <3>2. pc' \in Pcs
      BY <3>1 DEF Pcs, LoopPcs
    <3>3. result' \in {result, "PASS"}
      BY <2>1, Zenon DEF EnumerateFormats
    <3>4. UNCHANGED <<opts, stop, stats, held, granted, mapped, owner, frame, flagged,
                     produced, sigs, atStop, printed, late>>
      BY <2>1, Zenon DEF EnumerateFormats
    <3> QED  BY <1>0, <3>1, <3>2, <3>3, <3>4
  <2>2. CASE EnumerateSizes
    <3>1. pc' \in {"list", "sizes", "intervals", "unwind"} /\ code' \in {code, 3}
      BY <2>2, Zenon DEF EnumerateSizes
    <3>2. pc' \in Pcs
      BY <3>1 DEF Pcs, LoopPcs
    <3>3. UNCHANGED <<opts, stop, stats, held, result, granted, mapped, owner, frame,
                    flagged, produced, sigs, atStop, printed, late>>
      BY <2>2, Zenon DEF EnumerateSizes
    <3> QED  BY <1>0, <3>1, <3>2, <3>3
  <2>3. CASE EnumerateIntervals
    <3>1. pc' \in {"sizes", "intervals", "unwind"} /\ code' \in {code, 3}
      BY <2>3, Zenon DEF EnumerateIntervals
    <3>2. pc' \in Pcs
      BY <3>1 DEF Pcs, LoopPcs
    <3>3. UNCHANGED <<opts, stop, stats, held, result, granted, mapped, owner, frame,
                    flagged, produced, sigs, atStop, printed, late>>
      BY <2>3, Zenon DEF EnumerateIntervals
    <3> QED  BY <1>0, <3>1, <3>2, <3>3
  <2> QED  BY <1>3, <2>1, <2>2, <2>3
<1>4. CASE RequestBuffers
  <2>1. pc' \in {"map", "unwind"} /\ code' \in {code, 3}
    BY <1>4, Zenon DEF RequestBuffers
  <2>2. pc' \in Pcs
    BY <2>1 DEF Pcs
  <2>3. granted' \in 0 .. MaxBuffers
    BY <1>4, Zenon DEF RequestBuffers
  <2>4. UNCHANGED <<opts, stop, stats, held, result, mapped, owner, frame, flagged,
                    produced, sigs, atStop, printed, late>>
    BY <1>4, Zenon DEF RequestBuffers
  <2> QED  BY <1>0, <2>1, <2>2, <2>3, <2>4
<1>5. CASE QueryBuffer \/ MapBuffer
  <2>0. CASE QueryBuffer
    <3>1. pc' \in {"mmap", "unwind"} /\ code' \in {code, 3}
      BY <2>0, Zenon DEF QueryBuffer
    <3>2. pc' \in Pcs
      BY <3>1 DEF Pcs
    <3>3. UNCHANGED <<opts, stop, stats, held, result, granted, mapped, owner, frame,
                      flagged, produced, sigs, atStop, printed, late>>
      BY <2>0, Zenon DEF QueryBuffer
    <3> QED  BY <1>0, <3>1, <3>2, <3>3
  <2>1. CASE MapBuffer
    <3>1. mapped' \in SUBSET Buffers
      BY <2>1 DEF MapBuffer, Least
    <3>2. pc' \in Pcs /\ code' \in {code, 3}
      BY <2>1 DEF MapBuffer, Pcs
    <3>3. UNCHANGED <<opts, stop, stats, held, result, granted, owner, frame,
                      flagged, produced, sigs, atStop, printed, late>>
      BY <2>1 DEF MapBuffer
    <3> QED  BY <3>1, <3>2, <3>3
  <2> QED  BY <1>5, <2>0, <2>1
<1>6. CASE QueueInitial
  <2>1. pc' \in {"streamon", "qbuf", "unwind"} /\ code' \in {code, 3}
    BY <1>6, Zenon DEF QueueInitial
  <2>2. pc' \in Pcs
    BY <2>1 DEF Pcs
  <2>3. owner' \in [Buffers -> {"user", "queued", "done"}]
    BY <1>6 DEF QueueInitial, Least
  <2>4. UNCHANGED <<opts, stop, stats, held, result, granted, mapped, frame, flagged,
                    produced, sigs, atStop, printed, late>>
    BY <1>6, Zenon DEF QueueInitial
  <2> QED  BY <1>0, <2>1, <2>2, <2>3, <2>4
<1>7. CASE StreamOn
  <2>1. pc' \in {"check", "unwind"} /\ code' \in {code, 3}
    BY <1>7, Zenon DEF StreamOn
  <2>2. pc' \in Pcs
    BY <2>1 DEF Pcs, LoopPcs
  <2>3. UNCHANGED <<opts, stop, stats, held, result, granted, mapped, owner, frame,
                    flagged, produced, sigs, atStop, printed, late>>
    BY <1>7, Zenon DEF StreamOn
  <2> QED  BY <1>0, <2>1, <2>2, <2>3
<1>8. CASE CheckLoop \/ PollReady \/ PollTimeout \/ PollFails \/ Recheck
           \/ DequeueNothing
  <2>1. CASE CheckLoop
    BY <2>1 DEF CheckLoop, Pcs, LoopPcs
  <2>2. CASE PollReady
    BY <2>2 DEF PollReady, Pcs, LoopPcs
  <2>3. CASE PollTimeout
    BY <2>3 DEF PollTimeout, Pcs, LoopPcs
  <2>4. CASE PollFails
    BY <2>4 DEF PollFails, Pcs, LoopPcs
  <2>5. CASE Recheck
    BY <2>5 DEF Recheck, Pcs, LoopPcs
  <2>6. CASE DequeueNothing
    BY <2>6 DEF DequeueNothing, Pcs, LoopPcs
  <2> QED  BY <1>8, <2>1, <2>2, <2>3, <2>4, <2>5, <2>6
<1>9. CASE Dequeue
  <2>1. PICK b \in Oldest :
           /\ owner' = [owner EXCEPT ![b] = "user"]
           /\ held' = b
           /\ stats' = AddFrame(stats, SeqOf(frame[b]), frame[b] \in flagged)
           /\ taken' = Append(taken, frame[b])
           /\ Proceed(AfterCount(stats'.frames, frame[b] \in flagged))
    BY <1>9 DEF Dequeue
  <2>2. b \in Buffers /\ frame[b] \in Nat
    BY DEF Oldest, Done
  <2>3. SeqOf(frame[b]) \in SeqNum
    BY <2>2, RawCaptureAssumption, SeqModAssumption DEF SeqOf, SeqNum
  <2>4. stats' \in Stats
    <3>1. (frame[b] \in flagged) \in BOOLEAN
      OBVIOUS
    <3> QED  BY <2>1, <2>3, <3>1, AddFrameType
  <2>5. pc' \in Pcs
    BY <2>1 DEF AfterCount, Pcs, LoopPcs
  <2> QED  BY <1>9, <2>1, <2>2, <2>4, <2>5 DEF Dequeue
<1>10. CASE DequeueFails
  BY <1>10 DEF DequeueFails, Pcs
<1>11. CASE Requeue
  <2>1. pc' \in {"check", "unwind"} /\ code' \in {code, 3} /\ held' \in {held, NoBuffer}
    BY <1>11, Zenon DEF Requeue
  <2>2. pc' \in Pcs
    BY <2>1 DEF Pcs, LoopPcs
  <2>3. owner' \in [Buffers -> {"user", "queued", "done"}]
    BY <1>11 DEF Requeue
  <2>4. UNCHANGED <<opts, stop, stats, result, granted, mapped, frame,
                    flagged, produced, sigs, atStop, printed, late>>
    BY <1>11, Zenon DEF Requeue
  <2> QED  BY <2>1, <2>2, <2>3, <2>4
<1>12. CASE CreateOutput
  BY <1>12 DEF CreateOutput, Pcs, LoopPcs
<1>13. CASE WriteChunk
  <2>1. pc' \in {"write", "closeout", "unwind"} /\ code' \in {code, 3}
    BY <1>13, Zenon DEF WriteChunk
  <2>2. pc' \in Pcs
    BY <2>1 DEF Pcs, LoopPcs
  <2>3. UNCHANGED <<opts, stop, stats, held, result, granted, mapped, owner, frame,
                    flagged, produced, sigs, atStop, printed, late>>
    BY <1>13, Zenon DEF WriteChunk
  <2> QED  BY <1>0, <2>1, <2>2, <2>3
<1>14. CASE CloseOutput
  <2>1. pc' \in {"requeue", "unwind"} /\ code' \in {code, 3}
    BY <1>14, Zenon DEF CloseOutput
  <2>2. pc' \in Pcs
    BY <2>1 DEF Pcs, LoopPcs
  <2>3. UNCHANGED <<opts, stop, stats, held, result, granted, mapped, owner, frame,
                  flagged, produced, sigs, atStop, printed, late>>
    BY <1>14, Zenon DEF CloseOutput
  <2> QED  BY <1>0, <2>1, <2>2, <2>3
<1>15. CASE StopStreaming
  BY <1>15 DEF StopStreaming, AllUser, Pcs
<1>16. CASE Judge \/ ReturnSignal
  <2>1. CASE Judge
    <3>1. /\ pc' \in {"interrupted", "unwind"} /\ code' \in {code, 0, 3, 5}
          /\ result' \in {result, "PASS", "FAIL", "INTERRUPTED"} /\ printed' \in {printed, stop}
      BY <2>1, Zenon DEF Judge
    <3>2. pc' \in Pcs
      BY <3>1 DEF Pcs
    <3>3. UNCHANGED <<opts, stop, stats, held, granted, mapped, owner, frame,
                      flagged, produced, sigs, atStop, late>>
      BY <2>1, Zenon DEF Judge
    <3> QED  BY <3>1, <3>2, <3>3
  <2>2. CASE ReturnSignal
    BY <2>2 DEF ReturnSignal, InterruptedCode, Pcs
  <2> QED  BY <1>16, <2>1, <2>2
<1>17. CASE Unwind
  BY <1>17 DEF Unwind, AllUser, Pcs
<1>18. CASE UnmapBuffer
  BY <1>18 DEF UnmapBuffer, Least, Pcs
<1>19. CASE CloseDevice
  BY <1>19, RawCaptureAssumption DEF CloseDevice, AllUser, Pcs
<1> USE DEF process
<1>20. CASE Signal
  BY <1>20 DEF Signal, Stats
<1>21. CASE FillBuffer
  BY <1>21 DEF FillBuffer, NextFrame
<1>22. CASE MissFrame
  BY <1>22 DEF MissFrame, NextFrame
<1>23. CASE Expire
  BY <1>23 DEF Expire
<1>24. CASE UNCHANGED vars
  BY <1>24 DEF vars
<1> QED
  BY <1>1, <1>2, <1>3, <1>4, <1>5, <1>6, <1>7, <1>8, <1>9, <1>10, <1>11, <1>12,
     <1>13, <1>14, <1>15, <1>16, <1>17, <1>18, <1>19, <1>20, <1>21, <1>22, <1>23,
     <1>24
  DEF Next, Step, Finished

-----------------------------------------------------------------------------
(* The driver side.  Where the program is determines what the driver holds: *)
(* this is the part of the inductive invariant that call order, release and *)
(* buffer accounting all follow from.                                       *)
Configuring == {"querycap", "list", "sizes", "intervals", "mode", "setmode",
                "format", "rate", "reqbufs"}
Working == {"create", "write", "closeout", "refuse", "requeue"}
Setup == Configuring \cup {"open", "map", "mmap", "qbuf", "streamon"}
Streaming == LoopPcs \cup {"streamoff"}

\* buffers 0 .. k - 1 are queued, the others are with the process
QueuedUpTo(k) == \A b \in Buffers : owner[b] = IF b < k THEN "queued" ELSE "user"

Idling == ~kstream /\ ~streaming

SessionInv ==
    /\ pc = "open" => ~fd
    /\ pc \in {"open"} \cup Configuring =>
          /\ granted = 0 /\ mapped = {} /\ QueuedUpTo(0) /\ Idling
    /\ pc \in {"map", "mmap"} =>
          /\ granted >= 2 /\ QueuedUpTo(0) /\ Idling
          /\ \E k \in 0 .. granted - 1 : mapped = 0 .. k - 1
    /\ pc = "qbuf" =>
          /\ granted >= 2 /\ mapped = 0 .. granted - 1 /\ Idling
          /\ \E k \in 0 .. granted - 1 : QueuedUpTo(k)
    /\ pc = "streamon" =>
          /\ granted >= 2 /\ mapped = 0 .. granted - 1 /\ Idling
          /\ QueuedUpTo(granted)
    /\ pc \in Streaming =>
          /\ granted >= 2 /\ mapped = 0 .. granted - 1 /\ kstream /\ streaming
          /\ \A b \in Buffers : owner[b] = "user" <=> b = held \/ b >= granted
          /\ held < granted
    /\ pc \in Setup \cup (Streaming \ Working) => held = NoBuffer
    /\ pc \in Working => held \in Buffers
    /\ pc \in {"judge", "interrupted"} => Idling
    /\ pc = "unwind" => (kstream <=> streaming)
    /\ pc = "unmap" => ~streaming /\ (kstream => refused)
    /\ pc = "done" => ~fd /\ mapped = {} /\ ~kstream /\ ~streaming
    /\ pc \notin {"open", "done"} => fd

(* Before anything is allocated the driver has nothing. *)
LEMMA SessionInit == Init => SessionInv
  BY RawCaptureAssumption
  DEF Init, SessionInv, QueuedUpTo, Idling, Configuring, Setup, Working,
      Streaming, LoopPcs

(* The next buffer to be mapped is the first one that is not. *)
LEMMA NextUnmapped ==
    ASSUME NEW n \in 0 .. MaxBuffers, NEW k \in 0 .. n - 1,
           NEW b \in Least({c \in Buffers : c < n /\ c \notin 0 .. k - 1})
    PROVE  b = k /\ b \in Buffers
<1> DEFINE Free == {c \in Buffers : c < n /\ c \notin 0 .. k - 1}
<1>1. k \in Free
  BY RawCaptureAssumption DEF Buffers
<1>2. b \in Free /\ b <= k
  BY <1>1, Zenon DEF Least
<1> QED  BY <1>2, RawCaptureAssumption DEF Buffers

(* Every call the program makes, every frame and every signal keeps it. *)
LEMMA SessionStep ==
    FlagTypes /\ DataTypes /\ SessionInv /\ [Next]_vars => SessionInv'
<1> SUFFICES ASSUME FlagTypes, DataTypes, SessionInv, [Next]_vars
             PROVE  SessionInv'
  OBVIOUS
<1> USE DEF SessionInv, Configuring, Setup, Working, Streaming, LoopPcs, Idling,
            Goto, Proceed, Throw, Quiet, Idle, session, output, verdict
<1>1. CASE Open
  BY <1>1 DEF Open, QueuedUpTo
<1>2. CASE QueryCapabilities
  BY <1>2 DEF QueryCapabilities, Configure, QueuedUpTo
<1>3. CASE QuerySensorMode \/ SetSensorMode
  BY <1>3 DEF QuerySensorMode, SetSensorMode, Configure, QueuedUpTo
<1>4. CASE SetFormat
  BY <1>4 DEF SetFormat, Configure, QueuedUpTo
<1>5. CASE SetFrameRate
  BY <1>5 DEF SetFrameRate, Configure, QueuedUpTo
<1>6. CASE EnumerateFormats \/ EnumerateSizes \/ EnumerateIntervals
  BY <1>6 DEF EnumerateFormats, EnumerateSizes, EnumerateIntervals, QueuedUpTo
<1>7. CASE RequestBuffers
  <2>1. /\ pc = "reqbufs" /\ mapped' = {} /\ QueuedUpTo(0)' /\ Idling' /\ fd'
        /\ held' = NoBuffer
        /\ \/ pc' = "map" /\ granted' >= 2
           \/ pc' = "unwind"
    BY <1>7 DEF RequestBuffers, QueuedUpTo, DataTypes
  <2>2. pc' = "map" => mapped' = 0 .. 0 - 1 /\ 0 \in 0 .. granted' - 1
    BY <2>1, <1>7 DEF RequestBuffers, DataTypes
  <2> QED  BY <2>1, <2>2
<1>7a. CASE QueryBuffer
  BY <1>7a DEF QueryBuffer, QueuedUpTo
<1>8. CASE MapBuffer
  <2>1. /\ pc = "mmap" /\ QueuedUpTo(0)' /\ Idling' /\ fd' /\ granted' >= 2
        /\ granted' = granted /\ held' = NoBuffer
    BY <1>8 DEF MapBuffer, QueuedUpTo
  <2>2. CASE pc' = "unwind"
    BY <2>1, <2>2
  <2>3. CASE pc' # "unwind"
    <3>1. PICK b \in Least({c \in Buffers : c < granted /\ c \notin mapped}) :
             /\ mapped' = mapped \cup {b}
             /\ pc' = IF b + 1 = granted THEN "qbuf" ELSE "map"
      BY <1>8, <2>3 DEF MapBuffer
    <3>2. PICK k \in 0 .. granted - 1 : mapped = 0 .. k - 1
      BY <2>1
    <3>3. b = k
      BY <3>1, <3>2, NextUnmapped DEF DataTypes
    <3>4. mapped' = 0 .. k
      BY <3>1, <3>2, <3>3
    <3>5. CASE k + 1 = granted
      <4>1. 0 \in 0 .. granted' - 1 /\ mapped' = 0 .. granted' - 1
        BY <2>1, <3>4, <3>5 DEF DataTypes
      <4>2. pc' = "qbuf"
        BY <3>1, <3>3, <3>5
      <4> QED  BY <2>1, <4>1, <4>2
    <3>6. CASE k + 1 # granted
      <4>1. k + 1 \in 0 .. granted - 1 /\ mapped' = 0 .. (k + 1) - 1
        BY <3>2, <3>4, <3>6 DEF DataTypes
      <4> QED  BY <2>1, <3>1, <3>3, <3>6, <4>1
    <3> QED  BY <3>5, <3>6
  <2> QED  BY <2>2, <2>3
<1>9. CASE QueueInitial
  <2>1. /\ pc = "qbuf" /\ Idling' /\ fd' /\ granted' >= 2 /\ granted' = granted
        /\ mapped' = 0 .. granted - 1 /\ held' = NoBuffer
    BY <1>9 DEF QueueInitial
  <2>2. CASE pc' = "unwind"
    BY <2>1, <2>2
  <2>3. CASE pc' # "unwind"
    <3>1. PICK b \in Least({c \in mapped : owner[c] = "user"}) :
             /\ owner' = [owner EXCEPT ![b] = "queued"]
             /\ pc' = IF b + 1 = granted THEN "streamon" ELSE "qbuf"
      BY <1>9, <2>3 DEF QueueInitial
    <3>2. PICK k \in 0 .. granted - 1 : QueuedUpTo(k)
      BY <2>1
    <3>3. b = k
      <4>1. k \in mapped /\ k \in Buffers /\ owner[k] = "user"
        BY <2>1, <3>2 DEF DataTypes, QueuedUpTo
      <4>2. b \in Buffers /\ owner[b] = "user" /\ b <= k
        BY <4>1 DEF Least, DataTypes
      <4>3. ~(b < k)
        BY <3>2, <4>2 DEF QueuedUpTo
      <4> QED  BY <4>2, <4>3, RawCaptureAssumption
    <3>4. QueuedUpTo(k + 1)'
      BY <3>1, <3>2, <3>3 DEF QueuedUpTo, DataTypes
    <3>5. CASE k + 1 = granted
      BY <2>1, <3>1, <3>3, <3>4, <3>5
    <3>6. CASE k + 1 # granted
      <4>1. k + 1 \in 0 .. granted - 1
        BY <3>2, <3>6 DEF DataTypes
      <4> QED  BY <2>1, <3>1, <3>3, <3>4, <3>6, <4>1
    <3> QED  BY <3>5, <3>6
  <2> QED  BY <2>2, <2>3
<1>10. CASE StreamOn
  <2>1. /\ pc = "streamon" /\ granted' >= 2 /\ mapped' = 0 .. granted' - 1 /\ fd'
        /\ QueuedUpTo(granted)' /\ granted' = granted /\ held' = NoBuffer
        /\ \/ pc' = "check" /\ kstream' /\ streaming'
           \/ pc' = "unwind" /\ Idling'
    BY <1>10 DEF StreamOn, QueuedUpTo
  <2>2. held' < granted' /\ \A b \in Buffers : b # held'
    BY <2>1 DEF DataTypes
  <2>3. \A b \in Buffers : owner'[b] = "user" <=> b = held' \/ b >= granted'
    BY <2>1, <2>2, RawCaptureAssumption DEF QueuedUpTo, DataTypes
  <2>4. CASE pc' = "check"
    BY <2>1, <2>2, <2>3, <2>4
  <2>5. CASE pc' = "unwind"
    BY <2>1, <2>5
  <2> QED  BY <2>1, <2>4, <2>5
<1>11. CASE CheckLoop
  BY <1>11 DEF CheckLoop
<1>12. CASE PollReady
  BY <1>12 DEF PollReady
<1>13. CASE PollTimeout
  BY <1>13 DEF PollTimeout
<1>14. CASE PollFails
  BY <1>14 DEF PollFails
<1>15. CASE Recheck
  BY <1>15 DEF Recheck
<1>16. CASE Dequeue
  BY <1>16 DEF Dequeue, Oldest, Done, AfterCount, DataTypes
<1>17. CASE DequeueNothing
  BY <1>17 DEF DequeueNothing
<1>18. CASE DequeueFails
  BY <1>18 DEF DequeueFails
<1>19. CASE Requeue
  <2>1. /\ pc \in Working /\ fd' /\ granted' = granted /\ mapped' = mapped
        /\ kstream' /\ streaming'
    BY <1>19 DEF Requeue
  <2>2. CASE pc' = "check"
    <3>1. owner' = [owner EXCEPT ![held] = "queued"] /\ held' = NoBuffer
      BY <1>19, <2>2, Zenon DEF Requeue
    <3> QED  BY <2>1, <2>2, <3>1 DEF DataTypes
  <2>3. CASE pc' = "unwind"
    BY <2>1, <2>3
  <2> QED  BY <1>19, <2>2, <2>3 DEF Requeue
<1>20. CASE CreateOutput
  BY <1>20 DEF CreateOutput
<1>21. CASE WriteChunk
  BY <1>21 DEF WriteChunk
<1>22. CASE CloseOutput
  BY <1>22 DEF CloseOutput
<1>23. CASE StopStreaming
  BY <1>23 DEF StopStreaming
<1>24. CASE Judge
  BY <1>24 DEF Judge
<1>25. CASE ReturnSignal
  BY <1>25 DEF ReturnSignal
<1>26. CASE Unwind
  BY <1>26 DEF Unwind, FlagTypes
<1>27. CASE UnmapBuffer
  BY <1>27 DEF UnmapBuffer
<1>28. CASE CloseDevice
  BY <1>28 DEF CloseDevice
<1>29. CASE Signal
  BY <1>29 DEF Signal, process, QueuedUpTo
<1>30. CASE FillBuffer
  BY <1>30 DEF FillBuffer, NextFrame, process, DataTypes
<1>31. CASE MissFrame
  BY <1>31 DEF MissFrame, NextFrame, process, QueuedUpTo
<1>32. CASE Expire
  BY <1>32 DEF Expire, process, QueuedUpTo
<1>33. CASE UNCHANGED vars
  BY <1>33 DEF vars, control, QueuedUpTo
<1> QED
  BY <1>1, <1>2, <1>3, <1>4, <1>5, <1>6, <1>7, <1>7a, <1>8, <1>9, <1>10, <1>11, <1>12,
     <1>13, <1>14, <1>15, <1>16, <1>17, <1>18, <1>19, <1>20, <1>21, <1>22, <1>23,
     <1>24, <1>25, <1>26, <1>27, <1>28, <1>29, <1>30, <1>31, <1>32, <1>33
  DEF Next, Step, Finished

-----------------------------------------------------------------------------
(* The calls the driver sees.  Each action is one call of the protocol, or *)
(* none; SessionInv supplies the guard the protocol puts on the call.      *)
LEMMA CallStep ==
    FlagTypes /\ DataTypes /\ SessionInv /\ [Next]_vars => [Session!Next]_session
<1> SUFFICES ASSUME FlagTypes, DataTypes, SessionInv, [Next]_vars
             PROVE  Session!Next \/ UNCHANGED session
  BY DEF Session!session, session
<1> USE DEF session, Session!Next, Session!Buffers, Session!AllUser, AllUser
<1>1. CASE Open
  BY <1>1 DEF Open, SessionInv, Session!Open
<1>2. CASE RequestBuffers
  BY <1>2, Zenon DEF RequestBuffers, SessionInv, Configuring, Idling, Session!Grant
<1>3. CASE MapBuffer
  <2>1. CASE UNCHANGED mapped
    BY <1>3, <2>1 DEF MapBuffer
  <2>2. CASE ~UNCHANGED mapped
    <3>1. PICK b \in Least({c \in Buffers : c < granted /\ c \notin mapped}) :
             mapped' = mapped \cup {b}
      BY <1>3, <2>2 DEF MapBuffer
    <3>2. PICK k \in 0 .. granted - 1 : mapped = 0 .. k - 1
      BY <1>3 DEF MapBuffer, SessionInv
    <3>3. b = k /\ b \in Buffers
      BY <3>1, <3>2, NextUnmapped DEF DataTypes
    <3>4. Session!Map(b)
      BY <1>3, <3>1, <3>2, <3>3 DEF MapBuffer, SessionInv, Idling, Session!Map, DataTypes
    <3> QED  BY <3>3, <3>4
  <2> QED  BY <2>1, <2>2
<1>4. CASE QueueInitial
  <2>1. CASE UNCHANGED owner
    BY <1>4, <2>1 DEF QueueInitial
  <2>2. CASE ~UNCHANGED owner
    <3>1. PICK b \in Buffers : /\ b \in mapped /\ owner[b] = "user"
                               /\ owner' = [owner EXCEPT ![b] = "queued"]
      BY <1>4, <2>2 DEF QueueInitial, Least, DataTypes
    <3>2. Session!Give(b)
      BY <1>4, <3>1 DEF QueueInitial, SessionInv, Session!Give
    <3> QED  BY <3>1, <3>2
  <2> QED  BY <2>1, <2>2
<1>5. CASE StreamOn
  <2>1. CASE UNCHANGED kstream
    BY <1>5, <2>1 DEF StreamOn
  <2>2. CASE ~UNCHANGED kstream
    <3>1. kstream' = TRUE /\ UNCHANGED <<fd, granted, mapped, owner, refused>>
      BY <1>5, <2>2, Zenon DEF StreamOn
    <3>2. /\ fd /\ ~kstream /\ granted >= 2
          /\ \A b \in 0 .. granted - 1 : b \in mapped /\ owner[b] = "queued"
      BY <1>5, RawCaptureAssumption
      DEF StreamOn, SessionInv, Idling, QueuedUpTo, DataTypes
    <3>3. Session!StreamOn
      BY <3>1, <3>2, Zenon DEF Session!StreamOn
    <3> QED  BY <3>3
  <2> QED  BY <2>1, <2>2
<1>6. CASE Dequeue \/ DequeueFails
  <2>1. CASE UNCHANGED owner
    BY <1>6, <2>1 DEF Dequeue, DequeueFails
  <2>2. CASE ~UNCHANGED owner
    <3>1. PICK b \in Buffers : /\ owner[b] = "done"
                               /\ owner' = [owner EXCEPT ![b] = "user"]
      BY <1>6, <2>2 DEF Dequeue, DequeueFails, Oldest, Done
    <3>2. /\ fd /\ kstream
          /\ \A c \in mapped : owner[c] # "user"
          /\ UNCHANGED <<fd, granted, mapped, kstream, refused>>
      BY <1>6 DEF Dequeue, DequeueFails, SessionInv, Streaming, Working, LoopPcs,
                  DataTypes
    <3>3. Session!Take(b)
      BY <3>1, <3>2 DEF Session!Take
    <3> QED  BY <3>1, <3>3
  <2> QED  BY <2>1, <2>2
<1>7. CASE Requeue
  <2>1. CASE UNCHANGED owner
    BY <1>7, <2>1 DEF Requeue
  <2>2. CASE ~UNCHANGED owner
    <3>1. /\ owner' = [owner EXCEPT ![held] = "queued"]
          /\ UNCHANGED <<fd, granted, mapped, kstream, refused>>
      BY <1>7, <2>2, Zenon DEF Requeue
    <3>2. fd /\ held \in Buffers /\ held \in mapped /\ owner[held] = "user"
      BY <1>7 DEF Requeue, SessionInv, Streaming, Working, LoopPcs, DataTypes
    <3>3. Session!Give(held)
      BY <3>1, <3>2 DEF Session!Give
    <3> QED  BY <3>2, <3>3
  <2> QED  BY <2>1, <2>2
<1>8. CASE StopStreaming
  <2>1. fd /\ kstream
    BY <1>8 DEF StopStreaming, SessionInv, Streaming, LoopPcs
  <2>2. Session!StreamOff \/ Session!StreamOffRefused
    BY <1>8, <2>1, Zenon DEF StopStreaming, Session!StreamOff, Session!StreamOffRefused
  <2> QED  BY <2>2
<1>9. CASE Unwind
  <2>1. fd /\ (streaming => kstream)
    BY <1>9 DEF Unwind, SessionInv
  <2>2. Session!StreamOff \/ Session!StreamOffRefused \/ UNCHANGED session
    BY <1>9, <2>1, Zenon DEF Unwind, Session!StreamOff, Session!StreamOffRefused
  <2> QED  BY <2>2
<1>10. CASE UnmapBuffer
  <2>1. PICK b \in mapped : mapped' = mapped \ {b}
    BY <1>10 DEF UnmapBuffer, Least
  <2>2. (kstream => refused) /\ b \in Buffers
    BY <1>10 DEF UnmapBuffer, SessionInv, DataTypes
  <2>3. Session!Unmap(b)
    BY <1>10, <2>1, <2>2 DEF UnmapBuffer, Session!Unmap
  <2> QED  BY <2>2, <2>3
<1>11. CASE CloseDevice
  <2>1. fd
    BY <1>11 DEF CloseDevice, SessionInv
  <2>2. Session!Close
    BY <1>11, <2>1, Zenon DEF CloseDevice, Session!Close
  <2> QED  BY <2>2
<1>12. CASE FillBuffer
  BY <1>12 DEF FillBuffer, NextFrame, Session!Fill
<1>13. CASE CreateOutput \/ WriteChunk \/ CloseOutput
  BY <1>13 DEF CreateOutput, WriteChunk, CloseOutput
<1>14. CASE \/ QueryCapabilities \/ EnumerateFormats \/ EnumerateSizes
            \/ EnumerateIntervals \/ QuerySensorMode \/ SetSensorMode \/ SetFormat
            \/ SetFrameRate \/ QueryBuffer \/ CheckLoop \/ PollReady \/ PollTimeout \/ PollFails \/ Recheck \/ DequeueNothing
            \/ Judge \/ ReturnSignal
  BY <1>14, Zenon
  DEF QueryCapabilities, EnumerateFormats, EnumerateSizes, EnumerateIntervals,
      QuerySensorMode, SetSensorMode, SetFormat, SetFrameRate, Configure,
      QueryBuffer, CheckLoop, PollReady, PollTimeout, PollFails, Recheck, DequeueNothing, Judge, ReturnSignal, Idle
<1>15. CASE Signal \/ MissFrame \/ Expire \/ UNCHANGED vars
  BY <1>15, Zenon DEF Signal, MissFrame, Expire, vars
<1> QED
  BY <1>1, <1>2, <1>3, <1>4, <1>5, <1>6, <1>7, <1>8, <1>9, <1>10, <1>11, <1>12,
     <1>13, <1>14, <1>15
  DEF Next, Step, Finished

-----------------------------------------------------------------------------
(* What each part of the loop may touch: the RAW output, the counters and   *)
(* the verdict change in the actions named here and nowhere else.           *)
LEMMA OutputFrame ==
    ASSUME [Next]_vars, ~CreateOutput, ~WriteChunk, ~CloseOutput
    PROVE  UNCHANGED <<file, saved>>
<1> USE DEF output, Quiet, Idle
<1>1. CASE \/ Open \/ QueryCapabilities \/ QuerySensorMode \/ SetSensorMode
           \/ SetFormat \/ SetFrameRate \/ EnumerateFormats \/ EnumerateSizes \/ EnumerateIntervals
  BY <1>1, Zenon DEF Open, QueryCapabilities, QuerySensorMode, SetSensorMode, SetFormat,
                     SetFrameRate, Configure, EnumerateFormats,
                     EnumerateSizes, EnumerateIntervals
<1>2. CASE RequestBuffers \/ QueryBuffer \/ MapBuffer \/ QueueInitial \/ StreamOn
  BY <1>2, Zenon DEF RequestBuffers, QueryBuffer, MapBuffer, QueueInitial, StreamOn
<1>3. CASE CheckLoop \/ PollReady \/ PollTimeout \/ PollFails \/ Recheck
  BY <1>3, Zenon DEF CheckLoop, PollReady, PollTimeout, PollFails, Recheck
<1>4. CASE Dequeue \/ DequeueNothing \/ DequeueFails \/ Requeue
  BY <1>4, Zenon DEF Dequeue, DequeueNothing, DequeueFails, Requeue
<1>5. CASE StopStreaming \/ Judge \/ ReturnSignal
  BY <1>5, Zenon DEF StopStreaming, Judge, ReturnSignal
<1>6. CASE Unwind \/ UnmapBuffer \/ CloseDevice
  BY <1>6, Zenon DEF Unwind, UnmapBuffer, CloseDevice
<1>7. CASE Signal \/ FillBuffer \/ MissFrame \/ Expire
  BY <1>7, Zenon DEF Signal, FillBuffer, MissFrame, Expire, process
<1>8. CASE UNCHANGED vars
  BY <1>8, Zenon DEF vars
<1> QED
  BY <1>1, <1>2, <1>3, <1>4, <1>5, <1>6, <1>7, <1>8 DEF Next, Step, Finished

LEMMA TallyFrame ==
    ASSUME [Next]_vars, ~Dequeue
    PROVE  UNCHANGED <<stats, taken>>
<1> USE DEF tally, Quiet, Idle
<1>1. CASE \/ Open \/ QueryCapabilities \/ QuerySensorMode \/ SetSensorMode
           \/ SetFormat \/ SetFrameRate \/ EnumerateFormats \/ EnumerateSizes \/ EnumerateIntervals
  BY <1>1, Zenon DEF Open, QueryCapabilities, QuerySensorMode, SetSensorMode, SetFormat,
                     SetFrameRate, Configure, EnumerateFormats,
                     EnumerateSizes, EnumerateIntervals
<1>2. CASE RequestBuffers \/ QueryBuffer \/ MapBuffer \/ QueueInitial \/ StreamOn
  BY <1>2, Zenon DEF RequestBuffers, QueryBuffer, MapBuffer, QueueInitial, StreamOn
<1>3. CASE CheckLoop \/ PollReady \/ PollTimeout \/ PollFails \/ Recheck
  BY <1>3, Zenon DEF CheckLoop, PollReady, PollTimeout, PollFails, Recheck
<1>4. CASE DequeueNothing \/ DequeueFails \/ Requeue
  BY <1>4, Zenon DEF DequeueNothing, DequeueFails, Requeue
<1>5. CASE CreateOutput \/ WriteChunk \/ CloseOutput
  BY <1>5, Zenon DEF CreateOutput, WriteChunk, CloseOutput
<1>6. CASE StopStreaming \/ Judge \/ ReturnSignal
  BY <1>6, Zenon DEF StopStreaming, Judge, ReturnSignal
<1>7. CASE Unwind \/ UnmapBuffer \/ CloseDevice
  BY <1>7, Zenon DEF Unwind, UnmapBuffer, CloseDevice
<1>8. CASE Signal \/ FillBuffer \/ MissFrame \/ Expire
  BY <1>8, Zenon DEF Signal, FillBuffer, MissFrame, Expire, process
<1>9. CASE UNCHANGED vars
  BY <1>9, Zenon DEF vars
<1> QED
  BY <1>1, <1>2, <1>3, <1>4, <1>5, <1>6, <1>7, <1>8, <1>9 DEF Next, Step, Finished

(* The RAW output and the history of counted frames are sequences of frame *)
(* numbers; a chunk is only written while a buffer is held.                *)
LEMMA HistoryStep == TypeOK /\ SessionInv /\ [Next]_vars => HistoryTypes'
<1> SUFFICES ASSUME TypeOK, SessionInv, [Next]_vars PROVE HistoryTypes'
  OBVIOUS
<1>0. /\ file \in Seq(Nat) /\ taken \in Seq(Nat) /\ <<>> \in Seq(Nat)
      /\ frame \in [Buffers -> Nat]
  BY DEF TypeOK, HistoryTypes, DataTypes
<1>1. taken' \in Seq(Nat)
  <2>1. CASE Dequeue
    <3>1. PICK b \in Buffers : taken' = Append(taken, frame[b])
      BY <2>1 DEF Dequeue, Oldest, Done
    <3>2. frame[b] \in Nat
      BY <1>0
    <3> QED  BY <1>0, <3>1, <3>2
  <2>2. CASE ~Dequeue
    BY <1>0, <2>2, TallyFrame
  <2> QED  BY <2>1, <2>2
<1>2. file' \in Seq(Nat)
  <2>1. CASE CreateOutput
    <3>1. file' = <<>> \/ file' = file
      BY <2>1, Zenon DEF CreateOutput
    <3> QED  BY <1>0, <3>1
  <2>2. CASE WriteChunk
    <3>1. file' = Append(file, frame[held]) \/ file' = file
      BY <2>2, Zenon DEF WriteChunk
    <3>2. held \in Buffers
      BY <2>2 DEF WriteChunk, SessionInv, Working
    <3>3. frame[held] \in Nat
      BY <1>0, <3>2
    <3>4. Append(file, frame[held]) \in Seq(Nat)
      BY <1>0, <3>3
    <3> QED  BY <1>0, <3>1, <3>4
  <2>3. CASE CloseOutput
    BY <1>0, <2>3 DEF CloseOutput
  <2>4. CASE ~CreateOutput /\ ~WriteChunk /\ ~CloseOutput
    BY <1>0, <2>4, OutputFrame
  <2> QED  BY <2>1, <2>2, <2>3, <2>4
<1> QED  BY <1>1, <1>2 DEF HistoryTypes

(* The initial state is well typed. *)
LEMMA TypeInit == Init => TypeOK
<1> SUFFICES ASSUME Init PROVE TypeOK
  OBVIOUS
<1>1. NewStats \in Stats
  BY SeqModAssumption DEF NewStats, Stats, SeqNum
<1>2. FlagTypes
  BY Zenon DEF Init, FlagTypes
<1>3. DataTypes
  BY <1>1, RawCaptureAssumption DEF Init, DataTypes, Pcs
<1>4. HistoryTypes
  BY DEF Init, HistoryTypes
<1> QED  BY <1>2, <1>3, <1>4 DEF TypeOK

(* Types and the driver side together are inductive. *)
LEMMA CoreInvariant == Spec => [](TypeOK /\ SessionInv)
<1>1. Init => TypeOK /\ SessionInv
  BY TypeInit, SessionInit
<1>2. TypeOK /\ SessionInv /\ [Next]_vars => (TypeOK /\ SessionInv)'
  BY FlagStep, DataStep, HistoryStep, SessionStep DEF TypeOK
<1> QED  BY <1>1, <1>2, PTL DEF Spec

(* Every variable keeps its type in every reachable state. *)
THEOREM TypeCorrect == Spec => []TypeOK
  BY CoreInvariant, PTL

(* No path through the loop loses a buffer. *)
THEOREM BuffersTheorem == Spec => []BuffersAccounted
<1>1. TypeOK /\ SessionInv => BuffersAccounted
  BY DEF TypeOK, DataTypes, SessionInv, BuffersAccounted, Setup, Streaming,
         Working, LoopPcs
<1> QED  BY <1>1, CoreInvariant, PTL

(* On every exit the device is unmapped, stopped and closed. *)
THEOREM ReleasedTheorem == Spec => []ReleasedAtExit
<1>1. SessionInv => ReleasedAtExit
  BY DEF SessionInv, ReleasedAtExit
<1> QED  BY <1>1, CoreInvariant, PTL

(* The tool implements the V4L2 call protocol: its calls reach the driver  *)
(* in the documented order for every command line, failure and signal.     *)
THEOREM Implements == Spec => CallOrder
<1>1. Init => Session!Init
  BY DEF Init, Session!Init, Session!AllUser, Session!Buffers
<1>2. TypeOK /\ SessionInv /\ [Next]_vars => [Session!Next]_(Session!session)
  BY CallStep DEF TypeOK, session, Session!session
<1> QED
  BY <1>1, <1>2, CoreInvariant, PTL DEF Spec, CallOrder, Session!Spec
-----------------------------------------------------------------------------
(* The verdict: the exit code and the RESULT line, and the promptness of   *)
(* a stop.                                                                 *)

(* The command line is fixed. *)
LEMMA OptsFrame == ASSUME [Next]_vars PROVE opts' = opts
<1> USE DEF Quiet, Idle
<1>1. CASE \/ Open \/ QueryCapabilities \/ QuerySensorMode \/ SetSensorMode
           \/ SetFormat \/ SetFrameRate \/ EnumerateFormats \/ EnumerateSizes \/ EnumerateIntervals
  BY <1>1, Zenon DEF Open, QueryCapabilities, QuerySensorMode, SetSensorMode, SetFormat,
     SetFrameRate, Configure, EnumerateFormats, EnumerateSizes, EnumerateIntervals
<1>2. CASE RequestBuffers \/ QueryBuffer \/ MapBuffer \/ QueueInitial \/ StreamOn
  BY <1>2, Zenon DEF RequestBuffers, QueryBuffer, MapBuffer, QueueInitial, StreamOn
<1>3. CASE CheckLoop \/ PollReady \/ PollTimeout \/ PollFails \/ Recheck
  BY <1>3, Zenon DEF CheckLoop, PollReady, PollTimeout, PollFails, Recheck
<1>4. CASE Dequeue \/ DequeueNothing \/ DequeueFails \/ Requeue
  BY <1>4, Zenon DEF Dequeue, DequeueNothing, DequeueFails, Requeue
<1>5. CASE CreateOutput \/ WriteChunk \/ CloseOutput
  BY <1>5, Zenon DEF CreateOutput, WriteChunk, CloseOutput
<1>6. CASE StopStreaming \/ Judge \/ ReturnSignal
  BY <1>6, Zenon DEF StopStreaming, Judge, ReturnSignal
<1>7. CASE Unwind \/ UnmapBuffer \/ CloseDevice
  BY <1>7, Zenon DEF Unwind, UnmapBuffer, CloseDevice
<1>8. CASE Signal \/ FillBuffer \/ MissFrame \/ Expire
  BY <1>8, Zenon DEF Signal, FillBuffer, MissFrame, Expire, process
<1>9. CASE UNCHANGED vars
  BY <1>9, Zenon DEF vars
<1> QED
  BY <1>1, <1>2, <1>3, <1>4, <1>5, <1>6, <1>7, <1>8, <1>9 DEF Next, Step, Finished

(* Only a signal changes g_stop_signal. *)
LEMMA SignalFrame == ASSUME [Next]_vars, ~Signal PROVE UNCHANGED <<stop, atStop>>
<1> USE DEF Quiet, Idle, signals
<1>1. CASE \/ Open \/ QueryCapabilities \/ QuerySensorMode \/ SetSensorMode
           \/ SetFormat \/ SetFrameRate \/ EnumerateFormats \/ EnumerateSizes \/ EnumerateIntervals
  BY <1>1, Zenon DEF Open, QueryCapabilities, QuerySensorMode, SetSensorMode, SetFormat,
     SetFrameRate, Configure, EnumerateFormats, EnumerateSizes, EnumerateIntervals
<1>2. CASE RequestBuffers \/ QueryBuffer \/ MapBuffer \/ QueueInitial \/ StreamOn
  BY <1>2, Zenon DEF RequestBuffers, QueryBuffer, MapBuffer, QueueInitial, StreamOn
<1>3. CASE CheckLoop \/ PollReady \/ PollTimeout \/ PollFails \/ Recheck
  BY <1>3, Zenon DEF CheckLoop, PollReady, PollTimeout, PollFails, Recheck
<1>4. CASE Dequeue \/ DequeueNothing \/ DequeueFails \/ Requeue
  BY <1>4, Zenon DEF Dequeue, DequeueNothing, DequeueFails, Requeue
<1>5. CASE CreateOutput \/ WriteChunk \/ CloseOutput
  BY <1>5, Zenon DEF CreateOutput, WriteChunk, CloseOutput
<1>6. CASE StopStreaming \/ Judge \/ ReturnSignal
  BY <1>6, Zenon DEF StopStreaming, Judge, ReturnSignal
<1>7. CASE Unwind \/ UnmapBuffer \/ CloseDevice
  BY <1>7, Zenon DEF Unwind, UnmapBuffer, CloseDevice
<1>8. CASE FillBuffer \/ MissFrame \/ Expire
  BY <1>8, Zenon DEF FillBuffer, MissFrame, Expire, process
<1>9. CASE UNCHANGED vars
  BY <1>9, Zenon DEF vars
<1> QED
  BY <1>1, <1>2, <1>3, <1>4, <1>5, <1>6, <1>7, <1>8, <1>9 DEF Next, Step, Finished

(* Only the sensor changes the buffers' contents. *)
LEMMA SensorFrame ==
    ASSUME [Next]_vars, ~FillBuffer, ~MissFrame
    PROVE  UNCHANGED <<frame, flagged, produced>>
<1> USE DEF Quiet, Idle, sensor
<1>1. CASE \/ Open \/ QueryCapabilities \/ QuerySensorMode \/ SetSensorMode
           \/ SetFormat \/ SetFrameRate \/ EnumerateFormats \/ EnumerateSizes \/ EnumerateIntervals
  BY <1>1, Zenon DEF Open, QueryCapabilities, QuerySensorMode, SetSensorMode, SetFormat,
     SetFrameRate, Configure, EnumerateFormats, EnumerateSizes, EnumerateIntervals
<1>2. CASE RequestBuffers \/ QueryBuffer \/ MapBuffer \/ QueueInitial \/ StreamOn
  BY <1>2, Zenon DEF RequestBuffers, QueryBuffer, MapBuffer, QueueInitial, StreamOn
<1>3. CASE CheckLoop \/ PollReady \/ PollTimeout \/ PollFails \/ Recheck
  BY <1>3, Zenon DEF CheckLoop, PollReady, PollTimeout, PollFails, Recheck
<1>4. CASE Dequeue \/ DequeueNothing \/ DequeueFails \/ Requeue
  BY <1>4, Zenon DEF Dequeue, DequeueNothing, DequeueFails, Requeue
<1>5. CASE CreateOutput \/ WriteChunk \/ CloseOutput
  BY <1>5, Zenon DEF CreateOutput, WriteChunk, CloseOutput
<1>6. CASE StopStreaming \/ Judge \/ ReturnSignal
  BY <1>6, Zenon DEF StopStreaming, Judge, ReturnSignal
<1>7. CASE Unwind \/ UnmapBuffer \/ CloseDevice
  BY <1>7, Zenon DEF Unwind, UnmapBuffer, CloseDevice
<1>8. CASE Signal \/ Expire
  BY <1>8, Zenon DEF Signal, Expire
<1>9. CASE UNCHANGED vars
  BY <1>9, Zenon DEF vars
<1> QED
  BY <1>1, <1>2, <1>3, <1>4, <1>5, <1>6, <1>7, <1>8, <1>9 DEF Next, Step, Finished

(* Only the sensor completes a buffer. *)
LEMMA DoneFrame ==
    ASSUME DataTypes, [Next]_vars, ~FillBuffer PROVE Done' \subseteq Done
<1> USE DEF Done, Quiet, Idle, session, AllUser
<1>0. CASE UNCHANGED owner
  BY <1>0
<1>1. CASE \/ Open \/ QueryCapabilities \/ QuerySensorMode \/ SetSensorMode
           \/ SetFormat \/ SetFrameRate \/ EnumerateFormats \/ EnumerateSizes \/ EnumerateIntervals
  BY <1>0, <1>1, Zenon DEF Open, QueryCapabilities, QuerySensorMode, SetSensorMode, SetFormat,
     SetFrameRate, Configure, EnumerateFormats, EnumerateSizes, EnumerateIntervals
<1>2. CASE RequestBuffers \/ QueryBuffer \/ MapBuffer \/ StreamOn
  BY <1>0, <1>2, Zenon DEF RequestBuffers, QueryBuffer, MapBuffer, StreamOn
<1>3. CASE CheckLoop \/ PollReady \/ PollTimeout \/ PollFails \/ Recheck
           \/ DequeueNothing
  BY <1>0, <1>3, Zenon DEF CheckLoop, PollReady, PollTimeout, PollFails, Recheck,
     DequeueNothing
<1>4. CASE CreateOutput \/ WriteChunk \/ CloseOutput \/ Judge \/ ReturnSignal
           \/ UnmapBuffer
  BY <1>0, <1>4, Zenon DEF CreateOutput, WriteChunk, CloseOutput, Judge, ReturnSignal,
     UnmapBuffer
<1>5. CASE Signal \/ MissFrame \/ Expire \/ UNCHANGED vars
  BY <1>0, <1>5, Zenon DEF Signal, MissFrame, Expire, vars
<1>6. ASSUME NEW b, NEW o \in {"user", "queued"}, owner' = [owner EXCEPT ![b] = o]
      PROVE  Done' \subseteq Done
  BY <1>6 DEF DataTypes
<1>7. CASE QueueInitial \/ Dequeue \/ DequeueFails \/ Requeue
  BY <1>0, <1>6, <1>7 DEF QueueInitial, Dequeue, DequeueFails, Requeue
<1>8. CASE StopStreaming \/ Unwind \/ CloseDevice
  <2>1. owner' = AllUser \/ UNCHANGED owner
    BY <1>8, Zenon DEF StopStreaming, Unwind, CloseDevice
  <2> QED  BY <2>1
<1> QED
  BY <1>1, <1>2, <1>3, <1>4, <1>5, <1>7, <1>8 DEF Next, Step, Finished
-----------------------------------------------------------------------------
(***************************************************************************)
(* The exit code and the RESULT line are decided together, once, and all   *)
(* that follows is the unwinding.                                          *)
(***************************************************************************)
Told ==
    \/ code = 0 /\ result = "PASS"
    \/ code = 5 /\ result = "FAIL"
    \/ code = 4 /\ result = "TIMEOUT"
    \/ code \in {128 + SIGINT, 128 + SIGTERM} /\ result = "INTERRUPTED"
    \/ code \in {2, 3} /\ result = "none"

After == {"unwind", "unmap", "done"}

VerdictInv ==
    /\ pc \notin After \cup {"interrupted"} => result = "none" /\ code = -1
    /\ pc = "interrupted" => result = "INTERRUPTED" /\ code = -1 /\ stop # 0
    /\ pc \in After => Told

LEMMA VerdictStep == VerdictInv /\ DataTypes /\ [Next]_vars => VerdictInv'
<1> SUFFICES ASSUME VerdictInv, DataTypes, [Next]_vars PROVE VerdictInv'
  OBVIOUS
<1> USE DEF After, Goto, Proceed, Throw, verdict
<1>0. ASSUME UNCHANGED verdict,
             pc \notin After \cup {"interrupted"}, pc' \notin After \cup {"interrupted"}
      PROVE  VerdictInv'
  BY <1>0 DEF VerdictInv
<1>1. ASSUME pc \notin After \cup {"interrupted"}, pc' \in After,
             code' \in {2, 3}, result' = result
      PROVE  VerdictInv'
  BY <1>1 DEF VerdictInv, Told
<1>2. CASE Open \/ QuerySensorMode \/ SetSensorMode \/ SetFormat \/ SetFrameRate
  BY <1>0, <1>1, <1>2 DEF Open, QuerySensorMode, SetSensorMode, SetFormat, SetFrameRate, Configure
<1>3. CASE QueryCapabilities \/ EnumerateSizes \/ EnumerateIntervals
  BY <1>0, <1>1, <1>3 DEF QueryCapabilities, Configure, EnumerateSizes, EnumerateIntervals
<1>4. CASE EnumerateFormats
  <2>1. CASE pc' = "unwind" /\ code' = 0 /\ result' = "PASS"
    BY <2>1 DEF VerdictInv, Told
  <2> QED  BY <1>0, <1>1, <1>4, <2>1 DEF EnumerateFormats
<1>5. CASE RequestBuffers \/ QueryBuffer \/ MapBuffer \/ QueueInitial \/ StreamOn
  BY <1>0, <1>1, <1>5 DEF RequestBuffers, QueryBuffer, MapBuffer, QueueInitial, StreamOn
<1>6. CASE CheckLoop \/ PollReady \/ PollFails \/ Recheck \/ DequeueNothing
  BY <1>0, <1>1, <1>6 DEF CheckLoop, PollReady, PollFails, Recheck, DequeueNothing
<1>7. CASE PollTimeout
  BY <1>7 DEF PollTimeout, VerdictInv, Told
<1>8. CASE Dequeue \/ DequeueFails \/ Requeue
  BY <1>0, <1>1, <1>8 DEF Dequeue, AfterCount, DequeueFails, Requeue
<1>9. CASE CreateOutput \/ WriteChunk \/ CloseOutput \/ StopStreaming
  BY <1>0, <1>1, <1>9 DEF CreateOutput, WriteChunk, CloseOutput, StopStreaming
<1>10. CASE Judge
  <2>1. CASE /\ StopRequested /\ pc' = "interrupted" /\ result' = "INTERRUPTED"
             /\ code' = code /\ stop' = stop /\ pc = "judge"
    BY <2>1 DEF VerdictInv, StopRequested
  <2>2. CASE pc' = "unwind" /\ result' = "PASS" /\ code' = 0
    BY <2>2 DEF VerdictInv, Told
  <2>3. CASE pc' = "unwind" /\ result' = "FAIL" /\ code' = 5
    BY <2>3 DEF VerdictInv, Told
  <2>4. CASE pc = "judge" /\ pc' = "unwind" /\ code' = 3 /\ result' = result
    BY <1>1, <2>4
  <2> QED
    BY <1>10, <2>1, <2>2, <2>3, <2>4 DEF Judge, Idle, Quiet, signals
<1>11. CASE ReturnSignal
  <2>1. /\ pc = "interrupted" /\ pc' = "unwind" /\ code' = 128 + stop /\ result' = result
    BY <1>11 DEF ReturnSignal, InterruptedCode
  <2>2. code' \in {128 + SIGINT, 128 + SIGTERM} /\ result' = "INTERRUPTED"
    BY <2>1 DEF VerdictInv, DataTypes
  <2> QED  BY <2>1, <2>2 DEF VerdictInv, Told
<1>12. CASE Unwind \/ UnmapBuffer \/ CloseDevice
  <2>1. pc \in After /\ pc' \in After /\ UNCHANGED verdict
    BY <1>12 DEF Unwind, UnmapBuffer, CloseDevice
  <2> QED  BY <2>1 DEF VerdictInv, Told
<1>13. CASE Signal \/ FillBuffer \/ MissFrame \/ Expire \/ UNCHANGED vars
  <2>1. UNCHANGED <<pc, result, code>>
    BY <1>13, Zenon DEF Signal, FillBuffer, MissFrame, Expire, process, vars, control
  <2>2. stop # 0 => stop' # 0
    <3>1. CASE Signal
      <4>1. stop' \in {SIGINT, SIGTERM}
        BY <3>1 DEF Signal
      <4> QED  BY ONLY <4>1, SMT DEF SIGINT, SIGTERM
    <3> QED  BY <3>1, SignalFrame
  <2> QED  BY <2>1, <2>2 DEF VerdictInv, Told
<1> QED
  BY <1>2, <1>3, <1>4, <1>5, <1>6, <1>7, <1>8, <1>9, <1>10, <1>11, <1>12, <1>13
  DEF Next, Step, Finished

LEMMA VerdictInvariant == Spec => []VerdictInv
<1>1. Init => VerdictInv
  BY DEF Init, VerdictInv, After
<1>2. VerdictInv /\ TypeOK /\ [Next]_vars => VerdictInv'
  BY VerdictStep DEF TypeOK
<1> QED  BY <1>1, <1>2, TypeCorrect, PTL DEF Spec

(***************************************************************************)
(* The number in the INTERRUPTED line and the exit code are two reads of   *)
(* g_stop_signal: what lies between them is late.                          *)
(***************************************************************************)
SignalTold == \E n \in {printed} \cup late : code = 128 + n

LineInv ==
    /\ pc = "interrupted" => stop \in {printed} \cup late
    /\ pc \in After /\ result = "INTERRUPTED" => SignalTold

\* late grows only while the program is between the two reads
LEMMA LateFrame == ASSUME [Next]_vars, ~Signal PROVE late' = late
<1> USE DEF Quiet, Idle, signals
<1>1. CASE \/ Open \/ QueryCapabilities \/ QuerySensorMode \/ SetSensorMode
           \/ SetFormat \/ SetFrameRate \/ EnumerateFormats \/ EnumerateSizes
           \/ EnumerateIntervals
  BY <1>1, Zenon DEF Open, QueryCapabilities, QuerySensorMode, SetSensorMode, SetFormat,
     SetFrameRate, Configure, EnumerateFormats, EnumerateSizes, EnumerateIntervals
<1>2. CASE RequestBuffers \/ QueryBuffer \/ MapBuffer \/ QueueInitial \/ StreamOn
  BY <1>2, Zenon DEF RequestBuffers, QueryBuffer, MapBuffer, QueueInitial, StreamOn
<1>3. CASE CheckLoop \/ PollReady \/ PollTimeout \/ PollFails \/ Recheck
  BY <1>3, Zenon DEF CheckLoop, PollReady, PollTimeout, PollFails, Recheck
<1>4. CASE Dequeue \/ DequeueNothing \/ DequeueFails \/ Requeue
  BY <1>4, Zenon DEF Dequeue, DequeueNothing, DequeueFails, Requeue
<1>5. CASE CreateOutput \/ WriteChunk \/ CloseOutput
  BY <1>5, Zenon DEF CreateOutput, WriteChunk, CloseOutput
<1>6. CASE StopStreaming \/ Judge \/ ReturnSignal
  BY <1>6, Zenon DEF StopStreaming, Judge, ReturnSignal
<1>7. CASE Unwind \/ UnmapBuffer \/ CloseDevice
  BY <1>7, Zenon DEF Unwind, UnmapBuffer, CloseDevice
<1>8. CASE FillBuffer \/ MissFrame \/ Expire
  BY <1>8, Zenon DEF FillBuffer, MissFrame, Expire, process
<1>9. CASE UNCHANGED vars
  BY <1>9, Zenon DEF vars
<1> QED
  BY <1>1, <1>2, <1>3, <1>4, <1>5, <1>6, <1>7, <1>8, <1>9 DEF Next, Step, Finished

\* where the program is after a step that is neither part of the verdict nor
\* of the unwinding
LEMMA VerdictFrame ==
    ASSUME [Next]_vars, ~Judge, ~ReturnSignal
    PROVE  \/ UNCHANGED <<pc, result, printed, code>>
           \/ /\ pc \in After /\ pc' \in After
              /\ UNCHANGED <<result, printed, code>>
           \/ /\ pc \notin After \cup {"interrupted"}
              /\ pc' # "interrupted"
              /\ result' # "INTERRUPTED" \/ result' = result
<1> USE DEF Goto, Proceed, Throw, verdict, After
<1>1. CASE Open \/ QuerySensorMode \/ SetSensorMode \/ SetFormat \/ SetFrameRate
  BY <1>1 DEF Open, QuerySensorMode, SetSensorMode, SetFormat, SetFrameRate, Configure
<1>2. CASE QueryCapabilities \/ EnumerateFormats \/ EnumerateSizes \/ EnumerateIntervals
  BY <1>2 DEF QueryCapabilities, Configure, EnumerateFormats, EnumerateSizes,
     EnumerateIntervals
<1>3. CASE RequestBuffers \/ QueryBuffer \/ MapBuffer \/ QueueInitial \/ StreamOn
  BY <1>3 DEF RequestBuffers, QueryBuffer, MapBuffer, QueueInitial, StreamOn
<1>4. CASE CheckLoop \/ PollReady \/ PollTimeout \/ PollFails \/ Recheck
  BY <1>4 DEF CheckLoop, PollReady, PollTimeout, PollFails, Recheck
<1>5. CASE Dequeue \/ DequeueNothing \/ DequeueFails \/ Requeue
  BY <1>5 DEF Dequeue, AfterCount, DequeueNothing, DequeueFails, Requeue
<1>6. CASE CreateOutput \/ WriteChunk \/ CloseOutput \/ StopStreaming
  BY <1>6 DEF CreateOutput, WriteChunk, CloseOutput, StopStreaming
<1>7. CASE Unwind \/ UnmapBuffer \/ CloseDevice
  BY <1>7 DEF Unwind, UnmapBuffer, CloseDevice
<1>8. CASE Signal \/ FillBuffer \/ MissFrame \/ Expire \/ UNCHANGED vars
  BY <1>8, Zenon DEF Signal, FillBuffer, MissFrame, Expire, process, vars, control
<1> QED
  BY <1>1, <1>2, <1>3, <1>4, <1>5, <1>6, <1>7, <1>8 DEF Next, Step, Finished

LEMMA LineStep ==
    VerdictInv /\ LineInv /\ [Next]_vars => LineInv'
<1> SUFFICES ASSUME VerdictInv, LineInv, [Next]_vars PROVE LineInv'
  OBVIOUS
<1>1. CASE Judge
  <2>1. /\ pc = "judge"
        /\ \/ pc' = "interrupted" /\ printed' = stop /\ stop' = stop
           \/ pc' = "unwind" /\ result' \in {result, "PASS", "FAIL"}
    BY <1>1 DEF Judge, Goto, Throw, Idle, Quiet, signals
  <2>2. result = "none"
    BY <2>1 DEF VerdictInv, After
  <2> QED  BY <2>1, <2>2 DEF LineInv, After
<1>2. CASE ReturnSignal
  <2>1. /\ pc = "interrupted" /\ pc' = "unwind" /\ code' = 128 + stop
        /\ printed' = printed /\ late' = late
    BY <1>2, Zenon DEF ReturnSignal, InterruptedCode, Goto, Idle, Quiet, signals
  <2>2. stop \in {printed} \cup late
    BY <2>1 DEF LineInv
  <2>3. SignalTold'
    BY <2>1, <2>2, Zenon DEF SignalTold
  <2> QED  BY <2>1, <2>3, Zenon DEF LineInv
<1>3. CASE ~Judge /\ ~ReturnSignal
  <2>1. late \subseteq late'
    <3>1. CASE Signal
      BY <3>1 DEF Signal
    <3> QED  BY <3>1, LateFrame
  <2>2. SignalTold /\ UNCHANGED <<printed, code>> => SignalTold'
    BY <2>1, Zenon DEF SignalTold
  <2>3. CASE UNCHANGED <<pc, result, printed, code>>
    <3>1. pc = "interrupted" => stop' \in {printed'} \cup late'
      <4>1. CASE Signal
        BY <4>1 DEF Signal
      <4>2. CASE ~Signal
        BY <2>1, <2>3, <4>2, SignalFrame DEF LineInv
      <4> QED  BY <4>1, <4>2
    <3> QED  BY <2>2, <2>3, <3>1, Zenon DEF LineInv
  <2>4. CASE pc \in After /\ pc' \in After /\ UNCHANGED <<result, printed, code>>
    <3>1. pc' # "interrupted"
      BY <2>4 DEF After
    <3> QED  BY <2>2, <2>4, <3>1, Zenon DEF LineInv
  <2>5. CASE /\ pc \notin After \cup {"interrupted"}
             /\ pc' # "interrupted"
             /\ result' # "INTERRUPTED" \/ result' = result
    <3>1. result = "none"
      BY <2>5 DEF VerdictInv
    <3>2. result' # "INTERRUPTED"
      BY <2>5, <3>1
    <3> QED  BY <2>5, <3>2, Zenon DEF LineInv
  <2> QED  BY <1>3, <2>3, <2>4, <2>5, VerdictFrame
<1> QED  BY <1>1, <1>2, <1>3

(* The exit code and the RESULT line never contradict each other, and an   *)
(* interrupted run exits with the signal it names or with one that arrived *)
(* after it had named it.                                                  *)
THEOREM ExitTellsResult == Spec => []ExitMatchesResult
<1>1. VerdictInv /\ pc = "done" => CodeTellsResult
  <2> SUFFICES ASSUME VerdictInv, pc = "done" PROVE CodeTellsResult
    OBVIOUS
  <2> USE DEF CodeTellsResult, SIGINT, SIGTERM
  <2>1. Told
    BY Zenon DEF VerdictInv, After
  <2>2. CASE code = 0 /\ result = "PASS"
    BY ONLY <2>2, SMT
  <2>3. CASE code = 5 /\ result = "FAIL"
    BY ONLY <2>3, SMT
  <2>4. CASE code = 4 /\ result = "TIMEOUT"
    BY ONLY <2>4, SMT
  <2>5. CASE code \in {128 + SIGINT, 128 + SIGTERM} /\ result = "INTERRUPTED"
    BY ONLY <2>5, SMT
  <2>6. CASE code \in {2, 3} /\ result = "none"
    BY ONLY <2>6, SMT
  <2> QED  BY ONLY <2>1, <2>2, <2>3, <2>4, <2>5, <2>6, Zenon DEF Told
<1>2. LineInv /\ pc = "done" => CodeTellsSignal
  BY Zenon DEF LineInv, After, SignalTold, CodeTellsSignal
<1>3. Init => LineInv
  BY DEF Init, LineInv, After
<1>4. VerdictInv /\ LineInv /\ [Next]_vars => LineInv'
  BY LineStep
<1>5. Spec => []LineInv
  BY <1>3, <1>4, VerdictInvariant, PTL DEF Spec
<1>6. VerdictInv /\ LineInv => ExitMatchesResult
  BY <1>1, <1>2, Zenon DEF ExitMatchesResult
<1> QED  BY <1>5, <1>6, VerdictInvariant, PTL
-----------------------------------------------------------------------------
(***************************************************************************)
(* Stopping.  A frame is only dequeued after a check that found the limit  *)
(* not reached and a second check that found no signal; so a signal can    *)
(* come too late for one frame, and for no more.                           *)
(***************************************************************************)
StopInv ==
    /\ stop = 0 <=> atStop = NoSignal
    /\ opts.frames # 0 => stats.frames <= opts.frames
    /\ pc \in {"poll", "recheck", "dequeue"} /\ opts.frames # 0 =>
          stats.frames < opts.frames
    /\ atStop # NoSignal => stats.frames <= atStop + 1
    /\ atStop # NoSignal /\ pc = "dequeue" => stats.frames <= atStop

OptsType == opts \in [list : BOOLEAN, mode : BOOLEAN, timed : BOOLEAN,
                      allowDrops : BOOLEAN, frames : Nat, saveAt : Nat]

LEMMA OptsTyped == DataTypes => OptsType
  BY OptionsAssumption DEF DataTypes, OptsType, ValidOptions, Options

(* One frame is counted at a time. *)
LEMMA CountByOne == ASSUME DataTypes, Dequeue PROVE stats'.frames = stats.frames + 1
  BY DEF Dequeue, AddFrame, DataTypes, Stats

LEMMA StopStep == StopInv /\ DataTypes /\ [Next]_vars => StopInv'
<1> SUFFICES ASSUME StopInv, DataTypes, [Next]_vars PROVE StopInv'
  OBVIOUS
<1>0. /\ opts' = opts /\ opts.frames \in Nat /\ stats.frames \in Nat
      /\ atStop \in Nat \cup {NoSignal} /\ stop \in {0, SIGINT, SIGTERM}
  BY OptsFrame, OptsTyped DEF OptsType, DataTypes, Stats
<1>1. ASSUME ~Signal, ~Dequeue,
             pc' \in {"poll", "recheck", "dequeue"} => pc' = pc
      PROVE  StopInv'
  <2>1. UNCHANGED <<stop, atStop, stats>>
    BY <1>1, SignalFrame, TallyFrame
  <2> QED  BY <1>0, <1>1, <2>1 DEF StopInv
<1>2. CASE Signal
  <2>1. /\ UNCHANGED <<pc, stats>> /\ stop' \in {SIGINT, SIGTERM}
        /\ atStop' = IF atStop = NoSignal THEN stats.frames ELSE atStop
    BY <1>2 DEF Signal, process, tally
  <2>2. stop' # 0
    BY ONLY <2>1, SMT DEF SIGINT, SIGTERM
  <2>3. atStop' # NoSignal
    BY ONLY <1>0, <2>1, SMT DEF NoSignal
  <2>4. (stop = 0 <=> atStop = NoSignal)' /\ (opts.frames # 0 => stats.frames <= opts.frames)'
    BY <1>0, <2>1, <2>2, <2>3, Zenon DEF StopInv
  <2>5. (pc \in {"poll", "recheck", "dequeue"} /\ opts.frames # 0 =>
           stats.frames < opts.frames)'
    BY <1>0, <2>1, Zenon DEF StopInv
  <2>6. atStop' = stats.frames \/ (atStop # NoSignal /\ atStop' = atStop)
    BY <2>1, Zenon
  <2>7. /\ stats.frames <= atStop' + 1
        /\ pc = "dequeue" => stats.frames <= atStop'
    BY <1>0, <2>6 DEF StopInv
  <2> QED  BY <2>1, <2>4, <2>5, <2>7, Zenon DEF StopInv
<1>3. CASE Dequeue
  <2>1. /\ pc = "dequeue" /\ pc' \in {"create", "refuse", "requeue"}
        /\ stats'.frames = stats.frames + 1 /\ UNCHANGED <<stop, atStop>>
    BY <1>3, CountByOne DEF Dequeue, Proceed, Goto, AfterCount, signals
  <2> QED  BY <1>0, <2>1 DEF StopInv
<1>4. CASE CheckLoop
  <2>1. /\ pc' \in {"streamoff", "poll"}
        /\ pc' = "poll" => ~LimitReached
        /\ UNCHANGED <<stop, atStop, stats>>
    BY <1>4 DEF CheckLoop, Proceed, Goto, Idle, Quiet, signals, tally
  <2> QED  BY <1>0, <2>1 DEF StopInv, LimitReached
<1>5. CASE PollReady
  <2>1. pc = "poll" /\ pc' = "recheck" /\ UNCHANGED <<stop, atStop, stats>>
    BY <1>5 DEF PollReady, Proceed, Goto, Idle, Quiet, signals, tally
  <2> QED  BY <1>0, <2>1 DEF StopInv
<1>6. CASE Recheck
  <2>1. /\ pc = "recheck" /\ pc' \in {"streamoff", "dequeue"}
        /\ pc' = "dequeue" => stop = 0
        /\ UNCHANGED <<stop, atStop, stats>>
    BY <1>6 DEF Recheck, StopRequested, Proceed, Goto, Idle, Quiet, signals, tally
  <2> QED  BY <1>0, <2>1 DEF StopInv
<1> USE DEF Goto, Proceed, Throw
<1>7. CASE \/ Open \/ QueryCapabilities \/ QuerySensorMode \/ SetSensorMode
           \/ SetFormat \/ SetFrameRate \/ EnumerateFormats \/ EnumerateSizes \/ EnumerateIntervals
  <2>1. pc' \notin {"poll", "recheck", "dequeue"}
    BY <1>7 DEF Open, QueryCapabilities, QuerySensorMode, SetSensorMode, SetFormat, SetFrameRate,
       Configure, EnumerateFormats, EnumerateSizes, EnumerateIntervals
  <2> QED  BY <1>1, <1>2, <1>3, <2>1
<1>8. CASE RequestBuffers \/ QueryBuffer \/ MapBuffer \/ QueueInitial \/ StreamOn
  <2>1. pc' \notin {"poll", "recheck", "dequeue"}
    BY <1>8 DEF RequestBuffers, QueryBuffer, MapBuffer, QueueInitial, StreamOn
  <2> QED  BY <1>1, <1>2, <1>3, <2>1
<1>9. CASE PollTimeout \/ PollFails \/ DequeueNothing \/ DequeueFails \/ Requeue
  <2>1. pc' \notin {"poll", "recheck", "dequeue"}
    BY <1>9 DEF PollTimeout, PollFails, DequeueNothing, DequeueFails, Requeue
  <2> QED  BY <1>1, <1>2, <1>3, <2>1
<1>10. CASE CreateOutput \/ WriteChunk \/ CloseOutput \/ StopStreaming \/ Judge
           \/ ReturnSignal
  <2>1. pc' \notin {"poll", "recheck", "dequeue"}
    BY <1>10 DEF CreateOutput, WriteChunk, CloseOutput, StopStreaming, Judge, ReturnSignal
  <2> QED  BY <1>1, <1>2, <1>3, <2>1
<1>11. CASE Unwind \/ UnmapBuffer \/ CloseDevice
  <2>1. pc' \notin {"poll", "recheck", "dequeue"}
    BY <1>11 DEF Unwind, UnmapBuffer, CloseDevice
  <2> QED  BY <1>1, <1>2, <1>3, <2>1
<1>12. CASE FillBuffer \/ MissFrame \/ Expire \/ UNCHANGED vars
  <2>1. pc' = pc
    BY <1>12, Zenon DEF FillBuffer, MissFrame, Expire, process, vars, control
  <2> QED  BY <1>1, <1>2, <1>3, <2>1
<1> QED
  BY <1>2, <1>3, <1>4, <1>5, <1>6, <1>7, <1>8, <1>9, <1>10, <1>11, <1>12
  DEF Next, Step, Finished

(* No frame beyond --frames, and at most one after a signal. *)
THEOREM StopIsPrompt == Spec => []StopsInTime
<1>1. Init => StopInv
  <2> SUFFICES ASSUME Init PROVE StopInv
    OBVIOUS
  <2>1. opts.frames \in Nat
    BY OptionsAssumption DEF Init, ValidOptions, Options
  <2> QED  BY <2>1 DEF Init, StopInv, NewStats
<1>2. StopInv /\ TypeOK /\ [Next]_vars => StopInv'
  BY StopStep DEF TypeOK
<1>3. StopInv => StopsInTime
  BY DEF StopInv, StopsInTime
<1> QED  BY <1>1, <1>2, <1>3, TypeCorrect, PTL DEF Spec
-----------------------------------------------------------------------------
(* The frames: the ones counted are followed from the sensor through the   *)
(* driver's buffers into the counters, and the one that is saved from its  *)
(* buffer into the file.                                                   *)

(* The frames in completed buffers: distinct, produced, newer than every   *)
(* frame already counted.                                                  *)
SensorInv ==
    /\ produced <= MaxSensorFrames
    /\ flagged \subseteq 1 .. produced
    /\ \A b \in Done : frame[b] \in 1 .. produced
    /\ \A b, c \in Done : b # c => frame[b] # frame[c]
    /\ \A i \in 1 .. Len(taken) : taken[i] \in 1 .. produced
    /\ \A b \in Done, i \in 1 .. Len(taken) : taken[i] < frame[b]

(* The counters and the frames they were computed from. *)
TallyInv ==
    /\ Len(taken) = stats.frames
    /\ stats.frames # 0 => stats.last = SeqOf(taken[stats.frames])
    /\ stats.errors = 0 => \A i \in 1 .. Len(taken) : taken[i] \notin flagged
    /\ stats.dropped = 0 /\ stats.disc = 0 =>
          \A i \in 1 .. Len(taken) - 1 : taken[i + 1] = taken[i] + 1

(* Why the loop was left. *)
EndInv ==
    /\ pc \in {"list", "sizes", "intervals"} => opts.list
    /\ pc \in {"streamoff", "judge"} => stop # 0 \/ LimitReached
    /\ result = "PASS" /\ ~opts.list => LimitReached /\ Passed

(* The frame being worked on, and what the file holds of it. *)
FileInv ==
    /\ pc \in Working =>
          Len(taken) # 0 /\ frame[held] = taken[Len(taken)]
    /\ pc \in {"create", "write", "closeout"} =>
          /\ ~saved /\ opts.saveAt = Len(taken)
          /\ taken[Len(taken)] \notin flagged
    /\ pc = "write" => Len(file) < FrameChunks
    /\ pc = "closeout" \/ saved => Len(file) = FrameChunks
    /\ \A i \in 1 .. Len(file) :
          /\ opts.saveAt \in 1 .. Len(taken)
          /\ file[i] = taken[opts.saveAt]
          /\ file[i] \notin flagged
    /\ result \in {"PASS", "FAIL"} /\ opts.saveAt # 0 => saved \/ opts.list

FrameInv == SensorInv /\ TallyInv /\ EndInv /\ FileInv

Typed == TypeOK /\ SessionInv

(* What dequeuing does to the frames: the oldest completed one joins the   *)
(* counted ones.                                                           *)
LEMMA DequeueFrames ==
    ASSUME Typed, Dequeue
    PROVE  \E b \in Done :
              /\ \A c \in Done : frame[b] <= frame[c]
              /\ Done' = Done \ {b}
              /\ held' = b
              /\ stats' = AddFrame(stats, SeqOf(frame[b]), frame[b] \in flagged)
              /\ taken' = Append(taken, frame[b])
              /\ pc' = AfterCount(stats'.frames, frame[b] \in flagged)
              /\ UNCHANGED <<opts, frame, flagged, produced, stop, expired,
                            file, saved, result, code>>
<1>1. PICK b \in Oldest :
         /\ owner' = [owner EXCEPT ![b] = "user"]
         /\ held' = b
         /\ stats' = AddFrame(stats, SeqOf(frame[b]), frame[b] \in flagged)
         /\ taken' = Append(taken, frame[b])
         /\ Proceed(AfterCount(stats'.frames, frame[b] \in flagged))
  BY Zenon DEF Dequeue
<1>2. /\ b \in Done /\ b \in Buffers
      /\ \A c \in Done : frame[b] <= frame[c]
  BY DEF Oldest, Done
<1>3. Done' = Done \ {b}
  BY <1>1, <1>2 DEF Done, Typed, TypeOK, DataTypes
<1>4. UNCHANGED <<opts, frame, flagged, produced, stop, expired, file, saved, result, code>>
  BY <1>1, Zenon DEF Dequeue, Proceed, sensor, signals, verdict
<1>5. pc' = AfterCount(stats'.frames, frame[b] \in flagged)
  BY <1>1, Zenon DEF Proceed, Goto
<1> QED  BY <1>1, <1>2, <1>3, <1>4, <1>5, Zenon

(* Appending keeps the frames counted before. *)
LEMMA AppendKeeps ==
    ASSUME NEW s \in Seq(Nat), NEW n \in Nat
    PROVE  /\ Len(Append(s, n)) = Len(s) + 1 /\ Len(s) \in Nat
           /\ \A i \in 1 .. Len(s) : Append(s, n)[i] = s[i]
           /\ Append(s, n)[Len(s) + 1] = n
  OBVIOUS

LEMMA SensorStep == Typed /\ SensorInv /\ [Next]_vars => SensorInv'
<1> SUFFICES ASSUME Typed, SensorInv, [Next]_vars PROVE SensorInv'
  OBVIOUS
<1>0. /\ taken \in Seq(Nat) /\ Len(taken) \in Nat /\ produced \in Nat
      /\ frame \in [Buffers -> Nat] /\ Done \subseteq Buffers /\ flagged \subseteq Nat
      /\ MaxSensorFrames \in Nat
  BY RawCaptureAssumption DEF Typed, TypeOK, HistoryTypes, DataTypes, Done
<1>1. CASE Dequeue
  <2>1. PICK b \in Done :
           /\ \A c \in Done : frame[b] <= frame[c]
           /\ Done' = Done \ {b} /\ taken' = Append(taken, frame[b])
           /\ UNCHANGED <<frame, flagged, produced>>
    BY <1>1, DequeueFrames, Zenon
  <2>2. frame[b] \in Nat
    BY <1>0
  <2>3. /\ Len(taken') = Len(taken) + 1
        /\ \A i \in 1 .. Len(taken) : taken'[i] = taken[i]
        /\ taken'[Len(taken) + 1] = frame[b]
    BY <1>0, <2>1, <2>2, AppendKeeps
  <2>4. \A i \in 1 .. Len(taken') : i \in 1 .. Len(taken) \/ i = Len(taken) + 1
    BY <1>0, <2>3
  <2>5. \A i \in 1 .. Len(taken') : taken'[i] \in 1 .. produced
    BY <2>3, <2>4 DEF SensorInv
  <2>6. \A c \in Done', i \in 1 .. Len(taken') : taken'[i] < frame[c]
    <3> SUFFICES ASSUME NEW c \in Done', NEW i \in 1 .. Len(taken')
                 PROVE  taken'[i] < frame[c]
      OBVIOUS
    <3>1. CASE i \in 1 .. Len(taken)
      BY <2>1, <2>3, <3>1 DEF SensorInv
    <3>2. CASE i = Len(taken) + 1
      <4>1. frame[b] # frame[c] /\ frame[b] <= frame[c] /\ frame[c] \in Nat
        BY <1>0, <2>1 DEF SensorInv
      <4> QED  BY <2>2, <2>3, <3>2, <4>1
    <3> QED  BY <2>4, <3>1, <3>2
  <2> QED  BY <2>1, <2>5, <2>6 DEF SensorInv
<1>2. CASE FillBuffer
  <2>1. PICK b \in Buffers : /\ owner[b] = "queued"
                            /\ owner' = [owner EXCEPT ![b] = "done"]
                            /\ frame' = [frame EXCEPT ![b] = produced']
    BY <1>2, Zenon DEF FillBuffer
  <2>2. /\ produced < MaxSensorFrames /\ produced' = produced + 1
        /\ flagged' \in {flagged, flagged \cup {produced'}} /\ taken' = taken
    BY <1>2 DEF FillBuffer, NextFrame, process, tally
  <2>3. Done' = Done \cup {b} /\ b \notin Done
    BY <2>1 DEF Done, Typed, TypeOK, DataTypes
  <2>4. frame'[b] = produced + 1 /\ \A c \in Done : frame'[c] = frame[c]
    BY <1>0, <2>1, <2>2, <2>3
  <2>5. /\ \A c \in Done : frame[c] \in 1 .. produced
        /\ \A i \in 1 .. Len(taken) : taken[i] \in 1 .. produced
        /\ \A c, d \in Done : c # d => frame[c] # frame[d]
        /\ \A c \in Done, i \in 1 .. Len(taken) : taken[i] < frame[c]
    BY DEF SensorInv
  <2>6. produced' <= MaxSensorFrames /\ flagged' \subseteq 1 .. produced'
    BY <1>0, <2>2 DEF SensorInv
  <2>7. /\ \A c \in Done' : frame'[c] \in 1 .. produced'
        /\ \A i \in 1 .. Len(taken') : taken'[i] \in 1 .. produced'
    BY <1>0, <2>2, <2>3, <2>4, <2>5
  <2>8. \A c, d \in Done' : c # d => frame'[c] # frame'[d]
    BY <1>0, <2>3, <2>4, <2>5
  <2>9. \A c \in Done', i \in 1 .. Len(taken') : taken'[i] < frame'[c]
    BY <1>0, <2>2, <2>3, <2>4, <2>5
  <2> QED  BY <2>6, <2>7, <2>8, <2>9 DEF SensorInv
<1>3. CASE MissFrame
  <2>1. /\ produced < MaxSensorFrames /\ produced' = produced + 1
        /\ UNCHANGED <<frame, flagged, taken, owner>>
    BY <1>3, Zenon DEF MissFrame, NextFrame, process, tally, session
  <2>2. Done' = Done
    BY <2>1 DEF Done
  <2> QED  BY <1>0, <2>1, <2>2 DEF SensorInv
<1>4. CASE ~Dequeue /\ ~FillBuffer /\ ~MissFrame
  <2>1. Done' \subseteq Done /\ UNCHANGED <<frame, flagged, produced, taken>>
    BY <1>4, DoneFrame, SensorFrame, TallyFrame DEF Typed, TypeOK
  <2> QED  BY <2>1 DEF SensorInv
<1> QED  BY <1>1, <1>2, <1>3, <1>4
-----------------------------------------------------------------------------
(* From the driver's numbers of two frames add_frame computes their       *)
(* distance: the sensor never gets a whole cycle ahead.                    *)
LEMMA SeqDistance ==
    ASSUME NEW m \in SensorFrames, NEW n \in SensorFrames, m < n,
           NEW s \in Stats, s.last = SeqOf(m)
    PROVE  n - m \in 1 .. SeqMod - 1 /\ Delta(s, SeqOf(n)) = n - m
<1> DEFINE x == FirstSeq + m - 1
           y == FirstSeq + n - 1
<1>1. /\ SeqMod \in Nat /\ x \in Nat /\ y \in Nat /\ x < y
      /\ y < 2 * SeqMod /\ y - x = n - m /\ n - m \in 1 .. SeqMod - 1
  BY RawCaptureAssumption, SeqModAssumption DEF SensorFrames, SeqNum
<1>2. SeqOf(m) = x % SeqMod /\ SeqOf(n) = y % SeqMod
  BY DEF SeqOf
<1> HIDE DEF x, y
<1>3. CASE y < SeqMod
  <2>1. SeqOf(m) = x /\ SeqOf(n) = y
    BY <1>1, <1>2, <1>3, RemainderOnce
  <2>2. (y + SeqMod - x) % SeqMod = y - x
    BY <1>1, <1>3, RemainderOnce
  <2> QED  BY <1>1, <2>1, <2>2 DEF Delta
<1>4. CASE x < SeqMod /\ SeqMod <= y
  <2>1. SeqOf(m) = x /\ SeqOf(n) = y - SeqMod
    BY <1>1, <1>2, <1>4, RemainderOnce
  <2>2. (y - SeqMod) + SeqMod - x = y - x /\ (y - x) % SeqMod = y - x
    BY <1>1, RemainderOnce
  <2> QED  BY <1>1, <2>1, <2>2 DEF Delta
<1>5. CASE SeqMod <= x
  <2>1. SeqOf(m) = x - SeqMod /\ SeqOf(n) = y - SeqMod
    <3>1. x < 2 * SeqMod /\ SeqMod <= y
      BY <1>1, <1>5
    <3>2. x % SeqMod = x - SeqMod
      BY <1>1, <1>5, <3>1, RemainderOnce
    <3>3. y % SeqMod = y - SeqMod
      BY <1>1, <3>1, RemainderOnce
    <3> QED  BY <1>2, <3>2, <3>3
  <2>2. (y - SeqMod) + SeqMod - (x - SeqMod) = (y - x) + SeqMod
    BY <1>1
  <2>3. ((y - x) + SeqMod) % SeqMod = y - x
    BY <1>1, RemainderOnce
  <2> QED  BY <1>1, <2>1, <2>2, <2>3 DEF Delta
<1> QED  BY <1>1, <1>3, <1>4, <1>5

LEMMA TallyStep == Typed /\ SensorInv /\ TallyInv /\ [Next]_vars => TallyInv'
<1> SUFFICES ASSUME Typed, SensorInv, TallyInv, [Next]_vars PROVE TallyInv'
  OBVIOUS
<1>0. /\ taken \in Seq(Nat) /\ Len(taken) \in Nat /\ produced \in Nat
      /\ frame \in [Buffers -> Nat] /\ Done \subseteq Buffers
      /\ stats \in Stats /\ stats.frames \in Nat /\ stats.errors \in Nat
      /\ stats.dropped \in Nat /\ stats.disc \in Nat
      /\ MaxSensorFrames \in Nat /\ SeqMod \in Nat /\ SeqMod >= 8
  BY RawCaptureAssumption, SeqModAssumption
  DEF Typed, TypeOK, HistoryTypes, DataTypes, Done, Stats
<1>1. CASE Dequeue
  <2>1. PICK b \in Done :
           /\ stats' = AddFrame(stats, SeqOf(frame[b]), frame[b] \in flagged)
           /\ taken' = Append(taken, frame[b]) /\ flagged' = flagged
    BY <1>1, DequeueFrames, Zenon
  <2> DEFINE n == frame[b]
             l == stats.frames
  <2>2. /\ n \in Nat /\ n \in 1 .. produced /\ n \in SensorFrames
        /\ \A i \in 1 .. Len(taken) : taken[i] < n /\ taken[i] \in SensorFrames
    BY <1>0 DEF SensorInv, SensorFrames
  <2>3. /\ Len(taken') = l + 1 /\ Len(taken) = l
        /\ \A i \in 1 .. l : taken'[i] = taken[i]
        /\ taken'[l + 1] = n
    BY <1>0, <2>1, <2>2, AppendKeeps DEF TallyInv
  <2>4. /\ stats'.frames = l + 1 /\ stats'.last = SeqOf(n)
        /\ stats'.errors = stats.errors + (IF n \in flagged THEN 1 ELSE 0)
        /\ l # 0 => /\ stats'.dropped = stats.dropped + Missing(Delta(stats, SeqOf(n)))
                    /\ stats'.disc = stats.disc
                         + (IF IsDiscontinuity(Delta(stats, SeqOf(n))) THEN 1 ELSE 0)
    BY <2>1 DEF AddFrame
  <2> HIDE DEF n, l
  <2>5. stats'.errors = 0 => \A i \in 1 .. Len(taken') : taken'[i] \notin flagged'
    <3> SUFFICES ASSUME stats'.errors = 0, NEW i \in 1 .. Len(taken')
                 PROVE  taken'[i] \notin flagged
      BY <2>1
    <3>1. stats.errors = 0 /\ n \notin flagged
      BY <1>0, <2>4
    <3>2. i \in 1 .. l \/ i = l + 1
      BY <1>0, <2>3 DEF l
    <3> QED  BY <2>3, <3>1, <3>2 DEF TallyInv
  <2>6. stats'.dropped = 0 /\ stats'.disc = 0 =>
          \A i \in 1 .. Len(taken') - 1 : taken'[i + 1] = taken'[i] + 1
    <3> SUFFICES ASSUME stats'.dropped = 0, stats'.disc = 0,
                        NEW i \in 1 .. Len(taken') - 1
                 PROVE  taken'[i + 1] = taken'[i] + 1
      OBVIOUS
    <3>0. l \in Nat /\ l # 0 /\ i \in 1 .. l
      BY <1>0, <2>3 DEF l
    <3> DEFINE m == taken[l]
               d == n - m
    <3>1. m \in SensorFrames /\ m < n /\ stats.last = SeqOf(m)
      <4>1. l \in 1 .. Len(taken)
        BY <2>3, <3>0
      <4>2. m \in SensorFrames /\ m < n
        BY <2>2, <4>1
      <4>3. stats.last = SeqOf(m)
        BY <3>0 DEF TallyInv, l
      <4> QED  BY <4>2, <4>3
    <3>2. d \in 1 .. SeqMod - 1 /\ Delta(stats, SeqOf(n)) = d
      BY <1>0, <2>2, <3>1, SeqDistance
    <3> HIDE DEF d
    <3>4. Missing(d) \in Nat
      BY <3>2 DEF Missing, IsGap
    <3>5. stats.dropped = 0 /\ stats.disc = 0 /\ Missing(d) = 0 /\ ~IsDiscontinuity(d)
      BY <1>0, <2>4, <3>0, <3>2, <3>4
    <3>6. d = 1
      <4>1. KBackwardThreshold \in Nat
        BY <1>0 DEF KBackwardThreshold
      <4> QED  BY <1>0, <3>2, <3>5, <4>1 DEF Missing, IsGap, IsDiscontinuity
    <3>7. CASE i = l
      <4>1. n = m + 1
        BY <2>2, <3>1, <3>6 DEF d, SensorFrames
      <4> QED  BY <2>3, <3>0, <3>7, <4>1
    <3>8. CASE i # l
      <4>1. i \in 1 .. Len(taken) - 1 /\ i \in 1 .. l /\ i + 1 \in 1 .. l
        BY <2>3, <3>0, <3>8
      <4>2. taken[i + 1] = taken[i] + 1
        BY <3>5, <4>1 DEF TallyInv
      <4> QED  BY <2>3, <4>1, <4>2
    <3> QED  BY <3>7, <3>8
  <2>7. stats'.frames # 0 => stats'.last = SeqOf(taken'[stats'.frames])
    BY <2>3, <2>4
  <2> QED  BY <2>3, <2>4, <2>5, <2>6, <2>7 DEF TallyInv
<1>2. CASE ~Dequeue
  <2>1. UNCHANGED <<stats, taken>>
    BY <1>2, TallyFrame
  <2>2. \A i \in 1 .. Len(taken) : taken[i] \notin flagged => taken[i] \notin flagged'
    <3>1. CASE FillBuffer
      <4>1. produced' = produced + 1 /\ flagged' \subseteq flagged \cup {produced'}
        BY <3>1 DEF FillBuffer, NextFrame
      <4> QED  BY <1>0, <4>1 DEF SensorInv
    <3>2. CASE MissFrame
      BY <3>2, Zenon DEF MissFrame
    <3>3. CASE ~FillBuffer /\ ~MissFrame
      BY <3>3, SensorFrame
    <3> QED  BY <3>1, <3>2, <3>3
  <2> QED  BY <2>1, <2>2 DEF TallyInv
<1> QED  BY <1>1, <1>2
-----------------------------------------------------------------------------
(* The verdict is printed in three actions. *)
LEMMA ResultFrame ==
    ASSUME [Next]_vars, ~EnumerateFormats, ~PollTimeout, ~Judge
    PROVE  result' = result
<1> USE DEF Proceed, Throw, verdict
<1>1. CASE Open \/ QueryCapabilities \/ QuerySensorMode \/ SetSensorMode \/ SetFormat
           \/ SetFrameRate \/ EnumerateSizes \/ EnumerateIntervals
  <2>1. CASE QueryCapabilities \/ QuerySensorMode \/ SetSensorMode \/ SetFormat \/ SetFrameRate
    <3>1. ASSUME NEW a, NEW b, NEW c, Configure(a, b, c) PROVE result' = result
      BY <3>1, Zenon DEF Configure
    <3> QED  BY <2>1, <3>1, Zenon DEF QueryCapabilities, QuerySensorMode, SetSensorMode, SetFormat, SetFrameRate
  <2> QED  BY <1>1, <2>1, Zenon DEF Open, EnumerateSizes, EnumerateIntervals
<1>2. CASE RequestBuffers \/ QueryBuffer \/ MapBuffer \/ QueueInitial \/ StreamOn
  BY <1>2, Zenon DEF RequestBuffers, QueryBuffer, MapBuffer, QueueInitial, StreamOn
<1>3. CASE CheckLoop \/ PollReady \/ PollFails \/ Recheck
  BY <1>3, Zenon DEF CheckLoop, PollReady, PollFails, Recheck
<1>4. CASE Dequeue \/ DequeueNothing \/ DequeueFails \/ Requeue
  BY <1>4, Zenon DEF Dequeue, DequeueNothing, DequeueFails, Requeue
<1>5. CASE CreateOutput \/ WriteChunk \/ CloseOutput
  BY <1>5, Zenon DEF CreateOutput, WriteChunk, CloseOutput
<1>6. CASE StopStreaming \/ ReturnSignal
  BY <1>6, Zenon DEF StopStreaming, ReturnSignal
<1>7. CASE Unwind \/ UnmapBuffer \/ CloseDevice
  BY <1>7, Zenon DEF Unwind, UnmapBuffer, CloseDevice
<1>8. CASE Signal \/ FillBuffer \/ MissFrame \/ Expire
  BY <1>8, Zenon DEF Signal, FillBuffer, MissFrame, Expire, process
<1>9. CASE UNCHANGED vars
  BY <1>9, Zenon DEF vars
<1> QED
  BY <1>1, <1>2, <1>3, <1>4, <1>5, <1>6, <1>7, <1>8, <1>9 DEF Next, Step, Finished

(* Only the clock ends --duration. *)
LEMMA ExpiredFrame == ASSUME [Next]_vars, ~Expire PROVE expired' = expired
<1> USE DEF Quiet, Idle
<1>1. CASE \/ Open \/ QueryCapabilities \/ QuerySensorMode \/ SetSensorMode
           \/ SetFormat \/ SetFrameRate \/ EnumerateFormats \/ EnumerateSizes \/ EnumerateIntervals
  BY <1>1, Zenon DEF Open, QueryCapabilities, Configure, QuerySensorMode, SetSensorMode,
     SetFormat, SetFrameRate, EnumerateFormats, EnumerateSizes,
     EnumerateIntervals
<1>2. CASE RequestBuffers \/ QueryBuffer \/ MapBuffer \/ QueueInitial \/ StreamOn
  BY <1>2, Zenon DEF RequestBuffers, QueryBuffer, MapBuffer, QueueInitial, StreamOn
<1>3. CASE CheckLoop \/ PollReady \/ PollTimeout \/ PollFails \/ Recheck
  BY <1>3, Zenon DEF CheckLoop, PollReady, PollTimeout, PollFails, Recheck
<1>4. CASE Dequeue \/ DequeueNothing \/ DequeueFails \/ Requeue
  BY <1>4, Zenon DEF Dequeue, DequeueNothing, DequeueFails, Requeue
<1>5. CASE CreateOutput \/ WriteChunk \/ CloseOutput
  BY <1>5, Zenon DEF CreateOutput, WriteChunk, CloseOutput
<1>6. CASE StopStreaming \/ Judge \/ ReturnSignal
  BY <1>6, Zenon DEF StopStreaming, Judge, ReturnSignal
<1>7. CASE Unwind \/ UnmapBuffer \/ CloseDevice
  BY <1>7, Zenon DEF Unwind, UnmapBuffer, CloseDevice
<1>8. CASE Signal \/ FillBuffer \/ MissFrame
  BY <1>8, Zenon DEF Signal, FillBuffer, MissFrame
<1>9. CASE UNCHANGED vars
  BY <1>9, Zenon DEF vars
<1> QED
  BY <1>1, <1>2, <1>3, <1>4, <1>5, <1>6, <1>7, <1>8, <1>9 DEF Next, Step, Finished

(* A buffer is picked up in Dequeue and put down in Requeue. *)
LEMMA HeldFrame == ASSUME [Next]_vars, ~Dequeue, ~Requeue PROVE held' = held
<1> USE DEF Quiet, Idle, output
<1>1. CASE \/ Open \/ QueryCapabilities \/ QuerySensorMode \/ SetSensorMode
           \/ SetFormat \/ SetFrameRate \/ EnumerateFormats \/ EnumerateSizes \/ EnumerateIntervals
  BY <1>1, Zenon DEF Open, QueryCapabilities, Configure, QuerySensorMode, SetSensorMode,
     SetFormat, SetFrameRate, EnumerateFormats, EnumerateSizes,
     EnumerateIntervals
<1>2. CASE RequestBuffers \/ QueryBuffer \/ MapBuffer \/ QueueInitial \/ StreamOn
  BY <1>2, Zenon DEF RequestBuffers, QueryBuffer, MapBuffer, QueueInitial, StreamOn
<1>3. CASE CheckLoop \/ PollReady \/ PollTimeout \/ PollFails \/ Recheck
  BY <1>3, Zenon DEF CheckLoop, PollReady, PollTimeout, PollFails, Recheck
<1>4. CASE DequeueNothing \/ DequeueFails
  BY <1>4, Zenon DEF DequeueNothing, DequeueFails
<1>5. CASE CreateOutput \/ WriteChunk \/ CloseOutput
  BY <1>5, Zenon DEF CreateOutput, WriteChunk, CloseOutput
<1>6. CASE StopStreaming \/ Judge \/ ReturnSignal
  BY <1>6, Zenon DEF StopStreaming, Judge, ReturnSignal
<1>7. CASE Unwind \/ UnmapBuffer \/ CloseDevice
  BY <1>7, Zenon DEF Unwind, UnmapBuffer, CloseDevice
<1>8. CASE Signal \/ FillBuffer \/ MissFrame \/ Expire
  BY <1>8, Zenon DEF Signal, FillBuffer, MissFrame, Expire, process
<1>9. CASE UNCHANGED vars
  BY <1>9, Zenon DEF vars
<1> QED
  BY <1>1, <1>2, <1>3, <1>4, <1>5, <1>6, <1>7, <1>8, <1>9 DEF Next, Step, Finished
(* The ways into the parts of the run that EndInv and FileInv speak of.    *)
LEMMA Arrivals ==
    ASSUME [Next]_vars
    PROVE  /\ pc' \in {"list", "sizes", "intervals"} =>
                 pc \in {"list", "sizes", "intervals"} \/ opts.list
           /\ pc' \in {"streamoff", "judge"} =>
                 \/ pc \in {"streamoff", "judge"}
                 \/ StopRequested
                 \/ LimitReached
           /\ pc' \in Working => pc \in Working \/ Dequeue
           /\ pc' = "create" => pc = "create" \/ Dequeue
           /\ pc' = "write" => pc = "write" \/ CreateOutput
           /\ pc' = "closeout" => pc = "closeout" \/ WriteChunk \/ CreateOutput
<1> USE DEF Goto, Proceed, Throw, Working
<1>1. CASE \/ Open \/ QueryCapabilities \/ QuerySensorMode \/ SetSensorMode
           \/ SetFormat \/ SetFrameRate \/ EnumerateFormats \/ EnumerateSizes \/ EnumerateIntervals
  <2>1. \/ pc' \in {"querycap", "format", "rate", "reqbufs", "mode", "setmode", "done", "unwind"}
        \/ pc' = "list" /\ opts.list
        \/ /\ pc \in {"list", "sizes", "intervals"}
           /\ pc' \in {"list", "sizes", "intervals"}
    BY <1>1 DEF Open, QueryCapabilities, QuerySensorMode, SetSensorMode, SetFormat, SetFrameRate,
       Configure, EnumerateFormats, EnumerateSizes, EnumerateIntervals
  <2> QED  BY <2>1
<1>2. CASE RequestBuffers \/ QueryBuffer \/ MapBuffer \/ QueueInitial \/ StreamOn
  <2>1. pc' \in {"map", "mmap", "qbuf", "streamon", "check", "unwind"}
    BY <1>2 DEF RequestBuffers, QueryBuffer, MapBuffer, QueueInitial, StreamOn
  <2> QED  BY <2>1
<1>3. CASE CheckLoop \/ PollReady \/ PollTimeout \/ PollFails \/ Recheck
           \/ DequeueNothing \/ DequeueFails
  <2>1. \/ pc' \in {"poll", "recheck", "dequeue", "check", "unwind"}
        \/ pc' = "streamoff" /\ (StopRequested \/ LimitReached)
    BY <1>3 DEF CheckLoop, PollReady, PollTimeout, PollFails, Recheck,
       DequeueNothing, DequeueFails
  <2> QED  BY <2>1
<1>4. CASE Dequeue
  <2>1. pc' \in {"create", "refuse", "requeue"}
    BY <1>4 DEF Dequeue, AfterCount
  <2> QED  BY <1>4, <2>1
<1>5. CASE CreateOutput
  <2>1. pc = "create" /\ pc' \in {"write", "closeout", "unwind"}
    BY <1>5 DEF CreateOutput
  <2> QED  BY <1>5, <2>1
<1>6. CASE WriteChunk
  <2>1. pc = "write" /\ pc' \in {"write", "closeout", "unwind"}
    BY <1>6 DEF WriteChunk
  <2> QED  BY <1>6, <2>1
<1>7. CASE CloseOutput \/ Requeue
  <2>1. pc \in Working /\ pc' \in {"requeue", "check", "unwind"}
    BY <1>7 DEF CloseOutput, Requeue
  <2> QED  BY <2>1
<1>8. CASE StopStreaming \/ Judge \/ ReturnSignal
  <2>1. pc' \in {"unwind", "interrupted"} \/ (pc = "streamoff" /\ pc' = "judge")
    <3>1. CASE StopStreaming
      BY <3>1, Zenon DEF StopStreaming
    <3>2. CASE Judge
      BY <3>2, Zenon DEF Judge
    <3>3. CASE ReturnSignal
      BY <3>3, Zenon DEF ReturnSignal
    <3> QED  BY <1>8, <3>1, <3>2, <3>3
  <2> QED  BY <2>1
<1>9. CASE Unwind \/ UnmapBuffer \/ CloseDevice
  <2>1. pc' \in {"unmap", "done"}
    BY <1>9 DEF Unwind, UnmapBuffer, CloseDevice
  <2> QED  BY <2>1
<1>10. CASE Signal \/ FillBuffer \/ MissFrame \/ Expire \/ UNCHANGED vars
  <2>1. pc' = pc
    BY <1>10, Zenon DEF Signal, FillBuffer, MissFrame, Expire, process, vars, control
  <2> QED  BY <2>1
<1> QED
  BY <1>1, <1>2, <1>3, <1>4, <1>5, <1>6, <1>7, <1>8, <1>9, <1>10
  DEF Next, Step, Finished

(* The limit, once reached, stays reached while no frame is counted. *)
LEMMA LimitStays ==
    ASSUME [Next]_vars, ~Dequeue
    PROVE  (LimitReached => LimitReached') /\ (Passed => Passed')
<1>1. opts' = opts
  BY OptsFrame
<1>2. stats' = stats
  BY TallyFrame
<1>3. expired => expired'
  <2>1. CASE Expire
    BY <2>1, Zenon DEF Expire
  <2>2. CASE ~Expire
    BY <2>2, ExpiredFrame, Zenon
  <2> QED  BY <2>1, <2>2
<1> QED  BY <1>1, <1>2, <1>3, Zenon DEF LimitReached, Passed

LEMMA EndStep == VerdictInv /\ DataTypes /\ EndInv /\ [Next]_vars => EndInv'
<1> SUFFICES ASSUME VerdictInv, DataTypes, EndInv, [Next]_vars PROVE EndInv'
  OBVIOUS
<1>0. opts' = opts
  BY OptsFrame
<1>1. CASE Dequeue
  <2>1. pc = "dequeue" /\ pc' \in {"create", "refuse", "requeue"} /\ result' = result
    BY <1>1 DEF Dequeue, AfterCount, Goto, Proceed, verdict
  <2>2. result = "none"
    BY <2>1 DEF VerdictInv, After
  <2> QED  BY <2>1, <2>2 DEF EndInv
<1>2. CASE ~Dequeue
  <2>1. (LimitReached => LimitReached') /\ (Passed => Passed')
    BY <1>2, LimitStays
  <2>2. stop # 0 => stop' # 0
    <3>1. CASE Signal
      <4>1. stop' \in {SIGINT, SIGTERM}
        BY <3>1 DEF Signal
      <4> QED  BY ONLY <4>1, SMT DEF SIGINT, SIGTERM
    <3> QED  BY <3>1, SignalFrame
  <2>3. (pc \in {"list", "sizes", "intervals"} => opts.list)'
    BY <1>0, Arrivals, Zenon DEF EndInv
  <2>4. (pc \in {"streamoff", "judge"} => stop # 0 \/ LimitReached)'
    BY <2>1, <2>2, Arrivals, Zenon DEF EndInv, StopRequested
  <2>5. (result = "PASS" /\ ~opts.list => LimitReached /\ Passed)'
    <3> SUFFICES ASSUME result' = "PASS", ~opts.list PROVE LimitReached /\ Passed
      BY <1>0, <2>1, Zenon
    <3>1. CASE EnumerateFormats
      BY <3>1, Zenon DEF EnumerateFormats, EndInv
    <3>2. CASE PollTimeout
      BY <3>2 DEF PollTimeout
    <3>3. CASE Judge
      <4>1. /\ pc = "judge"
            /\ \/ result' = "INTERRUPTED"
               \/ result' = result /\ ~StopRequested
               \/ ~StopRequested /\ result' = IF Passed THEN "PASS" ELSE "FAIL"
        BY <3>3, Zenon DEF Judge, Throw
      <4>2. result = "none"
        BY <4>1 DEF VerdictInv, After
      <4>3. ~StopRequested /\ Passed
        BY <4>1, <4>2
      <4> QED  BY <4>1, <4>3, Zenon DEF EndInv, StopRequested
    <3>4. CASE ~EnumerateFormats /\ ~PollTimeout /\ ~Judge
      BY <3>4, ResultFrame, Zenon DEF EndInv
    <3> QED  BY <3>1, <3>2, <3>3, <3>4
  <2> QED  BY <2>3, <2>4, <2>5 DEF EndInv
<1> QED  BY <1>1, <1>2
-----------------------------------------------------------------------------
(* The driver flags new frames only. *)
LEMMA FlagsStay ==
    ASSUME Typed, SensorInv, [Next]_vars, NEW n \in 1 .. produced, n \notin flagged
    PROVE  n \notin flagged'
<1>0. produced \in Nat
  BY DEF Typed, TypeOK, DataTypes
<1>1. CASE FillBuffer
  <2>1. produced' = produced + 1 /\ flagged' \subseteq flagged \cup {produced'}
    BY <1>1 DEF FillBuffer, NextFrame
  <2> QED  BY <1>0, <2>1
<1>2. CASE MissFrame
  BY <1>2, Zenon DEF MissFrame
<1>3. CASE ~FillBuffer /\ ~MissFrame
  BY <1>3, SensorFrame
<1> QED  BY <1>1, <1>2, <1>3

(* The memory of the buffer being worked on is not written. *)
LEMMA HeldMemory ==
    ASSUME Typed, [Next]_vars, ~Dequeue, pc \in Working, pc' \in Working
    PROVE  held' = held /\ frame'[held] = frame[held]
<1>1. CASE Requeue
  <2>1. pc' \in {"unwind", "check"}
    BY <1>1 DEF Requeue, Goto, Proceed, Throw
  <2> QED  BY <2>1 DEF Working
<1>2. CASE FillBuffer
  <2>1. PICK b \in Buffers : owner[b] = "queued" /\ frame' = [frame EXCEPT ![b] = produced']
    BY <1>2, Zenon DEF FillBuffer
  <2>2. held \in Buffers /\ owner[held] = "user"
    BY DEF Typed, SessionInv, Working, Streaming, LoopPcs
  <2>3. held' = held
    BY <1>2, Zenon DEF FillBuffer, process, output
  <2>4. b # held /\ frame \in [Buffers -> Nat]
    BY <2>1, <2>2 DEF Typed, TypeOK, DataTypes
  <2> QED  BY <2>1, <2>2, <2>3, <2>4
<1>3. CASE MissFrame
  BY <1>3, Zenon DEF MissFrame, process, output
<1>4. CASE ~Requeue /\ ~FillBuffer /\ ~MissFrame
  BY <1>4, HeldFrame, SensorFrame
<1> QED  BY <1>1, <1>2, <1>3, <1>4

FileClause ==
    \A i \in 1 .. Len(file) :
       /\ opts.saveAt \in 1 .. Len(taken)
       /\ file[i] = taken[opts.saveAt]
       /\ file[i] \notin flagged

LEMMA FileStep ==
    Typed /\ VerdictInv /\ FrameInv /\ [Next]_vars => FileInv'
<1> SUFFICES ASSUME Typed, VerdictInv, FrameInv, [Next]_vars PROVE FileInv'
  OBVIOUS
<1> USE DEF FrameInv
<1>0. /\ taken \in Seq(Nat) /\ Len(taken) \in Nat /\ file \in Seq(Nat) /\ Len(file) \in Nat
      /\ frame \in [Buffers -> Nat] /\ Done \subseteq Buffers
      /\ opts.saveAt \in Nat /\ opts' = opts /\ FrameChunks \in Nat
      /\ stats \in Stats
  <2>1. file \in Seq(Nat) /\ taken \in Seq(Nat)
    BY DEF Typed, TypeOK, HistoryTypes
  <2>2. Len(taken) \in Nat /\ Len(file) \in Nat
    BY <2>1
  <2>3. frame \in [Buffers -> Nat] /\ stats \in Stats
    BY Zenon DEF Typed, TypeOK, DataTypes
  <2>4. opts.saveAt \in Nat
    BY OptsTyped, Zenon DEF Typed, TypeOK, OptsType
  <2>5. Done \subseteq Buffers
    BY Zenon DEF Done
  <2> QED  BY <2>1, <2>2, <2>3, <2>4, <2>5, OptsFrame, RawCaptureAssumption, Zenon
<1>1. \A i \in 1 .. Len(taken) : taken[i] \notin flagged => taken[i] \notin flagged'
  BY FlagsStay DEF SensorInv
<1>2. CASE Dequeue
  <2>1. PICK b \in Done :
           /\ held' = b /\ taken' = Append(taken, frame[b])
           /\ stats' = AddFrame(stats, SeqOf(frame[b]), frame[b] \in flagged)
           /\ pc' = AfterCount(stats'.frames, frame[b] \in flagged)
           /\ UNCHANGED <<opts, frame, flagged, file, saved, result>>
    BY <1>2, DequeueFrames, Zenon
  <2>2. /\ Len(taken') = Len(taken) + 1
        /\ \A i \in 1 .. Len(taken) : taken'[i] = taken[i]
        /\ taken'[Len(taken')] = frame[b]
    BY <1>0, <2>1, AppendKeeps
  <2>3. Len(taken') = stats'.frames
    BY <1>0, <2>1, <2>2 DEF TallyInv, AddFrame
  <2>4. pc = "dequeue"
    BY <1>2 DEF Dequeue
  <2>5. result' = "none"
    BY <2>1, <2>4 DEF VerdictInv, After
  <2>6. /\ pc' \in {"create", "refuse", "requeue"}
        /\ pc' = "create" => /\ opts.saveAt = stats'.frames /\ ~saved
                            /\ frame[b] \notin flagged
    BY <2>1, Zenon DEF AfterCount, SaveNow
  <2>7. FileClause'
    BY <1>0, <2>1, <2>2 DEF FileClause, FileInv
  <2>8. (pc \in Working => Len(taken) # 0 /\ frame[held] = taken[Len(taken)])'
    BY <1>0, <2>1, <2>2
  <2>9. (pc \in {"create", "write", "closeout"} =>
          /\ ~saved /\ opts.saveAt = Len(taken)
          /\ taken[Len(taken)] \notin flagged)'
    BY <2>1, <2>2, <2>3, <2>6
  <2>10. saved' = saved /\ file' = file /\ pc' \notin {"write", "closeout"}
    BY <2>1, <2>6
  <2> QED  BY <2>5, <2>7, <2>8, <2>9, <2>10 DEF FileInv, FileClause
<1>3. CASE ~Dequeue
  <2>0. taken' = taken
    BY <1>3, TallyFrame
  <2>1. (pc \in Working => Len(taken) # 0 /\ frame[held] = taken[Len(taken)])'
    BY <1>3, <2>0, Arrivals, HeldMemory DEF FileInv
  <2>2. (pc \in {"create", "write", "closeout"} =>
          /\ ~saved /\ opts.saveAt = Len(taken)
          /\ taken[Len(taken)] \notin flagged)'
    <3> SUFFICES ASSUME pc' \in {"create", "write", "closeout"}
                 PROVE  /\ ~saved' /\ opts.saveAt = Len(taken)
                        /\ taken[Len(taken)] \notin flagged'
      BY <1>0, <2>0
    <3>1. pc \in {"create", "write", "closeout"}
      BY <1>3, Arrivals DEF CreateOutput, WriteChunk
    <3>2. ~saved /\ opts.saveAt = Len(taken) /\ taken[Len(taken)] \notin flagged
      BY <3>1, Zenon DEF FileInv
    <3>3. Len(taken) \in 1 .. Len(taken)
      BY <1>0, <3>1 DEF FileInv, Working
    <3>4. saved' = saved
      <4>1. CASE CloseOutput
        <5>1. pc' \in {"requeue", "unwind"}
          BY <4>1, Zenon DEF CloseOutput, Goto, Proceed, Throw
        <5> QED  BY <5>1
      <4>2. CASE CreateOutput \/ WriteChunk
        BY <4>2, Zenon DEF CreateOutput, WriteChunk
      <4> QED  BY <4>1, <4>2, OutputFrame
    <3> QED  BY <1>1, <3>2, <3>3, <3>4, Zenon
  <2>3. (/\ pc = "write" => Len(file) < FrameChunks
         /\ pc = "closeout" \/ saved => Len(file) = FrameChunks)'
        /\ FileClause'
    <3>1. CASE CreateOutput
      <4>1. /\ pc = "create" /\ saved' = saved
            /\ \/ /\ file' = <<>>
                  /\ pc' = IF FrameChunks = 0 THEN "closeout" ELSE "write"
               \/ file' = file /\ pc' = "unwind"
        BY <3>1, Zenon DEF CreateOutput, Goto, Proceed, Throw
      <4>2. ~saved
        BY <4>1 DEF FileInv
      <4>3. CASE /\ file' = <<>>
                 /\ pc' = IF FrameChunks = 0 THEN "closeout" ELSE "write"
        BY <1>0, <4>1, <4>2, <4>3 DEF FileClause
      <4>4. CASE file' = file /\ pc' = "unwind"
        BY <1>0, <1>1, <2>0, <4>1, <4>2, <4>4 DEF FileClause, FileInv
      <4> QED  BY <4>1, <4>3, <4>4
    <3>2. CASE WriteChunk
      <4>1. /\ pc = "write" /\ saved' = saved
            /\ \/ /\ file' = Append(file, frame[held])
                  /\ pc' = IF Len(file') = FrameChunks THEN "closeout" ELSE "write"
               \/ file' = file /\ pc' = "unwind"
        BY <3>2, Zenon DEF WriteChunk, Goto, Proceed, Throw
      <4>2. /\ ~saved /\ Len(file) < FrameChunks /\ opts.saveAt = Len(taken)
            /\ Len(taken) # 0 /\ frame[held] = taken[Len(taken)]
            /\ taken[Len(taken)] \notin flagged
        BY <4>1 DEF FileInv, Working
      <4>3. CASE /\ file' = Append(file, frame[held])
                 /\ pc' = IF Len(file') = FrameChunks THEN "closeout" ELSE "write"
        <5>1. frame[held] \in Nat /\ opts.saveAt \in 1 .. Len(taken)
          BY <1>0, <4>2
        <5>2. /\ Len(file') = Len(file) + 1
              /\ \A i \in 1 .. Len(file) : file'[i] = file[i]
              /\ file'[Len(file) + 1] = taken[opts.saveAt]
          BY <1>0, <4>2, <4>3, <5>1, AppendKeeps
        <5>3. \A i \in 1 .. Len(file') : file'[i] = taken[opts.saveAt]
          <6>1. \A i \in 1 .. Len(file) : file[i] = taken[opts.saveAt]
            BY Zenon DEF FileInv
          <6>2. \A i \in 1 .. Len(file') : i \in 1 .. Len(file) \/ i = Len(file) + 1
            BY <1>0, <5>2
          <6> QED  BY <5>2, <6>1, <6>2, Zenon
        <5>4. FileClause'
          BY <1>0, <1>1, <2>0, <4>2, <5>1, <5>3 DEF FileClause
        <5> QED  BY <1>0, <4>1, <4>2, <4>3, <5>2, <5>4
      <4>4. CASE file' = file /\ pc' = "unwind"
        BY <1>0, <1>1, <2>0, <4>1, <4>2, <4>4 DEF FileClause, FileInv
      <4> QED  BY <4>1, <4>3, <4>4
    <3>3. CASE CloseOutput
      <4>1. /\ pc = "closeout" /\ file' = file /\ pc' \in {"requeue", "unwind"}
        BY <3>3, Zenon DEF CloseOutput, Goto, Proceed, Throw
      <4> QED  BY <1>0, <1>1, <2>0, <4>1 DEF FileClause, FileInv
    <3>4. CASE ~CreateOutput /\ ~WriteChunk /\ ~CloseOutput
      <4>1. file' = file /\ saved' = saved
        BY <3>4, OutputFrame
      <4>2. /\ pc' = "write" => pc = "write"
            /\ pc' = "closeout" => pc = "closeout"
        BY <3>4, Arrivals
      <4> QED  BY <1>0, <1>1, <2>0, <4>1, <4>2 DEF FileClause, FileInv
    <3> QED  BY <3>1, <3>2, <3>3, <3>4
  <2>4. (result \in {"PASS", "FAIL"} /\ opts.saveAt # 0 => saved \/ opts.list)'
    <3>1. saved => saved'
      <4>1. CASE CloseOutput
        BY <4>1, Zenon DEF CloseOutput
      <4>2. CASE CreateOutput \/ WriteChunk
        BY <4>2, Zenon DEF CreateOutput, WriteChunk
      <4> QED  BY <4>1, <4>2, OutputFrame, Zenon
    <3> SUFFICES ASSUME result' \in {"PASS", "FAIL"}, opts.saveAt # 0
                 PROVE  saved \/ opts.list
      BY <1>0, <3>1, Zenon
    <3>2. CASE EnumerateFormats
      BY <3>2, Zenon DEF EnumerateFormats, EndInv
    <3>3. CASE PollTimeout
      BY <3>3 DEF PollTimeout
    <3>4. CASE Judge
      <4>1. /\ pc = "judge"
            /\ result' \in {"INTERRUPTED", result} \/ ~(opts.saveAt # 0 /\ ~saved)
        BY <3>4, Zenon DEF Judge, Throw
      <4>2. result = "none"
        BY <4>1 DEF VerdictInv, After
      <4> QED  BY <4>1, <4>2
    <3>5. CASE ~EnumerateFormats /\ ~PollTimeout /\ ~Judge
      BY <3>5, ResultFrame, Zenon DEF FileInv
    <3> QED  BY <3>2, <3>3, <3>4, <3>5
  <2> QED  BY <2>1, <2>2, <2>3, <2>4, Zenon DEF FileInv, FileClause
<1> QED  BY <1>2, <1>3
-----------------------------------------------------------------------------
LEMMA FrameInvariant == Spec => []FrameInv
<1>1. Init => FrameInv
  <2> SUFFICES ASSUME Init PROVE FrameInv
    OBVIOUS
  <2>1. Done = {} /\ Len(taken) = 0 /\ Len(file) = 0 /\ ~saved
    BY DEF Init, Done
  <2>2. SensorInv
    BY <2>1, RawCaptureAssumption DEF Init, SensorInv
  <2>3. TallyInv
    BY <2>1 DEF Init, TallyInv, NewStats
  <2>4. EndInv /\ FileInv
    BY <2>1 DEF Init, EndInv, FileInv, Working
  <2> QED  BY <2>2, <2>3, <2>4 DEF FrameInv
<1>2. Typed /\ VerdictInv /\ FrameInv /\ [Next]_vars => FrameInv'
  BY SensorStep, TallyStep, EndStep, FileStep DEF FrameInv, Typed, TypeOK
<1> QED  BY <1>1, <1>2, CoreInvariant, VerdictInvariant, PTL DEF Spec, Typed

(* Without --allow-drops PASS means consecutive sensor frames, none of     *)
(* them flagged, up to the limit or the deadline that was asked for.       *)
THEOREM PassMeansAllFrames == Spec => []PassIsSound
<1>1. FrameInv => PassIsSound
  BY Zenon DEF FrameInv, TallyInv, EndInv, PassIsSound, Passed, SequenceOk
<1> QED  BY <1>1, FrameInvariant, PTL

(* The RAW file holds the one whole frame that was asked for. *)
THEOREM FileHoldsTheFrame == Spec => []SnapshotFaithful
<1>1. VerdictInv /\ FrameInv => SnapshotFaithful
  <2> SUFFICES ASSUME VerdictInv, FrameInv PROVE SnapshotFaithful
    OBVIOUS
  <2>1. code \in {0, 5} => result \in {"PASS", "FAIL"}
    <3> SUFFICES ASSUME code \in {0, 5} PROVE result \in {"PASS", "FAIL"}
      OBVIOUS
    <3>1. code # -1
      BY ONLY code \in {0, 5}, SMT
    <3>2. pc \in After
      BY <3>1, Zenon DEF VerdictInv
    <3>3. Told
      BY <3>2, Zenon DEF VerdictInv
    <3>4. code \notin {4, 128 + SIGINT, 128 + SIGTERM, 2, 3}
      BY ONLY code \in {0, 5}, SMT DEF SIGINT, SIGTERM
    <3> QED  BY <3>3, <3>4, Zenon DEF Told
  <2> QED  BY <2>1, Zenon DEF FrameInv, FileInv, SnapshotFaithful
<1> QED  BY <1>1, FrameInvariant, VerdictInvariant, PTL
-----------------------------------------------------------------------------
(***************************************************************************)
(* The counters of the loop are a ledger's: RawCapture implements          *)
(* FrameLedger.  A frame dequeued is the ledger's next one, with the       *)
(* frames between it and the one before as its gap; nothing else touches   *)
(* the ledger, the driver's flags on later frames included.                *)
(***************************************************************************)

\* at least as many frames have been produced as are counted
CountInv == \A i \in 1 .. Len(taken) : i <= taken[i]

LEMMA CountStep == Typed /\ SensorInv /\ CountInv /\ [Next]_vars => CountInv'
<1> SUFFICES ASSUME Typed, SensorInv, CountInv, [Next]_vars PROVE CountInv'
  OBVIOUS
<1>0. /\ taken \in Seq(Nat) /\ Len(taken) \in Nat
      /\ frame \in [Buffers -> Nat] /\ Done \subseteq Buffers
  BY DEF Typed, TypeOK, HistoryTypes, DataTypes, Done
<1>1. CASE Dequeue
  <2>1. PICK b \in Done : taken' = Append(taken, frame[b])
    BY <1>1, DequeueFrames, Zenon
  <2> DEFINE n == frame[b]
  <2>2. n \in Nat /\ n >= 1 /\ \A i \in 1 .. Len(taken) : taken[i] < n
    BY <1>0 DEF SensorInv, Typed, TypeOK, DataTypes
  <2>3. /\ Len(taken') = Len(taken) + 1
        /\ \A i \in 1 .. Len(taken) : taken'[i] = taken[i]
        /\ taken'[Len(taken) + 1] = n
    BY <1>0, <2>1, <2>2, AppendKeeps
  <2> HIDE DEF n
  <2>4. Len(taken) + 1 <= n
    <3>1. CASE Len(taken) = 0
      BY <2>2, <3>1
    <3>2. CASE Len(taken) # 0
      <4>1. Len(taken) \in 1 .. Len(taken)
        BY <1>0, <3>2
      <4>2. Len(taken) <= taken[Len(taken)] /\ taken[Len(taken)] < n
        BY <2>2, <4>1 DEF CountInv
      <4>3. taken[Len(taken)] \in Nat
        BY <1>0, <4>1
      <4> QED  BY <1>0, <2>2, <4>2, <4>3
    <3> QED  BY <3>1, <3>2
  <2> SUFFICES ASSUME NEW i \in 1 .. Len(taken') PROVE i <= taken'[i]
    BY DEF CountInv
  <2>5. i \in 1 .. Len(taken) \/ i = Len(taken) + 1
    BY <1>0, <2>3
  <2> QED  BY <2>3, <2>4, <2>5 DEF CountInv
<1>2. CASE ~Dequeue
  BY <1>2, TallyFrame DEF CountInv
<1> QED  BY <1>1, <1>2

(* The driver's number of a later frame, from that of an earlier one.      *)
LEMMA SeqAdvance ==
    ASSUME NEW m \in SensorFrames, NEW n \in SensorFrames, m < n
    PROVE  SeqOf(n) = (SeqOf(m) + (n - m)) % SeqMod
<1> DEFINE x == FirstSeq + m - 1
           y == FirstSeq + n - 1
<1>1. /\ SeqMod \in Nat /\ x \in Nat /\ y \in Nat /\ x < y
      /\ y < 2 * SeqMod /\ y = x + (n - m) /\ n - m \in Nat /\ n - m < SeqMod
  BY RawCaptureAssumption, SeqModAssumption DEF SensorFrames, SeqNum
<1>2. SeqOf(m) = x % SeqMod /\ SeqOf(n) = y % SeqMod
  BY DEF SeqOf
<1> HIDE DEF x, y
<1>3. CASE x < SeqMod
  <2>1. SeqOf(m) = x
    BY <1>1, <1>2, <1>3, RemainderOnce
  <2> QED  BY <1>1, <1>2, <2>1
<1>4. CASE SeqMod <= x
  <2>1. SeqOf(m) = x - SeqMod /\ SeqOf(n) = y - SeqMod
    BY <1>1, <1>2, <1>4, RemainderOnce
  <2>2. (x - SeqMod) + (n - m) = y - SeqMod /\ y - SeqMod \in Nat /\ y - SeqMod < SeqMod
    BY <1>1, <1>4
  <2> QED  BY <2>1, <2>2, RemainderOnce
<1> QED  BY <1>1, <1>3, <1>4

(* One more frame counted is one more flagged frame if it is flagged.      *)
FlaggedIn(s, F) == Cardinality({i \in 1 .. Len(s) : s[i] \in F})

LEMMA FlaggedGrows ==
    ASSUME NEW s \in Seq(Nat), NEW n \in Nat, NEW F
    PROVE  FlaggedIn(Append(s, n), F)
             = FlaggedIn(s, F) + (IF n \in F THEN 1 ELSE 0)
<1> DEFINE t == Append(s, n)
<1> DEFINE A == {i \in 1 .. Len(s) : s[i] \in F}
           B == {i \in 1 .. Len(t) : t[i] \in F}
<1>1. /\ Len(t) = Len(s) + 1 /\ Len(s) \in Nat
      /\ \A i \in 1 .. Len(s) : t[i] = s[i]
      /\ t[Len(s) + 1] = n
  BY AppendKeeps
<1> HIDE DEF t
<1>2. IsFiniteSet(A) /\ Cardinality(A) \in Nat
  <2>1. IsFiniteSet(1 .. Len(s))
    BY <1>1, FS_Interval
  <2>2. A \subseteq 1 .. Len(s)
    OBVIOUS
  <2> QED  BY <2>1, <2>2, FS_Subset, FS_CardinalityType
<1>3. \A i \in 1 .. Len(t) : i \in 1 .. Len(s) \/ i = Len(s) + 1
  BY <1>1
<1>4. 1 .. Len(s) \subseteq 1 .. Len(t) /\ Len(s) + 1 \in 1 .. Len(t)
      /\ Len(s) + 1 \notin 1 .. Len(s)
  BY <1>1
<1>5. CASE n \in F
  <2>1. B = A \cup {Len(s) + 1} /\ Len(s) + 1 \notin A
    BY <1>1, <1>3, <1>4, <1>5
  <2>2. Cardinality(B) = Cardinality(A) + 1
    BY <1>2, <2>1, FS_AddElement
  <2>3. Cardinality(B) = Cardinality(A) + (IF n \in F THEN 1 ELSE 0)
    BY <1>5, <2>2, Zenon
  <2> QED  BY <2>3, Zenon DEF FlaggedIn, t
<1>6. CASE n \notin F
  <2>1. B = A
    BY <1>1, <1>3, <1>4, <1>6
  <2>2. Cardinality(B) = Cardinality(A)
    BY <2>1, Zenon
  <2> HIDE DEF A, B
  <2>3. Cardinality(B) = Cardinality(A) + (IF n \in F THEN 1 ELSE 0)
    BY <1>2, <1>6, <2>2
  <2> QED  BY <2>3, Zenon DEF A, B, FlaggedIn, t
<1> QED  BY <1>5, <1>6


(* The ledger computes with the same CaptureStats. *)
LEMMA LedgerStats ==
    /\ Ledger!SeqNum = SeqNum /\ Ledger!NewStats = NewStats
    /\ Ledger!KBackwardThreshold = KBackwardThreshold
    /\ \A s, q, e : Ledger!AddFrame(s, q, e) = AddFrame(s, q, e)
  BY Zenon DEF Ledger!SeqNum, SeqNum, Ledger!NewStats, NewStats,
     Ledger!KBackwardThreshold, KBackwardThreshold, Ledger!AddFrame, AddFrame,
     Ledger!Delta, Delta, Ledger!Missing, Missing, Ledger!IsGap, IsGap,
     Ledger!IsDiscontinuity, IsDiscontinuity

(* What the ledger sees of a dequeued frame: the first frame, or the next  *)
(* one after gap others, as far from the last as the gap says.             *)
LEMMA DequeueCounts ==
    ASSUME Typed, SensorInv, TallyInv, CountInv, Dequeue
    PROVE  [Ledger!Next]_(Ledger!vars)
<1>0. /\ taken \in Seq(Nat) /\ Len(taken) \in Nat /\ produced \in Nat
      /\ frame \in [Buffers -> Nat] /\ Done \subseteq Buffers
      /\ stats \in Stats /\ stats.frames \in Nat /\ stats.last \in Nat
      /\ MaxSensorFrames \in Nat /\ SeqMod \in Nat /\ SeqMod >= 8
      /\ KBackwardThreshold \in Nat
  BY RawCaptureAssumption, SeqModAssumption
  DEF Typed, TypeOK, HistoryTypes, DataTypes, Done, Stats, SeqNum,
      KBackwardThreshold
<1>1. PICK b \in Done :
         /\ stats' = AddFrame(stats, SeqOf(frame[b]), frame[b] \in flagged)
         /\ taken' = Append(taken, frame[b]) /\ flagged' = flagged
  BY DequeueFrames, Zenon
<1> DEFINE n == frame[b]
           l == Len(taken)
<1>2. /\ n \in Nat /\ n \in 1 .. produced /\ n \in SensorFrames
      /\ \A i \in 1 .. l : taken[i] < n /\ taken[i] \in SensorFrames
  BY <1>0 DEF SensorInv, SensorFrames
<1>3. /\ Len(taken') = l + 1 /\ stats.frames = l
      /\ \A i \in 1 .. l : taken'[i] = taken[i]
      /\ taken'[l + 1] = n
  BY <1>0, <1>1, <1>2, AppendKeeps DEF TallyInv
<1>4. /\ stats' = AddFrame(stats, SeqOf(n), n \in flagged)
      /\ taken' = Append(taken, n) /\ flagged' = flagged
  BY <1>1, Zenon
<1> HIDE DEF n, l
<1>5. /\ FlaggedTaken' = FlaggedTaken + (IF n \in flagged THEN 1 ELSE 0)
      /\ SeqOf(n) \in SeqNum
  <2>1. FlaggedIn(taken', flagged)
          = FlaggedIn(taken, flagged) + (IF n \in flagged THEN 1 ELSE 0)
    <3>1. taken \in Seq(Nat) /\ n \in Nat /\ taken' = Append(taken, n)
      BY <1>0, <1>2, <1>4, Zenon
    <3> QED  BY <3>1, FlaggedGrows, Zenon
  <2>2. FirstSeq + n - 1 \in Nat
    BY <1>2, RawCaptureAssumption, SeqModAssumption DEF SeqNum
  <2>3. FlaggedTaken = FlaggedIn(taken, flagged) /\ FlaggedTaken' = FlaggedIn(taken', flagged')
    BY Zenon DEF FlaggedTaken, FlaggedIn
  <2> QED  BY <1>4, <2>1, <2>2, <2>3, RemainderOnce, Zenon DEF SeqOf
<1>6. l < MaxSensorFrames
  <2>1. CASE l = 0
    BY <1>0, <1>2, <2>1 DEF SensorFrames
  <2>2. CASE l # 0
    <3>1. l \in 1 .. Len(taken)
      BY <1>0, <2>2 DEF l
    <3>2. l <= taken[l] /\ taken[l] < n /\ taken[l] \in Nat
      BY <1>0, <1>2, <3>1 DEF CountInv, l
    <3> QED  BY <1>0, <1>2, <3>2 DEF SensorFrames, l
  <2> QED  BY <2>1, <2>2
<1>7. Ledger!Deliver(SeqOf(n), n \in flagged)
  BY <1>3, <1>4, <1>5, <1>6, LedgerStats, Zenon DEF Ledger!Deliver
<1>10. (n \in flagged) \in BOOLEAN
  OBVIOUS
<1>8. CASE l = 0
  <2>1. taken = <<>> /\ Skipped = 0
    BY <1>0, <1>8 DEF l, Skipped
  <2>2. Skipped' = 0
    <3>1. Len(taken') = 1 /\ taken'[1] = n /\ taken' # <<>>
      BY <1>3, <1>8
    <3> QED  BY <1>2, <3>1 DEF Skipped
  <2>3. Leap' = Leap
    BY <1>0, <1>3, <1>8 DEF Leap, l
  <2>4. stats.frames = 0 /\ SeqOf(n) \in Ledger!SeqNum
    BY <1>3, <1>5, <1>8, LedgerStats, Zenon
  <2>5. Ledger!FirstFrame
    BY <1>4, <1>7, <1>10, <2>1, <2>2, <2>3, <2>4, Zenon DEF Ledger!FirstFrame
  <2> QED  BY <2>5 DEF Ledger!Next
<1>9. CASE l # 0
  <2> DEFINE m == taken[l]
             gap == n - m - 1
  <2>1. /\ l \in 1 .. l /\ l \in Nat /\ m \in SensorFrames /\ m < n /\ m \in Nat
        /\ stats.last = SeqOf(m)
    BY <1>0, <1>2, <1>3, <1>9 DEF TallyInv, l, SensorFrames
  <2>2. /\ n - m \in 1 .. SeqMod - 1
        /\ SeqOf(n) = (SeqOf(m) + (n - m)) % SeqMod
        /\ SeqOf(m) \in Nat
    BY <1>0, <1>2, <2>1, SeqDistance, SeqAdvance
  <2>3. gap \in 0 .. SeqMod - 1 /\ gap + 1 = n - m
        /\ SeqOf(m) + (n - m) = stats.last + 1 + gap
    <3> HIDE DEF m
    <3>1. n \in Nat /\ m \in Nat /\ n - m \in 1 .. SeqMod - 1 /\ SeqMod \in Nat
      BY <1>0, <1>2, <2>1, <2>2
    <3>2. gap \in 0 .. SeqMod - 1 /\ gap + 1 = n - m
      BY ONLY <3>1
    <3> QED  BY <1>0, <2>1, <3>1, <3>2
  <2>4. SeqOf(n) = (stats.last + 1 + gap) % SeqMod
    BY <2>2, <2>3, Zenon
  <2>5. Skipped' = Skipped + gap
    <3>1. taken # <<>> /\ taken' # <<>> /\ 1 \in 1 .. l
      BY <1>0, <1>3, <2>1 DEF l
    <3>2. taken[1] \in Nat /\ taken'[1] = taken[1]
      BY <1>0, <1>3, <3>1 DEF l
    <3>3. Skipped = m + 1 - taken[1] - l
      BY <3>1 DEF Skipped, l
    <3>4. Skipped' = n + 1 - taken[1] - (l + 1)
      BY <1>3, <3>1, <3>2 DEF Skipped
    <3> QED  BY <1>2, <2>1, <3>2, <3>3, <3>4
  <2>6. Leap' <=> Leap \/ gap + 1 >= KBackwardThreshold
    <3>1. /\ \A i \in 1 .. l : i \in 1 .. l - 1 \/ i = l
          /\ \A i \in 1 .. l - 1 : i \in 1 .. l /\ i + 1 \in 1 .. l
          /\ Len(taken') - 1 = l /\ 1 .. l - 1 \subseteq 1 .. l
      BY <1>3, <2>1
    <3>2. \A i \in 1 .. l - 1 : taken'[i + 1] - taken'[i] = taken[i + 1] - taken[i]
      BY <1>3, <3>1
    <3>3. taken'[l + 1] - taken'[l] = gap + 1
      BY <1>3, <2>1, <2>3
    <3>4. Leap' <=> \E i \in 1 .. l : taken'[i + 1] - taken'[i] >= KBackwardThreshold
      BY <3>1 DEF Leap
    <3>5. Leap <=> \E i \in 1 .. l - 1 : taken[i + 1] - taken[i] >= KBackwardThreshold
      BY DEF Leap, l
    <3> HIDE DEF gap
    <3> QED  BY <2>1, <3>1, <3>2, <3>3, <3>4, <3>5, Zenon
  <2>7. Leap \in BOOLEAN /\ Leap' \in BOOLEAN
    BY DEF Leap
  <2> HIDE DEF gap, m
  <2>8. Leap' = (Leap \/ gap + 1 >= KBackwardThreshold)
    BY <2>6, <2>7
  <2>9. Ledger!Deliver((stats.last + 1 + gap) % SeqMod, n \in flagged)
    BY <1>7, <2>4, Zenon
  <2>10. Ledger!Advance
    BY <1>3, <1>4, <1>9, <1>10, <2>3, <2>5, <2>8, <2>9, LedgerStats, Zenon
    DEF Ledger!Advance
  <2> QED  BY <2>10 DEF Ledger!Next
<1> QED  BY <1>8, <1>9

(* Everything else leaves the ledger as it is. *)
LEMMA OtherStepsDontCount ==
    ASSUME Typed, SensorInv, [Next]_vars, ~Dequeue
    PROVE  UNCHANGED Ledger!vars
<1>1. UNCHANGED <<stats, taken>>
  BY TallyFrame
<1>2. taken \in Seq(Nat) /\ \A i \in 1 .. Len(taken) : taken[i] \in 1 .. produced
  BY DEF Typed, TypeOK, HistoryTypes, SensorInv
<1>3. flagged \subseteq flagged'
  <2>1. CASE FillBuffer
    BY <2>1 DEF FillBuffer
  <2>2. CASE MissFrame
    BY <2>2, Zenon DEF MissFrame
  <2> QED  BY <2>1, <2>2, SensorFrame
<1>4. \A i \in 1 .. Len(taken) : taken[i] \in flagged <=> taken[i] \in flagged'
  BY <1>2, <1>3, FlagsStay
<1>5. FlaggedTaken' = FlaggedTaken
  <2>1. {i \in 1 .. Len(taken) : taken[i] \in flagged}
          = {i \in 1 .. Len(taken') : taken'[i] \in flagged'}
    BY <1>1, <1>4
  <2> QED  BY <2>1, Zenon DEF FlaggedTaken
<1>6. Skipped' = Skipped /\ Leap' = Leap
  BY <1>1, Zenon DEF Skipped, Leap
<1> QED  BY <1>1, <1>5, <1>6 DEF Ledger!vars

(* The counters of the capture loop are those of a frame source whose      *)
(* frames come in order: it implements FrameLedger.                        *)
THEOREM CountsFollowLedger == Spec => CountsTruly
<1>1. Init => Ledger!Init /\ CountInv
  <2> SUFFICES ASSUME Init PROVE Ledger!Init /\ CountInv
    OBVIOUS
  <2>1. taken = <<>> /\ Len(taken) = 0 /\ stats = NewStats
    BY DEF Init
  <2>2. Skipped = 0 /\ Leap = FALSE /\ CountInv
    BY <2>1 DEF Skipped, Leap, CountInv
  <2>3. FlaggedTaken = 0
    <3>1. {i \in 1 .. Len(taken) : taken[i] \in flagged} = {}
      BY <2>1
    <3> QED  BY <3>1, FS_EmptySet, Zenon DEF FlaggedTaken
  <2> QED  BY <2>1, <2>2, <2>3, LedgerStats, Zenon DEF Ledger!Init
<1>2. Typed /\ SensorInv /\ CountInv /\ [Next]_vars => CountInv'
  BY CountStep
<1>3. Typed /\ FrameInv /\ CountInv /\ [Next]_vars => [Ledger!Next]_(Ledger!vars)
  BY DequeueCounts, OtherStepsDontCount DEF FrameInv
<1>4. FrameInv => SensorInv
  BY DEF FrameInv
<1>5. Spec => [](Typed /\ FrameInv)
  BY CoreInvariant, FrameInvariant, PTL DEF Typed
<1>6. Spec => []CountInv
  BY <1>1, <1>2, <1>4, <1>5, PTL DEF Spec
<1> QED  BY <1>1, <1>3, <1>5, <1>6, PTL DEF Spec, CountsTruly, Ledger!Spec

(* The theorems about the ledger, with the tool's own counters in it. *)
Proved == INSTANCE FrameLedgerProofs
          WITH MaxFrames <- MaxSensorFrames, lost <- Skipped, breaks <- 0,
               flagged <- FlaggedTaken, far <- Leap

LEMMA SameLedger ==
    /\ Ledger!Init => Proved!Init
    /\ [Ledger!Next]_(Ledger!vars) => [Proved!Next]_(Proved!vars)
<1> USE DEF Ledger!SeqNum, Ledger!NewStats, Ledger!AddFrame, Ledger!Delta,
            Ledger!Missing, Ledger!IsGap, Ledger!IsDiscontinuity,
            Ledger!KBackwardThreshold, Proved!SeqNum, Proved!NewStats,
            Proved!AddFrame, Proved!Delta, Proved!Missing, Proved!IsGap,
            Proved!IsDiscontinuity, Proved!KBackwardThreshold
<1>1. Ledger!Init => Proved!Init
  BY Zenon DEF Ledger!Init, Proved!Init
<1>2. Ledger!FirstFrame => Proved!FirstFrame
  BY Zenon DEF Ledger!FirstFrame, Proved!FirstFrame, Ledger!Deliver, Proved!Deliver
<1>3. Ledger!Advance => Proved!Advance
  BY Zenon DEF Ledger!Advance, Proved!Advance, Ledger!Deliver, Proved!Deliver
<1>4. Ledger!Regress => Proved!Regress
  BY Zenon DEF Ledger!Regress, Proved!Regress, Ledger!Deliver, Proved!Deliver
<1>5. UNCHANGED Ledger!vars => UNCHANGED Proved!vars
  BY Zenon DEF Ledger!vars, Proved!vars
<1> QED  BY <1>1, <1>2, <1>3, <1>4, <1>5, Zenon DEF Ledger!Next, Proved!Next

(* What is proved of the ledger holds of the tool: unless two consecutive  *)
(* frames were half the number range apart, the dropped frames it reports  *)
(* are the sensor frames it skipped between the first and the last one it  *)
(* counted, and nothing is reported as a discontinuity; and the numbers of *)
(* the report always fit together.                                         *)
THEOREM DroppedIsSkipped ==
    Spec => [](/\ ~Leap => stats.dropped = Skipped /\ stats.disc = 0
               /\ Ledger!RangeAccountsForFrames)
<1>0. MaxSensorFrames \in Nat
  BY RawCaptureAssumption
<1>1. Proved!Spec => []Proved!LedgerAgrees
  BY <1>0, SeqModAssumption, Proved!LedgerTheorem, PTL
<1>2. Proved!Spec => []Proved!RangeAccountsForFrames
  BY <1>0, SeqModAssumption, Proved!RangeTheorem, PTL
<1>3. Ledger!Spec => Proved!Spec
  BY SameLedger, PTL DEF Ledger!Spec, Proved!Spec
<1>4. Proved!LedgerAgrees => (~Leap => stats.dropped = Skipped /\ stats.disc = 0)
  BY Zenon DEF Proved!LedgerAgrees
<1>5. Proved!RangeAccountsForFrames => Ledger!RangeAccountsForFrames
  BY Zenon DEF Proved!RangeAccountsForFrames, Ledger!RangeAccountsForFrames
<1>6. Spec => Ledger!Spec
  BY CountsFollowLedger, PTL DEF CountsTruly
<1> QED  BY <1>1, <1>2, <1>3, <1>4, <1>5, <1>6, PTL
-----------------------------------------------------------------------------
(***************************************************************************)
(* How long a stop takes.  Left is the number of steps the tool can still  *)
(* take once it has seen a reason to end, whatever fails on the way: the   *)
(* way of its control flow from each place to the exit, with the chunks    *)
(* not yet written and the buffers still to be mapped, queued or unmapped. *)
(***************************************************************************)
Place(label) ==
    CASE label = "done"         -> 0
      [] label = "unmap"        -> 1
      [] label = "unwind"       -> MaxBuffers + 2
      [] label = "interrupted"  -> MaxBuffers + 3
      [] label = "judge"        -> MaxBuffers + 4
      [] label = "streamoff"    -> MaxBuffers + 5
      [] label = "check"        -> MaxBuffers + 6
      [] label = "refuse"       -> MaxBuffers + 7
      [] label = "requeue"      -> MaxBuffers + 7
      [] label = "closeout"     -> MaxBuffers + 8
      [] label = "write"        -> MaxBuffers + 9
      [] label = "create"       -> MaxBuffers + FrameChunks + 10
      [] label = "dequeue"      -> MaxBuffers + FrameChunks + 11
      [] label = "recheck"      -> MaxBuffers + FrameChunks + 12
      [] label = "poll"         -> MaxBuffers + FrameChunks + 13
      [] label = "streamon"     -> MaxBuffers + FrameChunks + 14
      [] label = "qbuf"         -> MaxBuffers + FrameChunks + 15
      [] label = "mmap"         -> 2 * MaxBuffers + FrameChunks + 14
      [] label = "map"          -> 2 * MaxBuffers + FrameChunks + 15
      [] label = "reqbufs"      -> 4 * MaxBuffers + FrameChunks + 16
      [] label = "rate"         -> 4 * MaxBuffers + FrameChunks + 17
      [] label = "format"       -> 4 * MaxBuffers + FrameChunks + 18
      [] label = "setmode"      -> 4 * MaxBuffers + FrameChunks + 19
      [] label = "mode"         -> 4 * MaxBuffers + FrameChunks + 20
      [] label = "querycap"     -> 4 * MaxBuffers + FrameChunks + 21
      [] label = "open"         -> 4 * MaxBuffers + FrameChunks + 22

Unqueued == {b \in Buffers : b \in mapped /\ owner[b] = "user"}

\* what is left to do at a place that is passed more than once
Repeats ==
    IF pc = "unmap" THEN Cardinality(mapped)
    ELSE IF pc = "write" THEN FrameChunks - Len(file)
    ELSE IF pc = "qbuf" THEN Cardinality(Unqueued)
    ELSE IF pc \in {"map", "mmap"} THEN 2 * (MaxBuffers - Cardinality(mapped))
    ELSE 0

Left == Place(pc) + Repeats

\* a signal, --frames or --duration asks a capture to end
Ending == ~opts.list /\ (StopRequested \/ LimitReached)

\* Left at every place
LeftFacts ==
    /\ pc = "done" => Left = 0
    /\ pc = "unmap" => Left = 1 + Cardinality(mapped)
    /\ pc = "unwind" => Left = MaxBuffers + 2
    /\ pc = "interrupted" => Left = MaxBuffers + 3
    /\ pc = "judge" => Left = MaxBuffers + 4
    /\ pc = "streamoff" => Left = MaxBuffers + 5
    /\ pc = "check" => Left = MaxBuffers + 6
    /\ pc \in {"refuse", "requeue"} => Left = MaxBuffers + 7
    /\ pc = "closeout" => Left = MaxBuffers + 8
    /\ pc = "write" => Left = MaxBuffers + 9 + (FrameChunks - Len(file))
    /\ pc = "create" => Left = MaxBuffers + FrameChunks + 10
    /\ pc = "dequeue" => Left = MaxBuffers + FrameChunks + 11
    /\ pc = "recheck" => Left = MaxBuffers + FrameChunks + 12
    /\ pc = "poll" => Left = MaxBuffers + FrameChunks + 13
    /\ pc = "streamon" => Left = MaxBuffers + FrameChunks + 14
    /\ pc = "qbuf" => Left = MaxBuffers + FrameChunks + 15 + Cardinality(Unqueued)
    /\ pc = "mmap" => Left = 2 * MaxBuffers + FrameChunks + 14
                              + 2 * (MaxBuffers - Cardinality(mapped))
    /\ pc = "map" => Left = 2 * MaxBuffers + FrameChunks + 15
                              + 2 * (MaxBuffers - Cardinality(mapped))
    /\ pc = "reqbufs" => Left = 4 * MaxBuffers + FrameChunks + 16
    /\ pc = "rate" => Left = 4 * MaxBuffers + FrameChunks + 17
    /\ pc = "format" => Left = 4 * MaxBuffers + FrameChunks + 18
    /\ pc = "setmode" => Left = 4 * MaxBuffers + FrameChunks + 19
    /\ pc = "mode" => Left = 4 * MaxBuffers + FrameChunks + 20
    /\ pc = "querycap" => Left = 4 * MaxBuffers + FrameChunks + 21
    /\ pc = "open" => Left = 4 * MaxBuffers + FrameChunks + 22

(* Where the program is, ...                                               *)
LEMMA Places ==
    /\ Place("done") = 0
    /\ Place("unmap") = 1
    /\ Place("unwind") = MaxBuffers + 2
    /\ Place("interrupted") = MaxBuffers + 3
    /\ Place("judge") = MaxBuffers + 4
    /\ Place("streamoff") = MaxBuffers + 5
    /\ Place("check") = MaxBuffers + 6
    /\ Place("refuse") = MaxBuffers + 7
    /\ Place("requeue") = MaxBuffers + 7
    /\ Place("closeout") = MaxBuffers + 8
    /\ Place("write") = MaxBuffers + 9
    /\ Place("create") = MaxBuffers + FrameChunks + 10
    /\ Place("dequeue") = MaxBuffers + FrameChunks + 11
    /\ Place("recheck") = MaxBuffers + FrameChunks + 12
    /\ Place("poll") = MaxBuffers + FrameChunks + 13
    /\ Place("streamon") = MaxBuffers + FrameChunks + 14
    /\ Place("qbuf") = MaxBuffers + FrameChunks + 15
    /\ Place("mmap") = 2 * MaxBuffers + FrameChunks + 14
    /\ Place("map") = 2 * MaxBuffers + FrameChunks + 15
    /\ Place("reqbufs") = 4 * MaxBuffers + FrameChunks + 16
    /\ Place("rate") = 4 * MaxBuffers + FrameChunks + 17
    /\ Place("format") = 4 * MaxBuffers + FrameChunks + 18
    /\ Place("setmode") = 4 * MaxBuffers + FrameChunks + 19
    /\ Place("mode") = 4 * MaxBuffers + FrameChunks + 20
    /\ Place("querycap") = 4 * MaxBuffers + FrameChunks + 21
    /\ Place("open") = 4 * MaxBuffers + FrameChunks + 22
<1>1. /\ Place("done") = 0
      /\ Place("unmap") = 1
      /\ Place("unwind") = MaxBuffers + 2
      /\ Place("interrupted") = MaxBuffers + 3
      /\ Place("judge") = MaxBuffers + 4
      /\ Place("streamoff") = MaxBuffers + 5
      /\ Place("check") = MaxBuffers + 6
  BY RawCaptureAssumption DEF Place
<1>2. /\ Place("refuse") = MaxBuffers + 7
      /\ Place("requeue") = MaxBuffers + 7
      /\ Place("closeout") = MaxBuffers + 8
      /\ Place("write") = MaxBuffers + 9
      /\ Place("create") = MaxBuffers + FrameChunks + 10
      /\ Place("dequeue") = MaxBuffers + FrameChunks + 11
      /\ Place("recheck") = MaxBuffers + FrameChunks + 12
  BY RawCaptureAssumption DEF Place
<1>3. /\ Place("poll") = MaxBuffers + FrameChunks + 13
      /\ Place("streamon") = MaxBuffers + FrameChunks + 14
      /\ Place("qbuf") = MaxBuffers + FrameChunks + 15
      /\ Place("mmap") = 2 * MaxBuffers + FrameChunks + 14
      /\ Place("map") = 2 * MaxBuffers + FrameChunks + 15
      /\ Place("reqbufs") = 4 * MaxBuffers + FrameChunks + 16
  BY RawCaptureAssumption DEF Place
<1>4. /\ Place("rate") = 4 * MaxBuffers + FrameChunks + 17
      /\ Place("format") = 4 * MaxBuffers + FrameChunks + 18
      /\ Place("setmode") = 4 * MaxBuffers + FrameChunks + 19
      /\ Place("mode") = 4 * MaxBuffers + FrameChunks + 20
      /\ Place("querycap") = 4 * MaxBuffers + FrameChunks + 21
      /\ Place("open") = 4 * MaxBuffers + FrameChunks + 22
  BY RawCaptureAssumption DEF Place
<1> QED  BY <1>1, <1>2, <1>3, <1>4, Zenon

(* ... and what it repeats there.                                          *)
LEMMA LeftAt == LeftFacts
<1>1. /\ pc = "unmap" => Repeats = Cardinality(mapped)
      /\ pc = "write" => Repeats = FrameChunks - Len(file)
      /\ pc = "qbuf" => Repeats = Cardinality(Unqueued)
      /\ pc \in {"map", "mmap"} => Repeats = 2 * (MaxBuffers - Cardinality(mapped))
      /\ pc \notin {"unmap", "write", "qbuf", "map", "mmap"} => Repeats = 0
  BY DEF Repeats
<1>2. MaxBuffers \in Nat /\ FrameChunks \in Nat
  BY RawCaptureAssumption
<1>3. /\ pc = "done" => Left = 0
      /\ pc = "unwind" => Left = MaxBuffers + 2
      /\ pc = "interrupted" => Left = MaxBuffers + 3
      /\ pc = "judge" => Left = MaxBuffers + 4
      /\ pc = "streamoff" => Left = MaxBuffers + 5
      /\ pc = "check" => Left = MaxBuffers + 6
      /\ pc = "refuse" => Left = MaxBuffers + 7
  <2>1. /\ Place("done") + 0 = 0
        /\ Place("unwind") + 0 = MaxBuffers + 2
        /\ Place("interrupted") + 0 = MaxBuffers + 3
        /\ Place("judge") + 0 = MaxBuffers + 4
        /\ Place("streamoff") + 0 = MaxBuffers + 5
        /\ Place("check") + 0 = MaxBuffers + 6
        /\ Place("refuse") + 0 = MaxBuffers + 7
    BY <1>2, Places
  <2>2. /\ pc = "done" => Left = Place("done") + 0
        /\ pc = "unwind" => Left = Place("unwind") + 0
        /\ pc = "interrupted" => Left = Place("interrupted") + 0
        /\ pc = "judge" => Left = Place("judge") + 0
        /\ pc = "streamoff" => Left = Place("streamoff") + 0
        /\ pc = "check" => Left = Place("check") + 0
        /\ pc = "refuse" => Left = Place("refuse") + 0
    BY <1>1 DEF Left
  <2> QED  BY <2>1, <2>2, Zenon
<1>4. /\ pc = "requeue" => Left = MaxBuffers + 7
      /\ pc = "closeout" => Left = MaxBuffers + 8
      /\ pc = "create" => Left = MaxBuffers + FrameChunks + 10
      /\ pc = "dequeue" => Left = MaxBuffers + FrameChunks + 11
      /\ pc = "recheck" => Left = MaxBuffers + FrameChunks + 12
      /\ pc = "poll" => Left = MaxBuffers + FrameChunks + 13
      /\ pc = "streamon" => Left = MaxBuffers + FrameChunks + 14
  <2>1. /\ Place("requeue") + 0 = MaxBuffers + 7
        /\ Place("closeout") + 0 = MaxBuffers + 8
        /\ Place("create") + 0 = MaxBuffers + FrameChunks + 10
        /\ Place("dequeue") + 0 = MaxBuffers + FrameChunks + 11
        /\ Place("recheck") + 0 = MaxBuffers + FrameChunks + 12
        /\ Place("poll") + 0 = MaxBuffers + FrameChunks + 13
        /\ Place("streamon") + 0 = MaxBuffers + FrameChunks + 14
    BY <1>2, Places
  <2>2. /\ pc = "requeue" => Left = Place("requeue") + 0
        /\ pc = "closeout" => Left = Place("closeout") + 0
        /\ pc = "create" => Left = Place("create") + 0
        /\ pc = "dequeue" => Left = Place("dequeue") + 0
        /\ pc = "recheck" => Left = Place("recheck") + 0
        /\ pc = "poll" => Left = Place("poll") + 0
        /\ pc = "streamon" => Left = Place("streamon") + 0
    BY <1>1 DEF Left
  <2> QED  BY <2>1, <2>2, Zenon
<1>5. /\ pc = "reqbufs" => Left = 4 * MaxBuffers + FrameChunks + 16
      /\ pc = "rate" => Left = 4 * MaxBuffers + FrameChunks + 17
      /\ pc = "format" => Left = 4 * MaxBuffers + FrameChunks + 18
      /\ pc = "setmode" => Left = 4 * MaxBuffers + FrameChunks + 19
      /\ pc = "mode" => Left = 4 * MaxBuffers + FrameChunks + 20
      /\ pc = "querycap" => Left = 4 * MaxBuffers + FrameChunks + 21
      /\ pc = "open" => Left = 4 * MaxBuffers + FrameChunks + 22
  <2>1. /\ Place("reqbufs") + 0 = 4 * MaxBuffers + FrameChunks + 16
        /\ Place("rate") + 0 = 4 * MaxBuffers + FrameChunks + 17
        /\ Place("format") + 0 = 4 * MaxBuffers + FrameChunks + 18
        /\ Place("setmode") + 0 = 4 * MaxBuffers + FrameChunks + 19
        /\ Place("mode") + 0 = 4 * MaxBuffers + FrameChunks + 20
        /\ Place("querycap") + 0 = 4 * MaxBuffers + FrameChunks + 21
        /\ Place("open") + 0 = 4 * MaxBuffers + FrameChunks + 22
    BY <1>2, Places
  <2>2. /\ pc = "reqbufs" => Left = Place("reqbufs") + 0
        /\ pc = "rate" => Left = Place("rate") + 0
        /\ pc = "format" => Left = Place("format") + 0
        /\ pc = "setmode" => Left = Place("setmode") + 0
        /\ pc = "mode" => Left = Place("mode") + 0
        /\ pc = "querycap" => Left = Place("querycap") + 0
        /\ pc = "open" => Left = Place("open") + 0
    BY <1>1 DEF Left
  <2> QED  BY <2>1, <2>2, Zenon
<1>6. /\ pc = "unmap" => Left = 1 + Cardinality(mapped)
      /\ pc = "write" => Left = MaxBuffers + 9 + (FrameChunks - Len(file))
      /\ pc = "qbuf" => Left = MaxBuffers + FrameChunks + 15 + Cardinality(Unqueued)
      /\ pc = "mmap" => Left = 2 * MaxBuffers + FrameChunks + 14
                              + 2 * (MaxBuffers - Cardinality(mapped))
      /\ pc = "map" => Left = 2 * MaxBuffers + FrameChunks + 15
                              + 2 * (MaxBuffers - Cardinality(mapped))
  BY <1>1, Places, Zenon DEF Left
<1>7. pc \in {"refuse", "requeue"} => Left = MaxBuffers + 7
  BY <1>4, <1>3
<1> QED  BY <1>3, <1>4, <1>5, <1>6, <1>7, Zenon DEF LeftFacts

LEMMA BufferCounts ==
    ASSUME TypeOK
    PROVE  /\ IsFiniteSet(mapped) /\ Cardinality(mapped) \in 0 .. MaxBuffers
           /\ IsFiniteSet(Unqueued) /\ Cardinality(Unqueued) \in 0 .. MaxBuffers
<1>1. IsFiniteSet(Buffers) /\ Cardinality(Buffers) = MaxBuffers
  <2>1. MaxBuffers \in Nat /\ MaxBuffers >= 2
    BY RawCaptureAssumption
  <2> QED  BY <2>1, FS_Interval
<1>2. mapped \subseteq Buffers /\ Unqueued \subseteq Buffers
  BY DEF TypeOK, DataTypes, Unqueued
<1>3. ASSUME NEW S, S \subseteq Buffers
      PROVE  IsFiniteSet(S) /\ Cardinality(S) \in 0 .. MaxBuffers
  <2>1. IsFiniteSet(S) /\ Cardinality(S) <= Cardinality(Buffers)
    BY <1>1, <1>3, FS_Subset, Zenon
  <2>2. Cardinality(S) \in Nat
    BY <2>1, FS_CardinalityType
  <2> QED  BY <1>1, <2>1, <2>2, RawCaptureAssumption
<1> QED  BY <1>2, <1>3, Zenon

(* A reason to end stays one. *)
LEMMA EndingStays ==
    ASSUME Typed, Ending, [Next]_vars PROVE Ending'
<1>0. opts' = opts
  BY OptsFrame
<1>1. stop # 0 => stop' # 0
  <2>1. CASE Signal
    <3>1. stop' \in {SIGINT, SIGTERM}
      BY <2>1 DEF Signal
    <3> QED  BY ONLY <3>1, SMT DEF SIGINT, SIGTERM
  <2> QED  BY <2>1, SignalFrame
<1>2. LimitReached => LimitReached'
  <2>1. CASE Dequeue
    <3>1. stats'.frames = stats.frames + 1 /\ stats.frames \in Nat
      BY <2>1, CountByOne DEF Typed, TypeOK, DataTypes, Stats
    <3>2. expired' = expired /\ opts.frames \in Nat
      BY <2>1, OptsTyped DEF Dequeue, Typed, TypeOK, OptsType
    <3>3. stats.frames >= opts.frames => stats'.frames >= opts.frames
      BY <3>1, <3>2
    <3> QED  BY <1>0, <3>2, <3>3, Zenon DEF LimitReached
  <2> QED  BY <2>1, LimitStays
<1> QED  BY <1>0, <1>1, <1>2, Zenon DEF Ending, StopRequested

(* Signals, frames and the clock move nothing.                             *)
LEMMA OthersWait ==
    ASSUME Typed, [Next]_vars, ~Step PROVE Left' = Left
<1>1. /\ pc' = pc /\ mapped' = mapped /\ file' = file
      /\ \A b \in Buffers : owner'[b] = "user" <=> owner[b] = "user"
  <2>1. CASE Signal \/ MissFrame \/ Expire \/ UNCHANGED vars
    BY <2>1, Zenon DEF Signal, MissFrame, Expire, process, session, output, vars, control
  <2>2. CASE FillBuffer
    <3>1. pc' = pc /\ mapped' = mapped /\ file' = file
      BY <2>2, Zenon DEF FillBuffer, process, output
    <3>2. PICK b \in Buffers : owner[b] = "queued" /\ owner' = [owner EXCEPT ![b] = "done"]
      BY <2>2, Zenon DEF FillBuffer
    <3> QED  BY <3>1, <3>2 DEF Typed, TypeOK, DataTypes
  <2> QED  BY <2>1, <2>2 DEF Next, Finished
<1>2. Unqueued' = Unqueued
  BY <1>1, Zenon DEF Unqueued
<1> QED  BY <1>1, <1>2, Zenon DEF Left, Repeats

(* Every step of the tool is one step less.                                *)
LEMMA StepsCountDown ==
    ASSUME Typed, Typed', FrameInv, FrameInv', Ending, Step,
           LeftFacts, LeftFacts'
    PROVE  Left' < Left
<1>0. MaxBuffers \in Nat /\ MaxBuffers >= 2 /\ FrameChunks \in Nat
  BY RawCaptureAssumption
<1>c. /\ Cardinality(mapped) \in 0 .. MaxBuffers
      /\ Cardinality(mapped') \in 0 .. MaxBuffers
      /\ Cardinality(Unqueued) \in 0 .. MaxBuffers
      /\ Cardinality(Unqueued') \in 0 .. MaxBuffers
  <2>1. TypeOK /\ TypeOK'
    BY DEF Typed
  <2>2. Cardinality(mapped) \in 0 .. MaxBuffers /\ Cardinality(Unqueued) \in 0 .. MaxBuffers
    BY <2>1, BufferCounts
  <2>3. (TypeOK => Cardinality(mapped) \in 0 .. MaxBuffers
                     /\ Cardinality(Unqueued) \in 0 .. MaxBuffers)'
    BY BufferCounts, PTL
  <2> QED  BY <2>1, <2>2, <2>3
<1>f. /\ Len(file) \in Nat /\ Len(file') \in Nat
      /\ pc = "write" => Len(file) < FrameChunks
      /\ pc' = "write" => Len(file') < FrameChunks
  BY DEF Typed, TypeOK, HistoryTypes, FrameInv, FileInv
<1> USE DEF Goto, Proceed, Throw
<1>1. CASE Open
  <2>1. pc = "open" /\ pc' \in {"querycap", "done"}
    BY <1>1 DEF Open
  <2> QED  BY <1>0, <2>1 DEF LeftFacts
<1>2. CASE QueryCapabilities
  <2>1. pc = "querycap" /\ pc' \in {"mode", "format", "unwind"}
    BY <1>2 DEF QueryCapabilities, Configure, Ending
  <2> QED  BY <1>0, <2>1 DEF LeftFacts
<1>3. CASE QuerySensorMode
  <2>1. pc = "mode" /\ pc' \in {"setmode", "unwind"}
    BY <1>3 DEF QuerySensorMode, Configure
  <2> QED  BY <1>0, <2>1 DEF LeftFacts
<1>3a. CASE SetSensorMode
  <2>1. pc = "setmode" /\ pc' \in {"format", "unwind"}
    BY <1>3a DEF SetSensorMode, Configure
  <2> QED  BY <1>0, <2>1 DEF LeftFacts
<1>4. CASE SetFormat
  <2>1. pc = "format" /\ pc' \in {"rate", "unwind"}
    BY <1>4 DEF SetFormat, Configure
  <2> QED  BY <1>0, <2>1 DEF LeftFacts
<1>5. CASE SetFrameRate
  <2>1. pc = "rate" /\ pc' \in {"reqbufs", "unwind"}
    BY <1>5 DEF SetFrameRate, Configure
  <2> QED  BY <1>0, <2>1 DEF LeftFacts
<1>6. CASE EnumerateFormats \/ EnumerateSizes \/ EnumerateIntervals
  <2>1. pc \in {"list", "sizes", "intervals"}
    BY <1>6 DEF EnumerateFormats, EnumerateSizes, EnumerateIntervals
  <2> QED  BY <2>1 DEF FrameInv, EndInv, Ending
<1>7. CASE RequestBuffers
  <2>1. pc = "reqbufs" /\ pc' \in {"map", "unwind"}
    BY <1>7 DEF RequestBuffers
  <2> QED  BY <1>0, <1>c, <2>1 DEF LeftFacts
<1>7a. CASE QueryBuffer
  <2>1. pc = "map" /\ pc' \in {"mmap", "unwind"} /\ mapped' = mapped
    BY <1>7a DEF QueryBuffer, Idle, session
  <2> QED  BY <1>0, <1>c, <2>1 DEF LeftFacts
<1>8. CASE MapBuffer
  <2>1. CASE pc = "mmap" /\ pc' = "unwind"
    BY <1>0, <1>c, <2>1 DEF LeftFacts
  <2>2. CASE ~(pc = "mmap" /\ pc' = "unwind")
    <3>1. /\ pc = "mmap" /\ pc' \in {"map", "qbuf"}
          /\ \E b : b \notin mapped /\ mapped' = mapped \cup {b}
      BY <1>8, <2>2 DEF MapBuffer, Least
    <3>2. Cardinality(mapped') = Cardinality(mapped) + 1
      BY <3>1, BufferCounts, FS_AddElement DEF Typed
    <3> QED  BY <1>0, <1>c, <3>1, <3>2 DEF LeftFacts
  <2> QED  BY <2>1, <2>2
<1>9. CASE QueueInitial
  <2>1. CASE pc = "qbuf" /\ pc' = "unwind"
    BY <1>0, <1>c, <2>1 DEF LeftFacts
  <2>2. CASE ~(pc = "qbuf" /\ pc' = "unwind")
    <3>1. pc = "qbuf" /\ pc' \in {"qbuf", "streamon"} /\ mapped' = mapped
      BY <1>9, <2>2, Zenon DEF QueueInitial
    <3>2. PICK b \in Unqueued : owner' = [owner EXCEPT ![b] = "queued"]
      BY <1>9, <2>2 DEF QueueInitial, Least, Unqueued, Typed, TypeOK, DataTypes
    <3>3. Unqueued' = Unqueued \ {b}
      BY <3>1, <3>2 DEF Unqueued, Typed, TypeOK, DataTypes
    <3>4. Cardinality(Unqueued') = Cardinality(Unqueued) - 1
      BY <3>2, <3>3, BufferCounts, FS_RemoveElement DEF Typed
    <3> QED  BY <1>0, <1>c, <3>1, <3>4 DEF LeftFacts
  <2> QED  BY <2>1, <2>2
<1>10. CASE StreamOn
  <2>1. pc = "streamon" /\ pc' \in {"check", "unwind"}
    BY <1>10 DEF StreamOn
  <2> QED  BY <1>0, <2>1 DEF LeftFacts
<1>11. CASE CheckLoop
  <2>1. pc = "check" /\ pc' = "streamoff"
    BY <1>11, Zenon DEF CheckLoop, Ending
  <2> QED  BY <1>0, <2>1 DEF LeftFacts
<1>12. CASE PollReady \/ PollTimeout \/ PollFails
  <2>1. pc = "poll" /\ pc' \in {"recheck", "unwind"}
    BY <1>12 DEF PollReady, PollTimeout, PollFails
  <2> QED  BY <1>0, <2>1 DEF LeftFacts
<1>13. CASE Recheck
  <2>1. pc = "recheck" /\ pc' \in {"streamoff", "dequeue"}
    BY <1>13 DEF Recheck
  <2> QED  BY <1>0, <2>1 DEF LeftFacts
<1>14. CASE Dequeue
  <2>1. pc = "dequeue" /\ pc' \in {"create", "refuse", "requeue"}
    BY <1>14 DEF Dequeue, AfterCount
  <2> QED  BY <1>0, <2>1 DEF LeftFacts
<1>15. CASE DequeueNothing \/ DequeueFails
  <2>1. pc = "dequeue" /\ pc' \in {"check", "unwind"}
    BY <1>15 DEF DequeueNothing, DequeueFails
  <2> QED  BY <1>0, <2>1 DEF LeftFacts
<1>16. CASE Requeue
  <2>1. pc \in {"refuse", "requeue"} /\ pc' \in {"check", "unwind"}
    BY <1>16 DEF Requeue
  <2> QED  BY <1>0, <2>1 DEF LeftFacts
<1>17. CASE CreateOutput
  <2>1. pc = "create" /\ pc' \in {"write", "closeout", "unwind"}
    BY <1>17 DEF CreateOutput
  <2> QED  BY <1>0, <1>f, <2>1 DEF LeftFacts
<1>18. CASE WriteChunk
  <2>1. CASE pc = "write" /\ pc' \in {"closeout", "unwind"}
    BY <1>0, <1>f, <2>1 DEF LeftFacts
  <2>2. CASE ~(pc = "write" /\ pc' \in {"closeout", "unwind"})
    <3>1. pc = "write" /\ pc' = "write" /\ file' = Append(file, frame[held])
      BY <1>18, <2>2 DEF WriteChunk
    <3>2. Len(file') = Len(file) + 1
      <4>1. file \in Seq(Nat)
        BY DEF Typed, TypeOK, HistoryTypes
      <4> QED  BY <3>1, <4>1
    <3> QED  BY <1>0, <1>f, <3>1, <3>2 DEF LeftFacts
  <2> QED  BY <2>1, <2>2
<1>19. CASE CloseOutput
  <2>1. pc = "closeout" /\ pc' \in {"requeue", "unwind"}
    BY <1>19 DEF CloseOutput
  <2> QED  BY <1>0, <2>1 DEF LeftFacts
<1>20. CASE StopStreaming
  <2>1. pc = "streamoff" /\ pc' \in {"judge", "unwind"}
    BY <1>20 DEF StopStreaming
  <2> QED  BY <1>0, <2>1 DEF LeftFacts
<1>21. CASE Judge
  <2>1. pc = "judge" /\ pc' \in {"interrupted", "unwind"}
    BY <1>21 DEF Judge
  <2> QED  BY <1>0, <2>1 DEF LeftFacts
<1>22. CASE ReturnSignal
  <2>1. pc = "interrupted" /\ pc' = "unwind"
    BY <1>22, Zenon DEF ReturnSignal
  <2> QED  BY <1>0, <2>1 DEF LeftFacts
<1>23. CASE Unwind
  <2>1. pc = "unwind" /\ pc' = "unmap"
    BY <1>23, Zenon DEF Unwind
  <2> QED  BY <1>0, <1>c, <2>1 DEF LeftFacts
<1>24. CASE UnmapBuffer
  <2>1. pc = "unmap" /\ pc' = "unmap"
    BY <1>24, Zenon DEF UnmapBuffer
  <2>2. PICK b \in mapped : mapped' = mapped \ {b}
    BY <1>24 DEF UnmapBuffer, Least
  <2>3. Cardinality(mapped') = Cardinality(mapped) - 1
    BY <2>2, BufferCounts, FS_RemoveElement DEF Typed
  <2> QED  BY <1>0, <1>c, <2>1, <2>3 DEF LeftFacts
<1>25. CASE CloseDevice
  <2>1. pc = "unmap" /\ pc' = "done"
    BY <1>25, Zenon DEF CloseDevice
  <2> QED  BY <1>0, <1>c, <2>1 DEF LeftFacts
<1> QED
  BY <1>1, <1>2, <1>3, <1>3a, <1>4, <1>5, <1>6, <1>7, <1>7a, <1>8, <1>9, <1>10, <1>11, <1>12,
     <1>13, <1>14, <1>15, <1>16, <1>17, <1>18, <1>19, <1>20, <1>21, <1>22,
     <1>23, <1>24, <1>25
  DEF Step

(* From any state in which a signal, --frames or --duration asks a capture *)
(* to end, the tool takes at most 4 * MaxBuffers + FrameChunks + 22 more   *)
(* steps, whatever the driver, the sensor and further signals do, and it   *)
(* has none left exactly when it has exited.  With the scheduling that     *)
(* FairSpec assumes this is StopHonoured.                                  *)
THEOREM StopTakesBoundedSteps ==
    Spec => /\ [](Ending => /\ Left \in 0 .. 4 * MaxBuffers + FrameChunks + 22
                            /\ Left = 0 <=> pc = "done")
            /\ [][Ending => /\ Ending' /\ Left' <= Left
                            /\ Step => Left' < Left]_vars
<1>1. Typed /\ FrameInv /\ LeftFacts =>
        (Ending => /\ Left \in 0 .. 4 * MaxBuffers + FrameChunks + 22
                   /\ Left = 0 <=> pc = "done")
  <2> SUFFICES ASSUME Typed, FrameInv, LeftFacts, Ending
               PROVE  /\ Left \in 0 .. 4 * MaxBuffers + FrameChunks + 22
                      /\ Left = 0 <=> pc = "done"
    OBVIOUS
  <2>1. MaxBuffers \in Nat /\ FrameChunks \in Nat
    BY RawCaptureAssumption
  <2>2. /\ Cardinality(mapped) \in 0 .. MaxBuffers
        /\ Cardinality(Unqueued) \in 0 .. MaxBuffers
    BY BufferCounts DEF Typed
  <2>3. Len(file) \in Nat /\ (pc = "write" => Len(file) < FrameChunks)
    BY DEF Typed, TypeOK, HistoryTypes, FrameInv, FileInv
  <2>4. pc \in Pcs \ {"list", "sizes", "intervals"}
    BY DEF Typed, TypeOK, DataTypes, FrameInv, EndInv, Ending
  <2>5. \/ pc = "done" /\ Left = 0
        \/ pc # "done" /\ Left \in 1 .. 4 * MaxBuffers + FrameChunks + 22
    <3>1. CASE pc \in {"open", "querycap", "mode", "setmode", "format", "rate", "reqbufs"}
      BY <2>1, <3>1 DEF LeftFacts
    <3>2. CASE pc \in {"map", "mmap", "qbuf", "streamon"}
      BY <2>1, <2>2, <3>2 DEF LeftFacts
    <3>3. CASE pc \in {"check", "poll", "recheck", "dequeue", "create"}
      BY <2>1, <3>3 DEF LeftFacts
    <3>4. CASE pc \in {"write", "closeout", "refuse", "requeue"}
      BY <2>1, <2>3, <3>4 DEF LeftFacts
    <3>5. CASE pc \in {"streamoff", "judge", "interrupted", "unwind", "unmap", "done"}
      BY <2>1, <2>2, <3>5 DEF LeftFacts
    <3> QED  BY <2>4, <3>1, <3>2, <3>3, <3>4, <3>5, Zenon DEF Pcs, LoopPcs
  <2> QED  BY <2>1, <2>5
<1>2. Typed /\ FrameInv /\ Typed' /\ FrameInv' /\ LeftFacts /\ LeftFacts'
      /\ (Ending => Left \in 0 .. 4 * MaxBuffers + FrameChunks + 22)
      /\ (Ending => Left \in 0 .. 4 * MaxBuffers + FrameChunks + 22)' /\ [Next]_vars =>
        [Ending => /\ Ending' /\ Left' <= Left
                   /\ Step => Left' < Left]_vars
  <2> SUFFICES ASSUME Typed, FrameInv, Typed', FrameInv', LeftFacts, LeftFacts',
                      Ending, [Next]_vars,
                      Left \in 0 .. 4 * MaxBuffers + FrameChunks + 22,
                      (Ending => Left \in 0 .. 4 * MaxBuffers + FrameChunks + 22)'
               PROVE  Ending' /\ Left' <= Left /\ (Step => Left' < Left)
    BY Zenon
  <2>1. Ending'
    BY EndingStays
  <2>2. Left \in Nat /\ Left' \in Nat
    BY <2>1, RawCaptureAssumption
  <2>3. CASE Step
    BY <2>1, <2>2, <2>3, StepsCountDown
  <2>4. CASE ~Step
    BY <2>1, <2>2, <2>4, OthersWait
  <2> QED  BY <2>3, <2>4
<1>3. Spec => [](Typed /\ FrameInv)
  BY CoreInvariant, FrameInvariant, PTL DEF Typed
<1> QED  BY <1>1, <1>2, <1>3, LeftAt, PTL DEF Spec
=============================================================================
