---------------------------- MODULE CaptureStats ----------------------------
(***************************************************************************)
(* The class jetcam::CaptureStats of jetcam-raw-test: the counters that    *)
(* decide whether a capture passed.  The only evidence they are built from *)
(* is the driver's 32-bit sequence number, so all the arithmetic here is   *)
(* modulo SeqMod (2^32 in the program).  Timestamps are left out: no       *)
(* counter depends on them.  The 64-bit counters cannot wrap in the life   *)
(* of a process and are naturals.                                          *)
(***************************************************************************)
EXTENDS Naturals

CONSTANT SeqMod   \* number of distinct sequence numbers, 2^32 in the code

ASSUME SeqModAssumption == SeqMod \in Nat /\ SeqMod >= 8

SeqNum == 0 .. SeqMod - 1

\* std::numeric_limits<std::uint32_t>::max() / 2
KBackwardThreshold == (SeqMod - 1) \div 2

Stats == [frames : Nat, dropped : Nat, disc : Nat, errors : Nat,
          first : SeqNum, last : SeqNum]

NewStats == [frames |-> 0, dropped |-> 0, disc |-> 0, errors |-> 0,
             first |-> 0, last |-> 0]

\* mistake: the unsigned subtraction replaced by one that clamps at a wrap
DeltaClamped(s, sequence) ==
    IF sequence >= s.last THEN sequence - s.last ELSE 1

\* uint32_t delta = sequence - last_sequence_
Delta(s, sequence) == (sequence + SeqMod - s.last) % SeqMod

\* mistake: the upper bound of the gap window is forgotten
IsGapUnbounded(delta) == delta > 1

IsGap(delta) == delta > 1 /\ delta < KBackwardThreshold
\* mistake: a repeated sequence number is not noticed
IsDiscontinuityNoRepeat(delta) == delta >= KBackwardThreshold

IsDiscontinuity(delta) == delta = 0 \/ delta >= KBackwardThreshold

Missing(delta) == IF IsGap(delta) THEN delta - 1 ELSE 0

AddFrame(s, sequence, bufferError) ==
    LET delta == Delta(s, sequence)
        later == s.frames # 0
    IN  [frames  |-> s.frames + 1,
         dropped |-> s.dropped + (IF later THEN Missing(delta) ELSE 0),
         disc    |-> s.disc + (IF later /\ IsDiscontinuity(delta) THEN 1 ELSE 0),
         errors  |-> s.errors + (IF bufferError THEN 1 ELSE 0),
         first   |-> IF later THEN s.first ELSE sequence,
         last    |-> sequence]

\* sequence_ok in run_capture
SequenceOk(s) == s.dropped = 0 /\ s.disc = 0 /\ s.errors = 0
=============================================================================
