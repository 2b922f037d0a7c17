---------------------------- MODULE FrameLedger -----------------------------
(***************************************************************************)
(* CaptureStats set against the truth.  A frame source delivers frames to  *)
(* the counters; between two deliveries it may lose frames (the sequence   *)
(* number runs on), or jump back (a driver that restarts its counter, or   *)
(* hands the same buffer out twice).  The ledger lost, breaks, flagged and *)
(* position keeps what really happened, in plain integers; the counters    *)
(* only ever see the sequence number modulo SeqMod.                        *)
(***************************************************************************)
EXTENDS CaptureStats, Integers

CONSTANT MaxFrames   \* bound: frames delivered in one behaviour

ASSUME MaxFramesAssumption == MaxFrames \in Nat

VARIABLES
    stats,      \* the CaptureStats object
    lost,       \* frames that were produced and never delivered
    breaks,     \* times the source repeated or moved back
    flagged,    \* frames delivered with V4L2_BUF_FLAG_ERROR
    far         \* a jump the half-range rule cannot classify has happened

vars == <<stats, lost, breaks, flagged, far>>

Init ==
    /\ stats = NewStats
    /\ lost = 0
    /\ breaks = 0
    /\ flagged = 0
    /\ far = FALSE

Deliver(sequence, bufferError) ==
    /\ stats.frames < MaxFrames
    /\ stats' = AddFrame(stats, sequence, bufferError)
    /\ flagged' = flagged + (IF bufferError THEN 1 ELSE 0)

FirstFrame ==
    /\ stats.frames = 0
    /\ \E sequence \in SeqNum, bufferError \in BOOLEAN :
          Deliver(sequence, bufferError)
    /\ UNCHANGED <<lost, breaks, far>>

\* The next delivered frame comes after `gap` lost ones.
Advance ==
    /\ stats.frames # 0
    /\ \E gap \in 0 .. SeqMod - 1, bufferError \in BOOLEAN :
          /\ Deliver((stats.last + 1 + gap) % SeqMod, bufferError)
          /\ lost' = lost + gap
          /\ far' = (far \/ gap + 1 >= KBackwardThreshold)
    /\ UNCHANGED breaks

\* The source repeats its last number (back = 0) or moves back by `back`.
Regress ==
    /\ stats.frames # 0
    /\ \E back \in 0 .. SeqMod - 2, bufferError \in BOOLEAN :
          /\ Deliver((stats.last + SeqMod - back) % SeqMod, bufferError)
          /\ far' = (far \/ back > SeqMod - KBackwardThreshold)
    /\ breaks' = breaks + 1
    /\ UNCHANGED lost

Next == FirstFrame \/ Advance \/ Regress

Spec == Init /\ [][Next]_vars
-----------------------------------------------------------------------------
\* The counters, the ledger and the flag range over their types.
TypeOK ==
    /\ stats \in Stats
    /\ lost \in Nat
    /\ breaks \in Nat
    /\ flagged \in Nat
    /\ far \in BOOLEAN

\* As long as no jump exceeds half the number range, the counters computed
\* from wrapped sequence numbers equal the truth: dropped counts every lost
\* frame and no other, across any number of wraps and after any regress, and
\* discontinuities counts every repeat or step back (stage2-raw-test.md:32-33).
LedgerAgrees ==
    ~far => stats.dropped = lost /\ stats.disc = breaks

\* A clean verdict is never wrong: whatever the source does, up to losing a
\* whole cycle of sequence numbers less one at once, counters that
\* sequence_ok accepts mean that nothing was lost, repeated or flagged.
CleanMeansContiguous ==
    SequenceOk(stats) => lost = 0 /\ breaks = 0 /\ flagged = 0

\* The numbers of one RESULT line fit together: with no discontinuity, the
\* distance from first_sequence to last_sequence is exactly the frames
\* received plus the frames reported dropped, modulo the number range.
RangeAccountsForFrames ==
    stats.disc = 0 /\ stats.frames # 0
      => (stats.first + stats.frames + stats.dropped) % SeqMod
           = (stats.last + 1) % SeqMod
=============================================================================
