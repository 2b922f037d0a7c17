------------------------- MODULE FrameLedgerProofs --------------------------
(***************************************************************************)
(* The counters of jetcam-raw-test against the truth, for every sequence   *)
(* range of at least 8 numbers and behaviours of any length.               *)
(***************************************************************************)
EXTENDS FrameLedger, TLAPS

(* A number below SeqMod is its own remainder, one in the next cycle loses *)
(* SeqMod.  Used wherever uint32_t arithmetic wraps at most once.          *)
LEMMA RemainderOnce ==
    ASSUME NEW x \in Nat
    PROVE  /\ x < SeqMod => x % SeqMod = x
           /\ SeqMod <= x /\ x < 2 * SeqMod => x % SeqMod = x - SeqMod
           /\ x % SeqMod \in SeqNum
  BY SeqModAssumption DEF SeqNum

(* The wrapping subtraction of add_frame recovers a distance of k from     *)
(* the two wrapped numbers; only a whole cycle looks like a repeat.        *)
LEMMA DeltaRecoversDistance ==
    ASSUME NEW s \in Stats, NEW k \in 1 .. SeqMod
    PROVE  /\ Delta(s, (s.last + k) % SeqMod) = IF k = SeqMod THEN 0 ELSE k
           /\ (s.last + k) % SeqMod \in SeqNum
<1> DEFINE n == (s.last + k) % SeqMod
<1>1. s.last \in Nat /\ s.last < SeqMod /\ k \in Nat /\ SeqMod \in Nat
  BY SeqModAssumption DEF Stats, SeqNum
<1>2. n \in SeqNum
  BY <1>1, RemainderOnce
<1>3. CASE s.last + k < SeqMod
  <2>1. n = s.last + k
    BY <1>1, <1>3, RemainderOnce
  <2>2. n + SeqMod - s.last = SeqMod + k
    BY <1>1, <2>1
  <2>3. (SeqMod + k) % SeqMod = k
    BY <1>1, <1>3, RemainderOnce
  <2> QED  BY <1>1, <1>2, <1>3, <2>2, <2>3 DEF Delta
<1>4. CASE s.last + k >= SeqMod
  <2>1. n = s.last + k - SeqMod
    BY <1>1, <1>4, RemainderOnce
  <2>2. n + SeqMod - s.last = k
    BY <1>1, <2>1
  <2>3. k % SeqMod = IF k = SeqMod THEN 0 ELSE k
    BY <1>1, RemainderOnce
  <2> QED  BY <1>1, <1>2, <2>2, <2>3 DEF Delta
<1> QED  BY <1>1, <1>3, <1>4

(* add_frame keeps the counters in their types. *)
LEMMA AddFrameType ==
    ASSUME NEW s \in Stats, NEW q \in SeqNum, NEW e \in BOOLEAN
    PROVE  AddFrame(s, q, e) \in Stats
<1>1. s.last \in Nat /\ s.last < SeqMod /\ q \in Nat /\ SeqMod \in Nat
  BY SeqModAssumption DEF Stats, SeqNum
<1>2. Delta(s, q) \in Nat
  BY <1>1, RemainderOnce DEF Delta, SeqNum
<1> QED  BY <1>2 DEF AddFrame, Stats, Missing, IsGap

(* Adding k to a number adds k to its remainder, less the wraps.  The two  *)
(* quotients can differ by at most one cycle.                              *)
LEMMA RemainderShift ==
    ASSUME NEW x \in Nat, NEW k \in 1 .. SeqMod
    PROVE  (x + k) % SeqMod = IF (x % SeqMod) + k < SeqMod
                                THEN (x % SeqMod) + k
                                ELSE (x % SeqMod) + k - SeqMod
<1> DEFINE r == x % SeqMod
           q == x \div SeqMod
           t == (x + k) % SeqMod
           p == (x + k) \div SeqMod
<1>1. r \in 0 .. SeqMod - 1 /\ q \in Int /\ x = SeqMod * q + r
  BY SeqModAssumption
<1>2. t \in 0 .. SeqMod - 1 /\ p \in Int /\ x + k = SeqMod * p + t
  BY SeqModAssumption
<1> HIDE DEF r, q, t, p
<1>3. SeqMod * (p - q) = r + k - t
  <2>1. SeqMod * p + t = SeqMod * q + (r + k)
    BY <1>1, <1>2, SeqModAssumption
  <2> QED  BY <2>1, <1>1, <1>2, SeqModAssumption
<1>4. p - q < 2
  <2> SUFFICES ASSUME p - q >= 2 PROVE FALSE
    BY <1>1, <1>2
  <2>1. SeqMod * (p - q) >= SeqMod * 2
    BY <1>1, <1>2, SeqModAssumption
  <2> QED  BY <2>1, <1>1, <1>2, <1>3, SeqModAssumption
<1>5. p - q >= 0
  <2> SUFFICES ASSUME p - q <= -1 PROVE FALSE
    BY <1>1, <1>2
  <2>1. SeqMod * (p - q) <= SeqMod * (-1)
    BY <1>1, <1>2, SeqModAssumption
  <2> QED  BY <2>1, <1>1, <1>2, <1>3, SeqModAssumption
<1>6. CASE p - q = 0
  <2>1. r + k = t
    BY <1>1, <1>2, <1>3, <1>6, SeqModAssumption
  <2> QED  BY <2>1, <1>1, <1>2, SeqModAssumption DEF r, t
<1>7. CASE p - q = 1
  <2>1. r + k - SeqMod = t
    BY <1>1, <1>2, <1>3, <1>7, SeqModAssumption
  <2> QED  BY <2>1, <1>1, <1>2, SeqModAssumption DEF r, t
<1> QED  BY <1>1, <1>2, <1>4, <1>5, <1>6, <1>7
-----------------------------------------------------------------------------
(* Both moves of the source are a step of some distance 1 .. SeqMod of the *)
(* sequence number: Advance by gap + 1, Regress by SeqMod - back.          *)
LEMMA StepDistance ==
    ASSUME TypeOK, NEW d \in Nat
    PROVE  /\ d < SeqMod => stats.last + 1 + d = stats.last + (d + 1)
           /\ d < SeqMod => d + 1 \in 1 .. SeqMod
           /\ d <= SeqMod - 2 => stats.last + SeqMod - d = stats.last + (SeqMod - d)
           /\ d <= SeqMod - 2 => SeqMod - d \in 1 .. SeqMod
  BY SeqModAssumption DEF TypeOK, Stats, SeqNum

\* nothing is counted before the first frame
NothingBeforeFirst == stats.frames = 0 => stats.dropped = 0 /\ stats.disc = 0

Inv ==
    /\ TypeOK
    /\ NothingBeforeFirst
    /\ LedgerAgrees
    /\ CleanMeansContiguous

(* Every reachable state has well-typed counters that agree with the       *)
(* ledger, and a clean verdict is sound.                                   *)
LEMMA InvHolds == Spec => []Inv
<1>1. Init => Inv
  <2> SUFFICES ASSUME Init PROVE Inv
    OBVIOUS
  <2>1. NewStats \in Stats /\ NewStats.dropped = 0 /\ NewStats.disc = 0
    BY SeqModAssumption DEF NewStats, Stats, SeqNum
  <2>2. TypeOK
    BY <2>1 DEF Init, TypeOK
  <2> QED
    BY <2>1, <2>2
    DEF Init, Inv, NothingBeforeFirst, LedgerAgrees, CleanMeansContiguous
<1>2. Inv /\ [Next]_vars => Inv'
  <2> SUFFICES ASSUME Inv, [Next]_vars PROVE Inv'
    OBVIOUS
  <2> USE DEF Inv
  <2>0. /\ SeqMod \in Nat /\ SeqMod >= 8
        /\ KBackwardThreshold \in Nat
        /\ KBackwardThreshold > 2 /\ KBackwardThreshold < SeqMod
    BY SeqModAssumption DEF KBackwardThreshold
  <2>1. CASE FirstFrame
    <3>1. PICK q \in SeqNum, e \in BOOLEAN : Deliver(q, e)
      BY <2>1 DEF FirstFrame
    <3>2. stats.frames = 0 /\ UNCHANGED <<lost, breaks, far>>
      BY <2>1 DEF FirstFrame
    <3>3. stats' \in Stats
      BY <3>1, AddFrameType DEF Deliver, TypeOK
    <3>4. TypeOK'
      BY <3>1, <3>2, <3>3 DEF Deliver, TypeOK
    <3>5. /\ stats'.dropped = stats.dropped /\ stats'.disc = stats.disc
          /\ stats'.errors = stats.errors + (IF e THEN 1 ELSE 0)
          /\ flagged' = flagged + (IF e THEN 1 ELSE 0)
      BY <3>1, <3>2 DEF Deliver, AddFrame, TypeOK, Stats
    <3>6. stats.dropped = 0 /\ stats.disc = 0
      BY <3>2 DEF NothingBeforeFirst
    <3>7. stats'.frames # 0
      BY <3>1, <3>2 DEF Deliver, AddFrame
    <3>8. LedgerAgrees'
      BY <3>2, <3>5 DEF LedgerAgrees
    <3>9. CleanMeansContiguous'
      BY <3>2, <3>4, <3>5
      DEF CleanMeansContiguous, SequenceOk, TypeOK, Stats
    <3> QED
      BY <3>4, <3>7, <3>8, <3>9 DEF NothingBeforeFirst
  <2>2. CASE Advance
    <3>1. PICK gap \in 0 .. SeqMod - 1, e \in BOOLEAN :
             /\ Deliver((stats.last + 1 + gap) % SeqMod, e)
             /\ lost' = lost + gap
             /\ far' = (far \/ gap + 1 >= KBackwardThreshold)
      BY <2>2 DEF Advance
    <3>2. stats.frames # 0 /\ breaks' = breaks
      BY <2>2 DEF Advance
    <3> DEFINE q == (stats.last + 1 + gap) % SeqMod
    <3>3. /\ q \in SeqNum
          /\ Delta(stats, q) = IF gap + 1 = SeqMod THEN 0 ELSE gap + 1
      BY <2>0, StepDistance, DeltaRecoversDistance DEF TypeOK
    <3>4. TypeOK'
      BY <2>0, <3>1, <3>2, <3>3, AddFrameType DEF Deliver, TypeOK
    <3>5. /\ stats'.dropped = stats.dropped + Missing(Delta(stats, q))
          /\ stats'.disc = stats.disc
                + (IF IsDiscontinuity(Delta(stats, q)) THEN 1 ELSE 0)
          /\ stats'.errors = stats.errors + (IF e THEN 1 ELSE 0)
          /\ flagged' = flagged + (IF e THEN 1 ELSE 0)
      BY <3>1, <3>2 DEF Deliver, AddFrame
    <3> HIDE DEF q
    <3>6. LedgerAgrees'
      <4> SUFFICES ASSUME ~far' PROVE stats'.dropped = lost' /\ stats'.disc = breaks'
        BY DEF LedgerAgrees
      <4>1. ~far /\ ~(gap + 1 >= KBackwardThreshold)
        BY <3>1
      <4>2. stats.dropped = lost /\ stats.disc = breaks
        BY <4>1 DEF LedgerAgrees
      <4> QED
        BY <2>0, <3>1, <3>2, <3>3, <3>5, <4>1, <4>2
        DEF Missing, IsGap, IsDiscontinuity, TypeOK, Stats
    <3>7. CleanMeansContiguous'
      BY <2>0, <3>1, <3>2, <3>3, <3>5
      DEF CleanMeansContiguous, SequenceOk, Missing, IsGap, IsDiscontinuity, TypeOK, Stats
    <3>8. NothingBeforeFirst'
      BY <3>1, <3>2 DEF Deliver, AddFrame, NothingBeforeFirst, TypeOK, Stats
    <3> QED  BY <3>4, <3>6, <3>7, <3>8
  <2>3. CASE Regress
    <3>1. PICK back \in 0 .. SeqMod - 2, e \in BOOLEAN :
             /\ Deliver((stats.last + SeqMod - back) % SeqMod, e)
             /\ far' = (far \/ back > SeqMod - KBackwardThreshold)
      BY <2>3 DEF Regress
    <3>2. stats.frames # 0 /\ breaks' = breaks + 1 /\ lost' = lost
      BY <2>3 DEF Regress
    <3> DEFINE q == (stats.last + SeqMod - back) % SeqMod
    <3>3. /\ q \in SeqNum
          /\ Delta(stats, q) = IF back = 0 THEN 0 ELSE SeqMod - back
      BY <2>0, StepDistance, DeltaRecoversDistance DEF TypeOK
    <3>4. TypeOK'
      BY <2>0, <3>1, <3>2, <3>3, AddFrameType DEF Deliver, TypeOK
    <3>5. /\ stats'.dropped = stats.dropped + Missing(Delta(stats, q))
          /\ stats'.disc = stats.disc
                + (IF IsDiscontinuity(Delta(stats, q)) THEN 1 ELSE 0)
          /\ stats'.errors = stats.errors + (IF e THEN 1 ELSE 0)
          /\ flagged' = flagged + (IF e THEN 1 ELSE 0)
      BY <3>1, <3>2 DEF Deliver, AddFrame
    <3> HIDE DEF q
    <3>6. LedgerAgrees'
      <4> SUFFICES ASSUME ~far' PROVE stats'.dropped = lost' /\ stats'.disc = breaks'
        BY DEF LedgerAgrees
      <4>1. ~far /\ ~(back > SeqMod - KBackwardThreshold)
        BY <3>1
      <4>2. stats.dropped = lost /\ stats.disc = breaks
        BY <4>1 DEF LedgerAgrees
      <4> QED
        BY <2>0, <3>1, <3>2, <3>3, <3>5, <4>1, <4>2
        DEF Missing, IsGap, IsDiscontinuity, TypeOK, Stats
    <3>7. CleanMeansContiguous'
      BY <2>0, <3>1, <3>2, <3>3, <3>5
      DEF CleanMeansContiguous, SequenceOk, Missing, IsGap, IsDiscontinuity, TypeOK, Stats
    <3>8. NothingBeforeFirst'
      BY <3>1, <3>2 DEF Deliver, AddFrame, NothingBeforeFirst, TypeOK, Stats
    <3> QED  BY <3>4, <3>6, <3>7, <3>8
  <2>4. CASE UNCHANGED vars
    BY <2>4
    DEF vars, TypeOK, NothingBeforeFirst, LedgerAgrees, CleanMeansContiguous, SequenceOk
  <2> QED  BY <2>1, <2>2, <2>3, <2>4 DEF Next
<1> QED  BY <1>1, <1>2, PTL DEF Spec

(* The counters always have their types. *)
THEOREM TypeCorrect == Spec => []TypeOK
  BY InvHolds, PTL DEF Inv

(* The counters equal the truth while no jump exceeds half the range. *)
THEOREM LedgerTheorem == Spec => []LedgerAgrees
  BY InvHolds, PTL DEF Inv

(* A clean verdict means nothing was lost, repeated or flagged. *)
THEOREM CleanTheorem == Spec => []CleanMeansContiguous
  BY InvHolds, PTL DEF Inv

-----------------------------------------------------------------------------
(* One frame at distance k keeps the RESULT line consistent. *)
LEMMA RangeStep ==
    ASSUME TypeOK, RangeAccountsForFrames, stats.frames # 0,
           NEW k \in 1 .. SeqMod, NEW e \in BOOLEAN,
           stats' = AddFrame(stats, (stats.last + k) % SeqMod, e)
    PROVE  RangeAccountsForFrames'
<1> DEFINE x == stats.first + stats.frames + stats.dropped
           y == stats.last + 1
           n == (stats.last + k) % SeqMod
<1>1. /\ SeqMod \in Nat /\ SeqMod >= 8 /\ KBackwardThreshold \in Nat
      /\ KBackwardThreshold < SeqMod
  BY SeqModAssumption DEF KBackwardThreshold
<1>2. x \in Nat /\ y \in Nat /\ stats \in Stats /\ stats.last \in SeqNum
  BY <1>1 DEF TypeOK, Stats, SeqNum
<1>3. Delta(stats, n) = (IF k = SeqMod THEN 0 ELSE k) /\ n \in SeqNum
  BY <1>2, DeltaRecoversDistance
<1> SUFFICES ASSUME stats'.disc = 0
             PROVE  (stats'.first + stats'.frames + stats'.dropped) % SeqMod
                      = (stats'.last + 1) % SeqMod
  BY DEF RangeAccountsForFrames
<1>4. stats.disc = 0 /\ k # SeqMod /\ ~IsDiscontinuity(k)
  BY <1>1, <1>2, <1>3 DEF AddFrame, IsDiscontinuity, Stats
<1>5. stats'.first + stats'.frames + stats'.dropped = x + k
  BY <1>1, <1>2, <1>3, <1>4 DEF AddFrame, Missing, IsDiscontinuity, IsGap, Stats, SeqNum
<1>6. stats'.last = n
  BY DEF AddFrame
<1>7. x % SeqMod = y % SeqMod
  BY <1>4 DEF RangeAccountsForFrames
<1>8. (x + k) % SeqMod = (y + k) % SeqMod
  <2> HIDE DEF x, y
  <2> QED  BY <1>2, <1>7, RemainderShift
<1>9. (n + 1) % SeqMod = (y + k) % SeqMod
  <2>1. stats.last + k \in Nat /\ 1 \in 1 .. SeqMod /\ n \in Nat /\ n < SeqMod
    BY <1>1, <1>2, <1>3 DEF SeqNum
  <2>2. n % SeqMod = (stats.last + k) % SeqMod
    BY <1>1, <2>1, RemainderOnce
  <2>3. (n + 1) % SeqMod = ((stats.last + k) + 1) % SeqMod
    <3> DEFINE z == stats.last + k
               After(r) == IF r + 1 < SeqMod THEN r + 1 ELSE r + 1 - SeqMod
    <3>1. z \in Nat /\ n % SeqMod = z % SeqMod
      BY <2>1, <2>2
    <3> HIDE DEF n, z
    <3>2. (n + 1) % SeqMod = After(n % SeqMod)
      BY <2>1, RemainderShift
    <3>3. (z + 1) % SeqMod = After(z % SeqMod)
      BY <2>1, <3>1, RemainderShift
    <3> QED  BY <3>1, <3>2, <3>3 DEF z
  <2>4. (stats.last + k) + 1 = y + k
    BY <1>1, <1>2 DEF SeqNum
  <2> QED  BY <2>3, <2>4
<1> QED  BY <1>5, <1>6, <1>8, <1>9

(* The first, last, frames and dropped fields of a RESULT line without     *)
(* discontinuities always fit together, for every sequence range.          *)
THEOREM RangeTheorem == Spec => []RangeAccountsForFrames
<1>1. Init => RangeAccountsForFrames
  BY DEF Init, NewStats, RangeAccountsForFrames
<1>2. Inv /\ RangeAccountsForFrames /\ [Next]_vars => RangeAccountsForFrames'
  <2> SUFFICES ASSUME Inv, RangeAccountsForFrames, [Next]_vars
               PROVE  RangeAccountsForFrames'
    OBVIOUS
  <2> USE DEF Inv
  <2>0. SeqMod \in Nat /\ SeqMod >= 8
    BY SeqModAssumption
  <2>1. CASE FirstFrame
    <3>1. PICK q \in SeqNum, e \in BOOLEAN : Deliver(q, e)
      BY <2>1 DEF FirstFrame
    <3>2. stats.frames = 0 /\ stats \in Stats
      BY <2>1 DEF FirstFrame, TypeOK
    <3>3. /\ stats'.first = q /\ stats'.last = q /\ stats'.frames = 1
          /\ stats'.dropped = stats.dropped
      BY <3>1, <3>2 DEF Deliver, AddFrame, Stats
    <3>4. stats'.first + stats'.frames + stats'.dropped = stats'.last + 1
      BY <3>2, <3>3 DEF NothingBeforeFirst, SeqNum
    <3> QED  BY <3>4 DEF RangeAccountsForFrames
  <2>2. CASE Advance
    <3>1. PICK gap \in 0 .. SeqMod - 1, e \in BOOLEAN :
             Deliver((stats.last + 1 + gap) % SeqMod, e)
      BY <2>2 DEF Advance
    <3>2. stats.frames # 0
      BY <2>2 DEF Advance
    <3>3. gap + 1 \in 1 .. SeqMod /\ stats.last + 1 + gap = stats.last + (gap + 1)
      BY <2>0, StepDistance
    <3> QED  BY <3>1, <3>2, <3>3, RangeStep DEF Deliver
  <2>3. CASE Regress
    <3>1. PICK back \in 0 .. SeqMod - 2, e \in BOOLEAN :
             Deliver((stats.last + SeqMod - back) % SeqMod, e)
      BY <2>3 DEF Regress
    <3>2. stats.frames # 0
      BY <2>3 DEF Regress
    <3>3. /\ SeqMod - back \in 1 .. SeqMod
          /\ stats.last + SeqMod - back = stats.last + (SeqMod - back)
      BY <2>0, StepDistance
    <3> QED  BY <3>1, <3>2, <3>3, RangeStep DEF Deliver
  <2>4. CASE UNCHANGED vars
    BY <2>4 DEF vars, RangeAccountsForFrames
  <2> QED  BY <2>1, <2>2, <2>3, <2>4 DEF Next
<1> QED  BY <1>1, <1>2, InvHolds, PTL DEF Spec
=============================================================================
