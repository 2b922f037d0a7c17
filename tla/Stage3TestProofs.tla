-------------------------- MODULE Stage3TestProofs --------------------------
(***************************************************************************)
(* Proofs about TestPattern and Stage3Test, with or without failing        *)
(* register writes and for any number of Argus sessions.                   *)
(***************************************************************************)
EXTENDS Stage3Test, TLAPS

(* The driver.  A call is one of the stream's start or of a control on a   *)
(* running stream; the registers hold the control unless a write failed.   *)
DriverTypes == control \in Int /\ value \in Int /\ msb \in Int /\ lsb \in Int

DriverInv ==
    /\ call \in {"none", "set", "sync"} /\ sensor \in {"off", "on", "streaming"}
    /\ call = "sync" <=> sensor = "on"
    /\ call = "set" => sensor = "streaming"
    /\ call = "sync" => value = control
    /\ written => call # "none" /\ msb = 0
    /\ sensor = "streaming" /\ Idle /\ ~failed => msb = 0 /\ lsb = control

(* What the driver can do in a step of the whole.                          *)
DriverNext ==
    \/ \E v \in Patterns : SetControl(v)
    \/ StartStream \/ StopStream \/ DriverStep
    \/ UNCHANGED driver

Waits == {"disabling", "setting bars", "restoring", "in trap"}
Behind == {"compare", "restore", "restoring", "verify", "passed"}
Between == {"bars", "setting bars", "capture 2"}
Traps == {"trap", "in trap", "failed"}
Labels ==
    {"guard", "disable", "disabling", "capture 1"} \cup Between \cup Behind \cup Traps

(* Behind the trap's v4l2-ctl the pattern is disabled, and no call is at   *)
(* work that sets another, unless an orphan came late.                     *)
Settled == (control = 0 /\ (call = "set" => value = 0)) \/ stray

(* The control along the script: until a signal sends it to the trap, the  *)
(* calls of the driver are those of the v4l2-ctl it waits for.             *)
ControlInv ==
    /\ at \in Labels
    /\ setter # "none" => at \in Waits
    /\ at \notin Traps => orphans = {} /\ (call = "set" => setter = "asking")
    /\ setter = "asking" => call = "set" /\ value = Wanted
    /\ setter = "set" => IF at \in Traps THEN Settled ELSE control = Wanted
    /\ at \in {"capture 1", "passed"} => control = 0
    /\ at = "capture 2" => control = ColorBars
    /\ at = "failed" => Settled \/ unrestored \/ cut

(* The files: a capture is at work at its command only, or behind a script *)
(* that has been killed, where it names neither file.                      *)
RawTypes == raw \in [1 .. 2 -> Int]

FileInv ==
    /\ capture # "none" => at \in {"capture 1", "capture 2"} \cup Traps
    /\ (at = "capture 1" /\ capture = "saved") \/ at \in Between \cup Behind =>
           raw[1] = 0 \/ unsynced
    /\ (at = "capture 2" /\ capture = "saved") \/ at \in Behind =>
           raw[2] = ColorBars \/ unsynced

(* The guard: a bypass seen behind it belongs to a session begun behind it.*)
Beyond == at \notin Traps \cup {"guard"}

GuardInv ==
    /\ argus => bypass
    /\ guarded /\ bypass => late
    /\ Beyond => guarded
    /\ capture # "none" => guarded

IInv == DriverTypes /\ DriverInv /\ ControlInv /\ RawTypes /\ FileInv /\ GuardInv
-----------------------------------------------------------------------------
(* What the driver's variables do in a step.                               *)
LEMMA UnchangedDriver ==
    UNCHANGED driver =>
        /\ control' = control /\ sensor' = sensor /\ msb' = msb /\ lsb' = lsb
        /\ call' = call /\ value' = value /\ written' = written
        /\ reply' = reply /\ failed' = failed
  BY Zenon DEF driver

LEMMA UnchangedHost ==
    UNCHANGED host =>
        (bypass' <=> bypass) /\ (argus' <=> argus) /\ (late' <=> late)
  BY DEF host

LEMMA UnchangedScript ==
    UNCHANGED script =>
        /\ at' = at /\ setter' = setter /\ orphans' = orphans /\ capture' = capture
        /\ raw' = raw /\ guarded' = guarded /\ unsynced' = unsynced
        /\ unrestored' = unrestored /\ cut' = cut /\ stray' = stray
  BY Zenon DEF script, tools, results, endings

LEMMA DriverMoves == [Next]_vars => DriverNext
<1> SUFFICES ASSUME [Next]_vars PROVE DriverNext
  OBVIOUS
<1>1. CASE SetterAsks
  <2>1. Wanted \in Patterns
    BY DEF Wanted, Patterns, MaxPattern, ColorBars
  <2> QED  BY <1>1, <2>1, Zenon DEF SetterAsks, DriverNext
<1>2. CASE \/ \E v \in Patterns : OrphanSets(v)
           \/ BeginStream \/ EndCapture \/ ArgusStarts \/ ArgusEnds \/ Driver
  BY <1>2, Zenon DEF OrphanSets, BeginStream, EndCapture, ArgusStarts, ArgusEnds, Driver,
     DriverNext
<1>3. CASE Script \/ Interrupt
  BY <1>3, Zenon
  DEF Script, Guard, SetPattern, PatternSet, StartCapture, CaptureDone, Compare, Verify,
      Restored, Interrupt, DriverNext
<1>4. CASE UNCHANGED vars
  BY <1>4, Zenon DEF vars, DriverNext
<1> QED
  BY <1>1, <1>2, <1>3, <1>4, Zenon DEF Next, Tools, Finished

(* A step of a call either goes on or returns.                             *)
LEMMA DriverStepEffect ==
    ASSUME DriverStep
    PROVE  /\ call # "none" /\ value' = value /\ msb' \in {msb, 0}
           /\ \/ /\ ~written /\ msb' = 0 /\ lsb' = lsb /\ written'
                 /\ control' = control /\ sensor' = sensor /\ call' = call
                 /\ reply' = reply /\ failed' = failed
              \/ /\ call' = "none" /\ ~written' /\ failed'
                 /\ control' = control /\ lsb' \in {lsb, value}
                 /\ IF call = "set" THEN sensor' = sensor /\ reply' = FALSE
                    ELSE sensor' \in {"streaming", "off"} /\ reply' = reply
              \/ /\ call' = "none" /\ written /\ ~written' /\ ~failed'
                 /\ msb' = msb /\ lsb' = value
                 /\ control' = IF call = "set" THEN value ELSE control
                 /\ IF call = "set" THEN sensor' = sensor /\ reply' = TRUE
                    ELSE sensor' = "streaming" /\ reply' = reply
<1> DEFINE Fails ==
        /\ call' = "none" /\ ~written' /\ failed' /\ value' = value
        /\ control' = control
        /\ IF call = "set" THEN sensor' = sensor /\ reply' = FALSE
           ELSE sensor' \in {"streaming", "off"} /\ reply' = reply
<1> DEFINE Succeeds ==
        /\ call' = "none" /\ ~written' /\ ~failed' /\ value' = value
        /\ control' = IF call = "set" THEN value ELSE control
        /\ IF call = "set" THEN sensor' = sensor /\ reply' = TRUE
           ELSE sensor' = "streaming" /\ reply' = reply
<1>1. Return(FALSE) => Fails
  BY DEF Return
<1>2. Return(TRUE) => Succeeds
  BY DEF Return
<1>3. CASE WriteMsb
  <2>1. CASE /\ msb' = 0 /\ written' = TRUE
             /\ UNCHANGED <<control, sensor, call, value, reply, failed>>
    BY <1>3, <2>1 DEF WriteMsb
  <2>2. CASE Return(FALSE)
    BY <1>1, <1>3, <2>2 DEF WriteMsb
  <2> QED  BY <1>3, <2>1, <2>2, Zenon DEF WriteMsb
<1>4. CASE WriteLsb
  <2>1. CASE lsb' = value /\ Return(TRUE)
    BY <1>2, <1>4, <2>1 DEF WriteLsb
  <2>2. CASE lsb' \in {lsb, value} /\ Return(FALSE)
    BY <1>1, <1>4, <2>2 DEF WriteLsb
  <2> QED  BY <1>4, <2>1, <2>2, Zenon DEF WriteLsb
<1> QED  BY <1>3, <1>4, Zenon DEF DriverStep

(* Values stay integers.                                                   *)
LEMMA DriverTypesStep == DriverTypes /\ DriverNext => DriverTypes'
<1> SUFFICES ASSUME DriverTypes, DriverNext PROVE DriverTypes'
  OBVIOUS
<1> USE DEF DriverTypes
<1>1. CASE \E v \in Patterns : SetControl(v)
  <2>1. PICK v \in Patterns : SetControl(v)
    BY <1>1
  <2>2. v \in Int
    BY DEF Patterns, MaxPattern
  <2>3. control' \in {control, v} /\ value' \in {value, v} /\ msb' = msb /\ lsb' = lsb
    BY <2>1 DEF SetControl
  <2> QED  BY <2>2, <2>3
<1>2. CASE StartStream \/ StopStream \/ UNCHANGED driver
  <2>1. control' = control /\ value' \in {value, control} /\ {msb', lsb'} \subseteq {0, msb, lsb}
    BY <1>2, UnchangedDriver DEF StartStream, StopStream
  <2> QED  BY <2>1
<1>3. CASE DriverStep
  <2>1. /\ control' \in {control, value} /\ value' = value /\ lsb' \in {lsb, value}
        /\ msb' \in {msb, 0}
    BY <1>3, DriverStepEffect
  <2> QED  BY <2>1
<1> QED  BY <1>1, <1>2, <1>3, Zenon DEF DriverNext

(* The registers follow the control: a power-on writes the one that is     *)
(* kept, and a call on a running stream sets it when both bytes are there. *)
LEMMA DriverInvStep == DriverInv /\ DriverNext => DriverInv'
<1> SUFFICES ASSUME DriverInv, DriverNext PROVE DriverInv'
  OBVIOUS
<1> USE DEF DriverInv, Idle
<1>1. CASE \E v \in Patterns : SetControl(v)
  <2>1. PICK v \in Patterns : SetControl(v)
    BY <1>1
  <2>2. /\ sensor' = sensor /\ msb' = msb /\ lsb' = lsb /\ written' = written
        /\ failed' = failed /\ call = "none"
        /\ \/ (sensor = "off" \/ v = control) /\ control' = v /\ call' = call
           \/ sensor # "off" /\ call' = "set" /\ control' = control
    BY <2>1, Zenon DEF SetControl
  <2> QED  BY <2>2
<1>2. CASE StartStream \/ StopStream
  BY <1>2 DEF StartStream, StopStream
<1>3. CASE UNCHANGED driver
  BY <1>3, UnchangedDriver
<1>4. CASE DriverStep
  BY <1>4, DriverStepEffect
<1> QED  BY <1>1, <1>2, <1>3, <1>4, Zenon DEF DriverNext

LEMMA ShownIsControl ==
    ASSUME DriverTypes, DriverInv, sensor = "streaming", Idle, ~failed
    PROVE  Shown = control
<1>1. msb = 0 /\ lsb = control
  BY DEF DriverInv
<1>2. control \in Int
  BY DEF DriverTypes
<1> QED  BY <1>1, <1>2 DEF Shown

(* Nothing but SetControl begins to set the control.                       *)
ControlKept ==
    /\ call' = "set" <=> call = "set"
    /\ call = "set" => value' = value
    /\ control' = control

LEMMA OthersKeepControl ==
    StartStream \/ StopStream \/ UNCHANGED driver => ControlKept
  BY UnchangedDriver DEF StartStream, StopStream, Idle, ControlKept

(* What SetControl and a step of a call do to the control.                 *)
LEMMA ControlSet ==
    ASSUME NEW v, SetControl(v)
    PROVE  /\ call = "none"
           /\ \/ control' = v /\ call' = "none"
              \/ control' = control /\ call' = "set" /\ value' = v
  BY DEF SetControl, Idle

LEMMA ControlReturned ==
    ASSUME DriverStep
    PROVE  /\ value' = value
           /\ call' = call \/ call' = "none"
           /\ call' = call => control' = control
           /\ call # "set" => control' = control
           /\ call = "set" => control' \in {control, value}
           /\ call = "set" /\ call' = "none" /\ reply' => control' = value
           /\ call # "none"
  BY DriverStepEffect

(* What a step that is not the script's leaves alone.                      *)
LEMMA BesideScript ==
    ASSUME ArgusStarts \/ ArgusEnds \/ UNCHANGED vars
    PROVE  UNCHANGED script /\ (StartStream \/ StopStream \/ UNCHANGED driver)
  BY Zenon DEF ArgusStarts, ArgusEnds, vars

(* The control is what the script's last v4l2-ctl has made it, wherever    *)
(* the script relies on that.                                              *)
LEMMA ControlStep == ControlInv /\ [Next]_vars => ControlInv'
<1> SUFFICES ASSUME ControlInv, [Next]_vars PROVE ControlInv'
  OBVIOUS
<1> USE DEF Labels, Waits, Between, Behind, Traps, tools, endings
<1>1. ASSUME at' = at, setter' = setter, orphans' = orphans, UNCHANGED endings, ControlKept
      PROVE  ControlInv'
  BY <1>1 DEF ControlInv, ControlKept, Settled, Wanted
<1>2. CASE Driver
  <2>1. /\ at' = at /\ orphans' = orphans /\ UNCHANGED endings
        /\ setter' = IF setter = "asking" /\ call' = "none"
                       THEN IF reply' THEN "set" ELSE "refused"
                       ELSE setter
    BY <1>2, Zenon DEF Driver
  <2>2. /\ value' = value
        /\ call' = call \/ call' = "none"
        /\ call' = call => control' = control
        /\ call # "set" => control' = control
        /\ call = "set" => control' \in {control, value}
        /\ call = "set" /\ call' = "none" /\ reply' => control' = value
    BY <1>2, ControlReturned DEF Driver
  <2>3. Wanted' = Wanted /\ (at = "in trap" => Wanted = 0)
    BY <2>1 DEF Wanted
  <2>4. Settled => Settled'
    BY <2>1, <2>2 DEF Settled
  <2>5. CASE setter = "asking" /\ call' = "none"
    <3>1. call = "set" /\ value = Wanted /\ at \in Waits
      BY <2>5 DEF ControlInv
    <3>2. setter' \in {"set", "refused"} /\ (setter' = "set" => control' = Wanted)
      BY <2>1, <2>2, <2>5, <3>1
    <3> QED  BY <2>1, <2>3, <2>5, <3>1, <3>2 DEF ControlInv, Settled
  <2>6. CASE setter # "asking" /\ at \notin Traps
    <3>1. setter' = setter /\ call # "set" /\ call' # "set" /\ control' = control
      BY <2>1, <2>2, <2>6 DEF ControlInv
    <3> QED  BY <2>1, <2>3, <2>6, <3>1 DEF ControlInv
  <2>7. CASE setter # "asking" /\ at \in Traps
    <3>1. setter' = setter
      BY <2>1, <2>7
    <3> QED  BY <2>1, <2>3, <2>4, <2>7, <3>1 DEF ControlInv
  <2>8. CASE setter = "asking" /\ call' # "none"
    <3>1. /\ setter' = setter /\ call' = call /\ control' = control
          /\ call = "set" /\ value = Wanted
      BY <2>1, <2>2, <2>8 DEF ControlInv
    <3> QED  BY <2>1, <2>2, <2>3, <2>4, <2>8, <3>1 DEF ControlInv
  <2> QED  BY <2>5, <2>6, <2>7, <2>8
<1>3. CASE SetterAsks
  <2>1. /\ at' = at /\ orphans' = orphans /\ UNCHANGED endings /\ setter = "forked"
        /\ \/ SetControl(Wanted) /\ setter' = IF call' = "none" THEN "set" ELSE "asking"
           \/ setter' = "refused" /\ UNCHANGED driver
    BY <1>3, Zenon DEF SetterAsks
  <2>2. at \in Waits /\ Wanted' = Wanted /\ (at = "in trap" => Wanted = 0)
    BY <2>1 DEF ControlInv, Wanted
  <2>3. CASE setter' = "refused" /\ UNCHANGED driver
    <3>1. call' = call /\ control' = control
      BY <2>3, UnchangedDriver
    <3> QED  BY <2>1, <2>2, <2>3, <3>1 DEF ControlInv
  <2>4. CASE SetControl(Wanted) /\ setter' = IF call' = "none" THEN "set" ELSE "asking"
    <3>1. \/ control' = Wanted /\ call' = "none"
          \/ call' = "set" /\ value' = Wanted
      BY <2>4, ControlSet, Zenon
    <3> QED  BY <2>1, <2>2, <2>4, <3>1 DEF ControlInv, Settled
  <2> QED  BY <2>1, <2>3, <2>4, Zenon
<1>4. CASE \/ SetPattern("disable", "disabling") \/ SetPattern("bars", "setting bars")
           \/ SetPattern("restore", "restoring") \/ SetPattern("trap", "in trap")
  <2>1. /\ call' = call /\ setter' = "forked" /\ orphans' = orphans /\ UNCHANGED endings
        /\ \/ at = "disable" /\ at' = "disabling"
           \/ at = "bars" /\ at' = "setting bars"
           \/ at = "restore" /\ at' = "restoring"
           \/ at = "trap" /\ at' = "in trap"
    BY <1>4, UnchangedDriver DEF SetPattern
  <2> QED  BY <2>1 DEF ControlInv
<1>5. CASE \/ PatternSet("disabling", "capture 1") \/ PatternSet("setting bars", "capture 2")
           \/ Restored("restoring", "verify")
  <2>1. /\ call' = call /\ control' = control /\ setter' = "none" /\ orphans' = orphans
        /\ setter \in {"set", "refused"}
        /\ \/ at = "disabling" /\ setter = "set" /\ at' = "capture 1"
           \/ at = "setting bars" /\ setter = "set" /\ at' = "capture 2"
           \/ at = "restoring" /\ at' = "verify"
           \/ at \in {"disabling", "setting bars"} /\ at' = "trap"
    BY <1>5, UnchangedDriver DEF PatternSet, Restored
  <2> QED  BY <2>1 DEF ControlInv, Wanted
<1>6. CASE BeginStream \/ EndCapture \/ StartCapture("capture 1") \/ StartCapture("capture 2")
           \/ ArgusStarts \/ ArgusEnds \/ UNCHANGED vars
  <2>1. CASE ArgusStarts \/ ArgusEnds \/ UNCHANGED vars
    BY <1>1, <2>1, BesideScript, UnchangedScript, OthersKeepControl, Zenon DEF script
  <2>2. CASE BeginStream \/ EndCapture \/ StartCapture("capture 1") \/ StartCapture("capture 2")
    <3>1. /\ at' = at /\ setter' = setter /\ orphans' = orphans /\ UNCHANGED endings
          /\ StartStream \/ StopStream \/ UNCHANGED driver
      BY <2>2, Zenon DEF BeginStream, EndCapture, StartCapture
    <3> QED  BY <1>1, <3>1, OthersKeepControl
  <2> QED  BY <1>6, <2>1, <2>2
<1>7. CASE \/ CaptureDone("capture 1", "bars") \/ CaptureDone("capture 2", "compare")
           \/ Guard \/ Compare \/ Verify
  <2>1. /\ call' = call /\ control' = control /\ setter' = setter /\ orphans' = orphans
        /\ \/ at = "capture 1" /\ at' = "bars"
           \/ at = "capture 2" /\ at' = "compare"
           \/ at = "guard" /\ at' = "disable"
           \/ at = "compare" /\ at' = "restore"
           \/ at = "verify" /\ control = 0 /\ at' = "passed"
           \/ at \in {"guard", "capture 1", "capture 2", "compare", "verify"} /\ at' = "trap"
    BY <1>7, UnchangedDriver
    DEF CaptureDone, Guard, Compare, Verify, Goto
  <2> QED  BY <2>1 DEF ControlInv
<1>8. CASE Restored("in trap", "failed")
  <2>1. /\ at = "in trap" /\ at' = "failed" /\ setter \in {"set", "refused"}
        /\ setter' = "none" /\ call' = call /\ value' = value /\ control' = control
        /\ stray' = stray /\ unrestored' = (setter = "refused")
    BY <1>8, UnchangedDriver DEF Restored
  <2> QED  BY <2>1 DEF ControlInv, Settled
<1>9. CASE Interrupt
  <2>1. /\ setter' = "none" /\ call' = call /\ value' = value /\ control' = control
        /\ stray' = stray
        /\ \/ at' = "trap"
           \/ at \in {"trap", "in trap"} /\ at' = "failed" /\ cut' = (setter # "set")
    BY <1>9, UnchangedDriver DEF Interrupt
  <2> QED  BY <2>1 DEF ControlInv, Settled
<1>10. CASE \E v \in Patterns : OrphanSets(v)
  <2> PICK v \in Patterns : OrphanSets(v)
    BY <1>10
  <2>1. /\ v \in orphans /\ at' = at /\ setter' = setter /\ call = "none"
        /\ unrestored' = unrestored /\ cut' = cut
        /\ stray' = (stray \/ (v # 0 /\ at # "trap" /\ setter # "forked"))
        /\ \/ control' = v /\ call' = "none"
           \/ control' = control /\ call' = "set" /\ value' = v
    BY ControlSet DEF OrphanSets
  <2>2. at \in Traps /\ setter # "asking"
    BY <2>1 DEF ControlInv
  <2>3. CASE v = 0
    <3>1. Settled => Settled'
      BY <2>1, <2>3 DEF Settled
    <3> QED  BY <2>1, <2>2, <3>1 DEF ControlInv
  <2>4. CASE v # 0 /\ at # "trap" /\ setter # "forked"
    <3>1. Settled'
      BY <2>1, <2>4 DEF Settled
    <3> QED  BY <2>1, <2>2, <3>1 DEF ControlInv
  <2>5. CASE at = "trap" \/ setter = "forked"
    BY <2>1, <2>2, <2>5 DEF ControlInv
  <2> QED  BY <2>3, <2>4, <2>5
<1> QED
  BY <1>2, <1>3, <1>4, <1>5, <1>6, <1>7, <1>8, <1>9, <1>10 DEF Next, Script, Tools, Finished

(* The files.  A capture saves what the sensor shows, and it shows the     *)
(* control unless the last call has failed.                                *)
LEMMA SaveEffect ==
    ASSUME RawTypes, SaveFrame, Shown \in Int
    PROVE  /\ RawTypes'
           /\ raw'[1] = IF at = "capture 1" THEN Shown ELSE raw[1]
           /\ raw'[2] = IF at = "capture 2" THEN Shown ELSE raw[2]
<1>1. CASE at = "capture 1"
  <2>1. raw' = [raw EXCEPT ![1] = Shown]
    BY <1>1, Zenon DEF SaveFrame
  <2>2. RawTypes' /\ raw'[1] = Shown /\ raw'[2] = raw[2]
    BY <2>1 DEF RawTypes
  <2> QED  BY <1>1, <2>2
<1>2. CASE at = "capture 2"
  <2>1. raw' = [raw EXCEPT ![2] = Shown]
    BY <1>2 DEF SaveFrame
  <2>2. RawTypes' /\ raw'[2] = Shown /\ raw'[1] = raw[1]
    BY <2>1 DEF RawTypes
  <2> QED  BY <1>2, <2>2
<1>3. CASE at \notin {"capture 1", "capture 2"}
  BY <1>3 DEF SaveFrame, RawTypes
<1> QED  BY <1>1, <1>2, <1>3

LEMMA FileStep ==
    ASSUME DriverTypes, DriverInv, ControlInv, RawTypes, FileInv, [Next]_vars
    PROVE  RawTypes' /\ FileInv'
<1> USE DEF Labels, Between, Behind, Traps, tools, results, Goto
<1>1. raw' = raw => RawTypes'
  BY Zenon DEF RawTypes
<1>2. CASE EndCapture
  <2>1. /\ capture = "streaming" /\ Idle /\ at' = at
        /\ capture' \in {"saved", "failed"}
        /\ failed => unsynced'
        /\ unsynced => unsynced'
    BY <1>2 DEF EndCapture
  <2>2. CASE sensor = "streaming" /\ capture' = "saved" /\ SaveFrame
    <3>1. Shown \in Int
      BY DEF DriverTypes, Shown
    <3>2. Shown = control \/ unsynced'
      BY <2>1, <2>2, ShownIsControl, Zenon
    <3>3. /\ RawTypes'
          /\ raw'[1] = IF at = "capture 1" THEN Shown ELSE raw[1]
          /\ raw'[2] = IF at = "capture 2" THEN Shown ELSE raw[2]
      BY <2>2, <3>1, SaveEffect, Zenon
    <3> QED  BY <2>1, <2>2, <3>2, <3>3 DEF ControlInv, FileInv
  <2>3. CASE capture' = "failed" /\ raw' = raw
    BY <1>1, <2>1, <2>3 DEF FileInv
  <2> QED  BY <1>2, <2>2, <2>3, Zenon DEF EndCapture
<1>3. SUFFICES ASSUME ~EndCapture, raw' = raw, unsynced' = unsynced PROVE FileInv'
  <2>1. ~EndCapture => raw' = raw /\ unsynced' = unsynced
    BY BesideScript, UnchangedScript, Zenon
    DEF Next, Script, Tools, Guard, SetPattern, PatternSet, StartCapture, CaptureDone, Compare,
        Restored, Verify, Interrupt, SetterAsks, OrphanSets, BeginStream, Driver, Finished,
        results
  <2> QED  BY <1>1, <1>2, <2>1, Zenon
<1>4. CASE \/ SetPattern("disable", "disabling") \/ SetPattern("bars", "setting bars")
           \/ SetPattern("restore", "restoring") \/ SetPattern("trap", "in trap")
           \/ PatternSet("disabling", "capture 1")
           \/ PatternSet("setting bars", "capture 2")
  <2>1. /\ capture' = capture
        /\ \/ at = "disable" /\ at' = "disabling"
           \/ at = "bars" /\ at' = "setting bars"
           \/ at = "restore" /\ at' = "restoring"
           \/ at = "trap" /\ at' = "in trap"
           \/ at = "disabling" /\ at' = "capture 1"
           \/ at = "setting bars" /\ at' = "capture 2"
           \/ at' = "trap"
    BY <1>4 DEF SetPattern, PatternSet
  <2> QED  BY <1>3, <2>1 DEF FileInv
<1>5. CASE StartCapture("capture 1") \/ StartCapture("capture 2") \/ BeginStream
  <2>1. /\ at' = at /\ capture' \in {"forked", "streaming", "failed"}
        /\ at \in {"capture 1", "capture 2"} \/ capture # "none"
    BY <1>5 DEF StartCapture, BeginStream
  <2> QED  BY <1>3, <2>1 DEF FileInv
<1>6. CASE CaptureDone("capture 1", "bars") \/ CaptureDone("capture 2", "compare")
  <2>1. /\ capture' = "none"
        /\ \/ at = "capture 1" /\ capture = "saved" /\ at' = "bars"
           \/ at = "capture 2" /\ capture = "saved" /\ at' = "compare"
           \/ at' = "trap"
    BY <1>6 DEF CaptureDone
  <2> QED  BY <1>3, <2>1 DEF FileInv
<1>7. CASE \/ Guard \/ Compare \/ Verify \/ Interrupt
           \/ Restored("restoring", "verify") \/ Restored("in trap", "failed")
  <2>1. /\ capture' = capture
        /\ \/ at = "guard" /\ at' = "disable"
           \/ at = "compare" /\ at' = "restore"
           \/ at = "verify" /\ at' = "passed"
           \/ at = "restoring" /\ at' = "verify"
           \/ at' \in {"trap", "failed"}
    BY <1>7 DEF Guard, Compare, Verify, Interrupt, Restored, tools
  <2> QED  BY <1>3, <2>1 DEF FileInv
<1>8. CASE \/ Driver \/ SetterAsks \/ \E v \in Patterns : OrphanSets(v)
           \/ ArgusStarts \/ ArgusEnds \/ UNCHANGED vars
  <2>1. at' = at /\ capture' = capture
    BY <1>8, BesideScript, UnchangedScript, Zenon DEF Driver, SetterAsks, OrphanSets
  <2> QED  BY <1>3, <2>1 DEF FileInv
<1> QED
  BY <1>3, <1>4, <1>5, <1>6, <1>7, <1>8, Zenon DEF Next, Script, Tools, Finished

(* The guard.  A session leaves the bypass behind, it does not set it when *)
(* it ends; one that begins behind the guard is late.                      *)
LEMMA GuardStep == FileInv /\ GuardInv /\ [Next]_vars => GuardInv'
<1> SUFFICES ASSUME FileInv, GuardInv, [Next]_vars PROVE GuardInv'
  OBVIOUS
<1> USE DEF Traps, Goto, tools, results
<1> DEFINE HostStays == (bypass' <=> bypass) /\ (argus' <=> argus) /\ (late' <=> late)
<1>1. CASE Guard
  <2>1. HostStays /\ capture' = capture
    BY <1>1, UnchangedHost, Zenon DEF Guard
  <2>2. (guarded' => guarded \/ ~bypass) /\ (guarded => guarded')
    BY <1>1 DEF Guard
  <2>3. Beyond' => guarded'
    BY <1>1 DEF Guard, Beyond
  <2> QED  BY <2>1, <2>2, <2>3, Zenon DEF GuardInv
<1>2. CASE (Script /\ ~Guard) \/ Tools \/ Interrupt \/ Driver
  <2> USE DEF Script, Tools, SetterAsks, OrphanSets, BeginStream, EndCapture, Interrupt,
          Driver, SetPattern, PatternSet, StartCapture, CaptureDone, Compare, Restored, Verify
  <2>1. HostStays
    BY <1>2, UnchangedHost, Zenon
  <2>2. guarded' = guarded
    BY <1>2, Zenon
  <2>3. guarded' <=> guarded
    BY <2>2
  <2>4. Beyond' => Beyond
    BY <1>2 DEF Beyond, Ended
  <2>5. capture' = "none" \/ capture' = capture \/ capture # "none" \/ Beyond
    BY <1>2 DEF Beyond
  <2> QED  BY <2>1, <2>3, <2>4, <2>5, Zenon DEF GuardInv
<1> DEFINE ScriptStays ==
        (guarded' <=> guarded) /\ (Beyond' <=> Beyond) /\ capture' = capture
<1>3. ASSUME ArgusStarts \/ ArgusEnds \/ UNCHANGED vars PROVE ScriptStays
  <2>1. guarded' = guarded /\ at' = at /\ capture' = capture
    BY <1>3, BesideScript, UnchangedScript, Zenon
  <2> QED  BY <2>1 DEF Beyond
<1>4. CASE ArgusStarts
  <2>1. argus' /\ bypass' /\ (late' <=> late \/ guarded)
    BY <1>4 DEF ArgusStarts
  <2> QED  BY <1>3, <1>4, <2>1, Zenon DEF GuardInv
<1>5. CASE ArgusEnds
  <2>1. argus /\ ~argus' /\ (late' <=> late)
    BY <1>5 DEF ArgusEnds
  <2> QED  BY <1>3, <1>5, <2>1, Zenon DEF GuardInv
<1>6. CASE UNCHANGED vars
  <2>1. HostStays
    BY <1>6, UnchangedHost, Zenon DEF vars
  <2> QED  BY <1>3, <1>6, <2>1, Zenon DEF GuardInv
<1> QED  BY <1>1, <1>2, <1>4, <1>5, <1>6, Zenon DEF Next, Finished
-----------------------------------------------------------------------------
(* The invariant, for any number of sessions and of failing writes.        *)
LEMMA ScriptInvariant == Spec => []IInv
<1>1. Init => IInv
  <2> SUFFICES ASSUME Init PROVE IInv
    OBVIOUS
  <2>1. DriverTypes
    BY DEF Init, DriverInit, DriverTypes
  <2>2. DriverInv
    BY DEF Init, DriverInit, DriverInv
  <2>3. ControlInv
    BY DEF Init, DriverInit, ControlInv, Labels, Waits, Behind, Between, Traps
  <2>4. RawTypes
    <3>1. raw = <<NoFrame, NoFrame>> /\ NoFrame \in Int
      BY DEF Init, NoFrame
    <3> QED  BY <3>1 DEF RawTypes
  <2>5. FileInv
    BY DEF Init, FileInv, Behind, Between
  <2>6. GuardInv
    BY DEF Init, GuardInv, Beyond
  <2> QED  BY <2>1, <2>2, <2>3, <2>4, <2>5, <2>6 DEF IInv
<1>2. IInv /\ [Next]_vars => IInv'
  BY DriverMoves, DriverTypesStep, DriverInvStep, ControlStep, FileStep, GuardStep, Zenon
  DEF IInv
<1> QED  BY <1>1, <1>2, PTL DEF Spec

(* The driver's promise: a stream that has begun and whose last write      *)
(* succeeded shows the pattern of the control, also one set before the     *)
(* power came on.                                                          *)
THEOREM StreamShowsControlHolds == Spec => []StreamShowsControl
<1>1. IInv => StreamShowsControl
  BY ShownIsControl, Zenon DEF IInv, StreamShowsControl
<1> QED  BY <1>1, ScriptInvariant, PTL

(* "Stage 3 acceptance passed": the first file holds no pattern, the       *)
(* second Color Bars, and the pattern is disabled.                         *)
THEOREM PassMeansBarsHolds == Spec => []PassMeansBars
<1>1. IInv => PassMeansBars
  <2> SUFFICES ASSUME IInv, at = "passed"
               PROVE  control = 0 /\ (raw = <<0, ColorBars>> \/ unsynced)
    BY Zenon DEF PassMeansBars
  <2>1. control = 0 /\ (unsynced \/ (raw[1] = 0 /\ raw[2] = ColorBars))
    BY DEF IInv, ControlInv, FileInv, Behind
  <2>2. raw[1] = 0 /\ raw[2] = ColorBars => raw = <<0, ColorBars>>
    BY DEF IInv, RawTypes
  <2> QED  BY <2>1, <2>2
<1> QED  BY <1>1, ScriptInvariant, PTL

(* However the script ends, and wherever its signals arrive, the pattern   *)
(* is disabled, unless the v4l2-ctl of the trap failed, a second signal    *)
(* came before it was done, or the orphan of Color Bars came after it.     *)
THEOREM PatternRestoredHolds == Spec => []PatternRestored
<1>1. IInv => PatternRestored
  BY DEF IInv, ControlInv, Settled, PatternRestored, Ended
<1> QED  BY <1>1, ScriptInvariant, PTL

(* A capture on a bypassed sensor met a session that began behind the      *)
(* guard's look.                                                           *)
THEOREM BypassTakesLateSessionHolds == Spec => []BypassTakesLateSession
<1>1. IInv => BypassTakesLateSession
  BY DEF IInv, GuardInv, BypassTakesLateSession
<1> QED  BY <1>1, ScriptInvariant, PTL
=============================================================================
