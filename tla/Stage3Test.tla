----------------------------- MODULE Stage3Test -----------------------------
(***************************************************************************)
(* The acceptance script scripts/test-stage3.sh on the patched driver: the *)
(* guard against an Argus session's bypass_mode and override_enable, one   *)
(* capture without a pattern and one with Color Bars, the comparison, and  *)
(* the trap that disables the pattern again.  set -e and pipefail end the  *)
(* script at the first command that fails.                                 *)
(*                                                                         *)
(* External: the capture tool saves one frame of its stream, or fails;     *)
(* with the two controls at 1 its first frame never comes                  *)
(* (stage3-driver-device-tree.md:111-113).  Argus sets them while it has   *)
(* the camera, and leaves them behind if its session ends abnormally.      *)
(***************************************************************************)
EXTENDS TestPattern

CONSTANT MaxSessions   \* bound: Argus sessions

ASSUME Stage3TestAssumption == MaxSessions \in Nat

ColorBars == 2
NoFrame == -1

VARIABLES
    at,         \* the script's next command
    setter,     \* the v4l2-ctl --set-ctrl it waits for: "none", "forked",
                \* "asking", "set" or "refused"
    orphans,    \* the patterns v4l2-ctls still have to set that have lost
                \* their script before their VIDIOC_S_CTRL
    capture,    \* the capture tool: "none", "forked", "streaming", "saved",
                \* "failed"
    raw,        \* the pattern in the file of each capture
    guarded,    \* the guard has passed
    bypass,     \* bypass_mode and override_enable
    argus,      \* an Argus session has the camera
    sessions,   \* history: Argus sessions so far
    late,       \* history: one of them began after the guard
    unrestored, \* history: the trap's v4l2-ctl failed
    cut,        \* history: a signal ended the script before the trap's
                \* v4l2-ctl was done
    stray,      \* history: an orphan has set a pattern behind the trap's
                \* v4l2-ctl
    unsynced    \* history: a capture ended on a stream whose synchronisation failed

tools == <<setter, orphans, capture>>
results == <<raw, guarded, unsynced>>
endings == <<unrestored, cut, stray>>
script == <<at, tools, results, endings>>
host == <<bypass, argus, sessions, late>>
vars == <<driver, script, host>>

Init ==
    /\ DriverInit
    /\ at = "guard" /\ setter = "none" /\ orphans = {} /\ capture = "none"
    /\ raw = <<NoFrame, NoFrame>> /\ guarded = FALSE /\ unsynced = FALSE
    /\ unrestored = FALSE /\ cut = FALSE /\ stray = FALSE
    /\ bypass = FALSE /\ argus = FALSE /\ sessions = 0 /\ late = FALSE

Ended == at \in {"passed", "failed"}

Goto(label) == at' = label /\ UNCHANGED <<tools, results, endings>>
-----------------------------------------------------------------------------
\* mistake: the state is only recorded
GuardLogs ==
    /\ at = "guard"
    /\ at' = "disable" /\ guarded' = TRUE
    /\ UNCHANGED <<driver, host, tools, raw, unsynced, endings>>

\* neither control may be 1: else exit 3, through the trap, where a test or
\* a v4l2-ctl that fails before it leads as well
Guard ==
    /\ at = "guard"
    /\ \/ ~bypass /\ at' = "disable" /\ guarded' = TRUE /\ UNCHANGED <<raw, unsynced>>
       \/ at' = "trap" /\ UNCHANGED results
    /\ UNCHANGED <<driver, host, tools, endings>>

\* v4l2-ctl --set-ctrl=test_pattern is forked here, the script waits at busy;
SetPattern(here, busy) ==
    /\ at = here
    /\ at' = busy /\ setter' = "forked"
    /\ UNCHANGED <<driver, host, orphans, capture, results, endings>>

Wanted == IF at = "setting bars" THEN ColorBars ELSE 0

\* it makes its VIDIOC_S_CTRL, or fails before that;
SetterAsks ==
    /\ setter = "forked"
    /\ \/ SetControl(Wanted) /\ setter' = IF call' = "none" THEN "set" ELSE "asking"
       \/ setter' = "refused" /\ UNCHANGED driver
    /\ UNCHANGED <<at, orphans, capture, results, endings, host>>

\* the driver goes on with a call, and answers it.
Driver ==
    /\ DriverStep
    /\ setter' = IF setter = "asking" /\ call' = "none"
                   THEN IF reply' THEN "set" ELSE "refused"
                   ELSE setter
    /\ UNCHANGED <<at, orphans, capture, results, endings, host>>

PatternSet(busy, next) ==
    /\ at = busy /\ setter \in {"set", "refused"}
    /\ setter' = "none"
    /\ at' = IF setter = "set" THEN next ELSE "trap"
    /\ UNCHANGED <<driver, host, orphans, capture, results, endings>>

\* jetcam-raw-test is forked
StartCapture(here) ==
    /\ at = here /\ capture = "none"
    /\ capture' = "forked"
    /\ UNCHANGED <<driver, at, setter, orphans, results, endings, host>>

\* another session's device is busy; STREAMON may fail
BeginStream ==
    /\ capture = "forked"
    /\ \/ StartStream /\ capture' = "streaming"
       \/ capture' = "failed" /\ UNCHANGED driver
    /\ UNCHANGED <<at, setter, orphans, results, endings, host>>

\* the frame goes to the file the script has named
SaveFrame ==
    raw' = IF at = "capture 1" THEN [raw EXCEPT ![1] = Shown]
           ELSE IF at = "capture 2" THEN [raw EXCEPT ![2] = Shown] ELSE raw

\* It saves a frame, or times out or fails, and stops the stream.  It goes on
\* to its end when the script has been killed in front of it.
EndCapture ==
    /\ capture = "streaming" /\ Idle
    /\ IF sensor = "streaming" /\ ~argus THEN StopStream ELSE UNCHANGED driver
    /\ \/ /\ sensor = "streaming" /\ ~argus /\ ~bypass
          /\ capture' = "saved" /\ SaveFrame
       \/ capture' = "failed" /\ UNCHANGED raw
    /\ unsynced' = (unsynced \/ failed)
    /\ UNCHANGED <<at, setter, orphans, guarded, endings, host>>

CaptureDone(here, next) ==
    /\ at = here /\ capture \in {"saved", "failed"}
    /\ capture' = "none"
    /\ at' = IF capture = "saved" THEN next ELSE "trap"
    /\ UNCHANGED <<driver, host, setter, orphans, results, endings>>

\* sizes and cmp; two frames of one pattern may differ all the same
Compare ==
    /\ at = "compare"
    /\ Goto("restore") \/ Goto("trap")
    /\ UNCHANGED <<driver, host>>

\* --get-ctrl, grep Disabled, the checksums; the EXIT trap has nothing left
\* to do
Verify ==
    /\ at = "verify"
    /\ \/ control = 0 /\ Goto("passed")
       \/ Goto("trap")
    /\ UNCHANGED <<driver, host>>

\* restore_control: what it meets is ignored
Restored(busy, next) ==
    /\ at = busy /\ setter \in {"set", "refused"}
    /\ setter' = "none"
    /\ at' = next
    /\ unrestored' = (setter = "refused")
    /\ UNCHANGED <<driver, host, orphans, capture, results, cut, stray>>

\* mistake: the trap is set for ERR only
InterruptNoTrap ==
    /\ ~Ended /\ at \notin {"trap", "in trap"}
    /\ at' = "failed" /\ setter' = "none"
    /\ UNCHANGED <<driver, host, orphans, capture, results, endings>>

\* A signal ends the script: it goes to the EXIT trap, and from there straight
\* to its end.  Ctrl-C ends the tool in front of it first; SIGTERM leaves the
\* tool behind, before, in or after its call of the driver.
Interrupt ==
    /\ ~Ended
    /\ \/ at \notin {"trap", "in trap"} /\ at' = "trap" /\ UNCHANGED cut
       \/ at \in {"trap", "in trap"} /\ at' = "failed" /\ cut' = (setter # "set")
    /\ setter' = "none"
    /\ \/ UNCHANGED orphans
       \/ setter = "forked" /\ orphans' = orphans \cup {Wanted}
    /\ UNCHANGED <<driver, host, capture, results, unrestored, stray>>

OrphanSets(v) ==
    /\ v \in orphans
    /\ SetControl(v)
    /\ orphans' = orphans \ {v}
    /\ stray' = (stray \/ (v # 0 /\ at # "trap" /\ setter # "forked"))
    /\ UNCHANGED <<at, setter, capture, results, unrestored, cut, host>>

Script ==
    \/ Guard
    \/ SetPattern("disable", "disabling") \/ PatternSet("disabling", "capture 1")
    \/ StartCapture("capture 1") \/ CaptureDone("capture 1", "bars")
    \/ SetPattern("bars", "setting bars") \/ PatternSet("setting bars", "capture 2")
    \/ StartCapture("capture 2") \/ CaptureDone("capture 2", "compare")
    \/ Compare
    \/ SetPattern("restore", "restoring") \/ Restored("restoring", "verify")
    \/ Verify
    \/ SetPattern("trap", "in trap") \/ Restored("in trap", "failed")

Tools ==
    \/ SetterAsks \/ \E v \in Patterns : OrphanSets(v)
    \/ BeginStream \/ EndCapture
-----------------------------------------------------------------------------
(* Argus. *)

ArgusStarts ==
    /\ ~argus /\ sensor = "off" /\ Idle /\ sessions < MaxSessions
    /\ argus' = TRUE /\ bypass' = TRUE
    /\ sessions' = sessions + 1 /\ late' = (late \/ guarded)
    /\ StartStream
    /\ UNCHANGED script

ArgusEnds ==
    /\ argus
    /\ argus' = FALSE /\ bypass' \in BOOLEAN
    /\ IF sensor = "streaming" THEN StopStream ELSE sensor = "off" /\ UNCHANGED driver
    /\ UNCHANGED <<script, sessions, late>>

Finished == Ended /\ UNCHANGED vars

Next == Script \/ Tools \/ Interrupt \/ Driver \/ ArgusStarts \/ ArgusEnds \/ Finished

Spec == Init /\ [][Next]_vars
-----------------------------------------------------------------------------
\* "Stage 3 acceptance passed" means that the control is Disabled again, and
\* that the first file was taken without a pattern and the second with Color
\* Bars, which cmp alone does not show: two live frames differ.  The exception
\* is a driver that streams after its synchronisation has failed.
PassMeansBars ==
    at = "passed" => control = 0 /\ (raw = <<0, ColorBars>> \/ unsynced)

\* However the script ends, and at whichever command or tool of it a signal
\* arrives, the pattern is Disabled and stays so, with three exceptions: the
\* trap's own v4l2-ctl failed, a second signal ended the script before that
\* v4l2-ctl was done, or the v4l2-ctl of Color Bars, forked before the signal
\* and left behind, made its call after the trap's.
PatternRestored == Ended => control = 0 \/ unrestored \/ cut \/ stray

\* A capture streams with the bypass left over from Argus only if the session
\* began after the guard has looked (stage3-driver-device-tree.md:113).
BypassTakesLateSession ==
    capture = "streaming" /\ bypass => late
=============================================================================
