----------------------------- MODULE TestPattern -----------------------------
(***************************************************************************)
(* The test-pattern control that driver/patches/0001 adds to the IMX219    *)
(* driver: imx219_set_test_pattern writes a 16-bit register as two bytes,  *)
(* and the control is in the list tegracam writes again when a stream      *)
(* starts.  External, as the patch relies on them: V4L2 keeps the value of *)
(* a control whose driver call has succeeded and no other; without power   *)
(* the value is only kept; power-on resets the registers; calls into the   *)
(* driver are serialised; a write that reports an error may have been made.*)
(***************************************************************************)
EXTENDS Integers

CONSTANT WriteFaults   \* whether register writes may fail

ASSUME TestPatternAssumption == WriteFaults \in BOOLEAN

MaxPattern == 4        \* IMX219_TEST_PATTERN_MAX
Patterns == 0 .. MaxPattern

VARIABLES
    control,   \* the value of V4L2_CID_TEST_PATTERN
    sensor,    \* "off", "on", "streaming"
    msb, lsb,  \* registers 0x0600 and 0x0601
    call,      \* the driver call at work: "none", "set", "sync"
    value,     \* its val
    written,   \* it has written the first byte
    reply,     \* the last VIDIOC_S_CTRL has succeeded
    failed     \* history: the last call to have written anything failed

driver == <<control, sensor, msb, lsb, call, value, written, reply, failed>>

DriverInit ==
    /\ control = 0 /\ sensor = "off" /\ msb = 0 /\ lsb = 0
    /\ call = "none" /\ value = 0 /\ written = FALSE
    /\ reply = TRUE /\ failed = FALSE

Idle == call = "none"

\* VIDIOC_S_CTRL, of one of the menu's patterns; a value the control has
\* already may not reach the driver
SetControl(v) ==
    /\ Idle
    /\ \/ /\ sensor = "off" \/ v = control
          /\ control' = v /\ reply' = TRUE
          /\ UNCHANGED <<call, value>>
       \/ /\ sensor # "off"
          /\ call' = "set" /\ value' = v
          /\ UNCHANGED <<control, reply>>
    /\ UNCHANGED <<sensor, msb, lsb, written, failed>>

\* mistake: the control is not in tegracam_sync_cids
StartStreamUnsynced ==
    /\ Idle /\ sensor = "off"
    /\ sensor' = "streaming" /\ msb' = 0 /\ lsb' = 0 /\ failed' = FALSE
    /\ UNCHANGED <<control, call, value, written, reply>>

\* power-on, and the controls of tegracam_sync_cids
StartStream ==
    /\ Idle /\ sensor = "off"
    /\ sensor' = "on" /\ msb' = 0 /\ lsb' = 0
    /\ call' = "sync" /\ value' = control
    /\ UNCHANGED <<control, written, reply, failed>>

StopStream ==
    /\ Idle /\ sensor = "streaming"
    /\ sensor' = "off"
    /\ UNCHANGED <<control, msb, lsb, call, value, written, reply, failed>>

\* the call returns; a stream that cannot be synchronised may start or not
Return(ok) ==
    /\ call' = "none" /\ written' = FALSE /\ failed' = ~ok
    /\ control' = IF ok /\ call = "set" THEN value ELSE control
    /\ IF call = "set" THEN sensor' = sensor /\ reply' = ok
       ELSE /\ sensor' = "streaming" \/ (~ok /\ sensor' = "off")
            /\ reply' = reply
    /\ UNCHANGED value

WriteMsb ==
    /\ call # "none" /\ ~written
    /\ \/ /\ msb' = 0 /\ written' = TRUE
          /\ UNCHANGED <<control, sensor, call, value, reply, failed>>
       \/ WriteFaults /\ msb' \in {msb, 0} /\ Return(FALSE)
    /\ UNCHANGED lsb

\* mistake: the error of the second write is not returned
WriteLsbUnchecked ==
    /\ call # "none" /\ written
    /\ \/ lsb' = value
       \/ WriteFaults /\ lsb' \in {lsb, value}
    /\ Return(TRUE)
    /\ UNCHANGED msb

WriteLsb ==
    /\ call # "none" /\ written
    /\ \/ lsb' = value /\ Return(TRUE)
       \/ WriteFaults /\ lsb' \in {lsb, value} /\ Return(FALSE)
    /\ UNCHANGED msb

DriverStep == WriteMsb \/ WriteLsb

\* what the sensor puts into a frame
Shown == 256 * msb + lsb
-----------------------------------------------------------------------------
\* A streaming sensor shows the control's pattern as soon as no call is at
\* work, also when the control was set before power-on; only a write that has
\* failed, and was reported, leaves it with another.
StreamShowsControl ==
    sensor = "streaming" /\ Idle /\ ~failed => Shown = control
=============================================================================
