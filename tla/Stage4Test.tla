----------------------------- MODULE Stage4Test -----------------------------
(***************************************************************************)
(* The acceptance script scripts/test-stage4.sh over the service it tests. *)
(* For each mode it starts jetcamd in the background, waits, looks whether *)
(* it is alive, runs a client, looks again, stops it with SIGINT, waits    *)
(* for it and checks the logs.  set -e ends the script at the first        *)
(* command that fails; the trap on EXIT, INT and TERM stops a service that *)
(* is still there.  The service is a CameraService, whichever mode it is.  *)
(*                                                                         *)
(* External, as the script relies on them: a shell runs a trap when the    *)
(* command in the foreground has ended, except that a signal ends `wait';  *)
(* Ctrl-C reaches the script, the sleep or check in front of it and the    *)
(* service, but not the client, which timeout puts into a group of its     *)
(* own; a background command ignores SIGINT until it asks for it.          *)
(***************************************************************************)
EXTENDS CameraService, Sequences

CONSTANTS
    Modes,         \* services started one after the other
    MaxInterrupts  \* bound: Ctrl-C and SIGTERM from outside

ASSUME Stage4TestAssumption == Modes \in Nat \ {0} /\ MaxInterrupts \in Nat

VARIABLES
    at,        \* the script's next command
    back,      \* where the script goes on after a cleanup
    active,    \* active_pid is set
    pending,   \* a trapped signal waits for its handler
    broken,    \* the command in front was ended by Ctrl-C
    ignored,   \* history: a SIGINT came before the service asked for it
    statuses,  \* history: statuses of the services that were waited for
    interrupts \* history: signals from outside

script == <<at, back, active, pending, broken, ignored, statuses, interrupts>>
allVars == <<vars, script>>

Sleeps == {"settle", "pause"}
Waits == {"wait", "cleanup wait"}
Cleanup == {"cleanup", "cleanup kill", "cleanup wait", "cleanup done"}
Ended == at \in {"passed", "failed"}

TestInit ==
    /\ Init
    /\ at = "launch" /\ back = "none"
    /\ active = FALSE /\ pending = FALSE /\ broken = FALSE /\ ignored = FALSE
    /\ statuses = <<>> /\ interrupts = 0

\* the next command, when no handler is due
Command(label) == at = label /\ ~pending
Step(label) == at' = label /\ UNCHANGED <<back, pending, interrupts>>
Idle == UNCHANGED <<vars, active, broken, ignored, statuses>>

\* a command fails: set -e, and the EXIT trap
Fail == at' = "cleanup" /\ back' = "failed" /\ UNCHANGED <<pending, interrupts>>

\* SIGINT from the script or the terminal: ignored, caught, or deadly
SigintToService ==
    /\ IF exit = NoExit /\ listening
         THEN Stop("SIGINT") \/ ("SIGINT" \in stops /\ Die("SIGINT"))
         ELSE UNCHANGED vars
    /\ ignored' = (ignored \/ (exit = NoExit /\ ~listening))
-----------------------------------------------------------------------------
\* "$binary" ... &
Launch ==
    /\ Command("launch")
    /\ Step("settle")
    /\ active' = TRUE
    /\ listening' = FALSE /\ stops' = {} /\ exit' = NoExit /\ UNCHANGED camera
    /\ ignored' = FALSE
    /\ UNCHANGED <<broken, statuses>>

\* sleep; kill -0
Sleep(here, next) ==
    /\ at = here /\ ~broken
    /\ Step(next)
    /\ Idle

CheckAlive(here, next) ==
    /\ Command(here)
    /\ IF exit = NoExit THEN Step(next) ELSE Fail
    /\ Idle

\* the client under set +e: 0 and 124 go on, any other status is a failure
Client ==
    /\ at = "client"
    /\ Step("pause") \/ Fail
    /\ Idle

StopService ==
    /\ Command("stop")
    /\ IF exit = NoExit THEN Step("wait") ELSE Fail
    /\ SigintToService
    /\ UNCHANGED <<active, broken, statuses>>

WaitForService ==
    /\ Command("wait")
    /\ exit # NoExit
    /\ IF exit = 0 THEN Step("clear") ELSE Fail
    /\ statuses' = Append(statuses, exit)
    /\ UNCHANGED <<vars, active, broken, ignored>>

\* active_pid=
ClearPid ==
    /\ Command("clear")
    /\ Step("checks")
    /\ active' = FALSE
    /\ UNCHANGED <<vars, broken, ignored, statuses>>

\* greps and tests on the logs and the snapshot; then the next mode
Check ==
    /\ at = "checks"
    /\ \/ Fail
       \/ ~broken /\ Step(IF Len(statuses) < Modes THEN "launch" ELSE "passed")
    /\ Idle
-----------------------------------------------------------------------------
(* The trap. *)

\* mistake: the handler ends the script, with the status of its last command
AfterExits == {"passed"}

\* The handler does not exit: behind it the script goes on, unless the command
\* that the signal has ended fails it.
After ==
    IF broken THEN {"cleanup failed"}
    ELSE IF at = "wait" THEN {"wait", "cleanup failed"}
    ELSE IF at \in Cleanup THEN {back}
    ELSE {at}

\* A handler runs between two commands, after one that Ctrl-C has ended, and
\* instead of what is left of a wait.
Trap ==
    /\ pending /\ ~Ended
    /\ pending' = FALSE /\ broken' = FALSE
    /\ at' = "cleanup" /\ back' \in After
    /\ UNCHANGED <<vars, active, ignored, statuses, interrupts>>

\* mistake: active_pid is not looked up
CleanupCheckSkips ==
    /\ Command("cleanup")
    /\ Step("cleanup done")
    /\ Idle

CleanupCheck ==
    /\ Command("cleanup")
    /\ Step(IF active /\ exit = NoExit THEN "cleanup kill" ELSE "cleanup done")
    /\ Idle

\* mistake: the trap only waits
CleanupKillNothing ==
    /\ Command("cleanup kill")
    /\ Step("cleanup wait")
    /\ Idle

\* mistake: the trap does not give the service the time to clean up
CleanupKillHard ==
    /\ Command("cleanup kill")
    /\ Step("cleanup wait")
    /\ exit' = Killed /\ listening' = FALSE
    /\ camera' = IF camera = "held" THEN "abandoned" ELSE camera
    /\ UNCHANGED <<stops, active, broken, ignored, statuses>>

CleanupKill ==
    /\ Command("cleanup kill")
    /\ Step("cleanup wait")
    /\ SigintToService
    /\ UNCHANGED <<active, broken, statuses>>

CleanupWait ==
    /\ Command("cleanup wait")
    /\ exit # NoExit
    /\ Step("cleanup done")
    /\ Idle

\* back to the script; a failed command comes to the EXIT trap
CleanupDone ==
    /\ Command("cleanup done")
    /\ IF back = "cleanup failed" THEN Fail ELSE Step(back)
    /\ Idle

Script ==
    \/ Launch \/ Sleep("settle", "alive") \/ CheckAlive("alive", "client") \/ Client
    \/ Sleep("pause", "alive again") \/ CheckAlive("alive again", "stop")
    \/ StopService \/ WaitForService \/ ClearPid \/ Check
    \/ Trap \/ CleanupCheck \/ CleanupKill \/ CleanupWait \/ CleanupDone
-----------------------------------------------------------------------------
(* From outside. *)

Interrupt ==
    /\ ~Ended /\ interrupts < MaxInterrupts
    /\ interrupts' = interrupts + 1
    /\ pending' = TRUE
    /\ UNCHANGED <<at, back, active, statuses>>

CtrlC ==
    /\ Interrupt
    /\ IF at \in Sleeps THEN broken' = TRUE
       ELSE IF at = "checks" THEN broken' \in BOOLEAN ELSE UNCHANGED broken
    /\ IF active THEN SigintToService ELSE UNCHANGED <<vars, ignored>>

Terminate == Interrupt /\ UNCHANGED <<vars, broken, ignored>>

\* the service by itself; what asks it to end is a signal or its pipeline
ServiceActs == active /\ Act /\ UNCHANGED script

Finished == Ended /\ UNCHANGED allVars

TestNext == Script \/ CtrlC \/ Terminate \/ ServiceActs \/ Finished

TestSpec == TestInit /\ [][TestNext]_allVars
-----------------------------------------------------------------------------
\* A service ends when asked: StopEnds and ServiceEnds of the two modes.
Asked == stops # {}
Fairness ==
    /\ WF_allVars(Script)
    /\ WF_allVars(ServiceActs /\ Asked /\ GiveBack)
    /\ SF_allVars(ServiceActs /\ Asked /\ Exit(0))

FairTestSpec == TestSpec /\ Fairness
-----------------------------------------------------------------------------
\* STAGE4_RESULT=PASS means that every service ran until the script stopped it
\* and exited with 0, and that the camera is free, although the trap of INT and
\* TERM lets the script go on.
PassIsEarned ==
    at = "passed" => statuses = [m \in 1 .. Modes |-> 0] /\ camera = "free"

\* However the script ends, no service is left behind.
NoServiceLeft == Ended => exit # NoExit

\* The script by itself never makes a service abandon the camera, even where a
\* step fails and the trap stops it; it takes a signal from outside, whose
\* handler sends the second SIGINT, or a start that fails.
AbandonedNeedsInterrupt == camera = "abandoned" => interrupts > 0 \/ exit = 1

\* The script ends; what it can wait for without end is a service that was
\* sent SIGINT when it still ignored it.
EndsUnlessIgnored == <>Ended \/ <>[](at \in Waits /\ ignored)
=============================================================================
