-------------------------- MODULE Stage4TestProofs --------------------------
(***************************************************************************)
(* Proofs about Stage4Test for any number of modes and of signals from     *)
(* outside.  The script may be anywhere when its trap runs, and goes on    *)
(* there, so what holds at a command must hold throughout a cleanup that   *)
(* will return to it: In(labels) says that the script is at one of these   *)
(* commands or comes back to it.                                           *)
(***************************************************************************)
EXTENDS Stage4Test, TLAPS

Running == {"settle", "alive", "client", "pause", "alive again", "stop", "wait"}
Before == Running \cup {"launch"}
Behind == {"clear", "checks", "passed"}
Broke == {"failed", "cleanup failed"}
Places == Before \cup Behind \cup Broke

In(labels) == at \in labels \/ (at \in Cleanup /\ back \in labels)

(* Where the script can be, and what it counts. *)
ScriptTypes == In(Places) /\ at # "cleanup failed"

ListTypes == statuses \in Seq(Int) /\ interrupts \in Nat

(* The camera is held by a living process only, and abandoned by one that  *)
(* failed to start or was killed.                                          *)
CameraInv ==
    /\ exit \in Int
    /\ camera \in {"free", "held", "abandoned"}
    /\ camera = "held" => exit = NoExit
    /\ camera = "abandoned" => exit \in {1, Killed}

(* What the script knows of the service: a process it has started and not  *)
(* waited for is in active_pid, so that every cleanup finds it.            *)
PlaceInv ==
    /\ broken => pending /\ In(Sleeps \cup {"checks"} \cup Broke)
    /\ In(Running) => active
    /\ In({"launch", "checks", "passed"}) => ~active
    /\ exit = NoExit => active \/ (In({"launch"}) /\ statuses = <<>>)
    /\ In(Behind) => exit = 0
    /\ In({"launch"}) => camera = "free"
    /\ at = "cleanup done" => exit # NoExit \/ back = "launch"
    /\ at = "failed" => exit # NoExit

(* One status for each service that was waited for; all are 0 as long as   *)
(* nothing has failed.                                                     *)
AllZero == \A m \in 1 .. Len(statuses) : statuses[m] = 0
More == Len(statuses) < Modes
Within == Len(statuses) <= Modes
Complete == Len(statuses) = Modes

StatusInv ==
    /\ ~In(Broke) => AllZero
    /\ In(Before) => More
    /\ In(Behind) => Within
    /\ In({"passed"}) => Complete

(* Before the first signal from outside the trap runs at most once, at the *)
(* end, and at most one SIGINT has been sent to a service that still lives.*)
Quiet == interrupts = 0

QuietInv ==
    Quiet =>
        /\ ~pending
        /\ at \in Cleanup => back = "failed"
        /\ exit = NoExit /\ "SIGINT" \in stops => at \in Waits
        /\ camera = "abandoned" => exit = 1

IInv == ScriptTypes /\ ListTypes /\ CameraInv /\ PlaceInv /\ StatusInv /\ QuietInv
-----------------------------------------------------------------------------
LEMMA Codes == 0 # NoExit /\ 1 # NoExit /\ Killed # NoExit /\ Killed # 0 /\ Killed # 1
  BY DEF NoExit, Killed

(* A SIGINT to the service is without effect, caught, or the second and    *)
(* then the end of it.                                                     *)
LEMMA SigintEffect ==
    ASSUME SigintToService
    PROVE  /\ \/ UNCHANGED <<camera, exit, stops>>
              \/ /\ exit = NoExit /\ stops' = stops \cup {"SIGINT"}
                 /\ UNCHANGED <<camera, exit>>
              \/ /\ exit = NoExit /\ "SIGINT" \in stops /\ exit' = Killed
                 /\ camera' = IF camera = "held" THEN "abandoned" ELSE camera
           /\ exit # NoExit => exit' = exit
           /\ camera = "free" => camera' = "free"
  BY DEF SigintToService, Stop, Die, vars

(* What the service does by itself concerns the camera and its exit.       *)
LEMMA ActEffect ==
    ASSUME Act
    PROVE  /\ exit = NoExit /\ stops' = stops
           /\ \/ exit' = NoExit /\ camera' \in {"free", "held"}
              \/ exit' = NoExit /\ camera' = camera
              \/ exit' = 1 /\ camera' = "abandoned"
              \/ exit' \in {0, 1, 3} /\ camera = "free" /\ camera' = "free"
  BY DEF Act, Listen, Claim, GiveBack, FailedStart, Exit, Alive, Statuses

(* A signal from outside interrupts a command, it does not move the script.*)
LEMMA OutsideEffect ==
    ASSUME CtrlC \/ Terminate
    PROVE  /\ at' = at /\ back' = back /\ active' = active /\ statuses' = statuses
           /\ interrupts' = interrupts + 1 /\ pending' = TRUE
           /\ SigintToService \/ UNCHANGED <<camera, exit, stops>>
           /\ broken' => broken \/ at \in Sleeps \cup {"checks"}
<1>1. Interrupt
  BY DEF CtrlC, Terminate
<1>2. broken' => broken \/ at \in Sleeps \cup {"checks"}
  BY Zenon DEF CtrlC, Terminate
<1> QED  BY <1>1, <1>2 DEF Interrupt, CtrlC, Terminate, vars

(* What most commands of the script leave alone.                           *)
Kept ==
    /\ active' = active /\ broken' = broken /\ statuses' = statuses
    /\ exit' = exit /\ camera' = camera /\ stops' = stops

LEMMA IdleKeeps == Idle => Kept
  BY Zenon DEF Idle, vars, Kept

LEMMA StutterKeeps ==
    UNCHANGED allVars =>
        Kept /\ at' = at /\ back' = back /\ pending' = pending /\ interrupts' = interrupts
  BY Zenon DEF allVars, script, vars, Kept

LEMMA AppendTyped ==
    ASSUME NEW S, NEW seq \in Seq(S), NEW e \in S PROVE Append(seq, e) \in Seq(S)
  OBVIOUS

(* Statuses are integers that WaitForService collects; only Interrupt      *)
(* counts the signals from outside.                                        *)
LEMMA ListStep == ListTypes /\ CameraInv /\ [TestNext]_allVars => ListTypes'
<1> SUFFICES ASSUME ListTypes, CameraInv, [TestNext]_allVars PROVE ListTypes'
  OBVIOUS
<1>1. CASE WaitForService
  <2>1. statuses' = Append(statuses, exit) /\ interrupts' = interrupts
    BY <1>1, Zenon DEF WaitForService, Step, Fail
  <2> QED  BY <2>1, AppendTyped, Zenon DEF ListTypes, CameraInv
<1>2. CASE CtrlC \/ Terminate
  <2>1. statuses' = statuses /\ interrupts' = interrupts + 1
    BY <1>2, OutsideEffect, Zenon
  <2> QED  BY <2>1 DEF ListTypes
<1>3. CASE Script /\ ~WaitForService
  <2>1. statuses' = statuses /\ interrupts' = interrupts
    BY <1>3, Zenon
    DEF Script, Launch, Sleep, CheckAlive, Client, StopService, ClearPid, Check, Trap,
        CleanupCheck, CleanupKill, CleanupWait, CleanupDone, Idle, Step, Fail
  <2> QED  BY <2>1 DEF ListTypes
<1>4. CASE ServiceActs \/ UNCHANGED allVars
  <2>1. statuses' = statuses /\ interrupts' = interrupts
    BY <1>4, Zenon DEF ServiceActs, allVars, script
  <2> QED  BY <2>1 DEF ListTypes
<1> QED  BY <1>1, <1>2, <1>3, <1>4, Zenon DEF TestNext, Finished

(* The script is at a place, or on its way back to one.                    *)
LEMMA TypeStep == ScriptTypes /\ [TestNext]_allVars => ScriptTypes'
<1> SUFFICES ASSUME ScriptTypes, [TestNext]_allVars PROVE ScriptTypes'
  OBVIOUS
<1> USE DEF ScriptTypes, In, Cleanup, Places, Before, Running, Behind, Broke,
            Command, Step, Fail, Idle
<1>1. CASE Launch \/ Client \/ ClearPid
  BY <1>1 DEF Launch, Client, ClearPid
<1>2. CASE Check
  <2>1. \/ at' = "cleanup" /\ back' = "failed"
        \/ at' \in {"launch", "passed"}
    BY <1>2, Zenon DEF Check
  <2> QED  BY <2>1
<1>3. CASE Sleep("settle", "alive") \/ Sleep("pause", "alive again")
  BY <1>3 DEF Sleep
<1>4. CASE CheckAlive("alive", "client") \/ CheckAlive("alive again", "stop")
  BY <1>4 DEF CheckAlive
<1>5. CASE StopService
  BY <1>5 DEF StopService
<1>6. CASE WaitForService
  <2>1. at' = "clear" \/ (at' = "cleanup" /\ back' = "failed")
    BY <1>6, Zenon DEF WaitForService
  <2> QED  BY <2>1
<1>7. CASE Trap
  BY <1>7 DEF Trap, After, Ended
<1>8. CASE CleanupCheck \/ CleanupKill \/ CleanupWait \/ CleanupDone
  BY <1>8 DEF CleanupCheck, CleanupKill, CleanupWait, CleanupDone
<1>9. CASE CtrlC \/ Terminate \/ ServiceActs \/ UNCHANGED allVars
  <2>1. at' = at /\ back' = back
    BY <1>9, OutsideEffect, Zenon DEF ServiceActs, allVars, script
  <2> QED  BY <2>1
<1> QED
  BY <1>1, <1>2, <1>3, <1>4, <1>5, <1>6, <1>7, <1>8, <1>9, Zenon
  DEF TestNext, Script, Finished

(* The camera.  Only a service that is alive claims it; what kills one     *)
(* abandons it.                                                            *)
LEMMA CameraStep == CameraInv /\ PlaceInv /\ [TestNext]_allVars => CameraInv'
<1> SUFFICES ASSUME CameraInv, PlaceInv, [TestNext]_allVars PROVE CameraInv'
  OBVIOUS
<1> USE DEF CameraInv, NoExit, Killed
<1>1. CASE camera' = camera /\ exit' = exit
  BY <1>1
<1>2. CASE SigintToService
  BY <1>2, SigintEffect
<1>3. CASE Launch
  <2>1. camera = "free" /\ camera' = camera /\ exit' = NoExit
    BY <1>3 DEF Launch, Command, PlaceInv, In, Cleanup
  <2> QED  BY <2>1
<1>4. CASE ServiceActs
  BY <1>4, ActEffect DEF ServiceActs
<1>5. CASE StopService \/ CleanupKill \/ CtrlC \/ Terminate
  BY <1>1, <1>2, <1>5, OutsideEffect, Zenon DEF StopService, CleanupKill
<1>6. CASE Script /\ ~Launch /\ ~StopService /\ ~CleanupKill
  <2>1. camera' = camera /\ exit' = exit
    BY <1>6
    DEF Script, Sleep, CheckAlive, Client, WaitForService, ClearPid, Check, Trap,
        CleanupCheck, CleanupWait, CleanupDone, Idle, vars
  <2> QED  BY <1>1, <2>1
<1>7. CASE UNCHANGED allVars
  BY <1>1, <1>7, StutterKeeps, Zenon DEF Kept
<1> QED
  BY <1>3, <1>4, <1>5, <1>6, <1>7 DEF TestNext, Finished

(* Where the script is, and what it knows of the service there.            *)
LEMMA PlaceStep ==
    ScriptTypes /\ CameraInv /\ PlaceInv /\ [TestNext]_allVars => PlaceInv'
<1> SUFFICES ASSUME ScriptTypes, CameraInv, PlaceInv, [TestNext]_allVars
             PROVE  PlaceInv'
  OBVIOUS
<1> USE DEF ScriptTypes, PlaceInv, In, Cleanup, Places, Before, Running, Behind,
            Broke, Sleeps, Command, Step, Fail, Kept
<1>1. CASE Launch
  BY <1>1 DEF Launch, NoExit
<1>2. CASE Sleep("settle", "alive") \/ Sleep("pause", "alive again")
  <2>1. Kept
    BY <1>2, IdleKeeps DEF Sleep
  <2> QED  BY <1>2, <2>1 DEF Sleep
<1>3. CASE CheckAlive("alive", "client") \/ CheckAlive("alive again", "stop")
  <2>1. Kept
    BY <1>3, IdleKeeps DEF CheckAlive
  <2> QED  BY <1>3, <2>1 DEF CheckAlive
<1>4. CASE Client
  <2>1. Kept
    BY <1>4, IdleKeeps DEF Client
  <2> QED  BY <1>4, <2>1 DEF Client
<1>5. CASE Check
  <2>1. Kept
    BY <1>5, IdleKeeps DEF Check
  <2>2. at = "checks" /\ exit = 0 /\ camera # "abandoned" /\ camera # "held"
    BY <1>5 DEF Check, CameraInv, NoExit, Killed
  <2>3. CASE Fail
    BY <2>1, <2>2, <2>3
  <2>4. CASE ~broken /\ (Step("launch") \/ Step("passed"))
    BY <2>1, <2>2, <2>4 DEF CameraInv
  <2> QED  BY <1>5, <2>3, <2>4 DEF Check
<1>6. CASE StopService
  BY <1>6, SigintEffect DEF StopService, NoExit, Killed
<1>7. CASE WaitForService
  BY <1>7 DEF WaitForService, vars
<1>8. CASE ClearPid
  BY <1>8 DEF ClearPid, vars, NoExit
<1>9. CASE Trap
  BY <1>9 DEF Trap, After, Ended, vars
<1>10. CASE CleanupCheck \/ CleanupWait \/ CleanupDone
  <2>1. Kept
    BY <1>10, IdleKeeps DEF CleanupCheck, CleanupWait, CleanupDone
  <2> QED  BY <1>10, <2>1 DEF CleanupCheck, CleanupWait, CleanupDone
<1>11. CASE CleanupKill
  <2>1. /\ at = "cleanup kill" /\ at' = "cleanup wait" /\ back' = back
        /\ active' = active /\ broken' = broken /\ pending' = pending
        /\ statuses' = statuses
        /\ exit # NoExit => exit' = exit
    BY <1>11, SigintEffect, Zenon DEF CleanupKill
  <2>2. In({"launch"}) => camera' = "free"
    BY <1>11, SigintEffect, Zenon DEF CleanupKill
  <2> QED  BY <2>1, <2>2, Codes
<1>12. CASE CtrlC \/ Terminate
  <2>1. /\ at' = at /\ back' = back /\ active' = active /\ statuses' = statuses
        /\ pending' = TRUE
        /\ broken' => broken \/ at \in Sleeps \cup {"checks"}
    BY <1>12, OutsideEffect, Zenon
  <2>2. /\ exit # NoExit => exit' = exit
        /\ In({"launch"}) => camera' = "free"
    BY <1>12, OutsideEffect, SigintEffect, Zenon
  <2> QED  BY <2>1, <2>2, Codes
<1>13. CASE ServiceActs
  <2>1. /\ at' = at /\ back' = back /\ active' = active /\ statuses' = statuses
        /\ pending' = pending /\ broken' = broken /\ active
    BY <1>13, Zenon DEF ServiceActs, script
  <2>2. exit = NoExit
    BY <1>13, ActEffect, Zenon DEF ServiceActs
  <2> QED  BY <2>1, <2>2, Codes
<1>14. CASE UNCHANGED allVars
  <2>1. Kept /\ at' = at /\ back' = back /\ pending' = pending
    BY <1>14, StutterKeeps, Zenon
  <2> QED  BY <2>1
<1> QED
  BY <1>1, <1>2, <1>3, <1>4, <1>5, <1>6, <1>7, <1>8, <1>9, <1>10, <1>11, <1>12,
     <1>13, <1>14
  DEF TestNext, Script, Finished

(* Collecting a status of 0 keeps the list one of zeros; the list is as    *)
(* long as the modes or shorter.                                           *)
LEMMA StatusesGrow ==
    ASSUME ListTypes, statuses' = Append(statuses, exit), exit \in Int
    PROVE  /\ AllZero /\ exit = 0 => AllZero'
           /\ More => Within'
<1>1. Len(statuses) \in Nat /\ Len(statuses') = Len(statuses) + 1
  BY DEF ListTypes
<1>2. \A m \in 1 .. Len(statuses') :
        statuses'[m] = IF m = Len(statuses) + 1 THEN exit ELSE statuses[m]
  BY DEF ListTypes
<1>3. More => Within'
  BY <1>1, Stage4TestAssumption DEF More, Within
<1>4. AllZero /\ exit = 0 => AllZero'
  BY <1>1, <1>2 DEF AllZero
<1> QED  BY <1>3, <1>4

LEMMA StatusesBound ==
    ListTypes => (More => Within) /\ (Within /\ ~More => Complete)
  BY Stage4TestAssumption DEF ListTypes, More, Within, Complete

LEMMA StatusesKept ==
    statuses' = statuses =>
        /\ AllZero' = AllZero /\ More' = More
        /\ Within' = Within /\ Complete' = Complete
  BY Zenon DEF AllZero, More, Within, Complete

(* A command that neither collects a status nor ends a mode leaves the     *)
(* script on the same side of both.                                        *)
LEMMA StatusStep ==
    ScriptTypes /\ ListTypes /\ CameraInv /\ StatusInv /\ [TestNext]_allVars => StatusInv'
<1> SUFFICES ASSUME ScriptTypes, ListTypes, CameraInv, StatusInv, [TestNext]_allVars
             PROVE  StatusInv'
  OBVIOUS
<1> DEFINE Same ==
        /\ statuses' = statuses
        /\ In(Broke) => In(Broke)'
        /\ In(Before)' => In(Before)
        /\ In(Behind)' => In(Behind)
        /\ In({"passed"})' => In({"passed"})
<1>1. Same => StatusInv'
  BY StatusesKept, Zenon DEF StatusInv
<1> USE DEF ScriptTypes, In, Cleanup, Places, Before, Running, Behind, Broke,
            Command, Step, Fail, Idle
<1>2. CASE WaitForService
  <2>1. /\ at = "wait" /\ statuses' = Append(statuses, exit)
        /\ \/ exit = 0 /\ at' = "clear"
           \/ at' = "cleanup" /\ back' = "failed"
    BY <1>2, Zenon DEF WaitForService
  <2>2. AllZero /\ More
    BY <2>1 DEF StatusInv
  <2>3. Within' /\ (exit = 0 => AllZero')
    BY <2>1, <2>2, StatusesGrow, Zenon DEF CameraInv
  <2> QED  BY <2>1, <2>3 DEF StatusInv
<1>3. CASE Check
  <2>1. /\ at = "checks" /\ statuses' = statuses
        /\ \/ at' = "cleanup" /\ back' = "failed"
           \/ at' = "launch" /\ More
           \/ at' = "passed" /\ ~More
    BY <1>3, Zenon DEF Check, More
  <2>2. Within /\ AllZero
    BY <2>1 DEF StatusInv
  <2>3. (at' = "passed" => Complete') /\ (at' = "launch" => More') /\ Within' /\ AllZero'
    BY <2>1, <2>2, StatusesBound, StatusesKept, Zenon
  <2> QED  BY <2>1, <2>3 DEF StatusInv
<1>4. CASE Launch
  BY <1>4, <1>1 DEF Launch
<1>5. CASE \/ Sleep("settle", "alive") \/ Sleep("pause", "alive again")
           \/ CheckAlive("alive", "client") \/ CheckAlive("alive again", "stop")
           \/ Client
  BY <1>5, <1>1 DEF Sleep, CheckAlive, Client
<1>6. CASE StopService \/ ClearPid
  BY <1>6, <1>1 DEF StopService, ClearPid
<1>7. CASE Trap
  BY <1>7, <1>1 DEF Trap, After, Ended
<1>8. CASE CleanupCheck \/ CleanupKill \/ CleanupWait \/ CleanupDone
  BY <1>8, <1>1 DEF CleanupCheck, CleanupKill, CleanupWait, CleanupDone
<1>9. CASE CtrlC \/ Terminate \/ ServiceActs \/ UNCHANGED allVars
  <2>1. at' = at /\ back' = back /\ statuses' = statuses
    BY <1>9, OutsideEffect, Zenon DEF ServiceActs, allVars, script
  <2> QED  BY <2>1, <1>1
<1> QED
  BY <1>2, <1>3, <1>4, <1>5, <1>6, <1>7, <1>8, <1>9, Zenon
  DEF TestNext, Script, Finished

(* As long as nothing came from outside, only the script sends SIGINT, and *)
(* it then waits for the service until that has ended.                     *)
LEMMA QuietStep ==
    ScriptTypes /\ ListTypes /\ CameraInv /\ PlaceInv /\ QuietInv /\ [TestNext]_allVars
        => QuietInv'
<1> SUFFICES ASSUME ScriptTypes, ListTypes, CameraInv, PlaceInv, QuietInv,
                    [TestNext]_allVars
             PROVE  QuietInv'
  OBVIOUS
<1>1. CASE CtrlC \/ Terminate
  <2>1. interrupts' = interrupts + 1
    BY <1>1, OutsideEffect, Zenon
  <2>2. ~Quiet'
    BY <2>1 DEF Quiet, ListTypes
  <2> QED  BY <2>2, Zenon DEF QuietInv
<1>2. SUFFICES ASSUME ~(CtrlC \/ Terminate), Quiet, interrupts' = interrupts
               PROVE  QuietInv'
  <2>1. ~(CtrlC \/ Terminate) => interrupts' = interrupts
    BY Zenon
    DEF TestNext, Script, Launch, Sleep, CheckAlive, Client, StopService,
        WaitForService, ClearPid, Check, Trap, CleanupCheck, CleanupKill, CleanupWait,
        CleanupDone, Step, Fail, ServiceActs, Finished, allVars, script
  <2>2. interrupts' = interrupts /\ ~Quiet => QuietInv'
    BY Zenon DEF QuietInv, Quiet
  <2> QED  BY <1>1, <2>1, <2>2, Zenon
<1>3. /\ ~pending
      /\ at \in Cleanup => back = "failed"
      /\ exit = NoExit /\ "SIGINT" \in stops => at \in Waits
      /\ camera = "abandoned" => exit = 1
  BY <1>2, Zenon DEF QuietInv
<1>4. SUFFICES /\ ~pending'
               /\ (at \in Cleanup)' => back' = "failed"
               /\ exit' = NoExit /\ "SIGINT" \in stops' => (at \in Waits)'
               /\ camera' = "abandoned" => exit' = 1
  BY Zenon DEF QuietInv
<1> USE DEF Cleanup, Waits, Command, Step, Fail, Kept
<1>5. CASE Launch
  BY <1>3, <1>5 DEF Launch, PlaceInv, In
<1>6. CASE \/ Sleep("settle", "alive") \/ Sleep("pause", "alive again")
           \/ CheckAlive("alive", "client") \/ CheckAlive("alive again", "stop")
  <2>1. Kept
    BY <1>6, IdleKeeps DEF Sleep, CheckAlive
  <2> QED  BY <1>3, <1>6, <2>1 DEF Sleep, CheckAlive
<1>7. CASE Client
  <2>1. Kept
    BY <1>7, IdleKeeps DEF Client
  <2>2. /\ at = "client" /\ pending' = pending
        /\ at' = "pause" \/ (at' = "cleanup" /\ back' = "failed")
    BY <1>7, Zenon DEF Client
  <2> QED  BY <1>3, <2>1, <2>2
<1>8. CASE Check
  <2>1. Kept
    BY <1>8, IdleKeeps DEF Check
  <2>2. /\ at = "checks" /\ pending' = pending
        /\ \/ at' = "cleanup" /\ back' = "failed"
           \/ at' \in {"launch", "passed"}
    BY <1>8, Zenon DEF Check
  <2> QED  BY <1>3, <2>1, <2>2
<1>9. CASE StopService
  BY <1>3, <1>9, SigintEffect DEF StopService
<1>10. CASE WaitForService
  <2>1. /\ at = "wait" /\ exit # NoExit /\ pending' = pending
        /\ at' = "clear" \/ (at' = "cleanup" /\ back' = "failed")
        /\ exit' = exit /\ camera' = camera
    BY <1>10, Zenon DEF WaitForService, vars
  <2> QED  BY <1>3, <2>1
<1>11. CASE ClearPid
  BY <1>3, <1>11 DEF ClearPid, vars
<1>12. CASE Trap
  BY <1>3, <1>12 DEF Trap
<1>13. CASE CleanupCheck \/ CleanupWait \/ CleanupDone
  <2>1. Kept
    BY <1>13, IdleKeeps DEF CleanupCheck, CleanupWait, CleanupDone
  <2>2. /\ at \in Cleanup /\ pending' = pending
        /\ \/ at = "cleanup" /\ at' \in {"cleanup kill", "cleanup done"} /\ back' = back
           \/ exit # NoExit /\ at' = "cleanup done" /\ back' = back
           \/ at = "cleanup done" /\ at' = "cleanup" /\ back' = "failed"
           \/ at = "cleanup done" /\ at' = back
    BY <1>13 DEF CleanupCheck, CleanupWait, CleanupDone
  <2> QED  BY <1>3, <2>1, <2>2
<1>14. CASE CleanupKill
  BY <1>3, <1>14, SigintEffect DEF CleanupKill
<1>15. CASE ServiceActs
  <2>1. at' = at /\ back' = back /\ pending' = pending
    BY <1>15, Zenon DEF ServiceActs, script
  <2>2. exit = NoExit /\ stops' = stops /\ (camera' = "abandoned" => exit' = 1)
    BY <1>3, <1>15, ActEffect, Codes DEF ServiceActs
  <2> QED  BY <1>3, <2>1, <2>2
<1>16. CASE UNCHANGED allVars
  <2>1. Kept /\ at' = at /\ back' = back /\ pending' = pending
    BY <1>16, StutterKeeps, Zenon
  <2> QED  BY <1>3, <2>1
<1> QED
  BY <1>2, <1>5, <1>6, <1>7, <1>8, <1>9, <1>10, <1>11, <1>12, <1>13, <1>14, <1>15,
     <1>16, Zenon
  DEF TestNext, Script, Finished
-----------------------------------------------------------------------------
(* The invariant, for any number of modes and of signals.                  *)
LEMMA ScriptInvariant == TestSpec => []IInv
<1>1. TestInit => IInv
  <2> SUFFICES ASSUME TestInit PROVE IInv
    OBVIOUS
  <2>1. /\ at = "launch" /\ active = FALSE /\ pending = FALSE /\ broken = FALSE
        /\ statuses = <<>> /\ interrupts = 0 /\ stops = {} /\ camera = "free"
        /\ exit = NoExit
    BY Zenon DEF TestInit, Init
  <2>2. ScriptTypes
    BY <2>1 DEF ScriptTypes, In, Places, Before
  <2>3. statuses \in Seq(Int) /\ Len(statuses) = 0 /\ interrupts \in Nat
    BY <2>1
  <2>4. ListTypes /\ AllZero /\ More
    BY <2>3, Stage4TestAssumption DEF ListTypes, AllZero, More
  <2>5. CameraInv
    BY <2>1 DEF CameraInv, NoExit
  <2>6. PlaceInv
    BY <2>1 DEF PlaceInv, In, Cleanup, Running, Behind
  <2>7. StatusInv
    BY <2>1, <2>4 DEF StatusInv, In, Cleanup, Behind
  <2>8. QuietInv
    BY <2>1 DEF QuietInv, Cleanup
  <2> QED  BY <2>2, <2>4, <2>5, <2>6, <2>7, <2>8 DEF IInv
<1>2. IInv /\ [TestNext]_allVars => IInv'
  BY ListStep, TypeStep, CameraStep, PlaceStep, StatusStep, QuietStep, Zenon DEF IInv
<1> QED  BY <1>1, <1>2, PTL DEF TestSpec

(* STAGE4_RESULT=PASS is earned: one status of 0 per mode, and a service   *)
(* that exits with 0 has given the camera back.                            *)
THEOREM PassIsEarnedHolds == TestSpec => []PassIsEarned
<1>1. IInv => PassIsEarned
  <2> SUFFICES ASSUME IInv, at = "passed"
               PROVE  statuses = [m \in 1 .. Modes |-> 0] /\ camera = "free"
    BY Zenon DEF PassIsEarned
  <2>1. In({"passed"}) /\ In(Behind) /\ ~In(Broke)
    BY DEF IInv, In, Cleanup, Behind, Broke
  <2>2. Complete /\ AllZero /\ exit = 0 /\ statuses \in Seq(Int)
    BY <2>1, Zenon DEF IInv, StatusInv, PlaceInv, ListTypes
  <2>3. statuses = [m \in 1 .. Modes |-> 0]
    BY <2>2 DEF Complete, AllZero
  <2>4. camera = "free"
    BY <2>2, Codes DEF IInv, CameraInv
  <2> QED  BY <2>3, <2>4
<1> QED  BY <1>1, ScriptInvariant, PTL

(* No service outlives the script: where it ends, the trap has found       *)
(* active_pid or there was nothing to find.                                *)
THEOREM NoServiceLeftHolds == TestSpec => []NoServiceLeft
<1>1. IInv => NoServiceLeft
  <2> SUFFICES ASSUME IInv, Ended PROVE exit # NoExit
    BY Zenon DEF NoServiceLeft
  <2> QED  BY Codes DEF IInv, PlaceInv, Ended, In, Cleanup, Behind
<1> QED  BY <1>1, ScriptInvariant, PTL

(* Without a signal from outside a service abandons the camera only where  *)
(* its start fails: the trap never sends the second SIGINT.                *)
THEOREM AbandonedNeedsInterruptHolds == TestSpec => []AbandonedNeedsInterrupt
<1>1. IInv => AbandonedNeedsInterrupt
  <2> SUFFICES ASSUME IInv, camera = "abandoned", ~(interrupts > 0) PROVE exit = 1
    BY Zenon DEF AbandonedNeedsInterrupt
  <2>1. Quiet
    BY DEF IInv, ListTypes, Quiet
  <2> QED  BY <2>1, Zenon DEF IInv, QuietInv
<1> QED  BY <1>1, ScriptInvariant, PTL
=============================================================================
