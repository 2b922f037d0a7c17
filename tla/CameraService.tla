---------------------------- MODULE CameraService ----------------------------
(***************************************************************************)
(* What a jetcamd process is to whoever starts it, a shell, a script or a  *)
(* service manager: it may claim the one camera, it is asked to end by     *)
(* SIGINT or SIGTERM, and it leaves an exit status.  Both modes implement  *)
(* this specification; they differ in two promises, the constants.         *)
(*                                                                         *)
(* The promise that matters: once its signal handlers are installed, which *)
(* is before it claims the camera, one stop signal never kills the process *)
(* and it gives the camera back before it exits.  A process that is killed *)
(* over the camera leaves it abandoned: an Argus session nobody closes.    *)
(***************************************************************************)
EXTENDS Integers

CONSTANTS
    SnapshotSignal,   \* SIGUSR1 is handled whenever the camera is held
    CleanStart        \* a start that fails gives the camera back

ASSUME CameraServiceAssumption == SnapshotSignal \in BOOLEAN /\ CleanStart \in BOOLEAN

VARIABLES
    listening,  \* the stop signals have their handlers
    stops,      \* stop signals that have been sent
    camera,     \* "free", "held", "abandoned"
    exit        \* exit status, NoExit while the process lives

vars == <<listening, stops, camera, exit>>

NoExit == -1
Killed == 128   \* a shell's status for a process that a signal ended
Statuses == {0, 1, 3}

Init == listening = FALSE /\ stops = {} /\ camera = "free" /\ exit = NoExit

Alive == exit = NoExit

Listen ==
    /\ Alive /\ ~listening
    /\ listening' = TRUE
    /\ UNCHANGED <<stops, camera, exit>>

\* a stop signal is caught
Stop(s) ==
    /\ Alive /\ listening
    /\ stops' = stops \cup {s}
    /\ UNCHANGED <<listening, camera, exit>>

Claim ==
    /\ Alive /\ listening /\ camera = "free"
    /\ camera' = "held"
    /\ UNCHANGED <<listening, stops, exit>>

GiveBack ==
    /\ Alive /\ camera = "held"
    /\ camera' = "free"
    /\ UNCHANGED <<listening, stops, exit>>

Exit(status) ==
    /\ Alive /\ camera = "free"
    /\ exit' = status
    /\ UNCHANGED <<listening, stops, camera>>

FailedStart ==
    /\ Alive /\ listening /\ ~CleanStart /\ camera = "free"
    /\ exit' = 1 /\ camera' = "abandoned"
    /\ UNCHANGED <<listening, stops>>

\* A signal ends the process: a stop signal before the handlers are there or
\* after one of its kind, or a snapshot signal that is not handled.
Die(s) ==
    /\ Alive
    /\ \/ ~listening
       \/ s \in stops
       \/ s = "SIGUSR1" /\ ~(SnapshotSignal /\ camera = "held")
    /\ exit' = Killed /\ listening' = FALSE
    /\ stops' = stops \cup ({s} \cap {"SIGINT", "SIGTERM"})
    /\ camera' = IF camera = "held" THEN "abandoned" ELSE camera

Act == Listen \/ Claim \/ GiveBack \/ FailedStart \/ \E status \in Statuses : Exit(status)

Next ==
    \/ Act
    \/ \E s \in {"SIGINT", "SIGTERM"} : Stop(s)
    \/ \E s \in {"SIGINT", "SIGTERM", "SIGUSR1"} : Die(s)

Spec == Init /\ [][Next]_vars
=============================================================================
