-------------------------- MODULE RecoveryLifecycle --------------------------
(***************************************************************************)
(* What emergency recovery promises to the client (EmergencyRecoveryState, *)
(* enter_emergency_recovery() and mark_emergency_recovery_completed()): a  *)
(* device has at most one recovery, announces its beginning and its end    *)
(* once each and in that order, closes for good when it ends, and while    *)
(* the recovery lasts no outside target moves the arm.                     *)
(***************************************************************************)
EXTENDS Naturals

VARIABLES
    phase,      \* "normal", "armed", "homing", "finished"
    detected,   \* DEVICE_INFO_ERROR_DETECTED messages published
    shutdown,   \* DEVICE_INFO_SHUTDOWN_AFTER_ERROR messages published
    open,       \* the topic is running
    outside     \* a target from outside may be driving the arm

lifecycleVars == <<phase, detected, shutdown, open, outside>>

LifecycleInit ==
    /\ phase = "normal"
    /\ detected = 0
    /\ shutdown = 0
    /\ open = TRUE
    /\ outside = FALSE

\* Targets come and go in normal operation, and until an armed recovery has
\* cleared the buffers.
Drive ==
    /\ phase \in {"normal", "armed"}
    /\ outside' = ~outside
    /\ UNCHANGED <<phase, detected, shutdown, open>>

Arm ==
    /\ phase = "normal"
    /\ phase' = "armed"
    /\ detected' = detected + 1
    /\ UNCHANGED <<shutdown, open, outside>>

GoHome ==
    /\ phase = "armed"
    /\ phase' = "homing"
    /\ outside' = FALSE
    /\ UNCHANGED <<detected, shutdown, open>>

Finish ==
    /\ phase = "homing"
    /\ phase' = "finished"
    /\ shutdown' = shutdown + 1
    /\ open' = FALSE
    /\ UNCHANGED <<detected, outside>>

\* A stop command, a signal, or the end of a move-to-ready-and-stop, which
\* also clears the targets.
Close ==
    /\ open = TRUE
    /\ open' = FALSE
    /\ outside' \in {outside, FALSE}
    /\ UNCHANGED <<phase, detected, shutdown>>

LifecycleNext == Drive \/ Arm \/ GoHome \/ Finish \/ Close

LifecycleSpec == LifecycleInit /\ [][LifecycleNext]_lifecycleVars
=============================================================================
