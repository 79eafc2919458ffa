------------------------------ MODULE MCVendor ------------------------------
(***************************************************************************)
(* Small instances of the arms that a vendor's library drives: a whole-arm *)
(* controller with one arm joint and its gripper, and an FR3 with a        *)
(* Robotiq gripper.  A behaviour is about one of them; the other keeps its *)
(* first state.                                                            *)
(***************************************************************************)
EXTENDS DriverController, FR3

VARIABLE unit   \* "controller" or "fr3"

Chosen(u, S) == IF unit = u THEN S ELSE {CHOOSE x \in S : TRUE}

MCInit ==
    /\ unit \in {"controller", "fr3"}
    /\ vendor \in Chosen("controller", {[j \in Joints |-> m] : m \in VendorModes})
    /\ active \in Chosen("fr3", {"off", "on"})
    /\ ControllerInit /\ FR3Init

OnController == unit = "controller" /\ UNCHANGED <<fr3Vars, unit>>
OnFR3 == unit = "fr3" /\ UNCHANGED <<controllerVars, unit>>

ControllerTurn == OnController /\ ControllerNext
FR3Turn == OnFR3 /\ FR3Next
MCVars == <<controllerVars, fr3Vars, unit>>

(* The fairness of the two specifications.                                   *)
MCFairness ==
    /\ WF_MCVars(OnController /\ Watchdog)
    /\ WF_MCVars(OnController /\ Shutdown)
    /\ WF_MCVars(OnFR3 /\ MainStep)
    /\ WF_MCVars(OnFR3 /\ ArmStep)
    /\ WF_MCVars(OnFR3 /\ PollStep)
MCSpec == MCInit /\ [][ControllerTurn \/ FR3Turn]_MCVars /\ MCFairness

(* What a client waits for comes to an end whatever the vendor's library and *)
(* the gripper's serial line do: the driver's shutdown past the watchdog it  *)
(* joins, the FR3's ready move, and the FR3's stop with its two threads.     *)
VendorCallsEnd == ShutdownEnds /\ MoveEnds /\ StopEnds

(* No failure of another thread goes unseen: a control loop that stalls has  *)
(* its arm idled, and a thread of the FR3 that ended is not taken for a      *)
(* quiet one.                                                                *)
FailureIsSeen == StallIsCaught /\ []DeadThreadIsSeen
=============================================================================
