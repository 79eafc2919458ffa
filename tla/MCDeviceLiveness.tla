--------------------------- MODULE MCDeviceLiveness ---------------------------
(***************************************************************************)
(* What the control loop owes its client in the end: a follower with one   *)
(* joint, whose constants are in the .cfg, a leader with a gripper that    *)
(* fails, and the homing routine on its own in both of its modes.          *)
(***************************************************************************)
EXTENDS Device

VARIABLE unit   \* "follower", "leader", "parallel" or "sequential"

Leader == INSTANCE Device WITH
    Role <- "LEADER", HasEffector <- TRUE, MaxMoves <- 1,
    Faults <- {"write", "publish", "effector"},
    Commands <- {"HEARTBEAT", "MOVE_TO_READY_POS", "ENTER_GRAVITY_COMPENSATION",
                 "ENABLE_FORCE_FEEDBACK"}

Parallel == INSTANCE ReadyMove WITH
    NumJoints <- 2, MovingMode <- "PARALLEL", Budget <- 3, ConfirmCount <- 2,
    HasEffector <- TRUE, Faults <- {"algo", "move"}

Sequential == INSTANCE ReadyMove WITH
    NumJoints <- 3, MovingMode <- "SEQUENTIAL", Budget <- 3, ConfirmCount <- 2,
    HasEffector <- TRUE, Faults <- {"algo", "move"}

loopVars == <<pc, bulk, commandVars, recoveryVars, stepAge, modeVars, inputVars, paused,
              running, signal, clientVars, effReady, announceVars, lost>>

MCInit == unit \in {"follower", "leader", "parallel", "sequential"} /\ DeviceInit
FollowerTurn == unit = "follower" /\ DeviceNext /\ UNCHANGED unit
LeaderTurn == unit = "leader" /\ Leader!DeviceNext /\ UNCHANGED unit
ParallelTurn == unit = "parallel" /\ Parallel!Next /\ UNCHANGED <<loopVars, unit>>
SequentialTurn == unit = "sequential" /\ Sequential!Next /\ UNCHANGED <<loopVars, unit>>
MCVars == <<deviceVars, unit>>

(* The fairness of Device and of ReadyMove; and the gripper gets ready in    *)
(* the end, which is what ReadyMoveEnds of Effector says.                    *)
MCFairness ==
    /\ WF_MCVars(unit = "follower" /\ ControlLoop /\ UNCHANGED unit)
    /\ SF_MCVars(unit = "follower" /\ Tick /\ UNCHANGED unit)
    /\ WF_MCVars(unit = "leader" /\ Leader!ControlLoop /\ UNCHANGED unit)
    /\ SF_MCVars(unit = "leader" /\ Leader!Tick /\ UNCHANGED unit)
    /\ SF_MCVars(unit = "leader" /\ Leader!StepEffector /\ effReady' /\ UNCHANGED unit)
    /\ WF_MCVars(\/ unit = "parallel" /\ Parallel!Home /\ UNCHANGED <<loopVars, unit>>
                 \/ unit = "sequential" /\ Sequential!Home /\ UNCHANGED <<loopVars, unit>>)
MCSpec == MCInit /\ [][FollowerTurn \/ LeaderTurn \/ ParallelTurn \/ SequentialTurn]_MCVars
            /\ MCFairness

Routine == unit \in {"parallel", "sequential"}

(* The homing routine always gets the arm to its ready state, whatever       *)
(* joints lag, stick, refuse their commands or are failed: it "cannot loop   *)
(* forever" (comment at the head of move_to_ready_position()).               *)
RoutineTerminates == Routine => HomingTerminates

(* In both modes a joint that refuses its commands fails at most one call of *)
(* the routine, in this move or a later one, and the joints that are left    *)
(* are moved all the same (RefusalsRunOut).                                  *)
RoutineOutlastsRefusals == Routine => RefusalsRunOut
=============================================================================
