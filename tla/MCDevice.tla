------------------------------- MODULE MCDevice -------------------------------
(***************************************************************************)
(* Small instances of the control loop for TLC.  The constants of the .cfg *)
(* are one device; a behaviour may also be about another one, which        *)
(* differs from it in the constants given here.                            *)
(***************************************************************************)
EXTENDS Device

CONSTANT Units  \* the devices that an instance is about
ASSUME UnitsAssumption == Units \subseteq {"given", "serial", "floating", "leader"}

VARIABLE unit

(* TLC evaluates a definition without variables once and for all, for the    *)
(* constants of the .cfg, unless its module is instantiated by name: these   *)
(* instances make it evaluate those of Device and ReadyMove with the         *)
(* constants of each device.                                                 *)
Given == INSTANCE Device
Homing == INSTANCE ReadyMove

(* A serial arm with a gripper, homed joint after joint, whose bus reads,    *)
(* modes, writes and effector fail.                                          *)
Serial == INSTANCE DeviceProofs WITH
    MovingMode <- "SEQUENTIAL", HasEffector <- TRUE, ArmType <- "serial",
    DontGoHome <- FALSE, MaxMoves <- 1,
    Faults <- {"bulk", "mode", "write", "effector"},
    Commands <- {"MOVE_TO_READY_POS", "ENTER_GRAVITY_COMPENSATION", "HOLD"}

(* A healthy follower behind a whole-arm controller that is made to float,   *)
(* also in the middle of its ready moves.                                    *)
Floating == INSTANCE DeviceProofs WITH
    ArmType <- "controller", Faults <- {},
    Commands <- {"MOVE_TO_READY_POS", "MOVE_TO_READY_AND_STOP", "HEARTBEAT", "ENTER_GRAVITY_COMPENSATION", "ENABLE_FORCE_FEEDBACK", "HOLD",
                 "PAUSE", "RESUME"}

(* A healthy leader with a gripper behind a whole-arm controller, homed at   *)
(* the start, whose mode changes at any time.                                *)
Leader == INSTANCE DeviceProofs WITH
    Role <- "LEADER", ArmType <- "controller", HasEffector <- TRUE, DontGoHome <- FALSE,
    Faults <- {}, MaxMoves <- 1,
    Commands <- {"MOVE_TO_READY_POS", "MOVE_TO_READY_POS_AND_PAUSE", "MOVE_TO_READY_AND_STOP",
                 "HEARTBEAT", "STOP", "ENTER_GRAVITY_COMPENSATION", "ENABLE_FORCE_FEEDBACK"}

MCInit ==
    /\ unit \in Units
    /\ CASE unit = "given" -> DeviceInit
         [] unit = "serial" -> Serial!DeviceInit
         [] unit = "floating" -> Floating!DeviceInit
         [] unit = "leader" -> Leader!DeviceInit
GivenTurn == unit = "given" /\ DeviceNext /\ UNCHANGED unit
SerialTurn == unit = "serial" /\ Serial!DeviceNext /\ UNCHANGED unit
FloatingTurn == unit = "floating" /\ Floating!DeviceNext /\ UNCHANGED unit
LeaderTurn == unit = "leader" /\ Leader!DeviceNext /\ UNCHANGED unit
MCVars == <<deviceVars, unit>>
MCSpec == MCInit /\ [][GivenTurn \/ SerialTurn \/ FloatingTurn \/ LeaderTurn]_MCVars

(* The joints move as ordered and only so.  A recovery has its position mode *)
(* for as long as it lasts, and so has a commanded ready move that no mode   *)
(* command crosses (OverrideHeld); a skipped start-up move stays skipped     *)
(* (SkipIsNotUndone).  An arm without faults gets into emergency recovery by *)
(* three of the client's orders and no other (HealthyArmStaysUp).  With mode *)
(* commands at any time, in the middle of a move too, the joints of a        *)
(* follower that operates are in the modes that its float flag announces     *)
(* (FloatMatchesModes), and a leader that is homed at the start floats       *)
(* (LeaderFloats).  A serial arm whose mode switch fails at a joint has the  *)
(* joints before it switched and the flag as it was.                         *)
ArmsMoveAsOrdered ==
    /\ unit # "serial" => OverrideHeld
    /\ unit \in {"given", "floating"} => SkipIsNotUndone
    /\ unit = "floating" => Floating!HealthyArmStaysUp /\ FloatMatchesModes
    /\ unit = "leader" => Leader!HealthyArmStaysUp /\ Leader!LeaderFloats

(* A fault is neither swallowed nor put down to a healthy joint              *)
(* (StaleReadEscalates, OnlyLostJointsExcluded).  A gripper's failure is put *)
(* down to the joint whose failure is recorded already, so the serial arm,   *)
(* whose gripper can fail, is left out of the second.                        *)
FaultsAreOwned == StaleReadEscalates /\ (unit # "serial" => OnlyLostJointsExcluded)
=============================================================================
