----------------------------- MODULE MCSerialArm -----------------------------
(***************************************************************************)
(* Small instances of a serial arm: two Feetech servos on one line, either *)
(* role and either firmware, and a gripper on a grid of a few positions.   *)
(* A behaviour is about one of them; the other keeps its first state.      *)
(***************************************************************************)
EXTENDS Feetech, Effector

VARIABLE unit   \* "line" or "gripper"

Setup(role_, family, mode, openAtMin, skipHoming, limited, ranged) ==
    [role |-> role_, family |-> family, mode |-> mode, openAtMin |-> openAtMin,
     skipHoming |-> skipHoming, limited |-> limited, ranged |-> ranged]

(* The grippers of the shipped models, with both ends of the travel as the   *)
(* open one: E_Yam and E_ARX, with a grip limit and a normalized range, one  *)
(* with the older safety margin, and E_SO101 as follower and leader, without *)
(* limit or range.                                                           *)
Setups ==
    {Setup("FOLLOWER", "can", "position", FALSE, FALSE, TRUE, TRUE),
     Setup("FOLLOWER", "can", "position", TRUE, TRUE, TRUE, FALSE),
     Setup("FOLLOWER", "can", "torque", TRUE, FALSE, TRUE, TRUE),
     Setup("FOLLOWER", "serial", "torque", FALSE, FALSE, FALSE, FALSE),
     Setup("FOLLOWER", "serial", "position", TRUE, FALSE, FALSE, FALSE),
     Setup("LEADER", "serial", "position", FALSE, FALSE, FALSE, FALSE)}

-----------------------------------------------------------------------------
Chosen(u, S) == IF unit = u THEN S ELSE {CHOOSE x \in S : TRUE}

MCInit ==
    /\ unit \in {"line", "gripper"}
    /\ role \in Chosen("line", Roles)
    /\ firmware \in Chosen("line", Firmwares)
    /\ \E first \in Chosen("line", FirstServos) : servo = [s \in Servos |-> first]
    /\ config \in Chosen("gripper", Configurations)
    /\ pos \in Chosen("gripper", Positions)
    /\ temp \in Chosen("gripper", Temperatures)
    /\ FeetechInit /\ EffectorInit

OnLine == unit = "line" /\ UNCHANGED <<effectorVars, unit>>
OnGripper == unit = "gripper" /\ UNCHANGED <<feetechVars, unit>>

LineTurn == OnLine /\ FeetechNext
GripperTurn == OnGripper /\ EffectorNext
MCVars == <<feetechVars, effectorVars, unit>>

(* The fairness of the two specifications.                                   *)
MCFairness ==
    /\ WF_MCVars(OnLine /\ ControlStep)
    /\ SF_MCVars(OnLine /\ MoveEnds)
    /\ WF_MCVars(OnGripper /\ Cycle)
MCSpec == MCInit /\ [][LineTurn \/ GripperTurn]_MCVars /\ MCFairness

(* An arm that loses servos, or answers, is neither blind nor stuck: it      *)
(* operates only on what it hears, recovers only for a fault, and its start, *)
(* mode switches, moves, recoveries and parking end, again and again in      *)
(* operation or closed.                                                      *)
LossIsSurvived ==
    NoBlindOperation /\ []HealthyLineStaysUp /\ (unit = "line" => ArmSettles)
=============================================================================
