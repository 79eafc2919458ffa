------------------------------- MODULE Spring -------------------------------
(* The springs of a leader arm: a torque that draws some joints towards a    *)
(* home position while the operator moves the arm, and that is released once *)
(* every joint has rested, so that the arm does not creep out of the         *)
(* operator's hand.  A step is a control step of operate_as_leader(); the    *)
(* operator moves each joint by at most one unit in a step.                  *)
EXTENDS Integers, FiniteSets

CONSTANTS
    SpringJoints,       \* the joints of the arm
    SpringSetups,       \* [SpringJoints -> [config, type, invert, offset]]
    MaxPlace,           \* absolute positions are 0..MaxPlace
    AngleThreshold,     \* threshold_angle_change_
    RestSteps,          \* threshold_time_sec_ in control steps
    SpringHome, SpringConstant, SpringPreload, SpringLimit

ASSUME SpringAssumption ==
    /\ {MaxPlace, AngleThreshold, RestSteps, SpringPreload, SpringLimit} \subseteq Nat
    /\ SpringConstant \in Nat \ {0} /\ SpringHome \in 0..MaxPlace
    /\ SpringSetups \subseteq [SpringJoints ->
          [config : BOOLEAN, type : {-1, 1, 2}, invert : BOOLEAN, offset : Int]]

VARIABLES
    springSetup,
    leading,        \* the arm is in leader mode
    place,          \* get_pos_rad_absolute()
    anchor,         \* prev_pos_
    rest,           \* steps since last_significant_change_time_
    springOn,       \* spring_enabled_
    springTorque,   \* what apply_spring_force() adds to the gravity torque
    releasedAt      \* where the joints were when the springs were last released

springVars == <<springSetup, leading, place, anchor, rest, springOn, springTorque, releasedAt>>

Magnitude(x) == IF x < 0 THEN -x ELSE x
Clipped(x) == IF x > SpringLimit THEN SpringLimit ELSE IF x < -SpringLimit THEN -SpringLimit ELSE x
----------------------------------------------------------------------------
(* calc_spring_force(): the preload shifts the displacement.                 *)
Displacement(p) == p - SpringHome + SpringPreload \div SpringConstant
Direction(setup) == IF setup.invert THEN -setup.type ELSE setup.type
calc_spring_force(setup, p) ==
    IF setup.type = 2 \/ Displacement(p) * Direction(setup) > 0
    THEN Clipped(-SpringConstant * Displacement(p))
    ELSE 0

(* update_stability(): the anchor stays until the joint has left its         *)
(* neighbourhood, so that a slow drift is noticed too.                       *)
Moves(j, p) == Magnitude(p - anchor[j]) > AngleThreshold
KeepAnchor(j, p) == anchor[j]                                           \* mutant
NextAnchor(j, p) == IF Moves(j, p) THEN p ELSE anchor[j]
NextRest(j, p) == IF Moves(j, p) THEN 0
                  ELSE IF rest[j] <= RestSteps THEN rest[j] + 1 ELSE rest[j]

SpringInit ==
    /\ springSetup \in SpringSetups
    /\ leading = FALSE
    /\ place = [j \in SpringJoints |-> SpringHome]
    /\ anchor = place
    /\ rest = [j \in SpringJoints |-> 0]
    /\ springOn = [j \in SpringJoints |-> FALSE]
    /\ springTorque = [j \in SpringJoints |-> 0]
    /\ releasedAt = place

(* change_control_mode_for_leader(): the anchor is the relative position.    *)
EnterLeader ==
    /\ ~leading
    /\ leading' = TRUE
    /\ springOn' = [j \in SpringJoints |-> springSetup[j].config]
    /\ anchor' = [j \in SpringJoints |-> place[j] - springSetup[j].offset]
    /\ rest' = [j \in SpringJoints |-> 0]
    /\ UNCHANGED <<springSetup, place, springTorque, releasedAt>>

LeaveLeader ==
    /\ leading
    /\ leading' = FALSE
    /\ springTorque' = [j \in SpringJoints |-> 0]
    /\ UNCHANGED <<springSetup, place, anchor, rest, springOn, releasedAt>>

(* check_stability_control() and apply_spring_force(): springs are a matter  *)
(* of the whole arm, one joint that moves keeps all of them on.              *)
AtRest(resting) == \A j \in SpringJoints : resting[j] > RestSteps
SpringMode(resting) ==
    [j \in SpringJoints |-> ~AtRest(resting) /\ springSetup[j].config]
LeaderStepTo(p) ==
    /\ leading
    /\ \A j \in SpringJoints : Magnitude(p[j] - place[j]) <= 1
    /\ place' = p
    /\ anchor' = [j \in SpringJoints |-> NextAnchor(j, p[j])]
    /\ rest' = [j \in SpringJoints |-> NextRest(j, p[j])]
    /\ springOn' = SpringMode(rest')
    /\ springTorque' = [j \in SpringJoints |->
            IF springOn'[j] THEN calc_spring_force(springSetup[j], p[j]) ELSE 0]
    /\ releasedAt' = IF AtRest(rest') /\ ~AtRest(rest) THEN p ELSE releasedAt
    /\ UNCHANGED <<springSetup, leading>>
LeaderStep == \E p \in [SpringJoints -> 0..MaxPlace] : LeaderStepTo(p)

(* The loop steps whether or not the operator moves the arm.                 *)
StillStep == LeaderStepTo(place)

SpringNext == EnterLeader \/ LeaveLeader \/ LeaderStep
SpringSpec == SpringInit /\ [][SpringNext]_springVars /\ WF_springVars(StillStep)
----------------------------------------------------------------------------
(* While the springs are released, no joint has wandered from where it was   *)
(* when they let go: a drift too slow to be seen between two steps brings    *)
(* them back like a jerk does.                                               *)
ReleasedArmRests ==
    leading /\ AtRest(rest) =>
        \A j \in SpringJoints : Magnitude(place[j] - releasedAt[j]) <= 2 * AngleThreshold

(* A spring never drives its joint away from its preloaded home, nor past    *)
(* the joint's torque limit, and is gone when the arm is not leading.        *)
SpringRestores ==
    \A j \in SpringJoints :
        /\ springTorque[j] * Displacement(place[j]) <= 0
        /\ Magnitude(springTorque[j]) <= SpringLimit
        /\ springTorque[j] # 0 => leading /\ springSetup[j].config

(* An arm that the operator holds still is released, whatever the offset     *)
(* between relative and absolute positions.                                  *)
StillArmReleased ==
    (<>[]leading /\ <>[][place' = place]_springVars) => <>[](\A j \in SpringJoints : ~springOn[j])

(* The springs pull home, let go of an arm that rests, and only of that.     *)
SpringsLetGo == [](SpringRestores /\ ReleasedArmRests) /\ StillArmReleased
=============================================================================
