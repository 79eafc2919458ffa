------------------------------ MODULE ReadyMove ------------------------------
(***************************************************************************)
(* DeviceArm::move_to_ready_position(), the homing routine that the        *)
(* control loop calls once per iteration until the arm is ready.  It is    *)
(* used at start-up, for commanded ready moves and for emergency recovery. *)
(*                                                                         *)
(* A joint's measured pose is abstracted to what the routine branches on:  *)
(* "home" (inside the tolerance window), "lagging" (outside it and moving) *)
(* or "stuck" (outside it, stuck detection latched).  The positions that   *)
(* are commanded are not modelled, only whether a command is accepted.     *)
(* The init sequence of the SEQUENTIAL mode is 1, 2, ..., NumJoints.       *)
(***************************************************************************)
EXTENDS Naturals, FiniteSets

CONSTANTS
    NumJoints,      \* arm joints, in the order of joints_
    MovingMode,     \* "PARALLEL" or "SEQUENTIAL" (--init_joints_sequential)
    Budget,         \* ready_move_budget_total_
    ConfirmCount,   \* DEVICE_ARRIVED_CONFIRM_CNT
    HasEffector,    \* p_effector_ != nullptr
    Faults          \* environment faults this instance may meet

ASSUME NumJointsAssumption == NumJoints \in Nat \ {0}
ASSUME MovingModeAssumption == MovingMode \in {"PARALLEL", "SEQUENTIAL"}
ASSUME BudgetAssumption == Budget \in Nat \ {0}
ASSUME ConfirmCountAssumption == ConfirmCount \in Nat
ASSUME HasEffectorAssumption == HasEffector \in BOOLEAN

Joints == 1 .. NumJoints

\* The effector's servo shares the bus and the servo id space of the arm.
EffectorServo == NumJoints + 1
Servos == 1 .. NumJoints + 1
NoServo == 0

\* The return codes the control loop tells apart.  SOFT stands for the
\* SAFE_MODE_VEL and SAFE_MODE_TOR codes, FAIL for every code without a
\* branch of its own.
Codes == {"SUCCESS", "FAIL", "SIG", "TEMP", "FAULT", "SOFT"}

Poses == {"home", "lagging", "stuck"}

VARIABLES
    isReady,        \* Device::is_ready_
    isReadyArm,     \* DeviceArm::is_ready_arm_
    initCount,      \* init_count_, saturated at 1: only init_count_ < 1 is tested
    reachedCnt,     \* reached_cnt_
    movingIndex,    \* moving_joint_index_ (1-based)
    budgetUsed,     \* ready_move_budget_used_
    failed,         \* failed_joint_ids_
    lastFailed,     \* last_failed_joint_id_ (NoServo for -1)
    rc              \* the code returned by the last step of the control loop

moveVars == <<isReadyArm, initCount, reachedCnt, movingIndex, budgetUsed>>
servoVars == <<failed, lastFailed>>
vars == <<isReady, moveVars, servoVars, rc>>

TypeOK ==
    /\ isReady \in BOOLEAN
    /\ isReadyArm \in BOOLEAN
    /\ initCount \in 0 .. 1
    /\ reachedCnt \in 0 .. ConfirmCount + 1
    /\ movingIndex \in Joints
    /\ budgetUsed \in 0 .. Budget + ConfirmCount + 1
    /\ failed \subseteq Servos
    /\ lastFailed \in Servos \cup {NoServo}
    /\ rc \in Codes

\* The first and the last of a set of servos, in joint order.
FirstOf(S) == {j \in S : \A k \in S : j <= k}
LastOf(S) == {j \in S : \A k \in S : k <= j}

MoveInit ==
    /\ isReady = FALSE
    /\ isReadyArm = FALSE
    /\ initCount = 0
    /\ reachedCnt = 0
    /\ movingIndex = 1
    /\ budgetUsed = 0
    /\ failed = {}
    /\ lastFailed = NoServo
    /\ rc = "SUCCESS"

(***************************************************************************)
(* reset_ready_state_for_move_to_ready(): every ready move starts over.    *)
(* The budget is not reset here but by the next iteration's init block.    *)
(***************************************************************************)
\* The seeded bug that forgets init_count_.
ResetReadyKeepingCount ==
    /\ isReady' = FALSE
    /\ isReadyArm' = FALSE
    /\ movingIndex' = 1
    /\ reachedCnt' = 0
    /\ UNCHANGED <<initCount, budgetUsed>>

ResetReady ==
    /\ isReady' = FALSE
    /\ isReadyArm' = FALSE
    /\ initCount' = 0
    /\ reachedCnt' = 0
    /\ movingIndex' = 1
    /\ UNCHANGED budgetUsed

\* The init block of the first iteration, then ready_move_budget_spend().
ReachedBefore == IF initCount = 0 THEN 0 ELSE reachedCnt

\* The seeded bug that runs the init block in every iteration.
UsedNever == 0

UsedBefore == IF initCount = 0 THEN 0 ELSE budgetUsed

\* The seeded bug without the backstop.
BudgetNeverExhausted(used) == FALSE

BudgetExhausted(used) == used > Budget

(***************************************************************************)
(* The end of the routine: with the arm at home the device is ready if     *)
(* there is no effector, if recovery forces the effector to be ready, or   *)
(* if the effector has arrived too.                                        *)
(***************************************************************************)
ReadyOnceArmIs(recovering, effectorReady) ==
    isReady' = (isReadyArm' /\ (~HasEffector \/ recovering \/ effectorReady))

(***************************************************************************)
(* PARALLEL: all responsive joints are commanded in every iteration.  A    *)
(* joint whose command is refused is marked failed and the loop continues, *)
(* but return_code keeps the result of the last command given, so the      *)
(* routine reports a failure exactly when the last responsive joint        *)
(* refused.                                                                *)
(***************************************************************************)
\* The seeded bug that marks a joint only where the function's name says so.
MarkOnlyInRecovery(joints) == failed' = failed

\* mark_joint_failed_during_recovery(), which is called outside it as well.
MarkFailed(joints) == failed' = failed \cup joints

LastRefuses(responsive, bad) == LastOf(responsive) \cap bad # {}

\* last_failed_joint_id_ after the iteration: refused commands in joint
\* order, then the worst laggard if the budget ran out, then the first stuck
\* joint if the move is over.
ParallelBlame(arrived, lagging, stuck, refused) ==
    IF arrived /\ stuck # {}
      THEN FirstOf(stuck)
    ELSE IF arrived /\ lagging # {}
      THEN lagging
    ELSE IF refused # {}
      THEN LastOf(refused)
    ELSE {lastFailed}

ParallelIteration(recovering, effectorReady, pose, bad) ==
    LET responsive == Joints \ failed
        lagging    == {j \in responsive : pose[j] = "lagging"}
        stuck      == {j \in responsive : pose[j] = "stuck"}
        refused    == responsive \cap bad
        used       == UsedBefore + 1
        reached    == IF lagging # {} THEN 0
                      ELSE IF responsive = {} THEN ReachedBefore
                      ELSE ReachedBefore + 1
        arrived    == \/ responsive = {}
                      \/ lagging = {} /\ reached > ConfirmCount
                      \/ lagging # {} /\ BudgetExhausted(used)
    IN  /\ MarkFailed(refused)
        /\ lastFailed' \in ParallelBlame(arrived, lagging, stuck, refused)
        /\ budgetUsed' = used
        /\ reachedCnt' = reached
        /\ isReadyArm' = arrived
        /\ ReadyOnceArmIs(recovering, effectorReady)
        /\ initCount' = 1
        /\ rc' = IF LastRefuses(responsive, bad) THEN "FAIL" ELSE "SUCCESS"
        /\ UNCHANGED movingIndex

(***************************************************************************)
(* SEQUENTIAL: one joint at a time, advancing when the joint has arrived,  *)
(* is failed, refuses its command or exhausts the budget.  The last two    *)
(* return at once: init_count_ stays 0 and the device is not yet ready.    *)
(***************************************************************************)
AdvanceJoint ==
    /\ movingIndex' = IF movingIndex = NumJoints THEN 1 ELSE movingIndex + 1
    /\ isReadyArm' = (movingIndex = NumJoints)
    /\ reachedCnt' = 0

SkipFailedJoint(recovering, effectorReady) ==
    /\ movingIndex \in failed
    /\ AdvanceJoint
    /\ ReadyOnceArmIs(recovering, effectorReady)
    /\ initCount' = 1
    /\ budgetUsed' = UsedBefore
    /\ rc' = "SUCCESS"
    /\ UNCHANGED servoVars

GiveUpOnJoint ==
    /\ movingIndex \notin failed
    /\ BudgetExhausted(UsedBefore + 1)
    /\ AdvanceJoint
    /\ initCount' = 0
    /\ budgetUsed' = UsedBefore + 1
    /\ lastFailed' = movingIndex
    /\ rc' = "SUCCESS"
    /\ UNCHANGED <<isReady, failed>>

JointRefuses(bad) ==
    /\ movingIndex \notin failed
    /\ ~BudgetExhausted(UsedBefore + 1)
    /\ movingIndex \in bad
    /\ AdvanceJoint
    /\ initCount' = 0
    /\ budgetUsed' = UsedBefore + 1
    /\ MarkFailed({movingIndex})
    /\ lastFailed' = movingIndex
    /\ rc' = "SUCCESS"
    /\ UNCHANGED isReady

DriveJoint(recovering, effectorReady, pose, bad) ==
    LET confirmed == /\ pose[movingIndex] # "lagging"
                     /\ ReachedBefore + 1 > ConfirmCount
    IN  /\ movingIndex \notin failed
        /\ ~BudgetExhausted(UsedBefore + 1)
        /\ movingIndex \notin bad
        /\ \/ confirmed /\ AdvanceJoint
           \/ /\ ~confirmed
              /\ reachedCnt' = IF pose[movingIndex] = "lagging"
                               THEN ReachedBefore ELSE ReachedBefore + 1
              /\ UNCHANGED <<movingIndex, isReadyArm>>
        /\ lastFailed' = IF confirmed /\ pose[movingIndex] = "stuck"
                         THEN movingIndex ELSE lastFailed
        /\ ReadyOnceArmIs(recovering, effectorReady)
        /\ initCount' = 1
        /\ budgetUsed' = UsedBefore + 1
        /\ rc' = "SUCCESS"
        /\ UNCHANGED failed

SequentialIteration(recovering, effectorReady, pose, bad) ==
    \/ SkipFailedJoint(recovering, effectorReady)
    \/ GiveUpOnJoint
    \/ JointRefuses(bad)
    \/ DriveJoint(recovering, effectorReady, pose, bad)

(***************************************************************************)
(* The arm is home and waits for its effector: every joint, failed ones    *)
(* included, is told to keep its position.                                 *)
(***************************************************************************)
MaintainPosition(recovering, effectorReady, bad) ==
    /\ isReadyArm
    /\ UNCHANGED <<isReadyArm, reachedCnt, movingIndex, budgetUsed, servoVars>>
    /\ IF bad \cap Joints # {}
         THEN /\ rc' = "FAIL"
              /\ UNCHANGED <<isReady, initCount>>
         ELSE /\ rc' = "SUCCESS"
              /\ ReadyOnceArmIs(recovering, effectorReady)
              /\ initCount' = 1

HomingIteration(recovering, effectorReady, pose, bad) ==
    /\ ~isReadyArm
    /\ IF MovingMode = "PARALLEL"
         THEN ParallelIteration(recovering, effectorReady, pose, bad)
         ELSE SequentialIteration(recovering, effectorReady, pose, bad)

\* update_follower_feedforward_torques() fails: nothing else happens.
FeedforwardFails ==
    /\ "algo" \in Faults
    /\ rc' = "FAIL"
    /\ UNCHANGED <<isReady, moveVars, servoVars>>

\* --dont_go_to_home_pos at start-up: the arm is declared ready where it is.
SkipHoming ==
    /\ isReady' = TRUE
    /\ isReadyArm' = TRUE
    /\ rc' = "SUCCESS"
    /\ UNCHANGED <<initCount, reachedCnt, movingIndex, budgetUsed, servoVars>>

MoveToReadyPosition(recovering, effectorReady, pose, bad) ==
    \/ FeedforwardFails
    \/ HomingIteration(recovering, effectorReady, pose, bad)
    \/ MaintainPosition(recovering, effectorReady, bad)

-----------------------------------------------------------------------------
(***************************************************************************)
(* The routine on its own: the loop calls it until the device is ready,    *)
(* then a new ready move may be requested.                                 *)
(***************************************************************************)
RefusedCommands == IF "move" \in Faults THEN SUBSET Joints ELSE {{}}

Iterate ==
    /\ ~isReady
    /\ \E pose \in [Joints -> Poses], bad \in RefusedCommands,
          effectorReady \in BOOLEAN :
          MoveToReadyPosition(FALSE, effectorReady, pose, bad)

Restart ==
    /\ isReady
    /\ ResetReady
    /\ UNCHANGED <<servoVars, rc>>

Home ==
    /\ ~isReady
    /\ \E pose \in [Joints -> Poses], bad \in RefusedCommands,
          effectorReady \in BOOLEAN :
          HomingIteration(FALSE, effectorReady, pose, bad)

Init == MoveInit
Next == Iterate \/ Restart

\* The control loop keeps calling the routine, and the gravity model does
\* not fail for ever.
Spec == Init /\ [][Next]_vars /\ WF_vars(Home)

-----------------------------------------------------------------------------
(***************************************************************************)
(* A ready move is over within a bounded number of iterations however the  *)
(* joints oscillate around the tolerance window: the budget is overrun by  *)
(* at most the arrival confirmation ("the hard backstop" of                *)
(* ready_move_budget_spend() in move_to_ready_position()).                 *)
(***************************************************************************)
MoveIsBounded ==
    ~isReadyArm /\ initCount = 1 => budgetUsed <= Budget + ConfirmCount

(***************************************************************************)
(* The routine always gets the arm to its ready state, whatever joints     *)
(* lag, stick, refuse their commands or are failed: it "cannot loop        *)
(* forever" (comment at the head of move_to_ready_position()).             *)
(***************************************************************************)
HomingTerminates == ~isReadyArm ~> isReadyArm

(***************************************************************************)
(* Refusals run out: a joint that refuses its command fails at most one    *)
(* call of the routine, in this ready move or a later one, because it is   *)
(* set aside for good ("Mark this joint failed so future iterations skip   *)
(* it").  So from some point on every homing iteration succeeds and the    *)
(* joints that are left get home, however many of the others refuse and in *)
(* whatever order.  In PARALLEL mode the refusal of the last joint that is *)
(* left does fail the call, so the property cannot ask for more; an        *)
(* iteration that changes nothing is a failure of the gravity model.       *)
(***************************************************************************)
RefusalsRunOut ==
    <>[][~isReadyArm /\ <<moveVars, failed>>' # <<moveVars, failed>>
           => rc' = "SUCCESS"]_vars
=============================================================================
