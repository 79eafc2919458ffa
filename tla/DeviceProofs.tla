---------------------------- MODULE DeviceProofs ----------------------------
(***************************************************************************)
(* The ready move keeps its types and its bound, in both moving modes; the *)
(* control loop keeps its types, its recovery is isolated from outside     *)
(* targets and no stale target survives a ready move, for every number of  *)
(* joints, every role, arm type and moving mode, every set of faults and   *)
(* commands and every timeout.  What the joints do as ordered (their       *)
(* modes, their targets and the errors of a healthy arm) is proved with    *)
(* the conditions that it needs on the arm, its faults and its commands.   *)
(***************************************************************************)
EXTENDS Device, TLAPS

-----------------------------------------------------------------------------
(***************************************************************************)
(* The ready move.                                                         *)
(***************************************************************************)

(***************************************************************************)
(* The inductive strengthening.  Neither the types nor the bound are       *)
(* inductive: a move may overrun its budget only while the joints stay     *)
(* inside the tolerance window, and every such iteration is also counted   *)
(* by the arrival confirmation.                                            *)
(***************************************************************************)
MoveUnderway == ~isReadyArm /\ initCount = 1

BudgetPaced ==
    MoveUnderway =>
        /\ reachedCnt <= ConfirmCount
        /\ MovingMode = "PARALLEL"   => budgetUsed <= Budget + reachedCnt
        /\ MovingMode = "SEQUENTIAL" => budgetUsed <= Budget

MoveInv == TypeOK /\ BudgetPaced

(***************************************************************************)
(* The first and the last joint of a set are joints of that set.           *)
(***************************************************************************)
LEMMA EndsInside ==
    ASSUME NEW S
    PROVE  FirstOf(S) \subseteq S /\ LastOf(S) \subseteq S
  BY DEF FirstOf, LastOf

(***************************************************************************)
(* The counters that an iteration starts from, after the init block.       *)
(***************************************************************************)
LEMMA StartCounters ==
    ASSUME MoveInv, ~isReadyArm
    PROVE  /\ UsedBefore \in Nat
           /\ ReachedBefore \in 0 .. ConfirmCount
           /\ MovingMode = "PARALLEL" => UsedBefore <= Budget + ReachedBefore
           /\ MovingMode = "SEQUENTIAL" => UsedBefore <= Budget
  BY BudgetAssumption, ConfirmCountAssumption
  DEF MoveInv, TypeOK, BudgetPaced, MoveUnderway, UsedBefore, ReachedBefore

LEMMA JointTypes == Joints \subseteq Servos /\ NoServo \notin Servos
  BY NumJointsAssumption DEF Joints, Servos, NoServo

(***************************************************************************)
(* Advancing to the next joint of the SEQUENTIAL move.                     *)
(***************************************************************************)
LEMMA AdvanceTypes ==
    ASSUME TypeOK, AdvanceJoint
    PROVE  /\ movingIndex' \in Joints
           /\ isReadyArm' \in BOOLEAN
           /\ reachedCnt' = 0
  BY NumJointsAssumption DEF TypeOK, AdvanceJoint, Joints

LEMMA ParallelStep ==
    ASSUME MoveInv, ~isReadyArm, MovingMode = "PARALLEL",
           NEW recovering \in BOOLEAN, NEW effectorReady \in BOOLEAN,
           NEW pose \in [Joints -> Poses], NEW bad \in SUBSET Joints,
           ParallelIteration(recovering, effectorReady, pose, bad)
    PROVE  MoveInv'
  <1> DEFINE responsive == Joints \ failed
             lagging    == {j \in responsive : pose[j] = "lagging"}
             stuck      == {j \in responsive : pose[j] = "stuck"}
             refused    == responsive \cap bad
             used       == UsedBefore + 1
             reached    == IF lagging # {} THEN 0
                           ELSE IF responsive = {} THEN ReachedBefore
                           ELSE ReachedBefore + 1
             arrived    == \/ responsive = {}
                           \/ lagging = {} /\ reached > ConfirmCount
                           \/ lagging # {} /\ BudgetExhausted(used)
  <1>1. /\ failed' = failed \cup refused
        /\ lastFailed' \in ParallelBlame(arrived, lagging, stuck, refused)
        /\ budgetUsed' = used
        /\ reachedCnt' = reached
        /\ isReadyArm' = arrived
        /\ ReadyOnceArmIs(recovering, effectorReady)
        /\ initCount' = 1
        /\ rc' \in {"FAIL", "SUCCESS"}
        /\ movingIndex' = movingIndex
    BY DEF ParallelIteration, MarkFailed
  <1>2. /\ UsedBefore \in Nat
        /\ ReachedBefore \in 0 .. ConfirmCount
        /\ UsedBefore <= Budget + ReachedBefore
    BY StartCounters
  <1>3. /\ reached \in 0 .. ConfirmCount + 1
        /\ used \in 0 .. Budget + ConfirmCount + 1
    <2>1. reached \in 0 .. ConfirmCount + 1
      BY <1>2, ConfirmCountAssumption
    <2>2. used \in 0 .. Budget + ConfirmCount + 1
      BY <1>2, ConfirmCountAssumption, BudgetAssumption
    <2> QED BY <2>1, <2>2
  <1>4. ~arrived => reached <= ConfirmCount /\ used <= Budget + reached
    <2> SUFFICES ASSUME ~arrived
                 PROVE  reached <= ConfirmCount /\ used <= Budget + reached
      OBVIOUS
    <2>1. CASE lagging # {}
      <3>1. reached = 0 /\ ~BudgetExhausted(used)
        BY <2>1
      <3> QED BY <3>1, <1>2, ConfirmCountAssumption, BudgetAssumption DEF BudgetExhausted
    <2>2. CASE lagging = {}
      <3>1. responsive # {} /\ reached = ReachedBefore + 1 /\ ~(reached > ConfirmCount)
        BY <2>2
      <3> HIDE DEF reached, arrived, lagging, responsive
      <3> QED BY <3>1, <1>2, ConfirmCountAssumption, BudgetAssumption
    <2> QED BY <2>1, <2>2
  <1>5. arrived \in BOOLEAN
    BY DEF BudgetExhausted
  <1>6. lastFailed' \in Servos \cup {NoServo}
    <2>1. lagging \subseteq Servos /\ stuck \subseteq Servos /\ refused \subseteq Servos
      BY JointTypes
    <2>2. FirstOf(stuck) \subseteq Servos /\ LastOf(refused) \subseteq Servos
      BY <2>1, EndsInside
    <2>3. lastFailed \in Servos \cup {NoServo}
      BY DEF MoveInv, TypeOK
    <2> HIDE DEF lagging, stuck, refused, arrived
    <2> QED BY <1>1, <2>1, <2>2, <2>3 DEF ParallelBlame
  <1>7. failed' \subseteq Servos
    BY <1>1, JointTypes DEF MoveInv, TypeOK
  <1>8. isReady' \in BOOLEAN
    BY <1>1 DEF ReadyOnceArmIs
  <1> HIDE DEF responsive, lagging, stuck, refused, used, reached, arrived
  <1>9. TypeOK'
    BY <1>1, <1>3, <1>5, <1>6, <1>7, <1>8 DEF MoveInv, TypeOK, Codes
  <1>10. BudgetPaced'
    BY <1>1, <1>4 DEF BudgetPaced, MoveUnderway
  <1> QED BY <1>9, <1>10 DEF MoveInv

LEMMA SequentialStep ==
    ASSUME MoveInv, ~isReadyArm, MovingMode = "SEQUENTIAL",
           NEW recovering \in BOOLEAN, NEW effectorReady \in BOOLEAN,
           NEW pose \in [Joints -> Poses], NEW bad \in SUBSET Joints,
           SequentialIteration(recovering, effectorReady, pose, bad)
    PROVE  MoveInv'
  <1>1. /\ UsedBefore \in Nat
        /\ UsedBefore <= Budget
        /\ ReachedBefore \in 0 .. ConfirmCount
    BY StartCounters
  <1>2. /\ TypeOK
        /\ movingIndex \in Servos
        /\ Budget \in Nat \ {0}
        /\ ConfirmCount \in Nat
    BY JointTypes, BudgetAssumption, ConfirmCountAssumption DEF MoveInv, TypeOK
  <1>3. CASE SkipFailedJoint(recovering, effectorReady)
    <2>1. /\ AdvanceJoint
          /\ ReadyOnceArmIs(recovering, effectorReady)
          /\ initCount' = 1
          /\ budgetUsed' = UsedBefore
          /\ rc' = "SUCCESS"
          /\ failed' = failed /\ lastFailed' = lastFailed
      BY <1>3 DEF SkipFailedJoint, servoVars
    <2>2. /\ movingIndex' \in Joints
          /\ isReadyArm' \in BOOLEAN
          /\ reachedCnt' = 0
      BY <1>2, <2>1, AdvanceTypes
    <2>3. TypeOK'
      BY <1>1, <1>2, <2>1, <2>2 DEF TypeOK, ReadyOnceArmIs, Codes
    <2>4. BudgetPaced'
      BY <1>1, <1>2, <2>1, <2>2 DEF BudgetPaced, MoveUnderway
    <2> QED BY <2>3, <2>4 DEF MoveInv
  <1>4. CASE GiveUpOnJoint
    <2>1. /\ AdvanceJoint
          /\ initCount' = 0
          /\ budgetUsed' = UsedBefore + 1
          /\ lastFailed' = movingIndex
          /\ rc' = "SUCCESS"
          /\ failed' = failed /\ isReady' = isReady
      BY <1>4 DEF GiveUpOnJoint
    <2>2. /\ movingIndex' \in Joints
          /\ isReadyArm' \in BOOLEAN
          /\ reachedCnt' = 0
      BY <1>2, <2>1, AdvanceTypes
    <2>3. TypeOK'
      BY <1>1, <1>2, <2>1, <2>2 DEF TypeOK, Codes
    <2>4. BudgetPaced'
      BY <2>1 DEF BudgetPaced, MoveUnderway
    <2> QED BY <2>3, <2>4 DEF MoveInv
  <1>5. CASE JointRefuses(bad)
    <2>1. /\ AdvanceJoint
          /\ initCount' = 0
          /\ budgetUsed' = UsedBefore + 1
          /\ failed' = failed \cup {movingIndex}
          /\ lastFailed' = movingIndex
          /\ rc' = "SUCCESS"
          /\ isReady' = isReady
      BY <1>5 DEF JointRefuses, MarkFailed
    <2>2. /\ movingIndex' \in Joints
          /\ isReadyArm' \in BOOLEAN
          /\ reachedCnt' = 0
      BY <1>2, <2>1, AdvanceTypes
    <2>3. TypeOK'
      BY <1>1, <1>2, <2>1, <2>2 DEF TypeOK, Codes
    <2>4. BudgetPaced'
      BY <2>1 DEF BudgetPaced, MoveUnderway
    <2> QED BY <2>3, <2>4 DEF MoveInv
  <1>6. CASE DriveJoint(recovering, effectorReady, pose, bad)
    <2> DEFINE confirmed == /\ pose[movingIndex] # "lagging"
                            /\ ReachedBefore + 1 > ConfirmCount
    <2>1. /\ ~BudgetExhausted(UsedBefore + 1)
          /\ \/ confirmed /\ AdvanceJoint
             \/ /\ ~confirmed
                /\ reachedCnt' = IF pose[movingIndex] = "lagging"
                                 THEN ReachedBefore ELSE ReachedBefore + 1
                /\ movingIndex' = movingIndex
                /\ isReadyArm' = isReadyArm
          /\ lastFailed' \in {movingIndex, lastFailed}
          /\ ReadyOnceArmIs(recovering, effectorReady)
          /\ initCount' = 1
          /\ budgetUsed' = UsedBefore + 1
          /\ rc' = "SUCCESS"
          /\ failed' = failed
      BY <1>6 DEF DriveJoint
    <2>2. /\ movingIndex' \in Joints
          /\ isReadyArm' \in BOOLEAN
          /\ reachedCnt' \in 0 .. ConfirmCount
      <3>1. CASE confirmed /\ AdvanceJoint
        BY <3>1, <1>2, AdvanceTypes
      <3>2. CASE ~confirmed /\ ~AdvanceJoint
        BY <3>2, <2>1, <1>1, <1>2 DEF TypeOK
      <3>3. CASE ~confirmed /\ AdvanceJoint
        BY <3>3, <1>2, AdvanceTypes
      <3> QED BY <2>1, <3>1, <3>2, <3>3
    <2>3. budgetUsed' \in 0 .. Budget
      BY <1>1, <1>2, <2>1 DEF BudgetExhausted
    <2>4. TypeOK'
      BY <1>2, <2>1, <2>2, <2>3 DEF TypeOK, ReadyOnceArmIs, Codes
    <2>5. BudgetPaced'
      BY <1>2, <2>2, <2>3 DEF BudgetPaced, MoveUnderway
    <2> QED BY <2>4, <2>5 DEF MoveInv
  <1> QED BY <1>3, <1>4, <1>5, <1>6 DEF SequentialIteration

LEMMA MaintainStep ==
    ASSUME MoveInv,
           NEW recovering \in BOOLEAN, NEW effectorReady \in BOOLEAN,
           NEW bad, MaintainPosition(recovering, effectorReady, bad)
    PROVE  MoveInv'
  <1>1. TypeOK'
    <2>1. isReady' \in BOOLEAN
      BY DEF MaintainPosition, MoveInv, TypeOK, ReadyOnceArmIs
    <2>2. initCount' \in 0 .. 1 /\ rc' \in Codes
      BY DEF MaintainPosition, MoveInv, TypeOK, Codes
    <2>3. /\ isReadyArm' = isReadyArm
          /\ reachedCnt' = reachedCnt
          /\ movingIndex' = movingIndex
          /\ budgetUsed' = budgetUsed
          /\ failed' = failed
          /\ lastFailed' = lastFailed
      BY DEF MaintainPosition, servoVars
    <2> QED BY <2>1, <2>2, <2>3 DEF MoveInv, TypeOK
  <1>2. BudgetPaced'
    BY DEF MaintainPosition, MoveInv, BudgetPaced, MoveUnderway
  <1> QED BY <1>1, <1>2 DEF MoveInv

(***************************************************************************)
(* The whole routine, as every caller uses it: with any pose, any refused  *)
(* commands, in or out of recovery.                                        *)
(***************************************************************************)
LEMMA MoveStep ==
    ASSUME MoveInv,
           NEW recovering \in BOOLEAN, NEW effectorReady \in BOOLEAN,
           NEW pose \in [Joints -> Poses], NEW bad \in SUBSET Joints,
           MoveToReadyPosition(recovering, effectorReady, pose, bad)
    PROVE  MoveInv'
  <1>1. CASE FeedforwardFails
    BY <1>1 DEF FeedforwardFails, MoveInv, TypeOK, BudgetPaced, MoveUnderway,
                moveVars, servoVars, Codes
  <1>2. CASE HomingIteration(recovering, effectorReady, pose, bad)
    <2>1. ~isReadyArm
      BY <1>2 DEF HomingIteration
    <2>2. CASE MovingMode = "PARALLEL"
      BY <1>2, <2>1, <2>2, ParallelStep DEF HomingIteration
    <2>3. CASE MovingMode = "SEQUENTIAL"
      BY <1>2, <2>1, <2>3, SequentialStep DEF HomingIteration
    <2> QED BY <2>2, <2>3, MovingModeAssumption
  <1>3. CASE MaintainPosition(recovering, effectorReady, bad)
    BY <1>3, MaintainStep
  <1> QED BY <1>1, <1>2, <1>3 DEF MoveToReadyPosition

LEMMA ResetStep ==
    ASSUME MoveInv, ResetReady,
           failed' = failed, lastFailed' = lastFailed, rc' \in Codes
    PROVE  MoveInv'
  <1>1. 1 \in Joints /\ 0 \in 0 .. ConfirmCount + 1 /\ 0 \in 0 .. 1
    BY NumJointsAssumption, ConfirmCountAssumption DEF Joints
  <1>2. TypeOK'
    BY <1>1, Zenon DEF ResetReady, MoveInv, TypeOK
  <1>3. BudgetPaced'
    BY DEF ResetReady, BudgetPaced, MoveUnderway
  <1> QED BY <1>2, <1>3 DEF MoveInv

LEMMA SkipStep ==
    ASSUME MoveInv, SkipHoming
    PROVE  MoveInv'
  BY DEF SkipHoming, MoveInv, TypeOK, BudgetPaced, MoveUnderway, servoVars, Codes

LEMMA MoveInitially == MoveInit => MoveInv
  <1>1. /\ 1 \in Joints
        /\ 0 \in 0 .. 1
        /\ 0 \in 0 .. ConfirmCount + 1
        /\ 0 \in 0 .. Budget + ConfirmCount + 1
    BY NumJointsAssumption, ConfirmCountAssumption, BudgetAssumption DEF Joints
  <1>2. MoveInit => TypeOK
    BY <1>1, Zenon DEF MoveInit, TypeOK, Codes
  <1>3. MoveInit => BudgetPaced
    BY DEF MoveInit, BudgetPaced, MoveUnderway
  <1> QED BY <1>2, <1>3 DEF MoveInv

(***************************************************************************)
(* move_to_ready_position() keeps every counter in its range, and its      *)
(* inductive invariant, for every instance of the constants.               *)
(***************************************************************************)
THEOREM MoveInvariant == Spec => []MoveInv
  <1>1. Init => MoveInv
    BY MoveInitially DEF Init
  <1>2. MoveInv /\ [Next]_vars => MoveInv'
    <2> SUFFICES ASSUME MoveInv, [Next]_vars PROVE MoveInv'
      OBVIOUS
    <2>1. CASE Iterate
      <3>1. PICK pose \in [Joints -> Poses], bad \in RefusedCommands,
                 effectorReady \in BOOLEAN :
                 MoveToReadyPosition(FALSE, effectorReady, pose, bad)
        BY <2>1 DEF Iterate
      <3>2. bad \in SUBSET Joints
        BY DEF RefusedCommands
      <3> QED BY <3>1, <3>2, MoveStep
    <2>2. CASE Restart
      BY <2>2, ResetStep DEF Restart, servoVars, MoveInv, TypeOK
    <2>3. CASE UNCHANGED vars
      BY <2>3 DEF vars, moveVars, servoVars, MoveInv, TypeOK, BudgetPaced, MoveUnderway
    <2> QED BY <2>1, <2>2, <2>3 DEF Next
  <1> QED BY <1>1, <1>2, PTL DEF Spec

(***************************************************************************)
(* Types of the ready move.                                                *)
(***************************************************************************)
THEOREM MoveTypes == Spec => []TypeOK
  <1>1. MoveInv => TypeOK
    BY DEF MoveInv
  <1> QED BY <1>1, MoveInvariant, PTL

(***************************************************************************)
(* A ready move overruns its budget by at most the arrival confirmation:   *)
(* ready_move_budget_spend() is a hard backstop for every budget.          *)
(***************************************************************************)
THEOREM MoveBounded == Spec => []MoveIsBounded
  <1>1. MoveInv => MoveIsBounded
    BY MovingModeAssumption, BudgetAssumption, ConfirmCountAssumption
    DEF MoveInv, TypeOK, BudgetPaced, MoveUnderway, MoveIsBounded
  <1> QED BY <1>1, MoveInvariant, PTL

-----------------------------------------------------------------------------
(***************************************************************************)
(* The control loop.                                                       *)
(***************************************************************************)
LoopTypes ==
    /\ pc \in Phases
    /\ bulk \in BulkReads
    /\ effReady \in BOOLEAN
    /\ paused \in BOOLEAN
    /\ running \in BOOLEAN
    /\ signal \in BOOLEAN
    /\ stepAge \in 0 .. ShutdownTimeout
    /\ lost \subseteq Joints

CommandTypes ==
    /\ cmd \in {"IDLE", "REQUESTED", "MOVING"}
    /\ requestId \in 0 .. MaxMoves
    /\ completedId \in 0 .. MaxMoves
    /\ stopAfter \in BOOLEAN

ModeTypes ==
    /\ torque \subseteq Joints
    /\ gravityFloat \in BOOLEAN
    /\ forceFeedback \in BOOLEAN
    /\ crossed \in BOOLEAN

InputTypes ==
    /\ tele \in Targets
    /\ followerSeen \in BOOLEAN
    /\ moves \in 0 .. MaxMoves
    /\ accepted \in 0 .. MaxMoves

ClientTypes ==
    /\ clientSeen \in BOOLEAN
    /\ tripped \in BOOLEAN
    /\ clientAge \in 0 .. ClientTimeout

AnnounceTypes ==
    /\ informed \in BOOLEAN
    /\ announceLeft \in 0 .. AnnounceLoops
    /\ readyMsg \in 0 .. MaxMoves

RecoveryTypes ==
    /\ em \in {"NONE", "REQUESTED", "MOVING_SLOW", "COMPLETED"}
    /\ slow \in BOOLEAN
    /\ errors = IF em = "NONE" THEN 0 ELSE 1
    /\ shutdowns = IF em = "COMPLETED" THEN 1 ELSE 0

Types == /\ LoopTypes /\ CommandTypes /\ ModeTypes /\ InputTypes
         /\ ClientTypes /\ AnnounceTypes /\ RecoveryTypes

\* A recovery that is only requested waits for the next step to begin.
RecoveryBegins ==
    em = "REQUESTED" => pc \in {"loop", "prepare", "stop", "done"}

DeviceInv == /\ MoveInv /\ Types
             /\ RecoveryIsolated /\ NoStaleTarget /\ RecoveryBegins

-----------------------------------------------------------------------------
(***************************************************************************)
(* The operators the actions are built from.                               *)
(***************************************************************************)
LEMMA ModeSwitchTypes ==
    ASSUME ModeTypes,
           \/ \E f \in BOOLEAN : SetControlMode(f)
           \/ EnterGravityFloat
           \/ EndGravityFloat
    PROVE  torque' \subseteq Joints /\ gravityFloat' \in BOOLEAN
  <1>1. /\ \A k \in SwitchedJoints : k \in 0 .. NumJoints
        /\ \A k \in SwitchedJoints, f \in BOOLEAN : ModeAfter(f, k) \subseteq Joints
    BY NumJointsAssumption DEF SwitchedJoints, ModeAfter, ModeTypes, Joints
  <1>2. CASE \E f \in BOOLEAN : SetControlMode(f)
    <2>1. PICK f \in BOOLEAN, k \in SwitchedJoints :
              /\ torque' = ModeAfter(f, k)
              /\ gravityFloat' = (gravityFloat /\ ~(f /\ ArmType = "controller"))
      BY <1>2 DEF SetControlMode
    <2> QED BY <1>1, <2>1
  <1>3. CASE EnterGravityFloat
    BY <1>1, <1>3 DEF EnterGravityFloat
  <1>4. CASE EndGravityFloat
    <2>1. PICK k \in SwitchedJoints :
              torque' = ModeAfter(TRUE, k) /\ gravityFloat' = (k # NumJoints)
      BY <1>4 DEF EndGravityFloat
    <2>2. torque' \subseteq Joints
      BY <1>1, <2>1
    <2>3. gravityFloat' \in BOOLEAN
      BY <2>1, Zenon
    <2> QED BY <2>2, <2>3
  <1> QED BY <1>2, <1>3, <1>4

LEMMA RefusalTypes ==
    ASSUME ModeTypes
    PROVE  PositionRefusals \subseteq SUBSET Joints /\ TorqueRefusals \subseteq SUBSET Joints
  BY DEF PositionRefusals, TorqueRefusals, Refusals, RefusedCommands, ModeTypes

LEMMA GroupReadTypes ==
    ASSUME NEW group \in GroupReads
    PROVE  group.ok \in BOOLEAN /\ group.dead \subseteq Servos
  <1>1. BusServos \subseteq Servos
    BY NumJointsAssumption DEF BusServos, Servos, Joints, EffectorServo
  <1>2. CASE group \in {[ok |-> TRUE, dead |-> {}]}
    <2>1. group.ok = TRUE /\ group.dead = {}
      BY <1>2
    <2> QED BY <2>1, Zenon
  <1>3. CASE group \in {[ok |-> d = {}, dead |-> d] : d \in SUBSET BusServos}
    <2>1. PICK d \in SUBSET BusServos : group = [ok |-> d = {}, dead |-> d]
      BY <1>3
    <2>2. group.ok = (d = {}) /\ group.dead = d
      BY <2>1
    <2> QED BY <1>1, <2>2, Zenon
  <1>4. CASE group \in {[ok |-> b, dead |-> {}] : b \in BOOLEAN}
    BY <1>4
  <1>5. CASE group \in {[ok |-> FALSE, dead |-> d] : d \in SUBSET BusServos}
    <2>1. PICK d \in SUBSET BusServos : group = [ok |-> FALSE, dead |-> d]
      BY <1>5
    <2>2. group.ok = FALSE /\ group.dead = d
      BY <2>1
    <2> QED BY <1>1, <2>2, Zenon
  <1> QED BY <1>2, <1>3, <1>4, <1>5 DEF GroupReads

LEMMA ReadStepTypes ==
    ASSUME DeviceInv,
           NEW code \in [Joints -> ReadCodes], NEW group \in GroupReads,
           ReadHardwareValues(code, group)
    PROVE  /\ failed' \subseteq Servos
           /\ lastFailed' \in Servos \cup {NoServo}
           /\ rc' \in Codes
           /\ bulk' \in BulkReads
           /\ lost' \subseteq Joints
  <1>1. /\ group.ok \in BOOLEAN
        /\ group.dead \subseteq Servos
        /\ failed \subseteq Servos
        /\ lastFailed \in Servos \cup {NoServo}
        /\ lost \subseteq Joints
        /\ Joints \subseteq Servos
    BY GroupReadTypes, JointTypes DEF DeviceInv, MoveInv, TypeOK, Types, LoopTypes
  <1>2. \A j \in Joints : code[j] \in Codes
    BY DEF ReadCodes, Codes
  <1>3. bulk' \in BulkReads /\ lost' \subseteq Joints
    BY <1>1 DEF ReadHardwareValues, BulkReads
  <1>4. CASE TolerantRead(code, group.dead)
    <2> DEFINE skipped == failed \cup group.dead
               read    == Joints \ skipped
               hard    == {j \in read : Hard(code, j)}
               gone    == {j \in read : Gone(code, j)}
    <2>1. /\ failed' = skipped \cup gone
          /\ lastFailed' \in IF hard # {} THEN LastOf(hard)
                             ELSE IF group.dead # {} THEN FirstOf(group.dead)
                             ELSE {lastFailed}
          /\ rc' \in IF read # {} /\ read = gone THEN {code[j] : j \in LastOf(read)}
                     ELSE {"SUCCESS"}
      BY <1>4 DEF TolerantRead
    <2>2. /\ LastOf(hard) \subseteq Joints
          /\ LastOf(read) \subseteq Joints
          /\ FirstOf(group.dead) \subseteq Servos
      BY <1>1, EndsInside
    <2>3. gone \subseteq Servos /\ skipped \subseteq Servos
      BY <1>1
    <2> HIDE DEF skipped, read, hard, gone
    <2>4. failed' \subseteq Servos /\ lastFailed' \in Servos \cup {NoServo}
      BY <1>1, <2>1, <2>2, <2>3
    <2>5. rc' \in Codes
      BY <1>2, <2>1, <2>2 DEF Codes
    <2> QED BY <1>3, <2>4, <2>5
  <1>5. CASE StrictRead(code, group.dead)
    <2> DEFINE read == Joints \ failed
               hard == {j \in read : Hard(code, j)}
               soft == {j \in read : code[j] = "SOFT"}
    <2>1. /\ failed' = failed
          /\ lastFailed' \in IF hard # {} THEN FirstOf(hard)
                             ELSE IF soft # {} THEN LastOf(soft)
                             ELSE IF group.dead # {} THEN FirstOf(group.dead)
                             ELSE {lastFailed}
          /\ rc' \in IF hard # {} THEN {code[j] : j \in FirstOf(hard)}
                     ELSE IF group.dead # {} THEN {"FAIL"}
                     ELSE IF soft # {} THEN {"SOFT"}
                     ELSE {"SUCCESS"}
      BY <1>5 DEF StrictRead
    <2>2. /\ FirstOf(hard) \subseteq Joints
          /\ LastOf(soft) \subseteq Joints
          /\ FirstOf(group.dead) \subseteq Servos
      BY <1>1, EndsInside
    <2> HIDE DEF read, hard, soft
    <2>3. failed' \subseteq Servos /\ lastFailed' \in Servos \cup {NoServo}
      BY <1>1, <2>1, <2>2
    <2>4. rc' \in Codes
      BY <1>2, <2>1, <2>2 DEF Codes
    <2> QED BY <1>3, <2>3, <2>4
  <1> QED BY <1>4, <1>5 DEF ReadHardwareValues

(***************************************************************************)
(* One ready-move iteration of the device, skipped or not.                 *)
(***************************************************************************)
LEMMA ReadyMoveStepSafe ==
    ASSUME DeviceInv, ReadyMoveStep
    PROVE  MoveInv' /\ tele' \in {"held", tele}
  <1>1. CASE SkipStartupMove
    BY <1>1, SkipStep DEF SkipStartupMove, ClearCommandBuffers, DeviceInv
  <1>2. CASE /\ \E pose \in [Joints -> Poses], bad \in PositionRefusals :
                   MoveToReadyPosition(Recovering, effReady, pose, bad)
             /\ UNCHANGED tele
    <2>1. PICK pose \in [Joints -> Poses], bad \in PositionRefusals :
              MoveToReadyPosition(Recovering, effReady, pose, bad)
      BY <1>2
    <2>2. bad \in SUBSET Joints
      BY RefusalTypes DEF DeviceInv, Types
    <2>3. Recovering \in BOOLEAN /\ effReady \in BOOLEAN
      BY DEF Recovering, DeviceInv, Types, LoopTypes
    <2>4. MoveInv
      BY DEF DeviceInv
    <2>5. MoveInv'
      BY <2>1, <2>2, <2>3, <2>4, MoveStep
    <2> QED BY <1>2, <2>5
  <1> QED BY <1>1, <1>2 DEF ReadyMoveStep

-----------------------------------------------------------------------------
(***************************************************************************)
(* Only mode commands set the mark of a crossed move, and the beginning    *)
(* and the end of a move clear it.                                         *)
(***************************************************************************)
LEMMA CrossedSteps ==
    ASSUME DeviceNext
    PROVE  \/ crossed' = crossed
           \/ crossed' = FALSE
           \/ crossed' = ~isReady
  <1> USE DEF modeVars
  <1>1. CASE \/ StartRead \/ StartHold \/ StartMove \/ Tick \/ Signal \/ ExitLoop \/ Read
             \/ NothingToPrepare \/ Write \/ NoCommand \/ ReceiveJoints \/ KeepWatching
             \/ StepEffector \/ Check \/ Stop \/ Terminated
    BY <1>1 DEF StartRead, StartHold, StartMove, Tick, Signal, ExitLoop, Read,
                NothingToPrepare, Write, NoCommand, ReceiveJoints, KeepWatching,
                StepEffector, Check, Stop, Terminated, deviceVars
  <1>2. CASE \/ Heartbeat \/ StopCommand
             \/ \E c \in Commands : DropCommand(c) \/ PauseOrResume(c)
             \/ \E c \in Commands, id \in 1 .. MaxMoves : MoveCommand(c, id)
    BY <1>2 DEF Heartbeat, StopCommand, DropCommand, PauseOrResume, MoveCommand
  <1>3. CASE OperateAsLeader \/ OperateAsFollower \/ FloatAsFollower \/ StopRunaway
    BY <1>3, Zenon DEF OperateAsLeader, OperateAsFollower, FloatAsFollower, StopRunaway,
                       AfterOperation
  <1>4. CASE Prepare \/ TimeOut
    BY <1>4, Zenon DEF Prepare, TimeOut, BeginReadyMove
  <1>5. CASE MoveReady \/ Restore
    BY <1>5, Zenon DEF MoveReady, Restore, RestoreNormalOperation
  <1>6. CASE GravityCommand \/ ForceFeedbackCommand \/ HoldCommand \/ LoseClient
    BY <1>6, Zenon DEF GravityCommand, ForceFeedbackCommand, HoldCommand, LoseClient
  <1> QED
    BY <1>1, <1>2, <1>3, <1>4, <1>5, <1>6
       DEF DeviceNext, ControlLoop, StepPhase, CommandPhase, MainPhase

(***************************************************************************)
(* The types, action by action.                                            *)
(***************************************************************************)
LEMMA TypesStep ==
    ASSUME DeviceInv, DeviceNext
    PROVE  Types'
  <1>0. crossed' \in BOOLEAN
    <2>1. crossed \in BOOLEAN
      BY DEF DeviceInv, Types, ModeTypes
    <2>2. crossed' = crossed \/ crossed' = FALSE \/ crossed' = ~isReady
      BY CrossedSteps
    <2> QED BY <2>1, <2>2, Zenon
  <1> USE <1>0
  <1> USE DEF DeviceInv, Types, LoopTypes, CommandTypes, ModeTypes, InputTypes,
              ClientTypes, AnnounceTypes, RecoveryTypes, Phases, Targets,
              commandVars, modeVars, recoveryVars, clientVars, announceVars,
              inputVars
  <1>1. CASE StartHold
    BY <1>1 DEF StartHold
  <1>2. CASE Signal
    BY <1>2 DEF Signal
  <1>3. CASE ExitLoop
    BY <1>3 DEF ExitLoop
  <1>4. CASE NothingToPrepare
    BY <1>4 DEF NothingToPrepare
  <1>5. CASE Write
    BY <1>5 DEF Write
  <1>6. CASE NoCommand
    BY <1>6 DEF NoCommand
  <1>7. CASE Terminated
    BY <1>7 DEF Terminated, deviceVars
  <1>8. CASE ReceiveJoints
    <2>1. followerSeen' \in BOOLEAN
      BY <1>8, Zenon DEF ReceiveJoints
    <2>2. tele' \in Targets
      BY <1>8 DEF ReceiveJoints
    <2> QED BY <1>8, <2>1, <2>2 DEF ReceiveJoints
  <1>9. CASE OperateAsLeader \/ OperateAsFollower \/ FloatAsFollower
    BY <1>9 DEF OperateAsLeader, OperateAsFollower, FloatAsFollower, AfterOperation
  <1>10. CASE StopRunaway
    <2>1. torque' \subseteq Joints /\ gravityFloat' \in BOOLEAN
      BY <1>10, ModeSwitchTypes DEF StopRunaway
    <2> QED BY <1>10, <2>1 DEF StopRunaway, AfterOperation, ClearCommandBuffers
  <1>11. CASE KeepWatching
    BY <1>11, TimeoutAssumption DEF KeepWatching, EndOfStep
  <1>12. CASE LoseClient
    <2>1. tripped' \in BOOLEAN /\ paused' \in BOOLEAN /\ forceFeedback' \in BOOLEAN
      <3>1. tripped' = TRUE
        BY <1>12 DEF LoseClient
      <3>2. paused' \in {TRUE, paused} /\ forceFeedback' \in {FALSE, forceFeedback}
        BY <1>12, Zenon DEF LoseClient
      <3> QED BY <3>1, <3>2, Zenon
    <2>2. torque' \subseteq Joints /\ gravityFloat' \in BOOLEAN
      BY <1>12, ModeSwitchTypes DEF LoseClient, RuntimeHold
    <2>3. tele' \in Targets
      BY <1>12 DEF LoseClient, RuntimeHold
    <2> QED BY <1>12, <2>1, <2>2, <2>3, TimeoutAssumption DEF LoseClient, EndOfStep
  <1>13. CASE StepEffector
    <2>1. effReady' \in BOOLEAN
      BY <1>13, Zenon DEF StepEffector
    <2> QED BY <1>13, <2>1 DEF StepEffector
  <1>14. CASE Check
    <2>1. informed' \in BOOLEAN
      BY <1>14, Zenon DEF Check, AnnounceReady
    <2>2. slow' \in BOOLEAN /\ paused' \in BOOLEAN
      BY <1>14, Zenon DEF Check, EnterEmergencyRecovery
    <2>3. announceLeft' \in 0 .. AnnounceLoops /\ readyMsg' \in 0 .. MaxMoves
      BY <1>14, AnnounceAssumption, MaxMovesAssumption DEF Check, AnnounceReady
    <2>4. RecoveryTypes'
      BY <1>14, <2>2 DEF Check, EnterEmergencyRecovery, Recovering
    <2>5. pc' \in Phases
      BY <1>14 DEF Check, AnnounceReady
    <2> QED BY <1>14, <2>1, <2>2, <2>3, <2>4, <2>5 DEF Check
  <1>15. CASE Stop
    <2>1. running' \in BOOLEAN
      BY <1>15, Zenon DEF Stop
    <2> QED BY <1>15, <2>1 DEF Stop
  <1>16. CASE Heartbeat
    <2>1. clientSeen' \in BOOLEAN /\ tripped' \in BOOLEAN
      BY <1>16, Zenon DEF Heartbeat
    <2> QED BY <1>16, <2>1, TimeoutAssumption DEF Heartbeat, Receives
  <1>17. CASE StopCommand
    <2>1. running' \in BOOLEAN
      BY <1>17, Zenon DEF StopCommand
    <2> QED BY <1>17, <2>1 DEF StopCommand, Receives
  <1>18. CASE \E c \in Commands : DropCommand(c)
    BY <1>18 DEF DropCommand, Receives
  <1>19. CASE \E c \in Commands : PauseOrResume(c)
    <2>1. paused' \in BOOLEAN
      BY <1>19, Zenon DEF PauseOrResume
    <2> QED BY <1>19, <2>1 DEF PauseOrResume, Receives
  <1>20. CASE \E c \in Commands, id \in 1 .. MaxMoves : MoveCommand(c, id)
    <2>1. PICK c \in Commands, id \in 1 .. MaxMoves : MoveCommand(c, id)
      BY <1>20
    <2>2. effReady' \in BOOLEAN /\ stopAfter' \in BOOLEAN /\ paused' \in BOOLEAN
      <3>1. effReady' = FALSE
        BY <2>1 DEF MoveCommand, RequestMoveToReady
      <3>2. stopAfter' = (stopAfter \/ c = "MOVE_TO_READY_AND_STOP")
        BY <2>1 DEF MoveCommand, RequestMoveToReady
      <3>3. paused' = (paused \/ (Role = "FOLLOWER" /\ c # "MOVE_TO_READY_POS"))
        BY <2>1 DEF MoveCommand
      <3> QED BY <3>1, <3>2, <3>3, Zenon
    <2>3. /\ requestId' \in 0 .. MaxMoves /\ completedId' \in 0 .. MaxMoves
          /\ moves' \in 0 .. MaxMoves /\ accepted' \in 0 .. MaxMoves
      BY <2>1, MaxMovesAssumption DEF MoveCommand, RequestMoveToReady
    <2>4. tele' \in Targets /\ cmd' = "REQUESTED"
      BY <2>1 DEF MoveCommand, RequestMoveToReady
    <2> QED BY <2>1, <2>2, <2>3, <2>4 DEF MoveCommand, Receives
  <1>21. CASE GravityCommand
    <2>1. torque' \subseteq Joints /\ gravityFloat' \in BOOLEAN
      BY <1>21, ModeSwitchTypes DEF GravityCommand
    <2>2. forceFeedback' \in BOOLEAN
      BY <1>21, Zenon DEF GravityCommand
    <2> QED BY <1>21, <2>1, <2>2 DEF GravityCommand, Receives
  <1>22. CASE ForceFeedbackCommand
    <2>1. torque' \subseteq Joints /\ gravityFloat' \in BOOLEAN
      BY <1>22, ModeSwitchTypes DEF ForceFeedbackCommand
    <2>2. forceFeedback' \in BOOLEAN
      <3>1. forceFeedback' \in {TRUE, forceFeedback}
        BY <1>22 DEF ForceFeedbackCommand
      <3> QED BY <3>1, Zenon
    <2> QED BY <1>22, <2>1, <2>2 DEF ForceFeedbackCommand, Receives
  <1>23. CASE HoldCommand
    <2>1. torque' \subseteq Joints /\ gravityFloat' \in BOOLEAN
      BY <1>23, ModeSwitchTypes DEF HoldCommand, RuntimeHold
    <2>2. tele' \in Targets
      BY <1>23 DEF HoldCommand, RuntimeHold
    <2> QED BY <1>23, <2>1, <2>2 DEF HoldCommand, Receives
  <1>24. CASE Tick
    BY <1>24, TimeoutAssumption DEF Tick
  <1>25. CASE StartRead
    <2>1. bulk' \in BulkReads /\ lost' \subseteq Joints
      BY <1>25, ReadStepTypes DEF StartRead
    <2> QED BY <1>25, <2>1 DEF StartRead
  <1>26. CASE Read
    <2>1. bulk' \in BulkReads /\ lost' \subseteq Joints
      BY <1>26, ReadStepTypes DEF Read
    <2> QED BY <1>26, <2>1 DEF Read
  <1>27. CASE StartMove
    <2>1. tele' \in Targets
      BY <1>27, ReadyMoveStepSafe DEF StartMove
    <2>2. effReady' \in BOOLEAN
      BY <1>27, Zenon DEF StartMove
    <2>3. lost' \subseteq Joints
      BY <1>27 DEF StartMove
    <2> QED BY <1>27, <2>1, <2>2, <2>3 DEF StartMove
  <1>28. CASE Prepare
    <2>1. torque' \subseteq Joints /\ gravityFloat' \in BOOLEAN
      BY <1>28, ModeSwitchTypes DEF Prepare, BeginReadyMove
    <2> QED BY <1>28, <2>1, TimeoutAssumption
            DEF Prepare, BeginReadyMove, ClearCommandBuffers
  <1>29. CASE TimeOut
    <2>1. torque' \subseteq Joints /\ gravityFloat' \in BOOLEAN
      BY <1>29, ModeSwitchTypes DEF TimeOut, BeginReadyMove
    <2>2. running' \in BOOLEAN
      BY <1>29, Zenon DEF TimeOut, CompleteRecovery
    <2>3. RecoveryTypes'
      <3>1. slow' = slow /\ em' = "COMPLETED" /\ errors' = errors /\ shutdowns' = 1
        BY <1>29 DEF TimeOut, CompleteRecovery
      <3> QED BY <1>29, <3>1 DEF TimeOut
    <2>4. tele' \in Targets /\ cmd' \in {cmd, "MOVING"}
      BY <1>29 DEF TimeOut, BeginReadyMove, ClearCommandBuffers
    <2> QED BY <1>29, <2>1, <2>2, <2>3, <2>4 DEF TimeOut
  <1>30. CASE MoveReady
    <2>1. tele' \in Targets
      BY <1>30, ReadyMoveStepSafe DEF MoveReady
    <2>2. torque' \subseteq Joints /\ gravityFloat' \in BOOLEAN
      BY <1>30, ModeSwitchTypes DEF MoveReady
    <2>3. running' \in BOOLEAN /\ RecoveryTypes'
      <3>1. CASE CompleteRecovery /\ Recovering
        <4>1. running' \in BOOLEAN
          BY <3>1, Zenon DEF CompleteRecovery
        <4>2. slow' = slow /\ em' = "COMPLETED" /\ errors' = errors /\ shutdowns' = 1
          BY <3>1 DEF CompleteRecovery
        <4> QED BY <3>1, <4>1, <4>2 DEF Recovering
      <3>2. CASE UNCHANGED <<recoveryVars, running>>
        BY <3>2
      <3> QED BY <1>30, <3>1, <3>2 DEF MoveReady, RecoveryEndsWithMove
    <2>4. effReady' \in BOOLEAN
      BY <1>30, Zenon DEF MoveReady
    <2>5. lost' \subseteq Joints
      BY <1>30 DEF MoveReady
    <2>6. CommandTypes'
      BY <1>30, MaxMovesAssumption DEF MoveReady
    <2> QED BY <1>30, <2>1, <2>2, <2>3, <2>4, <2>5, <2>6 DEF MoveReady
  <1>31. CASE Restore
    <2>1. torque' \subseteq Joints /\ gravityFloat' \in BOOLEAN
      BY <1>31, ModeSwitchTypes DEF Restore, RestoreNormalOperation
    <2>2. running' \in BOOLEAN
      BY <1>31, Zenon DEF Restore, RestoreNormalOperation
    <2> QED BY <1>31, <2>1, <2>2
            DEF Restore, RestoreNormalOperation, ClearCommandBuffers
  <1> QED
    BY <1>1, <1>2, <1>3, <1>4, <1>5, <1>6, <1>7, <1>8, <1>9, <1>10, <1>11,
       <1>12, <1>13, <1>14, <1>15, <1>16, <1>17, <1>18, <1>19, <1>20, <1>21,
       <1>22, <1>23, <1>24, <1>25, <1>26, <1>27, <1>28, <1>29, <1>30, <1>31
       DEF DeviceNext, ControlLoop, StepPhase, CommandPhase, MainPhase

-----------------------------------------------------------------------------
(***************************************************************************)
(* The ready move: an action that leaves its counters alone keeps MoveInv, *)
(* the actions that start it over are ResetStep's.                         *)
(***************************************************************************)
LEMMA MoveFrame ==
    ASSUME MoveInv, UNCHANGED moveVars, isReady' \in BOOLEAN,
           failed' \subseteq Servos, lastFailed' \in Servos \cup {NoServo},
           rc' \in Codes
    PROVE  MoveInv'
  BY DEF MoveInv, TypeOK, BudgetPaced, MoveUnderway, moveVars

LEMMA MoveInvStep ==
    ASSUME DeviceInv, DeviceNext
    PROVE  MoveInv'
  <1> USE DEF homingVars, servoVars
  <1>1. /\ MoveInv
        /\ isReady \in BOOLEAN
        /\ failed \subseteq Servos
        /\ lastFailed \in Servos \cup {NoServo}
        /\ rc \in Codes
        /\ Joints \subseteq Servos
    BY JointTypes DEF DeviceInv, MoveInv, TypeOK
  <1>2. CASE \/ Tick \/ Signal \/ ExitLoop \/ NothingToPrepare \/ Restore
             \/ NoCommand \/ ReceiveJoints \/ KeepWatching \/ LoseClient \/ Stop
             \/ Terminated
    <2>1. UNCHANGED <<isReady, moveVars, failed, lastFailed, rc>>
      BY <1>2 DEF Tick, Signal, ExitLoop, NothingToPrepare, Restore, NoCommand,
                  ReceiveJoints, KeepWatching, LoseClient, EndOfStep, Stop,
                  Terminated, deviceVars
    <2> QED BY <1>1, <2>1, MoveFrame
  <1>3. CASE \/ Heartbeat \/ StopCommand \/ GravityCommand \/ ForceFeedbackCommand
             \/ HoldCommand \/ \E c \in Commands : DropCommand(c) \/ PauseOrResume(c)
    <2>1. UNCHANGED <<isReady, moveVars, failed, lastFailed, rc>>
      BY <1>3 DEF Heartbeat, StopCommand, GravityCommand, ForceFeedbackCommand,
                  HoldCommand, DropCommand, PauseOrResume, Receives
    <2> QED BY <1>1, <2>1, MoveFrame
  <1>4. CASE \E c \in Commands, id \in 1 .. MaxMoves : MoveCommand(c, id)
    <2>1. UNCHANGED <<moveVars, failed, lastFailed, rc>>
      BY <1>4 DEF MoveCommand, Receives
    <2>2. isReady' \in BOOLEAN
      <3>1. isReady' = FALSE
        BY <1>4 DEF MoveCommand, RequestMoveToReady
      <3> QED BY <3>1, Zenon
    <2> QED BY <1>1, <2>1, <2>2, MoveFrame
  <1>5. CASE \/ OperateAsLeader \/ OperateAsFollower \/ FloatAsFollower
             \/ StopRunaway \/ Write
    <2>1. UNCHANGED <<isReady, moveVars, failed, lastFailed>>
      BY <1>5 DEF OperateAsLeader, OperateAsFollower, FloatAsFollower, StopRunaway,
                  AfterOperation, Write
    <2>2. rc' \in Codes
      BY <1>5 DEF OperateAsLeader, OperateAsFollower, FloatAsFollower, StopRunaway,
                  Write, WriteCodes, CommandCodes, Codes
    <2> QED BY <1>1, <2>1, <2>2, MoveFrame
  <1>6. CASE StepEffector
    <2>1. UNCHANGED <<isReady, moveVars, failed>>
      BY <1>6 DEF StepEffector
    <2>2. lastFailed' \in Servos \cup {NoServo} /\ rc' \in Codes
      <3>1. EffectorServo \in Servos
        BY NumJointsAssumption DEF EffectorServo, Servos
      <3> QED BY <1>1, <1>6, <3>1 DEF StepEffector, Codes
    <2> QED BY <1>1, <2>1, <2>2, MoveFrame
  <1>7. CASE Check
    <2>1. UNCHANGED <<isReady, moveVars, lastFailed, rc>>
      BY <1>7 DEF Check
    <2>2. failed' \subseteq Servos
      BY <1>1, <1>7 DEF Check, EnterEmergencyRecovery
    <2> QED BY <1>1, <2>1, <2>2, MoveFrame
  <1>8. CASE StartRead \/ Read
    <2>1. UNCHANGED <<isReady, moveVars>>
      BY <1>8 DEF StartRead, Read
    <2>2. /\ failed' \subseteq Servos
          /\ lastFailed' \in Servos \cup {NoServo}
          /\ rc' \in Codes
      BY <1>8, ReadStepTypes DEF StartRead, Read
    <2> QED BY <1>1, <2>1, <2>2, MoveFrame
  <1>9. CASE StartHold
    <2>1. UNCHANGED <<isReady, moveVars>> /\ rc' \in Codes
      BY <1>9 DEF StartHold, Codes
    <2>2. PICK unheld \in SUBSET (Joints \ failed) :
              /\ failed' = failed \cup unheld
              /\ lastFailed' \in IF unheld = {} THEN {lastFailed} ELSE LastOf(unheld)
      BY <1>9 DEF StartHold
    <2>3. unheld \subseteq Servos /\ LastOf(unheld) \subseteq Servos
      BY <1>1, EndsInside
    <2>4. failed' \subseteq Servos /\ lastFailed' \in Servos \cup {NoServo}
      BY <1>1, <2>2, <2>3
    <2> QED BY <1>1, <2>1, <2>4, MoveFrame
  <1>10. CASE StartMove \/ MoveReady
    BY <1>10, ReadyMoveStepSafe DEF StartMove, MoveReady
  <1>11. CASE Prepare
    BY <1>1, <1>11, ResetStep DEF Prepare, BeginReadyMove
  <1>12. CASE TimeOut
    <2>1. UNCHANGED servoVars /\ rc' \in Codes
      BY <1>12 DEF TimeOut, Codes
    <2>2. CASE BeginReadyMove
      BY <1>1, <2>1, <2>2, ResetStep DEF BeginReadyMove
    <2>3. CASE UNCHANGED homingVars
      BY <1>1, <2>1, <2>3, MoveFrame
    <2> QED BY <1>12, <2>2, <2>3 DEF TimeOut
  <1> QED
    BY <1>2, <1>3, <1>4, <1>5, <1>6, <1>7, <1>8, <1>9, <1>10, <1>11, <1>12
       DEF DeviceNext, ControlLoop, StepPhase, CommandPhase, MainPhase

-----------------------------------------------------------------------------
(***************************************************************************)
(* Targets: what an action does to the buffers, and when.                  *)
(***************************************************************************)
LEMMA RecoveryBeginsStep ==
    ASSUME DeviceInv, DeviceNext
    PROVE  RecoveryBegins'
  <1> USE DEF RecoveryBegins, Recovering, recoveryVars
  <1>1. RecoveryBegins
    BY DEF DeviceInv
  <1>2. CASE \/ StartRead \/ StartHold \/ StartMove \/ Restore \/ OperateAsLeader
             \/ OperateAsFollower \/ FloatAsFollower \/ StopRunaway \/ Write
             \/ NoCommand \/ ReceiveJoints \/ KeepWatching \/ LoseClient
             \/ StepEffector
    <2>1. em' = em /\ pc \notin {"loop", "prepare", "stop", "done"}
      BY <1>2 DEF StartRead, StartHold, StartMove, Restore, OperateAsLeader,
                  OperateAsFollower, FloatAsFollower, StopRunaway, Operates,
                  AfterOperation, Write, NoCommand, ReceiveJoints, KeepWatching,
                  LoseClient, EndOfStep, StepEffector
    <2> QED BY <1>1, <2>1
  <1>3. CASE \/ Heartbeat \/ StopCommand \/ GravityCommand \/ ForceFeedbackCommand
             \/ HoldCommand \/ \E c \in Commands : DropCommand(c) \/ PauseOrResume(c)
             \/ \E c \in Commands, id \in 1 .. MaxMoves : MoveCommand(c, id)
    <2>1. em' = em /\ pc = "command"
      BY <1>3 DEF Heartbeat, StopCommand, GravityCommand, ForceFeedbackCommand,
                  HoldCommand, DropCommand, PauseOrResume, MoveCommand, Receives
    <2> QED BY <1>1, <2>1
  <1>4. CASE Tick \/ Signal \/ ExitLoop \/ Read \/ NothingToPrepare \/ Stop \/ Terminated
    <2>1. em' = em /\ (em = "REQUESTED" => pc' \in {"loop", "prepare", "stop", "done"})
      BY <1>1, <1>4 DEF Tick, Signal, ExitLoop, Read, NothingToPrepare, Stop,
                        Terminated, deviceVars
    <2> QED BY <2>1
  <1>5. CASE Prepare \/ TimeOut
    BY <1>5 DEF Prepare, TimeOut, CompleteRecovery
  <1>6. CASE MoveReady
    BY <1>1, <1>6 DEF MoveReady, RecoveryEndsWithMove, CompleteRecovery
  <1>7. CASE Check
    BY <1>7 DEF Check, AnnounceReady
  <1> QED
    BY <1>2, <1>3, <1>4, <1>5, <1>6, <1>7
       DEF DeviceNext, ControlLoop, StepPhase, CommandPhase, MainPhase

LEMMA IsolationStep ==
    ASSUME DeviceInv, DeviceNext
    PROVE  RecoveryIsolated' /\ NoStaleTarget'
  <1> USE DEF RecoveryIsolated, NoStaleTarget, Recovering, commandVars,
              recoveryVars, inputVars
  <1>1. /\ RecoveryIsolated
        /\ NoStaleTarget
        /\ cmd \in {"IDLE", "REQUESTED", "MOVING"}
        /\ em \in {"NONE", "REQUESTED", "MOVING_SLOW", "COMPLETED"}
        /\ paused \in BOOLEAN
    BY DEF DeviceInv, Types, CommandTypes, RecoveryTypes, LoopTypes
  <1>2. CASE \/ StartRead \/ StartHold \/ Tick \/ Signal \/ ExitLoop \/ Read
             \/ NothingToPrepare \/ OperateAsLeader \/ OperateAsFollower
             \/ FloatAsFollower \/ Write \/ NoCommand \/ KeepWatching
             \/ StepEffector \/ Stop \/ Terminated
    <2>1. UNCHANGED <<em, cmd, paused, tele>>
      BY <1>2 DEF StartRead, StartHold, Tick, Signal, ExitLoop, Read,
                  NothingToPrepare, OperateAsLeader, OperateAsFollower,
                  FloatAsFollower, AfterOperation, Write, NoCommand,
                  KeepWatching, EndOfStep, StepEffector, Stop, Terminated, deviceVars
    <2> QED BY <1>1, <2>1
  <1>3. CASE \/ Heartbeat \/ StopCommand \/ GravityCommand \/ ForceFeedbackCommand
             \/ \E c \in Commands : DropCommand(c)
    <2>1. UNCHANGED <<em, cmd, paused, tele>>
      BY <1>3 DEF Heartbeat, StopCommand, GravityCommand, ForceFeedbackCommand,
                  DropCommand, Receives
    <2> QED BY <1>1, <2>1
  <1>4. CASE \E c \in Commands : PauseOrResume(c)
    <2>1. em = "NONE" /\ UNCHANGED <<em, cmd, tele>>
      BY <1>4 DEF PauseOrResume, RecoveryGate, Receives
    <2> QED BY <1>1, <2>1
  <1>5. CASE \E c \in Commands, id \in 1 .. MaxMoves : MoveCommand(c, id)
    <2>1. /\ cmd' = "REQUESTED"
          /\ em' = em
          /\ paused => paused'
          /\ tele' = IF tele = "live" THEN "stale" ELSE tele
      BY <1>1, <1>5 DEF MoveCommand, RequestMoveToReady, Receives
    <2> QED BY <1>1, <2>1
  <1>6. CASE HoldCommand \/ LoseClient
    <2>1. UNCHANGED <<em, cmd>>
      BY <1>6 DEF HoldCommand, LoseClient, Receives, EndOfStep
    <2>2. tele' \in {tele, "held"} /\ (paused => paused')
      BY <1>1, <1>6, Zenon DEF HoldCommand, LoseClient, RuntimeHold
    <2> QED BY <1>1, <2>1, <2>2
  <1>7. CASE StopRunaway
    <2>1. UNCHANGED <<em, cmd, paused>> /\ tele' \in {tele, "held"}
      BY <1>7 DEF StopRunaway, AfterOperation, ClearCommandBuffers
    <2> QED BY <1>1, <2>1
  <1>8. CASE ReceiveJoints
    <2>1. UNCHANGED <<em, cmd, paused>>
      BY <1>8 DEF ReceiveJoints
    <2>2. tele' = tele \/ (em = "NONE" /\ (cmd = "IDLE" => tele' = "live"))
      BY <1>8 DEF ReceiveJoints, AcceptsTargets, RejectsDirectCommands
    <2> QED BY <1>1, <2>1, <2>2
  <1>9. CASE Check
    <2>1. UNCHANGED <<cmd, tele>>
      BY <1>9 DEF Check
    <2>2. \/ UNCHANGED <<em, paused>>
          \/ em' = "REQUESTED" /\ paused'
      BY <1>9 DEF Check, EnterEmergencyRecovery
    <2> QED BY <1>1, <2>1, <2>2
  <1>10. CASE StartMove
    <2>1. UNCHANGED <<em, cmd, paused>> /\ tele' \in {tele, "held"}
      BY <1>10, ReadyMoveStepSafe DEF StartMove
    <2> QED BY <1>1, <2>1
  <1>11. CASE Prepare
    BY <1>1, <1>11 DEF Prepare, BeginReadyMove, ClearCommandBuffers
  <1>12. CASE TimeOut
    <2>1. em = "MOVING_SLOW" /\ em' = "COMPLETED" /\ paused' = paused
      BY <1>12 DEF TimeOut, CompleteRecovery
    <2>2. tele' \in {tele, "held"}
      BY <1>12 DEF TimeOut, BeginReadyMove, ClearCommandBuffers
    <2> QED BY <1>1, <2>1, <2>2
  <1>13. CASE MoveReady
    <2>1. UNCHANGED <<cmd, paused>> /\ tele' \in {tele, "held"}
      BY <1>13, ReadyMoveStepSafe DEF MoveReady
    <2>2. em' = em \/ (em \in {"MOVING_SLOW", "COMPLETED"} /\ em' = "COMPLETED")
      BY <1>1, <1>13 DEF MoveReady, RecoveryEndsWithMove, CompleteRecovery,
                         DeviceInv, RecoveryBegins
    <2> QED BY <1>1, <2>1, <2>2
  <1>14. CASE Restore
    BY <1>1, <1>14 DEF Restore, RestoreNormalOperation, ClearCommandBuffers
  <1> QED
    BY <1>2, <1>3, <1>4, <1>5, <1>6, <1>7, <1>8, <1>9, <1>10, <1>11, <1>12,
       <1>13, <1>14
       DEF DeviceNext, ControlLoop, StepPhase, CommandPhase, MainPhase

-----------------------------------------------------------------------------
(***************************************************************************)
(* The inductive invariant and what follows from it.                       *)
(***************************************************************************)
LEMMA DeviceInitially == DeviceInit => DeviceInv
  <1> SUFFICES ASSUME DeviceInit PROVE DeviceInv
    OBVIOUS
  <1>1. MoveInv
    BY MoveInitially DEF DeviceInit
  <1>2. /\ crossed \in BOOLEAN /\ effReady \in BOOLEAN /\ paused \in BOOLEAN
        /\ running \in BOOLEAN /\ signal \in BOOLEAN /\ stopAfter \in BOOLEAN
        /\ gravityFloat \in BOOLEAN /\ forceFeedback \in BOOLEAN
        /\ followerSeen \in BOOLEAN /\ clientSeen \in BOOLEAN
        /\ tripped \in BOOLEAN /\ informed \in BOOLEAN /\ slow \in BOOLEAN
    BY Zenon DEF DeviceInit
  <1>3. Types
    BY <1>2, TimeoutAssumption, AnnounceAssumption, MaxMovesAssumption
       DEF DeviceInit, Types, LoopTypes, CommandTypes, ModeTypes, InputTypes,
           ClientTypes, AnnounceTypes, RecoveryTypes, Phases, Targets, BulkReads
  <1>4. RecoveryIsolated /\ NoStaleTarget /\ RecoveryBegins
    BY DEF DeviceInit, RecoveryIsolated, NoStaleTarget, RecoveryBegins
  <1> QED BY <1>1, <1>3, <1>4 DEF DeviceInv

LEMMA DeviceStutters == DeviceInv /\ UNCHANGED deviceVars => DeviceInv'
  <1> SUFFICES ASSUME DeviceInv, UNCHANGED deviceVars PROVE DeviceInv'
    OBVIOUS
  <1>1. MoveInv'
    BY MoveFrame DEF DeviceInv, MoveInv, TypeOK, deviceVars, homingVars, servoVars
  <1>2. Types'
    BY DEF DeviceInv, Types, LoopTypes, CommandTypes, ModeTypes, InputTypes,
           ClientTypes, AnnounceTypes, RecoveryTypes, deviceVars, commandVars,
           modeVars, recoveryVars, clientVars, announceVars, inputVars
  <1>3. RecoveryIsolated' /\ NoStaleTarget' /\ RecoveryBegins'
    BY DEF DeviceInv, RecoveryIsolated, NoStaleTarget, RecoveryBegins, deviceVars,
           commandVars, recoveryVars, inputVars
  <1> QED BY <1>1, <1>2, <1>3 DEF DeviceInv

(***************************************************************************)
(* Every step keeps the invariant.                                         *)
(***************************************************************************)
LEMMA DeviceInductive ==
    ASSUME DeviceInv, [DeviceNext]_deviceVars
    PROVE  DeviceInv'
  <1> SUFFICES ASSUME DeviceInv, DeviceNext PROVE DeviceInv'
    BY DeviceStutters
  <1> QED BY MoveInvStep, TypesStep, RecoveryBeginsStep, IsolationStep DEF DeviceInv

(***************************************************************************)
(* The inductive invariant of the control loop.                            *)
(***************************************************************************)
THEOREM DeviceInvariant == DeviceSpec => []DeviceInv
  BY DeviceInitially, DeviceInductive, PTL DEF DeviceSpec

(***************************************************************************)
(* Every variable of the control loop keeps its type: in particular at     *)
(* most one ERROR_DETECTED and one SHUTDOWN_AFTER_ERROR are published, and *)
(* no age or countdown leaves its range.                                   *)
(***************************************************************************)
THEOREM DeviceTypes == DeviceSpec => []DeviceTypeOK
  <1>1. DeviceInv => DeviceTypeOK
    BY DEF DeviceInv, MoveInv, Types, LoopTypes, CommandTypes, ModeTypes, InputTypes,
           ClientTypes, AnnounceTypes, RecoveryTypes, DeviceTypeOK
  <1> QED BY DeviceInvariant, <1>1, PTL

(***************************************************************************)
(* Recovery is isolated from outside targets (enter_emergency_recovery()). *)
(***************************************************************************)
THEOREM IsolatedRecovery == DeviceSpec => []RecoveryIsolated
  <1>1. DeviceInv => RecoveryIsolated
    BY DEF DeviceInv
  <1> QED BY DeviceInvariant, <1>1, PTL

(***************************************************************************)
(* No target from before or during a commanded ready move survives it      *)
(* (the two clearings of the command buffers in Device::step()).           *)
(***************************************************************************)
THEOREM NoStaleTargets == DeviceSpec => []NoStaleTarget
  <1>1. DeviceInv => NoStaleTarget
    BY DEF DeviceInv
  <1> QED BY DeviceInvariant, <1>1, PTL

-----------------------------------------------------------------------------
(***************************************************************************)
(* The control loop implements the recovery lifecycle: every step of it is *)
(* a step of RecoveryLifecycle or changes nothing the client can see.      *)
(***************************************************************************)
LEMMA PhaseOfLifecycle ==
    ASSUME em \in {"NONE", "REQUESTED", "MOVING_SLOW", "COMPLETED"}
    PROVE  /\ em = "NONE"        => LifecyclePhase = "normal"
           /\ em = "REQUESTED"   => LifecyclePhase = "armed"
           /\ em = "MOVING_SLOW" => LifecyclePhase = "homing"
           /\ em = "COMPLETED"   => LifecyclePhase = "finished"
  BY DEF LifecyclePhase

LifecycleStep == Lifecycle!LifecycleNext \/ UNCHANGED Lifecycle!lifecycleVars

\* The recovery stays where it is: targets change, or the topic stops.
LEMMA SamePhaseStep ==
    ASSUME DeviceInv, Types', RecoveryIsolated', UNCHANGED <<em, errors, shutdowns>>,
           running' = running \/ (~running' /\ tele' \in {tele, "held"})
    PROVE  LifecycleStep
  <1>1. /\ LifecyclePhase' = LifecyclePhase
        /\ running \in BOOLEAN /\ running' \in BOOLEAN
    BY DEF LifecyclePhase, DeviceInv, Types, LoopTypes
  <1>2. CASE running' = running
    <2>1. CASE em \in {"NONE", "REQUESTED"}
      <3>1. LifecyclePhase \in {"normal", "armed"}
        BY <2>1, PhaseOfLifecycle
      <3>2. CASE (tele' \in {"live", "stale"}) = (tele \in {"live", "stale"})
        <4>1. UNCHANGED Lifecycle!lifecycleVars
          BY <1>1, <1>2, <3>2 DEF Lifecycle!lifecycleVars
        <4> QED BY <4>1 DEF LifecycleStep
      <3>3. CASE (tele' \in {"live", "stale"}) = ~(tele \in {"live", "stale"})
        <4>1. Lifecycle!Drive
          BY <1>1, <1>2, <3>1, <3>3 DEF Lifecycle!Drive
        <4> QED BY <4>1 DEF LifecycleStep, Lifecycle!LifecycleNext
      <3> QED BY <3>2, <3>3
    <2>2. CASE em \in {"MOVING_SLOW", "COMPLETED"}
      <3>1. tele = "held" /\ tele' = "held"
        BY <2>2 DEF DeviceInv, RecoveryIsolated
      <3>2. UNCHANGED Lifecycle!lifecycleVars
        BY <1>1, <1>2, <3>1 DEF Lifecycle!lifecycleVars
      <3> QED BY <3>2 DEF LifecycleStep
    <2> QED BY <2>1, <2>2 DEF DeviceInv, Types, RecoveryTypes
  <1>3. CASE running' # running
    <2>1. running = TRUE /\ running' = FALSE
      BY <1>1, <1>3, Zenon
    <2>2. (tele' \in {"live", "stale"}) \in {(tele \in {"live", "stale"}), FALSE}
      <3>1. CASE tele' = tele
        BY <3>1
      <3>2. CASE tele' = "held"
        <4>1. (tele' \in {"live", "stale"}) = FALSE
          BY <3>2
        <4> QED BY <4>1
      <3> QED BY <1>3, <3>1, <3>2
    <2>3. Lifecycle!Close
      BY <1>1, <2>1, <2>2 DEF Lifecycle!Close
    <2> QED BY <2>3 DEF LifecycleStep, Lifecycle!LifecycleNext
  <1> QED BY <1>2, <1>3

\* The recovery advances: it is armed, moves the arm, finishes.
LEMMA ArmStep ==
    ASSUME DeviceInv, em = "NONE", em' = "REQUESTED", errors' = errors + 1,
           UNCHANGED <<shutdowns, running, tele>>
    PROVE  LifecycleStep
  <1>1. LifecyclePhase = "normal" /\ LifecyclePhase' = "armed"
    BY DEF LifecyclePhase
  <1> QED BY <1>1 DEF LifecycleStep, Lifecycle!LifecycleNext, Lifecycle!Arm

LEMMA GoHomeStep ==
    ASSUME DeviceInv, em = "REQUESTED", em' = "MOVING_SLOW", tele' = "held",
           UNCHANGED <<errors, shutdowns, running>>
    PROVE  LifecycleStep
  <1>1. LifecyclePhase = "armed" /\ LifecyclePhase' = "homing"
    BY DEF LifecyclePhase
  <1>2. (tele' \in {"live", "stale"}) = FALSE
    OBVIOUS
  <1> QED BY <1>1, <1>2 DEF LifecycleStep, Lifecycle!LifecycleNext, Lifecycle!GoHome

LEMMA FinishStep ==
    ASSUME DeviceInv, RecoveryIsolated', em = "MOVING_SLOW", CompleteRecovery
    PROVE  LifecycleStep
  <1>1. /\ em' = "COMPLETED" /\ shutdowns' = shutdowns + 1
        /\ running' = FALSE /\ errors' = errors
    BY DEF CompleteRecovery
  <1>2. LifecyclePhase = "homing" /\ LifecyclePhase' = "finished"
    BY <1>1 DEF LifecyclePhase
  <1>3. tele = "held" /\ tele' = "held"
    BY <1>1 DEF DeviceInv, RecoveryIsolated
  <1> QED BY <1>1, <1>2, <1>3 DEF LifecycleStep, Lifecycle!LifecycleNext, Lifecycle!Finish

LEMMA LifecycleSteps ==
    ASSUME DeviceInv, DeviceInv', DeviceNext
    PROVE  LifecycleStep
  <1> USE DEF commandVars, recoveryVars, inputVars
  <1>1. /\ Types' /\ RecoveryIsolated'
        /\ em \in {"NONE", "REQUESTED", "MOVING_SLOW", "COMPLETED"}
    BY DEF DeviceInv, Types, RecoveryTypes
  <1>2. CASE \/ StartRead \/ StartHold \/ Tick \/ Signal \/ ExitLoop \/ Read
             \/ NothingToPrepare \/ OperateAsLeader \/ OperateAsFollower
             \/ FloatAsFollower \/ StopRunaway \/ Write \/ ReceiveJoints
             \/ KeepWatching \/ LoseClient \/ StepEffector \/ StartMove \/ Terminated
    <2>1. UNCHANGED <<em, errors, shutdowns, running>>
      BY <1>2 DEF StartRead, StartHold, Tick, Signal, ExitLoop, Read,
                  NothingToPrepare, OperateAsLeader, OperateAsFollower,
                  FloatAsFollower, StopRunaway, AfterOperation, Write,
                  ReceiveJoints, KeepWatching, LoseClient, EndOfStep,
                  StepEffector, StartMove, Terminated, deviceVars
    <2> QED BY <1>1, <2>1, SamePhaseStep
  <1>3. CASE \/ NoCommand \/ Heartbeat \/ GravityCommand \/ ForceFeedbackCommand
             \/ HoldCommand \/ \E c \in Commands : DropCommand(c) \/ PauseOrResume(c)
             \/ \E c \in Commands, id \in 1 .. MaxMoves : MoveCommand(c, id)
    <2>1. UNCHANGED <<em, errors, shutdowns, running>>
      BY <1>3 DEF NoCommand, Heartbeat, GravityCommand, ForceFeedbackCommand,
                  HoldCommand, DropCommand, PauseOrResume, MoveCommand, Receives
    <2> QED BY <1>1, <2>1, SamePhaseStep
  <1>4. CASE StopCommand \/ Stop
    <2>1. UNCHANGED <<em, errors, shutdowns, tele>> /\ ~running'
      BY <1>4 DEF StopCommand, Stop, Receives
    <2> QED BY <1>1, <2>1, SamePhaseStep
  <1>5. CASE Restore
    <2>1. UNCHANGED <<em, errors, shutdowns>> /\ tele' = "held"
      BY <1>5 DEF Restore, RestoreNormalOperation, ClearCommandBuffers
    <2>2. running' = running \/ ~running'
      BY <1>1, <1>5 DEF Types, LoopTypes, DeviceInv, Restore, RestoreNormalOperation
    <2> QED BY <1>1, <2>1, <2>2, SamePhaseStep
  <1>6. CASE Prepare
    <2>1. UNCHANGED <<errors, shutdowns, running>> /\ tele' = "held"
      BY <1>6 DEF Prepare, BeginReadyMove, ClearCommandBuffers
    <2>2. em' = IF em = "REQUESTED" THEN "MOVING_SLOW" ELSE em
      BY <1>6 DEF Prepare
    <2>3. CASE em = "REQUESTED"
      BY <2>1, <2>2, <2>3, GoHomeStep
    <2>4. CASE em # "REQUESTED"
      BY <1>1, <2>1, <2>2, <2>4, SamePhaseStep
    <2> QED BY <2>3, <2>4
  <1>7. CASE TimeOut
    BY <1>1, <1>7, FinishStep DEF TimeOut
  <1>8. CASE MoveReady
    <2>1. tele' \in {tele, "held"}
      BY <1>8, ReadyMoveStepSafe DEF MoveReady
    <2>2. \/ em \in {"MOVING_SLOW", "COMPLETED"} /\ CompleteRecovery
          \/ UNCHANGED <<em, errors, shutdowns, running>>
      BY <1>1, <1>8 DEF MoveReady, RecoveryEndsWithMove, Recovering, DeviceInv,
                        RecoveryBegins
    <2>3. CASE em = "MOVING_SLOW" /\ CompleteRecovery
      BY <1>1, <2>3, FinishStep
    <2>4. CASE em = "COMPLETED" /\ CompleteRecovery
      <3>1. UNCHANGED <<em, errors, shutdowns>> /\ ~running'
        BY <2>4 DEF CompleteRecovery
      <3> QED BY <1>1, <2>1, <3>1, SamePhaseStep
    <2>5. CASE UNCHANGED <<em, errors, shutdowns, running>>
      BY <1>1, <2>5, SamePhaseStep
    <2> QED BY <2>2, <2>3, <2>4, <2>5
  <1>9. CASE Check
    <2>1. UNCHANGED <<running, tele>>
      BY <1>9 DEF Check
    <2>2. CASE em = "NONE" /\ EnterEmergencyRecovery
      BY <2>1, <2>2, ArmStep DEF EnterEmergencyRecovery
    <2>3. CASE UNCHANGED <<em, errors, shutdowns>>
      BY <1>1, <2>1, <2>3, SamePhaseStep
    <2> QED BY <1>9, <2>2, <2>3 DEF Check, Recovering
  <1> QED
    BY <1>2, <1>3, <1>4, <1>5, <1>6, <1>7, <1>8, <1>9
       DEF DeviceNext, ControlLoop, StepPhase, CommandPhase, MainPhase

(***************************************************************************)
(* The control loop implements the recovery lifecycle, for every device    *)
(* and every environment (EmergencyRecoveryState as main() and the client  *)
(* see it).                                                                *)
(***************************************************************************)
THEOREM LifecycleRefinement == DeviceSpec => FollowsLifecycle
  <1>1. DeviceInit => Lifecycle!LifecycleInit
    <2> SUFFICES ASSUME DeviceInit PROVE Lifecycle!LifecycleInit
      OBVIOUS
    <2>1. em = "NONE" /\ errors = 0 /\ shutdowns = 0 /\ running = TRUE /\ tele = "home"
      BY DEF DeviceInit
    <2>2. LifecyclePhase = "normal"
      BY <2>1 DEF LifecyclePhase
    <2>3. (tele \in {"live", "stale"}) = FALSE
      BY <2>1
    <2> QED BY <2>1, <2>2, <2>3 DEF Lifecycle!LifecycleInit
  <1>2. DeviceInv /\ DeviceInv' /\ [DeviceNext]_deviceVars
            => [Lifecycle!LifecycleNext]_(Lifecycle!lifecycleVars)
    <2>1. ASSUME DeviceInv, DeviceInv', DeviceNext
          PROVE  [Lifecycle!LifecycleNext]_(Lifecycle!lifecycleVars)
      BY <2>1, LifecycleSteps DEF LifecycleStep
    <2>2. ASSUME UNCHANGED deviceVars
          PROVE  UNCHANGED Lifecycle!lifecycleVars
      BY <2>2 DEF Lifecycle!lifecycleVars, LifecyclePhase, deviceVars, recoveryVars,
                  inputVars
    <2> QED BY <2>1, <2>2
  <1> QED BY DeviceInvariant, <1>1, <1>2, PTL
          DEF DeviceSpec, FollowsLifecycle, Lifecycle!LifecycleSpec

-----------------------------------------------------------------------------
(***************************************************************************)
(* Readiness.  The two request ids name the newest request or none, and    *)
(* what has been announced before the loop is nothing.                     *)
(***************************************************************************)
AnnounceInv ==
    /\ requestId \in {0, accepted}
    /\ completedId \in {0, accepted}
    /\ pc \in {"start", "startHold", "startMove"} => readyMsg = 0
    /\ ReadyAnnouncement

LEMMA AnnounceStep ==
    ASSUME DeviceInv, AnnounceInv, DeviceNext
    PROVE  AnnounceInv'
  <1> USE DEF AnnounceInv, ReadyAnnouncement, commandVars, inputVars, announceVars,
              homingVars
  <1>1. accepted \in Nat /\ readyMsg \in Nat
    BY MaxMovesAssumption DEF DeviceInv, Types, InputTypes, AnnounceTypes
  <1>2. CASE StartRead \/ StartHold \/ StartMove
    <2>1. /\ UNCHANGED <<requestId, completedId, accepted, readyMsg>>
          /\ readyMsg = 0
      BY <1>2 DEF StartRead, StartHold, StartMove
    <2> QED BY <2>1
  <1>3. CASE \/ Read \/ Prepare \/ NothingToPrepare \/ TimeOut \/ Restore \/ Write
             \/ OperateAsLeader \/ OperateAsFollower \/ FloatAsFollower \/ StopRunaway
             \/ NoCommand \/ ReceiveJoints \/ KeepWatching \/ LoseClient
             \/ StepEffector \/ ExitLoop \/ Stop
    <2>1. /\ UNCHANGED <<requestId, completedId, accepted, readyMsg>>
          /\ pc' \notin {"start", "startHold", "startMove", "loop"}
      BY <1>3 DEF Read, Prepare, NothingToPrepare, TimeOut, Restore, Write,
                  OperateAsLeader, OperateAsFollower, FloatAsFollower, StopRunaway,
                  AfterOperation, NoCommand, ReceiveJoints, KeepWatching, LoseClient,
                  EndOfStep, StepEffector, ExitLoop, Stop
    <2> QED BY <2>1
  <1>4. CASE MoveReady
    <2>1. /\ UNCHANGED <<accepted, readyMsg>> /\ pc' \in {"write", "check"}
          /\ \/ UNCHANGED <<requestId, completedId>>
             \/ completedId' = requestId /\ requestId' = 0
      BY <1>4 DEF MoveReady
    <2> QED BY <2>1
  <1>5. CASE \/ Heartbeat \/ StopCommand \/ GravityCommand \/ ForceFeedbackCommand
             \/ HoldCommand \/ \E c \in Commands : DropCommand(c) \/ PauseOrResume(c)
    <2>1. /\ UNCHANGED <<requestId, completedId, accepted, readyMsg>>
          /\ pc' \in {"joints", "watchdog"}
      BY <1>5 DEF Heartbeat, StopCommand, GravityCommand, ForceFeedbackCommand,
                  HoldCommand, DropCommand, PauseOrResume, Receives
    <2> QED BY <2>1
  <1>6. CASE \E c \in Commands, id \in 1 .. MaxMoves : MoveCommand(c, id)
    <2>1. /\ requestId' = accepted' /\ completedId' = 0
          /\ pc' \in {"joints", "watchdog"}
      BY <1>6 DEF MoveCommand, RequestMoveToReady, Receives
    <2> QED BY <2>1
  <1>7. CASE Check
    <2>1. /\ UNCHANGED <<requestId, completedId, accepted, isReady>>
          /\ pc' \in {"loop", "stop"}
      BY <1>7 DEF Check, AnnounceReady
    <2>2. readyMsg' = 0 \/ (isReady /\ readyMsg' = completedId)
      BY <1>7 DEF Check, AnnounceReady
    <2> QED BY <1>1, <2>1, <2>2
  <1>8. CASE Tick \/ Signal \/ Terminated
    <2>1. UNCHANGED <<requestId, completedId, accepted, readyMsg, pc, isReady>>
      BY <1>8 DEF Tick, Signal, Terminated, deviceVars
    <2> QED BY <2>1
  <1> QED
    BY <1>2, <1>3, <1>4, <1>5, <1>6, <1>7, <1>8
       DEF DeviceNext, ControlLoop, StepPhase, CommandPhase, MainPhase

(***************************************************************************)
(* READY_NOW answers the newest request accepted, and only while the arm   *)
(* is ready (announce_ready() and complete_move_to_ready()), whatever      *)
(* requests supersede, repeat or interrupt each other.                     *)
(***************************************************************************)
THEOREM ReadyAnnouncements == DeviceSpec => []ReadyAnnouncement
  <1>1. DeviceInit => AnnounceInv
    BY DEF DeviceInit, AnnounceInv, ReadyAnnouncement
  <1>2. DeviceInv /\ AnnounceInv /\ [DeviceNext]_deviceVars => AnnounceInv'
    <2>1. AnnounceInv /\ UNCHANGED deviceVars => AnnounceInv'
      BY DEF AnnounceInv, ReadyAnnouncement, deviceVars, commandVars, inputVars,
             announceVars, homingVars
    <2> QED BY <2>1, AnnounceStep
  <1>3. AnnounceInv => ReadyAnnouncement
    BY DEF AnnounceInv
  <1> QED BY DeviceInvariant, <1>1, <1>2, <1>3, PTL DEF DeviceSpec

-----------------------------------------------------------------------------
(***************************************************************************)
(* Blame.  A no-response error that reaches the main loop in normal        *)
(* operation names a joint that is lost.                                   *)
(***************************************************************************)
BlameInv ==
    /\ OnlyLostJointsExcluded
    /\ pc = "check" /\ rc = "SIG" /\ em = "NONE" /\ lastFailed \in Joints
           => lastFailed \in lost
    /\ pc \in {"command", "joints", "watchdog"} => rc = "SUCCESS"

(* The joint that a read names is the one whose code it returns.             *)
LEMMA ReadBlames ==
    ASSUME DeviceInv, OnlyLostJointsExcluded,
           NEW code \in [Joints -> ReadCodes], NEW group \in GroupReads,
           ReadHardwareValues(code, group)
    PROVE  /\ OnlyLostJointsExcluded'
           /\ rc' = "SIG" /\ lastFailed' \in Joints => lastFailed' \in lost'
  <1>1. lost' = lost \cup (Joints \cap group.dead) \cup {j \in Joints : Gone(code, j)}
    BY DEF ReadHardwareValues
  <1>2. CASE Recovering \/ ~isReady
    <2> DEFINE skipped == failed \cup group.dead
               read    == Joints \ skipped
               hard    == {j \in read : Hard(code, j)}
               gone    == {j \in read : Gone(code, j)}
    <2>1. /\ failed' = skipped \cup gone
          /\ lastFailed' \in IF hard # {} THEN LastOf(hard)
                             ELSE IF group.dead # {} THEN FirstOf(group.dead)
                             ELSE {lastFailed}
          /\ rc' \in IF read # {} /\ read = gone THEN {code[j] : j \in LastOf(read)}
                     ELSE {"SUCCESS"}
      BY <1>2 DEF ReadHardwareValues, TolerantRead
    <2>2. OnlyLostJointsExcluded'
      BY <1>1, <2>1 DEF OnlyLostJointsExcluded
    <2>3. ASSUME rc' = "SIG" PROVE lastFailed' \in lost'
      <3>1. read # {} /\ read = gone
        BY <2>1, <2>3
      <3>2. hard = gone /\ lastFailed' \in gone
        BY <2>1, <3>1 DEF Hard, Gone, LastOf
      <3> QED BY <1>1, <3>2
    <2> QED BY <2>2, <2>3
  <1>3. CASE ~(Recovering \/ ~isReady)
    <2> DEFINE read == Joints \ failed
               hard == {j \in read : Hard(code, j)}
               soft == {j \in read : code[j] = "SOFT"}
    <2>1. /\ failed' = failed
          /\ hard # {} => lastFailed' \in FirstOf(hard)
                          /\ rc' \in {code[j] : j \in FirstOf(hard)}
          /\ hard = {} => rc' \in {"FAIL", "SOFT", "SUCCESS"}
      BY <1>3 DEF ReadHardwareValues, StrictRead
    <2>2. OnlyLostJointsExcluded'
      BY <1>1, <2>1 DEF OnlyLostJointsExcluded
    <2>3. ASSUME rc' = "SIG" PROVE lastFailed' \in lost'
      <3>1. hard # {}
        BY <2>1, <2>3
      <3>2. PICK j \in FirstOf(hard) : rc' = code[j]
        BY <2>1, <3>1
      <3>3. /\ j \in Joints /\ lastFailed' \in Joints
            /\ j <= lastFailed' /\ lastFailed' <= j
        BY <2>1, <3>1, <3>2 DEF FirstOf
      <3>4. lastFailed' = j
        BY <3>3, NumJointsAssumption DEF Joints
      <3> QED BY <1>1, <2>3, <3>2, <3>3, <3>4 DEF Gone
    <2> QED BY <2>2, <2>3
  <1> QED BY <1>2, <1>3

(* A ready move fails with no code but FAIL, and sets joints aside that are  *)
(* lost from then on.                                                        *)
LEMMA MoveBlames ==
    ASSUME ReadyMoveStep, lost' = lost \cup (Joints \cap (failed' \ failed)),
           OnlyLostJointsExcluded
    PROVE  OnlyLostJointsExcluded' /\ rc' \in {"SUCCESS", "FAIL"}
  <1>1. OnlyLostJointsExcluded'
    BY DEF OnlyLostJointsExcluded
  <1>2. CASE SkipStartupMove
    BY <1>1, <1>2 DEF SkipStartupMove, SkipHoming
  <1>3. CASE \E pose \in [Joints -> Poses], bad \in PositionRefusals :
                MoveToReadyPosition(Recovering, effReady, pose, bad)
    <2>1. PICK pose \in [Joints -> Poses], bad \in PositionRefusals :
              MoveToReadyPosition(Recovering, effReady, pose, bad)
      BY <1>3
    <2> QED
      BY <1>1, <2>1
         DEF MoveToReadyPosition, FeedforwardFails, HomingIteration,
             ParallelIteration, SequentialIteration, SkipFailedJoint, GiveUpOnJoint,
             JointRefuses, DriveJoint, MaintainPosition
  <1> QED BY <1>2, <1>3 DEF ReadyMoveStep

LEMMA BlameStep ==
    ASSUME DeviceInv, BlameInv, DeviceNext,
           "effector" \notin Faults, ArmType # "controller" \/ "write" \notin Faults
    PROVE  BlameInv'
  <1>1. OnlyLostJointsExcluded
    BY DEF BlameInv
  <1>2. CASE StartRead \/ Read
    <2>1. PICK code \in [Joints -> ReadCodes], group \in GroupReads :
              ReadHardwareValues(code, group)
      BY <1>2 DEF StartRead, Read
    <2>2. pc' \in {"startHold", "stop", "prepare", "check"}
      BY <1>2 DEF StartRead, Read
    <2> QED BY <1>1, <2>1, <2>2, ReadBlames DEF BlameInv
  <1>3. CASE StartHold
    BY <1>1, <1>3 DEF StartHold, BlameInv, OnlyLostJointsExcluded
  <1>4. CASE StartMove \/ MoveReady
    <2>1. OnlyLostJointsExcluded' /\ rc' \in {"SUCCESS", "FAIL"}
      BY <1>1, <1>4, MoveBlames DEF StartMove, MoveReady
    <2>2. pc' \in {"loop", "stop", "write", "check"}
      BY <1>4 DEF StartMove, MoveReady
    <2> QED BY <2>1, <2>2 DEF BlameInv
  <1>5. CASE \/ Prepare \/ NothingToPrepare \/ TimeOut \/ Restore \/ OperateAsLeader
             \/ OperateAsFollower \/ FloatAsFollower \/ StopRunaway \/ Write
    <2>1. /\ UNCHANGED <<failed, lost>> /\ (pc' = "check" => rc' # "SIG")
          /\ pc' \in {"joints", "watchdog", "command"} => rc' = "SUCCESS"
      BY <1>5 DEF Prepare, NothingToPrepare, TimeOut, Restore, OperateAsLeader,
                  OperateAsFollower, FloatAsFollower, StopRunaway, AfterOperation,
                  CommandCodes, Write, WriteCodes, servoVars
    <2> QED BY <1>1, <2>1 DEF BlameInv, OnlyLostJointsExcluded
  <1>6. CASE \/ Heartbeat \/ StopCommand \/ GravityCommand \/ ForceFeedbackCommand
             \/ HoldCommand \/ \E c \in Commands : DropCommand(c) \/ PauseOrResume(c)
             \/ \E c \in Commands, id \in 1 .. MaxMoves : MoveCommand(c, id)
    <2>1. /\ UNCHANGED <<failed, lost, rc>>
          /\ pc = "command" /\ pc' \in {"joints", "watchdog"}
      BY <1>6 DEF Heartbeat, StopCommand, GravityCommand, ForceFeedbackCommand,
                  HoldCommand, DropCommand, PauseOrResume, MoveCommand, Receives, servoVars
    <2> QED BY <1>1, <2>1 DEF BlameInv, OnlyLostJointsExcluded
  <1>7. CASE NoCommand \/ ReceiveJoints \/ KeepWatching \/ LoseClient
    <2>1. /\ UNCHANGED <<failed, lost, rc>>
          /\ pc \in {"command", "joints", "watchdog"}
      BY <1>7 DEF NoCommand, ReceiveJoints, KeepWatching, LoseClient, EndOfStep, servoVars
    <2> QED BY <1>1, <2>1 DEF BlameInv, OnlyLostJointsExcluded
  <1>8. CASE Tick \/ Signal \/ ExitLoop \/ Stop
    <2>1. UNCHANGED <<failed, lost>> /\ pc' \in {"loop", "stop", "done"}
      BY <1>8 DEF Tick, Signal, ExitLoop, Stop, servoVars
    <2> QED BY <1>1, <2>1 DEF BlameInv, OnlyLostJointsExcluded
  <1>9. CASE StepEffector
    <2>1. UNCHANGED <<failed, lost>> /\ pc' = "check" /\ rc' = "SUCCESS"
      BY <1>9 DEF StepEffector
    <2> QED BY <1>1, <2>1 DEF BlameInv, OnlyLostJointsExcluded
  <1>10. CASE Check
    <2>1. /\ lost' = lost /\ pc' \in {"loop", "stop"}
          /\ \/ failed' = failed
             \/ failed' = {}
             \/ pc = "check" /\ rc = "SIG" /\ em = "NONE" /\ failed' = {lastFailed}
      BY <1>10 DEF Check, AnnounceReady, EnterEmergencyRecovery, Recovering
    <2> QED BY <1>1, <2>1 DEF BlameInv, OnlyLostJointsExcluded
  <1>11. CASE Terminated
    BY <1>11 DEF Terminated, deviceVars, servoVars, recoveryVars, BlameInv,
                 OnlyLostJointsExcluded
  <1> QED
    BY <1>2, <1>3, <1>4, <1>5, <1>6, <1>7, <1>8, <1>9, <1>10, <1>11
       DEF DeviceNext, ControlLoop, StepPhase, CommandPhase, MainPhase

(***************************************************************************)
(* What recovery sets aside: initially and in every step.                  *)
(***************************************************************************)
LEMMA BlameInvariant ==
    ASSUME "effector" \notin Faults, ArmType # "controller" \/ "write" \notin Faults
    PROVE  /\ DeviceInit => BlameInv
           /\ DeviceInv /\ BlameInv /\ [DeviceNext]_deviceVars => BlameInv'
  <1>1. DeviceInit => BlameInv
    BY DEF DeviceInit, MoveInit, BlameInv, OnlyLostJointsExcluded
  <1>2. BlameInv /\ UNCHANGED deviceVars => BlameInv'
    BY DEF BlameInv, OnlyLostJointsExcluded, deviceVars, servoVars, recoveryVars
  <1> QED BY <1>1, <1>2, BlameStep

(***************************************************************************)
(* Recovery gives up on no joint whose servo is still there, on every arm  *)
(* whose errors come from its own joints: an effector's failure and a      *)
(* whole-arm controller's failed write carry the no-response code too, and *)
(* are put down to whichever joint was recorded last.                      *)
(***************************************************************************)
THEOREM OnlyLostJoints ==
    ASSUME "effector" \notin Faults, ArmType # "controller" \/ "write" \notin Faults
    PROVE  DeviceSpec => []OnlyLostJointsExcluded
  <1>1. BlameInv => OnlyLostJointsExcluded
    BY DEF BlameInv
  <1> QED BY DeviceInvariant, BlameInvariant, <1>1, PTL DEF DeviceSpec

-----------------------------------------------------------------------------
(***************************************************************************)
(* The gravity float.  A device that skips its start-up move is ready      *)
(* whenever nothing is commanded, so that no homing of its own ends a      *)
(* float.                                                                  *)
(***************************************************************************)
SkipInv ==
    DontGoHome /\ cmd = "IDLE" /\ em = "NONE"
        => isReady \/ pc \in {"start", "startHold", "startMove", "stop", "done"}

LEMMA SkipStepKeeps ==
    ASSUME DeviceInv, SkipInv, DeviceNext
    PROVE  SkipInv'
  <1> USE DEF SkipInv, Recovering, commandVars, recoveryVars, homingVars
  <1>1. CASE StartRead \/ StartHold
    BY <1>1 DEF StartRead, StartHold
  <1>2. CASE StartMove
    BY <1>2 DEF StartMove, ReadyMoveStep, SkipsHoming, SkipStartupMove, SkipHoming
  <1>3. CASE \/ Tick \/ Signal \/ Read \/ NothingToPrepare
             \/ OperateAsLeader \/ OperateAsFollower \/ FloatAsFollower
             \/ StopRunaway \/ Write \/ NoCommand \/ ReceiveJoints \/ KeepWatching
             \/ LoseClient \/ StepEffector
    <2>1. /\ UNCHANGED <<cmd, em, isReady>>
          /\ pc \notin {"start", "startHold", "startMove", "stop", "done"}
      BY <1>3 DEF Tick, Signal, Read, NothingToPrepare, OperateAsLeader,
                  OperateAsFollower, FloatAsFollower, StopRunaway, Operates,
                  AfterOperation, Write, NoCommand, ReceiveJoints, KeepWatching,
                  LoseClient, EndOfStep, StepEffector
    <2> QED BY <2>1
  <1>4. CASE ExitLoop \/ Stop \/ Terminated
    <2>1. pc' \in {"stop", "done"}
      BY <1>4 DEF ExitLoop, Stop, Terminated, deviceVars
    <2> QED BY <2>1
  <1>5. CASE Prepare
    BY <1>5 DEF Prepare, DeviceInv, Types, CommandTypes, RecoveryTypes
  <1>6. CASE TimeOut
    BY <1>6 DEF TimeOut, CompleteRecovery
  <1>7. CASE MoveReady
    <2>1. ~isReady /\ pc = "drive" /\ cmd' = cmd
      BY <1>7 DEF MoveReady
    <2>2. em' = em \/ em' = "COMPLETED"
      BY <1>7 DEF MoveReady, RecoveryEndsWithMove, CompleteRecovery
    <2> QED BY <2>1, <2>2
  <1>8. CASE Restore
    BY <1>8 DEF Restore
  <1>9. CASE \/ Heartbeat \/ StopCommand \/ GravityCommand \/ ForceFeedbackCommand
             \/ HoldCommand \/ \E c \in Commands : DropCommand(c) \/ PauseOrResume(c)
    <2>1. UNCHANGED <<cmd, em, isReady>> /\ pc = "command"
      BY <1>9 DEF Heartbeat, StopCommand, GravityCommand, ForceFeedbackCommand,
                  HoldCommand, DropCommand, PauseOrResume, Receives
    <2> QED BY <2>1
  <1>10. CASE \E c \in Commands, id \in 1 .. MaxMoves : MoveCommand(c, id)
    BY <1>10 DEF MoveCommand, RequestMoveToReady
  <1>11. CASE Check
    <2>1. UNCHANGED <<cmd, isReady>> /\ pc = "check" /\ (em' = em \/ em' = "REQUESTED")
      BY <1>11 DEF Check, EnterEmergencyRecovery
    <2> QED BY <2>1
  <1> QED
    BY <1>1, <1>2, <1>3, <1>4, <1>5, <1>6, <1>7, <1>8, <1>9, <1>10, <1>11
       DEF DeviceNext, ControlLoop, StepPhase, CommandPhase, MainPhase

LEMMA FloatStep ==
    ASSUME DeviceInv, SkipInv, DeviceNext, DontGoHome \/ ArmType # "controller",
           gravityFloat, ~gravityFloat', ~RejectsDirectCommands
    PROVE  tele' = "held"
  <1> USE DEF modeVars, RejectsDirectCommands, Recovering
  <1>1. CASE \/ StartRead \/ StartHold \/ StartMove \/ Tick \/ Signal \/ ExitLoop \/ Read
             \/ NothingToPrepare \/ OperateAsLeader \/ OperateAsFollower
             \/ FloatAsFollower \/ Write \/ NoCommand \/ ReceiveJoints \/ KeepWatching
             \/ StepEffector \/ Check \/ Stop \/ Terminated
    <2>1. gravityFloat' = gravityFloat
      BY <1>1 DEF StartRead, StartHold, StartMove, Tick, Signal, ExitLoop, Read,
                  NothingToPrepare, OperateAsLeader, OperateAsFollower,
                  FloatAsFollower, Write, NoCommand, ReceiveJoints, KeepWatching,
                  StepEffector, Check, Stop, Terminated, deviceVars
    <2> QED BY <2>1
  <1>2. CASE \/ Heartbeat \/ StopCommand
             \/ \E c \in Commands : DropCommand(c) \/ PauseOrResume(c)
             \/ \E c \in Commands, id \in 1 .. MaxMoves : MoveCommand(c, id)
    <2>1. gravityFloat' = gravityFloat
      BY <1>2 DEF Heartbeat, StopCommand, DropCommand, PauseOrResume, MoveCommand
    <2> QED BY <2>1
  <1>3. CASE Prepare \/ TimeOut
    BY <1>3 DEF Prepare, TimeOut
  <1>4. CASE MoveReady
    <2>1. ~isReady /\ pc = "drive" /\ cmd = "IDLE" /\ em = "NONE"
      BY <1>4 DEF MoveReady
    <2>2. ArmType # "controller"
      BY <2>1 DEF SkipInv
    <2>3. gravityFloat' = gravityFloat
      BY <1>4, <2>2 DEF MoveReady, SetControlMode
    <2> QED BY <2>3
  <1>5. CASE Restore
    BY <1>5 DEF Restore, RestoreNormalOperation, ClearCommandBuffers
  <1>6. CASE StopRunaway
    BY <1>6 DEF StopRunaway, ClearCommandBuffers
  <1>7. CASE GravityCommand \/ ForceFeedbackCommand
    <2>1. gravityFloat' = gravityFloat
      BY <1>7 DEF GravityCommand, ForceFeedbackCommand, SetControlMode
    <2> QED BY <2>1
  <1>8. CASE HoldCommand
    BY <1>8 DEF HoldCommand, RuntimeHold
  <1>9. CASE LoseClient
    <2>1. CASE RuntimeHold
      BY <2>1 DEF RuntimeHold
    <2>2. CASE UNCHANGED <<torque, gravityFloat>> \/ SetControlMode(FALSE)
      <3>1. gravityFloat' = gravityFloat
        BY <2>2 DEF SetControlMode
      <3> QED BY <3>1
    <2> QED BY <1>9, <2>1, <2>2 DEF LoseClient
  <1> QED
    BY <1>1, <1>2, <1>3, <1>4, <1>5, <1>6, <1>7, <1>8, <1>9
       DEF DeviceNext, ControlLoop, StepPhase, CommandPhase, MainPhase

(***************************************************************************)
(* A float that ends in normal operation ends in a hold where the arm is,  *)
(* on every arm but a whole-arm controller's that homes at the start:      *)
(* there a float entered while the arm is still homing ends with the move. *)
(***************************************************************************)
THEOREM FloatsEndInHold ==
    ASSUME DontGoHome \/ ArmType # "controller"
    PROVE  DeviceSpec => FloatEndsInHold
  <1>1. DeviceInit => SkipInv
    BY DEF DeviceInit, SkipInv
  <1>2. DeviceInv /\ SkipInv /\ [DeviceNext]_deviceVars => SkipInv'
    <2>1. SkipInv /\ UNCHANGED deviceVars => SkipInv'
      BY DEF SkipInv, deviceVars, commandVars, recoveryVars, homingVars
    <2> QED BY <2>1, SkipStepKeeps
  <1>3. DeviceInv /\ SkipInv /\ [DeviceNext]_deviceVars =>
            [gravityFloat /\ ~gravityFloat' /\ ~RejectsDirectCommands
                => tele' = "held"]_deviceVars
    BY FloatStep
  <1> QED BY DeviceInvariant, <1>1, <1>2, <1>3, PTL DEF DeviceSpec, FloatEndsInHold

-----------------------------------------------------------------------------
(***************************************************************************)
(* Healthy hardware.  Without faults, every step succeeds as long as the   *)
(* commands fit the modes of the joints.  That is always so on an arm      *)
(* whose servos take commands in any mode; a whole-arm controller takes    *)
(* positions in position mode and torques in torque mode only.  A step     *)
(* that fails has one of the causes of SelfInflicted, which lasts until    *)
(* the recovery is requested and begins to move.                           *)
(***************************************************************************)
HealthyInv ==
    /\ em = "NONE" /\ rc # "SUCCESS" => pc \in {"check", "stop", "done"} /\ SelfInflicted
    /\ em = "REQUESTED" => SelfInflicted

CommandsFit ==
    ArmType = "controller" =>
        /\ pc = "startMove" \/ (pc = "drive" /\ ~isReady) => torque = {} \/ crossed
        /\ Operates => \/ torque = IF Role = "LEADER" \/ gravityFloat THEN Joints ELSE {}
                       \/ Role = "LEADER" /\ DontGoHome

(* What a healthy arm refuses: nothing but what does not fit its modes.      *)
LEMMA HealthyRefusals ==
    ASSUME Faults = {}
    PROVE  /\ ArmType # "controller" \/ torque = {} => PositionRefusals = {{}}
           /\ ArmType # "controller" \/ torque = Joints => TorqueRefusals = {{}}
  BY DEF PositionRefusals, TorqueRefusals, Refusals, RefusedCommands

LEMMA HealthySuccess ==
    ASSUME DeviceInv, em = "NONE", rc = "SUCCESS", DeviceNext, Faults = {}, CommandsFit
    PROVE  em' = "NONE" /\ (rc' = "SUCCESS" \/ (pc' \in {"check", "stop"} /\ SelfInflicted'))
  <1> USE DEF Recovering, recoveryVars
  <1>1. /\ CommandCodes({{}}) = {"SUCCESS"} /\ WriteCodes = {}
        /\ ReadCodes = {"SUCCESS"}
        /\ SwitchedJoints = {NumJoints}
    BY DEF CommandCodes, WriteCodes, ReadCodes, SwitchedJoints
  <1>2. ASSUME NEW code \in [Joints -> ReadCodes], NEW group \in GroupReads,
               ReadHardwareValues(code, group)
        PROVE  rc' = "SUCCESS"
    <2>1. \A j \in Joints : code[j] = "SUCCESS"
      BY <1>1
    <2>2. group.dead = {}
      BY DEF GroupReads
    <2>3. \A j \in Joints : ~Gone(code, j) /\ ~Hard(code, j)
      BY <2>1 DEF Gone, Hard
    <2>4. CASE TolerantRead(code, group.dead)
      BY <2>3, <2>4 DEF TolerantRead
    <2>5. CASE StrictRead(code, group.dead)
      BY <2>1, <2>2, <2>3, <2>5 DEF StrictRead
    <2> QED BY <1>2, <2>4, <2>5 DEF ReadHardwareValues
  <1>3. CASE StartRead \/ Read
    BY <1>2, <1>3 DEF StartRead, Read
  <1>4. ASSUME ReadyMoveStep, pc = "startMove" \/ (pc = "drive" /\ ~isReady),
               rc' # "SUCCESS"
        PROVE  ArmType = "controller" /\ crossed
    <2>1. CASE SkipsHoming
      BY <1>4, <2>1 DEF ReadyMoveStep, SkipStartupMove, SkipHoming
    <2>2. CASE \E pose \in [Joints -> Poses] :
                  MoveToReadyPosition(Recovering, effReady, pose, {})
      BY <1>4, <2>2 DEF MoveToReadyPosition, FeedforwardFails, HomingIteration,
                  ParallelIteration, LastRefuses, SequentialIteration,
                  SkipFailedJoint, GiveUpOnJoint, JointRefuses, DriveJoint,
                  MaintainPosition
    <2>3. ~(ArmType = "controller" /\ crossed) => PositionRefusals = {{}}
      BY <1>4, HealthyRefusals DEF CommandsFit
    <2> QED BY <1>4, <2>1, <2>2, <2>3 DEF ReadyMoveStep
  <1>5. CASE StartMove
    <2>1. /\ em' = em /\ crossed' = crossed
          /\ pc' = "stop" \/ rc' = "SUCCESS"
          /\ ReadyMoveStep /\ pc = "startMove"
      BY <1>5 DEF StartMove, modeVars
    <2> QED BY <1>4, <2>1 DEF SelfInflicted
  <1>6. CASE MoveReady
    <2>1. /\ em' = em
          /\ pc' = "check" \/ rc' = "SUCCESS"
          /\ ReadyMoveStep /\ pc = "drive" /\ ~isReady
      BY <1>6 DEF MoveReady, RecoveryEndsWithMove
    <2>2. rc' # "SUCCESS" => crossed' = crossed
      BY <1>6, Zenon DEF MoveReady, NowReady
    <2> QED BY <1>4, <2>1, <2>2 DEF SelfInflicted
  <1>7. CASE StartHold
    BY <1>7 DEF StartHold
  <1>8. CASE OperateAsLeader \/ OperateAsFollower \/ FloatAsFollower
    <2>1. /\ em' = em /\ UNCHANGED <<forceFeedback, followerSeen>> /\ Operates
          /\ pc' = "check" \/ rc' = "SUCCESS"
      BY <1>8 DEF OperateAsLeader, OperateAsFollower, FloatAsFollower, AfterOperation
    <2>2. rc' \in CommandCodes({{}}) \/ ArmType = "controller"
      BY <1>8, HealthyRefusals DEF OperateAsLeader, OperateAsFollower, FloatAsFollower
    <2>3. ASSUME ArmType = "controller", ~(Role = "LEADER" /\ DontGoHome),
                 ~(Role = "LEADER" /\ forceFeedback /\ followerSeen)
          PROVE  rc' \in CommandCodes({{}})
      <3>1. torque = IF Role = "LEADER" \/ gravityFloat THEN Joints ELSE {}
        BY <2>1, <2>3 DEF CommandsFit
      <3>2. CASE OperateAsLeader \/ FloatAsFollower
        <4>1. torque = Joints
          BY <3>1, <3>2 DEF OperateAsLeader, FloatAsFollower
        <4>2. rc' \in CommandCodes(TorqueRefusals)
          BY <2>3, <3>2 DEF OperateAsLeader, FloatAsFollower
        <4> QED BY <4>1, <4>2, HealthyRefusals
      <3>3. CASE OperateAsFollower
        <4>1. torque = {}
          BY <3>1, <3>3 DEF OperateAsFollower
        <4> QED BY <3>3, <4>1, HealthyRefusals DEF OperateAsFollower
      <3> QED BY <1>8, <3>2, <3>3
    <2>4. rc' = "SUCCESS" \/ SelfInflicted'
      <3>1. CASE rc' \in CommandCodes({{}})
        BY <1>1, <3>1
      <3>2. CASE rc' \notin CommandCodes({{}})
        BY <2>1, <2>2, <2>3, <3>2 DEF SelfInflicted
      <3> QED BY <3>1, <3>2
    <2> QED BY <2>1, <2>4
  <1>9. CASE StopRunaway
    BY <1>1, <1>9 DEF StopRunaway, EndGravityFloat, AfterOperation
  <1>10. CASE Write \/ StepEffector
    BY <1>1, <1>10 DEF Write, StepEffector
  <1>11. CASE \/ Tick \/ Signal \/ ExitLoop \/ NothingToPrepare \/ Restore \/ NoCommand
              \/ ReceiveJoints \/ KeepWatching \/ LoseClient \/ Stop \/ Terminated
    BY <1>11 DEF Tick, Signal, ExitLoop, NothingToPrepare, Restore, NoCommand,
                 ReceiveJoints, KeepWatching, LoseClient, EndOfStep, Stop, Terminated,
                 deviceVars
  <1>12. CASE Prepare \/ TimeOut
    BY <1>12 DEF Prepare, TimeOut
  <1>13. CASE \/ Heartbeat \/ StopCommand \/ GravityCommand \/ ForceFeedbackCommand
              \/ HoldCommand \/ \E c \in Commands : DropCommand(c) \/ PauseOrResume(c)
              \/ \E c \in Commands, id \in 1 .. MaxMoves : MoveCommand(c, id)
    BY <1>13 DEF Heartbeat, StopCommand, GravityCommand, ForceFeedbackCommand,
                 HoldCommand, DropCommand, PauseOrResume, MoveCommand, Receives
  <1>14. CASE Check
    BY <1>14 DEF Check
  <1> QED
    BY <1>3, <1>5, <1>6, <1>7, <1>8, <1>9, <1>10, <1>11, <1>12, <1>13, <1>14
       DEF DeviceNext, ControlLoop, StepPhase, CommandPhase, MainPhase

-----------------------------------------------------------------------------
(***************************************************************************)
(* Bulk reads.  One that finds a dead servo is an error of the step.       *)
(***************************************************************************)
LEMMA StaleReadStep ==
    ASSUME StaleReadEscalates, DeviceNext
    PROVE  StaleReadEscalates'
  <1> USE DEF StaleReadEscalates
  <1>1. CASE Read
    <2>1. PICK code \in [Joints -> ReadCodes], group \in GroupReads :
              ReadHardwareValues(code, group)
      BY <1>1 DEF Read
    <2>2. UNCHANGED <<isReady, em>>
      BY <1>1 DEF Read, homingVars, recoveryVars
    <2>3. bulk' = "dead" => group.dead # {}
      BY <2>1 DEF ReadHardwareValues
    <2>4. ASSUME isReady, em = "NONE", group.dead # {} PROVE pc' = "check"
      <3>1. StrictRead(code, group.dead) /\ ~Recovering
        BY <2>1, <2>4 DEF ReadHardwareValues, Recovering
      <3>2. rc' # "SUCCESS"
        BY <2>4, <3>1 DEF StrictRead, Hard, FirstOf
      <3> QED BY <1>1, <3>1, <3>2 DEF Read
    <2> QED BY <2>2, <2>3, <2>4
  <1>2. CASE \/ StartRead \/ StartHold \/ StartMove \/ ExitLoop \/ Prepare
             \/ NothingToPrepare \/ TimeOut \/ MoveReady \/ Restore \/ Write
             \/ OperateAsLeader \/ OperateAsFollower \/ FloatAsFollower \/ StopRunaway
             \/ NoCommand \/ ReceiveJoints \/ KeepWatching \/ LoseClient
             \/ StepEffector \/ Stop \/ Check
    <2>1. pc' # "prepare"
      BY <1>2 DEF StartRead, StartHold, StartMove, ExitLoop, Prepare, NothingToPrepare,
                  TimeOut, MoveReady, Restore, Write, OperateAsLeader,
                  OperateAsFollower, FloatAsFollower, StopRunaway, AfterOperation,
                  NoCommand, ReceiveJoints, KeepWatching, LoseClient, EndOfStep,
                  StepEffector, Stop, Check, AnnounceReady
    <2> QED BY <2>1
  <1>3. CASE \/ Heartbeat \/ StopCommand \/ GravityCommand \/ ForceFeedbackCommand
             \/ HoldCommand \/ \E c \in Commands : DropCommand(c) \/ PauseOrResume(c)
             \/ \E c \in Commands, id \in 1 .. MaxMoves : MoveCommand(c, id)
    <2>1. pc' # "prepare"
      BY <1>3 DEF Heartbeat, StopCommand, GravityCommand, ForceFeedbackCommand,
                  HoldCommand, DropCommand, PauseOrResume, MoveCommand, Receives
    <2> QED BY <2>1
  <1>4. CASE Tick \/ Signal \/ Terminated
    BY <1>4 DEF Tick, Signal, Terminated, deviceVars
  <1> QED
    BY <1>1, <1>2, <1>3, <1>4
       DEF DeviceNext, ControlLoop, StepPhase, CommandPhase, MainPhase

(***************************************************************************)
(* Bulk reads that fail are errors: initially and in every step.           *)
(***************************************************************************)
LEMMA StaleReadInvariant ==
    ASSUME TRUE
    PROVE  /\ DeviceInit => StaleReadEscalates
           /\ StaleReadEscalates /\ [DeviceNext]_deviceVars => StaleReadEscalates'
  <1>1. DeviceInit => StaleReadEscalates
    BY DEF DeviceInit, StaleReadEscalates
  <1>2. StaleReadEscalates /\ UNCHANGED deviceVars => StaleReadEscalates'
    BY DEF StaleReadEscalates, deviceVars, recoveryVars, homingVars
  <1> QED BY <1>1, <1>2, StaleReadStep

(***************************************************************************)
(* No arm works on with values that a bulk read left in the cache when it  *)
(* found a servo dead (DeviceArm::read_hardware_values()).                 *)
(***************************************************************************)
THEOREM StaleReadsEscalate == DeviceSpec => []StaleReadEscalates
  BY StaleReadInvariant, PTL DEF DeviceSpec

-----------------------------------------------------------------------------
(***************************************************************************)
(* Modes of a whole-arm controller, which switches all joints or none.     *)
(***************************************************************************)
ModesFollowFloat == torque = IF gravityFloat THEN Joints ELSE {}

LEMMA ModesFollowFloatStep ==
    ASSUME DeviceInv, ModesFollowFloat, DeviceNext,
           ArmType = "controller", Role = "FOLLOWER"
    PROVE  ModesFollowFloat'
  <1> USE DEF ModesFollowFloat, modeVars
  <1>1. /\ SwitchedJoints = {NumJoints}
        /\ ModeAfter(TRUE, NumJoints) = {} /\ ModeAfter(FALSE, NumJoints) = Joints
    BY DEF SwitchedJoints, ModeAfter, Joints, DeviceInv, Types, ModeTypes
  <1>2. /\ SetControlMode(TRUE) => ModesFollowFloat'
        /\ EnterGravityFloat => ModesFollowFloat'
        /\ EndGravityFloat => ModesFollowFloat'
    BY <1>1 DEF SetControlMode, EnterGravityFloat, EndGravityFloat
  <1>3. UNCHANGED <<torque, gravityFloat>> => ModesFollowFloat'
    OBVIOUS
  <1>4. RuntimeHold => ModesFollowFloat'
    BY <1>2, <1>3, Zenon DEF RuntimeHold
  <1> HIDE DEF ModesFollowFloat
  <1>5. CASE \/ StartRead \/ StartHold \/ StartMove \/ Tick \/ Signal \/ ExitLoop \/ Read
             \/ NothingToPrepare \/ OperateAsLeader \/ OperateAsFollower
             \/ FloatAsFollower \/ Write \/ NoCommand \/ ReceiveJoints \/ KeepWatching
             \/ StepEffector \/ Check \/ Stop \/ Terminated
    BY <1>3, <1>5 DEF StartRead, StartHold, StartMove, Tick, Signal, ExitLoop, Read,
                  NothingToPrepare, OperateAsLeader, OperateAsFollower,
                  FloatAsFollower, Write, NoCommand, ReceiveJoints, KeepWatching,
                  StepEffector, Check, Stop, Terminated, deviceVars
  <1>6. CASE \/ Heartbeat \/ StopCommand \/ ForceFeedbackCommand
             \/ \E c \in Commands : DropCommand(c) \/ PauseOrResume(c)
             \/ \E c \in Commands, id \in 1 .. MaxMoves : MoveCommand(c, id)
    BY <1>3, <1>6 DEF Heartbeat, StopCommand, ForceFeedbackCommand, DropCommand,
                      PauseOrResume, MoveCommand
  <1>7. CASE Prepare \/ TimeOut
    BY <1>2, <1>3, <1>7 DEF Prepare, TimeOut, BeginReadyMove
  <1>8. CASE MoveReady \/ Restore
    BY <1>2, <1>3, <1>8 DEF MoveReady, Restore, RestoreNormalOperation
  <1>9. CASE StopRunaway
    BY <1>2, <1>9 DEF StopRunaway
  <1>10. CASE GravityCommand
    BY <1>2, <1>3, <1>10, Zenon DEF GravityCommand
  <1>11. CASE HoldCommand \/ LoseClient
    BY <1>4, <1>11 DEF HoldCommand, LoseClient
  <1> QED
    BY <1>5, <1>6, <1>7, <1>8, <1>9, <1>10, <1>11
       DEF DeviceNext, ControlLoop, StepPhase, CommandPhase, MainPhase

(***************************************************************************)
(* A follower behind a whole-arm controller has its joints in the modes    *)
(* that the float flag announces, under every fault and order of commands. *)
(***************************************************************************)
THEOREM FloatsMatchModes ==
    ASSUME ArmType = "controller"
    PROVE  DeviceSpec => []FloatMatchesModes
  <1>1. CASE Role = "FOLLOWER"
    <2>1. DeviceInit => ModesFollowFloat
      BY DEF DeviceInit, ModesFollowFloat
    <2>2. DeviceInv /\ ModesFollowFloat /\ [DeviceNext]_deviceVars => ModesFollowFloat'
      <3>1. ModesFollowFloat /\ UNCHANGED deviceVars => ModesFollowFloat'
        BY DEF ModesFollowFloat, deviceVars, modeVars
      <3> QED BY <1>1, <3>1, ModesFollowFloatStep
    <2>3. ModesFollowFloat => FloatMatchesModes
      BY DEF ModesFollowFloat, FloatMatchesModes
    <2> QED BY DeviceInvariant, <2>1, <2>2, <2>3, PTL DEF DeviceSpec
  <1>2. CASE Role # "FOLLOWER"
    <2>1. FloatMatchesModes
      BY <1>2 DEF FloatMatchesModes
    <2> QED BY <2>1, PTL
  <1> QED BY <1>1, <1>2

-----------------------------------------------------------------------------
(***************************************************************************)
(* The steps that leave alone what the modes and the moves depend on.      *)
(***************************************************************************)
QuietSteps ==
    \/ StartRead \/ StartHold \/ ExitLoop \/ Stop \/ Tick \/ Signal \/ Terminated
    \/ Read \/ NothingToPrepare \/ OperateAsLeader \/ OperateAsFollower
    \/ FloatAsFollower \/ Write \/ ReceiveJoints \/ KeepWatching \/ StepEffector
    \/ NoCommand \/ Heartbeat \/ StopCommand
    \/ \E c \in Commands : DropCommand(c) \/ PauseOrResume(c)

(***************************************************************************)
(* A requested move is taken up before the loop drives the arm again, the  *)
(* step after a move operates on a ready device, and nothing is commanded  *)
(* before the loop.                                                        *)
(***************************************************************************)
CommandBegins ==
    /\ cmd = "REQUESTED" => pc \notin {"drive", "operate"}
    /\ pc = "operate" => isReady /\ cmd = "IDLE"
    /\ pc \in {"start", "startHold", "startMove"} => cmd = "IDLE" /\ em = "NONE" /\ ~isReady
    /\ MaxMoves = 0 => cmd = "IDLE"

(***************************************************************************)
(* The quiet steps leave the modes, the requested move, the recovery and   *)
(* the readiness alone.                                                    *)
(***************************************************************************)
LEMMA QuietFrame ==
    ASSUME QuietSteps
    PROVE  UNCHANGED <<torque, gravityFloat, crossed, cmd, em, isReady>>
  <1>1. CASE \/ StartRead \/ StartHold \/ ExitLoop \/ Stop \/ Tick \/ Signal \/ Terminated
             \/ Read \/ NothingToPrepare
    BY <1>1 DEF StartRead, StartHold, ExitLoop, Stop, Tick, Signal, Terminated, Read,
                NothingToPrepare, modeVars, commandVars, recoveryVars, homingVars, deviceVars
  <1>2. CASE \/ OperateAsLeader \/ OperateAsFollower \/ FloatAsFollower \/ Write
             \/ ReceiveJoints \/ KeepWatching \/ StepEffector
    BY <1>2 DEF OperateAsLeader, OperateAsFollower, FloatAsFollower, AfterOperation, Write,
                ReceiveJoints, KeepWatching, EndOfStep, StepEffector, modeVars,
                commandVars, recoveryVars, homingVars
  <1>3. CASE \/ NoCommand \/ Heartbeat \/ StopCommand
             \/ \E c \in Commands : DropCommand(c) \/ PauseOrResume(c)
    BY <1>3 DEF NoCommand, Heartbeat, StopCommand, DropCommand, PauseOrResume, Receives,
                modeVars, commandVars, recoveryVars, homingVars
  <1> QED BY <1>1, <1>2, <1>3 DEF QuietSteps

(***************************************************************************)
(* Every step is quiet or one of these.                                    *)
(***************************************************************************)
LEMMA OtherSteps ==
    ASSUME DeviceNext
    PROVE  \/ QuietSteps
           \/ StartMove \/ Prepare \/ TimeOut \/ MoveReady \/ Restore \/ StopRunaway
           \/ GravityCommand \/ ForceFeedbackCommand \/ HoldCommand \/ LoseClient \/ Check
           \/ \E c \in Commands, id \in 1 .. MaxMoves : MoveCommand(c, id)
  BY DEF DeviceNext, ControlLoop, StepPhase, CommandPhase, MainPhase, QuietSteps

(***************************************************************************)
(* Requested moves begin in time, whatever step is taken.                  *)
(***************************************************************************)
LEMMA CommandBeginsStep ==
    ASSUME DeviceInv, CommandBegins, DeviceNext
    PROVE  CommandBegins'
  <1> USE DEF CommandBegins
  <1>1. CASE QuietSteps
    <2>1. UNCHANGED <<cmd, em, isReady>>
      BY <1>1, QuietFrame
    <2>2. CASE \/ StartRead \/ StartHold \/ ExitLoop \/ Stop \/ Tick \/ Signal \/ Terminated
               \/ Read \/ NothingToPrepare
      BY <2>1, <2>2 DEF StartRead, StartHold, ExitLoop, Stop, Tick, Signal, Terminated, Read,
                        NothingToPrepare, deviceVars
    <2>3. CASE \/ OperateAsLeader \/ OperateAsFollower \/ FloatAsFollower \/ Write
               \/ ReceiveJoints \/ KeepWatching \/ StepEffector
      <3>1. pc' \notin {"drive", "operate", "start", "startHold", "startMove"}
        BY <2>3 DEF OperateAsLeader, OperateAsFollower, FloatAsFollower, AfterOperation,
                    Write, ReceiveJoints, KeepWatching, EndOfStep, StepEffector
      <3> QED BY <2>1, <3>1
    <2>4. CASE \/ NoCommand \/ Heartbeat \/ StopCommand
               \/ \E c \in Commands : DropCommand(c) \/ PauseOrResume(c)
      <3>1. pc' \notin {"drive", "operate", "start", "startHold", "startMove"}
        BY <2>4 DEF NoCommand, Heartbeat, StopCommand, DropCommand, PauseOrResume, Receives
      <3> QED BY <2>1, <3>1
    <2> QED BY <1>1, <2>2, <2>3, <2>4 DEF QuietSteps
  <1>2. CASE StartMove \/ MoveReady
    <2>1. pc' \in {"loop", "stop", "write", "check"} /\ cmd' = cmd
      BY <1>2 DEF StartMove, MoveReady, commandVars
    <2> QED BY <2>1
  <1>3. CASE Prepare
    BY <1>3 DEF Prepare
  <1>4. CASE TimeOut
    BY <1>4 DEF TimeOut
  <1>5. CASE Restore
    BY <1>5 DEF Restore, RestoreNormalOperation, homingVars
  <1>6. CASE StopRunaway \/ LoseClient
    <2>1. pc' \in {"write", "check", "effector"} /\ cmd' = cmd
      BY <1>6 DEF StopRunaway, AfterOperation, LoseClient, EndOfStep, commandVars
    <2> QED BY <2>1
  <1>7. CASE GravityCommand \/ ForceFeedbackCommand \/ HoldCommand
    <2>1. pc' \in {"joints", "watchdog"} /\ cmd' = cmd
      BY <1>7 DEF GravityCommand, ForceFeedbackCommand, HoldCommand, Receives, commandVars
    <2> QED BY <2>1
  <1>8. CASE Check
    <2>1. pc' \in {"loop", "stop"} /\ cmd' = cmd
      BY <1>8 DEF Check, AnnounceReady, commandVars
    <2> QED BY <2>1
  <1>9. CASE \E c \in Commands, id \in 1 .. MaxMoves : MoveCommand(c, id)
    <2>1. pc' \in {"joints", "watchdog"} /\ MaxMoves # 0
      BY <1>9 DEF MoveCommand, Receives
    <2> QED BY <2>1
  <1> QED BY <1>1, <1>2, <1>3, <1>4, <1>5, <1>6, <1>7, <1>8, <1>9, OtherSteps

(***************************************************************************)
(* Requested moves begin in time: initially and in every step.             *)
(***************************************************************************)
LEMMA CommandBeginsInvariant ==
    ASSUME TRUE
    PROVE  /\ DeviceInit => CommandBegins
           /\ DeviceInv /\ CommandBegins /\ [DeviceNext]_deviceVars => CommandBegins'
  <1>1. DeviceInit => CommandBegins
    BY DEF DeviceInit, MoveInit, CommandBegins
  <1>2. CommandBegins /\ UNCHANGED deviceVars => CommandBegins'
    BY DEF CommandBegins, deviceVars, commandVars, recoveryVars, homingVars
  <1> QED BY <1>1, <1>2, CommandBeginsStep

(***************************************************************************)
(* With --dont_go_to_home_pos, the home pose that the buffers are          *)
(* constructed with is gone as soon as the device is ready or moves for    *)
(* another reason.                                                         *)
(***************************************************************************)
SkipTarget ==
    isReady \/ cmd = "MOVING" \/ em \in {"MOVING_SLOW", "COMPLETED"}
        => tele # "home" \/ ~DontGoHome

(***************************************************************************)
(* No step puts the home pose back into the buffers.                       *)
(***************************************************************************)
LEMMA NeverHomeAgain ==
    ASSUME DeviceNext
    PROVE  tele' = tele \/ tele' # "home"
  <1>1. CASE \/ StartRead \/ StartHold \/ ExitLoop \/ Stop \/ Tick \/ Signal \/ Terminated
             \/ Read \/ NothingToPrepare \/ OperateAsLeader \/ OperateAsFollower
             \/ FloatAsFollower \/ Write \/ KeepWatching \/ StepEffector \/ NoCommand
             \/ Check
    BY <1>1 DEF StartRead, StartHold, ExitLoop, Stop, Tick, Signal, Terminated, Read,
                NothingToPrepare, OperateAsLeader, OperateAsFollower, FloatAsFollower,
                Write, KeepWatching, StepEffector, NoCommand, Check, inputVars, deviceVars
  <1>2. CASE \/ Heartbeat \/ StopCommand \/ GravityCommand \/ ForceFeedbackCommand
             \/ \E c \in Commands : DropCommand(c) \/ PauseOrResume(c)
    BY <1>2 DEF Heartbeat, StopCommand, GravityCommand, ForceFeedbackCommand, DropCommand,
                PauseOrResume
  <1>3. CASE HoldCommand \/ LoseClient
    BY <1>3 DEF HoldCommand, LoseClient, RuntimeHold
  <1>4. CASE StartMove \/ MoveReady
    BY <1>4 DEF StartMove, MoveReady, ReadyMoveStep, SkipStartupMove, ClearCommandBuffers
  <1>5. CASE Prepare \/ TimeOut
    BY <1>5 DEF Prepare, TimeOut, BeginReadyMove, ClearCommandBuffers
  <1>6. CASE Restore \/ StopRunaway
    BY <1>6 DEF Restore, RestoreNormalOperation, StopRunaway, ClearCommandBuffers
  <1>7. CASE ReceiveJoints
    BY <1>7 DEF ReceiveJoints
  <1>8. CASE \E c \in Commands, id \in 1 .. MaxMoves : MoveCommand(c, id)
    BY <1>8 DEF MoveCommand
  <1> QED BY <1>1, <1>2, <1>3, <1>4, <1>5, <1>6, <1>7, <1>8
          DEF DeviceNext, ControlLoop, StepPhase, CommandPhase, MainPhase

(***************************************************************************)
(* The commands that change modes change nothing about the moves.          *)
(***************************************************************************)
LEMMA ModeCommandFrame ==
    ASSUME GravityCommand \/ ForceFeedbackCommand \/ HoldCommand
    PROVE  UNCHANGED <<cmd, em, isReady>>
  <1>1. UNCHANGED cmd
    BY Zenon DEF GravityCommand, ForceFeedbackCommand, HoldCommand, commandVars
  <1>2. UNCHANGED em
    BY Zenon DEF GravityCommand, ForceFeedbackCommand, HoldCommand, Receives, recoveryVars
  <1>3. UNCHANGED isReady
    BY Zenon DEF GravityCommand, ForceFeedbackCommand, HoldCommand
  <1> QED BY <1>1, <1>2, <1>3

(***************************************************************************)
(* The home pose is gone in time, whatever step is taken.                  *)
(***************************************************************************)
LEMMA SkipTargetStep ==
    ASSUME DeviceInv, CommandBegins, SkipTarget, DeviceNext
    PROVE  SkipTarget'
  <1>1. CASE tele' # "home"
    BY <1>1 DEF SkipTarget
  <1>2. CASE tele' = tele /\ ~DontGoHome
    BY <1>2 DEF SkipTarget
  <1>3. CASE tele' = tele /\ tele = "home" /\ DontGoHome
    <2>1. ~isReady /\ cmd # "MOVING" /\ em \notin {"MOVING_SLOW", "COMPLETED"}
      BY <1>3 DEF SkipTarget
    <2>2. SUFFICES ~isReady' /\ cmd' # "MOVING" /\ em' \notin {"MOVING_SLOW", "COMPLETED"}
      BY DEF SkipTarget
    <2>3. CASE QuietSteps
      BY <2>1, <2>3, QuietFrame
    <2>4. CASE StartMove
      <3>1. SkipsHoming
        BY <1>3, <2>4 DEF StartMove, CommandBegins, SkipsHoming, Recovering
      <3> QED BY <1>3, <2>4, <3>1 DEF StartMove, ReadyMoveStep, SkipStartupMove,
                                      ClearCommandBuffers
    <2>5. CASE MoveReady
      <3>1. pc = "drive" /\ cmd = "IDLE" /\ em = "NONE"
        BY <2>1, <2>5 DEF MoveReady, CommandBegins, DeviceInv, Types, CommandTypes,
                          RecoveryTypes, RecoveryBegins
      <3>2. SkipsHoming
        BY <1>3, <3>1 DEF SkipsHoming, Recovering
      <3> QED BY <1>3, <2>5, <3>2 DEF MoveReady, ReadyMoveStep, SkipStartupMove,
                                      ClearCommandBuffers
    <2>6. CASE Prepare
      BY <1>3, <2>6 DEF Prepare, BeginReadyMove, ClearCommandBuffers
    <2>7. CASE TimeOut \/ Restore
      BY <2>1, <2>7 DEF TimeOut, Restore
    <2>8. CASE StopRunaway
      BY <1>3, <2>1, <2>8 DEF StopRunaway, Operates, CommandBegins
    <2>9. CASE LoseClient
      BY <2>1, <2>9 DEF LoseClient, ClientIsLost
    <2>10. CASE GravityCommand \/ ForceFeedbackCommand \/ HoldCommand
      BY <2>1, <2>10, ModeCommandFrame
    <2>11. CASE Check
      BY <2>1, <2>11 DEF Check, EnterEmergencyRecovery, commandVars, recoveryVars, homingVars
    <2>12. CASE \E c \in Commands, id \in 1 .. MaxMoves : MoveCommand(c, id)
      BY <2>1, <2>12 DEF MoveCommand, RequestMoveToReady, Receives, recoveryVars
    <2> QED BY <2>3, <2>4, <2>5, <2>6, <2>7, <2>8, <2>9, <2>10, <2>11, <2>12, OtherSteps
  <1> QED BY <1>1, <1>2, <1>3, NeverHomeAgain, DontGoHomeAssumption

(***************************************************************************)
(* The home pose is gone in time: initially and in every step.             *)
(***************************************************************************)
LEMMA SkipTargetInvariant ==
    ASSUME TRUE
    PROVE  /\ DeviceInit => SkipTarget
           /\ DeviceInv /\ CommandBegins /\ SkipTarget /\ [DeviceNext]_deviceVars
                => SkipTarget'
  <1>1. DeviceInit => SkipTarget
    BY DEF DeviceInit, MoveInit, SkipTarget
  <1>2. SkipTarget /\ UNCHANGED deviceVars => SkipTarget'
    BY DEF SkipTarget, deviceVars, commandVars, recoveryVars, homingVars, inputVars
  <1> QED BY <1>1, <1>2, SkipTargetStep

(***************************************************************************)
(* A device that skips its start-up move never has the home pose as its    *)
(* target once it is ready: for every arm, role, fault and order of        *)
(* commands (move_to_ready_position() and                                  *)
(* clear_command_buffers_for_move_to_ready()).                             *)
(***************************************************************************)
THEOREM SkipsStaySkipped == DeviceSpec => []SkipIsNotUndone
  <1>1. SkipTarget => SkipIsNotUndone
    BY DEF SkipTarget, SkipIsNotUndone
  <1> QED BY DeviceInvariant, CommandBeginsInvariant, SkipTargetInvariant, <1>1, PTL
          DEF DeviceSpec

-----------------------------------------------------------------------------
(***************************************************************************)
(* A mode switch that begins also ends: only a serial arm's can fail.      *)
(***************************************************************************)
ModesAreSure == ArmType # "serial" \/ "mode" \notin Faults

(***************************************************************************)
(* A CAN arm has no joint in torque mode; a recovery that moves, and every *)
(* other move that no mode command has crossed, have the joints in         *)
(* position mode until the device is ready.                                *)
(***************************************************************************)
OverrideInv ==
    /\ ArmType = "can" => torque = {}
    /\ em = "MOVING_SLOW" /\ ~isReady /\ cmd # "REQUESTED" => torque = {}
    /\ ~isReady /\ cmd # "REQUESTED" /\ ~crossed => torque = {}

(***************************************************************************)
(* What a mode switch that cannot fail leaves: on a CAN arm the modes      *)
(* there were, on the others one mode for all joints.                      *)
(***************************************************************************)
LEMMA SureSwitches ==
    ASSUME ModeTypes, ModesAreSure
    PROVE  /\ SetControlMode(TRUE) => torque' = IF ArmType = "can" THEN torque ELSE {}
           /\ SetControlMode(FALSE) => torque' = IF ArmType = "can" THEN torque ELSE Joints
           /\ EnterGravityFloat => torque' = IF ArmType = "can" THEN torque ELSE Joints
           /\ EndGravityFloat => torque' = IF ArmType = "can" THEN torque ELSE {}
  <1>1. SwitchedJoints = {NumJoints}
    BY DEF SwitchedJoints, ModesAreSure
  <1>2. /\ ModeAfter(TRUE, NumJoints) = IF ArmType = "can" THEN torque ELSE {}
        /\ ModeAfter(FALSE, NumJoints) = IF ArmType = "can" THEN torque ELSE Joints
    BY DEF ModeAfter, ModeTypes, Joints
  <1>3. SetControlMode(TRUE) => torque' = ModeAfter(TRUE, NumJoints)
    BY <1>1 DEF SetControlMode
  <1>4. SetControlMode(FALSE) => torque' = ModeAfter(FALSE, NumJoints)
    BY <1>1 DEF SetControlMode
  <1>5. EnterGravityFloat => torque' = ModeAfter(FALSE, NumJoints)
    BY <1>1 DEF EnterGravityFloat
  <1>6. EndGravityFloat => torque' = ModeAfter(TRUE, NumJoints)
    BY <1>1 DEF EndGravityFloat
  <1> QED BY <1>2, <1>3, <1>4, <1>5, <1>6

(***************************************************************************)
(* The mode switches of the steps.                                         *)
(***************************************************************************)
LEMMA SwitchesOfSteps ==
    ASSUME DeviceInv, ModesAreSure
    PROVE  /\ Prepare => torque' = (IF ArmType = "can" THEN torque ELSE {})
           /\ TimeOut => torque' = torque \/ torque' = (IF ArmType = "can" THEN torque ELSE {})
           /\ StopRunaway => torque' = (IF ArmType = "can" THEN torque ELSE {})
           /\ HoldCommand =>
                torque' = torque \/ torque' = (IF ArmType = "can" THEN torque ELSE {})
           /\ GravityCommand =>
                torque' = torque \/ torque' = (IF ArmType = "can" THEN torque ELSE Joints)
           /\ ForceFeedbackCommand =>
                torque' = torque \/ torque' = (IF ArmType = "can" THEN torque ELSE Joints)
           /\ LoseClient => torque' = torque \/ (torque' \in {{}, Joints} /\ ArmType # "can")
  <1>1. ModeTypes
    BY DEF DeviceInv, Types
  <1>2. /\ SetControlMode(TRUE) => torque' = IF ArmType = "can" THEN torque ELSE {}
        /\ SetControlMode(FALSE) => torque' = IF ArmType = "can" THEN torque ELSE Joints
        /\ EnterGravityFloat => torque' = IF ArmType = "can" THEN torque ELSE Joints
        /\ EndGravityFloat => torque' = IF ArmType = "can" THEN torque ELSE {}
    BY <1>1, SureSwitches
  <1>3. Prepare => SetControlMode(TRUE)
    BY DEF Prepare, BeginReadyMove
  <1>4. TimeOut => SetControlMode(TRUE) \/ UNCHANGED torque
    BY DEF TimeOut, BeginReadyMove
  <1>5. StopRunaway => EndGravityFloat
    BY DEF StopRunaway
  <1>6. RuntimeHold => EndGravityFloat \/ UNCHANGED torque
    BY Zenon DEF RuntimeHold
  <1>7. HoldCommand => RuntimeHold
    BY Zenon DEF HoldCommand
  <1>8. GravityCommand => EnterGravityFloat \/ SetControlMode(FALSE) \/ UNCHANGED torque
    BY Zenon DEF GravityCommand
  <1>9. ForceFeedbackCommand => SetControlMode(FALSE) \/ UNCHANGED torque
    BY Zenon DEF ForceFeedbackCommand, modeVars
  <1>10. LoseClient => SetControlMode(FALSE) \/ UNCHANGED torque \/ RuntimeHold
    BY Zenon DEF LoseClient
  <1>11. Prepare => torque' = (IF ArmType = "can" THEN torque ELSE {})
    BY <1>2, <1>3
  <1>12. TimeOut => torque' = torque \/ torque' = (IF ArmType = "can" THEN torque ELSE {})
    BY <1>2, <1>4
  <1>13. StopRunaway => torque' = (IF ArmType = "can" THEN torque ELSE {})
    BY <1>2, <1>5
  <1>14. HoldCommand => torque' = torque \/ torque' = (IF ArmType = "can" THEN torque ELSE {})
    BY <1>2, <1>6, <1>7
  <1>15. GravityCommand =>
           torque' = torque \/ torque' = (IF ArmType = "can" THEN torque ELSE Joints)
    BY <1>2, <1>8
  <1>16. ForceFeedbackCommand =>
           torque' = torque \/ torque' = (IF ArmType = "can" THEN torque ELSE Joints)
    BY <1>2, <1>9
  <1>17. LoseClient => torque' = torque \/ (torque' \in {{}, Joints} /\ ArmType # "can")
    BY <1>2, <1>6, <1>10
  <1> QED BY <1>11, <1>12, <1>13, <1>14, <1>15, <1>16, <1>17

(***************************************************************************)
(* The end of a move switches to the mode of the role.                     *)
(***************************************************************************)
LEMMA MoveReadyModes ==
    ASSUME DeviceInv, ModesAreSure, MoveReady \/ Restore
    PROVE  \/ torque' = torque
           \/ isReady' /\ torque' = (IF ArmType = "can" THEN torque
                                     ELSE IF Role = "FOLLOWER" THEN {} ELSE Joints)
  <1>1. ModeTypes
    BY DEF DeviceInv, Types
  <1>2. /\ SetControlMode(TRUE) => torque' = IF ArmType = "can" THEN torque ELSE {}
        /\ SetControlMode(FALSE) => torque' = IF ArmType = "can" THEN torque ELSE Joints
    BY <1>1, SureSwitches
  <1>3. SetControlMode(Role = "FOLLOWER") =>
          torque' = (IF ArmType = "can" THEN torque
                     ELSE IF Role = "FOLLOWER" THEN {} ELSE Joints)
    <2>1. CASE Role = "FOLLOWER"
      <3>1. SetControlMode(Role = "FOLLOWER") => SetControlMode(TRUE)
        BY <2>1, Zenon
      <3> QED BY <1>2, <2>1, <3>1
    <2>2. CASE Role # "FOLLOWER"
      <3>1. (Role = "FOLLOWER") = FALSE
        BY <2>2, Zenon
      <3>2. SetControlMode(Role = "FOLLOWER") => SetControlMode(FALSE)
        BY <3>1, Zenon
      <3> QED BY <1>2, <2>2, <3>2
    <2> QED BY <2>1, <2>2
  <1>4. CASE MoveReady
    <2>1. (NowReady /\ SetControlMode(Role = "FOLLOWER")) \/ UNCHANGED torque
      BY <1>4, Zenon DEF MoveReady
    <2> QED BY <1>3, <2>1 DEF NowReady
  <1>5. CASE Restore
    <2>1. SetControlMode(Role = "FOLLOWER")
      BY <1>5, Zenon DEF Restore, RestoreNormalOperation
    <2>2. isReady'
      BY <1>5, Zenon DEF Restore, homingVars
    <2> QED BY <1>3, <2>1, <2>2
  <1> QED BY <1>4, <1>5

(***************************************************************************)
(* The modes of a move last, whatever step is taken.                       *)
(***************************************************************************)
LEMMA OverrideStep ==
    ASSUME DeviceInv, CommandBegins, OverrideInv, DeviceNext, ModesAreSure
    PROVE  OverrideInv'
  <1> USE DEF OverrideInv
  <1>1. CASE QuietSteps
    BY <1>1, QuietFrame
  <1>2. CASE StartMove
    <2>1. UNCHANGED <<torque, crossed, cmd, em>> /\ cmd = "IDLE" /\ em = "NONE" /\ ~isReady
      BY <1>2 DEF StartMove, CommandBegins, modeVars, commandVars, recoveryVars
    <2> QED BY <2>1
  <1>3. CASE Prepare
    BY <1>3, SwitchesOfSteps
  <1>4. CASE TimeOut
    <2>1. em' = "COMPLETED" /\ em = "MOVING_SLOW"
      BY <1>4 DEF TimeOut, CompleteRecovery
    <2>2. torque' = torque \/ torque' = (IF ArmType = "can" THEN torque ELSE {})
      BY <1>4, SwitchesOfSteps
    <2>3. CASE cmd = "REQUESTED"
      <3>1. torque' = {}
        <4>1. SetControlMode(TRUE) /\ ModeTypes
          BY <1>4, <2>3 DEF TimeOut, BeginReadyMove, DeviceInv, Types
        <4> QED BY <4>1, SureSwitches
      <3> QED BY <2>1, <2>2, <3>1
    <2>4. CASE cmd # "REQUESTED"
      <3>1. UNCHANGED <<torque, crossed, cmd, isReady>>
        BY <1>4, <2>4 DEF TimeOut, homingVars
      <3> QED BY <2>1, <3>1
    <2> QED BY <2>3, <2>4
  <1>5. CASE MoveReady \/ Restore
    <2>1. \/ torque' = torque
          \/ isReady' /\ torque' = (IF ArmType = "can" THEN torque
                                    ELSE IF Role = "FOLLOWER" THEN {} ELSE Joints)
      BY <1>5, MoveReadyModes
    <2>2. CASE MoveReady
      <3>1. cmd' = cmd /\ (em' = em \/ em' = "COMPLETED") /\ ~isReady
        BY <2>2 DEF MoveReady, RecoveryEndsWithMove, CompleteRecovery, recoveryVars
      <3>2. ~isReady' => UNCHANGED <<torque, crossed>>
        BY <2>2, Zenon DEF MoveReady, NowReady
      <3> QED BY <2>1, <3>1, <3>2
    <2>3. CASE Restore
      <3>1. UNCHANGED <<em, isReady>> /\ cmd' = "IDLE" /\ isReady
        BY <2>3 DEF Restore, RestoreNormalOperation, recoveryVars, homingVars
      <3> QED BY <2>1, <3>1
    <2> QED BY <1>5, <2>2, <2>3
  <1>6. CASE StopRunaway
    <2>1. UNCHANGED <<cmd, em, isReady, crossed>>
      BY <1>6, Zenon DEF StopRunaway, AfterOperation, commandVars, recoveryVars, homingVars
    <2> QED BY <1>6, <2>1, SwitchesOfSteps
  <1>7. CASE HoldCommand
    <2>1. crossed' = crossed
      BY <1>7, Zenon DEF HoldCommand
    <2> QED BY <1>7, <2>1, ModeCommandFrame, SwitchesOfSteps
  <1>8. CASE GravityCommand \/ ForceFeedbackCommand
    <2>1. UNCHANGED <<cmd, em, isReady>> /\ em = "NONE"
      <3>1. ~Recovering
        BY <1>8, Zenon DEF GravityCommand, ForceFeedbackCommand, RecoveryGate
      <3> QED BY <1>8, <3>1, ModeCommandFrame DEF Recovering
    <2>2. UNCHANGED <<torque, crossed>> \/ crossed' = ~isReady
      BY <1>8, Zenon DEF GravityCommand, ForceFeedbackCommand, modeVars
    <2>3. torque' = torque \/ torque' = (IF ArmType = "can" THEN torque ELSE Joints)
      BY <1>8, SwitchesOfSteps
    <2>4. UNCHANGED <<torque, crossed>> \/ isReady' \/ crossed'
      BY <2>1, <2>2, Zenon
    <2> QED BY <2>1, <2>3, <2>4
  <1>9. CASE LoseClient
    <2>1. UNCHANGED <<cmd, em, isReady>> /\ cmd = "IDLE" /\ isReady
      BY <1>9, Zenon DEF LoseClient, ClientIsLost, EndOfStep, commandVars, recoveryVars,
                         homingVars
    <2>2. torque' = torque \/ (torque' \in {{}, Joints} /\ ArmType # "can")
      BY <1>9, SwitchesOfSteps
    <2> QED BY <2>1, <2>2
  <1>10. CASE Check
    <2>1. UNCHANGED <<cmd, torque, crossed, isReady>> /\ (em' = em \/ em' = "REQUESTED")
      BY <1>10 DEF Check, EnterEmergencyRecovery, commandVars, recoveryVars, modeVars,
                   homingVars
    <2> QED BY <2>1
  <1>11. CASE \E c \in Commands, id \in 1 .. MaxMoves : MoveCommand(c, id)
    <2>1. UNCHANGED <<torque, em>> /\ cmd' = "REQUESTED"
      BY <1>11 DEF MoveCommand, RequestMoveToReady, Receives, modeVars, recoveryVars
    <2> QED BY <2>1
  <1> QED BY <1>1, <1>2, <1>3, <1>4, <1>5, <1>6, <1>7, <1>8, <1>9, <1>10, <1>11, OtherSteps

(***************************************************************************)
(* The modes of a move last: initially and in every step.                  *)
(***************************************************************************)
LEMMA OverrideInvariant ==
    ASSUME ModesAreSure
    PROVE  /\ DeviceInit => OverrideInv
           /\ DeviceInv /\ CommandBegins /\ OverrideInv /\ [DeviceNext]_deviceVars
                => OverrideInv'
  <1>1. DeviceInit => OverrideInv
    BY DEF DeviceInit, MoveInit, OverrideInv
  <1>2. OverrideInv /\ UNCHANGED deviceVars => OverrideInv'
    BY DEF OverrideInv, deviceVars, commandVars, recoveryVars, homingVars, modeVars
  <1> QED BY <1>1, <1>2, OverrideStep

(***************************************************************************)
(* While an emergency recovery drives the joints they are all position     *)
(* controlled, whatever commands arrive: the recovery takes no command     *)
(* that changes modes.  It needs mode switches that do not fail half-way,  *)
(* as every arm but a serial one has them.                                 *)
(***************************************************************************)
THEOREM RecoveriesAreHeld ==
    ASSUME ModesAreSure
    PROVE  DeviceSpec => [](pc = "drive" /\ ~isReady /\ em = "MOVING_SLOW" => torque = {})
  <1>1. OverrideInv /\ CommandBegins =>
          (pc = "drive" /\ ~isReady /\ em = "MOVING_SLOW" => torque = {})
    BY DEF OverrideInv, CommandBegins
  <1> QED BY DeviceInvariant, CommandBeginsInvariant, OverrideInvariant, <1>1, PTL
          DEF DeviceSpec

(***************************************************************************)
(* While a recovery drives the joints, or a commanded ready move that no   *)
(* mode command has crossed, they are all position controlled, on every    *)
(* arm whose mode switches do not fail half-way and whatever the order of  *)
(* commands, messages, moves and errors.                                   *)
(***************************************************************************)
THEOREM OverridesAreHeld ==
    ASSUME ModesAreSure
    PROVE  DeviceSpec => []OverrideHeld
  <1>1. OverrideInv /\ CommandBegins => OverrideHeld
    BY DEF OverrideInv, CommandBegins, OverrideHeld
  <1> QED BY DeviceInvariant, CommandBeginsInvariant, OverrideInvariant, <1>1, PTL
          DEF DeviceSpec

-----------------------------------------------------------------------------
(***************************************************************************)
(* Before the first iteration of the start-up move, no joint is set aside  *)
(* and the arm is not at home yet.                                         *)
(***************************************************************************)
StartFresh ==
    pc \in {"start", "startHold", "startMove"} =>
        failed = {} /\ initCount = 0 /\ isReadyArm = FALSE

(***************************************************************************)
(* A leader never floats by the flag of followers, and is in torque mode   *)
(* whenever it is ready, nothing is commanded and its last step was no     *)
(* error.                                                                  *)
(***************************************************************************)
LeaderInv ==
    /\ gravityFloat = FALSE
    /\ isReady /\ cmd = "IDLE" /\ em = "NONE" /\ ~(pc = "check" /\ rc # "SUCCESS")
         => torque = Joints
    /\ StartFresh

(***************************************************************************)
(* The mode switches of a leader, which never floats by the flag.          *)
(***************************************************************************)
LEMMA LeaderSteps ==
    ASSUME DeviceInv, ModesAreSure, ArmType # "can", Role = "LEADER", gravityFloat = FALSE
    PROVE  /\ GravityCommand \/ ForceFeedbackCommand => torque' = Joints
           /\ HoldCommand => torque' = torque
           /\ LoseClient => torque' = torque \/ torque' = Joints
           /\ ~StopRunaway
  <1>1. ModeTypes
    BY DEF DeviceInv, Types
  <1>2. SetControlMode(FALSE) => torque' = Joints
    BY <1>1, SureSwitches
  <1>3. GravityCommand \/ ForceFeedbackCommand => SetControlMode(FALSE)
    <2>1. Role # "FOLLOWER"
      OBVIOUS
    <2> QED BY <2>1, Zenon DEF GravityCommand, ForceFeedbackCommand
  <1>4. HoldCommand => UNCHANGED torque
    BY Zenon DEF HoldCommand, RuntimeHold
  <1>5. LoseClient => SetControlMode(FALSE) \/ UNCHANGED torque
    <2>1. Role # "FOLLOWER"
      OBVIOUS
    <2> QED BY <2>1, Zenon DEF LoseClient
  <1>6. ~StopRunaway
    BY DEF StopRunaway
  <1> QED BY <1>2, <1>3, <1>4, <1>5, <1>6

(***************************************************************************)
(* The float flag of a leader stays down.                                  *)
(***************************************************************************)
LEMMA LeaderNeverFloats ==
    ASSUME DeviceNext, Role = "LEADER", gravityFloat = FALSE
    PROVE  gravityFloat' = FALSE
  <1>1. \A f \in BOOLEAN : SetControlMode(f) => gravityFloat' = FALSE
    BY DEF SetControlMode
  <1>2. CASE QuietSteps
    BY <1>2, QuietFrame
  <1>3. CASE StartMove \/ Check
    BY <1>3 DEF StartMove, Check, modeVars
  <1>4. CASE \E c \in Commands, id \in 1 .. MaxMoves : MoveCommand(c, id)
    BY <1>4 DEF MoveCommand, modeVars
  <1>5. CASE Prepare \/ TimeOut
    <2>1. SetControlMode(TRUE) \/ UNCHANGED gravityFloat
      BY <1>5, Zenon DEF Prepare, TimeOut, BeginReadyMove
    <2> QED BY <1>1, <2>1
  <1>6. CASE MoveReady \/ Restore
    <2>1. SetControlMode(Role = "FOLLOWER") \/ UNCHANGED gravityFloat
      BY <1>6, Zenon DEF MoveReady, Restore, RestoreNormalOperation
    <2>2. (Role = "FOLLOWER") \in BOOLEAN
      BY Zenon
    <2> QED BY <1>1, <2>1, <2>2, Zenon
  <1>7. CASE GravityCommand \/ ForceFeedbackCommand \/ HoldCommand \/ LoseClient
    <2>0. Role # "FOLLOWER"
      OBVIOUS
    <2>1. SetControlMode(FALSE) \/ UNCHANGED gravityFloat
      BY <1>7, <2>0, Zenon DEF GravityCommand, ForceFeedbackCommand, HoldCommand, LoseClient,
                         RuntimeHold
    <2> QED BY <1>1, <2>1
  <1>8. CASE StopRunaway
    BY <1>8 DEF StopRunaway
  <1> QED BY <1>2, <1>3, <1>4, <1>5, <1>6, <1>7, <1>8, OtherSteps

(***************************************************************************)
(* Without faults of the first read and of the hold, no joint is set aside *)
(* before the start-up move.                                               *)
(***************************************************************************)
LEMMA StartIsHealthy ==
    ASSUME DeviceNext, Faults \cap {"read", "bulk", "hold"} = {},
           StartFresh
    PROVE  StartFresh'
  <1> USE DEF StartFresh
  <1>1. CASE StartRead
    <2>1. PICK code \in [Joints -> ReadCodes], group \in GroupReads :
              ReadHardwareValues(code, group)
      BY <1>1 DEF StartRead
    <2>2. \A j \in Joints : ~Gone(code, j)
      BY DEF ReadCodes, Gone
    <2>3. group.dead = {}
      BY DEF GroupReads
    <2>4. \/ failed' = failed \cup group.dead
                          \cup {j \in Joints \ (failed \cup group.dead) : Gone(code, j)}
          \/ failed' = failed
      BY <2>1 DEF ReadHardwareValues, TolerantRead, StrictRead
    <2>5. failed' = {}
      BY <1>1, <2>2, <2>3, <2>4 DEF StartRead
    <2> QED BY <1>1, <2>5 DEF StartRead, homingVars, moveVars
  <1>2. CASE StartHold
    <2>1. failed' = failed /\ UNCHANGED <<initCount, isReadyArm>> /\ pc = "startHold"
      BY <1>2 DEF StartHold, homingVars, moveVars
    <2> QED BY <2>1
  <1>3. CASE Terminated
    BY <1>3 DEF Terminated, deviceVars
  <1>4. CASE \/ StartMove \/ ExitLoop \/ Stop \/ Tick \/ Signal \/ Read \/ NothingToPrepare
             \/ OperateAsLeader \/ OperateAsFollower \/ FloatAsFollower \/ StopRunaway
             \/ Write \/ ReceiveJoints \/ KeepWatching \/ LoseClient \/ StepEffector
             \/ Prepare \/ TimeOut \/ MoveReady \/ Restore \/ Check
    <2>1. pc' \notin {"start", "startHold", "startMove"}
      BY <1>4 DEF StartMove, ExitLoop, Stop, Tick, Signal, Read, NothingToPrepare,
                  OperateAsLeader, OperateAsFollower, FloatAsFollower, StopRunaway,
                  AfterOperation, Write, ReceiveJoints, KeepWatching, LoseClient, EndOfStep,
                  StepEffector, Prepare, TimeOut, MoveReady, Restore, Check, AnnounceReady
    <2> QED BY <2>1
  <1>5. CASE CommandPhase
    <2>1. pc' \notin {"start", "startHold", "startMove"}
      BY <1>5 DEF CommandPhase, NoCommand, Heartbeat, StopCommand, GravityCommand,
                  ForceFeedbackCommand, HoldCommand, DropCommand, PauseOrResume,
                  MoveCommand, Receives
    <2> QED BY <2>1
  <1> QED BY <1>1, <1>2, <1>3, <1>4, <1>5
          DEF DeviceNext, ControlLoop, StepPhase, MainPhase

(***************************************************************************)
(* The first iteration of the start-up move does not end it: the arrival   *)
(* at the ready pose has to be confirmed.                                  *)
(***************************************************************************)
LEMMA FirstIteration ==
    ASSUME StartMove, ~SkipsHoming, failed = {}, initCount = 0, isReady = FALSE,
           isReadyArm = FALSE, ConfirmCount # 0
    PROVE  ~isReady'
  <1>1. PICK pose \in [Joints -> Poses], bad \in PositionRefusals :
            MoveToReadyPosition(Recovering, effReady, pose, bad)
    BY DEF StartMove, ReadyMoveStep
  <1>2. Joints # {}
    BY NumJointsAssumption DEF Joints
  <1>3. CASE HomingIteration(Recovering, effReady, pose, bad)
    <2>1. CASE ParallelIteration(Recovering, effReady, pose, bad)
      <3>1. UsedBefore = 0 /\ ReachedBefore = 0
        BY DEF UsedBefore, ReachedBefore
      <3>2. ~(1 > ConfirmCount) /\ ~BudgetExhausted(UsedBefore + 1)
        BY <3>1, ConfirmCountAssumption, BudgetAssumption DEF BudgetExhausted
      <3>3. ~isReadyArm'
        BY <1>2, <2>1, <3>1, <3>2 DEF ParallelIteration
      <3> QED BY <2>1, <3>3 DEF ParallelIteration, ReadyOnceArmIs
    <2>2. CASE SequentialIteration(Recovering, effReady, pose, bad)
      <3>1. ~SkipFailedJoint(Recovering, effReady)
        BY DEF SkipFailedJoint
      <3>2. CASE GiveUpOnJoint \/ JointRefuses(bad)
        BY <3>2 DEF GiveUpOnJoint, JointRefuses
      <3>3. CASE DriveJoint(Recovering, effReady, pose, bad)
        <4>1. ReachedBefore = 0
          BY DEF ReachedBefore
        <4>2. ~(ReachedBefore + 1 > ConfirmCount)
          BY <4>1, ConfirmCountAssumption
        <4>3. isReadyArm' = isReadyArm
          BY <3>3, <4>2 DEF DriveJoint
        <4> QED BY <3>3, <4>3 DEF DriveJoint, ReadyOnceArmIs
      <3> QED BY <2>2, <3>1, <3>2, <3>3 DEF SequentialIteration
    <2> QED BY <1>3, <2>1, <2>2 DEF HomingIteration
  <1>4. CASE FeedforwardFails
    BY <1>4 DEF FeedforwardFails
  <1>5. CASE MaintainPosition(Recovering, effReady, bad)
    BY <1>5 DEF MaintainPosition
  <1> QED BY <1>1, <1>3, <1>4, <1>5 DEF MoveToReadyPosition

(***************************************************************************)
(* The end of a move gives a leader its torque mode.                       *)
(***************************************************************************)
LEMMA LeaderRestored ==
    ASSUME DeviceInv, ModesAreSure, ArmType # "can", Role = "LEADER",
           SetControlMode(Role = "FOLLOWER")
    PROVE  torque' = Joints
  <1>1. (Role = "FOLLOWER") = FALSE
    <2>1. Role # "FOLLOWER"
      OBVIOUS
    <2> QED BY <2>1, Zenon
  <1>2. SetControlMode(FALSE)
    BY <1>1, Zenon
  <1>3. ModeTypes
    BY DEF DeviceInv, Types
  <1> QED BY <1>2, <1>3, SureSwitches

(***************************************************************************)
(* The invariant of a leader is inductive.                                 *)
(***************************************************************************)
LEMMA LeaderStep ==
    ASSUME DeviceInv, CommandBegins, LeaderInv, DeviceNext, ModesAreSure, ArmType # "can",
           Role = "LEADER", DontGoHome = FALSE, ConfirmCount # 0,
           Faults \cap {"read", "bulk", "hold"} = {}
    PROVE  LeaderInv'
  <1>1. gravityFloat' = FALSE
    BY LeaderNeverFloats DEF LeaderInv
  <1>2. StartFresh'
    BY StartIsHealthy DEF LeaderInv
  <1>3. SUFFICES isReady' /\ cmd' = "IDLE" /\ em' = "NONE"
                   /\ ~(pc' = "check" /\ rc' # "SUCCESS") => torque' = Joints
    BY <1>1, <1>2 DEF LeaderInv
  <1>4. isReady /\ cmd = "IDLE" /\ em = "NONE" /\ ~(pc = "check" /\ rc # "SUCCESS")
          => torque = Joints
    BY DEF LeaderInv
  <1>5. CASE QuietSteps
    <2>1. UNCHANGED <<torque, gravityFloat, cmd, em, isReady>>
      BY <1>5, QuietFrame
    <2>2. pc # "check"
      <3>1. CASE \/ StartRead \/ StartHold \/ ExitLoop \/ Stop \/ Tick \/ Signal \/ Terminated
                 \/ Read \/ NothingToPrepare
        BY <3>1 DEF StartRead, StartHold, ExitLoop, Stop, Tick, Signal, Terminated, Read,
                    NothingToPrepare
      <3>2. CASE \/ OperateAsLeader \/ OperateAsFollower \/ FloatAsFollower \/ Write
                 \/ ReceiveJoints \/ KeepWatching \/ StepEffector
        BY <3>2 DEF OperateAsLeader, OperateAsFollower, FloatAsFollower, Operates, Write,
                    ReceiveJoints, KeepWatching, EndOfStep, StepEffector
      <3>3. CASE \/ NoCommand \/ Heartbeat \/ StopCommand
                 \/ \E c \in Commands : DropCommand(c) \/ PauseOrResume(c)
        BY <3>3 DEF NoCommand, Heartbeat, StopCommand, DropCommand, PauseOrResume, Receives
      <3> QED BY <1>5, <3>1, <3>2, <3>3 DEF QuietSteps
    <2> QED BY <1>4, <2>1, <2>2
  <1>6. CASE StartMove
    <2>1. pc = "startMove" /\ ~SkipsHoming
      BY <1>6 DEF StartMove, SkipsHoming
    <2>2. isReady = FALSE
      BY <2>1 DEF CommandBegins, DeviceInv, MoveInv, TypeOK
    <2>3. failed = {} /\ initCount = 0 /\ isReadyArm = FALSE
      BY <2>1 DEF LeaderInv, StartFresh
    <2> QED BY <1>6, <2>1, <2>2, <2>3, FirstIteration
  <1>7. CASE Prepare
    BY <1>7 DEF Prepare, BeginReadyMove, ResetReady
  <1>8. CASE TimeOut
    BY <1>8 DEF TimeOut, CompleteRecovery
  <1>9. CASE MoveReady
    <2>1. cmd' = cmd /\ pc' = IF rc' = "SUCCESS" THEN "write" ELSE "check"
      BY <1>9 DEF MoveReady
    <2>2. SUFFICES ASSUME NowReady, cmd = "IDLE" PROVE torque' = Joints
      BY <2>1 DEF NowReady
    <2>3. SetControlMode(Role = "FOLLOWER")
      BY <1>9, <2>2, Zenon DEF MoveReady
    <2> QED BY <2>3, LeaderRestored
  <1>10. CASE Restore
    <2>1. SetControlMode(Role = "FOLLOWER")
      BY <1>10, Zenon DEF Restore, RestoreNormalOperation
    <2> QED BY <2>1, LeaderRestored
  <1>11. CASE GravityCommand \/ ForceFeedbackCommand \/ HoldCommand
    <2>1. UNCHANGED <<cmd, em, isReady>>
      BY <1>11, ModeCommandFrame
    <2>2. pc = "command"
      BY <1>11, Zenon DEF GravityCommand, ForceFeedbackCommand, HoldCommand, Receives
    <2>3. torque' = torque \/ torque' = Joints
      BY <1>11, LeaderSteps DEF LeaderInv
    <2> QED BY <1>4, <2>1, <2>2, <2>3
  <1>12. CASE LoseClient
    <2>1. UNCHANGED <<cmd, em, isReady>> /\ pc = "watchdog"
      BY <1>12, Zenon DEF LoseClient, EndOfStep, commandVars, recoveryVars, homingVars
    <2>2. torque' = torque \/ torque' = Joints
      BY <1>12, LeaderSteps DEF LeaderInv
    <2> QED BY <1>4, <2>1, <2>2
  <1>13. CASE StopRunaway
    BY <1>13, LeaderSteps DEF LeaderInv
  <1>14. CASE Check
    <2>1. UNCHANGED <<cmd, isReady, torque, rc>>
      BY <1>14 DEF Check, commandVars, homingVars, modeVars
    <2>2. CASE rc # "SUCCESS" /\ em = "NONE"
      BY <1>14, <2>2 DEF Check, EnterEmergencyRecovery, Recovering
    <2>3. CASE rc = "SUCCESS" \/ em # "NONE"
      <3>1. em' = em
        BY <1>14, <2>3 DEF Check, Recovering, recoveryVars
      <3> QED BY <1>4, <2>1, <2>3, <3>1
    <2> QED BY <2>2, <2>3
  <1>15. CASE \E c \in Commands, id \in 1 .. MaxMoves : MoveCommand(c, id)
    BY <1>15 DEF MoveCommand, RequestMoveToReady
  <1> QED BY <1>5, <1>6, <1>7, <1>8, <1>9, <1>10, <1>11, <1>12, <1>13, <1>14, <1>15, OtherSteps

(***************************************************************************)
(* The invariant of a leader holds initially and is kept.                  *)
(***************************************************************************)
LEMMA LeaderInvariant ==
    ASSUME ModesAreSure, ArmType # "can",
           Role = "LEADER", DontGoHome = FALSE, ConfirmCount # 0,
           Faults \cap {"read", "bulk", "hold"} = {}
    PROVE  /\ DeviceInit => LeaderInv
           /\ DeviceInv /\ CommandBegins /\ LeaderInv /\ [DeviceNext]_deviceVars => LeaderInv'
  <1>1. DeviceInit => LeaderInv
    BY DEF DeviceInit, MoveInit, LeaderInv, StartFresh
  <1>2. LeaderInv /\ UNCHANGED deviceVars => LeaderInv'
    BY DEF LeaderInv, StartFresh, deviceVars, commandVars, recoveryVars, homingVars, modeVars,
           moveVars, servoVars
  <1> QED BY <1>1, <1>2, LeaderStep

(***************************************************************************)
(* A leader operates in torque mode.                                       *)
(***************************************************************************)
LEMMA LeaderOperates ==
    ASSUME DeviceInv, CommandBegins, LeaderInv
    PROVE  Operates /\ em = "NONE" => torque = Joints
  BY DEF LeaderInv, CommandBegins, Operates, DeviceInv, Types, CommandTypes

(***************************************************************************)
(* A leader only operates with every joint in torque mode, if it is homed  *)
(* at the start and cannot be ready at the first iteration, which switches *)
(* no modes: the arrival is confirmed and the start reads and holds every  *)
(* joint.  A leader under --dont_go_to_home_pos starts in position mode.   *)
(***************************************************************************)
THEOREM LeadersFloat ==
    ASSUME ModesAreSure, ArmType # "can", DontGoHome = FALSE, ConfirmCount # 0,
           Faults \cap {"read", "bulk", "hold"} = {}
    PROVE  DeviceSpec => []LeaderFloats
  <1>1. CASE Role = "LEADER"
    <2>1. /\ DeviceInit => LeaderInv
          /\ DeviceInv /\ CommandBegins /\ LeaderInv /\ [DeviceNext]_deviceVars => LeaderInv'
      BY <1>1, LeaderInvariant
    <2>2. DeviceInv /\ CommandBegins /\ LeaderInv => LeaderFloats
      BY LeaderOperates DEF LeaderFloats
    <2> QED BY DeviceInvariant, CommandBeginsInvariant, <2>1, <2>2, PTL DEF DeviceSpec
  <1>2. CASE Role # "LEADER"
    <2>1. LeaderFloats
      BY <1>2 DEF LeaderFloats
    <2> QED BY <2>1, PTL
  <1> QED BY <1>1, <1>2

-----------------------------------------------------------------------------
(***************************************************************************)
(* What keeps the commands of an arm behind a whole-arm controller         *)
(* fitting: a follower's modes follow its float flag, and a leader that is *)
(* homed at the start is in torque mode when it operates.                  *)
(***************************************************************************)
FitInv ==
    /\ Role = "FOLLOWER" => ModesFollowFloat
    /\ Role = "LEADER" /\ DontGoHome = FALSE => LeaderInv

(***************************************************************************)
(* The commands keep fitting: initially and in every step.                 *)
(***************************************************************************)
LEMMA FitInvariant ==
    ASSUME Faults = {}, ArmType = "controller", Role = "LEADER" => ConfirmCount # 0
    PROVE  /\ DeviceInit => FitInv
           /\ DeviceInv /\ CommandBegins /\ FitInv /\ [DeviceNext]_deviceVars => FitInv'
  <1>1. DeviceInit => FitInv
    BY DEF DeviceInit, MoveInit, FitInv, ModesFollowFloat, LeaderInv, StartFresh
  <1>2. ASSUME DeviceInv, CommandBegins, FitInv, DeviceNext PROVE FitInv'
    <2>1. ASSUME Role = "FOLLOWER" PROVE ModesFollowFloat'
      BY <1>2, <2>1, ModesFollowFloatStep DEF FitInv
    <2>2. ASSUME Role = "LEADER", DontGoHome = FALSE PROVE LeaderInv'
      <3>1. ModesAreSure /\ Faults \cap {"read", "bulk", "hold"} = {}
        BY DEF ModesAreSure
      <3> QED BY <1>2, <2>2, <3>1, LeaderStep DEF FitInv
    <2> QED BY <2>1, <2>2 DEF FitInv
  <1>3. FitInv /\ UNCHANGED deviceVars => FitInv'
    BY DEF FitInv, ModesFollowFloat, LeaderInv, StartFresh, deviceVars, commandVars,
           recoveryVars, homingVars, modeVars, moveVars, servoVars
  <1> QED BY <1>1, <1>2, <1>3

(***************************************************************************)
(* The commands fit, but for the causes that SelfInflicted names.          *)
(***************************************************************************)
LEMMA CommandsAreFit ==
    ASSUME DeviceInv, CommandBegins, OverrideInv, em = "NONE",
           ArmType = "controller" => FitInv
    PROVE  CommandsFit
  <1>1. pc = "startMove" \/ (pc = "drive" /\ ~isReady) => torque = {} \/ crossed
    BY DEF CommandBegins, OverrideInv
  <1>2. ASSUME ArmType = "controller", Operates, ~(Role = "LEADER" /\ DontGoHome)
        PROVE  torque = IF Role = "LEADER" \/ gravityFloat THEN Joints ELSE {}
    <2>1. CASE Role = "FOLLOWER"
      BY <1>2, <2>1 DEF FitInv, ModesFollowFloat
    <2>2. CASE Role = "LEADER"
      <3>1. LeaderInv
        BY <1>2, <2>2, DontGoHomeAssumption DEF FitInv
      <3> QED BY <1>2, <2>2, <3>1, LeaderOperates
    <2> QED BY <2>1, <2>2, RoleAssumption
  <1> QED BY <1>1, <1>2 DEF CommandsFit

(***************************************************************************)
(* Which steps there are while a recovery is requested or the program      *)
(* ends.                                                                   *)
(***************************************************************************)
LEMMA StepsByPhase ==
    ASSUME DeviceNext, pc \in {"loop", "prepare", "check", "stop", "done"}
    PROVE  \/ Tick \/ Signal \/ ExitLoop \/ Read
           \/ Prepare \/ NothingToPrepare \/ TimeOut
           \/ (pc = "check" /\ Check)
           \/ Stop \/ Terminated
  <1>1. ~(StartRead \/ StartHold \/ StartMove)
    BY DEF StartRead, StartHold, StartMove
  <1>2. ~(\/ MoveReady \/ Restore \/ OperateAsLeader \/ OperateAsFollower
          \/ FloatAsFollower \/ StopRunaway)
    BY DEF MoveReady, Restore, OperateAsLeader, OperateAsFollower, FloatAsFollower,
           StopRunaway, Operates
  <1>3. ~(Write \/ ReceiveJoints \/ KeepWatching \/ LoseClient \/ StepEffector)
    BY DEF Write, ReceiveJoints, KeepWatching, LoseClient, EndOfStep, StepEffector
  <1>4. ~CommandPhase
    BY DEF CommandPhase, NoCommand, Heartbeat, StopCommand, GravityCommand,
           ForceFeedbackCommand, HoldCommand, DropCommand, PauseOrResume, MoveCommand,
           Receives
  <1>5. Check => pc = "check"
    BY DEF Check
  <1> QED BY <1>1, <1>2, <1>3, <1>4, <1>5 DEF DeviceNext, ControlLoop, StepPhase, MainPhase

(***************************************************************************)
(* A recovery that has begun to move never starts over.                    *)
(***************************************************************************)
LEMMA RecoveryGoesOn ==
    ASSUME DeviceNext, em \in {"MOVING_SLOW", "COMPLETED"}
    PROVE  em' \in {"MOVING_SLOW", "COMPLETED"}
  <1>1. CASE QuietSteps
    BY <1>1, QuietFrame
  <1>2. CASE StartMove \/ Check
    BY <1>2 DEF StartMove, Check, Recovering, recoveryVars
  <1>3. CASE Prepare \/ TimeOut
    BY <1>3 DEF Prepare, TimeOut, CompleteRecovery
  <1>4. CASE MoveReady \/ Restore
    BY <1>4 DEF MoveReady, RecoveryEndsWithMove, CompleteRecovery, Restore, recoveryVars
  <1>5. CASE StopRunaway \/ LoseClient
    BY <1>5, Zenon DEF StopRunaway, AfterOperation, LoseClient, EndOfStep, recoveryVars
  <1>6. CASE GravityCommand \/ ForceFeedbackCommand \/ HoldCommand
    BY <1>6, ModeCommandFrame
  <1>7. CASE \E c \in Commands, id \in 1 .. MaxMoves : MoveCommand(c, id)
    BY <1>7 DEF MoveCommand, Receives, recoveryVars
  <1> QED BY <1>1, <1>2, <1>3, <1>4, <1>5, <1>6, <1>7, OtherSteps

(***************************************************************************)
(* An error of a healthy arm keeps its cause until the recovery begins.    *)
(***************************************************************************)
LEMMA HealthyStep ==
    ASSUME DeviceInv, HealthyInv, DeviceNext, Faults = {}, em = "NONE" => CommandsFit
    PROVE  HealthyInv'
  <1>1. CASE em = "NONE" /\ rc = "SUCCESS"
    BY <1>1, HealthySuccess DEF HealthyInv
  <1>2. CASE em = "NONE" /\ rc # "SUCCESS"
    <2>1. pc \in {"check", "stop", "done"} /\ SelfInflicted
      BY <1>2 DEF HealthyInv
    <2>2. Check \/ Stop \/ Terminated
      <3>1. ~(\/ Tick \/ Signal \/ ExitLoop \/ Read \/ Prepare \/ NothingToPrepare
              \/ TimeOut)
        BY <2>1 DEF Tick, Signal, ExitLoop, Read, Prepare, NothingToPrepare, TimeOut
      <3> QED BY <2>1, <3>1, StepsByPhase
    <2>3. UNCHANGED <<crossed, forceFeedback, followerSeen, rc>>
      BY <2>2 DEF Check, Stop, Terminated, deviceVars, modeVars, inputVars
    <2>4. SelfInflicted'
      BY <2>1, <2>3 DEF SelfInflicted
    <2>5. em' = "NONE" => pc' \in {"check", "stop", "done"}
      BY <1>2, <2>2 DEF Check, EnterEmergencyRecovery, Recovering, Stop, Terminated, deviceVars
    <2> QED BY <2>4, <2>5 DEF HealthyInv
  <1>3. CASE em = "REQUESTED"
    <2>1. pc \in {"loop", "prepare", "stop", "done"} /\ SelfInflicted
      BY <1>3 DEF DeviceInv, RecoveryBegins, HealthyInv
    <2>2. CASE \/ Tick \/ Signal \/ ExitLoop \/ Read \/ Stop \/ Terminated
      <3>1. UNCHANGED <<crossed, forceFeedback, followerSeen, em>>
        BY <2>2 DEF Tick, Signal, ExitLoop, Read, Stop, Terminated, deviceVars, modeVars,
                    inputVars, recoveryVars
      <3>2. SelfInflicted'
        BY <2>1, <3>1 DEF SelfInflicted
      <3> QED BY <1>3, <3>1, <3>2 DEF HealthyInv
    <2>3. CASE Prepare \/ NothingToPrepare \/ TimeOut
      <3>1. em' = "MOVING_SLOW"
        BY <1>3, <2>3 DEF Prepare, NothingToPrepare, TimeOut
      <3> QED BY <3>1 DEF HealthyInv
    <2> QED BY <2>1, <2>2, <2>3, StepsByPhase
  <1>4. CASE em \in {"MOVING_SLOW", "COMPLETED"}
    BY <1>4, RecoveryGoesOn DEF HealthyInv
  <1> QED BY <1>1, <1>2, <1>3, <1>4 DEF DeviceInv, Types, RecoveryTypes

(***************************************************************************)
(* The invariant of a healthy arm: an error has one of three causes, and   *)
(* the commands fit but for these.                                         *)
(***************************************************************************)
UpInv == HealthyInv /\ (ArmType = "controller" => FitInv)

(***************************************************************************)
(* The invariant of a healthy arm holds initially and is kept.             *)
(***************************************************************************)
LEMMA UpInvariant ==
    ASSUME Faults = {}, ArmType = "controller" /\ Role = "LEADER" => ConfirmCount # 0
    PROVE  /\ DeviceInit => UpInv
           /\ DeviceInv /\ CommandBegins /\ OverrideInv /\ UpInv /\ [DeviceNext]_deviceVars
                => UpInv'
  <1>1. DeviceInit => HealthyInv
    BY DEF DeviceInit, MoveInit, HealthyInv
  <1>2. DeviceInit => UpInv
    BY <1>1, FitInvariant DEF UpInv
  <1>3. ASSUME DeviceInv, CommandBegins, OverrideInv, UpInv, DeviceNext PROVE UpInv'
    <2>1. HealthyInv /\ (ArmType = "controller" => FitInv)
      BY <1>3 DEF UpInv
    <2>2. em = "NONE" => CommandsFit
      BY <1>3, <2>1, CommandsAreFit
    <2>3. HealthyInv'
      BY <1>3, <2>1, <2>2, HealthyStep
    <2>4. ArmType = "controller" => FitInv'
      BY <1>3, <2>1, FitInvariant
    <2> QED BY <2>3, <2>4 DEF UpInv
  <1>4. UpInv /\ UNCHANGED deviceVars => UpInv'
    <2>1. HealthyInv /\ UNCHANGED deviceVars => HealthyInv'
      BY DEF HealthyInv, SelfInflicted, deviceVars, recoveryVars, modeVars, inputVars
    <2>2. FitInv /\ UNCHANGED deviceVars => FitInv'
      BY DEF FitInv, ModesFollowFloat, LeaderInv, StartFresh, deviceVars, commandVars,
             recoveryVars, homingVars, modeVars, moveVars, servoVars
    <2> QED BY <2>1, <2>2 DEF UpInv
  <1> QED BY <1>2, <1>3, <1>4

(***************************************************************************)
(* A healthy arm gets into emergency recovery by its own commands only,    *)
(* and in three ways only, all behind a whole-arm controller: a mode       *)
(* command that crosses a ready move, force feedback on a leader that      *)
(* hears its follower, and a leader whose start-up move was skipped.  A    *)
(* CAN or serial arm never does.  It holds for every set of commands, in   *)
(* every order; the arrival at the ready pose has to be confirmed.         *)
(***************************************************************************)
THEOREM HealthyArms ==
    ASSUME ArmType = "controller" /\ Role = "LEADER" => ConfirmCount # 0
    PROVE  DeviceSpec => []HealthyArmStaysUp
  <1>1. CASE Faults = {}
    <2>1. ModesAreSure
      BY <1>1 DEF ModesAreSure
    <2>2. /\ DeviceInit => UpInv
          /\ DeviceInv /\ CommandBegins /\ OverrideInv /\ UpInv /\ [DeviceNext]_deviceVars
               => UpInv'
      BY <1>1, UpInvariant
    <2>3. UpInv => HealthyArmStaysUp
      BY DEF UpInv, HealthyInv, HealthyArmStaysUp
    <2> QED BY DeviceInvariant, CommandBeginsInvariant, OverrideInvariant, <2>1, <2>2, <2>3,
               PTL DEF DeviceSpec
  <1>2. CASE Faults # {}
    <2>1. HealthyArmStaysUp
      BY <1>2 DEF HealthyArmStaysUp
    <2> QED BY <2>1, PTL
  <1> QED BY <1>1, <1>2

-----------------------------------------------------------------------------
(***************************************************************************)
(* The invariants of a device together, as an instance that is one of      *)
(* several devices uses them.  First, for the faults that are neither      *)
(* swallowed nor put down to a healthy joint.                              *)
(***************************************************************************)
OwnedInv == DeviceInv /\ BlameInv /\ StaleReadEscalates

(***************************************************************************)
(* The faults of a device are owned: initially and in every step.          *)
(***************************************************************************)
LEMMA OwnedInvariant ==
    ASSUME "effector" \notin Faults,
           ArmType # "controller" \/ "write" \notin Faults
    PROVE  /\ DeviceInit => OwnedInv
           /\ OwnedInv /\ [DeviceNext]_deviceVars => OwnedInv'
           /\ OwnedInv => StaleReadEscalates /\ OnlyLostJointsExcluded
  BY DeviceInitially, DeviceInductive, BlameInvariant, StaleReadInvariant
     DEF OwnedInv, BlameInv

(***************************************************************************)
(* Second, for the moves: what is commanded begins in time, a skipped move *)
(* stays skipped and a move has its modes.                                 *)
(***************************************************************************)
OrderedInv == DeviceInv /\ CommandBegins /\ SkipTarget /\ OverrideInv

(***************************************************************************)
(* The moves of a device are as ordered: initially and in every step.      *)
(***************************************************************************)
LEMMA OrderedInvariant ==
    ASSUME ModesAreSure
    PROVE  /\ DeviceInit => OrderedInv
           /\ OrderedInv /\ [DeviceNext]_deviceVars => OrderedInv'
           /\ OrderedInv => OverrideHeld /\ SkipIsNotUndone
  <1>1. DeviceInit => OrderedInv
    BY DeviceInitially, CommandBeginsInvariant, SkipTargetInvariant, OverrideInvariant
       DEF OrderedInv
  <1>2. OrderedInv /\ [DeviceNext]_deviceVars => OrderedInv'
    BY DeviceInductive, CommandBeginsInvariant, SkipTargetInvariant, OverrideInvariant
       DEF OrderedInv
  <1>3. OrderedInv => OverrideHeld /\ SkipIsNotUndone
    BY DEF OrderedInv, OverrideInv, CommandBegins, OverrideHeld, SkipTarget, SkipIsNotUndone
  <1> QED BY <1>1, <1>2, <1>3

(***************************************************************************)
(* Third, for a healthy arm behind a whole-arm controller.                 *)
(***************************************************************************)
LEMMA HealthyOrdered ==
    ASSUME Faults = {}, ArmType = "controller", Role = "LEADER" => ConfirmCount # 0
    PROVE  /\ DeviceInit => UpInv
           /\ OrderedInv /\ UpInv /\ [DeviceNext]_deviceVars => UpInv'
           /\ OrderedInv /\ UpInv => HealthyArmStaysUp /\ FloatMatchesModes
           /\ OrderedInv /\ UpInv /\ DontGoHome = FALSE => LeaderFloats
  <1>1. UpInv => HealthyArmStaysUp /\ FloatMatchesModes
    BY DEF UpInv, HealthyInv, FitInv, HealthyArmStaysUp, ModesFollowFloat, FloatMatchesModes
  <1>2. OrderedInv /\ UpInv /\ DontGoHome = FALSE => LeaderFloats
    BY LeaderOperates DEF OrderedInv, UpInv, FitInv, LeaderFloats
  <1> QED BY UpInvariant, <1>1, <1>2 DEF OrderedInv
=============================================================================
