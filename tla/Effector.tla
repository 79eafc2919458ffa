------------------------------ MODULE Effector ------------------------------
(***************************************************************************)
(* A gripper: DeviceEffector with its CAN and serial subclasses, the Joint *)
(* it drives and the part of Device::step() that sequences them.  The      *)
(* gripper has one joint whose travel is a grid of positions 0 .. Travel;  *)
(* a cycle of the control loop reads a position, decides, and sends a      *)
(* command, and until the next cycle the gripper may move towards that     *)
(* command, stay where it is (blocked) or twitch.                          *)
(*                                                                         *)
(* Left out: the integration of the arm that owns the gripper (Device.tla),*)
(* the bus (CanMit.tla, Feetech.tla), spring and force-feedback torques,   *)
(* and the read-only handles, whose ready move is empty.                   *)
(***************************************************************************)
EXTENDS Integers, Sequences, FiniteSets

CONSTANTS
    Travel,         \* pos_max_rel_ - pos_min_rel_, in grid units
    SafetyMargin,   \* pos_max_safety_margin_
    NormMin,        \* normalized_pos_min_ of the grippers that configure a range,
    NormMax,        \* and normalized_pos_max_
    Levels,         \* resolution of a normalized position: n stands for n / Levels
    Margin,         \* pos_error_margin_
    Hysteresis,     \* READY_MOVE_TOLERANCE_HYSTERESIS_RAD
    Step,           \* ready_move_step_rad(): the largest step of one iteration
    GripWindow,     \* grip_torque_limit_nm_ / kp of a cool motor
    StuckThreshold, \* READY_MOVE_STUCK_ITER_THRESHOLD
    ConfirmCount,   \* DEVICE_ARRIVED_CONFIRM_CNT
    BudgetFloor,    \* READY_MOVE_BUDGET_MIN_ITERS
    BudgetScale,    \* READY_MOVE_BUDGET_TRAVEL_SCALE
    Configurations, \* role, subclass, control_mode_, open_at_min_, dont_go_to_home_pos, whether
                    \* a grip torque limit and a normalized range are configured
    Temperatures,   \* the levels of the motor temperature that may be read
    Faults          \* what may go wrong: "dead" (at start), "error" (in a cycle)

\* A normalized position resolves every position of the grid.
ASSUME TravelAssumption == Travel \in Nat \ {0} /\ Levels \in Nat /\ Levels >= Travel
ASSUME SafetyMarginAssumption == SafetyMargin \in 0 .. Travel - 1
\* validate_normalized_position_range()
ASSUME RangeAssumption == NormMax \in 0 .. Travel /\ NormMin \in 0 .. NormMax - 1
ASSUME ToleranceAssumption == Margin \in Nat /\ Hysteresis \in Nat
ASSUME StepAssumption == Step \in Nat \ {0} /\ GripWindow \in Nat
ASSUME CountAssumption ==
    /\ StuckThreshold \in Nat /\ ConfirmCount \in Nat
    /\ BudgetFloor \in Nat \ {0} /\ BudgetScale \in Nat \ {0}
ASSUME ConfigurationAssumption ==
    /\ Configurations \subseteq
           [role : {"LEADER", "FOLLOWER"}, family : {"can", "serial"},
            mode : {"position", "torque"}, openAtMin : BOOLEAN, skipHoming : BOOLEAN,
            limited : BOOLEAN, ranged : BOOLEAN]
    /\ Temperatures \subseteq {"cool", "cautious", "critical"}

Positions == 0 .. Travel
NaN == -2

VARIABLES
    config,      \* the configuration of this gripper
    pc,          \* "off", "start" (inside start()), "verify", "run" or "ended"
    isReady,     \* is_ready_
    cmdState,    \* move_to_ready_cmd_state_
    pos,         \* the position read in the last cycle
    temp,        \* temperature_ of the reference servo, as read
    tele,        \* tele_pos_[0]
    joint,       \* the ready-move state of the Joint
    initCount,   \* init_count_, saturated at 1
    reachedCnt,  \* reached_cnt_
    budget,      \* ready_move_budget_total_ and ready_move_budget_used_
    ramp,        \* ramped_target_pos_, or NoRamp before it is initialised
    engaged,     \* ready_move_torque_engaged_ (serial)
    failed,      \* the servo is in failed_joint_ids_
    lastFailed,  \* last_failed_joint_id_ names the servo
    drive,       \* kind of the last cycle's command: "none", "position", "probe", "torque", "free"
    cmd,         \* where the last command pulls the gripper
    switched,    \* torque enables and disables sent to the servo in the last cycle, in order
    origin       \* what tele comes from: "startup", "move" or "told" (history)

moveVars == <<joint, initCount, reachedCnt, budget>>
effectorVars == <<config, pc, isReady, cmdState, pos, temp, tele, moveVars, ramp,
          engaged, failed, lastFailed, drive, cmd, switched, origin>>

NoRamp == -1
EffectorTypeOK ==
    /\ config \in Configurations
    /\ pc \in {"off", "start", "verify", "run", "ended"}
    /\ isReady \in BOOLEAN /\ engaged \in BOOLEAN
    /\ failed \in BOOLEAN /\ lastFailed \in BOOLEAN
    /\ cmdState \in {"IDLE", "REQUESTED", "MOVING"}
    /\ pos \in Positions /\ tele \in Positions /\ cmd \in Positions
    /\ temp \in Temperatures
    /\ joint \in [prev : Positions, still : 0 .. StuckThreshold + 1, latched : BOOLEAN]
    /\ initCount \in 0 .. 1
    /\ reachedCnt \in 0 .. ConfirmCount + 1
    /\ budget.total \in Nat /\ budget.used \in 0 .. budget.total + ConfirmCount + 1
    /\ ramp \in Positions \cup {NoRamp}
    /\ drive \in {"none", "position", "probe", "torque", "free"}
    /\ switched \in Seq({"on", "off"})
    /\ origin \in {"startup", "move", "told"}

-----------------------------------------------------------------------------
(* Helpers of Joint.                                                       *)

Abs(x) == IF x < 0 THEN -x ELSE x
Larger(x, y) == IF x >= y THEN x ELSE y
Clip(x, lo, hi) == IF x < lo THEN lo ELSE IF x > hi THEN hi ELSE x

\* The torque limit falls linearly from the cautious to the critical
\* temperature, and with it the window around the measured position.
WindowOf(t) == CASE t = "cool" -> GripWindow
                 [] t = "cautious" -> GripWindow \div 2
                 [] t = "critical" -> 0

\* Without the grip limit only the servo's own limits are left.
ServoClamp(target, at, t) == Clip(target, 0, Travel)

\* clamp_target_to_grip_torque_limit(), which leaves the target alone without a
\* limit or a position gain, then the servo's own limits.
GripClamp(target, at, t) ==
    IF config.limited
    THEN Clip(Clip(target, at - WindowOf(t), at + WindowOf(t)), 0, Travel)
    ELSE Clip(target, 0, Travel)

\* reset_stuck_counter() with hold_at_current_position(), or with the init
\* block of move_to_ready_position().  target_pos_ is the ready position in
\* every iteration that reads it, and stuck_last_pos_rad_ the position of the
\* last cycle, so neither is kept.
JointAt(at) == [prev |-> at, still |-> 0, latched |-> FALSE]

\* The ends of the normalized travel: the configured range, or the limits of
\* the servo.  Commands stop a safety margin short of the upper limit; a
\* configured range excludes the margin.
RangeMin == IF config.ranged THEN NormMin ELSE 0
RangeMax == IF config.ranged THEN NormMax ELSE Travel
EffectiveMax == IF config.ranged THEN NormMax ELSE Travel - SafetyMargin

\* get_normalized_gripper_position(): 1.0 is always the open end, and a
\* position outside the range is published as its nearer end.
ToNormalized(at) ==
    LET x == ((Clip(at, RangeMin, RangeMax) - RangeMin) * Levels) \div (RangeMax - RangeMin)
    IN  IF config.openAtMin THEN Levels - x ELSE x

\* get_gripper_pos_rad_relative_from_normalized(): finite values are
\* clamped, others keep the gripper where it is.
FromNormalized(n, at) ==
    LET x == Clip(n, 0, Levels)
        y == IF config.openAtMin THEN Levels - x ELSE x
    IN  IF n = NaN THEN at ELSE RangeMin + (y * (EffectiveMax - RangeMin)) \div Levels

ReadyPosition == FromNormalized(Levels, 0)

\* update_and_check_stuck(): counts iterations without motion outside the
\* error margin; the verdict is latched until the next ready move.
CheckStuck(j, last, at) ==
    LET still == IF Abs(ReadyPosition - at) > Margin /\ at = last
                     THEN j.still + 1 ELSE 0
        count == IF still > StuckThreshold THEN StuckThreshold + 1 ELSE still
    IN  [j EXCEPT !.still = count, !.latched = @ \/ count > StuckThreshold]

\* The next command of the ready move: one step on from the last command,
\* or from the measured position when that has been overtaken.
NextTarget(j, at) ==
    LET overtaken ==
            /\ Abs(ReadyPosition - at) > Margin
            /\ (ReadyPosition - at) * (ReadyPosition - j.prev) < 0
        base == IF overtaken THEN at ELSE j.prev
    IN  Clip(ReadyPosition, base - Step, base + Step)

Outside(at) == Abs(ReadyPosition - at) > Margin + Hysteresis

\* Where the gripper can be found one cycle after a command.
Reachable ==
    IF drive = "free" THEN Positions
    ELSE {p \in Positions :
            \/ p \in pos .. cmd \/ p \in cmd .. pos
            \/ Abs(p - pos) <= 1}

-----------------------------------------------------------------------------
EffectorInit ==
    /\ config \in Configurations
    /\ pc = "off"
    /\ isReady = FALSE /\ cmdState = "IDLE"
    /\ pos \in Positions
    /\ temp \in Temperatures
    /\ tele = 0
    /\ joint = JointAt(0)
    /\ initCount = 0 /\ reachedCnt = 0
    /\ budget = [total |-> 0, used |-> 0]
    /\ ramp = NoRamp /\ engaged = FALSE
    /\ failed = FALSE /\ lastFailed = FALSE
    /\ drive = "none" /\ cmd = 0
    /\ switched = <<>> /\ origin = "startup"

\* The effect of a cycle's reads: the measured position and temperature.
Measure ==
    /\ pos' \in Reachable
    /\ temp' \in Temperatures

\* A position command that reaches the servo.
SendPosition(target) == drive' = "position" /\ cmd' = target

\* set_control_mode(): the CAN subclass sends nothing and only restarts its
\* torque ramp; the serial one leaves a leader's servo without torque, and
\* takes a follower's, or any for the ready move, through a torque-off to the
\* position mode and the torque-on that ends the switch.
SetControlMode(as_) ==
    CASE config.family = "can" -> <<>>
      [] config.family = "serial" /\ as_ = "LEADER" -> <<"off">>
      [] config.family = "serial" /\ as_ = "FOLLOWER" -> <<"off", "on">>

\* DeviceEffectorSerial::move_to_ready_position() switches torque on once per
\* ready move.
EngageOnce(on) == IF config.family = "serial" /\ ~on THEN <<"on">> ELSE <<>>

\* ready_move_budget_init(): the budget grows with the distance to go.
BudgetFor(displacement) ==
    Larger(BudgetFloor, BudgetScale * (displacement \div Step + 1) + ConfirmCount)

\* Spending stops one short of the test for an exhausted budget.
SpendUpToTotal(b) == [b EXCEPT !.used = IF @ < b.total THEN @ + 1 ELSE @]

\* ready_move_budget_spend() and its verdict.
Spend(b) == [b EXCEPT !.used = @ + 1]

BudgetExhausted(b) == b.used > b.total

\* A move that ends with the gripper outside its tolerance names the servo.
Blame(done, at) == lastFailed \/ (done /\ Outside(at))

\* clear_command_buffers(): the buffered command becomes the measured position.
ClearBuffers(at) == at

\* DeviceEffectorCan::set_control_mode(): the ramp is to be initialised anew.
RestartRamp == NoRamp

\* One iteration of DeviceEffector::move_to_ready_position(), with the joint
\* measured at a position.  The move is complete when the joint does not
\* answer, when it has been within tolerance or stuck for long enough, or
\* when the budget is gone; a gripper left short of its target is reported.
\* first: init_count_ < 1.
Iterate(first, at, t) ==
    LET fresh == IF first THEN JointAt(at) ELSE joint
        spent == IF first
                     THEN [total |-> BudgetFor(Abs(ReadyPosition - at)), used |-> 1]
                     ELSE Spend(budget)
        before == IF first THEN 0 ELSE reachedCnt
    IN  /\ initCount' = 1
        /\ budget' = spent
        /\ IF failed
           THEN /\ isReady' = TRUE
                /\ joint' = fresh /\ reachedCnt' = before
                /\ drive' = "none"
                /\ UNCHANGED <<lastFailed, cmd>>
           ELSE \E j \in {CheckStuck(fresh, IF first THEN at ELSE pos, at)} :
                LET calm == j.latched \/ ~Outside(at)
                    next == NextTarget(j, at)
                IN  /\ reachedCnt' = IF calm THEN before + 1 ELSE 0
                    /\ isReady' = \/ reachedCnt' > ConfirmCount
                                  \/ ~calm /\ BudgetExhausted(budget')
                    /\ joint' = [j EXCEPT !.prev = next]
                    /\ lastFailed' = Blame(isReady', at)
                    /\ SendPosition(GripClamp(joint'.prev, at, t))

\* --dont_go_to_home_pos skips the ready move of the start-up only.
SkipHoming(at) ==
    /\ isReady' = TRUE
    /\ joint' = [joint EXCEPT !.prev = at]
    /\ UNCHANGED <<initCount, reachedCnt, budget, lastFailed, drive, cmd>>

-----------------------------------------------------------------------------
(* Start-up.                                                               *)

\* start() up to the ready move: the servo is enabled, read and told to hold
\* where it is.  A servo whose cache is stale is excluded from then on.
Start(dead) ==
    /\ pc = "off"
    /\ pc' = "start"
    /\ failed' = dead /\ lastFailed' = dead
    /\ joint' = IF dead THEN joint ELSE JointAt(pos)
    /\ IF dead THEN UNCHANGED <<drive, cmd>> ELSE SendPosition(pos)
    /\ UNCHANGED <<config, isReady, cmdState, pos, temp, tele, initCount, reachedCnt,
                   budget, ramp, engaged, switched, origin>>

\* The first iteration of the ready move is run by start() itself.
StartMove ==
    /\ pc = "start"
    /\ pc' = "verify"
    /\ switched' = EngageOnce(engaged)
    /\ engaged' = (config.family = "serial")
    /\ tele' = IF config.family = "serial" \/ config.skipHoming THEN pos ELSE tele
    /\ IF config.skipHoming THEN SkipHoming(pos) ELSE Iterate(TRUE, pos, temp)
    /\ UNCHANGED <<config, cmdState, pos, temp, ramp, failed, origin>>

\* verify_servos_operational() repeats the last target of the ready move,
\* unclamped, to provoke an answer; a latched error refuses to run.
VerifyServos ==
    /\ pc = "verify"
    /\ pc' = "run"
    /\ IF failed THEN UNCHANGED <<drive, cmd>> ELSE drive' = "probe" /\ cmd' = joint.prev
    /\ switched' = <<>>
    /\ UNCHANGED <<config, isReady, cmdState, pos, temp, tele, moveVars, ramp, engaged,
                   failed, lastFailed, origin>>

\* A failed start stops the device.
StartFails ==
    /\ pc \in {"off", "start", "verify"} /\ "error" \in Faults
    /\ pc' = "ended"
    /\ UNCHANGED <<config, isReady, cmdState, pos, temp, tele, moveVars, ramp, engaged,
                   failed, lastFailed, drive, cmd, switched, origin>>

-----------------------------------------------------------------------------
(* Device::step() of the running gripper.                                  *)

\* The client asks for a ready move.
Request ==
    /\ pc = "run" /\ cmdState = "IDLE"
    /\ cmdState' = "REQUESTED"
    /\ UNCHANGED <<config, pc, isReady, pos, temp, tele, moveVars, ramp, engaged, failed,
                   lastFailed, drive, cmd, switched, origin>>

\* apply_action(): a follower's buffer takes the leader's normalized
\* position.  Commands that arrive during a commanded move are rejected by
\* the topic.
ApplyAction(n) ==
    /\ pc = "run" /\ config.role = "FOLLOWER" /\ cmdState = "IDLE"
    /\ tele' = FromNormalized(n, pos)
    /\ origin' = "told"
    /\ UNCHANGED <<config, pc, isReady, cmdState, pos, temp, moveVars, ramp, engaged,
                   failed, lastFailed, drive, cmd, switched>>

\* The step that takes up a request: the buffers are rebased on the measured
\* position, the position mode is forced and the ready state restarted, and
\* the first iteration follows.
BeginMove ==
    /\ pc = "run" /\ cmdState = "REQUESTED"
    /\ Measure
    /\ cmdState' = "MOVING"
    /\ tele' = ClearBuffers(pos')
    /\ ramp' = RestartRamp
    /\ engaged' = (config.family = "serial")
    /\ switched' = SetControlMode("FOLLOWER") \o EngageOnce(FALSE)
    /\ Iterate(TRUE, pos', temp')
    /\ UNCHANGED <<config, pc, failed, origin>>

\* A further iteration.  At the end of the start-up move the normal control
\* mode is entered in the same cycle.
ContinueMove ==
    /\ pc = "run" /\ cmdState # "REQUESTED" /\ ~isReady
    /\ Measure
    /\ Iterate(initCount < 1, pos', temp')
    /\ engaged' = (engaged \/ config.family = "serial")
    /\ tele' = IF config.family = "serial" THEN pos' ELSE tele
    /\ LET entered == isReady' /\ cmdState = "IDLE"
       IN  /\ switched' = EngageOnce(engaged)
                  \o (IF entered THEN SetControlMode(config.role) ELSE <<>>)
           /\ ramp' = IF entered THEN RestartRamp ELSE ramp
    /\ UNCHANGED <<config, pc, cmdState, failed, origin>>

\* move_joint_with_torque(): the CAN gripper's spring goal follows the
\* command by at most one ramp step per cycle, starting at the gripper.
RampTo(from, target) == Clip(target, from - 1, from + 1)

\* operate_as_follower() and operate_as_leader().
Operate(goal, from) ==
    IF config.role = "LEADER"
    THEN drive' = "free" /\ UNCHANGED <<cmd, ramp, joint>>
    ELSE IF config.mode = "torque" /\ config.family = "can"
    THEN /\ ramp' = RampTo(IF from = NoRamp THEN pos' ELSE from, goal)
         /\ drive' = "torque" /\ cmd' = ramp'
         /\ UNCHANGED joint
    ELSE IF config.mode = "torque"
    THEN drive' = "torque" /\ cmd' = goal /\ UNCHANGED <<ramp, joint>>
    ELSE /\ SendPosition(GripClamp(goal, pos', temp'))
         /\ joint' = [joint EXCEPT !.prev = cmd']
         /\ UNCHANGED ramp

\* The step after a commanded move: the normal mode is restored, the
\* buffers are rebased and the gripper operates again.
RestoreMode ==
    /\ pc = "run" /\ cmdState = "MOVING" /\ isReady
    /\ Measure
    /\ cmdState' = "IDLE"
    /\ tele' = ClearBuffers(pos') /\ origin' = "move"
    /\ switched' = SetControlMode(config.role)
    /\ Operate(tele', RestartRamp)
    /\ UNCHANGED <<config, pc, isReady, initCount, reachedCnt, budget, engaged, failed,
                   lastFailed>>

OperateStep ==
    /\ pc = "run" /\ cmdState = "IDLE" /\ isReady
    /\ Measure
    /\ switched' = <<>>
    /\ Operate(tele, ramp)
    /\ UNCHANGED <<config, pc, isReady, cmdState, tele, initCount, reachedCnt, budget,
                   engaged, failed, lastFailed, origin>>

\* A read or a command that fails ends the cycle; the arm goes into
\* emergency recovery and steps its gripper no more.
StepFails ==
    /\ pc = "run" /\ "error" \in Faults
    /\ pc' = "ended"
    /\ lastFailed' = TRUE
    /\ UNCHANGED <<config, isReady, cmdState, pos, temp, tele, moveVars, ramp, engaged,
                   failed, drive, cmd, switched, origin>>

Cycle == BeginMove \/ ContinueMove \/ RestoreMode \/ OperateStep

EffectorNext ==
    \/ \E dead \in {FALSE} \cup {d \in {TRUE} : "dead" \in Faults} : Start(dead)
    \/ StartMove \/ VerifyServos \/ StartFails
    \/ Request
    \/ \E n \in {NaN} \cup (-1 .. Levels + 1) : ApplyAction(n)
    \/ Cycle \/ StepFails

\* The control loop runs step() once per period.
EffectorFairness == WF_effectorVars(Cycle)

EffectorSpec == EffectorInit /\ [][EffectorNext]_effectorVars /\ EffectorFairness
-----------------------------------------------------------------------------
(* Properties.                                                             *)

\* With a grip torque limit each position command lies within the window of
\* the position it was computed from, whatever the integrated target of the
\* ready move and the buffered command are: a blocked gripper is never
\* squeezed with more than the (derated) limit.  The probe of the start-up is
\* not clamped (verify_servos_operational()): it pulls by one step of the
\* ready move at most.
SqueezeBounded ==
    /\ drive = "position" /\ config.limited => Abs(cmd - pos) <= WindowOf(temp)
    /\ drive = "probe" => Abs(cmd - pos) <= Step

\* A ready move that reports nothing has opened the gripper: it becomes ready
\* short of the ready position only with the servo named as the laggard.
HonestReady ==
    [][~isReady /\ isReady' /\ ~config.skipHoming /\ Outside(pos')
            => lastFailed']_effectorVars

\* After a commanded ready move a follower's buffered target is where the
\* move has left the gripper, give or take the last cycle's motion, until a
\* new command arrives: the command buffered before the move is forgotten.
MoveForgetsCommand ==
    origin = "move" /\ cmdState = "IDLE" /\ ~lastFailed
        => Abs(tele - ReadyPosition) <= Margin + Hysteresis + 1

\* The first torque after a commanded move pulls by at most one ramp step:
\* the ramp does not resume where it stood before the move.
RampRestarts ==
    [][cmdState = "MOVING" /\ cmdState' = "IDLE" /\ drive' = "torque"
            => Abs(cmd' - pos') <= 1]_effectorVars

\* A torque-off that is to last, a leader gripper's, never follows a torque-on
\* in the same cycle: the servo's firmware would ignore it and the handle stay
\* locked.
TorqueOffIsAlone ==
    switched # <<>> /\ switched[Len(switched)] = "off" => switched = <<"off">>

\* A published position that is commanded back does not move the gripper
\* further than to the nearer end of the normalized travel, the safety margin
\* and the rounding of the two conversions.
RoundTrip ==
    pc = "run" =>
        Abs(FromNormalized(ToNormalized(pos), pos) - Clip(pos, RangeMin, RangeMax))
            <= RangeMax - EffectiveMax + 1

\* Every ready move ends, also when the gripper is blocked or oscillates.
ReadyMoveEnds == (pc = "run" /\ cmdState # "IDLE") ~> (cmdState = "IDLE" \/ pc # "run")

\* No command asks more of the gripper than its limits, neither one that is
\* computed from a target nor a published position that is sent back.
GripperIsTame == EffectorTypeOK /\ SqueezeBounded /\ RoundTrip

\* A ready move ends, tells whether it failed, and leaves nothing of what was
\* commanded before it: no target, no torque, no torque-on that would defeat
\* the torque-off.
ReadyMoveIsClean ==
    /\ ReadyMoveEnds /\ HonestReady /\ RampRestarts
    /\ [](MoveForgetsCommand /\ TorqueOffIsAlone)
=============================================================================
