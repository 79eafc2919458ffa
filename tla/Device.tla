------------------------------- MODULE Device -------------------------------
(***************************************************************************)
(* The control loop of pi_control_node around one arm: Device::step(), the *)
(* DeviceArm operations it calls, the lifecycle commands Topic dispatches  *)
(* inside the step, and the main loop that turns an error of the step into *)
(* emergency recovery.  The loop is one thread: an action is one phase of  *)
(* an iteration, pc is the phase that comes next, and what the client, the *)
(* clock, signals and the hardware do between and inside the phases is the *)
(* nondeterminism of the actions.                                          *)
(***************************************************************************)
EXTENDS ReadyMove

CONSTANTS
    Role,             \* "LEADER" or "FOLLOWER"
    ArmType,          \* "can", "serial" or "controller"
    DontGoHome,       \* --dont_go_to_home_pos
    ShutdownTimeout,  \* emergency_shutdown_timeout_ms, in ticks
    ClientTimeout,    \* kClientHeartbeatTimeoutMs, in ticks
    AnnounceLoops,    \* ready_announce_total_loops
    AnnounceInterval, \* ready_announce_interval_loops
    Commands,         \* lifecycle commands the client sends in this instance
    MaxMoves          \* bound on the ready-move commands that are delivered

MoveCommands == {"MOVE_TO_READY_POS", "MOVE_TO_READY_POS_AND_PAUSE",
                 "MOVE_TO_READY_AND_STOP"}
AllCommands == MoveCommands \cup
    {"HEARTBEAT", "STOP", "PAUSE", "RESUME", "ENTER_GRAVITY_COMPENSATION",
     "ENABLE_FORCE_FEEDBACK", "HOLD"}

ASSUME RoleAssumption == Role \in {"LEADER", "FOLLOWER"}
ASSUME ArmTypeAssumption == ArmType \in {"can", "serial", "controller"}
ASSUME DontGoHomeAssumption == DontGoHome \in BOOLEAN
ASSUME TimeoutAssumption == /\ ShutdownTimeout \in Nat \ {0}
                            /\ ClientTimeout \in Nat \ {0}
ASSUME AnnounceAssumption == /\ AnnounceLoops \in Nat \ {0}
                             /\ AnnounceInterval \in Nat \ {0}
ASSUME CommandsAssumption == Commands \subseteq AllCommands
ASSUME MaxMovesAssumption == MaxMoves \in Nat

VARIABLES
    pc,             \* the next phase of the control loop
    bulk,           \* how the last group_read_hardware_values() ended
    cmd,            \* move_to_ready_cmd_state_
    requestId,      \* move_to_ready_request_id_
    completedId,    \* completed_move_to_ready_request_id_
    stopAfter,      \* stop_after_ready_
    em,             \* emergency_state_ (TIMED_OUT lasts only inside Prepare)
    slow,           \* slow_move_active_
    stepAge,        \* time since last_step_heartbeat_, saturated
    torque,         \* joints in leader (torque) mode; the others hold position
    gravityFloat,   \* gravity_float_active_
    forceFeedback,  \* enabled_force_feedback_
    followerSeen,   \* follower_pos_valid_
    crossed,        \* history: a mode command came during the ready move under way
    paused,         \* pause_leader_command_listening_
    running,        \* Topic::is_running_
    signal,         \* g_terminate_signal_received
    tele,           \* where the buffered follower targets come from
    clientSeen,     \* client_heartbeat_seen_
    tripped,        \* client_watchdog_tripped_
    clientAge,      \* time since last_client_heartbeat_, saturated
    effReady,       \* p_effector_->is_ready()
    informed,       \* informed_ready_now
    announceLeft,   \* ready_announce_loops_remaining
    readyMsg,       \* request id of the READY_NOW just published (0: none)
    errors,         \* DEVICE_INFO_ERROR_DETECTED messages published
    shutdowns,      \* DEVICE_INFO_SHUTDOWN_AFTER_ERROR messages published
    moves,          \* ready-move commands delivered (bounded by MaxMoves)
    accepted,       \* history: id of the newest ready move accepted
    lost            \* history: joints whose servo was lost, faulted or refused

commandVars == <<cmd, requestId, completedId, stopAfter>>
modeVars == <<torque, gravityFloat, forceFeedback, crossed>>
recoveryVars == <<em, slow, errors, shutdowns>>
clientVars == <<clientSeen, tripped, clientAge>>
announceVars == <<informed, announceLeft, readyMsg>>
inputVars == <<tele, followerSeen, moves, accepted>>
homingVars == <<isReady, moveVars>>
deviceVars == <<pc, rc, bulk, homingVars, servoVars, commandVars,
                recoveryVars, stepAge, modeVars, inputVars, paused, running,
                signal, clientVars, effReady, announceVars, lost>>

Recovering == em # "NONE"

\* tele: "home" is the value the buffers are constructed with, "held" the
\* measured pose, "live" a target received in normal operation and "stale" a
\* target received before or during a ready move that was commanded later.
Targets == {"home", "held", "live", "stale"}

\* The last bulk read succeeded, failed, or failed and named dead servos.
BulkReads == {"good", "bad", "dead"}

Phases == {"start", "startHold", "startMove", "loop", "prepare", "drive", "operate",
           "write", "command", "joints", "watchdog", "effector", "check",
           "stop", "done"}

DeviceTypeOK ==
    /\ TypeOK
    /\ pc \in Phases
    /\ bulk \in BulkReads
    /\ cmd \in {"IDLE", "REQUESTED", "MOVING"}
    /\ requestId \in 0 .. MaxMoves
    /\ completedId \in 0 .. MaxMoves
    /\ stopAfter \in BOOLEAN
    /\ em \in {"NONE", "REQUESTED", "MOVING_SLOW", "COMPLETED"}
    /\ slow \in BOOLEAN
    /\ stepAge \in 0 .. ShutdownTimeout
    /\ torque \subseteq Joints
    /\ gravityFloat \in BOOLEAN
    /\ forceFeedback \in BOOLEAN
    /\ followerSeen \in BOOLEAN
    /\ crossed \in BOOLEAN
    /\ paused \in BOOLEAN
    /\ running \in BOOLEAN
    /\ signal \in BOOLEAN
    /\ tele \in Targets
    /\ clientSeen \in BOOLEAN
    /\ tripped \in BOOLEAN
    /\ clientAge \in 0 .. ClientTimeout
    /\ effReady \in BOOLEAN
    /\ informed \in BOOLEAN
    /\ announceLeft \in 0 .. AnnounceLoops
    /\ readyMsg \in 0 .. MaxMoves
    /\ errors \in 0 .. 1
    /\ shutdowns \in 0 .. 1
    /\ moves \in 0 .. MaxMoves
    /\ accepted \in 0 .. MaxMoves
    /\ lost \subseteq Joints

\* A follower starts paused; joints start in position mode.  The Python
\* client always starts the node with --force_feedback -1.
DeviceInit ==
    /\ MoveInit
    /\ pc = "start"
    /\ bulk = "good"
    /\ cmd = "IDLE" /\ requestId = 0 /\ completedId = 0 /\ stopAfter = FALSE
    /\ em = "NONE" /\ slow = FALSE /\ errors = 0 /\ shutdowns = 0
    /\ stepAge = 0
    /\ torque = {} /\ gravityFloat = FALSE /\ forceFeedback = FALSE
    /\ crossed = FALSE
    /\ tele = "home" /\ followerSeen = FALSE /\ moves = 0 /\ accepted = 0
    /\ paused = (Role = "FOLLOWER")
    /\ running = TRUE
    /\ signal = FALSE
    /\ clientSeen = FALSE /\ tripped = FALSE /\ clientAge = 0
    /\ effReady = FALSE
    /\ informed = FALSE /\ announceLeft = 0 /\ readyMsg = 0
    /\ lost = {}

-----------------------------------------------------------------------------
(***************************************************************************)
(* Control modes.  Only serial arms change modes with bus transactions     *)
(* that can fail, joint by joint: the joints before the failure keep the   *)
(* new mode.  CAN arms have no modes.  Only the base class, which is what  *)
(* controller arms run, also ends the gravity float.                       *)
(***************************************************************************)
SwitchedJoints ==
    IF ArmType = "serial" /\ "mode" \in Faults THEN 0 .. NumJoints ELSE {NumJoints}

ModeAfter(followerLike, k) ==
    IF ArmType = "can" THEN torque
    ELSE IF followerLike THEN torque \ (1 .. k)
    ELSE torque \cup (1 .. k)

SetControlMode(followerLike) ==
    \E k \in SwitchedJoints :
        /\ torque' = ModeAfter(followerLike, k)
        /\ gravityFloat' = (gravityFloat /\ ~(followerLike /\ ArmType = "controller"))

\* set_runtime_gravity_float(true), for a follower that is not floating.
EnterGravityFloat ==
    \E k \in SwitchedJoints :
        /\ torque' = ModeAfter(FALSE, k)
        /\ gravityFloat' = (k = NumJoints)

\* The seeded bug that leaves the float flag set.
EndFloatKeepingFlag ==
    \E k \in SwitchedJoints :
        /\ torque' = ModeAfter(TRUE, k)
        /\ UNCHANGED gravityFloat

\* set_runtime_gravity_float(false); the float survives a failed switch.
EndGravityFloat ==
    \E k \in SwitchedJoints :
        /\ torque' = ModeAfter(TRUE, k)
        /\ gravityFloat' = (k # NumJoints)

(***************************************************************************)
(* Servo commands.  The whole-arm controller refuses a position for a      *)
(* joint in torque mode and a torque for a joint in position mode; on the  *)
(* other arms a command fails when the bus does.                           *)
(***************************************************************************)
Refusals(controllerRefuses) ==
    IF ArmType = "controller" THEN {controllerRefuses} ELSE RefusedCommands

PositionRefusals == Refusals(torque)
TorqueRefusals == Refusals(Joints \ torque)

(***************************************************************************)
(* DeviceArm::read_hardware_values(): the bulk read, whose failure counts  *)
(* only if the driver names dead servos, then every joint that is not      *)
(* already failed, in joint order.                                         *)
(***************************************************************************)
ReadCodes == IF "read" \in Faults THEN Codes \ {"FAIL"} ELSE {"SUCCESS"}

BusServos == Joints \cup (IF HasEffector /\ effReady THEN {EffectorServo} ELSE {})

\* DriverCanMit fails exactly when it finds dead servos, DriverController
\* never names any, DriverFt may fail with or without naming some.
GroupReads ==
    IF "bulk" \notin Faults THEN {[ok |-> TRUE, dead |-> {}]}
    ELSE IF ArmType = "can" THEN {[ok |-> d = {}, dead |-> d] : d \in SUBSET BusServos}
    ELSE IF ArmType = "controller" THEN {[ok |-> b, dead |-> {}] : b \in BOOLEAN}
    ELSE {[ok |-> TRUE, dead |-> {}]}
           \cup {[ok |-> FALSE, dead |-> d] : d \in SUBSET BusServos}

\* The servo is gone (no response, or it reported a hardware fault); or it
\* is alive but too hot, too fast or overloaded.
Gone(code, j) == code[j] \in {"SIG", "FAULT"}
Hard(code, j) == code[j] \in {"SIG", "FAULT", "TEMP"}

\* In recovery and before the device is ready, lost joints are set aside.
TolerantRead(code, dead) ==
    LET skipped == failed \cup dead
        read    == Joints \ skipped
        hard    == {j \in read : Hard(code, j)}
        gone    == {j \in read : Gone(code, j)}
    IN  /\ failed' = skipped \cup gone
        /\ lastFailed' \in IF hard # {} THEN LastOf(hard)
                           ELSE IF dead # {} THEN FirstOf(dead)
                           ELSE {lastFailed}
        /\ rc' \in IF read # {} /\ read = gone THEN {code[j] : j \in LastOf(read)}
                   ELSE {"SUCCESS"}

\* In normal operation the first hard code ends the read, then a dead servo
\* on the bus counts, then the first soft code.
StrictRead(code, dead) ==
    LET read == Joints \ failed
        hard == {j \in read : Hard(code, j)}
        soft == {j \in read : code[j] = "SOFT"}
    IN  /\ failed' = failed
        /\ lastFailed' \in IF hard # {} THEN FirstOf(hard)
                           ELSE IF soft # {} THEN LastOf(soft)
                           ELSE IF dead # {} THEN FirstOf(dead)
                           ELSE {lastFailed}
        /\ rc' \in IF hard # {} THEN {code[j] : j \in FirstOf(hard)}
                   ELSE IF dead # {} THEN {"FAIL"}
                   ELSE IF soft # {} THEN {"SOFT"}
                   ELSE {"SUCCESS"}

ReadHardwareValues(code, group) ==
    /\ IF Recovering \/ ~isReady
         THEN TolerantRead(code, group.dead)
         ELSE StrictRead(code, group.dead)
    /\ bulk' = IF group.ok THEN "good" ELSE IF group.dead = {} THEN "bad" ELSE "dead"
    /\ lost' = lost \cup (Joints \cap group.dead) \cup {j \in Joints : Gone(code, j)}

(***************************************************************************)
(* mark_emergency_recovery_completed(): SHUTDOWN_AFTER_ERROR is published  *)
(* once, and the topic is stopped so that the main loop exits.             *)
(***************************************************************************)
CompleteRecovery ==
    /\ em' = "COMPLETED"
    /\ shutdowns' = IF em = "COMPLETED" THEN shutdowns ELSE shutdowns + 1
    /\ running' = FALSE
    /\ UNCHANGED <<slow, errors>>

-----------------------------------------------------------------------------
(***************************************************************************)
(* main() and DeviceArm::start(): the first read, the hold at the current  *)
(* pose, the first call of move_to_ready_position() and the checks before  *)
(* the loop.  Any error there ends the program.                            *)
(***************************************************************************)
StartRead ==
    /\ pc = "start"
    /\ \E code \in [Joints -> ReadCodes], group \in GroupReads :
          ReadHardwareValues(code, group)
    /\ pc' = IF rc' = "SUCCESS" THEN "startHold" ELSE "stop"
    /\ UNCHANGED <<homingVars, commandVars, recoveryVars, stepAge, modeVars,
                   inputVars, paused, running, signal, clientVars, effReady,
                   announceVars>>

\* A servo with a latched error aborts the start; a joint with a stale cache
\* or a refused hold command is set aside.
StartHold ==
    /\ pc = "startHold"
    /\ \E unheld \in IF "hold" \in Faults THEN SUBSET (Joints \ failed) ELSE {{}} :
          /\ failed' = failed \cup unheld
          /\ lastFailed' \in IF unheld = {} THEN {lastFailed} ELSE LastOf(unheld)
          /\ lost' = lost \cup unheld
    /\ rc' \in IF "hold" \in Faults THEN {"SUCCESS", "FAIL"} ELSE {"SUCCESS"}
    /\ pc' = IF rc' = "SUCCESS" THEN "startMove" ELSE "stop"
    /\ UNCHANGED <<bulk, homingVars, commandVars, recoveryVars, stepAge,
                   modeVars, inputVars, paused, running, signal, clientVars,
                   effReady, announceVars>>

\* clear_command_buffers_for_move_to_ready(): targets become the measured pose.
ClearCommandBuffers == tele' = "held"

\* is_startup_ready_phase() under --dont_go_to_home_pos.
SkipsHoming == DontGoHome /\ cmd = "IDLE" /\ ~Recovering

SkipStartupMove == SkipHoming /\ ClearCommandBuffers

ReadyMoveStep ==
    \/ /\ SkipsHoming
       /\ SkipStartupMove
    \/ /\ ~SkipsHoming
       /\ \E pose \in [Joints -> Poses], bad \in PositionRefusals :
             MoveToReadyPosition(Recovering, effReady, pose, bad)
       /\ UNCHANGED tele

\* The first ready-move call, the effector's start, the last write and
\* verify_servos_operational().
StartMove ==
    /\ pc = "startMove"
    /\ ReadyMoveStep
    /\ lost' = lost \cup (Joints \cap (failed' \ failed))
    /\ effReady' \in IF HasEffector THEN BOOLEAN ELSE {FALSE}
    /\ pc' \in IF rc' # "SUCCESS" THEN {"stop"}
              ELSE IF "write" \in Faults THEN {"loop", "stop"} ELSE {"loop"}
    /\ UNCHANGED <<bulk, commandVars, recoveryVars, stepAge, modeVars,
                   followerSeen, moves, accepted, paused, running, signal,
                   clientVars, announceVars>>

-----------------------------------------------------------------------------
(***************************************************************************)
(* Between two iterations: time, and the signal handler.  The ages are     *)
(* only kept where the code reads them.                                    *)
(***************************************************************************)
Tick ==
    /\ pc = "loop"
    /\ \/ em = "MOVING_SLOW" /\ stepAge < ShutdownTimeout
       \/ clientSeen /\ ~tripped /\ clientAge < ClientTimeout
    /\ stepAge' = IF em = "MOVING_SLOW" /\ stepAge < ShutdownTimeout
                  THEN stepAge + 1 ELSE stepAge
    /\ clientAge' = IF clientSeen /\ ~tripped /\ clientAge < ClientTimeout
                    THEN clientAge + 1 ELSE clientAge
    /\ UNCHANGED <<pc, rc, bulk, homingVars, servoVars, commandVars,
                   recoveryVars, modeVars, inputVars, paused, running, signal,
                   clientSeen, tripped, effReady, announceVars, lost>>

Signal ==
    /\ pc = "loop"
    /\ ~signal
    /\ signal' = TRUE
    /\ UNCHANGED <<pc, rc, bulk, homingVars, servoVars, commandVars,
                   recoveryVars, stepAge, modeVars, inputVars, paused,
                   running, clientVars, effReady, announceVars, lost>>

ExitLoop ==
    /\ pc = "loop"
    /\ ~running \/ signal
    /\ pc' = "stop"
    /\ UNCHANGED <<rc, bulk, homingVars, servoVars, commandVars,
                   recoveryVars, stepAge, modeVars, inputVars, paused,
                   running, signal, clientVars, effReady, announceVars, lost>>

-----------------------------------------------------------------------------
(***************************************************************************)
(* Device::step(), phase by phase.  A phase that fails sends the loop to   *)
(* the error check of main() at once: the phases after it are skipped, the *)
(* lifecycle commands and the step heartbeat included.                     *)
(***************************************************************************)
Read ==
    /\ pc = "loop"
    /\ running
    /\ ~signal
    /\ \E code \in [Joints -> ReadCodes], group \in GroupReads :
          ReadHardwareValues(code, group)
    /\ pc' = IF rc' = "SUCCESS" \/ Recovering THEN "prepare" ELSE "check"
    /\ UNCHANGED <<homingVars, commandVars, recoveryVars, stepAge, modeVars,
                   inputVars, paused, running, signal, clientVars, effReady,
                   announceVars>>

(***************************************************************************)
(* A requested ready move and a requested recovery begin the same way, and *)
(* beginning twice in one step has the same outcomes as beginning once.    *)
(***************************************************************************)
\* The seeded bug that keeps the buffered targets.
BeginReadyMoveKeepingTargets ==
    /\ SetControlMode(TRUE)
    /\ ResetReady
    /\ crossed' = FALSE
    /\ UNCHANGED tele

BeginReadyMove ==
    /\ ClearCommandBuffers
    /\ SetControlMode(TRUE)
    /\ ResetReady
    /\ crossed' = FALSE

Prepare ==
    /\ pc = "prepare"
    /\ cmd = "REQUESTED" \/ em = "REQUESTED"
    /\ em = "MOVING_SLOW" => stepAge < ShutdownTimeout
    /\ BeginReadyMove
    /\ cmd' = IF cmd = "REQUESTED" THEN "MOVING" ELSE cmd
    /\ em' = IF em = "REQUESTED" THEN "MOVING_SLOW" ELSE em
    /\ stepAge' = IF em = "REQUESTED" THEN 0 ELSE stepAge
    /\ pc' = "drive"
    /\ UNCHANGED <<rc, bulk, servoVars, requestId, completedId, stopAfter,
                   slow, errors, shutdowns, forceFeedback, followerSeen,
                   moves, accepted, paused, running, signal, clientVars,
                   effReady, announceVars, lost>>

NothingToPrepare ==
    /\ pc = "prepare"
    /\ cmd # "REQUESTED"
    /\ em # "REQUESTED"
    /\ em = "MOVING_SLOW" => stepAge < ShutdownTimeout
    /\ pc' = "drive"
    /\ UNCHANGED <<rc, bulk, homingVars, servoVars, commandVars,
                   recoveryVars, stepAge, modeVars, inputVars, paused,
                   running, signal, clientVars, effReady, announceVars, lost>>

\* check_emergency_timeout_locked(): the step heartbeat is stale, so the
\* recovery is force-completed.  A ready move requested meanwhile has begun.
TimeOut ==
    /\ pc = "prepare"
    /\ em = "MOVING_SLOW"
    /\ stepAge >= ShutdownTimeout
    /\ CompleteRecovery
    /\ \/ /\ cmd = "REQUESTED"
          /\ BeginReadyMove
          /\ cmd' = "MOVING"
       \/ /\ cmd # "REQUESTED"
          /\ UNCHANGED <<tele, torque, gravityFloat, crossed, homingVars, cmd>>
    /\ rc' = "SUCCESS"
    /\ pc' = "check"
    /\ UNCHANGED <<bulk, servoVars, requestId, completedId, stopAfter,
                   stepAge, forceFeedback, followerSeen, moves, accepted,
                   paused, signal, clientVars, effReady, announceVars, lost>>

(***************************************************************************)
(* One iteration of the ready move.  In recovery, the iteration that gets  *)
(* the arm home also completes the recovery, in PARALLEL mode only.  At    *)
(* the ready transition, a move that was not commanded restores the normal *)
(* mode at once; a commanded one records which request it completed.       *)
(***************************************************************************)
\* The seeded bug that never completes the recovery.
RecoveryNeverEnds == UNCHANGED <<recoveryVars, running>>

RecoveryEndsWithMove ==
    IF /\ MovingMode = "PARALLEL"
       /\ Recovering
       /\ ~isReadyArm
       /\ isReadyArm'
      THEN CompleteRecovery
      ELSE UNCHANGED <<recoveryVars, running>>

NowReady == rc' = "SUCCESS" /\ isReady'

MoveReady ==
    /\ pc = "drive"
    /\ ~isReady
    /\ ReadyMoveStep
    /\ lost' = lost \cup (Joints \cap (failed' \ failed))
    /\ RecoveryEndsWithMove
    /\ effReady' = (effReady \/ (HasEffector /\ Recovering /\ isReady'))
    /\ IF NowReady /\ cmd = "IDLE"
         THEN SetControlMode(Role = "FOLLOWER") /\ crossed' = FALSE
         ELSE UNCHANGED <<torque, gravityFloat, crossed>>
    /\ IF NowReady /\ cmd = "MOVING"
         THEN completedId' = requestId /\ requestId' = 0
         ELSE UNCHANGED <<completedId, requestId>>
    /\ pc' = IF rc' = "SUCCESS" THEN "write" ELSE "check"
    /\ UNCHANGED <<bulk, cmd, stopAfter, stepAge, forceFeedback, followerSeen,
                   moves, accepted, paused, signal, clientVars, announceVars>>

(***************************************************************************)
(* The step after a commanded move: normal operation is restored, and a    *)
(* move-to-ready-and-stop stops the topic.                                 *)
(***************************************************************************)
\* The seeded bug that forgets the second clearing of the buffers.
RestoreKeepingTargets ==
    /\ SetControlMode(Role = "FOLLOWER")
    /\ cmd' = "IDLE"
    /\ crossed' = FALSE
    /\ running' = (running /\ ~stopAfter)
    /\ UNCHANGED tele

\* The seeded bug that forgets to stop.
RestoreForgettingStop ==
    /\ SetControlMode(Role = "FOLLOWER")
    /\ ClearCommandBuffers
    /\ cmd' = "IDLE"
    /\ crossed' = FALSE
    /\ UNCHANGED running

RestoreNormalOperation ==
    /\ SetControlMode(Role = "FOLLOWER")
    /\ ClearCommandBuffers
    /\ cmd' = "IDLE"
    /\ crossed' = FALSE
    /\ running' = (running /\ ~stopAfter)

Restore ==
    /\ pc = "drive"
    /\ isReady
    /\ cmd = "MOVING"
    /\ RestoreNormalOperation
    /\ pc' = "operate"
    /\ UNCHANGED <<rc, bulk, homingVars, servoVars, requestId, completedId,
                   stopAfter, recoveryVars, stepAge, forceFeedback,
                   followerSeen, moves, accepted, paused, signal, clientVars,
                   effReady, announceVars, lost>>

(***************************************************************************)
(* Normal operation: one command per joint; the first one that is refused, *)
(* or a failure of the gravity model, is an error of the step.             *)
(***************************************************************************)
Operates == pc = "operate" \/ (pc = "drive" /\ isReady /\ cmd # "MOVING")

CommandCodes(refusals) ==
    {IF bad = {} THEN "SUCCESS" ELSE "FAIL" : bad \in refusals}
        \cup (IF "algo" \in Faults THEN {"FAIL"} ELSE {})

AfterOperation ==
    /\ pc' = IF rc' = "SUCCESS" THEN "write" ELSE "check"
    /\ UNCHANGED <<bulk, homingVars, servoVars, commandVars, recoveryVars,
                   stepAge, forceFeedback, crossed, followerSeen, moves, accepted,
                   paused, running, signal, clientVars, effReady,
                   announceVars, lost>>

OperateAsLeader ==
    /\ Operates
    /\ Role = "LEADER"
    /\ rc' \in CommandCodes(IF forceFeedback /\ followerSeen
                            THEN PositionRefusals ELSE TorqueRefusals)
    /\ UNCHANGED <<torque, gravityFloat, tele>>
    /\ AfterOperation

OperateAsFollower ==
    /\ Operates
    /\ Role = "FOLLOWER"
    /\ ~gravityFloat
    /\ rc' \in CommandCodes(PositionRefusals)
    /\ UNCHANGED <<torque, gravityFloat, tele>>
    /\ AfterOperation

FloatAsFollower ==
    /\ Operates
    /\ Role = "FOLLOWER"
    /\ gravityFloat
    /\ rc' \in CommandCodes(TorqueRefusals)
    /\ UNCHANGED <<torque, gravityFloat, tele>>
    /\ AfterOperation

\* The runaway watchdog of the float: hold at the current pose.
StopRunaway ==
    /\ Operates
    /\ Role = "FOLLOWER"
    /\ gravityFloat
    /\ EndGravityFloat
    /\ IF gravityFloat'
         THEN rc' = "FAIL" /\ UNCHANGED tele
         ELSE rc' = "SUCCESS" /\ ClearCommandBuffers
    /\ AfterOperation

(***************************************************************************)
(* write_hardware_values(), best-effort in recovery, and the publication   *)
(* of the observation, which a recovering leader leaves out.               *)
(***************************************************************************)
WriteCodes ==
    (IF "write" \in Faults /\ ~Recovering
       THEN {IF ArmType = "controller" THEN "SIG" ELSE "FAIL"} ELSE {})
        \cup (IF "publish" \in Faults /\ ~(Recovering /\ Role = "LEADER")
                THEN {"FAIL"} ELSE {})

Write ==
    /\ pc = "write"
    /\ rc' \in {"SUCCESS"} \cup WriteCodes
    /\ pc' = IF rc' = "SUCCESS" THEN "command" ELSE "check"
    /\ UNCHANGED <<bulk, homingVars, servoVars, commandVars, recoveryVars,
                   stepAge, modeVars, inputVars, paused, running, signal,
                   clientVars, effReady, announceVars, lost>>

-----------------------------------------------------------------------------
(***************************************************************************)
(* TopicZmq::step(): at most one lifecycle command per iteration.  The     *)
(* commands are lossy (PUB/SUB) and may be sent again with the same id.    *)
(***************************************************************************)
Receives(c) ==
    /\ pc = "command"
    /\ c \in Commands
    /\ pc' = IF running' THEN "joints" ELSE "watchdog"
    /\ UNCHANGED <<rc, bulk, moveVars, servoVars, recoveryVars, stepAge,
                   followerSeen, signal, announceVars, lost>>

NoCommand ==
    /\ pc = "command"
    /\ pc' = IF running THEN "joints" ELSE "watchdog"
    /\ UNCHANGED <<rc, bulk, homingVars, servoVars, commandVars,
                   recoveryVars, stepAge, modeVars, inputVars, paused,
                   running, signal, clientVars, effReady, announceVars, lost>>

\* note_client_heartbeat(), before every gate.
Heartbeat ==
    /\ UNCHANGED <<isReady, commandVars, modeVars, tele, moves, accepted,
                   paused, running, effReady>>
    /\ clientSeen' = TRUE
    /\ tripped' = FALSE
    /\ clientAge' = 0
    /\ Receives("HEARTBEAT")

\* In recovery every command but the two ways to stop is dropped (BUSY).
RecoveryGate(c) == Recovering => c \in {"STOP", "MOVE_TO_READY_AND_STOP"}

DropCommand(c) ==
    /\ c # "HEARTBEAT"
    /\ ~RecoveryGate(c)
    /\ UNCHANGED <<isReady, commandVars, modeVars, tele, moves, accepted,
                   paused, running, clientVars, effReady>>
    /\ Receives(c)

StopCommand ==
    /\ RecoveryGate("STOP")
    /\ running' = FALSE
    /\ UNCHANGED <<isReady, commandVars, modeVars, tele, moves, accepted,
                   paused, clientVars, effReady>>
    /\ Receives("STOP")

PauseOrResume(c) ==
    /\ c \in {"PAUSE", "RESUME"}
    /\ RecoveryGate(c)
    /\ paused' = IF Role = "FOLLOWER" THEN (c = "PAUSE") ELSE paused
    /\ UNCHANGED <<isReady, commandVars, modeVars, tele, moves, accepted,
                   running, clientVars, effReady>>
    /\ Receives(c)

(***************************************************************************)
(* request_move_to_ready_position(): consumed by the next iteration.  The  *)
(* device is not ready from here on, so that the previous readiness is not *)
(* announced again.  Targets buffered so far are stale from now on.        *)
(***************************************************************************)
\* The seeded bug that leaves the previous readiness in place.
RequestKeepingReadiness(c, id) ==
    /\ requestId' = id
    /\ cmd' = "REQUESTED"
    /\ stopAfter' = (stopAfter \/ c = "MOVE_TO_READY_AND_STOP")
    /\ UNCHANGED <<isReady, completedId, effReady>>

RequestMoveToReady(c, id) ==
    /\ requestId' = id
    /\ completedId' = 0
    /\ isReady' = FALSE
    /\ effReady' = FALSE
    /\ cmd' = "REQUESTED"
    /\ stopAfter' = (stopAfter \/ c = "MOVE_TO_READY_AND_STOP")

MoveCommand(c, id) ==
    /\ c \in MoveCommands
    /\ id \in {accepted, accepted + 1} \cap (1 .. MaxMoves)
    /\ moves < MaxMoves
    /\ RecoveryGate(c)
    /\ RequestMoveToReady(c, id)
    /\ paused' = (paused \/ (Role = "FOLLOWER" /\ c # "MOVE_TO_READY_POS"))
    /\ tele' = IF tele = "live" THEN "stale" ELSE tele
    /\ moves' = moves + 1
    /\ accepted' = id
    /\ UNCHANGED <<modeVars, running, clientVars>>
    /\ Receives(c)

\* A follower floats on the gravity model; a leader drops force feedback.
GravityCommand ==
    /\ RecoveryGate("ENTER_GRAVITY_COMPENSATION")
    /\ \/ /\ Role = "FOLLOWER"
          /\ IF gravityFloat THEN UNCHANGED <<torque, gravityFloat>>
                             ELSE EnterGravityFloat
          /\ UNCHANGED forceFeedback
       \/ /\ Role = "LEADER"
          /\ forceFeedback' = FALSE
          /\ SetControlMode(FALSE)
    /\ crossed' = ~isReady
    /\ UNCHANGED <<isReady, commandVars, tele, moves, accepted, paused,
                   running, clientVars, effReady>>
    /\ Receives("ENTER_GRAVITY_COMPENSATION")

\* Not supported on a follower.
ForceFeedbackCommand ==
    /\ RecoveryGate("ENABLE_FORCE_FEEDBACK")
    /\ IF Role = "LEADER"
         THEN forceFeedback' = TRUE /\ SetControlMode(FALSE) /\ crossed' = ~isReady
         ELSE UNCHANGED modeVars
    /\ UNCHANGED <<isReady, commandVars, tele, moves, accepted, paused,
                   running, clientVars, effReady>>
    /\ Receives("ENABLE_FORCE_FEEDBACK")

(***************************************************************************)
(* DeviceArm::runtime_hold(): the float ends first; if its mode switch     *)
(* fails, or while something else owns the arm, the targets stay.          *)
(***************************************************************************)
RejectsDirectCommands == Recovering \/ cmd # "IDLE"

\* The seeded bug that keeps the buffered targets.
HoldKeepingTargets ==
    /\ IF gravityFloat THEN EndGravityFloat
                       ELSE UNCHANGED <<torque, gravityFloat>>
    /\ UNCHANGED tele

RuntimeHold ==
    /\ IF gravityFloat THEN EndGravityFloat
                       ELSE UNCHANGED <<torque, gravityFloat>>
    /\ tele' = IF gravityFloat' \/ RejectsDirectCommands THEN tele ELSE "held"

HoldCommand ==
    /\ RecoveryGate("HOLD")
    /\ RuntimeHold
    /\ UNCHANGED <<isReady, commandVars, forceFeedback, crossed, moves, accepted,
                   paused, running, clientVars, effReady>>
    /\ Receives("HOLD")

(***************************************************************************)
(* The joint topics, each drained to its latest message.  Leader joints    *)
(* are dropped in recovery and by a paused follower, direct commands while *)
(* a commanded move or recovery owns the arm.  A target that arrives while *)
(* a move is commanded is stale once the move is over.                     *)
(***************************************************************************)
AcceptsTargets ==
    /\ Role = "FOLLOWER"
    /\ (~Recovering /\ ~paused) \/ ~RejectsDirectCommands

ReceiveJoints ==
    /\ pc = "joints"
    /\ tele' \in {tele} \cup
          (IF AcceptsTargets THEN {IF cmd = "IDLE" THEN "live" ELSE "stale"} ELSE {})
    /\ followerSeen' \in IF Role = "LEADER" THEN {followerSeen, TRUE} ELSE {followerSeen}
    /\ pc' = "watchdog"
    /\ UNCHANGED <<rc, bulk, homingVars, servoVars, commandVars,
                   recoveryVars, stepAge, modeVars, moves, accepted, paused,
                   running, signal, clientVars, effReady, announceVars, lost>>

(***************************************************************************)
(* check_client_heartbeat_watchdog(), then the step heartbeat, then the    *)
(* effector's own step unless the step began in recovery.                  *)
(***************************************************************************)
ClientIsLost ==
    /\ clientSeen /\ ~tripped
    /\ ~Recovering /\ cmd = "IDLE" /\ isReady
    /\ clientAge >= ClientTimeout

EndOfStep ==
    /\ pc = "watchdog"
    /\ stepAge' = 0
    /\ pc' = IF HasEffector /\ ~Recovering THEN "effector" ELSE "check"
    /\ UNCHANGED <<rc, bulk, homingVars, servoVars, commandVars,
                   recoveryVars, followerSeen, moves, accepted, running,
                   signal, clientSeen, clientAge, effReady, announceVars, lost>>

KeepWatching ==
    /\ ~ClientIsLost
    /\ UNCHANGED <<tripped, paused, modeVars, tele>>
    /\ EndOfStep

LoseClient ==
    /\ ClientIsLost
    /\ tripped' = TRUE
    /\ UNCHANGED crossed
    /\ \/ /\ Role = "LEADER"
          /\ forceFeedback' = FALSE
          /\ IF forceFeedback THEN SetControlMode(FALSE)
                              ELSE UNCHANGED <<torque, gravityFloat>>
          /\ UNCHANGED <<paused, tele>>
       \/ /\ Role = "FOLLOWER"
          /\ paused' = TRUE
          /\ RuntimeHold
          /\ UNCHANGED forceFeedback
    /\ EndOfStep

\* The effector's step; last_failed_joint_id_ names its servo only if no
\* earlier failure is recorded there.
StepEffector ==
    /\ pc = "effector"
    /\ \/ /\ rc' = "SUCCESS"
          /\ effReady' \in {effReady, TRUE}
          /\ UNCHANGED lastFailed
       \/ /\ "effector" \in Faults
          /\ rc' \in {"FAIL", "SIG"}
          /\ lastFailed' \in IF lastFailed = NoServo
                             THEN {NoServo, EffectorServo} ELSE {lastFailed}
          /\ UNCHANGED effReady
    /\ pc' = "check"
    /\ UNCHANGED <<bulk, homingVars, failed, commandVars, recoveryVars,
                   stepAge, modeVars, inputVars, paused, running, signal,
                   clientVars, announceVars, lost>>

-----------------------------------------------------------------------------
(***************************************************************************)
(* The rest of the main loop: an error of the step enters emergency        *)
(* recovery, unless the device is there already, and readiness is          *)
(* announced for a while after the device gets ready.                      *)
(***************************************************************************)
\* The seeded bug that disables the blamed joint whatever the error was.
EnterRecoveryDisablingJoint ==
    /\ em' = "REQUESTED"
    /\ slow' = TRUE
    /\ failed' = IF lastFailed # NoServo THEN {lastFailed} ELSE {}
    /\ paused' = TRUE
    /\ errors' = errors + 1
    /\ UNCHANGED shutdowns

\* The seeded bug that leaves the follower listening to its leader.
EnterRecoveryListening ==
    /\ em' = "REQUESTED"
    /\ slow' = TRUE
    /\ failed' = IF rc = "SIG" /\ lastFailed # NoServo THEN {lastFailed} ELSE {}
    /\ errors' = errors + 1
    /\ UNCHANGED <<shutdowns, paused>>

EnterEmergencyRecovery ==
    /\ em' = "REQUESTED"
    /\ slow' = TRUE
    /\ failed' = IF rc = "SIG" /\ lastFailed # NoServo THEN {lastFailed} ELSE {}
    /\ paused' = TRUE
    /\ errors' = errors + 1
    /\ UNCHANGED shutdowns

AnnounceReady ==
    LET left == IF informed THEN announceLeft ELSE AnnounceLoops
        due  == left > 0 /\ (left = AnnounceLoops \/ left % AnnounceInterval = 0)
    IN  \/ /\ informed' = TRUE
           /\ announceLeft' = IF left > 0 THEN left - 1 ELSE 0
           /\ readyMsg' = IF due THEN completedId ELSE 0
           /\ pc' = "loop"
        \/ /\ due
           /\ "publish" \in Faults
           /\ informed' = TRUE
           /\ announceLeft' = left
           /\ readyMsg' = 0
           /\ pc' = "stop"

Check ==
    /\ pc = "check"
    /\ IF rc # "SUCCESS" /\ ~Recovering
         THEN EnterEmergencyRecovery
         ELSE UNCHANGED <<recoveryVars, failed, paused>>
    /\ IF isReady
         THEN AnnounceReady
         ELSE /\ informed' = FALSE
              /\ readyMsg' = 0
              /\ pc' = "loop"
              /\ UNCHANGED announceLeft
    /\ UNCHANGED <<rc, bulk, homingVars, lastFailed, commandVars, stepAge,
                   modeVars, inputVars, running, signal, clientVars, effReady,
                   lost>>

\* Device::stop(): the servos are parked and the topic is stopped.
Stop ==
    /\ pc = "stop"
    /\ running' = FALSE
    /\ pc' = "done"
    /\ UNCHANGED <<rc, bulk, homingVars, servoVars, commandVars,
                   recoveryVars, stepAge, modeVars, inputVars, paused, signal,
                   clientVars, effReady, announceVars, lost>>

Terminated == pc = "done" /\ UNCHANGED deviceVars

StepPhase ==
    \/ Read \/ Prepare \/ NothingToPrepare \/ TimeOut \/ MoveReady \/ Restore
    \/ OperateAsLeader \/ OperateAsFollower \/ FloatAsFollower \/ StopRunaway
    \/ Write \/ ReceiveJoints \/ KeepWatching \/ LoseClient \/ StepEffector

CommandPhase ==
    \/ NoCommand
    \/ Heartbeat
    \/ StopCommand
    \/ GravityCommand
    \/ ForceFeedbackCommand
    \/ HoldCommand
    \/ \E c \in Commands : DropCommand(c) \/ PauseOrResume(c)
    \/ \E c \in Commands, id \in 1 .. MaxMoves : MoveCommand(c, id)

MainPhase == StartRead \/ StartHold \/ StartMove \/ ExitLoop \/ Check \/ Stop

ControlLoop == StepPhase \/ CommandPhase \/ MainPhase

DeviceNext == ControlLoop \/ Tick \/ Signal \/ Terminated

(***************************************************************************)
(* The loop never blocks (every socket operation is non-blocking and every *)
(* bus transaction has a timeout), and an unbounded number of iterations   *)
(* takes an unbounded time.                                                *)
(***************************************************************************)
DeviceSpec ==
    /\ DeviceInit
    /\ [][DeviceNext]_deviceVars
    /\ WF_deviceVars(ControlLoop)
    /\ SF_deviceVars(Tick)

-----------------------------------------------------------------------------
(***************************************************************************)
(* Once emergency recovery is requested, the follower no longer listens to *)
(* its leader, and from the moment the slow move runs the only target left *)
(* in the buffers is the measured pose: teleoperation "cannot keep pushing *)
(* target positions on top of the slow recovery move"                      *)
(* (enter_emergency_recovery()).                                           *)
(***************************************************************************)
RecoveryIsolated ==
    /\ em # "NONE" => paused
    /\ em \in {"MOVING_SLOW", "COMPLETED"} => tele = "held"

(***************************************************************************)
(* A target buffered before or during a commanded ready move never drives  *)
(* the arm once normal operation is back, whatever the order of requests,  *)
(* joint messages and errors ("so we don't jump after returning to normal  *)
(* operation" in Device::step()).                                          *)
(***************************************************************************)
NoStaleTarget == cmd = "IDLE" /\ em = "NONE" => tele # "stale"

(***************************************************************************)
(* A READY_NOW that carries a request id carries the id of the newest      *)
(* request accepted, and the arm has been ready since that request: a      *)
(* superseded or repeated request never gets an earlier move's answer.     *)
(***************************************************************************)
ReadyAnnouncement ==
    pc = "loop" /\ readyMsg > 0 => readyMsg = accepted /\ isReady

(***************************************************************************)
(* Recovery only gives up on joints whose servo was really lost: a hot,    *)
(* fast or overloaded joint stays in the ready move ("Only SIG ... means   *)
(* we genuinely cannot talk to the servo" in enter_emergency_recovery()).  *)
(***************************************************************************)
OnlyLostJointsExcluded == Joints \cap failed \subseteq lost

(***************************************************************************)
(* A bulk read that found a servo dead never lets a ready device carry on  *)
(* with the values it cached before, on any kind of arm: the failure       *)
(* becomes an error of the step ("if the bulk read failed, propagate that  *)
(* failure" in DeviceArm::read_hardware_values()).  A failure that names   *)
(* no servo is not propagated, whatever that comment says.                 *)
(***************************************************************************)
StaleReadEscalates ==
    pc = "prepare" /\ isReady /\ em = "NONE" => bulk # "dead"

(***************************************************************************)
(* With --dont_go_to_home_pos, a device that is ready never has the        *)
(* default home pose as its target: the buffers are rebased before the     *)
(* first normal step ("or the first post-ready step undoes the skip" in    *)
(* move_to_ready_position()).                                              *)
(***************************************************************************)
SkipIsNotUndone == DontGoHome /\ isReady => tele # "home"

(***************************************************************************)
(* While a recovery or a commanded ready move drives the joints they are   *)
(* all position controlled: the READY_MOVE_OVERRIDE mode of Device::step() *)
(* lasts as long as the move.  Nothing a client sends can end it in a      *)
(* recovery, and only a mode command can in a commanded move, where Topic  *)
(* still dispatches it.                                                    *)
(***************************************************************************)
OverrideHeld ==
    pc = "drive" /\ ~isReady /\ (em = "MOVING_SLOW" \/ (cmd = "MOVING" /\ ~crossed))
        => torque = {}

(***************************************************************************)
(* A leader only operates with every joint under torque control, so that   *)
(* the operator can move it: every way into normal operation, start-up and *)
(* ready moves included, restores the leader mode (set_control_mode() in   *)
(* Device::step()).                                                        *)
(***************************************************************************)
LeaderFloats ==
    Role = "LEADER" /\ Operates /\ em = "NONE" => torque = Joints

(***************************************************************************)
(* Hardware that does what it is told ends in emergency recovery only if   *)
(* the device sends its own servos commands they refuse, and there are     *)
(* three ways to that, all on arms behind a controller that checks the     *)
(* joint modes: a mode command in the middle of a ready move, force        *)
(* feedback on a leader that hears its follower, and a leader that was     *)
(* never put into its torque mode because its start-up move was skipped.   *)
(* No other order of commands, messages and moves does it on any arm.      *)
(***************************************************************************)
SelfInflicted ==
    /\ ArmType = "controller"
    /\ \/ crossed
       \/ Role = "LEADER" /\ (DontGoHome \/ (forceFeedback /\ followerSeen))

HealthyArmStaysUp == Faults = {} /\ em = "REQUESTED" => SelfInflicted

(***************************************************************************)
(* A follower that operates floats with every joint under torque control,  *)
(* or holds with every joint under position control: the float flag and    *)
(* the joint modes never disagree (set_runtime_gravity_float()).           *)
(***************************************************************************)
FloatMatchesModes ==
    Role = "FOLLOWER" /\ Operates /\ em = "NONE"
        => torque = IF gravityFloat THEN Joints ELSE {}

(***************************************************************************)
(* When a gravity float ends in normal operation, by HOLD, by its runaway  *)
(* watchdog or because the client was lost, the arm holds where it is: no  *)
(* target from before or during the float is left ("no stale pre-float     *)
(* command yanks the arm after the re-engage").                            *)
(***************************************************************************)
FloatEndsInHold ==
    [][gravityFloat /\ ~gravityFloat' /\ ~RejectsDirectCommands
         => tele' = "held"]_deviceVars

(***************************************************************************)
(* The recovery lifecycle seen by the client.                              *)
(***************************************************************************)
LifecyclePhase ==
    CASE em = "NONE"        -> "normal"
      [] em = "REQUESTED"   -> "armed"
      [] em = "MOVING_SLOW" -> "homing"
      [] em = "COMPLETED"   -> "finished"

Lifecycle == INSTANCE RecoveryLifecycle WITH
    phase    <- LifecyclePhase,
    detected <- errors,
    shutdown <- shutdowns,
    open     <- running,
    outside  <- tele \in {"live", "stale"}

(***************************************************************************)
(* The control loop implements the recovery lifecycle: one recovery, its   *)
(* beginning and its end announced once each and in order, no reopening,   *)
(* and no outside target while the recovery moves the arm.                 *)
(***************************************************************************)
FollowsLifecycle == Lifecycle!LifecycleSpec

(***************************************************************************)
(* Every emergency recovery ends with the program torn down, whatever the  *)
(* hardware keeps doing: through the end of the ready move or through the  *)
(* step-heartbeat watchdog ("When recovery completes (or times out), the   *)
(* main loop tears the device down").                                      *)
(***************************************************************************)
RecoveryTearsDown == em # "NONE" ~> pc = "done"

(***************************************************************************)
(* A requested ready move is over at some point: the move-to-ready state   *)
(* machine of Device::step() returns to IDLE, or the program ends.         *)
(***************************************************************************)
RequestAnswered == cmd # "IDLE" ~> (cmd = "IDLE" \/ pc = "done")

(***************************************************************************)
(* A move-to-ready-and-stop ends the program, even when other requests,    *)
(* errors or a recovery come in between (request_move_to_ready_and_stop()). *)
(***************************************************************************)
StopIsHonoured == stopAfter ~> pc = "done"

(***************************************************************************)
(* A client that falls silent is found out: the silence ends, the watchdog *)
(* trips, a recovery takes over or the program ends.                       *)
(***************************************************************************)
SilenceIsNoticed ==
    (clientSeen /\ clientAge = ClientTimeout) ~>
        (tripped \/ clientAge < ClientTimeout \/ em # "NONE" \/ pc = "done")

(***************************************************************************)
(* The loop serves its client in the end: a requested move is over, the    *)
(* program stops where that was part of the request, and a client that is  *)
(* gone is noticed.                                                        *)
(***************************************************************************)
ClientIsServed == RequestAnswered /\ StopIsHonoured /\ SilenceIsNoticed
=============================================================================
