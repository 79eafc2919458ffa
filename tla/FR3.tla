--------------------------------- MODULE FR3 ---------------------------------
(***************************************************************************)
(* A Franka FR3 with a Robotiq gripper: DeviceFR3 on the main thread,      *)
(* DriverFR3's torque callback on libfranka's thread and RobotiqTransport's*)
(* polling loop on a third one.  The main thread leaves orders under a     *)
(* mutex, the other two pick them up in their own time, and a ready move   *)
(* stops and restarts the torque controller.                               *)
(***************************************************************************)
EXTENDS Integers

CONSTANTS
    DontGoHome,   \* --dont_go_to_home_pos
    MaxTargets,   \* bound on the targets sent to the gripper
    MaxMoves,     \* bound on the ready moves
    RobotFaults   \* what may fail in this instance

FaultKinds == {"robot", "limit", "modbus", "gripper"}

ASSUME DontGoHomeAssumption == DontGoHome \in BOOLEAN
ASSUME BoundsAssumption == MaxTargets \in Nat /\ MaxMoves \in Nat
ASSUME RobotFaultsAssumption == RobotFaults \subseteq FaultKinds

VARIABLES
    main,       \* what the main thread does
    recovering, \* the device is in emergency recovery
    ready,      \* is_ready_
    moves,      \* ready moves begun (bounded by MaxMoves)
    arm,        \* libfranka's thread
    started,    \* controller_started_
    exited,     \* controller_exited_
    stopArm,    \* stop_requested_
    armFault,   \* state_.faulted
    target,     \* what controller_ follows
    newTarget,  \* pending_target_ if target_pending_, "none" otherwise
    newHold,    \* hold_pending_
    lastArm,    \* history: the newest order the main thread gave the arm
    poll,       \* RobotiqTransport's thread
    polling,    \* running_ of RobotiqTransport
    seen,       \* state_ of RobotiqTransport
    wanted,     \* target_position_
    gen,        \* command_generation_ (bounded by MaxTargets)
    askAct,     \* activation_requested_
    askHold,    \* hold_requested_
    snap,       \* the poll's copies of the four above
    out,        \* the motion command the poll has decided on
    applied,    \* applied_generation, -1 for UINT64_MAX
    active,     \* the gripper's activation: "off", "starting" or "on"
    motion,     \* what the gripper was last told to do
    ordered     \* history: the newest order the main thread gave the gripper

mainVars == <<main, recovering, ready, moves>>
armVars == <<arm, started, exited, stopArm, armFault>>
orderVars == <<target, newTarget, newHold, lastArm>>
requestVars == <<wanted, gen, askAct, askHold>>
pollVars == <<poll, polling, seen, snap, out, applied>>
gripperVars == <<active, motion, ordered>>
fr3Vars == <<mainVars, armVars, orderVars, requestVars, pollVars, gripperVars>>

GripperPositions == {"open", "closed"}
Unseen == [conn |-> FALSE, act |-> FALSE, ever |-> FALSE, fault |-> FALSE,
           open |-> TRUE]
NoSnap == [act |-> FALSE, hold |-> FALSE, pos |-> "open", gen |-> 0]
Generations == 0 .. MaxTargets + MaxMoves
Motions == GripperPositions \cup {"none", "hold"}
NoCommand == [to |-> "none", applied |-> -1, write |-> FALSE]

MainPhases ==
    {"off", "await", "gripper", "connect", "loop", "closing", "homing",
     "activate", "activating", "opening", "parking", "closeArm", "closeGripper",
     "done"}

FR3TypeOK ==
    /\ main \in MainPhases
    /\ recovering \in BOOLEAN /\ ready \in BOOLEAN
    /\ moves \in 0 .. MaxMoves
    /\ arm \in {"none", "loading", "running", "exited"}
    /\ started \in BOOLEAN /\ exited \in BOOLEAN
    /\ stopArm \in BOOLEAN /\ armFault \in BOOLEAN
    /\ target \in {"measured", "live", "stale"}
    /\ newTarget \in {"none", "live", "stale"}
    /\ newHold \in BOOLEAN
    /\ lastArm \in {"hold", "target"}
    /\ poll \in {"none", "top", "activate", "read", "write", "exited"}
    /\ polling \in BOOLEAN
    /\ seen \in [conn : BOOLEAN, act : BOOLEAN, ever : BOOLEAN,
                 fault : BOOLEAN, open : BOOLEAN]
    /\ wanted \in GripperPositions
    /\ gen \in Generations
    /\ askAct \in BOOLEAN /\ askHold \in BOOLEAN
    /\ snap \in [act : BOOLEAN, hold : BOOLEAN, pos : GripperPositions,
                 gen : Generations]
    /\ out \in [to : Motions, applied : {-1} \cup Generations, write : BOOLEAN]
    /\ applied \in {-1} \cup Generations
    /\ active \in {"off", "starting", "on"}
    /\ motion \in Motions
    /\ ordered \in {"none", "activate", "target", "hold"}

\* The gripper may still be active from an earlier session.
FR3Init ==
    /\ main = "off" /\ recovering = FALSE /\ ready = FALSE /\ moves = 0
    /\ arm = "none" /\ started = FALSE /\ exited = TRUE /\ stopArm = FALSE
    /\ armFault = FALSE
    /\ target = "measured" /\ newTarget = "none" /\ newHold = FALSE
    /\ lastArm = "hold"
    /\ poll = "none" /\ polling = FALSE /\ seen = Unseen
    /\ wanted = "open" /\ gen = 0 /\ askAct = FALSE /\ askHold = FALSE
    /\ snap = NoSnap /\ out = NoCommand /\ applied = -1
    /\ active \in {"off", "on"} /\ motion = "none" /\ ordered = "none"

-----------------------------------------------------------------------------
(***************************************************************************)
(* Orders of the main thread.                                              *)
(***************************************************************************)
\* DriverFR3::set_target() and hold().
ArmTarget ==
    /\ newTarget' = "live" /\ newHold' = FALSE /\ lastArm' = "target"
    /\ UNCHANGED target

ArmHold ==
    /\ newHold' = TRUE /\ newTarget' = "none" /\ lastArm' = "hold"
    /\ UNCHANGED target

\* RobotiqTransport::set_target() and hold().
GripperTarget(pos) ==
    /\ wanted' = pos /\ gen' = gen + 1 /\ askHold' = FALSE
    /\ ordered' = "target"
    /\ UNCHANGED askAct

GripperHold ==
    /\ askHold' = TRUE
    /\ ordered' = "hold"
    /\ UNCHANGED <<wanted, gen, askAct>>

\* has_operational_fault().
GripperFault == seen.ever /\ seen.fault

(***************************************************************************)
(* DriverFR3::open() and start_controller(): the robot is connected, the   *)
(* controller's state is reset to the measured pose, the thread is started *)
(* and its first callback, or its end, is waited for.                      *)
(***************************************************************************)
\* The seeded bug that lets the controller keep the target it followed.
InitializeKeepingTarget ==
    /\ newTarget' = "none" /\ newHold' = FALSE
    /\ lastArm' = "hold"
    /\ armFault' = FALSE
    /\ UNCHANGED target

InitializeControllerState ==
    /\ target' = "measured" /\ newTarget' = "none" /\ newHold' = FALSE
    /\ lastArm' = "hold"
    /\ armFault' = FALSE

StartController ==
    /\ InitializeControllerState
    /\ arm' = "loading"
    /\ started' = FALSE /\ exited' = FALSE /\ stopArm' = FALSE
    /\ main' = "await"

OpenRobot ==
    /\ main = "off"
    /\ \/ StartController
       \/ /\ "robot" \in RobotFaults
          /\ main' = "done"
          /\ UNCHANGED <<armVars, orderVars>>
    /\ UNCHANGED <<recovering, ready, moves, requestVars, pollVars, gripperVars>>

\* The wait in start_controller() ends; moves = 0 tells open() from a move.
ControllerStarted ==
    /\ main = "await" /\ started
    /\ main' = IF moves = 0 /\ poll = "none" THEN "gripper" ELSE "activate"
    /\ UNCHANGED <<recovering, ready, moves, armVars, orderVars, requestVars,
                   pollVars, gripperVars>>

ControllerFailed ==
    /\ main = "await" /\ ~started /\ exited
    /\ arm' = "none"
    /\ recovering' = (recovering \/ poll # "none")
    /\ main' = IF moves = 0 /\ poll = "none" THEN "done" ELSE "loop"
    /\ UNCHANGED <<ready, moves, started, exited, stopArm, armFault, orderVars,
                   requestVars, pollVars, gripperVars>>

(***************************************************************************)
(* DeviceFR3::start(): the gripper's transport, which must report within   *)
(* two seconds, and the hold of --dont_go_to_home_pos.                     *)
(***************************************************************************)
StartGripper ==
    /\ main = "gripper"
    /\ \/ /\ polling' = TRUE /\ poll' = "top" /\ seen' = Unseen
          /\ main' = "connect"
       \/ /\ "modbus" \in RobotFaults
          /\ main' = "parking"
          /\ UNCHANGED <<polling, poll, seen>>
    /\ UNCHANGED <<recovering, ready, moves, armVars, orderVars, requestVars,
                   snap, out, applied, gripperVars>>

GripperAnswered ==
    /\ main = "connect" /\ seen.conn
    /\ main' = "loop"
    /\ ready' = DontGoHome
    /\ IF DontGoHome THEN ArmHold ELSE UNCHANGED orderVars
    /\ UNCHANGED <<recovering, moves, armVars, requestVars, pollVars,
                   gripperVars>>

GripperSilent ==
    /\ main = "connect" /\ ~seen.conn
    /\ main' = "parking"
    /\ UNCHANGED <<recovering, ready, moves, armVars, orderVars, requestVars,
                   pollVars, gripperVars>>

-----------------------------------------------------------------------------
(***************************************************************************)
(* The control loop: read_hardware_values() turns faults of the two        *)
(* threads into emergency recovery; a ready device takes actions and       *)
(* holds; a ready move runs when one is requested, at start-up and in      *)
(* recovery.                                                               *)
(***************************************************************************)
HardwareBad == armFault \/ ~seen.conn \/ GripperFault

EnterRecovery ==
    /\ main = "loop" /\ HardwareBad /\ ~recovering
    /\ recovering' = TRUE
    /\ UNCHANGED <<main, ready, moves, armVars, orderVars, requestVars,
                   pollVars, gripperVars>>

\* apply_action(): nothing is applied unless the gripper can take its part.
CommandGripper(pos) ==
    /\ main = "loop" /\ ready /\ ~recovering
    /\ seen.conn /\ seen.act /\ ~GripperFault
    /\ gen < MaxTargets
    /\ ArmTarget
    /\ GripperTarget(pos)
    /\ UNCHANGED <<mainVars, armVars, pollVars, active, motion>>

\* runtime_hold(), from HOLD or from the client watchdog.
RuntimeHold ==
    /\ main = "loop" /\ ready /\ ~recovering
    /\ ArmHold
    /\ GripperHold
    /\ UNCHANGED <<mainVars, armVars, pollVars, active, motion>>

\* A ready move begins.  A requested move and the first one of a recovery
\* clear the buffers before (clear_command_buffers_for_move_to_ready());
\* then DriverFR3::move_to_ready() closes the controller.
BeginArmMove ==
    /\ main = "loop" /\ moves < MaxMoves
    /\ moves' = moves + 1
    /\ ready' = FALSE
    /\ main' = "closing"
    /\ stopArm' = TRUE
    /\ target' = IF target = "live" THEN "stale" ELSE target
    /\ \/ /\ ready \/ recovering
          /\ newTarget' = "none" /\ newHold' = TRUE /\ lastArm' = "hold"
          /\ GripperHold
       \/ /\ ~ready
          /\ newTarget' = IF newTarget = "live" THEN "stale" ELSE newTarget
          /\ UNCHANGED <<newHold, lastArm, requestVars, ordered>>
    /\ UNCHANGED <<recovering, arm, started, exited, armFault, pollVars,
                   active, motion>>

\* close(): Robot::stop() and the join of the thread.
MoveClosed ==
    /\ main = "closing" /\ arm \in {"none", "exited"}
    /\ arm' = "none"
    /\ main' = "homing"
    /\ UNCHANGED <<recovering, ready, moves, started, exited, stopArm, armFault,
                   orderVars, requestVars, pollVars, gripperVars>>

\* The reset motion runs in the main thread; whatever raises ends the move.
Home ==
    /\ main = "homing"
    /\ \/ StartController /\ UNCHANGED recovering
       \/ /\ "robot" \in RobotFaults
          /\ recovering' = TRUE
          /\ main' = "loop"
          /\ UNCHANGED <<armVars, orderVars>>
    /\ UNCHANGED <<ready, moves, requestVars, pollVars, gripperVars>>

\* The rest of DeviceFR3::move_to_ready_position(); a step that fails holds
\* the arm, and the gripper if it had a target.
FailMove ==
    /\ ArmHold
    /\ recovering' = TRUE
    /\ main' = "loop"
    /\ UNCHANGED ready

OpenGripper ==
    /\ GripperTarget("open")
    /\ main' = "opening"
    /\ UNCHANGED <<recovering, ready, orderVars>>

\* activate() is called unless the last poll found the gripper active.
Activate ==
    /\ main = "activate"
    /\ \/ seen.act /\ OpenGripper
       \/ /\ ~seen.act /\ polling
          /\ askAct' = TRUE
          /\ ordered' = "activate"
          /\ main' = "activating"
          /\ UNCHANGED <<recovering, ready, orderVars, wanted, gen, askHold>>
       \/ ~seen.act /\ ~polling /\ FailMove /\ UNCHANGED <<requestVars, ordered>>
    /\ UNCHANGED <<moves, armVars, pollVars, active, motion>>

\* The wait of activate() ends: activated, transport gone, or 15 s over.
Activated ==
    /\ main = "activating"
    /\ \/ seen.act /\ ~seen.fault /\ OpenGripper
       \/ (~seen.act \/ seen.fault) /\ FailMove /\ UNCHANGED <<requestVars, ordered>>
    /\ UNCHANGED <<moves, armVars, pollVars, active, motion>>

\* The wait for the gripper to open: done, lost, faulted or 5 s over.
Opened ==
    /\ main = "opening"
    /\ \/ /\ seen.conn /\ ~GripperFault /\ seen.act /\ seen.open
          /\ ready' = TRUE
          /\ main' = "loop"
          /\ UNCHANGED <<recovering, orderVars, requestVars, ordered>>
       \/ FailMove /\ GripperHold
    /\ UNCHANGED <<moves, armVars, pollVars, active, motion>>

(***************************************************************************)
(* Device::stop() and DeviceFR3::stop(): park, close the driver, then stop *)
(* the gripper's transport, which asks a running transport for another     *)
(* hold and gives it 50 ms to write it.                                    *)
(***************************************************************************)
BeginStop ==
    /\ main = "loop"
    /\ main' = "parking"
    /\ UNCHANGED <<recovering, ready, moves, armVars, orderVars, requestVars,
                   pollVars, gripperVars>>

Park ==
    /\ main = "parking"
    /\ ArmHold
    /\ GripperHold
    /\ stopArm' = TRUE
    /\ main' = "closeArm"
    /\ UNCHANGED <<recovering, ready, moves, arm, started, exited, armFault,
                   pollVars, active, motion>>

StopClosed ==
    /\ main = "closeArm" /\ arm \in {"none", "exited"}
    /\ arm' = "none"
    /\ main' = "closeGripper"
    /\ IF polling THEN GripperHold ELSE UNCHANGED <<requestVars, ordered>>
    /\ UNCHANGED <<recovering, ready, moves, started, exited, stopArm, armFault,
                   orderVars, pollVars, active, motion>>

\* The seeded bug that joins the transport's thread without stopping it.
JoinPolling ==
    /\ main = "closeGripper"
    /\ poll = "exited"
    /\ poll' = "none" /\ seen' = [seen EXCEPT !.conn = FALSE]
    /\ UNCHANGED <<mainVars, armVars, orderVars, requestVars, polling, snap,
                   out, applied, gripperVars>>

StopPolling ==
    /\ main = "closeGripper"
    /\ polling \/ poll # "none"
    /\ polling' = FALSE
    /\ IF poll = "exited" THEN poll' = "none" /\ seen' = [seen EXCEPT !.conn = FALSE]
                          ELSE UNCHANGED <<poll, seen>>
    /\ UNCHANGED <<mainVars, armVars, orderVars, requestVars, snap, out,
                   applied, gripperVars>>

StopDone ==
    /\ main = "closeGripper" /\ ~polling /\ poll = "none"
    /\ main' = "done"
    /\ UNCHANGED <<recovering, ready, moves, armVars, orderVars, requestVars,
                   pollVars, gripperVars>>

-----------------------------------------------------------------------------
(***************************************************************************)
(* run_controller(): the model is loaded, then libfranka calls back once   *)
(* per millisecond.  A callback applies what is pending, unless it cannot  *)
(* have the lock, and publishes the state; a limit that is exceeded raises.*)
(***************************************************************************)
ApplyPendingCommand ==
    \/ /\ newHold
       /\ target' = "measured" /\ newHold' = FALSE
       /\ UNCHANGED newTarget
    \/ /\ ~newHold /\ newTarget # "none"
       /\ target' = newTarget /\ newTarget' = "none"
       /\ UNCHANGED newHold

FirstCallback ==
    /\ arm = "loading"
    /\ arm' = "running"
    /\ started' = TRUE
    /\ UNCHANGED <<mainVars, exited, stopArm, armFault, orderVars, requestVars,
                   pollVars, gripperVars>>

Callback ==
    /\ arm = "running" /\ ~stopArm
    /\ ApplyPendingCommand
    /\ UNCHANGED <<mainVars, armVars, lastArm, requestVars, pollVars,
                   gripperVars>>

ControllerExits(fault) ==
    /\ arm' = "exited"
    /\ exited' = TRUE
    /\ armFault' = (armFault \/ (fault /\ ~stopArm))
    /\ UNCHANGED <<started, stopArm>>

ControllerEnds ==
    /\ \/ arm = "running" /\ stopArm /\ ControllerExits(FALSE)
       \/ "limit" \in RobotFaults /\ arm \in {"loading", "running"} /\ ControllerExits(TRUE)
    /\ UNCHANGED <<mainVars, orderVars, requestVars, pollVars, gripperVars>>

(***************************************************************************)
(* RobotiqTransport::run(): copy the requests and clear them, write the    *)
(* activation if it was asked for, read the status, write a motion command *)
(* if there is one to write.  A Modbus transaction that fails ends the     *)
(* thread.                                                                 *)
(***************************************************************************)
FailTransport ==
    /\ poll' = "exited"
    /\ polling' = FALSE
    /\ seen' = [seen EXCEPT !.conn = FALSE, !.act = FALSE]

PollTop ==
    /\ poll = "top" /\ polling
    /\ snap' = [act |-> askAct, hold |-> askHold, pos |-> wanted, gen |-> gen]
    /\ askAct' = FALSE /\ askHold' = FALSE
    /\ poll' = IF askAct THEN "activate" ELSE "read"
    /\ UNCHANGED <<mainVars, armVars, orderVars, wanted, gen, polling, seen,
                   out, applied, gripperVars>>

\* The two activation writes reset the gripper.
PollActivate ==
    /\ poll = "activate"
    /\ \/ /\ active' = "starting"
          /\ motion' = "none"
          /\ poll' = "read"
          /\ UNCHANGED <<polling, seen>>
       \/ /\ "modbus" \in RobotFaults
          /\ FailTransport
          /\ UNCHANGED <<active, motion>>
    /\ UNCHANGED <<mainVars, armVars, orderVars, requestVars, snap, out,
                   applied, ordered>>

\* What the status registers may say: activated, faulted, open, moving.
Statuses ==
    [act : {active = "on"},
     fault : IF "gripper" \in RobotFaults THEN BOOLEAN ELSE {FALSE},
     open : BOOLEAN, moving : BOOLEAN]

NothingToWrite == [to |-> motion, applied |-> applied, write |-> FALSE]
Send(to, newest) == [to |-> to, applied |-> newest, write |-> TRUE]

\* A hold stops the gripper and stands for the target of its time; a newer
\* target is sent; and a gripper that was told to close closes again when it
\* has stopped, so that it keeps its grasp.
MotionCommand(status) ==
    IF ~status.act THEN NothingToWrite
    ELSE IF snap.hold THEN Send("hold", snap.gen)
    ELSE IF snap.gen # applied THEN Send(snap.pos, snap.gen)
    ELSE IF snap.pos = "closed" /\ ~status.moving THEN Send("closed", applied)
    ELSE NothingToWrite

PollRead ==
    /\ poll = "read"
    /\ \/ \E status \in Statuses :
             /\ seen' = [conn |-> TRUE, act |-> status.act,
                         ever |-> seen.ever \/ status.act,
                         fault |-> status.fault, open |-> status.open]
             /\ out' = MotionCommand(status)
             /\ poll' = "write"
             /\ UNCHANGED polling
       \/ "modbus" \in RobotFaults /\ FailTransport /\ UNCHANGED out
    /\ UNCHANGED <<mainVars, armVars, orderVars, requestVars, snap, applied,
                   gripperVars>>

PollWrite ==
    /\ poll = "write"
    /\ applied' = out.applied
    /\ out' = NoCommand
    /\ \/ motion' = out.to /\ poll' = "top" /\ UNCHANGED <<polling, seen>>
       \/ "modbus" \in RobotFaults /\ out.write /\ FailTransport /\ UNCHANGED motion
    /\ UNCHANGED <<mainVars, armVars, orderVars, requestVars, snap, active,
                   ordered>>

PollEnds ==
    /\ poll = "top" /\ ~polling
    /\ poll' = "exited"
    /\ UNCHANGED <<mainVars, armVars, orderVars, requestVars, polling, seen,
                   snap, out, applied, gripperVars>>

\* The gripper finishes an activation that was written to it.
GripperBecomesActive ==
    /\ active = "starting"
    /\ active' = "on"
    /\ UNCHANGED <<mainVars, armVars, orderVars, requestVars, pollVars, motion,
                   ordered>>

Terminated == main = "done" /\ UNCHANGED fr3Vars

MainStep ==
    \/ OpenRobot \/ ControllerStarted \/ ControllerFailed
    \/ StartGripper \/ GripperAnswered \/ GripperSilent
    \/ MoveClosed \/ Home \/ Activate \/ Activated \/ Opened
    \/ Park \/ StopClosed \/ StopPolling \/ StopDone

LoopStep ==
    \/ EnterRecovery \/ RuntimeHold \/ BeginArmMove \/ BeginStop
    \/ \E pos \in GripperPositions : CommandGripper(pos)

ArmStep == FirstCallback \/ Callback \/ ControllerEnds
PollStep == PollTop \/ PollActivate \/ PollRead \/ PollWrite \/ PollEnds

FR3Next == MainStep \/ LoopStep \/ ArmStep \/ PollStep \/ GripperBecomesActive
        \/ Terminated

(***************************************************************************)
(* Each of the three threads is always scheduled again: the main thread's  *)
(* waits and the transport's transactions have timeouts, and libfranka     *)
(* either calls back or raises.                                            *)
(***************************************************************************)
FR3Spec ==
    /\ FR3Init
    /\ [][FR3Next]_fr3Vars
    /\ WF_fr3Vars(MainStep)
    /\ WF_fr3Vars(ArmStep)
    /\ WF_fr3Vars(PollStep)

-----------------------------------------------------------------------------
(***************************************************************************)
(* When the loop is back after a ready move, no target from before the     *)
(* move is left, neither in the controller nor pending for it, whatever    *)
(* failed in between: initialize_controller_state() starts from the        *)
(* measured pose.                                                          *)
(***************************************************************************)
NoTargetSurvivesMove ==
    main = "loop" /\ arm = "running" => target # "stale" /\ newTarget # "stale"

(***************************************************************************)
(* When nothing is pending, the arm follows the newest order the main      *)
(* thread gave: a hold is not undone by an older target the callback had   *)
(* not picked up, nor a target by an older hold (apply_pending_command()). *)
(***************************************************************************)
NewestArmOrderWins ==
    arm = "running" /\ ~newHold /\ newTarget = "none"
        => (target = "measured" <=> lastArm = "hold")

(***************************************************************************)
(* A dead thread is never taken for a quiet one: when the loop runs and    *)
(* the torque controller or the gripper's transport does not, either the   *)
(* next read reports it or the device is already in recovery.              *)
(***************************************************************************)
DeadThreadIsSeen ==
    main = "loop" /\ (arm # "running" \/ poll = "exited")
        => recovering \/ HardwareBad

(***************************************************************************)
(* A gripper that holds as ordered is not sent back to a target from       *)
(* before the hold; only a gripper that was closing goes on closing, to    *)
(* keep its grasp (the last branch of RobotiqTransport::run()).            *)
(***************************************************************************)
HoldIsNotUndone ==
    motion = "hold" /\ ~askHold /\ ordered = "hold" /\ ordered' = "hold"
        => motion' \in {"hold", "none"} \/ (motion' = "closed" /\ snap.pos = "closed")

(***************************************************************************)
(* A ready move ends, ready or in recovery: no wait of the main thread for *)
(* the other two, start_controller()'s without a timeout included, lasts   *)
(* for ever.                                                               *)
(***************************************************************************)
MoveEnds == main = "closing" ~> main = "loop"

(***************************************************************************)
(* A stop ends with both threads joined.                                   *)
(***************************************************************************)
StopEnds == main = "parking" ~> main = "done" /\ arm = "none" /\ poll = "none"

(***************************************************************************)
(* The torque callback and the gripper's thread pursue the newest order of *)
(* the main thread and nothing older, neither within normal operation nor  *)
(* across a ready move.                                                    *)
(***************************************************************************)
NewestOrderWins ==
    [][HoldIsNotUndone /\ (FR3TypeOK /\ NewestArmOrderWins /\ NoTargetSurvivesMove)']_fr3Vars
=============================================================================
