# Verification of openpi-control

openpi-control drives robot arms for teleoperation. A Python client
(`src/src/openpi_control`) starts one native process per arm
(`src/native/pi_control`, the program `pi_control_node`), sends it lifecycle
commands and targets over ZeroMQ PUB/SUB topics, and reads its state. The node
runs one control loop: read the servos, do one step of whatever the arm is
doing (start-up homing, a commanded ready move, emergency recovery, normal
operation), write the servos, publish, and handle at most one command. Below
the loop are drivers for four kinds of hardware, some with threads of their
own; above it are the client's threads, the pairing of a leader with a follower
and the session.

This project models the control loop, the drivers, the servos' safety checks,
the bring-up and the client, model-checks them with TLC, and proves their main
safety properties with TLAPS for every value of the constants.

## Inventory

| Part | State it keeps | Operations | Interacts with | Hard behaviour | What makes it correct |
|---|---|---|---|---|---|
| Control loop (`pi_control_node.cpp`) | announcement window, signal flag, bring-up stage | start, loop, error to recovery, exit | `Device::step()`, client, parent pipe | errors at any phase, signals at any stage of the start | every error is recovered from or ends the program with the motors off; READY_NOW answers the right request |
| Device lifecycle (`pi_device.cpp/.hpp`) | `move_to_ready_cmd_state_`, `emergency_state_`, request ids, heartbeats, watchdog flags | `step`, `enter_emergency_recovery`, `check_*`, `stop` | arm device, topic, main loop | two state machines sharing one ready move; two timeouts | recovery is isolated, announced once, always ends; no stale target |
| Ready move (`DeviceArm::move_to_ready_position`) | `is_ready_arm_`, `init_count_`, `reached_cnt_`, the budget, `failed_joint_ids_` | one iteration per step, PARALLEL or SEQUENTIAL | effector, recovery | joints that oscillate, stick, refuse or die | bounded, terminates, one bad joint does not stop the others |
| Arm device (`pi_device_arm*.cpp`) | joint modes, target buffers, gravity float, force feedback | `start`, `read/write_hardware_values`, `set_control_mode`, `operate_as_*`, hold, float | drivers, joints, gravity model | partial failure of bulk reads and mode switches | modes fit the lifecycle; a float ends in a hold; failed reads escalate |
| Topics (`pi_topic*.cpp`, `protocol.py`) | `is_running_`, pause flag, sockets and ports | lifecycle commands, joint streams, port probing | client, other node | lost, repeated, foreign and malformed messages; two implementations of one hash | newest payload only, every command answered, both ends meet |
| Controller driver (`pi_driver_controller.cpp`) | command cache, dirty modes, safe latch, watchdog flags | queue, flush, read, make safe, close | watchdog thread, vendor library | two threads, failing vendor calls | a command goes out in its mode; a stalled or closed arm is passive |
| CAN MIT driver (`pi_driver_can*.cpp`, `pi_servo_dm*.cpp`) | receive cache, stale and dead sets, parked set, codec ranges | enable, verify, arm, stream, park, query ranges | reception thread, servos | one socket for thread and transactions; late answers; servo-specific scales | transactions own the socket; enabled servos only; both ends read a frame alike |
| Passive encoder (`pi_servo_can_encoder.cpp`) | outstanding request, silence, back-off | configure, poll, restart | CAN bus | replies without register number, silence | configured as required, restarted once, given up in the end |
| Feetech driver (`pi_driver_ft.cpp`, `pi_servo_ft.cpp`) | dead set, read list, queued goals | register transactions, bulk read, group write, start, mode switches, park | serial line, servo firmware | lost replies, EEPROM locks, firmware that ignores a torque-off | torque only on configured servos, never on a leader's, never with a jump |
| Safe mode (`pi_servo.cpp`, `pi_safe_mode.cpp`, `pi_hold_checker.cpp`) | latches, hold checkers | one sequence of checks per read, follower slew | joints, ready moves | checks that starve others, latches that outlive their cause | each latch follows its checker; a latched joint does not drift |
| Joint layer (`pi_joint.cpp`, `pi_device_config.cpp`) | limits, wrap offset, springs | load, validate, recover turns, springs | configuration files | partial loads, lost turns, creeping joints | joints run with what their files say; springs let go of a resting arm only |
| Effectors (`pi_device_effector*.cpp`) | own ready move, buffered target, torque ramp | start, step, ready move, mode switches | arm, driver | blocked, oscillating, overheated gripper | bounded squeeze; ready moves end and say whether they failed |
| FR3 (`pi_device_fr3.cpp`, `pi_driver_fr3.cpp`, `pi_robotiq.cpp`) | pending orders of two other threads | start, step, ready move, stop | torque callback, Robotiq polling thread | three threads, each of which may die | the newest order wins; a dead thread is seen; every call ends |
| Launch (`config.py`, `native.py`, `pi_command_line_args.cpp`) | order, command line, process, pipe | validate, spawn, connect, time out, close | node | two validators, a client that dies during the start | both agree; nothing is left under power; no orphan stays |
| Client backend (`native.py`) | request ids, acks, readiness, locks, threads | connect, lifecycle commands, move to ready, close | node process, reader thread | resends, late acks, process death, close during a call | a call returns only for its own answer; close leaves nothing running |
| Teleoperation and sessions (`teleop.py`, `session.py`, `arms.py`) | engagement, rollback flag, generation, locks | engage, disengage, gain, connect, close | two backends | three threads racing for one rollback | a disengaged pair is safe; closing always ends |
| Merged URDF (`urdf_inertial.py`) | a file all clients share | prepare, reuse, replace | node's parser | concurrent clients, crashes | complete files, one inertia |
| Filters, force-feedback arithmetic, gravity numerics, logging, servo tools, JSON library | numbers, files | - | - | - | not modelled, see the end |

The hazards this code is exposed to are listed one by one, with their lines,
in `PROJECT.json` (`hazards`).

## Modules

The control loop:

* `ReadyMove` - `DeviceArm::move_to_ready_position()`. One call is one
  iteration. The pose of a joint is *home*, *lagging* or *stuck*, which is all
  the routine branches on; which commands are refused is chosen in every
  iteration; `initCount` is saturated at 1 because only `init_count_ < 1` is
  tested. The budget is a constant: the code derives it from the distance, the
  properties only need that it is positive.
* `Device` - extends `ReadyMove` with the control loop. The loop is a single
  thread, so an action is one phase of an iteration and `pc` is the phase that
  comes next:

  | phase | code | actions |
  |---|---|---|
  | start, startHold, startMove | `DeviceArm::start()`, `verify_servos_operational()` | `StartRead`, `StartHold`, `StartMove` |
  | loop | loop condition, `read_hardware_values()` | `Read`, `ExitLoop`, `Tick`, `Signal` |
  | prepare | request, recovery entry, timeout | `Prepare`, `NothingToPrepare`, `TimeOut` |
  | drive, operate | ready move, restore, `operate_as_*()` | `MoveReady`, `Restore`, `OperateAsLeader`, `OperateAsFollower`, `FloatAsFollower`, `StopRunaway` |
  | write | `write_hardware_values()`, publication | `Write` |
  | command, joints | `TopicZmq::step()` | `Heartbeat`, `StopCommand`, `PauseOrResume`, `MoveCommand`, `GravityCommand`, `ForceFeedbackCommand`, `HoldCommand`, `DropCommand`, `NoCommand`, `ReceiveJoints` |
  | watchdog, effector | client watchdog, step heartbeat, the effector's step | `KeepWatching`, `LoseClient`, `StepEffector` |
  | check | error handling and announcements of `main()` | `Check` |
  | stop | `Device::stop()` | `Stop` |

  The targets in the follower's buffers are abstracted to where they come from
  (`tele`): the constructor (*home*), the measured pose (*held*), a message of
  normal operation (*live*), a message from before or during a commanded ready
  move (*stale*). `torque` is the set of joints in torque mode. `accepted`,
  `lost` and `crossed` (a mode command has come in the middle of the ready move)
  are history variables that the properties need and no action reads; `bulk` is what the last bulk read returned, and whether it named dead
  servos.
* `RecoveryLifecycle` - what recovery promises to the client, in five variables:
  at most one recovery, one announcement of its beginning and one of its end in
  that order, no reopening, no outside target while it moves the arm.
  `Device` implements it under the mapping at `Lifecycle`.
* `DeviceProofs` - the theorems about `ReadyMove` and `Device`.

The drivers and the hardware under them; the firmware or the vendor's library
is marked external in the map and is modelled from how the code uses it:

* `DriverController` - the control thread and the stall watchdog of a
  controller arm. No lock covers a vendor call, so each one is an action of its
  own; a flush copies the cache, applies modes, clears the safe latch and
  writes in four steps the watchdog may interleave with. `VendorFaults` says
  which calls may fail.
* `FR3` - three threads. The main thread leaves orders under a mutex; the torque
  callback and the Robotiq loop take a snapshot and act on it later. Targets
  are abstracted to *measured*, *live* and *stale*.
* `CanMit` - one bus: the start-up sequence of `main()` as seen by the bus
  (enable, first read, verify, probe, arm), the command stream, the stream of a
  recovery, parking; the reception thread; the motors. The start and the recovery
  set a servo that does not answer or reports a fault aside (`failed`) and go on
  with the others; a recovery forgets who was set aside before, and does not step
  the effector. The effector is taken to have one servo, as the shipped ones do.
  The `prompt` and `excused` history variables say whether every
  answer has come in time and which motors failed by themselves.
* `Codec` - frames bit by bit, against the physical values both ends mean.
* `Feetech` - a servo operation is a script of register transactions, each of
  which may be lost and is retried; two firmwares, one of which engages torque
  on a goal write and ignores an early torque-off, as the comments of
  `pi_servo_ft.cpp` say. The operations are driven as the arm drives them: start,
  hold, ready moves with their mode switches, operation, and the emergency recovery
  that a failed step begins. How a ready move proceeds is `ReadyMove`'s subject; here
  it may end after any iteration, and the first one of the start, which the code
  makes inside `start()`, is one of them. The pings that classify dead servos may be
  lost like any other answer.
* `PassiveEncoder` - the configuration dialogue and the polling ladder.
* `Effector` - a gripper on a grid of positions, cycle by cycle, with and without a
  grip torque limit and a configured normalized range.
* `ServoChecks` - the checks of one servo in the order of
  `Servo::read_hardware_values()`, the latches, the slew, ready moves.
* `Spring` - stability anchors and spring torques of a leader.

Bring-up and topics:

* `JointConfig` - model file, individual file, validation, the turns that a
  single-turn encoder lost. Members without an initialiser hold `garbage`.
* `Launch` - one order from `ArmConfig` to a running node or an error, with the
  way out at every stage, signals and the parent pipe.
* `Ports` - the candidates computed in C++ with 32-bit arithmetic and in Python
  with unbounded integers; publishers come and go, other programs hold ports.
* `Transport` - one `TopicZmq::step()` over queues of frames of every malformation,
  for as long as the control loop calls it: the step that takes a STOP is the last.
* `MergedUrdf` - `prepare_merged_urdf()` on inodes, with crashes.

The client:

* `Client` - threads of the public arm handle, the engaging thread and the
  reader, over topics that lose, delay and repeat; the node is what `Device`
  promises (one action per control step). The cached mode starts with what the role
  is supposed to start in, and only a mode command replaces it; HOLD, a move to
  ready and the node's own watchdogs change the node's mode alone.
* `Teleop` - engage, stop and session threads on a pair whose processes may die.
  A call on an arm is one action that may fail with or without its effect.

The theorems about the drivers are in `VendorProofs` (`DriverController`, `FR3`), `CanMitProofs`,
`SerialArmProofs` (`Effector`, `Feetech`) and `ServoProofs` (`ServoChecks`, `Codec`,
`Spring`, `PassiveEncoder`); those about the bring-up in `BringUpProofs` (`Ports`,
`MergedUrdf`, `Launch`, `JointConfig`, `Transport`); those about the client and about
the pair in `PythonProofs`. `MCDeviceProofs` is about the devices of the `device` run.

The `MC...` modules instantiate these for TLC. Where one run is about several
components, a variable `unit` chooses which one a behaviour is about and the
others keep their first state; `MCDevice` and `MCDeviceLiveness` choose between
devices, given by `INSTANCE` with other constants: of `DeviceProofs` in `MCDevice`, so
that the lemmas come with the definitions. TLC keeps the value of a definition without
arguments that depends on constants only; it does so per module, so `MCDevice`
instantiates `Device` and `ReadyMove` by name as well, which makes every device have
its own values.

Definitions marked as mutant, "seeded bug" or "without/keeping ..." before the
definition they resemble are the variants that a property must reject; no
specification uses them.

## Environment and faults

In the control loop `Faults` selects what may go wrong in an instance: *read* (a servo read returns
signal loss, temperature, hardware fault or a soft code), *bulk* (the bulk read
finds dead servos or fails), *move* (a servo refuses a command), *hold* (the
hold of the start-up fails), *mode* (a serial mode switch fails after some of
the joints), *algo* (the gravity model fails), *write*, *publish*, *effector*.
Everything is chosen anew in every step. `Commands` selects what the client
sends; commands are lost (`NoCommand` is always possible) and repeated
(`MoveCommand` may carry the id of the last request again).

Controller arms refuse a position command for a joint in torque mode and a
torque for a joint in position mode, as `DriverController` does; CAN arms have
no modes; serial arms switch joint by joint.

The other modules name their faults the same way: `VendorFaults` and
`RobotFaults` (vendor calls, Modbus, gripper), `LineFaults` (lost replies, pulled
plugs, failed transmissions), `Faults` of `CanMit` (busy sends, overheating, pulled
plugs, receive errors, faults). `MaxFaults` bounds how many happen in one
behaviour. Topics lose, repeat and delay by choice in every step; processes,
clients and threads may end at any step.

## Runs

A property that gathers several parts is the conjunction of named definitions,
each with its own comment in the module; the type invariant of a component is
among the parts.

| run | instance | shows |
|---|---|---|
| `device` | a CAN follower with `--dont_go_to_home_pos` under read, bulk-read, command and hold failures; a serial follower homed joint by joint with failing bulk reads, mode switches, writes and effector; a healthy floating follower and a healthy leader with gripper, both behind a whole-arm controller and with mode commands at any time, in the middle of ready moves too | `DeviceTypeOK`, `MoveIsBounded`, `RecoveryIsolated`, `NoStaleTarget`, `ReadyAnnouncement`; `FaultsAreOwned` (a read that found a servo dead escalates on CAN and serial arms, only lost joints are set aside); `ArmsMoveAsOrdered` (modes and float flag agree, a move that no mode command crosses keeps its mode, a healthy arm recovers in three named cases only, a homed leader floats); `FollowsLifecycle`; `FloatEndsInHold` |
| `device_liveness` | a follower with failing commands and gravity model, a leader with a failing gripper, the homing routine alone, in PARALLEL mode with 2 joints and in SEQUENTIAL mode with 3 | `RecoveryTearsDown`; `ClientIsServed` (moves end, move-and-stop stops, silence is noticed); `RoutineTerminates`; `RoutineOutlastsRefusals` (a joint that refuses fails at most one call, and the others get home) |
| `can_bus` | 2 servos, one ENCOS, one of them the effector's; busy, hot, unplug, rx, fault | `ReaderIsAlone`, `StreamStartsEnabled`, `AnsweringServoIsAlive`, `OffStaysOff`, `BusEnds` |
| `vendor` | a controller with arm joint and gripper; an FR3 with Robotiq; all vendor faults | `ControllerIsSafe`, `NewestOrderWins`, `FailureIsSeen`, `VendorCallsEnd` |
| `serial_arm` | 2 Feetech servos, both roles and firmwares, one fault; grippers with travel 3 | `TorqueIsOrderly`, `LossIsSurvived`, `GripperIsTame`, `ReadyMoveIsClean` |
| `servo` | a joint on 0..4; an encoder with every EEPROM layout; frames of both servo kinds; a leader with 2 sprung joints | `SafeModeIsSound`, `EncoderIsKept`, `BothEndsAgree`, `SpringsLetGo` |
| `python` | an arm with one application thread, one engaging thread, one reconnection, both roles; a pair with three threads, crashes | `AnswersAreOwn`, `NodeAsBelieved`, `PairIsSafe`, `CallsEnd` |
| `bring_up` | every model and individual file that differs in one field; every order that differs in one field; two topics; two clients of the URDF cache | `LoadedAsWritten`, `PowerAsOrdered`, `LaunchEnds`, `Reachable`, `TopicsKeepOrder`, `InertiaOnce` |

Disagreements between the code and what its comments say; each is a run that
TLC must find violated, and a finding in `PROJECT.json` that quotes the comment:

| run | property | what happens |
|---|---|---|
| `leader_no_homing` | `LeaderFloats` | with `--dont_go_to_home_pos` a leader never gets its torque mode |
| `servo_home` | `HoldsAfterMove` | a position-behind latch survives a ready move with its old anchor, and the first step after the move drives the joint back there |
| `urdf_race` | `NeverTruncated` | two clients share one temporary file, and one publishes what the other has just truncated |
| `gain_race` | `DisengageDisengages` | the rollback of a rejected gain expects no engagement generation: when another thread has disengaged and engaged again meanwhile, it consumes the rollback flag of the new alignment, which goes on to be engaged, and the next `disengage()` returns without disengaging |

### Other differences

Met while modelling, and not kept as runs. Of the control loop:

* In SEQUENTIAL mode nothing completes a recovery, and the node stays up
  (`pi_device_arm.cpp:1669`; `pi_device.hpp:323-324`: "When recovery completes (or
  times out), the main loop tears the device down via the normal ``stop()``
  path."). `RecoveryTearsDown` fails with `MovingMode = "SEQUENTIAL"`.
* On serial and controller arms a failed bulk read that names no dead servo is
  reset to success and the step goes on with the cached values
  (`pi_device_arm.cpp:358-359`), against the comment at 529-530: "if the bulk read
  failed, propagate that failure". `StaleReadEscalates` is therefore about reads that
  found a servo dead; with `bulk # "good"` in its place it fails on the serial
  follower of the `device` run. And a starting or recovering arm all of whose joints
  are written off logs "all joints failed to read; propagating error" (lines 507-511)
  and returns the code it began with, which is success.
* A CAN arm floats again after a ready move (`pi_device_arm_can.cpp:14`;
  `pi_device.hpp:662-663`: "HOLD or any move-to-ready path also re-engages position
  control").
* An effector's signal loss sets aside the arm joint of an earlier error, since
  `last_failed_joint_id_` is never cleared (`pi_device_arm.cpp:1182`;
  `pi_device.cpp:705-706`).
* In PARALLEL mode the refusal of the last responsive joint is returned by the whole
  routine, the refusal of any other one is not (`LastRefuses`;
  `pi_device_arm.cpp:1472-1488`, "Keep working on the remaining joints regardless of
  recovery state"): a step fails, and a recovery begins, depending on which joint it
  was. What both modes do guarantee is `RefusalsRunOut`: a joint fails one call at
  most.
* `enter_emergency_recovery()` clears `failed_joint_ids_` (`pi_device.cpp:721`): joints
  that the start had set aside are read and commanded again.
* In SEQUENTIAL mode a joint that arrives hands its partly used budget to the
  next one (`DriveJoint` sets `initCount' = 1`; `pi_device_arm.cpp:1596-1597` says
  "budget re-initialises per joint"). `MoveIsBounded` and `HomingTerminates` hold
  all the same.
* Gravity-compensation and force-feedback commands are not gated during a
  commanded ready move (`GravityCommand`; `pi_topic.cpp:181`). One that crosses a
  move takes joints out of the mode that the move relies on: behind a whole-arm
  controller the next position is refused (`pi_driver_controller.cpp:281`) and a
  healthy arm goes into emergency recovery. `OverrideHeld` and `HealthyArmStaysUp` say
  so (`crossed`), and say that nothing else does it but the next two.
* Force feedback on a leader behind a whole-arm controller sends positions to
  joints in torque mode as soon as the follower is heard
  (`pi_device_arm.cpp:1765-1795`), which ends in recovery as well.
* A leader behind a whole-arm controller whose start-up move was skipped is never put
  into torque mode (`leader_no_homing`), and its first torques are refused.
* A stop-run request during recovery does not clear `slow_move_active_`
  (`RequestMoveToReady` leaves `slow`), although `pi_topic.cpp:92-95` speaks of a
  normal-speed move.
* RESUME clears the pause of a tripped client watchdog without a heartbeat
  (`PauseOrResume` leaves `tripped`; `pi_device.hpp:865-868`).

Of the drivers and servos:

* `group_write_hardware_values()` tests `watchdog_tripped_` at line 172 and writes
  later: a flush that is under way when the watchdog idles the arm commands it
  once more.
* The last branch of `RobotiqTransport::run()` (`pi_robotiq.cpp:190`) goes on
  closing after a hold, a hold is dropped while the gripper is not activated,
  and `stop()` gives the hold 50 ms where a Modbus transaction may take 200.
* A status frame of a DM servo whose payload reads like an acknowledgement is
  not counted as an answer (`pi_servo_dm.cpp:491`, fault "alias" of `CanMit`), the
  acknowledgement of a control-mode write is taken for that of a disable, and
  the two staleness limits are documented the other way round
  (`pi_driver_can_mit.hpp:409-411`: "start-up, longer tolerance", which is the
  shorter one). The torque scale that an
  ENCOS servo reports is noted but not adopted.
* The torque-off of a parked Feetech servo follows a goal write at once and is
  not read back (`pi_servo_ft.cpp:184`), although the HX firmware "ACKs but ignores a
  torque-off that arrives right after a torque-on / goal write" (lines 22-24).
* A mode switch of a serial arm that fails is reported, and the arm goes on in
  whatever modes its servos are left in (`pi_device.cpp:115-119`, `262-266`): the
  leader's servos from the failing one on may hold torque, and an EEPROM may stay
  unlocked (`settled` in `LeaderIsLimp` and `Configured`). A living servo whose pings
  are lost is taken for dead and stays so (`pi_driver_ft.cpp:463-470`), which ends
  the operation.
* The position latch returns before the velocity and torque checks and starves
  them; `HoldChecker` keeps its counts when it leaves a hold, so that the next hold
  may be left after one sample, where `tests/test_hold_checker.cpp:23` says "Exit
  hysteresis is 100 consecutive false conditions"; `is_temperature_` is never set.
* The compat mode of the passive encoder takes a lost high byte for a missing
  one (`~guessed` in `StartedAsRequired`).
* "Connecting is passive: the arm holds its measured pose and the gripper is not
  activated" (`docs/fr3.md:50`), but `applied_generation` starts at `UINT64_MAX`
  (`pi_robotiq.cpp:115`): a Robotiq gripper still activated from an earlier
  session is sent the default target by the first poll.
* A gripper whose read fails is reported at 0 (`pi_device_effector.cpp:632-636`),
  a HOLD does not rebase its buffer, and its buffers start at 0 (line 551) where a
  comment says that "the buffers default to home" (line 1004).
* With `spring_constant` 0 a configured spring force divides by zero
  (`pi_joint.cpp:449`).

Of bring-up and client:

* Fields of `Joint` and `Servo` without an initialiser are used when neither file
  sets them (`pi_joint.cpp:275`, `pi_servo.hpp:82-83`); a mistyped optional field
  counts as absent; a negative `torq_rescale` is refused in the individual file
  only.
* SIGTERM is honoured in the loop only, so a client that closes during a slow
  start ends it with SIGKILL under power (`killed` in `NoTorqueLeftBehind`).
  `torq_rescale` is ignored on an FR3, and Python accepts a handle on a follower
  that the node refuses.
* The C++ and Python port sums wrap differently (`pi_topic_zmq.cpp:725`,
  `protocol.py:103`) for hashes near 2^32; `Reachable` holds where they agree on a
  candidate. A newest payload with a wrong count discards the valid ones before
  it.
* Request ids restart with each connection, so a call that was waiting across a
  reconnection may be answered for another (`straddled` in `AckIsOwn`);
  heartbeats stop while `_send_lifecycle()` holds the lock.
* `hold()` and `move_to_ready()` do not replace the cached mode
  (`native.py:1066-1067`), although `enter_gravity_compensation()` says that either
  "re-engages" position control (`arms.py:149-150`): after a float and a hold the
  client still reports the float. A leader's first sample carries the gravity
  compensation mode without the node having said so (`native.py:759-765`).
  `ModeAsCommanded` is about what is left (`agreed`): the time from a mode change that
  succeeded to the next hold, move, clean-up or change by the node itself.
* The connection's generation is checked (`arms.py:105`) before a command is
  dispatched, and may change in between.

### Bounds

Two joints give a first and a last joint, an innocent and a guilty one, and a
partial mode switch; three are used where the order of a sequence matters. A
budget of 2 or 3 and a confirmation count of 1 or 2 let a move end by arrival,
by exhaustion, and by arrival after the budget has run out (which `MoveIsBounded`
is about). `MaxMoves = 2` ready moves allow one to supersede, repeat or follow
another. `AnnounceLoops = AnnounceInterval = 2` give a first announcement, and a
loop without one. Ages are saturated at their timeout, so a timeout of one tick
already separates early from late; the `device_liveness` run uses 2 so that a recovery
may also finish in time. The theorems do not depend on any of these bounds.

Two servos on a bus give a slow and a prompt neighbour; `MaxFaults` is 1 where the
state space allows no more (the serial arm and the CAN bus), because every fault
can happen at every step; the safety theorems are for any number of faults. On the
CAN bus `InitialAge = 0` and `NormalAge = 1` keep the two limits apart with the
fewest ages. Two attempts distinguish the first, the last and none.
The grippers' grid of four positions holds both ends, a middle and a blocked
place; the joint's 0..4 has room outside its limits 0..2 and further behind than
the allowed difference of 1. Files and orders are varied one field at a time
from a plain one, in each of the two files, because the checks look at fields
one by one or at the pairs that are varied together. Port hashes are chosen so
that candidates collide, wrap and coincide. `Capacity = 1` makes a topic lose
every second message, one reconnection suffices for ids to be used twice.

### Fairness

`DeviceSpec` assumes weak fairness of the control loop: sockets are polled
without blocking and bus transactions have timeouts, so an iteration always
ends. It assumes strong fairness of `Tick`: infinitely many iterations take an
infinite time, so a timeout that is watched again and again is reached. Nothing
is assumed of the client, of signals or of the hardware, which may fail for
ever. `Spec` of `ReadyMove` assumes that homing iterations go on and that the
gravity model does not fail for ever. In `device_liveness` the leader's gripper
gets ready in the end, which is what `ReadyMoveEnds`, checked in `serial_arm`, says
of `Effector`.

In the other modules every thread of the program is weakly fair: operating
system threads are scheduled, and every wait in them has a timeout or is for a
thread that is fair itself. `Feetech` is strongly fair to the end of a ready move
(`MoveEnds`), which the budget brings about (`RoutineTerminates`), and `CanMit` to the
end of a recovery (`RecoveryEnds`), which is `RecoveryTearsDown` of `device_liveness`;
`Teleop` is strongly fair to the session's thread, whose
lock requests compete with threads that release and take the lock again. `Transport`
is fair to the topic's step while the loop runs only: what is still queued after a
STOP stays unanswered. No
fairness is assumed of faults, of callers, of the operator or of messages.

## Proofs

The theorems hold for every value of the constants that the named assumptions
admit; TLC evaluates these assumptions in every run. An invariant that a run checks
is seldom inductive; each proof strengthens it, the strengthening was checked with
TLC before it was proved, and one lemma shows that one action preserves it.

**Ready move** (`DeviceProofs`): `MoveTypes` (`TypeOK`) and `MoveBounded`
(`MoveIsBounded`). The invariant is `MoveInv == TypeOK /\ BudgetPaced`, where
`BudgetPaced` says that, while a move runs, the arrival is not yet confirmed and the
budget used never exceeds `Budget + reachedCnt` in PARALLEL mode, and never `Budget`
in SEQUENTIAL mode: in PARALLEL mode a move survives the exhaustion of its budget
only by confirming its arrival, and every such iteration counts a confirmation; in
SEQUENTIAL mode exhaustion itself ends the joint's turn.

**Control loop** (`DeviceProofs`), for every role, arm type, set of faults and commands:

* `DeviceTypes`, `IsolatedRecovery`, `NoStaleTargets`, and `LifecycleRefinement`:
  the control loop implements `RecoveryLifecycle`. The invariant `DeviceInv` is the
  conjunction of the homing invariant, the types, `RecoveryIsolated`, `NoStaleTarget`
  and `RecoveryBegins`: a requested recovery is seen only between the error check
  and the next `prepare` phase, so no message can be handled before the buffers
  are cleared. The refinement uses it: an action that does not change `em` maps to
  `Drive`, `Close` or a stutter (`PhaseOfLifecycle`, `SamePhaseStep`); `ArmStep`,
  `GoHomeStep` and `FinishStep` treat the three that do.
* `ReadyAnnouncements`: both request ids name the newest request or none
  (`AnnounceInv`).
* `OnlyLostJoints`, where the effector does not fail and a controller's writes do
  not: the failure of an effector, and of a controller's write, carries the
  no-response code too and is put down to whichever joint was recorded last. The
  invariant `BlameInv` says that such an error that reaches `main()` names a lost joint.
* `FloatsEndInHold`, except for a controller's arm that homes at the start: a float
  that it enters while it is still homing ends with that move, not in a hold.
* `HealthyArms` (`HealthyArmStaysUp`), for every arm and role and any mode commands. A
  failed step of a healthy arm has one of the three causes of `SelfInflicted`, and the
  cause lasts until the recovery moves (`HealthyInv`, `StepsByPhase`, `RecoveryGoesOn`).
  Otherwise what is commanded fits the modes (`CommandsFit`), because a follower's modes
  follow its float flag and a leader that is homed at the start operates in torque mode
  (`FitInv`), and a move that was not crossed has position mode (`OverrideInv`).
* `StaleReadsEscalate`, without hypotheses: once a servo is named dead, the scan of the
  CAN driver, or the test for dead servos of the others, makes the step fail.
* `FloatsMatchModes` (controller, which switches all joints or none).
* `SkipsStaySkipped`, without hypotheses, from `SkipTarget`: with `--dont_go_to_home_pos`
  the target is not the home pose once the device is ready or moves for another reason.
* `RecoveriesAreHeld` and `OverridesAreHeld`: the joints that a recovery, or a commanded
  ready move that no mode command crosses, drives are position controlled. A requested
  move is taken up before the loop drives the arm again (`CommandBegins`) and from then
  on no joint is in torque mode until a mode command crosses the move (`OverrideInv`,
  `CrossedSteps`), if mode switches do not fail half-way (`ModesAreSure`: every arm but a
  serial one). In a recovery no command can do so.
* `LeadersFloat`: a leader that is homed at the start, and reads and holds every joint
  there, operates in torque mode only (`LeaderInv`). The first iteration of its move
  switches no modes, so the arm must not be ready by then (`StartFresh`).

`MCDeviceProofs` joins these as the `device` run does: `OwnedFaults` (`FaultsAreOwned`)
and `OrderedMoves` (`ArmsMoveAsOrdered`), for every number of joints, budget and timeout.
The hypotheses above remain for the device that the constants describe; the other three
meet them by the constants they are instantiated with, if arrivals are confirmed
(`ConfirmCount # 0`). The floating follower and the leader take mode commands at any time
(`HealthyOrdered`). A behaviour is about one device: `OwnedUnit` and `OrderedUnit` are the
invariants of the one that was chosen.

**Whole-arm controller** (`VendorProofs`): `ControllerSafety`
(`ControllerIsSafe`), for every number of joints, stall limit and set of failing
vendor calls. `ControllerInv` adds what each thread still owes at each of its steps
(`Threads`), that the lock is held only across the steps between which the code holds
it, and that queue, flush and vendor follow the modes (`ModesAgree`) unless the
watchdog has tripped.

**FR3** (`VendorProofs`): `NewestOrders` (`NewestOrderWins`) and `DeadThreadsAreSeen`
(`DeadThreadIsSeen`, the safety part of `FailureIsSeen`), for every number of targets
and ready moves and every set of robot faults. `FR3Inv` says that at most one order is
pending for the arm and that it is the newest, with targets from before a move only
until the controller starts again (`ArmOrders`); that what the gripper's thread writes
follows from the copy of the requests it took (`Decided`); that a hold it has taken up
stands for the newest generation (`HoldStands`), which is why a late write does not
undo it; and that neither thread ends without a trace (`ControllerRuns`,
`TransportInv`).

**CAN bus** (`CanMitProofs`): `ReaderAlone` is inductive by itself;
`SwitchedOffStaysOff` (`OffStaysOff`) needs `CanInv`: which servos a teardown has been
through (`ParkInv`) and which motor states a disabled motor can be in (`OffInv`).
`BusTypeSafety` are the types. `StreamStarts` (`StreamStartsEnabled`) needs `StartInv`:
what each stage has established for a servo that did not fail by itself. A servo that
waits for its handshake has no answer in the buffer that says it is enabled
(`NoneOn`), so the answer a handshake believes is from that handshake; no window
passes within an exchange, and the exchange closes the window, so the motor is still
enabled when the next stage counts on it; and the pass that arms the windows wakes
each DM servo before it writes (`Woken`). `AnsweringServos` (`AnsweringServoIsAlive`) holds
where the socket buffers a frame of every servo (`Capacity >= NumServos`), a status of the
previous tick is not stale yet (`NormalAge >= 1`) and no status looks like a register ack.
Its invariant `AliveInv` says that a scan that found no servo dead has heard of every one
(`AllSeen`), that before the stream no cached status has aged (`NoTickYet`), and that in the
stream every status is fresh or a round is under way (`InTime`). In a round, as long as some
servo has heard nothing in a window, the frames in the buffer are of different servos
(`OnePerServo`), so the first answer of a servo in a window is never dropped; a servo
commanded since the last tick has a fresh status or an answer in the buffer; and the
servos still to be commanded come next in the order of the stream (`Round`, `Between`).

**Serial arm** (`SerialArmProofs`): `TameGripper` (`GripperIsTame`) from `GripInv`;
`CleanReadyMoves`, the safety part of `ReadyMoveIsClean`, with `LeadInv` (the target of a
moving gripper lies between it and the ready position) and `OriginInv`. `GripperIsTame` is
for grippers of every configuration; its bound on position commands is that of the
grip limit and speaks of grippers that have one.
`OrderlyTorque` (`TorqueIsOrderly`) is from `FeetechInv`, which says what the
transactions of a script done so far have left in the servo's registers, for both
firmwares, and what a start or a switch that completed has left (`SettledInv`).
`SeeingOperation` and `HealthyLines` are the safety part of `LossIsSurvived`, the second
from `HealthInv`: on a line without a fault every servo is connected, polled and
answers.

**Servos** (`ServoProofs`): `EndsAgree` (`BothEndsAgree`): packing and unpacking are
inverse for every 16, 12 and 9 bit field (`TwoBytes`, `SharedNibbles`, `EncosGains`),
and what is queried is what was registered; `SoundSafeMode` (`SafeModeIsSound`) from
`SafeInv`: every checker's counter is in range, the latch agrees with its checker, and
the target is never further from the anchor than the step before; `SpringSafety`
and `EncoderSafety`, the safety parts of `SpringsLetGo` and `EncoderIsKept`.

**Bring-up** (`BringUpProofs`): `PublishersAreReachable` (`Reachable`): what a publisher
has bound is always one of its candidates, and the C++ and the Python candidates are
the same; `OwnInertia` (`InertiaOnce`, `NeverTruncated`), if the clients of one effector
prepare its file one after the other, which the run `urdf_race` shows to be
necessary; `PoweredAsTheOrderSays` (`PowerAsOrdered`), from what is known at each stage
of a launch (`StageInv`).

`ConfigAsWritten` (`LoadedAsWritten`) is for every pair of files. `ConfigInv` gives what is
loaded at each stage in closed form, entry by entry (`LoadedSoFar`), and says that every
entry read so far was accepted (`OverriddenSoFar`); the rest is about one joint's two
entries (`OverriddenJointTypes`, `OverriddenServoTypes`) and about arithmetic: an accepted
wrap period exceeds the range of the joint, so for a joint within its limits the one
number of turns that brings the reading back is the number that was lost (`Quotient`,
`LostTurnsFound`).

`TopicsInOrder` is the safety part of `TopicsKeepOrder`. In `TransportInv`, the last good
frame on a socket is the newest that was delivered (`NewestDelivered`), so that whatever
malformed frames lie behind it the drain takes that one or none; commands wait in the
order of their ids behind all that were answered (`Waiting`); and a follower that listens
has acknowledged a resume and no pause since (`Resumed`).

**Client** (`PythonProofs`): `OwnAnswers` (`AnswersAreOwn`) and `TrueBeliefs`
(`NodeAsBelieved`), for any number of threads, requests, connections and queued
messages. `ClientInv` rests on four facts. A caller in a call holds the handle, so at
most one has an id (`CallInv`). The callers' commands are queued in the order of their
ids and none is newer than the call in progress (`OrderInv`); pauses, which are sent
under no lock of the handle, are exempt, and change nothing that is ordered. The
moves the node has completed, is at, and has yet to make are therefore in the order
of their ids as well, and READY is announced for none but a completed one
(`ReadyInv`), so that READY with the pending id means that move. And while no call of
an earlier connection is under way an id stands for one call and its command
(`OwnInv`), so that once the call in progress is acknowledged, only copies of it are
left in the queue, which keep the mode (`ModeInv`), until a hold, a move, a clean-up or
the node itself changes the mode behind the cached one (`agreed`).

**Teleoperation** (`PythonProofs`): `BlockedStaysBlocked` (`BlockedMeansBlocked`), for
every behaviour of the model, and `SafePair` (`PairIsSafe`), for every behaviour too: the
race of a rejected gain with a new engagement is among them, and the engagement whose
alignment met the late rollback (`overtaken`) is the one exception that the property
makes, which the run `gain_race` shows to be necessary. The invariant `PairInv` says who owns what: the cleanup lock
belongs to one rollback or to `_enable()` (`LockInv`); blocked engagement stays
cancelled, since `_begin_engage()` alone clears `_align_cancel` (`BlockInv`); a rollback
that waits while an engagement is admitted is of an older generation, has cancelled it
or is that of a rejected gain (`OrderedRollbacks`); unless the last has met it, then, an engagement whose `_needs_rollback` was consumed sees
the cancellation before it enables anything (`OwnedEngagement`); and an arm that is
not in its safe state is the one the engagement recorded (`Recorded`) and has a
rollback due, a leg of one ahead of it, or a cancelled alignment about to ask for one
(`Attended`). The last case is why `PairIsSafe` alone is not inductive: `command()` does
not look at the cancellation, and may set the follower in motion behind a rollback.

### Assumptions that the proofs need

Beyond the sizes being positive: `NoOne` is not a thread (`UsersAssumption`); the
travel of a gripper fits the range of its servo (`TravelAssumption`); ranges of
registers are pairs of 16 bit numbers (`CodecAssumption`); spring types and orders are
those the loaders let through (`SpringAssumption`, `LaunchAssumption`); the start-up
timeout of an encoder, 1.5 s, is shorter than its failure time, 20 s
(`TimeAssumption`); 0 is no inode (`UrdfAssumption`); a configuration file is a sequence
of entries whose fields are integers (`JointConfigAssumption`); the units of a run are
those it defines (`UnitsAssumption`).

Definitions by cases are written so that the cases exclude each other, or as
IF-ELSE where the code tests them in order: overlapping guards of a CASE leave its
value open.

### Only model-checked

Everything under fairness, which is out of the prover's reach: `RecoveryTearsDown`,
`ClientIsServed`, `RoutineTerminates`, `RoutineOutlastsRefusals`, `BusEnds`,
`VendorCallsEnd`, `CallsEnd`, `LaunchEnds`, and the liveness in `FailureIsSeen`, `LossIsSurvived`, `ReadyMoveIsClean`,
`EncoderIsKept`, `SpringsLetGo` and `TopicsKeepOrder`. Every invariant and every action
property that a passing run checks is proved, under the hypotheses named above.

## Not modelled

* Filters, force-feedback and current-estimation arithmetic, the rigid-body
  algorithms: floating-point formulas without control state.
* The JSON library is vendored and half of the repository's lines; the models
  see which fields are present and of the right type (`JointConfig`).
* The Python servo tools (discovery and configuration on the command line) and
  logging: sequential I/O of one process.
* Byte protocols below a transaction (serial packets, Modbus): a transaction is
  its outcome. Object lifetimes: the reception thread is joined after the members
  of its driver are destroyed when `close()` was not called
  (`pi_driver_can_mit.cpp:73`), which no path of `main()` does.
* In the control loop: the values of positions, torques and speeds, progress and
  handshake publications, the joystick topic, a disabled recovery timeout
  (`emergency_shutdown_timeout_ms <= 0`). A failing `start_hardware()` is merged with
  a failing first read: both end the program before the loop. `TIMED_OUT` is not a
  state of its own, since the code leaves it within the step that enters it.
* The components marked "partly" in `PROJECT.json` say in their note what is left
  out of them.

## Plan

The modules, the runs and the proofs are those that the plan had. What is left is in
"Only model-checked" and "Not modelled"; both are limits of the tools or of the
abstraction, not steps still to be taken.
