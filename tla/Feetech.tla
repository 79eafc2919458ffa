------------------------------- MODULE Feetech -------------------------------
(***************************************************************************)
(* An arm of FeeTech servos on one serial line: DriverFt's register        *)
(* transactions, bulk reads and group writes, and the servo operations of  *)
(* ServoFt built from them (start, switch to leader, switch to follower,   *)
(* park), driven as the arm device drives them: by its start, its ready    *)
(* moves, its operation and the emergency recovery that a failed step      *)
(* begins.  How a ready move proceeds is ReadyMove.tla's subject; here it  *)
(* may end after any iteration.  The firmware is external and modelled     *)
(* from how the code uses it.  The HX firmware of SO-ARM101 kits has the   *)
(* two habits the comments of pi_servo_ft.cpp describe: a goal write       *)
(* engages torque, and a torque-off that arrives soon after a torque-on or *)
(* a goal write is acknowledged and ignored.                               *)
(***************************************************************************)
EXTENDS Naturals, Sequences

CONSTANTS
    NumServos,   \* servos on the line
    Roles,       \* roles of the arm
    Firmwares,   \* firmwares of the servos
    Attempts,    \* FT_TORQUE_DISABLE_MAX_ATTEMPTS
    LineFaults,      \* "lost", "unplug", "tx"
    MaxFaults    \* bound on the faults of a run

Servos == 1 .. NumServos

ASSUME NumServosAssumption == NumServos \in Nat \ {0}
ASSUME RolesAssumption == Roles \subseteq {"leader", "follower"} /\ Roles # {}
ASSUME FirmwaresAssumption == Firmwares \subseteq {"plain", "hx"} /\ Firmwares # {}
ASSUME AttemptsAssumption == Attempts \in Nat \ {0} /\ MaxFaults \in Nat
ASSUME LineFaultsAssumption == LineFaults \subseteq {"lost", "unplug", "tx"}

\* Two positions are enough to tell "where it is" from "somewhere else".
ServoPositions == {0, 1}
Ready == 0

VARIABLES
    role,     \* Device::role_
    firmware, \* of every servo
    phase,    \* what the arm is doing
    place,    \* "read", "move", "operate", "write" of a cycle, or "servo" in a servo operation
    why,      \* what a ready move is for: "startup" (IDLE), "command" or "recovery"
    cur,      \* the servo whose operation runs
    step,     \* position in the operation's script
    tries,    \* attempts of the verified torque disable
    rc,       \* write_result of the EEPROM write in progress
    present,  \* the position a script has read
    servo,    \* the registers of the servos
    cached,   \* pres_pos_
    pending,  \* pending_goal_position_
    dead,     \* dead_servo_ids_
    polled,   \* sync_read_ids_
    parked,   \* parked_
    settled,  \* servos that the last start or mode switch has completed (history)
    faults    \* faults so far (bounded by MaxFaults)

lineVars == <<cached, pending, dead, polled>>
opVars == <<cur, step, tries, rc, present>>
feetechVars == <<role, firmware, phase, place, why, cur, step, tries, rc, present, servo, cached,
          pending, dead, polled, parked, settled, faults>>

\* "override" is the mode switch before a ready move, "normal" the one after
\* it; "hold" is the cycle of start() that holds the arm where it is, "restore"
\* the one after a commanded move, "recover" the first of a recovery and
\* "leave" the last.
Scripted == {"start", "override", "normal", "park"}
Cyclic == {"hold", "home", "run", "restore", "recover", "leave"}
Phases == Scripted \cup Cyclic \cup {"open", "closed"}

Recovering == why = "recovery"

Goals == UNION {[D -> ServoPositions] : D \in SUBSET Servos}
NoGoals == [s \in {} |-> Ready]

FeetechTypeOK ==
    /\ role \in Roles /\ firmware \in Firmwares
    /\ phase \in Phases
    /\ place \in {"read", "move", "operate", "write", "servo"}
    /\ why \in {"startup", "command", "recovery"}
    /\ cur \in 1 .. NumServos + 1
    /\ step \in 1 .. 12
    /\ tries \in 1 .. Attempts
    /\ rc \in {"SUCCESS", "FAIL"}
    /\ present \in ServoPositions
    /\ servo \in [Servos -> [torque : BOOLEAN, goal : ServoPositions, pos : ServoPositions,
                             positionMode : BOOLEAN, locked : BOOLEAN,
                             recent : BOOLEAN, plugged : BOOLEAN]]
    /\ cached \in [Servos -> ServoPositions]
    /\ pending \in Goals
    /\ dead \subseteq Servos /\ polled \subseteq Servos
    /\ parked \subseteq Servos /\ settled \subseteq Servos
    /\ faults \in 0 .. MaxFaults

\* The registers a servo may have when the program starts, as an earlier
\* program left them.
FirstServos ==
    [torque : BOOLEAN, goal : ServoPositions, pos : ServoPositions,
     positionMode : BOOLEAN, locked : {TRUE}, recent : {FALSE}, plugged : {TRUE}]

FeetechInit ==
    /\ role \in Roles /\ firmware \in Firmwares
    /\ phase = "open" /\ place = "read" /\ why = "startup"
    /\ cur = 1 /\ step = 1 /\ tries = 1 /\ rc = "SUCCESS" /\ present = Ready
    /\ \E first \in FirstServos : servo = [s \in Servos |-> first]
    /\ cached = [s \in Servos |-> Ready]
    /\ pending = NoGoals
    /\ dead = {} /\ polled = Servos
    /\ parked = {} /\ settled = {} /\ faults = 0

(***************************************************************************)
(* The firmware: the register writes a servo may see.                      *)
(***************************************************************************)

Strikes(fault) ==
    /\ fault \in LineFaults /\ faults < MaxFaults
    /\ faults' = faults + 1

WriteGoal(v, position) ==
    [v EXCEPT !.goal = position,
              !.torque = (@ \/ firmware = "hx"),
              !.recent = (firmware = "hx")]

\* The values a register write can leave behind.
Effects(s, register) ==
    LET v == servo[s]
    IN CASE register = "on" -> {[v EXCEPT !.torque = TRUE, !.recent = (firmware = "hx")]}
         [] register = "off" -> {[v EXCEPT !.torque = FALSE]}
                                \cup (IF v.recent THEN {v} ELSE {})
         [] register = "unlock" -> {[v EXCEPT !.locked = FALSE]}
         [] register = "lock" -> {[v EXCEPT !.locked = TRUE]}
         [] register = "mode" -> {[v EXCEPT !.positionMode = (@ \/ ~v.locked)]}
         [] register = "goal" -> {WriteGoal(v, present)}
         [] register = "goalCached" -> {WriteGoal(v, cached[s])}
         [] OTHER -> {v}

\* txrx_instruction(): three attempts.  The answer of a connected servo comes,
\* or all of them are lost and the register may have been written or not.
Answered(s, register) ==
    /\ servo[s].plugged
    /\ \E v \in Effects(s, register) : servo' = [servo EXCEPT ![s] = v]
    /\ UNCHANGED faults

NoAnswer(s, register) ==
    \/ /\ ~servo[s].plugged
       /\ UNCHANGED <<servo, faults>>
    \/ /\ servo[s].plugged
       /\ Strikes("lost")
       /\ \E v \in Effects(s, register) \cup {servo[s]} : servo' = [servo EXCEPT ![s] = v]

(***************************************************************************)
(* Servo operations: scripts of register accesses.  "gains" stands for the *)
(* three gain registers, which are EEPROM like the operating mode.         *)
(***************************************************************************)

ToPosition == <<"off", "unlock", "mode", "lock", "getpos", "goal", "on">>

Script ==
    CASE phase = "start" -> <<"off", "unlock", "mode", "lock", "unlock", "gains", "lock",
                              "accel", "getpos", "goal", "on">>
      [] phase = "override" -> ToPosition
      [] phase = "normal" /\ role = "follower" -> ToPosition
      [] phase = "normal" /\ role = "leader" -> <<"off", "get">>
      [] phase = "park" -> <<"goalCached", "off">>

Register == Script[step]

AtFirst == cur' = 1 /\ step' = 1 /\ tries' = 1 /\ rc' = "SUCCESS" /\ present' = Ready

\* An operation on every servo in turn.
Begin(next) ==
    /\ phase' = next /\ place' = "servo" /\ AtFirst
    /\ settled' = {}

\* A place in a cycle of the control loop.
BusCycle(next, at) == phase' = next /\ place' = at /\ AtFirst /\ UNCHANGED settled

\* Mutant: the queued targets are kept.
KeepQueued(s) == pending

Discard(s) == [t \in DOMAIN pending \ {s} |-> pending[t]]

NextServo(done) ==
    /\ cur' = cur + 1 /\ step' = 1 /\ tries' = 1 /\ rc' = "SUCCESS" /\ present' = Ready
    /\ settled' = settled \cup done
    /\ UNCHANGED <<phase, place, why>>

\* set_control_mode() has returned, with whatever result: step() reports an
\* error and goes on.  The ready move follows the override, the write the
\* switch after the start-up's move and the operation the one after a
\* commanded move.
AfterSwitch ==
    CASE phase = "override" -> BusCycle("home", "move") /\ UNCHANGED why
      [] phase = "normal" /\ why = "command" -> BusCycle("run", "operate") /\ why' = "startup"
      [] OTHER -> BusCycle("run", "write") /\ UNCHANGED why

\* A failed start parks the arm; park_safely() goes on to the next servo; a mode
\* switch leaves the servos after the one that failed alone.
OperationFails ==
    CASE phase = "start" -> Begin("park") /\ UNCHANGED why
      [] phase = "park" -> NextServo({})
      [] OTHER -> AfterSwitch

Advance ==
    IF step = Len(Script)
    THEN NextServo(IF phase = "park" THEN {} ELSE {cur})
    ELSE step' = step + 1 /\ UNCHANGED <<phase, place, why, cur, tries, rc, present, settled>>

InScript(register) ==
    /\ phase \in Scripted /\ place = "servo"
    /\ cur <= NumServos /\ cur \notin parked
    /\ Register = register

\* The registers whose failure ends the operation at once.
\* discard_pending_group_writes() opens the switch to leader.
Access(register) ==
    /\ InScript(register)
    /\ pending' = IF phase = "normal" /\ role = "leader" THEN Discard(cur) ELSE pending
    /\ \/ /\ Answered(cur, register)
          /\ Advance
          /\ parked' = IF phase = "park" /\ step = Len(Script) THEN parked \cup {cur}
                       ELSE parked
       \/ NoAnswer(cur, register) /\ OperationFails /\ UNCHANGED parked
    /\ UNCHANGED <<role, firmware, cached, dead, polled>>

WriteRegister ==
    \E register \in {"off", "on", "unlock", "accel", "goal", "goalCached"} :
        Access(register)

\* write_register() of an EEPROM register: locked again whatever the write
\* returned, and the result of the write is returned after that.
WriteEeprom ==
    /\ InScript("mode") \/ InScript("gains")
    /\ \/ Answered(cur, Register) /\ rc' = "SUCCESS"
       \/ NoAnswer(cur, Register) /\ rc' = "FAIL"
    /\ step' = step + 1
    /\ UNCHANGED <<role, firmware, phase, place, why, cur, tries, present, lineVars, parked,
                   settled>>

LockEeprom ==
    /\ InScript("lock")
    /\ \/ Answered(cur, "lock") /\ IF rc = "SUCCESS" THEN Advance ELSE OperationFails
       \/ NoAnswer(cur, "lock") /\ OperationFails
    /\ UNCHANGED <<role, firmware, lineVars, parked>>

ReadPosition ==
    /\ InScript("getpos")
    /\ \/ /\ Answered(cur, "getpos")
          /\ present' = servo[cur].pos /\ step' = step + 1
          /\ UNCHANGED <<phase, place, why, cur, tries, rc, settled>>
       \/ NoAnswer(cur, "getpos") /\ OperationFails
    /\ UNCHANGED <<role, firmware, lineVars, parked>>

\* The verified disable: torque is read back, and written again after 10 ms,
\* which may be long enough for the servo to obey.
Waited == \E recent \in {FALSE, servo[cur].recent} :
              servo' = [servo EXCEPT ![cur].recent = recent]

VerifyDisable ==
    /\ InScript("get")
    /\ \/ /\ servo[cur].plugged /\ ~servo[cur].torque
          /\ NextServo({cur}) /\ UNCHANGED <<servo, faults>>
       \/ /\ servo[cur].plugged /\ servo[cur].torque /\ tries < Attempts
          /\ step' = 1 /\ tries' = tries + 1
          /\ Waited
          /\ UNCHANGED <<phase, place, why, cur, rc, present, settled, faults>>
       \/ /\ servo[cur].plugged /\ servo[cur].torque /\ tries = Attempts
          /\ OperationFails /\ UNCHANGED <<servo, faults>>
       \/ NoAnswer(cur, "get") /\ OperationFails
    /\ UNCHANGED <<role, firmware, lineVars, parked>>

SkipParked ==
    /\ phase = "park" /\ cur \in parked
    /\ NextServo({})
    /\ UNCHANGED <<role, firmware, servo, lineVars, parked, faults>>

\* The operation is done for every servo.
EndOperation ==
    /\ phase \in Scripted /\ cur > NumServos
    /\ CASE phase = "start" -> BusCycle("hold", "read") /\ UNCHANGED why
         [] phase = "park" -> BusCycle("closed", "read") /\ UNCHANGED why
         [] OTHER -> AfterSwitch
    /\ UNCHANGED <<role, firmware, servo, lineVars, parked, faults>>

ServoOperation == WriteRegister \/ WriteEeprom \/ LockEeprom \/ ReadPosition
                  \/ VerifyDisable \/ SkipParked \/ EndOperation

(***************************************************************************)
(* group_read_hardware_values() and what the arm does with its result.     *)
(***************************************************************************)

\* The servos whose status packet arrives.
Responders(quiet) == {s \in polled \ quiet : servo[s].plugged}

Refresh(heard) == [s \in Servos |-> IF s \in heard THEN servo[s].pos ELSE cached[s]]

\* Mutant: nobody is found dead.
ClassifyNobody(deaf) == {}

\* classify_dead_servos(): every servo not known to be dead is pinged, and the
\* bulk read is rebuilt from the others.  A living servo whose pings are lost
\* is taken for dead, and stays so.
Classify(deaf) == {s \in Servos \ dead : ~servo[s].plugged \/ s \in deaf}
Polled(gone) == Servos \ gone

BulkRead(heard, deaf) ==
    /\ cached' = Refresh(heard)
    /\ IF heard = polled
       THEN UNCHANGED <<dead, polled>>
       ELSE /\ dead' = dead \cup Classify(deaf)
            /\ polled' = Polled(dead')

ReadSucceeds(heard) == heard = polled /\ polled # {}

\* A step has failed: the next one begins the emergency recovery, unless it has
\* begun, when the cycles go on as well as they can.
StepErrs ==
    IF Recovering
    THEN place' = "read" /\ UNCHANGED <<phase, opVars, why, settled>>
    ELSE why' = "recovery" /\ BusCycle("recover", "read")

\* DeviceArm::read_hardware_values(): a failed bulk read counts only with a
\* servo known to be dead, and not before the arm is ready or in a recovery;
\* otherwise the cycle goes on with what has been heard before.
AfterRead(ok) ==
    IF ok \/ dead' = {} \/ phase \in {"hold", "home", "recover"}
    THEN place' = "move" /\ UNCHANGED <<phase, opVars, why, settled>>
    ELSE StepErrs

GroupRead ==
    /\ phase \in Cyclic /\ place = "read"
    /\ \/ /\ LET heard == Responders({})
             IN BulkRead(heard, {}) /\ AfterRead(ReadSucceeds(heard))
          /\ UNCHANGED faults
       \/ \E quiet, deaf \in SUBSET Servos :
             LET heard == Responders(quiet)
             IN /\ Strikes("lost")
                /\ BulkRead(heard, deaf) /\ AfterRead(ReadSucceeds(heard))
       \/ Strikes("tx") /\ UNCHANGED <<cached, dead, polled>> /\ AfterRead(FALSE)
    /\ UNCHANGED <<role, firmware, servo, pending, parked>>

\* DriverFt::open(): one bulk read must succeed.
Open ==
    /\ phase = "open"
    /\ LET heard == Responders({})
       IN /\ BulkRead(heard, {})
          /\ IF ReadSucceeds(heard) THEN Begin("start") ELSE BusCycle("closed", "read")
    /\ UNCHANGED <<role, firmware, why, servo, pending, parked, faults>>

(***************************************************************************)
(* The rest of a cycle: targets are queued, then written as a group.       *)
(***************************************************************************)

Alive == Servos \ dead

\* set_goal_position_group() skips a dead servo.
Queue(target) == [s \in Alive |-> target[s]]

\* start() holds every servo where it was read.
HoldStart ==
    /\ phase = "hold" /\ place = "move"
    /\ pending' = Queue(cached)
    /\ place' = "write"
    /\ UNCHANGED <<role, firmware, phase, why, opVars, servo, cached, dead, polled, parked,
                   settled, faults>>

\* An iteration of the ready move.
MoveToReady ==
    /\ phase = "home" /\ place = "move"
    /\ pending' = Queue([s \in Servos |-> Ready])
    /\ place' = "write"
    /\ UNCHANGED <<role, firmware, phase, why, opVars, servo, cached, dead, polled, parked,
                   settled, faults>>

\* The last one: every servo has arrived, is stuck or has used up the budget.
\* After the start-up's move the mode is switched in the same cycle, with the
\* last targets still queued, after a commanded one in the next; a recovery
\* has come to its end.
MoveEnds ==
    /\ phase = "home" /\ place = "move"
    /\ pending' = Queue([s \in Servos |-> Ready])
    /\ CASE why = "startup" -> Begin("normal")
         [] why = "command" -> BusCycle("restore", "write")
         [] why = "recovery" -> BusCycle("leave", "write")
    /\ UNCHANGED <<role, firmware, why, servo, cached, dead, polled, parked, faults>>

\* The mode switches at the head of a recovery and after a commanded move.
SwitchMode ==
    /\ place = "move"
    /\ \/ phase = "recover" /\ Begin("override")
       \/ phase = "restore" /\ Begin("normal")
    /\ UNCHANGED <<role, firmware, why, servo, lineVars, parked, faults>>

\* A leader's servos get no targets, a follower's what the client commands;
\* after a commanded move its buffers hold the position read.
OperateServos ==
    /\ phase = "run" /\ place \in {"move", "operate"}
    /\ IF role = "leader"
       THEN UNCHANGED pending
       ELSE \E target \in IF place = "operate" THEN {cached} ELSE [Servos -> ServoPositions] :
                pending' = Queue(target)
    /\ place' = "write"
    /\ UNCHANGED <<role, firmware, phase, why, opVars, servo, cached, dead, polled, parked,
                   settled, faults>>

\* The torque limits, then the goals; both are dropped when a write fails.  A
\* write that fails inside start() fails the start, any other one the step.
\* The loop ends after the last cycle of a recovery, whatever it returned.
GroupWrite ==
    /\ phase \in Cyclic /\ place = "write"
    /\ pending' = NoGoals
    /\ \/ /\ servo' = [s \in Servos |->
                          IF s \in DOMAIN pending /\ servo[s].plugged
                          THEN WriteGoal(servo[s], pending[s]) ELSE servo[s]]
          /\ CASE phase = "leave" -> Begin("park")
               [] phase = "hold" -> BusCycle("home", "move")
               [] OTHER -> place' = "read" /\ UNCHANGED <<phase, opVars, settled>>
          /\ UNCHANGED <<why, faults>>
       \/ /\ Strikes("tx") /\ UNCHANGED servo
          /\ IF phase \in {"leave", "hold"} THEN Begin("park") /\ UNCHANGED why ELSE StepErrs
    /\ UNCHANGED <<role, firmware, cached, dead, polled, parked>>

\* A client sends the arm to the ready position again.
Rehome ==
    /\ phase = "run" /\ place = "move"
    /\ why' = "command"
    /\ Begin("override")
    /\ UNCHANGED <<role, firmware, servo, lineVars, parked, faults>>

\* The program is asked to stop, which the loop finds between two cycles.
Stop ==
    /\ phase \in Cyclic \ {"hold"} /\ place = "read"
    /\ Begin("park")
    /\ UNCHANGED <<role, firmware, why, servo, lineVars, parked, faults>>

ControlStep == Open \/ ServoOperation \/ GroupRead \/ HoldStart \/ MoveToReady \/ MoveEnds
               \/ SwitchMode \/ OperateServos \/ GroupWrite

(***************************************************************************)
(* The arm itself: a servo with torque goes to its goal, one without is    *)
(* moved by hand between the cycles; after a cycle it obeys again; a servo *)
(* fails, or a cable breaks and takes the servos behind it along.          *)
(***************************************************************************)

Moved(s, position) ==
    /\ servo' = [servo EXCEPT ![s].pos = position]
    /\ UNCHANGED <<role, firmware, phase, place, why, opVars, lineVars, parked, settled, faults>>

Track(s) == servo[s].torque /\ servo[s].pos # servo[s].goal /\ phase \in Cyclic
            /\ place = "read" /\ Moved(s, servo[s].goal)

BackDrive(s) == ~servo[s].torque /\ phase \in Cyclic /\ place = "read"
                /\ \E p \in ServoPositions : Moved(s, p)

Settle(s) ==
    /\ servo[s].recent /\ phase \in Cyclic /\ place = "read"
    /\ servo' = [servo EXCEPT ![s].recent = FALSE]
    /\ UNCHANGED <<role, firmware, phase, place, why, opVars, lineVars, parked, settled, faults>>

Unplug(s) ==
    /\ servo[s].plugged /\ Strikes("unplug")
    /\ \E gone \in {{s}, s .. NumServos} :
          servo' = [t \in Servos |->
                       IF t \in gone THEN [servo[t] EXCEPT !.plugged = FALSE] ELSE servo[t]]
    /\ UNCHANGED <<role, firmware, phase, place, why, opVars, lineVars, parked, settled>>

FeetechNext == ControlStep \/ Rehome \/ Stop
        \/ \E s \in Servos : Track(s) \/ BackDrive(s) \/ Settle(s) \/ Unplug(s)

\* The control loop runs, and the budget of a ready move ends it.
FeetechFairness == WF_feetechVars(ControlStep) /\ SF_feetechVars(MoveEnds)

FeetechSpec == FeetechInit /\ [][FeetechNext]_feetechVars /\ FeetechFairness

(***************************************************************************)
(* Properties.                                                             *)
(***************************************************************************)

\* A leader in operation is limp: no servo holds torque, although the ready
\* move that ended in the same cycle had queued goals and although the
\* firmware may ignore a torque-off (change_control_mode_for_leader()).  A
\* switch that fails is reported, and leaves that servo and the ones after it.
LeaderIsLimp ==
    phase = "run" /\ role = "leader" => \A s \in settled : ~servo[s].torque

\* Torque comes on only with the goal at the servo's position, so no servo
\* jumps to a goal left over from before (start_hardware(), the switch to
\* follower).  park_safely() aligns with the last position read instead.  The
\* goals of a group write are one step of a move, which two positions do not
\* show: they engage no servo but those a failed switch has left behind.
NoJump ==
    phase # "park" =>
        \A s \in Servos :
            ~servo[s].torque /\ servo'[s].torque =>
                IF place = "write" THEN s \notin settled ELSE servo'[s].goal = servo'[s].pos

\* An operating servo is in position mode, and one that a start or a switch to
\* position mode has completed has its EEPROM locked, whichever of the writes
\* had to be repeated or failed.
Configured ==
    phase \in Cyclic =>
        /\ \A s \in Servos : servo[s].positionMode
        /\ role = "follower" \/ phase \notin {"run", "recover"} =>
               \A s \in settled : servo[s].locked

\* Torque is where it is due and nowhere else: on configured servos, without
\* a jump, and never on a leader's.
TorqueIsOrderly ==
    [][NoJump /\ (FeetechTypeOK /\ LeaderIsLimp /\ Configured)']_feetechVars

\* An arm does not operate blindly: a cycle of a ready arm that goes on to
\* operate, with no answer lost in it, has heard every servo that the driver
\* still polls, and no cycle writes a servo off and operates on.  A broken
\* cable is so noticed at the first read, and a living servo taken for dead
\* ends the operation (classify_dead_servos() and read_hardware_values()).
NoBlindOperation ==
    [][phase = "run" /\ place = "read" /\ place' = "move"
       => /\ dead' = dead
          /\ faults' = faults =>
                \A s \in polled : servo[s].plugged /\ cached'[s] = servo[s].pos]_feetechVars

\* No arm whose line is healthy goes into recovery or writes off a servo, also
\* when the firmware refuses the torque-off of a leader to the last attempt.
HealthyLineStaysUp == faults = 0 => ~Recovering /\ dead = {}

\* The start, the mode switches, the ready moves, the recoveries and the
\* parking come to an end: again and again the arm is operating or closed.
ArmSettles == []<>(phase \in {"run", "closed"})

=============================================================================
