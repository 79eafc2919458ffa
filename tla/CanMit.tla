------------------------------- MODULE CanMit -------------------------------
(***************************************************************************)
(* The CAN bus of an arm: DriverCan's socket and reception thread,         *)
(* DriverCanMit's synchronous transactions on the same socket, the ServoDm *)
(* objects above them and the motors' firmware below.  The control thread  *)
(* runs the start-up sequence of main() (enable, verify, hold, probe,      *)
(* verify again, arm), then the command stream, then the parking of every  *)
(* servo; the reception thread fills the cache the control thread reads.   *)
(* The firmware is external and modelled from how the driver uses it.      *)
(***************************************************************************)
EXTENDS Naturals, Sequences, FiniteSets

CONSTANTS
    NumServos,   \* servos on the bus, parked and started in this order
    Encos,       \* the servos of type ENCOS_A4310; the others are DM servos
    Effector,    \* the servos that belong to the effector
    StopOnLoss,  \* Device::wants_comm_loss_stop()
    Retries,     \* max_retry_count of an enable handshake (10)
    InitialAge,  \* CAN_MIT_STALE_FRAME_AGE_INITIAL_MS, in ticks
    NormalAge,   \* CAN_MIT_STALE_FRAME_AGE_NORMAL_MS, in ticks
    Capacity,    \* frames the socket buffers
    Faults,      \* "busy", "unplug", "rx", "hot", "fault", "alias"
    MaxFaults    \* bound on the faults of a run

Servos == 1 .. NumServos

ASSUME NumServosAssumption == NumServos \in Nat \ {0}
ASSUME EncosAssumption == Encos \subseteq Servos
\* Every effector the repository ships for a CAN bus has one servo.
ASSUME EffectorAssumption ==
    /\ Effector \subseteq Servos
    /\ \A s, t \in Effector : s = t
ASSUME PolicyAssumption == StopOnLoss \in BOOLEAN
ASSUME LimitsAssumption == /\ Retries \in Nat \ {0}
                           /\ InitialAge \in Nat
                           /\ NormalAge \in Nat
                           /\ Capacity \in Nat \ {0}
                           /\ MaxFaults \in Nat
ASSUME FaultsAssumption ==
    Faults \subseteq {"busy", "unplug", "rx", "hot", "fault", "alias"}

\* The DM status nibble: 0x0, 0x1, 0xD, 0xB/0xC and the other protection
\* trips; an ENCOS motor without error reports "off" (0x0).
Statuses == {"off", "on", "commLoss", "hot", "fault"}
IsFault == {"commLoss", "hot", "fault"}
IsThermal == {"hot"}
IsResettable == {"commLoss"}

VARIABLES
    phase,    \* what the control thread is doing with the servos
    cur,      \* the servo it is at
    pc,       \* its place in the driver call for that servo
    want,     \* enable_flag of the enable() in progress
    tries,    \* retry_count
    resetTried, \* startup_fault_reset_attempted
    rc,       \* what the driver call returns
    running,  \* is_running_
    rx,       \* the reception thread
    queue,    \* frames in the socket's receive buffer
    motor,    \* firmware: per servo its status, window and plug
    cache,    \* received_servo_data_
    moved,    \* any_motor_moved_
    dead,     \* dead_servo_ids_
    thermal,  \* thermal_fault_latched_
    parked,   \* parked_
    failed,   \* failed_joint_ids_: the servos set aside
    faults,   \* faults that happened so far (bounded by MaxFaults)
    excused,  \* history: servos a protection write never reached, or that
              \* failed for a reason of their own
    prompt    \* history: in every tick so far all servos answered and every
              \* answer was received

driverVars == <<want, tries, resetTried>>
servoVars == <<dead, moved, thermal, parked, failed>>
vars == <<phase, cur, pc, want, tries, resetTried, rc, running, rx, queue, motor,
          cache, moved, dead, thermal, parked, failed, faults, excused, prompt>>

Phases == {"open", "start", "read", "verify", "hold", "probe", "reverify", "arm", "run",
           "recover", "park", "closed"}
Frames == [id : Servos, kind : {"status", "ack", "window", "alias"}, status : Statuses]

Armed(s) == motor[s].window
MaxAge == (IF InitialAge > NormalAge THEN InitialAge ELSE NormalAge) + 1

TypeOK ==
    /\ phase \in Phases
    /\ cur \in 1 .. NumServos + 1
    /\ pc \in {"next", "mode", "stop", "join", "send", "read", "disarm", "drain",
               "restart", "query", "reply", "reset", "write", "drainWrite", "check"}
    /\ want \in BOOLEAN
    /\ tries \in 0 .. Retries
    /\ resetTried \in BOOLEAN
    /\ rc \in {"SUCCESS", "FAIL", "HARDWARE_FAULT"}
    /\ running \in BOOLEAN
    /\ rx \in {"none", "select", "ended"}
    /\ queue \in Seq(Frames) /\ Len(queue) <= Capacity
    /\ motor \in [Servos -> [status : Statuses, window : BOOLEAN,
                             quiet : BOOLEAN, plugged : BOOLEAN]]
    /\ cache \in [Servos -> [seen : BOOLEAN, error : Statuses, age : 0 .. MaxAge]]
    /\ moved \in BOOLEAN
    /\ dead \subseteq Servos
    /\ thermal \subseteq Servos
    /\ parked \subseteq Servos
    /\ failed \subseteq Servos
    /\ faults \in 0 .. MaxFaults
    /\ excused \subseteq Servos
    /\ prompt \in BOOLEAN

\* The TIMEOUT register survives in the motors between runs, a trip too.
Init ==
    /\ phase = "open" /\ cur = 1 /\ pc = "next"
    /\ want = TRUE /\ tries = 0 /\ resetTried = FALSE /\ rc = "SUCCESS"
    /\ running = FALSE /\ rx = "none" /\ queue = <<>>
    /\ motor \in [Servos -> [status : {"off", "commLoss"}, window : BOOLEAN,
                             quiet : {TRUE}, plugged : {TRUE}]]
    /\ \A s \in Encos : motor[s].status = "off"
    /\ cache = [s \in Servos |-> [seen |-> FALSE, error |-> "off", age |-> 0]]
    /\ moved = FALSE /\ dead = {} /\ thermal = {} /\ parked = {} /\ failed = {}
    /\ faults = 0 /\ excused = {} /\ prompt = TRUE

(***************************************************************************)
(* The firmware: what a frame does to a motor and the answer it queues.    *)
(***************************************************************************)

\* A register write with the protection window open for too long trips at once.
AfterWindow(m, armed) ==
    [m EXCEPT !.window = armed,
              !.status = IF armed /\ m.quiet /\ m.status = "on" THEN "commLoss" ELSE @]

AfterFrame(s, m, frame) ==
    LET heard == [m EXCEPT !.quiet = FALSE]
    IN CASE frame = "enable" -> [heard EXCEPT !.status = IF @ = "off" THEN "on" ELSE @]
         [] frame = "disable" -> [heard EXCEPT !.status = IF @ = "on" THEN "off" ELSE @]
         [] frame = "reset" -> [heard EXCEPT !.status = IF @ \in IsResettable THEN "off" ELSE @]
         [] frame = "arm" -> [AfterWindow(m, TRUE) EXCEPT !.quiet = FALSE]
         [] frame = "disarm" -> [AfterWindow(m, FALSE) EXCEPT !.quiet = FALSE]
         [] OTHER -> heard

Answer(s, m, frame) ==
    [id |-> s,
     kind |-> CASE frame \in {"mode", "arm", "disarm"} -> "ack"
                [] frame = "query" -> "window"
                [] OTHER -> "status",
     status |-> IF frame \in {"mode", "arm", "disarm", "query"} THEN "off" ELSE m.status]

\* A status whose position has the low byte 0x55 looks like a register ack.
Answers(s, m, frame) ==
    LET a == Answer(s, m, frame)
    IN {a} \cup IF "alias" \in Faults /\ a.kind = "status" /\ s \notin Encos
                THEN {[a EXCEPT !.kind = "alias"]} ELSE {}

\* The kernel drops what does not fit; the bus delivers at once.
Deliver(s, frame) ==
    IF ~motor[s].plugged
    THEN UNCHANGED <<motor, queue>>
    ELSE LET m == AfterFrame(s, motor[s], frame)
         IN /\ motor' = [motor EXCEPT ![s] = m]
            /\ \E a \in Answers(s, m, frame) :
                  queue' = IF Len(queue) < Capacity THEN Append(queue, a) ELSE queue

Strikes(fault) ==
    /\ fault \in Faults /\ faults < MaxFaults
    /\ faults' = faults + 1

\* send_frame(): the frame goes out, or the socket is not writable in 5 ms
\* (BUSY), or the write fails.
Sent(s, frame) == Deliver(s, frame) /\ UNCHANGED faults
NotSent ==
    /\ Strikes("busy")
    /\ UNCHANGED <<motor, queue>>

\* Mutant: the status is cached without its time.
ParsedWithoutStamp(c, f) ==
    [c EXCEPT ![f.id].seen = TRUE, ![f.id].error = f.status]

\* parse_dm_servo_status() and parser_encos_servo_status(): what one frame
\* does to the cache.  An ENCOS frame refreshes whatever it carries.
Parsed(c, f) ==
    IF f.kind = "status" THEN [c EXCEPT ![f.id] = [seen |-> TRUE, error |-> f.status, age |-> 0]]
    ELSE IF f.id \in Encos THEN [c EXCEPT ![f.id].seen = TRUE, ![f.id].age = 0]
    ELSE c

(***************************************************************************)
(* The reception thread.                                                   *)
(***************************************************************************)

\* handle_received_message() on the frame at the head of the buffer, then the
\* condition of the loop.
Receive ==
    /\ rx = "select" /\ queue # <<>>
    /\ cache' = Parsed(cache, Head(queue))
    /\ queue' = Tail(queue)
    /\ rx' = IF running THEN "select" ELSE "ended"
    /\ UNCHANGED <<phase, cur, pc, driverVars, rc, running, motor, servoVars, faults,
                   excused>>

\* select() times out, which only matters once the loop is to end.
SelectTimesOut ==
    /\ rx = "select" /\ queue = <<>> /\ ~running
    /\ rx' = "ended"
    /\ UNCHANGED <<phase, cur, pc, driverVars, rc, running, queue, motor, cache,
                   servoVars, faults, excused>>

\* select() or read() fails: the loop ends for good.
ReceiveFails ==
    /\ Strikes("rx") /\ rx = "select"
    /\ rx' = "ended" /\ running' = FALSE
    /\ prompt' = FALSE
    /\ UNCHANGED <<phase, cur, pc, driverVars, rc, queue, motor, cache, servoVars,
                   excused>>

ReceptionStep == (Receive \/ SelectTimesOut) /\ UNCHANGED prompt

(***************************************************************************)
(* stop_reception() and start_reception() of the control thread.           *)
(***************************************************************************)

\* Mutant: the thread is told to stop and not waited for.
StopWithoutJoin(after) ==
    /\ pc = "stop"
    /\ running' = FALSE
    /\ pc' = after
    /\ UNCHANGED <<phase, cur, driverVars, rc, rx, queue, motor, cache, servoVars,
                   faults, excused>>

StopReception(after) ==
    /\ pc = "stop"
    /\ running' = FALSE
    /\ pc' = IF rx = "none" THEN after ELSE "join"
    /\ UNCHANGED <<phase, cur, driverVars, rc, rx, queue, motor, cache, servoVars,
                   faults, excused>>

JoinReception(after) ==
    /\ pc = "join" /\ rx = "ended"
    /\ rx' = "none"
    /\ pc' = after
    /\ UNCHANGED <<phase, cur, driverVars, rc, running, queue, motor, cache,
                   servoVars, faults, excused>>

\* A thread that ended by itself is joined first, so there is never a second.
Restarted == running' = TRUE /\ rx' = "select"

(***************************************************************************)
(* DriverCanMit::enable() for the servo at cur.                            *)
(***************************************************************************)

Enabling == phase \in {"start", "verify", "reverify", "park"}

BeginEnable(flag) ==
    /\ want' = flag /\ tries' = 0 /\ resetTried' = FALSE
    /\ rc' = "SUCCESS"

\* An ENCOS motor is enabled by a command without effort and no handshake.
EnableEncos ==
    /\ pc = "mode" /\ cur \in Encos
    /\ \/ Sent(cur, "command") /\ rc' = "SUCCESS"
       \/ NotSent /\ rc' = "FAIL"
    /\ pc' = "check"
    /\ UNCHANGED <<phase, cur, driverVars, running, rx, cache, servoVars, excused>>

WriteMode ==
    /\ pc = "mode" /\ cur \notin Encos
    /\ \/ Sent(cur, "mode") /\ pc' = "stop" /\ UNCHANGED rc
       \/ NotSent /\ rc' = "FAIL" /\ pc' = "check"
    /\ UNCHANGED <<phase, cur, driverVars, running, rx, cache, servoVars, excused>>

\* The retries are used up, or the write failed for another reason than BUSY.
GiveUp == rc' = "FAIL" /\ pc' = "restart" /\ UNCHANGED <<tries, resetTried>>

\* Mutant: the attempts are not counted.
TryAgainForever == pc' = "send" /\ UNCHANGED <<tries, rc, resetTried>>

TryAgain == tries' = tries + 1 /\ pc' = "send" /\ UNCHANGED <<rc, resetTried>>

SendEnable ==
    /\ pc = "send"
    /\ IF tries = Retries
       THEN GiveUp /\ UNCHANGED <<motor, queue, faults>>
       ELSE \/ /\ Sent(cur, IF want THEN "enable" ELSE "disable")
               /\ pc' = "read" /\ UNCHANGED <<tries, resetTried, rc>>
            \/ NotSent /\ (TryAgain \/ GiveUp)
    /\ UNCHANGED <<phase, cur, want, running, rx, cache, servoVars, excused>>

\* read_frame() times out: the enable frame is sent again.
ReadTimesOut ==
    /\ pc = "read" /\ queue = <<>>
    /\ TryAgain
    /\ UNCHANGED <<phase, cur, want, running, rx, queue, motor, cache, servoVars,
                   faults, excused>>

Normal == IF want THEN "on" ELSE "off"

\* The answer of another servo is skipped.  The servo's own answer is cached
\* when enabling, and then decides: done, reset and retry, or a fault.  The
\* reset goes out after the answer was taken from the buffer.
Foreign(f) == f.id # cur

SkipForeign ==
    /\ pc = "read" /\ queue # <<>> /\ Foreign(Head(queue))
    /\ queue' = Tail(queue)
    /\ UNCHANGED <<phase, cur, pc, driverVars, rc, running, rx, motor, cache,
                   servoVars, faults, excused>>

TakeAnswer ==
    /\ pc = "read" /\ queue # <<>> /\ ~Foreign(Head(queue))
    /\ cache' = IF want THEN Parsed(cache, Head(queue)) ELSE cache
    /\ LET status == Head(queue).status
       IN \/ /\ status = Normal
             /\ pc' = IF want THEN "disarm" ELSE "restart"
             /\ UNCHANGED <<tries, resetTried, rc>>
          \/ /\ status # Normal
             /\ \/ status \notin IsFault
                \/ want /\ status \in IsResettable /\ ~resetTried
             /\ pc' = "reset"
             /\ resetTried' = (resetTried \/ status \in IsFault)
             /\ UNCHANGED <<tries, rc>>
          \/ /\ status \in IsFault
             /\ ~(want /\ status \in IsResettable /\ ~resetTried)
             /\ rc' = "HARDWARE_FAULT" /\ pc' = "restart"
             /\ UNCHANGED <<tries, resetTried>>
    /\ queue' = Tail(queue)
    /\ UNCHANGED <<phase, cur, want, running, rx, motor, servoVars, faults, excused>>

\* send_reset_sequence() and another attempt.
SendReset ==
    /\ pc = "reset"
    /\ \/ Sent(cur, "reset") /\ TryAgain
       \/ NotSent /\ rc' = "FAIL" /\ pc' = "restart" /\ UNCHANGED <<tries, resetTried>>
    /\ UNCHANGED <<phase, cur, want, running, rx, cache, servoVars, excused>>

\* The stale window of an earlier run is closed; a failure is not fatal.
Disarm ==
    /\ pc = "disarm"
    /\ \/ Sent(cur, "disarm") /\ pc' = "drain" /\ UNCHANGED excused
       \/ NotSent /\ pc' = "restart" /\ excused' = excused \cup {cur}
    /\ UNCHANGED <<phase, cur, driverVars, rc, running, rx, cache, servoVars>>

Dropped == queue' = IF queue = <<>> THEN queue ELSE Tail(queue)

DrainAck ==
    /\ pc = "drain"
    /\ Dropped
    /\ pc' = "restart"
    /\ UNCHANGED <<phase, cur, driverVars, rc, running, rx, motor, cache, servoVars,
                   faults, excused>>

\* Reception is restarted whatever the handshake returned.
RestartReception ==
    /\ pc = "restart"
    /\ Restarted
    /\ pc' = "check"
    /\ UNCHANGED <<phase, cur, driverVars, rc, queue, motor, cache, servoVars, faults,
                   excused>>

EnableStep ==
    /\ Enabling
    /\ \/ EnableEncos \/ WriteMode \/ StopReception("send") \/ JoinReception("send")
       \/ SendEnable \/ ReadTimesOut \/ SkipForeign \/ TakeAnswer \/ SendReset
       \/ Disarm \/ DrainAck \/ RestartReception

(***************************************************************************)
(* The start-up sequence above the driver.                                 *)
(***************************************************************************)

Enter(next) == phase' = next /\ cur' = 1 /\ pc' = "next"
NextServo == phase' = phase /\ cur' = cur + 1 /\ pc' = "next"
ToPark == Enter("park")

\* DriverCanMit::open(): the socket, then the reception thread.
Open ==
    /\ phase = "open"
    /\ Restarted
    /\ Enter("start")
    /\ UNCHANGED <<driverVars, rc, queue, motor, cache, servoVars, faults, excused>>

\* ServoDm::start_hardware(), servo by servo.
StartServo ==
    /\ phase = "start" /\ pc = "next"
    /\ IF cur > NumServos
       THEN Enter("read") /\ UNCHANGED <<want, tries, resetTried, rc>>
       ELSE pc' = "mode" /\ UNCHANGED <<phase, cur>> /\ BeginEnable(TRUE)
    /\ UNCHANGED <<running, rx, queue, motor, cache, servoVars, faults, excused>>

\* latch_effector_thermal_fault(): latched and parked first, then one command
\* without effort and one disable frame, each of which may fail to go out.
Latch(s) ==
    /\ thermal' = thermal \cup {s}
    /\ parked' = parked \cup {s}
    /\ \/ Sent(s, "disable")
       \/ NotSent

Started ==
    /\ phase = "start" /\ pc = "check"
    /\ IF rc = "SUCCESS"
       THEN NextServo /\ UNCHANGED <<motor, queue, faults, thermal, parked>>
       ELSE /\ ToPark
            /\ IF /\ rc = "HARDWARE_FAULT" /\ cur \in Effector
                  /\ cache[cur].error \in IsThermal
               THEN Latch(cur)
               ELSE UNCHANGED <<motor, queue, faults, thermal, parked>>
    /\ UNCHANGED <<driverVars, rc, running, rx, cache, moved, dead, failed, excused>>

Healthy(s) == IF s \in Encos THEN "off" ELSE "on"

\* ServoDm::verify_operational(): the cached status decides; a DM servo that
\* is not enabled gets one more enable and must then be.  A servo that was
\* set aside is not looked at.
Verifying == phase \in {"verify", "reverify"}
Verified == Enter(IF phase = "verify" THEN "hold" ELSE "arm")

VerifyServo ==
    /\ Verifying /\ pc = "next"
    /\ CASE cur > NumServos -> Verified /\ UNCHANGED <<want, tries, resetTried, rc>>
         [] OTHER ->
            \/ /\ cur \in failed \/ cache[cur].error = Healthy(cur)
               /\ NextServo /\ UNCHANGED <<want, tries, resetTried, rc>>
            \/ /\ cur \notin failed /\ cache[cur].error # Healthy(cur) /\ cur \in Encos
               /\ ToPark /\ UNCHANGED <<want, tries, resetTried, rc>>
            \/ /\ cur \notin failed /\ cache[cur].error # Healthy(cur) /\ cur \notin Encos
               /\ pc' = "mode" /\ UNCHANGED <<phase, cur>> /\ BeginEnable(TRUE)
    /\ UNCHANGED <<running, rx, queue, motor, cache, servoVars, faults, excused>>

Reverified ==
    /\ Verifying /\ pc = "check"
    /\ IF rc = "SUCCESS" /\ cache[cur].error = Healthy(cur)
       THEN NextServo ELSE ToPark
    /\ UNCHANGED <<driverVars, rc, running, rx, queue, motor, cache, servoVars, faults,
                   excused>>

\* hold_at_current_position() at the end of start(), and the probe of
\* verify_servos_operational(): one position command for each servo that was
\* not set aside.  The start sets aside a servo that never answered or whose
\* hold cannot be sent; a probe that cannot be sent ends it.
CommandEach ==
    /\ phase \in {"hold", "probe"} /\ pc = "next"
    /\ IF cur > NumServos
       THEN /\ Enter(IF phase = "hold" THEN "probe" ELSE "reverify")
            /\ UNCHANGED <<motor, queue, faults, failed>>
       ELSE IF cur \in failed
       THEN NextServo /\ UNCHANGED <<motor, queue, faults, failed>>
       ELSE \/ /\ phase = "hold" => cache[cur].seen
               /\ Sent(cur, "command") /\ NextServo /\ UNCHANGED failed
            \/ /\ phase = "hold" /\ ~cache[cur].seen
               /\ failed' = failed \cup {cur} /\ NextServo
               /\ UNCHANGED <<motor, queue, faults>>
            \/ /\ phase = "hold" /\ NotSent
               /\ failed' = failed \cup {cur} /\ NextServo
            \/ phase = "probe" /\ NotSent /\ ToPark /\ UNCHANGED failed
    /\ UNCHANGED <<driverVars, rc, running, rx, cache, dead, moved, thermal, parked,
                   excused>>

(***************************************************************************)
(* arm_comm_loss_protection(): reception is stopped once for all servos.   *)
(* A DM servo gets an enable frame, which restarts its counter, and then   *)
(* the register; an ENCOS servo is asked for its window and written to     *)
(* only when the answer does not match.                                    *)
(***************************************************************************)

BeginArm ==
    /\ phase = "arm" /\ pc = "next" /\ cur = 1
    /\ pc' = "stop"
    /\ UNCHANGED <<phase, cur, driverVars, rc, running, rx, queue, motor, cache,
                   servoVars, faults, excused>>

\* Whichever way the pass for a servo ends, the next one is served.
ArmNext == pc' = "query" /\ cur' = cur + 1 /\ UNCHANGED phase
NotAsserted == excused' = excused \cup {cur}

\* Mutant: the counter of a DM servo is not restarted before the write.
QueryEveryWindow ==
    /\ pc = "query" /\ cur <= NumServos
    /\ \/ /\ Sent(cur, "query")
          /\ pc' = "reply" /\ UNCHANGED <<phase, cur, excused>>
       \/ NotSent /\ pc' = "write" /\ UNCHANGED <<phase, cur, excused>>
    /\ UNCHANGED <<driverVars, rc, running, rx, cache, servoVars>>

QueryWindow ==
    /\ pc = "query" /\ cur <= NumServos
    /\ \/ /\ Sent(cur, IF cur \in Encos THEN "query" ELSE "enable")
          /\ pc' = "reply" /\ UNCHANGED <<phase, cur, excused>>
       \/ /\ cur \in Encos /\ NotSent
          /\ pc' = "write" /\ UNCHANGED <<phase, cur, excused>>
       \/ cur \notin Encos /\ NotSent /\ ArmNext /\ NotAsserted
    /\ UNCHANGED <<driverVars, rc, running, rx, cache, servoVars>>

WindowMatches(f) == f.id = cur /\ f.kind = "window" /\ Armed(cur) = StopOnLoss

TakeReply ==
    /\ pc = "reply"
    /\ Dropped
    /\ IF cur \in Encos /\ queue # <<>> /\ WindowMatches(Head(queue))
       THEN ArmNext
       ELSE pc' = "write" /\ UNCHANGED <<phase, cur>>
    /\ UNCHANGED <<driverVars, rc, running, rx, motor, cache, servoVars, faults,
                   excused>>

WriteWindow ==
    /\ pc = "write"
    /\ \/ /\ Sent(cur, IF StopOnLoss THEN "arm" ELSE "disarm")
          /\ pc' = "drainWrite" /\ UNCHANGED <<phase, cur, excused>>
       \/ NotSent /\ ArmNext /\ NotAsserted
    /\ UNCHANGED <<driverVars, rc, running, rx, cache, servoVars>>

DrainWrite ==
    /\ pc = "drainWrite"
    /\ Dropped
    /\ ArmNext
    /\ UNCHANGED <<driverVars, rc, running, rx, motor, cache, servoVars, faults,
                   excused>>

EndArm ==
    /\ pc = "query" /\ cur > NumServos
    /\ Restarted
    /\ Enter("run")
    /\ UNCHANGED <<driverVars, rc, queue, motor, cache, servoVars, faults, excused>>

ArmStep ==
    /\ phase = "arm"
    /\ \/ BeginArm \/ StopReception("query") \/ JoinReception("query") \/ QueryWindow
       \/ TakeReply \/ WriteWindow \/ DrainWrite \/ EndArm

(***************************************************************************)
(* The command stream.                                                     *)
(***************************************************************************)

Threshold == IF moved THEN NormalAge ELSE InitialAge

\* The device goes on in emergency recovery, and forgets who was set aside.
Recover == Enter("recover") /\ failed' = {}

\* The next servo of the pass; the first read of the start leads on to the
\* verification, the stream starts over.
Onward == IF cur < NumServos THEN cur' = cur + 1 /\ pc' = "read" /\ UNCHANGED phase
                             ELSE Enter(IF phase = "read" THEN "verify" ELSE phase)

\* group_read_hardware_values(): the age of every cached frame.  A dead servo
\* ends the stream; the start and the recovery set a dead joint aside.
GroupRead ==
    /\ phase \in {"read", "run", "recover"} /\ pc = "next" /\ cur = 1
    /\ dead' = {s \in Servos : ~cache[s].seen \/ cache[s].age > Threshold}
    /\ moved' = (moved \/ \E s \in Servos : cache[s].seen)
    /\ IF phase = "run" /\ dead' # {}
       THEN Recover
       ELSE /\ pc' = "read" /\ failed' = failed \cup (dead' \ Effector)
            /\ UNCHANGED <<phase, cur>>
    /\ UNCHANGED <<driverVars, rc, running, rx, queue, motor, cache, thermal, parked,
                   faults, excused>>

\* ServoDm::read_hardware_values() of the servo at cur, unless it was set
\* aside; the recovery does not step the effector.  A thermal status of an
\* effector servo is latched.  Any fault ends the stream; the start and the
\* recovery set the servo aside, but a device none of whose servos could be
\* read does not start.
Unread(s) == s \in failed \/ (phase = "recover" /\ s \in Effector)
Faulty(s) == s \notin Encos /\ cache[s].error \in IsFault
Overheats(s) == s \notin Encos /\ s \in Effector /\ cache[s].error \in IsThermal
Mates(s) == IF s \in Effector THEN Effector ELSE Servos \ Effector

ReadHealthy ==
    /\ Unread(cur) \/ ~Faulty(cur)
    /\ IF phase = "run" \/ (phase = "recover" /\ ~Unread(cur))
       THEN pc' = "write" /\ UNCHANGED <<phase, cur>>
       ELSE Onward
    /\ UNCHANGED <<motor, queue, faults, thermal, parked, failed>>

ReadFault ==
    /\ ~Unread(cur) /\ Faulty(cur)
    /\ IF Overheats(cur) THEN Latch(cur)
                         ELSE UNCHANGED <<motor, queue, faults, thermal, parked>>
    /\ CASE phase = "run" -> Recover
         [] phase = "read" /\ Mates(cur) \subseteq failed \cup {cur} ->
              ToPark /\ UNCHANGED failed
         [] OTHER -> Onward /\ failed' = failed \cup {cur}

ReadServo ==
    /\ phase \in {"read", "run", "recover"} /\ pc = "read"
    /\ ReadHealthy \/ ReadFault
    /\ UNCHANGED <<driverVars, rc, running, rx, cache, moved, dead, excused>>

\* ServoDm::move() or apply_torque(): one frame, then the next servo.  The
\* recovery sets aside a servo that cannot be commanded.
Command ==
    /\ phase \in {"run", "recover"} /\ pc = "write"
    /\ \/ Sent(cur, "command") /\ Onward /\ UNCHANGED failed
       \/ phase = "run" /\ NotSent /\ Recover
       \/ phase = "recover" /\ NotSent /\ Onward /\ failed' = failed \cup {cur}
    /\ UNCHANGED <<driverVars, rc, running, rx, cache, dead, moved, thermal, parked,
                   excused>>

\* The program is asked to stop, or the recovery has reached the ready pose or
\* given it up.
Stop ==
    /\ phase \in {"run", "recover"} /\ pc = "next"
    /\ ToPark
    /\ UNCHANGED <<driverVars, rc, running, rx, queue, motor, cache, servoVars, faults,
                   excused>>

(***************************************************************************)
(* ServoDm::park_safely() for every servo, then DriverCan::close().        *)
(***************************************************************************)

\* Mutant: a servo that is parked already is parked again.
ParkServoAgain ==
    /\ phase = "park" /\ pc = "next" /\ cur <= NumServos
    /\ \/ /\ Sent(cur, "command") /\ BeginEnable(FALSE)
          /\ pc' = "mode" /\ UNCHANGED <<phase, cur>>
       \/ /\ NotSent /\ NextServo /\ UNCHANGED <<want, tries, resetTried, rc>>
    /\ UNCHANGED <<running, rx, cache, servoVars, excused>>

ParkServo ==
    /\ phase = "park" /\ pc = "next" /\ cur <= NumServos
    /\ CASE cur \in parked ->
              NextServo /\ UNCHANGED <<motor, queue, faults, want, tries, resetTried, rc>>
         [] OTHER ->
            \/ /\ Sent(cur, "command") /\ BeginEnable(FALSE)
               /\ pc' = "mode" /\ UNCHANGED <<phase, cur>>
            \/ /\ NotSent /\ NextServo /\ UNCHANGED <<want, tries, resetTried, rc>>
    /\ UNCHANGED <<running, rx, cache, servoVars, excused>>

Parked ==
    /\ phase = "park" /\ pc = "check"
    /\ parked' = IF rc = "SUCCESS" THEN parked \cup {cur} ELSE parked
    /\ NextServo
    /\ UNCHANGED <<driverVars, rc, running, rx, queue, motor, cache, moved, dead,
                   thermal, failed, faults, excused>>

CloseDriver ==
    /\ phase = "park" /\ pc = "next" /\ cur > NumServos
    /\ running' = FALSE
    /\ rx \in {"none", "ended"}
    /\ rx' = "none"
    /\ phase' = "closed"
    /\ UNCHANGED <<cur, pc, driverVars, rc, queue, motor, cache, servoVars, faults,
                   excused>>

StopToClose ==
    /\ phase = "park" /\ pc = "next" /\ cur > NumServos
    /\ running
    /\ running' = FALSE
    /\ UNCHANGED <<phase, cur, pc, driverVars, rc, rx, queue, motor, cache, servoVars,
                   faults, excused>>

ControlStep ==
    /\ \/ Open \/ EnableStep \/ StartServo \/ Started \/ VerifyServo \/ Reverified
       \/ CommandEach \/ ArmStep \/ GroupRead \/ ReadServo \/ Command \/ ParkServo
       \/ Parked \/ StopToClose \/ CloseDriver
    /\ UNCHANGED prompt

(***************************************************************************)
(* Time, and what happens to the motors.  A tick is the protection window  *)
(* (500 ms): longer than one exchange with a servo whose answers are read  *)
(* with 5 ms timeouts, and than the whole pass that arms the windows.      *)
(***************************************************************************)

InExchange ==
    \/ pc \in {"send", "reset", "disarm", "drain"}
    \/ pc = "read" /\ Enabling
    \/ phase = "arm" /\ pc \in {"query", "reply", "write", "drainWrite"}

Older(c) == [c EXCEPT !.age = IF c.seen /\ @ < MaxAge THEN @ + 1 ELSE @]

\* A motor that heard nothing for a window trips if the window is armed.
Tick ==
    /\ phase \notin {"open", "closed"} /\ ~InExchange
    /\ motor' = [s \in Servos |->
                    [motor[s] EXCEPT !.quiet = TRUE,
                                     !.status = IF motor[s].quiet /\ motor[s].window /\ @ = "on"
                                                THEN "commLoss" ELSE @]]
    /\ cache' = [s \in Servos |-> Older(cache[s])]
    /\ prompt' = (/\ prompt /\ phase = "run" /\ running /\ queue = <<>>
                  /\ \A s \in Servos : motor[s].plugged /\ ~motor[s].quiet)
    /\ UNCHANGED <<phase, cur, pc, driverVars, rc, running, rx, queue, servoVars,
                   faults, excused>>

Fails(s) == excused' = excused \cup {s} /\ prompt' = FALSE

\* A cable is cut; a protection of the motor itself trips; a hot motor cools.
Unplug(s) ==
    /\ Strikes("unplug") /\ motor[s].plugged
    /\ motor' = [motor EXCEPT ![s].plugged = FALSE]
    /\ Fails(s)
    /\ UNCHANGED <<phase, cur, pc, driverVars, rc, running, rx, queue, cache,
                   servoVars>>

Trip(s, status) ==
    /\ Strikes(status) /\ motor[s].status = "on"
    /\ motor' = [motor EXCEPT ![s].status = status]
    /\ Fails(s)
    /\ UNCHANGED <<phase, cur, pc, driverVars, rc, running, rx, queue, cache,
                   servoVars>>

Cool(s) ==
    /\ motor[s].status = "hot"
    /\ motor' = [motor EXCEPT ![s].status = "off"]
    /\ Fails(s)
    /\ UNCHANGED <<phase, cur, pc, driverVars, rc, running, rx, queue, cache,
                   servoVars, faults>>

MotorStep == \E s \in Servos : Unplug(s) \/ Cool(s)
                               \/ \E status \in IsFault : Trip(s, status)

Next == ControlStep \/ (Stop /\ UNCHANGED prompt) \/ ReceptionStep \/ ReceiveFails
        \/ Tick \/ MotorStep

RecoveryEnds == phase = "recover" /\ Stop /\ UNCHANGED prompt

\* Both threads are scheduled and time passes, and a recovery does not go on
\* for ever (RecoveryTearsDown of MCDeviceLiveness); faults and the request to
\* stop need not happen.
Fairness == /\ WF_vars(ControlStep) /\ WF_vars(ReceptionStep) /\ WF_vars(Tick)
            /\ SF_vars(RecoveryEnds)

Spec == Init /\ [][Next]_vars /\ Fairness

(***************************************************************************)
(* Properties.                                                             *)
(***************************************************************************)

\* While a transaction reads the answers of a servo synchronously, the
\* reception thread is gone: it cannot take an answer from under the
\* handshake (stop_reception() in enable() and arm_comm_loss_protection()).
ReaderIsAlone == InExchange => rx = "none"

\* When the command stream starts every motor is enabled and its protection
\* window is the one the device's policy asks for, unless a write could not
\* be sent or the motor failed by itself: neither a window left over from an
\* earlier run nor the arming itself trips a motor, however slow the other
\* servos of the bus are (pi_control_node.cpp, before the loop).
StreamStartsEnabled ==
    [][phase = "arm" /\ phase' = "run" =>
         \A s \in Servos \ excused : /\ motor'[s].status = Healthy(s)
                                      /\ motor'[s].window = StopOnLoss]_vars

\* Once the thermal fault of an effector servo is latched the driver never
\* addresses the motor again and the motor stays off, even when it has cooled
\* down: the teardown neither retries nor re-enables it
\* (latch_effector_thermal_fault() marks it parked before the I/O).
Pending(s, q) == Cardinality({i \in 1 .. Len(q) : q[i].id = s})

ThermalStopIsFinal ==
    \A s \in thermal : /\ Pending(s, queue') <= Pending(s, queue)
                       /\ motor[s].status # "on" => motor'[s].status # "on"

\* A servo that park_safely() reports as parked is disabled, as long as it is
\* connected.
ParkedIsOff ==
    \A s \in parked \ (Encos \cup thermal) : motor[s].plugged => motor[s].status # "on"

\* As long as every servo answers every command and the answers are received,
\* the staleness scan of the command stream declares no servo dead, once the
\* scan of the start has found them all.
AnsweringServoIsAlive == [][phase = "run" /\ prompt /\ dead = {} => dead' = {}]_vars

\* The start-up and the shut-down come to an end whatever the servos answer,
\* and when the reception thread has died the staleness scan ends the stream:
\* again and again the bus is closed or streaming with a live receiver.
BusEnds == []<>(phase = "closed" \/ (phase = "run" /\ rx # "ended"))

\* A motor that the driver counts as switched off is off and stays off.
OffStaysOff == [][ThermalStopIsFinal /\ (TypeOK /\ ParkedIsOff)']_vars
=============================================================================
