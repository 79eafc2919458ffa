---------------------------- MODULE CanMitProofs ----------------------------
(***************************************************************************)
(* The CAN bus for every number of servos, every mix of DM and ENCOS       *)
(* servos, every number of retries, every size of the socket's buffer and  *)
(* every fault: the reader of an exchange is alone on the socket, a motor  *)
(* that the driver counts as switched off is off and stays off, and a      *)
(* stream starts with every motor enabled and its window as the policy     *)
(* asks.  For a buffer with room for one answer of each servo, a servo     *)
(* that answers every command is never declared dead.                      *)
(***************************************************************************)
EXTENDS CanMit, FiniteSetTheorems, TLAPS

(* Where a pass over the servos leads: to the next one, back to the first,   *)
(* from the stream into the recovery, and from the start to the verification *)
(* or to the park.                                                           *)
LEMMA StreamMoves ==
    ASSUME GroupRead \/ ReadServo \/ Command
    PROVE  /\ phase \in {"read", "run", "recover"}
           /\ \/ pc = "next" /\ cur = 1 /\ pc' = "read" /\ UNCHANGED <<phase, cur>>
              \/ /\ phase \in {"run", "recover"} /\ pc = "read" /\ pc' = "write"
                 /\ UNCHANGED <<phase, cur>>
              \/ /\ pc \in {"read", "write"} /\ cur < NumServos
                 /\ cur' = cur + 1 /\ pc' = "read" /\ phase' = phase
              \/ phase = "run" /\ Enter("recover")
              \/ phase = "read" /\ pc = "read" /\ (Enter("verify") \/ Enter("park"))
              \/ phase \in {"run", "recover"} /\ Enter(phase)
  <1> USE DEF Recover, ToPark, Enter
  <1>1. CASE GroupRead
    BY <1>1 DEF GroupRead
  <1>2. CASE ReadServo
    <2>1. phase \in {"read", "run", "recover"} /\ pc = "read"
      BY <1>2 DEF ReadServo
    <2>2. CASE ReadHealthy
      BY <2>1, <2>2 DEF ReadHealthy, Onward
    <2>3. CASE ReadFault
      BY <2>1, <2>3 DEF ReadFault, Onward
    <2> QED
      BY <1>2, <2>2, <2>3 DEF ReadServo
  <1>3. CASE Command
    BY <1>3 DEF Command, Onward
  <1> QED
    BY <1>1, <1>2, <1>3

(* A pass over the servos is no transaction of the driver.                   *)
LEMMA StreamKeeps ==
    ASSUME GroupRead \/ ReadServo \/ Command
    PROVE  UNCHANGED <<want, tries, resetTried, rc, running, rx, cache, excused>>
  <1>1. CASE GroupRead
    BY <1>1 DEF GroupRead, driverVars
  <1>2. CASE ReadServo
    BY <1>2, Zenon DEF ReadServo, driverVars
  <1>3. CASE Command
    BY <1>3 DEF Command, driverVars
  <1> QED
    BY <1>1, <1>2, <1>3

(* A read leaves the bus alone unless it latches the effector's servo, which *)
(* ends the start or the stream.                                             *)
LEMMA ReadEffect ==
    ASSUME ReadServo
    PROVE  \/ UNCHANGED <<motor, queue, faults, thermal, parked>>
           \/ /\ Latch(cur) /\ cur \in Effector
              /\ phase \in {"read", "run"} /\ phase' \in {"recover", "park"}
  <1>1. CASE ReadHealthy
    BY <1>1 DEF ReadHealthy
  <1>2. CASE ReadFault /\ ~Overheats(cur)
    BY <1>2 DEF ReadFault
  <1>3. CASE ReadFault /\ Overheats(cur)
    <2>1. Latch(cur) /\ ~Unread(cur)
      BY <1>3 DEF ReadFault
    <2>2. cur \in Effector /\ phase \in {"read", "run"}
      BY <1>3, <2>1 DEF Overheats, Unread, ReadServo
    <2>3. Mates(cur) \subseteq failed \cup {cur}
      BY <2>2, EffectorAssumption DEF Mates
    <2>4. phase' \in {"recover", "park"}
      BY <1>3, <2>2, <2>3 DEF ReadFault, Recover, ToPark, Enter
    <2> QED
      BY <2>1, <2>2, <2>4
  <1> QED
    BY <1>1, <1>2, <1>3 DEF ReadServo

-----------------------------------------------------------------------------
(***************************************************************************)
(* The reader.  An exchange is only entered through stop_reception() and   *)
(* the join, and left before the thread is started again.                  *)
(***************************************************************************)
LEMMA ReaderStep ==
    ASSUME ReaderIsAlone, [Next]_vars
    PROVE  ReaderIsAlone'
  <1> USE DEF ReaderIsAlone, InExchange, Enabling, Enter, NextServo, ToPark
  <1>1. CASE EnableStep
    <2>1. Enabling /\ phase # "arm" /\ phase' = phase
      BY <1>1 DEF EnableStep, Enabling, EnableEncos, WriteMode, StopReception,
                  JoinReception, SendEnable, ReadTimesOut, SkipForeign,
                  TakeAnswer,
                  SendReset, Disarm, DrainAck, RestartReception
    <2>2. CASE EnableEncos \/ WriteMode \/ StopReception("send") \/ JoinReception("send")
      BY <2>1, <2>2 DEF EnableEncos, WriteMode, StopReception, JoinReception
    <2>3. CASE SendEnable \/ ReadTimesOut \/ SkipForeign
      BY <2>1, <2>3 DEF SendEnable, ReadTimesOut, SkipForeign, GiveUp, TryAgain
    <2>4. CASE TakeAnswer \/ SendReset \/ Disarm
      BY <2>1, <2>4 DEF TakeAnswer, SendReset, Disarm, TryAgain
    <2>5. CASE DrainAck \/ RestartReception
      BY <2>1, <2>5 DEF DrainAck, RestartReception
    <2> QED
      BY <1>1, <2>2, <2>3, <2>4, <2>5 DEF EnableStep
  <1>2. CASE ArmStep
    <2>1. CASE BeginArm \/ StopReception("query") \/ JoinReception("query")
      BY <1>2, <2>1 DEF ArmStep, BeginArm, StopReception, JoinReception
    <2>2. CASE QueryWindow \/ TakeReply \/ WriteWindow \/ DrainWrite
      BY <1>2, <2>2
         DEF ArmStep, QueryWindow, TakeReply, WriteWindow, DrainWrite, ArmNext
    <2>3. CASE EndArm
      BY <2>3 DEF EndArm
    <2> QED
      BY <1>2, <2>1, <2>2, <2>3 DEF ArmStep
  <1>3. CASE Open \/ StartServo \/ Started \/ VerifyServo \/ Reverified
    BY <1>3
       DEF Open, StartServo, Started, VerifyServo, Verifying, Verified,
           Reverified
  <1>4. CASE CommandEach \/ Stop
    BY <1>4 DEF CommandEach, Stop
  <1>9. CASE GroupRead \/ ReadServo \/ Command
    BY <1>9, StreamMoves DEF Enabling
  <1>5. CASE ParkServo \/ Parked \/ StopToClose \/ CloseDriver
    BY <1>5 DEF ParkServo, Parked, StopToClose, CloseDriver
  <1>6. CASE ReceptionStep \/ ReceiveFails
    BY <1>6 DEF ReceptionStep, Receive, SelectTimesOut, ReceiveFails
  <1>7. CASE Tick \/ MotorStep
    BY <1>7 DEF Tick, MotorStep, Unplug, Cool, Trip
  <1>8. CASE UNCHANGED vars
    BY <1>8 DEF vars
  <1> QED
    BY <1>1, <1>2, <1>3, <1>4, <1>5, <1>6, <1>7, <1>8, <1>9 DEF Next, ControlStep

(***************************************************************************)
(* While the driver reads a servo's answers itself, the reception thread   *)
(* is gone (stop_reception() before every handshake).                      *)
(***************************************************************************)
THEOREM ReaderAlone == Spec => []ReaderIsAlone
  <1>1. Init => ReaderIsAlone
    BY DEF Init, ReaderIsAlone, InExchange
  <1> QED
    BY <1>1, ReaderStep, PTL DEF Spec

-----------------------------------------------------------------------------
(***************************************************************************)
(* The types, and what every call of the driver relies on: the servo at    *)
(* cur exists, and an attempt is only counted while there is one left.     *)
(***************************************************************************)
MotorState == [status : Statuses, window : BOOLEAN, quiet : BOOLEAN, plugged : BOOLEAN]
CacheEntry == [seen : BOOLEAN, error : Statuses, age : 0 .. MaxAge]

FlowTypes ==
    /\ phase \in Phases
    /\ cur \in 1 .. NumServos + 1
    /\ pc \in {"next", "mode", "stop", "join", "send", "read", "disarm", "drain",
               "restart", "query", "reply", "reset", "write", "drainWrite",
               "check"}
    /\ pc \notin {"next", "query"} => cur \in Servos

RetryTypes ==
    /\ tries \in 0 .. Retries
    /\ Enabling /\ pc \in {"read", "reset"} => tries < Retries

FlagTypes ==
    /\ want \in BOOLEAN
    /\ resetTried \in BOOLEAN
    /\ rc \in {"SUCCESS", "FAIL", "HARDWARE_FAULT"}
    /\ running \in BOOLEAN
    /\ rx \in {"none", "select", "ended"}
    /\ moved \in BOOLEAN
    /\ faults \in 0 .. MaxFaults
    /\ prompt \in BOOLEAN

BusTypes ==
    /\ queue \in Seq(Frames) /\ Len(queue) <= Capacity
    /\ motor \in [Servos -> MotorState]

SetTypes ==
    /\ cache \in [Servos -> CacheEntry]
    /\ dead \subseteq Servos
    /\ thermal \subseteq Servos
    /\ parked \subseteq Servos
    /\ failed \subseteq Servos
    /\ excused \subseteq Servos

(* What the firmware makes of a frame is a state of a motor.                 *)
LEMMA FirmwareTypes ==
    ASSUME NEW m \in MotorState, NEW s, NEW frame
    PROVE  AfterFrame(s, m, frame) \in MotorState
  <1>1. \A b \in BOOLEAN : AfterWindow(m, b) \in MotorState
    BY DEF AfterWindow, MotorState, Statuses
  <1>2. [m EXCEPT !.quiet = FALSE] \in MotorState
    BY DEF MotorState
  <1>3. \A k \in MotorState : [k EXCEPT !.quiet = FALSE] \in MotorState
    BY DEF MotorState
  <1>4. \A k \in MotorState, x \in Statuses : [k EXCEPT !.status = x] \in MotorState
    BY DEF MotorState
  <1>5. \A k \in MotorState : k.status \in Statuses
    BY DEF MotorState
  <1>6. "on" \in Statuses /\ "off" \in Statuses
    BY DEF Statuses
  <1> HIDE DEF MotorState, Statuses
  <1> QED
    BY <1>1, <1>2, <1>3, <1>4, <1>5, <1>6 DEF AfterFrame

(* So is what a motor answers a frame.                                       *)
LEMMA AnswerTypes ==
    ASSUME NEW m \in MotorState, NEW s \in Servos, NEW frame,
           NEW a \in Answers(s, m, frame)
    PROVE  a \in Frames /\ a.id = s
  <1>1. Answer(s, m, frame) \in Frames /\ Answer(s, m, frame).id = s
    BY DEF Answer, Frames, MotorState, Statuses
  <1>2. \A f \in Frames : [f EXCEPT !.kind = "alias"] \in Frames
                          /\ [f EXCEPT !.kind = "alias"].id = f.id
    BY DEF Frames
  <1> QED
    BY <1>1, <1>2 DEF Answers

(* A frame changes the motor it is addressed to, and adds at most one answer *)
(* of that motor to the buffer.                                              *)
LEMMA DeliverTypes ==
    ASSUME BusTypes, NEW s \in Servos, NEW frame, Deliver(s, frame)
    PROVE  /\ BusTypes'
           /\ \A k \in Servos : k # s => motor'[k] = motor[k]
           /\ motor'[s] = IF motor[s].plugged THEN AfterFrame(s, motor[s], frame) ELSE motor[s]
           /\ \/ queue' = queue
              \/ \E a \in Frames : a.id = s /\ queue' = Append(queue, a)
  <1>1. CASE ~motor[s].plugged
    BY <1>1 DEF Deliver, BusTypes
  <1>2. CASE motor[s].plugged
    <2> DEFINE m == AfterFrame(s, motor[s], frame)
    <2>1. m \in MotorState
      BY FirmwareTypes DEF BusTypes
    <2> HIDE DEF m
    <2>2. motor' = [motor EXCEPT ![s] = m]
      BY <1>2 DEF Deliver, m
    <2>3. PICK a \in Answers(s, m, frame) :
              queue' = IF Len(queue) < Capacity THEN Append(queue, a) ELSE queue
      BY <1>2 DEF Deliver, m
    <2>4. a \in Frames /\ a.id = s
      BY <2>1, AnswerTypes
    <2>5. queue' \in Seq(Frames) /\ Len(queue') <= Capacity
      BY <2>3, <2>4, LimitsAssumption DEF BusTypes
    <2>6. motor' \in [Servos -> MotorState] /\ motor'[s] = m
          /\ \A k \in Servos : k # s => motor'[k] = motor[k]
      BY <2>1, <2>2 DEF BusTypes
    <2> QED
      BY <1>2, <2>3, <2>4, <2>5, <2>6 DEF BusTypes, m
  <1> QED
    BY <1>1, <1>2

(* The control flow of the driver's calls.                                   *)
LEMMA FlowStep ==
    ASSUME FlowTypes, [Next]_vars
    PROVE  FlowTypes'
  <1> USE NumServosAssumption
         DEF FlowTypes, Phases, Servos, Enter, NextServo, ToPark
  <1>1. ASSUME EnableStep PROVE FlowTypes'
    <2>1. phase' = phase /\ cur' = cur
      BY <1>1
         DEF EnableStep, EnableEncos, WriteMode, StopReception, JoinReception,
                  SendEnable, ReadTimesOut, SkipForeign, TakeAnswer, SendReset,
                  Disarm,
                  DrainAck, RestartReception
    <2>2. pc # "next" /\ phase # "arm"
      BY <1>1
         DEF EnableStep, Enabling, EnableEncos, WriteMode, StopReception,
             JoinReception,
                  SendEnable, ReadTimesOut, SkipForeign, TakeAnswer, SendReset,
                  Disarm,
                  DrainAck, RestartReception
    <2>3. pc # "query" 
      BY <1>1
         DEF EnableStep, EnableEncos, WriteMode, StopReception, JoinReception,
                  SendEnable, ReadTimesOut, SkipForeign, TakeAnswer, SendReset,
                  Disarm,
                  DrainAck, RestartReception
    <2>4. pc' \in {"stop", "check", "join", "send", "read", "disarm", "drain", "restart",
                   "reset"}
      BY <1>1
         DEF EnableStep, EnableEncos, WriteMode, StopReception, JoinReception,
                  SendEnable, ReadTimesOut, SkipForeign, TakeAnswer, SendReset,
                  Disarm,
                  DrainAck, RestartReception, GiveUp, TryAgain
    <2> QED
      BY <2>1, <2>2, <2>3, <2>4
  <1>2. ASSUME ArmStep PROVE FlowTypes'
    <2>1. phase = "arm"
      BY <1>2 DEF ArmStep
    <2>2. CASE BeginArm
      BY <2>1, <2>2 DEF BeginArm
    <2>3. CASE StopReception("query")
      BY <2>1, <2>3 DEF StopReception
    <2>4. CASE JoinReception("query")
      BY <2>1, <2>4 DEF JoinReception
    <2>5. CASE QueryWindow
      BY <2>1, <2>5 DEF QueryWindow, ArmNext
    <2>6. CASE TakeReply
      BY <2>1, <2>6 DEF TakeReply, ArmNext
    <2>7. CASE WriteWindow
      BY <2>1, <2>7 DEF WriteWindow, ArmNext
    <2>8. CASE DrainWrite
      BY <2>1, <2>8 DEF DrainWrite, ArmNext
    <2>9. CASE EndArm
      BY <2>9 DEF EndArm
    <2> QED
      BY <1>2, <2>2, <2>3, <2>4, <2>5, <2>6, <2>7, <2>8, <2>9 DEF ArmStep
  <1>3. CASE Open
    BY <1>3 DEF Open
  <1>4. CASE StartServo
    <2>1. \/ Enter("read")
          \/ ~(cur > NumServos) /\ pc' = "mode" /\ UNCHANGED <<phase, cur>>
      BY <1>4, Zenon DEF StartServo
    <2> QED
      BY <2>1
  <1>5. CASE Started
    BY <1>5 DEF Started
  <1>6. CASE VerifyServo
    <2>1. \/ Verified
          \/ ~(cur > NumServos) /\ (NextServo \/ ToPark)
          \/ ~(cur > NumServos) /\ pc' = "mode" /\ UNCHANGED <<phase, cur>>
      BY <1>6, Zenon DEF VerifyServo
    <2> QED
      BY <2>1 DEF Verified
  <1>7. CASE Reverified
    BY <1>7 DEF Reverified
  <1>8. CASE CommandEach
    <2>1. \/ Enter(IF phase = "hold" THEN "probe" ELSE "reverify")
          \/ cur <= NumServos /\ (NextServo \/ ToPark)
      BY <1>8 DEF CommandEach
    <2> QED
      BY <2>1
  <1>9. CASE GroupRead \/ ReadServo \/ Command
    BY <1>9, StreamMoves DEF Phases
  <1>11. CASE Stop
    BY <1>11 DEF Stop
  <1>12. CASE ParkServo
    <2>1. \/ cur <= NumServos /\ NextServo
          \/ cur <= NumServos /\ pc' = "mode" /\ UNCHANGED <<phase, cur>>
      BY <1>12 DEF ParkServo
    <2> QED
      BY <2>1
  <1>13. CASE Parked
    BY <1>13 DEF Parked
  <1>14. CASE StopToClose \/ CloseDriver
    BY <1>14 DEF StopToClose, CloseDriver
  <1>15. CASE ReceptionStep \/ ReceiveFails \/ Tick \/ MotorStep \/ UNCHANGED vars
    <2>1. UNCHANGED <<phase, cur, pc>>
      BY <1>15
         DEF ReceptionStep, Receive, SelectTimesOut, ReceiveFails, Tick,
             MotorStep,
                   Unplug, Cool, Trip, vars
    <2> QED
      BY <2>1
  <1> QED
    BY <1>1, <1>2, <1>3, <1>4, <1>5, <1>6, <1>7, <1>8, <1>9, <1>11,
       <1>12,
       <1>13, <1>14, <1>15 DEF Next, ControlStep

(* An attempt of a handshake is only counted while there is one left.        *)
LEMMA RetryStep ==
    ASSUME RetryTypes, [Next]_vars
    PROVE  RetryTypes'
  <1> USE LimitsAssumption DEF RetryTypes, Enabling
  <1>1. ASSUME EnableStep PROVE RetryTypes'
    <2>1. Enabling /\ phase' = phase
      BY <1>1
         DEF EnableStep, EnableEncos, WriteMode, StopReception, JoinReception,
                  SendEnable, ReadTimesOut, SkipForeign, TakeAnswer, SendReset,
                  Disarm,
                  DrainAck, RestartReception
    <2>2. CASE SendEnable
      <3>1. \/ tries = Retries /\ tries' = tries /\ pc' = "restart"
            \/ tries # Retries /\ tries' = tries /\ pc' = "read"
            \/ tries # Retries /\ tries' = tries + 1 /\ pc' = "send"
            \/ tries' = tries /\ pc' = "restart"
        BY <2>2 DEF SendEnable, GiveUp, TryAgain
      <3> QED
        BY <2>1, <3>1
    <2>3. CASE ReadTimesOut \/ SendReset
      <3>1. \/ pc \in {"read", "reset"} /\ tries' = tries + 1 /\ pc' = "send"
            \/ tries' = tries /\ pc' = "restart"
        BY <2>3 DEF ReadTimesOut, SendReset, TryAgain
      <3> QED
        BY <2>1, <3>1
    <2>4. CASE EnableEncos \/ WriteMode \/ StopReception("send") \/ JoinReception("send")
               \/ Disarm \/ DrainAck \/ RestartReception
      <3>1. tries' = tries /\ pc' \notin {"read", "reset"}
        BY <2>4
           DEF EnableEncos, WriteMode, StopReception, JoinReception, Disarm,
               DrainAck,
                    RestartReception, driverVars
      <3> QED
        BY <2>1, <3>1
    <2>5. CASE TakeAnswer \/ SkipForeign
      <3>1. pc = "read" /\ tries' = tries
        BY <2>5 DEF TakeAnswer, SkipForeign, driverVars
      <3> QED
        BY <2>1, <3>1
    <2> QED
      BY <1>1, <2>2, <2>3, <2>4, <2>5 DEF EnableStep
  <1>2. ASSUME tries' = tries, pc' \notin {"read", "reset"} PROVE RetryTypes'
    BY <1>2
  <1>3. ASSUME tries' = tries, phase' \notin {"start", "verify", "reverify", "park"}
        PROVE  RetryTypes'
    BY <1>3
  <1>4. CASE ArmStep
    <2>1. tries' = tries /\ pc' \notin {"read", "reset"}
      BY <1>4
         DEF ArmStep, BeginArm, StopReception, JoinReception, QueryWindow,
             TakeReply,
                  WriteWindow, DrainWrite, EndArm, ArmNext, Enter, driverVars
    <2> QED
      BY <1>2, <2>1
  <1>5. CASE Open \/ Started \/ Reverified \/ Stop \/ Parked \/ CommandEach
    <2>1. tries' = tries /\ pc' = "next"
      BY <1>5
         DEF Open, Started, Reverified, Stop, Parked, CommandEach, Enter,
             NextServo,
                  ToPark, driverVars
    <2> QED
      BY <1>2, <2>1
  <1>6. CASE StartServo \/ VerifyServo \/ ParkServo
    <2>1. (tries' = tries \/ tries' = 0) /\ pc' \in {"next", "mode"}
      <3>1. CASE StartServo
        BY <3>1, Zenon DEF StartServo, BeginEnable, Enter
      <3>2. CASE VerifyServo
        BY <3>2, Zenon
           DEF VerifyServo, Verified, BeginEnable, Enter, NextServo, ToPark
      <3>3. CASE ParkServo
        BY <3>3, Zenon DEF ParkServo, BeginEnable, NextServo
      <3> QED
        BY <1>6, <3>1, <3>2, <3>3
    <2> QED
      BY <2>1
  <1>7. CASE GroupRead \/ ReadServo \/ Command
    <2>1. tries' = tries /\ phase \in {"read", "run", "recover"}
          /\ (pc' \notin {"read", "reset"} \/ phase' = phase)
      BY <1>7, StreamMoves, StreamKeeps DEF Enter
    <2> QED
      BY <1>2, <1>3, <2>1
  <1>8. CASE StopToClose \/ CloseDriver
    <2>1. tries' = tries /\ pc' = "next"
      BY <1>8 DEF StopToClose, CloseDriver, driverVars
    <2> QED
      BY <1>2, <2>1
  <1>9. CASE ReceptionStep \/ ReceiveFails \/ Tick \/ MotorStep \/ UNCHANGED vars
    <2>1. UNCHANGED <<phase, tries, pc>>
      BY <1>9
         DEF ReceptionStep, Receive, SelectTimesOut, ReceiveFails, Tick,
             MotorStep,
                  Unplug, Cool, Trip, vars, driverVars
    <2> QED
      BY <2>1
  <1> QED
    BY <1>1, <1>4, <1>5, <1>6, <1>7, <1>8, <1>9 DEF Next, ControlStep

(* The flags of the driver and its threads.                                  *)
LEMMA FlagStep ==
    ASSUME FlagTypes, [Next]_vars
    PROVE  FlagTypes'
  <1> USE DEF FlagTypes, driverVars, servoVars
  <1>1. ASSUME EnableStep, UNCHANGED prompt PROVE FlagTypes'
    <2>1. UNCHANGED <<want, moved>>
      BY <1>1
         DEF EnableStep, EnableEncos, WriteMode, StopReception, JoinReception,
                  SendEnable, ReadTimesOut, SkipForeign, TakeAnswer, SendReset,
                  Disarm,
                  DrainAck, RestartReception
    <2>2. resetTried' \in BOOLEAN
      <3>1. CASE TakeAnswer
        BY <3>1 DEF TakeAnswer
      <3>2. CASE ~TakeAnswer
        BY <1>1, <3>2
           DEF EnableStep, EnableEncos, WriteMode, StopReception, JoinReception,
                          SendEnable, ReadTimesOut, SkipForeign, SendReset,
                          Disarm,
                          DrainAck, RestartReception, GiveUp, TryAgain
      <3> QED
        BY <3>1, <3>2
    <2>3. rc' \in {rc, "SUCCESS", "FAIL", "HARDWARE_FAULT"}
      BY <1>1
         DEF EnableStep, EnableEncos, WriteMode, StopReception, JoinReception,
                  SendEnable, ReadTimesOut, SkipForeign, TakeAnswer, SendReset,
                  Disarm,
                  DrainAck, RestartReception, GiveUp, TryAgain
    <2>4. running' \in {running, TRUE, FALSE} /\ rx' \in {rx, "none", "select"}
      BY <1>1, Zenon
         DEF EnableStep, EnableEncos, WriteMode, StopReception, JoinReception,
                  SendEnable, ReadTimesOut, SkipForeign, TakeAnswer, SendReset,
                  Disarm,
                  DrainAck, RestartReception, Restarted
    <2>5. faults' \in 0 .. MaxFaults
      BY <1>1, LimitsAssumption
         DEF EnableStep, EnableEncos, WriteMode, StopReception, JoinReception,
             SendEnable, ReadTimesOut, SkipForeign, TakeAnswer, SendReset,
             Disarm,
             DrainAck, RestartReception, Sent, NotSent, Strikes
    <2> QED
      BY <1>1, <2>1, <2>2, <2>3, <2>4, <2>5
  <1>2. ASSUME ArmStep, UNCHANGED prompt PROVE FlagTypes'
    <2>1. UNCHANGED <<want, resetTried, rc, moved>>
      BY <1>2
         DEF ArmStep, BeginArm, StopReception, JoinReception, QueryWindow,
             TakeReply,
                  WriteWindow, DrainWrite, EndArm
    <2>2. running' \in {running, TRUE, FALSE} /\ rx' \in {rx, "none", "select"}
      BY <1>2, Zenon
         DEF ArmStep, BeginArm, StopReception, JoinReception, QueryWindow,
                  TakeReply, WriteWindow, DrainWrite, EndArm, Restarted
    <2>3. faults' \in 0 .. MaxFaults
      BY <1>2, LimitsAssumption
         DEF ArmStep, BeginArm, StopReception, JoinReception, QueryWindow,
             TakeReply,
             WriteWindow, DrainWrite, EndArm, Sent, NotSent, Strikes
    <2> QED
      BY <1>2, <2>1, <2>2, <2>3
  <1>3. ASSUME Open \/ Reverified \/ StopToClose \/ CloseDriver \/ Stop, UNCHANGED prompt
        PROVE  FlagTypes'
    <2>1. UNCHANGED <<want, resetTried, rc, moved, faults>>
      BY <1>3 DEF Open, Reverified, StopToClose, CloseDriver, Stop
    <2>2. running' \in {running, TRUE, FALSE} /\ rx' \in {rx, "none", "select"}
      BY <1>3, Zenon
         DEF Open, Reverified, StopToClose, CloseDriver, Stop, Restarted
    <2> QED
      BY <1>3, <2>1, <2>2
  <1>4. ASSUME StartServo \/ VerifyServo \/ ParkServo, UNCHANGED prompt PROVE FlagTypes'
    <2>1. UNCHANGED <<running, rx, moved>>
      BY <1>4, Zenon DEF StartServo, VerifyServo, ParkServo
    <2>2. want' \in {want, TRUE, FALSE} /\ resetTried' \in {resetTried, FALSE}
          /\ rc' \in {rc, "SUCCESS"}
      <3>1. CASE StartServo
        BY <3>1, Zenon DEF StartServo, BeginEnable
      <3>2. CASE VerifyServo
        BY <3>2, Zenon DEF VerifyServo, BeginEnable
      <3>3. CASE ParkServo
        BY <3>3, Zenon DEF ParkServo, BeginEnable
      <3> QED
        BY <1>4, <3>1, <3>2, <3>3
    <2>3. faults' = faults \/ Strikes("busy")
      BY <1>4, Zenon DEF StartServo, VerifyServo, ParkServo, Sent, NotSent
    <2>4. faults' \in 0 .. MaxFaults
      BY <2>3, LimitsAssumption DEF Strikes
    <2> QED
      BY <1>4, <2>1, <2>2, <2>4
  <1>5. ASSUME Started \/ Parked \/ CommandEach \/ ReadServo \/ Command, UNCHANGED prompt
        PROVE  FlagTypes'
    <2>1. UNCHANGED <<want, resetTried, rc, running, rx, moved>>
      BY <1>5, StreamKeeps DEF Started, Parked, CommandEach, ReadServo, Command
    <2>2. faults' = faults \/ Strikes("busy")
      BY <1>5, ReadEffect, Zenon
         DEF Started, Parked, CommandEach, Command, Latch, Sent, NotSent
    <2>3. faults' \in 0 .. MaxFaults
      BY <2>2, LimitsAssumption DEF Strikes
    <2> QED
      BY <1>5, <2>1, <2>3
  <1>6. ASSUME GroupRead, UNCHANGED prompt PROVE FlagTypes'
    <2>1. moved' \in BOOLEAN
      BY <1>6, Zenon DEF GroupRead
    <2>2. UNCHANGED <<want, resetTried, rc, running, rx, faults>>
      BY <1>6 DEF GroupRead
    <2> QED
      BY <1>6, <2>1, <2>2
  <1>7. ASSUME ReceptionStep \/ ReceiveFails PROVE FlagTypes'
    <2>1. UNCHANGED <<want, resetTried, rc, moved>>
      BY <1>7 DEF ReceptionStep, Receive, SelectTimesOut, ReceiveFails
    <2>2. running' \in {running, FALSE} /\ prompt' \in {prompt, FALSE}
          /\ rx' \in {"select", "ended"}
      BY <1>7, Zenon DEF ReceptionStep, Receive, SelectTimesOut, ReceiveFails
    <2>3. faults' = faults \/ Strikes("rx")
      BY <1>7 DEF ReceptionStep, Receive, SelectTimesOut, ReceiveFails
    <2>4. faults' \in 0 .. MaxFaults
      BY <2>3, LimitsAssumption DEF Strikes
    <2> QED
      BY <2>1, <2>2, <2>4
  <1>8. CASE Tick
    <2>1. prompt' \in BOOLEAN
      BY <1>8, Zenon DEF Tick
    <2>2. UNCHANGED <<want, resetTried, rc, running, rx, moved, faults>>
      BY <1>8 DEF Tick
    <2> QED
      BY <2>1, <2>2
  <1>9. CASE MotorStep
    <2>1. UNCHANGED <<want, resetTried, rc, running, rx, moved>> /\ prompt' = FALSE
      BY <1>9 DEF MotorStep, Unplug, Cool, Trip, Fails
    <2>2. faults' = faults \/ \E f : Strikes(f)
      BY <1>9, Zenon DEF MotorStep, Unplug, Cool, Trip
    <2>3. faults' \in 0 .. MaxFaults
      BY <2>2, LimitsAssumption DEF Strikes
    <2> QED
      BY <2>1, <2>3
  <1>10. CASE UNCHANGED vars
    BY <1>10 DEF vars
  <1> QED
    BY <1>1, <1>2, <1>3, <1>4, <1>5, <1>6, <1>7, <1>8, <1>9, <1>10
       DEF Next, ControlStep

(***************************************************************************)
(* Switching off.  A servo is parked only on the way down, where only the  *)
(* effector's is during the recovery, which does not command it; the       *)
(* teardown never asks for an enable and never addresses a parked servo,   *)
(* and its handshake succeeds only on a motor that heard a disable.        *)
(***************************************************************************)
ParkInv ==
    /\ parked # {} => phase \in {"recover", "park", "closed"}
    /\ phase = "recover" => parked \subseteq Effector
    /\ phase = "recover" /\ pc = "write" => cur \notin Effector
    /\ thermal \subseteq parked
    /\ phase = "park" /\ pc # "next" => ~want /\ cur \notin parked

OffInv ==
    /\ phase = "park" /\ cur \notin Encos /\ motor[cur].plugged
    /\ \/ pc \in {"read", "reset", "disarm", "drain"}
       \/ pc \in {"restart", "check"} /\ rc = "SUCCESS"
    => motor[cur].status # "on"

(* The way down is one-way, and only park_safely() addresses a servo on it.  *)
LEMMA ParkStep ==
    ASSUME ParkInv, [Next]_vars
    PROVE  ParkInv'
  <1> USE DEF ParkInv, driverVars, servoVars
  <1>1. ASSUME EnableStep PROVE ParkInv'
    <2>1. UNCHANGED <<phase, cur, parked, thermal, want>>
      BY <1>1
         DEF EnableStep, EnableEncos, WriteMode, StopReception, JoinReception,
                  SendEnable, ReadTimesOut, SkipForeign, TakeAnswer, SendReset,
                  Disarm,
                  DrainAck, RestartReception
    <2>2. pc # "next"
      BY <1>1
         DEF EnableStep, EnableEncos, WriteMode, StopReception, JoinReception,
                  SendEnable, ReadTimesOut, SkipForeign, TakeAnswer, SendReset,
                  Disarm,
                  DrainAck, RestartReception
    <2>3. phase # "recover"
      BY <1>1 DEF EnableStep, Enabling
    <2> QED
      BY <2>1, <2>2, <2>3, Zenon
  <1>2. ASSUME phase \notin {"recover", "park", "closed"}, parked' = parked, thermal' = thermal,
               phase' \in {"recover", "park"} => pc' = "next"
        PROVE  ParkInv'
    BY <1>2
  <1>3. CASE ArmStep \/ Open \/ StartServo \/ VerifyServo \/ Reverified \/ CommandEach
    <2>1. phase \notin {"recover", "park", "closed"} /\ parked' = parked /\ thermal' = thermal
      BY <1>3, Zenon
         DEF ArmStep, BeginArm, StopReception, JoinReception, QueryWindow,
                  TakeReply, WriteWindow, DrainWrite, EndArm, Open, StartServo,
                  VerifyServo,
                  Verifying, Reverified, CommandEach
    <2>2. phase' \in {"recover", "park"} => pc' = "next"
      <3>1. CASE ArmStep
        BY <3>1
           DEF ArmStep, BeginArm, StopReception, JoinReception, QueryWindow,
                    TakeReply, WriteWindow, DrainWrite, EndArm, ArmNext, Enter
      <3>2. CASE Open \/ Reverified \/ CommandEach
        BY <3>2
           DEF Open, Reverified, CommandEach, Enter, NextServo, ToPark
      <3>3. CASE StartServo \/ VerifyServo
        BY <2>1, <3>3, Zenon
           DEF StartServo, VerifyServo, Verified, Enter, NextServo, ToPark
      <3> QED
        BY <1>3, <3>1, <3>2, <3>3
    <2> QED
      BY <1>2, <2>1, <2>2
  <1>4. CASE Started
    <2>1. \/ parked' = parked /\ thermal' = thermal
          \/ parked' = parked \cup {cur} /\ thermal' = thermal \cup {cur} /\ phase' = "park"
      BY <1>4 DEF Started, Latch, ToPark, Enter
    <2>2. phase = "start" /\ phase' \in {"start", "park"}
      BY <1>4 DEF Started, ToPark, Enter, NextServo
    <2>3. pc' = "next"
      BY <1>4 DEF Started, ToPark, Enter, NextServo
    <2> QED
      BY <2>1, <2>2, <2>3
  <1>8. CASE Stop
    <2>1. phase' = "park" /\ pc' = "next" /\ UNCHANGED <<parked, thermal>>
      BY <1>8 DEF Stop, ToPark, Enter
    <2> QED
      BY <2>1
  <1>9. CASE GroupRead \/ ReadServo \/ Command
    <2>1. phase \in {"read", "run", "recover"} /\ want' = want
      BY <1>9, StreamMoves, StreamKeeps
    <2>2. /\ phase' \in {"read", "run", "verify", "recover", "park"}
          /\ phase' = "recover" => phase \in {"run", "recover"}
          /\ phase' = "park" => pc' = "next"
          /\ phase = "recover" => phase' = "recover"
      BY <1>9, StreamMoves DEF Enter
    <2>3. phase' = "recover" /\ pc' = "write" => cur' \notin Effector
      <3>1. CASE GroupRead \/ Command
        <4>1. pc' # "write"
          BY <3>1 DEF GroupRead, Command, Onward, Recover, Enter
        <4> QED
          BY <4>1
      <3>2. CASE ReadServo /\ ReadHealthy
        <4>1. pc' = "write" => cur' = cur /\ phase' = phase /\ (phase = "run" \/ ~Unread(cur))
          BY <3>2 DEF ReadHealthy, Onward, Enter
        <4> QED
          BY <4>1 DEF Unread
      <3>3. CASE ReadServo /\ ReadFault
        <4>1. pc' # "write"
          BY <3>3 DEF ReadFault, Onward, Recover, ToPark, Enter
        <4> QED
          BY <4>1
      <3> QED
        BY <1>9, <3>1, <3>2, <3>3 DEF ReadServo
    <2>4. \/ parked' = parked /\ thermal' = thermal
          \/ /\ parked' = parked \cup {cur} /\ thermal' = thermal \cup {cur}
             /\ cur \in Effector /\ phase # "recover" /\ phase' \in {"recover", "park"}
      <3>1. CASE GroupRead \/ Command
        BY <3>1, Zenon DEF GroupRead, Command
      <3>2. CASE ReadServo
        BY <3>2, ReadEffect DEF Latch
      <3> QED
        BY <1>9, <3>1, <3>2
    <2> QED
      BY <2>1, <2>2, <2>3, <2>4
  <1>5. CASE ParkServo
    <2>1. phase = "park" /\ phase' = phase /\ UNCHANGED <<parked, thermal>>
      BY <1>5, Zenon DEF ParkServo, NextServo
    <2>2. \/ pc' = "next"
          \/ want' = FALSE /\ cur \notin parked /\ cur' = cur
      BY <1>5, Zenon DEF ParkServo, NextServo, BeginEnable
    <2> QED
      BY <2>1, <2>2
  <1>6. CASE Parked \/ StopToClose \/ CloseDriver
    <2>1. phase = "park" /\ phase' \in {"park", "closed"} /\ pc' = "next"
      BY <1>6 DEF Parked, StopToClose, CloseDriver, NextServo
    <2>2. parked \subseteq parked' /\ thermal' = thermal
      BY <1>6 DEF Parked, StopToClose, CloseDriver
    <2> QED
      BY <2>1, <2>2
  <1>7. CASE ReceptionStep \/ ReceiveFails \/ Tick \/ MotorStep \/ UNCHANGED vars
    <2>1. UNCHANGED <<phase, cur, pc, parked, thermal, want>>
      BY <1>7
         DEF ReceptionStep, Receive, SelectTimesOut, ReceiveFails, Tick,
             MotorStep,
                  Unplug, Cool, Trip, vars
    <2> QED
      BY <2>1
  <1> QED
    BY <1>1, <1>3, <1>4, <1>5, <1>6, <1>7, <1>8, <1>9 DEF Next, ControlStep

(* What a step does to the bus: nothing, a frame to the servo at cur, a frame *)
(* taken from the buffer, or something that happens to the motors.            *)
LEMMA BusCases ==
    ASSUME cur \in Nat, [Next]_vars
    PROVE  \/ UNCHANGED <<motor, queue>>
           \/ motor' = motor /\ queue # <<>> /\ queue' = Tail(queue)
           \/ /\ pc # "next" \/ ~(cur > NumServos)
              /\ pc = "query" => ~(cur > NumServos)
              /\ phase = "park" /\ pc = "next" => cur \notin parked
              /\ phase # "closed" /\ (phase = "recover" => pc = "write")
              /\ \E frame : /\ Deliver(cur, frame)
                            /\ phase = "recover" => frame # "enable"
                            /\ phase = "park" /\ (~want \/ pc = "next")
                               => frame # "enable"
           \/ Tick
           \/ MotorStep /\ queue' = queue
  <1>1. CASE EnableStep
    <2>1. phase \notin {"recover", "closed"} /\ pc \notin {"next", "query"}
      BY <1>1
         DEF EnableStep, Enabling, EnableEncos, WriteMode, StopReception,
             JoinReception,
                  SendEnable, ReadTimesOut, SkipForeign, TakeAnswer, SendReset,
                  Disarm,
                  DrainAck, RestartReception
    <2>2. CASE EnableEncos
      <3>1. Deliver(cur, "command") \/ UNCHANGED <<motor, queue>>
        BY <2>2, Zenon DEF EnableEncos, Sent, NotSent
      <3>2. "command" # "enable"
        OBVIOUS
      <3> QED
        BY <2>1, <3>1, <3>2, Zenon
    <2>3. CASE WriteMode
      <3>1. Deliver(cur, "mode") \/ UNCHANGED <<motor, queue>>
        BY <2>3, Zenon DEF WriteMode, Sent, NotSent
      <3>2. "mode" # "enable"
        OBVIOUS
      <3> QED
        BY <2>1, <3>1, <3>2, Zenon
    <2>4. CASE SendEnable
      <3>1. \/ Deliver(cur, IF want THEN "enable" ELSE "disable")
            \/ UNCHANGED <<motor, queue>>
        BY <2>4, Zenon DEF SendEnable, Sent, NotSent
      <3>2. want => (IF want THEN "enable" ELSE "disable") = "enable"
        OBVIOUS
      <3>3. ~want => (IF want THEN "enable" ELSE "disable") = "disable"
        OBVIOUS
      <3> QED
        BY <2>1, <3>1, <3>2, <3>3, Zenon
    <2>5. CASE SendReset
      <3>1. Deliver(cur, "reset") \/ UNCHANGED <<motor, queue>>
        BY <2>5, Zenon DEF SendReset, Sent, NotSent
      <3>2. "reset" # "enable"
        OBVIOUS
      <3> QED
        BY <2>1, <3>1, <3>2, Zenon
    <2>6. CASE Disarm
      <3>1. Deliver(cur, "disarm") \/ UNCHANGED <<motor, queue>>
        BY <2>6, Zenon DEF Disarm, Sent, NotSent
      <3>2. "disarm" # "enable"
        OBVIOUS
      <3> QED
        BY <2>1, <3>1, <3>2, Zenon
    <2>7. CASE SkipForeign \/ TakeAnswer \/ DrainAck
      BY <2>7, Zenon DEF SkipForeign, TakeAnswer, DrainAck, Dropped
    <2>8. CASE StopReception("send") \/ JoinReception("send") \/ ReadTimesOut
               \/ RestartReception
      BY <2>8, Zenon
         DEF StopReception, JoinReception, ReadTimesOut, RestartReception
    <2> QED
      BY <1>1, <2>2, <2>3, <2>4, <2>5, <2>6, <2>7, <2>8 DEF EnableStep
  <1>2. CASE ArmStep
    <2>1. phase = "arm"
      BY <1>2 DEF ArmStep
    <2>2. CASE QueryWindow \/ WriteWindow
      <3>1. pc # "next" /\ (pc = "query" => cur <= NumServos)
        BY <2>2 DEF QueryWindow, WriteWindow
      <3>2. UNCHANGED <<motor, queue>> \/ \E frame : Deliver(cur, frame)
        BY <2>2, Zenon DEF QueryWindow, WriteWindow, Sent, NotSent
      <3>3. pc = "query" => ~(cur > NumServos)
        BY <3>1, NumServosAssumption
      <3> QED
        BY <2>1, <3>1, <3>2, <3>3, Zenon
    <2>3. CASE BeginArm \/ StopReception("query") \/ JoinReception("query") \/ EndArm
      BY <2>3, Zenon DEF BeginArm, StopReception, JoinReception, EndArm
    <2>4. CASE TakeReply \/ DrainWrite
      BY <2>4, Zenon DEF TakeReply, DrainWrite, Dropped
    <2> QED
      BY <1>2, <2>2, <2>3, <2>4 DEF ArmStep
  <1>3. CASE Open \/ StartServo \/ VerifyServo \/ Reverified \/ GroupRead \/ Stop \/ Parked
             \/ StopToClose \/ CloseDriver
    BY <1>3, Zenon
       DEF Open, StartServo, VerifyServo, Reverified, GroupRead, Stop, Parked,
                       StopToClose, CloseDriver
  <1>4. CASE Started \/ ReadServo
    <2>1. phase \notin {"park", "closed"} /\ pc \notin {"next", "query"}
      BY <1>4 DEF Started, ReadServo
    <2>2. \/ UNCHANGED <<motor, queue>>
          \/ phase # "recover" /\ \E frame : Deliver(cur, frame)
      <3>1. CASE Started
        <4>1. phase # "recover"
          BY <3>1 DEF Started
        <4>2. UNCHANGED <<motor, queue>> \/ \E frame : Deliver(cur, frame)
          BY <3>1, Zenon DEF Started, Latch, Sent, NotSent
        <4> QED
          BY <4>1, <4>2
      <3>2. CASE ReadServo
        <4>1. UNCHANGED <<motor, queue>> \/ (phase \in {"read", "run"} /\ Latch(cur))
          BY <3>2, ReadEffect
        <4>2. Latch(cur) => UNCHANGED <<motor, queue>> \/ \E frame : Deliver(cur, frame)
          BY Zenon DEF Latch, Sent, NotSent
        <4> QED
          BY <4>1, <4>2
      <3> QED
        BY <1>4, <3>1, <3>2
    <2> QED
      BY <2>1, <2>2, Zenon
  <1>10. CASE Command
    <2>1. phase \notin {"park", "closed"} /\ pc = "write"
      BY <1>10 DEF Command
    <2>2. UNCHANGED <<motor, queue>> \/ Deliver(cur, "command")
      BY <1>10, Zenon DEF Command, Sent, NotSent
    <2>3. "command" # "enable" /\ "write" # "next" /\ "write" # "query"
      OBVIOUS
    <2> QED
      BY <2>1, <2>2, <2>3, Zenon
  <1>5. CASE CommandEach
    <2>1. phase \notin {"recover", "park", "closed"} /\ pc # "query"
      BY <1>5 DEF CommandEach
    <2>2. \/ UNCHANGED <<motor, queue>>
          \/ ~(cur > NumServos) /\ \E frame : Deliver(cur, frame)
      BY <1>5, Zenon DEF CommandEach, Sent, NotSent
    <2> QED
      BY <2>1, <2>2, Zenon
  <1>6. CASE ParkServo
    <2>1. phase \notin {"recover", "closed"} /\ pc = "next" /\ ~(cur > NumServos)
      BY <1>6, NumServosAssumption DEF ParkServo
    <2>2. \/ UNCHANGED <<motor, queue>>
          \/ cur \notin parked /\ Deliver(cur, "command")
      BY <1>6, Zenon DEF ParkServo, Sent, NotSent
    <2>3. "command" # "enable"
      OBVIOUS
    <2> QED
      BY <2>1, <2>2, <2>3, Zenon
  <1>7. CASE ReceptionStep \/ ReceiveFails
    BY <1>7, Zenon DEF ReceptionStep, Receive, SelectTimesOut, ReceiveFails
  <1>8. CASE MotorStep
    BY <1>8, Zenon DEF MotorStep, Unplug, Cool, Trip
  <1>9. CASE UNCHANGED vars
    BY <1>9 DEF vars
  <1> QED
    BY <1>1, <1>2, <1>3, <1>4, <1>5, <1>6, <1>7, <1>8, <1>9, <1>10
       DEF Next, ControlStep

(* A handshake of the teardown reads an answer after it has sent a disable.  *)
LEMMA DisableSent ==
    ASSUME [Next]_vars, phase = "park", pc = "send", pc' = "read", ~want
    PROVE  Deliver(cur, "disable") /\ UNCHANGED <<phase, cur>>
  <1>1. CASE SendEnable
    <2>1. Deliver(cur, IF want THEN "enable" ELSE "disable") /\ UNCHANGED <<phase, cur>>
      BY <1>1 DEF SendEnable, Sent, TryAgain, GiveUp
    <2> QED
      BY <2>1
  <1>2. EnableStep => SendEnable
    BY DEF EnableStep, EnableEncos, WriteMode, StopReception, JoinReception,
           ReadTimesOut, SkipForeign, TakeAnswer, SendReset, Disarm, DrainAck,
           RestartReception
  <1>3. ~(ArmStep \/ Open \/ StartServo \/ Started \/ VerifyServo \/ Reverified \/ CommandEach
          \/ GroupRead \/ ReadServo \/ Command \/ Stop \/ ParkServo \/ Parked \/ StopToClose
          \/ CloseDriver)
    BY DEF ArmStep, Open, StartServo, Started, VerifyServo, Verifying,
           Reverified, CommandEach,
           GroupRead, ReadServo, Command, Stop, ParkServo, Parked, StopToClose,
           CloseDriver
  <1>4. ~(ReceptionStep \/ ReceiveFails \/ Tick \/ MotorStep \/ UNCHANGED vars)
    BY DEF ReceptionStep, Receive, SelectTimesOut, ReceiveFails, Tick,
           MotorStep,
           Unplug, Cool, Trip, vars
  <1> QED
    BY <1>1, <1>2, <1>3, <1>4 DEF Next, ControlStep

(* Only an enable switches a motor on; a disable leaves no motor on.         *)
LEMMA FirmwareOff ==
    ASSUME NEW m \in MotorState, NEW s, NEW frame
    PROVE  /\ AfterFrame(s, m, frame).plugged = m.plugged
           /\ frame # "enable" /\ m.status # "on" => AfterFrame(s, m, frame).status # "on"
           /\ frame = "disable" => AfterFrame(s, m, frame).status # "on"
  <1>1. \A b \in BOOLEAN : /\ AfterWindow(m, b).plugged = m.plugged
                           /\ m.status # "on" => AfterWindow(m, b).status # "on"
                           /\ AfterWindow(m, b) \in MotorState
    BY DEF AfterWindow, MotorState, Statuses
  <1>2. \A k \in MotorState : /\ [k EXCEPT !.quiet = FALSE].plugged = k.plugged
                              /\ [k EXCEPT !.quiet = FALSE].status = k.status
                              /\ [k EXCEPT !.quiet = FALSE] \in MotorState
    BY DEF MotorState
  <1>3. IsResettable = {"commLoss"}
    BY DEF IsResettable
  <1> DEFINE heard == [m EXCEPT !.quiet = FALSE]
  <1>4. heard \in MotorState /\ heard.plugged = m.plugged /\ heard.status = m.status
    BY <1>2
  <1> HIDE DEF heard
  <1>5. CASE frame = "enable"
    <2>1. AfterFrame(s, m, frame)
            = [heard EXCEPT !.status = IF heard.status = "off" THEN "on" ELSE heard.status]
      BY <1>5 DEF AfterFrame, heard
    <2> QED
      BY <1>4, <1>5, <2>1 DEF MotorState
  <1>6. CASE frame = "disable"
    <2>1. AfterFrame(s, m, frame)
            = [heard EXCEPT !.status = IF heard.status = "on" THEN "off" ELSE heard.status]
      BY <1>6 DEF AfterFrame, heard
    <2> QED
      BY <1>4, <1>6, <2>1 DEF MotorState
  <1>7. CASE frame = "reset"
    <2>1. AfterFrame(s, m, frame)
            = [heard EXCEPT !.status = IF heard.status \in IsResettable THEN "off"
                                       ELSE heard.status]
      BY <1>7 DEF AfterFrame, heard
    <2> QED
      BY <1>3, <1>4, <1>7, <2>1 DEF MotorState
  <1>8. CASE frame = "arm" \/ frame = "disarm"
    <2>1. \E b \in BOOLEAN : AfterFrame(s, m, frame) = [AfterWindow(m, b) EXCEPT !.quiet = FALSE]
      BY <1>8 DEF AfterFrame
    <2> QED
      BY <1>1, <1>2, <1>8, <2>1
  <1>9. CASE frame \notin {"enable", "disable", "reset", "arm", "disarm"}
    <2>1. AfterFrame(s, m, frame) = heard
      BY <1>9 DEF AfterFrame, heard
    <2> QED
      BY <1>4, <1>9, <2>1
  <1> QED
    BY <1>5, <1>6, <1>7, <1>8, <1>9

(* Time and the motors themselves switch none on and plug none in.           *)
LEMMA MotorsAlone ==
    ASSUME BusTypes, Tick \/ MotorStep
    PROVE  /\ motor' \in [Servos -> MotorState]
           /\ \A k \in Servos : /\ motor'[k].plugged => motor[k].plugged
                                /\ motor[k].status # "on" => motor'[k].status # "on"
  <1>1. CASE Tick
    <2>1. \A k \in Servos :
             motor'[k] = [motor[k] EXCEPT !.quiet = TRUE,
                            !.status = IF motor[k].quiet /\ motor[k].window /\ @ = "on"
                                       THEN "commLoss" ELSE @]
      BY <1>1 DEF Tick
    <2>2. \A k \in Servos : motor[k] \in MotorState
      BY DEF BusTypes
    <2>3. \A k \in Servos : /\ motor'[k] \in MotorState /\ motor'[k].plugged = motor[k].plugged
                            /\ motor[k].status # "on" => motor'[k].status # "on"
      BY <2>1, <2>2 DEF MotorState, Statuses
    <2>4. motor' = [k \in Servos |-> motor'[k]]
      BY <1>1 DEF Tick
    <2> QED
      BY <2>3, <2>4
  <1>2. CASE MotorStep
    <2>1. PICK s \in Servos : Unplug(s) \/ Cool(s) \/ \E status \in IsFault : Trip(s, status)
      BY <1>2 DEF MotorStep
    <2>2. CASE Unplug(s)
      BY <2>2 DEF Unplug, BusTypes, MotorState
    <2>3. CASE Cool(s)
      BY <2>3 DEF Cool, BusTypes, MotorState, Statuses
    <2>4. CASE \E status \in IsFault : Trip(s, status)
      BY <2>4 DEF Trip, BusTypes, MotorState, Statuses, IsFault
    <2> QED
      BY <2>1, <2>2, <2>3, <2>4
  <1> QED
    BY <1>1, <1>2

(* The servo at cur exists whenever a frame is sent to it.                    *)
LEMMA Addressed ==
    ASSUME FlowTypes, pc # "next" \/ ~(cur > NumServos), pc = "query" => ~(cur > NumServos)
    PROVE  cur \in Servos
  BY NumServosAssumption DEF FlowTypes, Servos

(* The bus keeps its types, and only an enable to the servo at cur, which the *)
(* teardown never sends, switches a motor on.                                 *)
LEMMA BusStep ==
    ASSUME FlowTypes, BusTypes, ParkInv, [Next]_vars
    PROVE  /\ BusTypes'
           /\ \A k \in Servos : /\ motor'[k].plugged => motor[k].plugged
                                /\ phase \in {"recover", "park", "closed"} /\ motor[k].status # "on"
                                   => motor'[k].status # "on"
  <1>1. cur \in Nat
    BY NumServosAssumption DEF FlowTypes
  <1>2. CASE UNCHANGED <<motor, queue>>
    BY <1>2 DEF BusTypes
  <1>3. CASE motor' = motor /\ queue # <<>> /\ queue' = Tail(queue)
    <2>1. queue' \in Seq(Frames) /\ Len(queue') <= Capacity
      BY <1>3, LimitsAssumption DEF BusTypes
    <2> QED
      BY <1>3, <2>1 DEF BusTypes
  <1>4. ASSUME pc # "next" \/ ~(cur > NumServos), pc = "query" => ~(cur > NumServos),
               phase # "closed",
               NEW frame, Deliver(cur, frame),
               phase = "recover" => frame # "enable",
               phase = "park" /\ (~want \/ pc = "next") => frame # "enable"
        PROVE  /\ BusTypes'
               /\ \A k \in Servos : /\ motor'[k].plugged => motor[k].plugged
                                    /\ phase \in {"recover", "park", "closed"}
                                       /\ motor[k].status # "on"
                                       => motor'[k].status # "on"
    <2>1. cur \in Servos
      BY <1>4, Addressed
    <2>2. /\ BusTypes'
          /\ \A k \in Servos : k # cur => motor'[k] = motor[k]
          /\ motor'[cur] = IF motor[cur].plugged THEN AfterFrame(cur, motor[cur], frame)
                                                 ELSE motor[cur]
      BY <1>4, <2>1, DeliverTypes
    <2>3. motor[cur] \in MotorState
      BY <2>1 DEF BusTypes
    <2>4. /\ AfterFrame(cur, motor[cur], frame).plugged = motor[cur].plugged
          /\ frame # "enable" /\ motor[cur].status # "on"
             => AfterFrame(cur, motor[cur], frame).status # "on"
      BY <2>3, FirmwareOff
    <2>5. phase \in {"recover", "park"} => frame # "enable"
      BY <1>4 DEF ParkInv
    <2> QED
      BY <1>4, <2>2, <2>4, <2>5
  <1>5. CASE Tick \/ (MotorStep /\ queue' = queue)
    <2>1. queue' = queue
      BY <1>5 DEF Tick, MotorStep, Unplug, Cool, Trip
    <2> QED
      BY <1>5, <2>1, MotorsAlone DEF BusTypes
  <1> QED
    BY <1>1, <1>2, <1>3, <1>4, <1>5, BusCases

(* A motor whose answer a teardown reads has heard a disable and is off.      *)
LEMMA OffStep ==
    ASSUME FlowTypes, BusTypes, ParkInv, OffInv, [Next]_vars
    PROVE  OffInv'
  <1> DEFINE Told == \/ pc \in {"read", "reset", "disarm", "drain"}
                     \/ pc \in {"restart", "check"} /\ rc = "SUCCESS"
  <1>1. SUFFICES ASSUME phase' = "park", cur' \notin Encos, motor'[cur'].plugged, Told'
                 PROVE  motor'[cur'].status # "on"
    BY DEF OffInv
  <1>2. ASSUME UNCHANGED <<phase, cur>>, cur \in Servos, Told PROVE motor'[cur'].status # "on"
    BY <1>1, <1>2, BusStep DEF OffInv
  <1>3. CASE EnableStep
    <2>1. UNCHANGED <<phase, cur>> /\ pc # "next" /\ pc # "query"
      BY <1>3
         DEF EnableStep, EnableEncos, WriteMode, StopReception, JoinReception,
                  SendEnable, ReadTimesOut, SkipForeign, TakeAnswer, SendReset,
                  Disarm,
                  DrainAck, RestartReception
    <2>2. cur \in Servos
      BY <2>1 DEF FlowTypes
    <2>3. Told \/ (pc = "send" /\ pc' = "read")
      <3>1. CASE SendEnable
        BY <1>1, <3>1 DEF SendEnable, GiveUp, TryAgain
      <3>2. CASE EnableEncos \/ WriteMode
        BY <1>1, <2>1, <3>2 DEF EnableEncos, WriteMode
      <3>3. CASE StopReception("send") \/ JoinReception("send")
        BY <1>1, <3>3 DEF StopReception, JoinReception
      <3>4. CASE ReadTimesOut \/ SkipForeign \/ TakeAnswer \/ SendReset
        BY <1>1, <3>4 DEF ReadTimesOut, SkipForeign, TakeAnswer, SendReset
      <3>5. CASE Disarm \/ DrainAck
        BY <1>1, <3>5 DEF Disarm, DrainAck
      <3>6. CASE RestartReception
        BY <1>1, <3>6 DEF RestartReception
      <3> QED
        BY <1>3, <3>1, <3>2, <3>3, <3>4, <3>5, <3>6 DEF EnableStep
    <2>4. CASE pc = "send" /\ pc' = "read"
      <3>1. ~want
        BY <1>1, <2>1, <2>4 DEF ParkInv
      <3>2. Deliver(cur, "disable")
        BY <1>1, <2>1, <2>4, <3>1, DisableSent
      <3>3. motor'[cur] = IF motor[cur].plugged THEN AfterFrame(cur, motor[cur], "disable")
                                                ELSE motor[cur]
        BY <2>2, <3>2, DeliverTypes
      <3>4. motor[cur] \in MotorState
        BY <2>2 DEF BusTypes
      <3> QED
        BY <1>1, <2>1, <3>3, <3>4, FirmwareOff
    <2> QED
      BY <1>2, <2>1, <2>2, <2>3, <2>4
  <1>4. CASE ArmStep \/ Open \/ StartServo \/ Started \/ VerifyServo \/ Reverified \/ CommandEach
             \/ GroupRead \/ ReadServo \/ Command \/ Stop
    <2>1. phase # "park"
      BY <1>4
         DEF ArmStep, Open, StartServo, Started, VerifyServo, Verifying,
             Reverified,
                  CommandEach, GroupRead, ReadServo, Command, Stop
    <2>2. pc' = "next"
      <3>1. CASE ArmStep \/ Open \/ Started \/ Stop
        BY <1>1, <2>1, <3>1
           DEF ArmStep, BeginArm, StopReception, JoinReception, QueryWindow,
               TakeReply,
               WriteWindow, DrainWrite, EndArm, ArmNext, Open, Started, Stop,
               Enter,
               NextServo, ToPark
      <3>2. CASE StartServo \/ VerifyServo
        BY <1>1, <2>1, <3>2, Zenon
           DEF StartServo, VerifyServo, Verified, Enter, NextServo, ToPark
      <3>3. CASE Reverified \/ CommandEach
        BY <3>3 DEF Reverified, CommandEach, Enter, NextServo, ToPark
      <3>4. CASE GroupRead \/ ReadServo \/ Command
        BY <1>1, <2>1, <3>4, StreamMoves DEF Enter
      <3> QED
        BY <1>4, <3>1, <3>2, <3>3, <3>4
    <2> QED
      BY <1>1, <2>2
  <1>5. CASE ParkServo \/ Parked \/ StopToClose \/ CloseDriver
    <2>1. pc' \in {"next", "mode"}
      <3>1. CASE ParkServo
        BY <3>1, Zenon DEF ParkServo, NextServo
      <3>2. CASE Parked \/ StopToClose \/ CloseDriver
        BY <3>2 DEF Parked, NextServo, StopToClose, CloseDriver
      <3> QED
        BY <1>5, <3>1, <3>2
    <2> QED
      BY <1>1, <2>1
  <1>6. CASE ReceptionStep \/ ReceiveFails \/ Tick \/ MotorStep \/ UNCHANGED vars
    <2>1. UNCHANGED <<phase, cur, pc, rc>>
      BY <1>6
         DEF ReceptionStep, Receive, SelectTimesOut, ReceiveFails, Tick,
             MotorStep,
                  Unplug, Cool, Trip, vars
    <2>2. cur \in Servos
      BY <1>1, <2>1 DEF FlowTypes
    <2> QED
      BY <1>1, <1>2, <2>1, <2>2
  <1> QED
    BY <1>3, <1>4, <1>5, <1>6 DEF Next, ControlStep

(* A frame of a servo on the bus leaves a cache of the same servos.          *)
LEMMA ParsedTypes ==
    ASSUME NEW c \in [Servos -> CacheEntry], NEW f \in Frames
    PROVE  Parsed(c, f) \in [Servos -> CacheEntry]
  <1>1. MaxAge \in Nat
    BY LimitsAssumption DEF MaxAge
  <1>2. f.id \in Servos /\ f.status \in Statuses
    BY DEF Frames
  <1>3. [seen |-> TRUE, error |-> f.status, age |-> 0] \in CacheEntry
    BY <1>1, <1>2 DEF CacheEntry
  <1>4. \A e \in CacheEntry : [e EXCEPT !.seen = TRUE] \in CacheEntry
    BY DEF CacheEntry
  <1>5. \A e \in CacheEntry : [e EXCEPT !.age = 0] \in CacheEntry
    BY <1>1 DEF CacheEntry
  <1>6. [c EXCEPT ![f.id].seen = TRUE] \in [Servos -> CacheEntry]
    BY <1>2, <1>4
  <1>7. \A d \in [Servos -> CacheEntry] : [d EXCEPT ![f.id].age = 0] \in [Servos -> CacheEntry]
    BY <1>2, <1>5
  <1>8. [c EXCEPT ![f.id].seen = TRUE, ![f.id].age = 0] \in [Servos -> CacheEntry]
    BY <1>6, <1>7
  <1> QED
    BY <1>2, <1>3, <1>8 DEF Parsed

(* The cache and the sets of servos.                                         *)
LEMMA SetStep ==
    ASSUME FlowTypes, BusTypes, SetTypes, [Next]_vars
    PROVE  SetTypes'
  <1>1. ASSUME UNCHANGED cache, dead' = dead \/ dead' \subseteq Servos,
               thermal' \subseteq thermal \cup {cur}, parked' \subseteq parked \cup {cur},
               excused' \subseteq excused \cup {cur},
               failed' \subseteq failed \cup {cur} \cup dead',
               pc \notin {"next", "query"} \/ UNCHANGED <<thermal, parked, excused, failed>>
                 \/ cur \in Servos
        PROVE  SetTypes'
    BY <1>1 DEF SetTypes, FlowTypes
  <1>2. Head(queue) \in Frames \/ queue = <<>>
    BY DEF BusTypes
  <1>3. CASE EnableStep
    <2>1. UNCHANGED <<dead, thermal, parked, failed>> /\ pc \notin {"next", "query"}
      BY <1>3
         DEF EnableStep, EnableEncos, WriteMode, StopReception, JoinReception,
                  SendEnable, ReadTimesOut, SkipForeign, TakeAnswer, SendReset,
                  Disarm,
                  DrainAck, RestartReception, servoVars
    <2>2. excused' \subseteq excused \cup {cur}
      BY <1>3
         DEF EnableStep, EnableEncos, WriteMode, StopReception, JoinReception,
                  SendEnable, ReadTimesOut, SkipForeign, TakeAnswer, SendReset,
                  Disarm,
                  DrainAck, RestartReception
    <2>3. cache' = cache \/ (queue # <<>> /\ cache' = Parsed(cache, Head(queue)))
      BY <1>3, Zenon
         DEF EnableStep, EnableEncos, WriteMode, StopReception, JoinReception,
             SendEnable, ReadTimesOut, SkipForeign, TakeAnswer, SendReset,
             Disarm,
             DrainAck, RestartReception
    <2>4. cache' \in [Servos -> CacheEntry]
      BY <1>2, <2>3, ParsedTypes DEF SetTypes
    <2>5. cur \in Servos
      BY <2>1 DEF FlowTypes
    <2> QED
      BY <2>1, <2>2, <2>4, <2>5 DEF SetTypes
  <1>4. CASE ArmStep
    <2>1. UNCHANGED <<dead, thermal, parked, failed, cache>>
          /\ excused' \subseteq excused \cup {cur}
      BY <1>4
         DEF ArmStep, BeginArm, StopReception, JoinReception, QueryWindow,
             TakeReply,
                  WriteWindow, DrainWrite, EndArm, NotAsserted, servoVars
    <2>2. UNCHANGED excused \/ cur <= NumServos \/ pc = "write"
      BY <1>4
         DEF ArmStep, BeginArm, StopReception, JoinReception, QueryWindow,
             TakeReply,
                  WriteWindow, DrainWrite, EndArm
    <2>3. UNCHANGED excused \/ cur \in Servos
      BY <2>2, NumServosAssumption DEF FlowTypes, Servos
    <2> QED
      BY <1>1, <2>1, <2>3
  <1>5. CASE Open \/ StartServo \/ VerifyServo \/ Reverified \/ Stop
             \/ ParkServo \/ StopToClose \/ CloseDriver
    <2>1. UNCHANGED <<cache, dead, thermal, parked, failed, excused>>
      BY <1>5, Zenon
         DEF Open, StartServo, VerifyServo, Reverified, Stop,
             ParkServo, StopToClose, CloseDriver, servoVars
    <2> QED
      BY <1>1, <2>1
  <1>12. CASE CommandEach \/ Command
    <2>1. UNCHANGED <<cache, dead, thermal, parked, excused>>
      BY <1>12, Zenon DEF CommandEach, Command
    <2>2. failed' \subseteq failed \cup {cur}
      BY <1>12 DEF CommandEach, Command, Recover
    <2>3. UNCHANGED failed \/ cur <= NumServos \/ pc = "write"
      BY <1>12, NumServosAssumption DEF CommandEach, Command, FlowTypes
    <2>4. UNCHANGED failed \/ cur \in Servos
      BY <2>3, NumServosAssumption DEF FlowTypes, Servos
    <2> QED
      BY <1>1, <2>1, <2>2, <2>4
  <1>6. CASE Started \/ ReadServo \/ Parked
    <2>1. UNCHANGED <<cache, dead, excused>> /\ pc \notin {"next", "query"}
      BY <1>6, Zenon DEF Started, ReadServo, Parked
    <2>2. thermal' \subseteq thermal \cup {cur} /\ parked' \subseteq parked \cup {cur}
      BY <1>6, ReadEffect DEF Started, Parked, Latch
    <2>3. failed' \subseteq failed \cup {cur}
      BY <1>6 DEF Started, Parked, ReadServo, ReadHealthy, ReadFault, Recover
    <2> QED
      BY <1>1, <2>1, <2>2, <2>3
  <1>7. CASE GroupRead
    <2>1. UNCHANGED <<cache, thermal, parked, excused>> /\ dead' \subseteq Servos
      BY <1>7 DEF GroupRead
    <2>2. failed' \subseteq failed \cup dead'
      BY <1>7 DEF GroupRead, Recover
    <2> QED
      BY <2>1, <2>2 DEF SetTypes
  <1>8. CASE ReceptionStep \/ ReceiveFails
    <2>1. UNCHANGED <<dead, thermal, parked, failed, excused>>
      BY <1>8
         DEF ReceptionStep, Receive, SelectTimesOut, ReceiveFails, servoVars
    <2>2. cache' = cache \/ (queue # <<>> /\ cache' = Parsed(cache, Head(queue)))
      BY <1>8, Zenon DEF ReceptionStep, Receive, SelectTimesOut, ReceiveFails
    <2>3. cache' \in [Servos -> CacheEntry]
      BY <1>2, <2>2, ParsedTypes DEF SetTypes
    <2> QED
      BY <2>1, <2>3 DEF SetTypes
  <1>9. CASE Tick
    <2>1. UNCHANGED <<dead, thermal, parked, failed, excused>>
      BY <1>9 DEF Tick, servoVars
    <2>2. \A e \in CacheEntry : Older(e) \in CacheEntry
      BY LimitsAssumption DEF CacheEntry, Older, MaxAge
    <2>3. cache' = [s \in Servos |-> Older(cache[s])]
      BY <1>9 DEF Tick
    <2>4. cache' \in [Servos -> CacheEntry]
      BY <2>2, <2>3 DEF SetTypes
    <2> QED
      BY <2>1, <2>4 DEF SetTypes
  <1>10. CASE MotorStep
    <2>1. UNCHANGED <<cache, dead, thermal, parked, failed>>
          /\ \E s \in Servos : excused' = excused \cup {s}
      BY <1>10 DEF MotorStep, Unplug, Cool, Trip, Fails, servoVars
    <2> QED
      BY <2>1 DEF SetTypes
  <1>11. CASE UNCHANGED vars
    BY <1>11 DEF vars, SetTypes
  <1> QED
    BY <1>3, <1>4, <1>5, <1>6, <1>7, <1>8, <1>9, <1>10, <1>11, <1>12
       DEF Next, ControlStep

(* A frame of another servo, or one taken from the buffer, leaves no more of *)
(* this servo's frames in it.                                                *)
LEMMA FewerPending ==
    ASSUME NEW q \in Seq(Frames), NEW s, NEW r,
           \/ r = q
           \/ q # <<>> /\ r = Tail(q)
           \/ \E a \in Frames : a.id # s /\ r = Append(q, a)
    PROVE  Pending(s, r) <= Pending(s, q)
  <1> DEFINE At(p) == {i \in 1 .. Len(p) : p[i].id = s}
  <1>1. Len(q) \in Nat
    OBVIOUS
  <1>2. IsFiniteSet(At(q)) /\ Cardinality(At(q)) \in Nat
    <2>1. IsFiniteSet(1 .. Len(q))
      BY <1>1, FS_Interval
    <2>2. At(q) \in SUBSET (1 .. Len(q))
      OBVIOUS
    <2>3. IsFiniteSet(At(q))
      BY <2>1, <2>2, FS_Subset
    <2> QED
      BY <2>3, FS_CardinalityType
  <1>3. CASE r = q
    BY <1>2, <1>3 DEF Pending
  <1>4. CASE q # <<>> /\ r = Tail(q)
    <2> DEFINE f == [i \in At(r) |-> i + 1]
    <2>1. Len(r) = Len(q) - 1 /\ \A i \in 1 .. Len(r) : r[i] = q[i + 1]
      BY <1>4
    <2>2. \A i \in At(r) : i + 1 \in At(q)
      BY <1>1, <2>1
    <2>3. f \in [At(r) -> At(q)]
      BY <2>2
    <2>4. \A i, j \in At(r) : f[i] = f[j] => i = j
      BY <1>1, <2>1
    <2>5. f \in Injection(At(r), At(q))
      BY <2>3, <2>4 DEF Injection, IsInjective
    <2> HIDE DEF f, At
    <2>6. Cardinality(At(r)) <= Cardinality(At(q))
      BY <1>2, <2>5, FS_Injection
    <2> QED
      BY <2>6 DEF Pending, At
  <1>5. CASE \E a \in Frames : a.id # s /\ r = Append(q, a)
    <2>1. PICK a \in Frames : a.id # s /\ r = Append(q, a)
      BY <1>5
    <2>2. Len(r) = Len(q) + 1 /\ r[Len(q) + 1] = a /\ \A i \in 1 .. Len(q) : r[i] = q[i]
      BY <2>1
    <2>3. At(r) = At(q)
      BY <1>1, <2>1, <2>2
    <2>4. Pending(s, r) = Cardinality(At(r)) /\ Pending(s, q) = Cardinality(At(q))
      BY DEF Pending
    <2> HIDE DEF At
    <2> QED
      BY <1>2, <2>3, <2>4
  <1> QED
    BY <1>3, <1>4, <1>5

(***************************************************************************)
(* The inductive invariant, and what a step from it does.                  *)
(***************************************************************************)
CanInv ==
    /\ FlowTypes /\ RetryTypes /\ FlagTypes /\ BusTypes /\ SetTypes
    /\ ParkInv /\ OffInv
    /\ ParkedIsOff

(* The teardown counts a servo as parked when the handshake that disabled it *)
(* succeeded, and nothing switches it on again.                              *)
LEMMA ParkedStep ==
    ASSUME CanInv, [Next]_vars
    PROVE  ParkedIsOff'
  <1> USE DEF CanInv
  <1>1. SUFFICES ASSUME NEW s \in parked' \ (Encos \cup thermal'), motor'[s].plugged
                 PROVE  motor'[s].status # "on"
    BY DEF ParkedIsOff
  <1>2. SetTypes' /\ parked' \subseteq Servos
    BY SetStep DEF SetTypes
  <1>3. s \in Servos /\ motor[s].plugged
    BY <1>1, <1>2, BusStep
  <1>4. CASE s \in parked /\ s \notin thermal
    <2>1. motor[s].status # "on"
      BY <1>1, <1>3, <1>4 DEF ParkedIsOff
    <2>2. phase \in {"recover", "park", "closed"}
      BY <1>4 DEF ParkInv
    <2> QED
      BY <1>3, <2>1, <2>2, BusStep
  <1>5. thermal \subseteq thermal'
        /\ (parked' = parked \/ (Parked /\ parked' \subseteq parked \cup {cur})
            \/ \E k : thermal' = thermal \cup {k} /\ parked' = parked \cup {k})
    <2>1. CASE EnableStep
      BY <2>1
         DEF EnableStep, EnableEncos, WriteMode, StopReception, JoinReception,
                  SendEnable, ReadTimesOut, SkipForeign, TakeAnswer, SendReset,
                  Disarm,
                  DrainAck, RestartReception, servoVars
    <2>2. CASE ArmStep
      BY <2>2
         DEF ArmStep, BeginArm, StopReception, JoinReception, QueryWindow,
             TakeReply,
                  WriteWindow, DrainWrite, EndArm, servoVars
    <2>3. CASE Open \/ StartServo \/ VerifyServo \/ Reverified \/ CommandEach \/ Command \/ Stop
               \/ ParkServo \/ StopToClose \/ CloseDriver \/ GroupRead
      <3>1. UNCHANGED <<thermal, parked>>
        BY <2>3, Zenon
           DEF Open, StartServo, VerifyServo, Reverified, CommandEach, Command,
               Stop,
               ParkServo, StopToClose, CloseDriver, GroupRead, servoVars
      <3> QED
        BY <3>1
    <2>4. CASE Started \/ ReadServo
      BY <2>4, ReadEffect DEF Started, Latch
    <2>5. CASE Parked
      BY <2>5 DEF Parked
    <2>6. CASE ReceptionStep \/ ReceiveFails \/ Tick \/ MotorStep \/ UNCHANGED vars
      BY <2>6
         DEF ReceptionStep, Receive, SelectTimesOut, ReceiveFails, Tick,
             MotorStep,
                  Unplug, Cool, Trip, vars, servoVars
    <2> QED
      BY <2>1, <2>2, <2>3, <2>4, <2>5, <2>6 DEF Next, ControlStep
  <1>6. CASE s \notin parked
    <2>1. Parked /\ s = cur
      BY <1>1, <1>5, <1>6
    <2>2. phase = "park" /\ pc = "check" /\ rc = "SUCCESS" /\ motor' = motor
      BY <1>1, <1>6, <2>1 DEF Parked
    <2> QED
      BY <1>1, <1>3, <2>1, <2>2 DEF OffInv
  <1> QED
    BY <1>1, <1>4, <1>5, <1>6

(* The driver does not address a servo whose thermal fault is latched.        *)
LEMMA ThermalStep ==
    ASSUME CanInv, [Next]_vars
    PROVE  ThermalStopIsFinal
  <1> USE DEF CanInv
  <1>1. SUFFICES ASSUME NEW s \in thermal
                 PROVE  /\ Pending(s, queue') <= Pending(s, queue)
                        /\ motor[s].status # "on" => motor'[s].status # "on"
    BY DEF ThermalStopIsFinal
  <1>2. s \in parked /\ s \in Servos /\ phase \in {"recover", "park", "closed"}
    BY <1>1 DEF ParkInv, SetTypes
  <1>3. motor[s].status # "on" => motor'[s].status # "on"
    BY <1>2, BusStep
  <1>4. queue \in Seq(Frames) /\ cur \in Nat
    BY NumServosAssumption DEF BusTypes, FlowTypes
  <1>5. \/ queue' = queue
        \/ queue # <<>> /\ queue' = Tail(queue)
        \/ \E a \in Frames : a.id # s /\ queue' = Append(queue, a)
    <2>1. CASE UNCHANGED <<motor, queue>> \/ (MotorStep /\ queue' = queue)
      BY <2>1
    <2>2. CASE motor' = motor /\ queue # <<>> /\ queue' = Tail(queue)
      BY <2>2
    <2>3. ASSUME pc # "next" \/ ~(cur > NumServos), pc = "query" => ~(cur > NumServos),
                 phase = "park" /\ pc = "next" => cur \notin parked, phase # "closed",
                 phase = "recover" => pc = "write",
                 NEW frame, Deliver(cur, frame)
          PROVE  queue' = queue \/ \E a \in Frames : a.id # s /\ queue' = Append(queue, a)
      <3>1. cur \in Servos
        BY <2>3, Addressed
      <3>2. cur # s
        BY <1>2, <2>3 DEF ParkInv
      <3>3. queue' = queue \/ \E a \in Frames : a.id = cur /\ queue' = Append(queue, a)
        BY <2>3, <3>1, DeliverTypes
      <3> QED
        BY <3>2, <3>3
    <2>4. CASE Tick
      BY <2>4 DEF Tick
    <2> QED
      BY <1>4, <2>1, <2>2, <2>3, <2>4, BusCases
  <1>6. Pending(s, queue') <= Pending(s, queue)
    BY <1>4, <1>5, FewerPending
  <1> QED
    BY <1>3, <1>6

(* Every step keeps the inductive invariant.                                  *)
LEMMA CanStep ==
    ASSUME CanInv, [Next]_vars
    PROVE  CanInv'
  BY FlowStep, RetryStep, FlagStep, BusStep, SetStep, ParkStep, OffStep,
     ParkedStep
     DEF CanInv

(* The bus starts in it.                                                      *)
LEMMA CanInit == Init => CanInv
  <1> SUFFICES ASSUME Init PROVE CanInv
    OBVIOUS
  <1> USE NumServosAssumption, LimitsAssumption DEF Init
  <1>1. FlowTypes /\ RetryTypes /\ FlagTypes
    <2>1. FlowTypes
      BY DEF FlowTypes, Phases
    <2>2. RetryTypes
      BY DEF RetryTypes
    <2>3. FlagTypes
      <3>1. 0 \in 0 .. MaxFaults
        OBVIOUS
      <3> QED
        BY <3>1, Zenon DEF FlagTypes
    <2> QED
      BY <2>1, <2>2, <2>3
  <1>2. BusTypes
    <2>1. [status : {"off", "commLoss"}, window : BOOLEAN, quiet : {TRUE}, plugged : {TRUE}]
            \subseteq MotorState
      BY DEF MotorState, Statuses
    <2>2. motor \in [Servos -> MotorState]
      BY <2>1
    <2>3. queue \in Seq(Frames) /\ Len(queue) <= Capacity
      OBVIOUS
    <2> QED
      BY <2>2, <2>3 DEF BusTypes
  <1>3. SetTypes
    BY DEF SetTypes, CacheEntry, Statuses, MaxAge
  <1>4. ParkInv /\ OffInv /\ ParkedIsOff
    BY DEF ParkInv, OffInv, ParkedIsOff
  <1> QED
    BY <1>1, <1>2, <1>3, <1>4 DEF CanInv

(***************************************************************************)
(* Once latch_effector_thermal_fault() or park_safely() has switched a     *)
(* motor off, the driver never queues another answer of a latched servo    *)
(* and no parked motor that is still connected is on, whatever frames are  *)
(* lost, whichever motor trips and wherever the start or the stream ends.  *)
(***************************************************************************)
THEOREM SwitchedOffStaysOff == Spec => OffStaysOff
  <1>1. CanInv /\ [Next]_vars => CanInv'
    BY CanStep
  <1>2. CanInv /\ CanInv' /\ [Next]_vars => [ThermalStopIsFinal /\ (TypeOK /\ ParkedIsOff)']_vars
    <2>1. CanInv' => (TypeOK /\ ParkedIsOff)'
      BY DEF CanInv, TypeOK, FlowTypes, RetryTypes, FlagTypes, BusTypes,
             SetTypes, MotorState,
             CacheEntry
    <2> QED
      BY <2>1, ThermalStep
  <1> QED
    BY <1>1, <1>2, CanInit, PTL DEF Spec, OffStaysOff

(* The types, for every bus.                                                  *)
THEOREM BusTypeSafety == Spec => []TypeOK
  <1>1. CanInv /\ [Next]_vars => CanInv'
    BY CanStep
  <1>2. CanInv => TypeOK
    BY DEF CanInv, TypeOK, FlowTypes, RetryTypes, FlagTypes, BusTypes,
           SetTypes, MotorState,
           CacheEntry
  <1> QED
    BY <1>1, <1>2, CanInit, PTL DEF Spec

-----------------------------------------------------------------------------
(***************************************************************************)
(* The start.  Where the control thread can be in each stage: only a DM    *)
(* servo goes through a handshake, the teardown alone asks for a disable,  *)
(* and the pass that arms the windows begins with the first servo.         *)
(***************************************************************************)
Handshake == {"stop", "join", "send", "read", "reset", "disarm", "drain", "restart"}

StartFlow ==
    /\ phase \notin {"park", "closed"} => want
    /\ Enabling /\ pc \in Handshake => cur \notin Encos
    /\ phase = "arm" => pc \in {"next", "stop", "join", "query", "reply", "write", "drainWrite"}
    /\ phase = "arm" /\ pc \in {"next", "stop", "join"} => cur = 1
    /\ phase \in {"start", "verify", "reverify"} => pc \in {"next", "mode", "check"} \cup Handshake
    /\ phase = "open" => queue = <<>>

(***************************************************************************)
(* No answer of the servo that waits in the buffer says it is enabled.     *)
(***************************************************************************)
NoneOn(s) == \A i \in 1 .. Len(queue) : queue[i].id = s => queue[i].status # "on"

(***************************************************************************)
(* What each stage has established for a servo: it waits for its           *)
(* handshake, was asked to enable, answered that it is enabled, is enabled *)
(* with its window closed, has just been woken for the write of its        *)
(* window, or has the window that the policy asks for.                     *)
(***************************************************************************)
Waits(s) ==
    \/ phase = "open"
    \/ phase = "start" /\ s > cur
    \/ phase = "start" /\ s = cur /\ pc \in {"next", "mode", "stop", "join"}
Asked(s) == phase = "start" /\ s = cur /\ pc \in {"send", "read", "reset"}
Answered(s) == phase = "start" /\ s = cur /\ pc = "disarm"
Established(s) ==
    \/ phase \in {"read", "verify", "hold", "probe", "reverify"}
    \/ phase = "start" /\ s < cur
    \/ phase = "start" /\ s = cur /\ pc = "drain"
    \/ phase = "start" /\ s = cur /\ pc \in {"restart", "check"} /\ rc = "SUCCESS"
    \/ phase = "arm" /\ s > cur
    \/ phase = "arm" /\ s = cur /\ pc # "drainWrite"
Woken(s) == phase = "arm" /\ s = cur /\ pc \in {"reply", "write"} /\ s \notin Encos
Written(s) == phase = "arm" /\ (s < cur \/ (s = cur /\ pc = "drainWrite"))

Up(s) == motor[s].status = Healthy(s) /\ (s \notin Encos => ~motor[s].window)
Kept(s) == motor[s].status = Healthy(s) /\ motor[s].window = StopOnLoss

(***************************************************************************)
(* The invariant of a servo that did not fail by itself and that every     *)
(* protection write has reached.  An answer in the buffer is believed only *)
(* by the handshake that asked, and is still true then: the motor cannot   *)
(* trip in between, since no window passes within an exchange and the      *)
(* window is closed in the same exchange.                                  *)
(***************************************************************************)
ServoInv(s) ==
    /\ motor[s].plugged
    /\ s \in Encos => motor[s].status = "off"
    /\ Waits(s) => motor[s].status # "on" /\ NoneOn(s)
    /\ Asked(s) => motor[s].status = "on" \/ NoneOn(s)
    /\ Answered(s) => motor[s].status = "on"
    /\ Established(s) => Up(s)
    /\ Woken(s) => ~motor[s].quiet
    /\ Written(s) => Kept(s)
StartInv == StartFlow /\ \A s \in Servos \ excused : ServoInv(s)

(***************************************************************************)
(* What the firmware makes of each frame of the driver.                    *)
(***************************************************************************)
LEMMA FrameEffect ==
    ASSUME NEW m \in MotorState, NEW s, NEW frame, NEW n, n = AfterFrame(s, m, frame)
    PROVE  /\ n \in MotorState
           /\ n.plugged = m.plugged
           /\ frame \in {"enable", "mode", "query", "command", "arm", "disarm"} => ~n.quiet
           /\ frame \in {"mode", "query", "command"} => n.status = m.status /\ n.window = m.window
           /\ frame = "enable" => /\ n.status = IF m.status = "off" THEN "on" ELSE m.status
                                  /\ n.window = m.window
           /\ frame = "reset" => /\ n.status = IF m.status = "commLoss" THEN "off" ELSE m.status
                                 /\ n.window = m.window
           /\ frame = "disable" => n.status = IF m.status = "on" THEN "off" ELSE m.status
           /\ frame = "disarm" => ~n.window /\ n.status = m.status
           /\ frame = "arm" => n.window /\ (~m.quiet \/ m.status # "on" => n.status = m.status)
  <1> DEFINE heard == [m EXCEPT !.quiet = FALSE]
  <1>1. /\ heard \in MotorState /\ heard.plugged = m.plugged /\ heard.status = m.status
        /\ heard.window = m.window /\ ~heard.quiet
    BY DEF MotorState
  <1>2. n \in MotorState
    BY FirmwareTypes
  <1> HIDE DEF heard
  <1>3. CASE frame = "enable"
    <2>1. n = [heard EXCEPT !.status = IF heard.status = "off" THEN "on" ELSE heard.status]
      BY <1>3 DEF AfterFrame, heard
    <2> QED
      BY <1>1, <1>2, <1>3, <2>1 DEF MotorState
  <1>4. CASE frame = "disable"
    <2>1. n = [heard EXCEPT !.status = IF heard.status = "on" THEN "off" ELSE heard.status]
      BY <1>4 DEF AfterFrame, heard
    <2> QED
      BY <1>1, <1>2, <1>4, <2>1 DEF MotorState
  <1>5. CASE frame = "reset"
    <2>1. n = [heard EXCEPT !.status = IF heard.status \in IsResettable THEN "off"
                                       ELSE heard.status]
      BY <1>5 DEF AfterFrame, heard
    <2> QED
      BY <1>1, <1>2, <1>5, <2>1 DEF MotorState, IsResettable
  <1>6. CASE frame = "arm"
    <2>1. n = [AfterWindow(m, TRUE) EXCEPT !.quiet = FALSE]
      BY <1>6 DEF AfterFrame
    <2> QED
      BY <1>2, <1>6, <2>1 DEF MotorState, AfterWindow
  <1>7. CASE frame = "disarm"
    <2>1. n = [AfterWindow(m, FALSE) EXCEPT !.quiet = FALSE]
      BY <1>7 DEF AfterFrame
    <2> QED
      BY <1>2, <1>7, <2>1 DEF MotorState, AfterWindow
  <1>8. CASE frame \notin {"enable", "disable", "reset", "arm", "disarm"}
    <2>1. n = heard
      BY <1>8 DEF AfterFrame, heard
    <2> QED
      BY <1>1, <1>2, <1>8, <2>1
  <1> QED
    BY <1>3, <1>4, <1>5, <1>6, <1>7, <1>8

(***************************************************************************)
(* Taking a frame from the buffer leaves no new answers in it.             *)
(***************************************************************************)
LEMMA TailNoneOn ==
    ASSUME BusTypes, NEW s, NoneOn(s),
           queue' = queue \/ (queue # <<>> /\ queue' = Tail(queue))
    PROVE  NoneOn(s)'
  <1>1. CASE queue' = queue
    BY <1>1 DEF NoneOn
  <1>2. CASE queue # <<>> /\ queue' = Tail(queue)
    <2>1. Len(queue) \in Nat /\ Len(queue') = Len(queue) - 1
          /\ \A i \in 1 .. Len(queue') : queue'[i] = queue[i + 1]
      BY <1>2 DEF BusTypes
    <2> QED
      BY <2>1 DEF NoneOn
  <1> QED
    BY <1>1, <1>2

(***************************************************************************)
(* An answer that says enabled comes from an enabled motor.                *)
(***************************************************************************)
LEMMA DeliverEffect ==
    ASSUME BusTypes, NEW k \in Servos, NEW frame, Deliver(k, frame), motor[k].plugged
    PROVE  /\ motor'[k] = AfterFrame(k, motor[k], frame)
           /\ NoneOn(k) => NoneOn(k)' \/ motor'[k].status = "on"
  <1> DEFINE m == AfterFrame(k, motor[k], frame)
  <1>1. m \in MotorState
    BY FirmwareTypes DEF BusTypes
  <1>2. motor'[k] = m
    BY DEF Deliver, BusTypes
  <1>3. PICK a \in Answers(k, m, frame) :
            queue' = IF Len(queue) < Capacity THEN Append(queue, a) ELSE queue
    BY DEF Deliver
  <1> HIDE DEF m
  <1>4. a \in Frames /\ a.id = k
    BY <1>1, AnswerTypes
  <1>5. a.status = "on" => m.status = "on"
    BY DEF Answers, Answer
  <1>6. NoneOn(k) => NoneOn(k)' \/ m.status = "on"
    <2>1. CASE queue' = queue
      BY <2>1 DEF NoneOn
    <2>2. CASE queue' = Append(queue, a)
      <3>1. Len(queue) \in Nat /\ Len(queue') = Len(queue) + 1
            /\ queue'[Len(queue) + 1] = a
            /\ \A i \in 1 .. Len(queue) : queue'[i] = queue[i]
        BY <1>4, <2>2 DEF BusTypes
      <3> QED
        BY <1>5, <3>1 DEF NoneOn
    <2> QED
      BY <1>3, <2>1, <2>2
  <1> QED
    BY <1>2, <1>6 DEF m

(***************************************************************************)
(* A frame leaves the other motors and their answers alone.                *)
(***************************************************************************)
LEMMA DeliverToOther ==
    ASSUME BusTypes, NEW k \in Servos, NEW frame, Deliver(k, frame), NEW s \in Servos, s # k
    PROVE  motor'[s] = motor[s] /\ (NoneOn(s) => NoneOn(s)')
  <1>1. /\ motor'[s] = motor[s]
        /\ queue' = queue \/ \E a \in Frames : a.id = k /\ queue' = Append(queue, a)
    BY DeliverTypes
  <1>2. CASE queue' = queue
    BY <1>1, <1>2 DEF NoneOn
  <1>3. CASE \E a \in Frames : a.id = k /\ queue' = Append(queue, a)
    <2>1. PICK a \in Frames : a.id = k /\ queue' = Append(queue, a)
      BY <1>3
    <2>2. Len(queue) \in Nat /\ Len(queue') = Len(queue) + 1
          /\ queue'[Len(queue) + 1] = a
          /\ \A i \in 1 .. Len(queue) : queue'[i] = queue[i]
      BY <2>1 DEF BusTypes
    <2> QED
      BY <1>1, <2>1, <2>2 DEF NoneOn
  <1> QED
    BY <1>1, <1>2, <1>3

(***************************************************************************)
(* Every step keeps the control thread where its stage allows.             *)
(***************************************************************************)
LEMMA StartFlowStep ==
    ASSUME FlowTypes, StartFlow, [Next]_vars
    PROVE  StartFlow'
  <1> USE NumServosAssumption
         DEF StartFlow, Enabling, Handshake, Enter, NextServo, ToPark
  <1>1. CASE EnableStep
    <2>1. UNCHANGED <<phase, cur>> /\ phase # "open" /\ phase # "arm"
      BY <1>1
         DEF EnableStep, EnableEncos, WriteMode, StopReception, JoinReception,
                  SendEnable, ReadTimesOut, SkipForeign, TakeAnswer, SendReset,
                  Disarm,
                  DrainAck, RestartReception
    <2>2. want' = want
      BY <1>1
         DEF EnableStep, EnableEncos, WriteMode, StopReception, JoinReception,
                  SendEnable, ReadTimesOut, SkipForeign, TakeAnswer, SendReset,
                  Disarm,
                  DrainAck, RestartReception, driverVars
    <2>3. pc' \in {"check"} \cup Handshake
      BY <1>1
         DEF EnableStep, EnableEncos, WriteMode, StopReception, JoinReception,
                  SendEnable, ReadTimesOut, SkipForeign, TakeAnswer, SendReset,
                  Disarm,
                  DrainAck, RestartReception, GiveUp, TryAgain
    <2>4. pc' = "check" \/ pc \in Handshake \/ (pc = "mode" /\ cur \notin Encos)
      BY <1>1
         DEF EnableStep, EnableEncos, WriteMode, StopReception, JoinReception,
                  SendEnable, ReadTimesOut, SkipForeign, TakeAnswer, SendReset,
                  Disarm,
                  DrainAck, RestartReception
    <2> QED
      BY <2>1, <2>2, <2>3, <2>4
  <1>2. CASE ArmStep
    <2>1. phase = "arm" /\ want' = want
      BY <1>2
         DEF ArmStep, BeginArm, StopReception, JoinReception, QueryWindow,
             TakeReply,
                  WriteWindow, DrainWrite, EndArm, driverVars
    <2>2. CASE BeginArm \/ StopReception("query") \/ JoinReception("query")
      BY <2>1, <2>2 DEF BeginArm, StopReception, JoinReception
    <2>3. CASE QueryWindow \/ TakeReply \/ WriteWindow \/ DrainWrite
      BY <2>1, <2>3 DEF QueryWindow, TakeReply, WriteWindow, DrainWrite, ArmNext
    <2>4. CASE EndArm
      BY <2>1, <2>4 DEF EndArm
    <2> QED
      BY <1>2, <2>2, <2>3, <2>4 DEF ArmStep
  <1>3. CASE Open \/ StartServo \/ Started
    BY <1>3 DEF Open, StartServo, Started, BeginEnable, driverVars
  <1>4. CASE VerifyServo
    <2>1. Verifying /\ pc = "next"
          /\ (\/ phase' \in {"hold", "arm", "park"} /\ cur' = 1 /\ pc' = "next" /\ want' = want
              \/ phase' = phase /\ pc' = "next" /\ want' = want
              \/ phase' = phase /\ cur' = cur /\ pc' = "mode" /\ want' = TRUE)
      BY <1>4 DEF VerifyServo, Verified, BeginEnable
    <2> QED
      BY <2>1 DEF Verifying
  <1>5. CASE Reverified
    <2>1. Verifying /\ pc' = "next" /\ want' = want
          /\ (phase' = phase \/ phase' = "park")
      BY <1>5 DEF Reverified, driverVars
    <2> QED
      BY <2>1 DEF Verifying
  <1>6. CASE CommandEach
    <2>1. phase \in {"hold", "probe"} /\ pc' = "next" /\ want' = want
          /\ phase' \in {"hold", "probe", "reverify", "park"}
      BY <1>6 DEF CommandEach, driverVars
    <2> QED
      BY <2>1
  <1>7. CASE GroupRead \/ ReadServo \/ Command \/ Stop
    <2>1. phase \in {"read", "run", "recover"} /\ want' = want
          /\ (phase' \in {"read", "run", "recover"}
              \/ (pc' = "next" /\ phase' \in {"verify", "park"}))
      <3>1. CASE GroupRead \/ ReadServo \/ Command
        BY <3>1, StreamMoves, StreamKeeps
      <3>2. CASE Stop
        BY <3>2 DEF Stop, driverVars
      <3> QED
        BY <1>7, <3>1, <3>2
    <2> QED
      BY <2>1
  <1>8. CASE ParkServo \/ Parked \/ StopToClose \/ CloseDriver
    <2>1. phase = "park" /\ phase' \in {"park", "closed"}
          /\ pc' \in {"next", "mode"}
      <3>1. CASE ParkServo
        BY <3>1, Zenon DEF ParkServo
      <3>2. CASE Parked \/ StopToClose \/ CloseDriver
        BY <3>2 DEF Parked, StopToClose, CloseDriver
      <3> QED
        BY <1>8, <3>1, <3>2
    <2> QED
      BY <2>1
  <1>9. CASE ReceptionStep \/ ReceiveFails \/ Tick \/ MotorStep \/ UNCHANGED vars
    <2>1. UNCHANGED <<phase, cur, pc, want>>
      BY <1>9
         DEF ReceptionStep, Receive, SelectTimesOut, ReceiveFails, Tick,
             MotorStep,
                  Unplug, Cool, Trip, vars, driverVars
    <2>2. queue' = queue \/ queue # <<>>
      BY <1>9
         DEF ReceptionStep, Receive, SelectTimesOut, ReceiveFails, Tick,
             MotorStep,
                  Unplug, Cool, Trip, vars
    <2> QED
      BY <2>1, <2>2
  <1> QED
    BY <1>1, <1>2, <1>3, <1>4, <1>5, <1>6, <1>7, <1>8, <1>9
       DEF Next, ControlStep

(***************************************************************************)
(* What a frame does to a connected motor.                                 *)
(***************************************************************************)
LEMMA Heard ==
    ASSUME BusTypes, NEW s \in Servos, ServoInv(s), NEW frame, Deliver(s, frame)
    PROVE  /\ motor'[s].plugged
           /\ NoneOn(s) => NoneOn(s)' \/ motor'[s].status = "on"
           /\ frame \in {"enable", "mode", "query", "command", "arm", "disarm"}
                => ~motor'[s].quiet
           /\ frame \in {"mode", "query", "command"}
                => motor'[s].status = motor[s].status /\ motor'[s].window = motor[s].window
           /\ frame = "enable" =>
                /\ motor'[s].status = IF motor[s].status = "off" THEN "on" ELSE motor[s].status
                /\ motor'[s].window = motor[s].window
           /\ frame = "reset" =>
                /\ motor'[s].status = IF motor[s].status = "commLoss" THEN "off"
                                                                      ELSE motor[s].status
                /\ motor'[s].window = motor[s].window
           /\ frame = "disable" =>
                motor'[s].status = IF motor[s].status = "on" THEN "off" ELSE motor[s].status
           /\ frame = "disarm" => ~motor'[s].window /\ motor'[s].status = motor[s].status
           /\ frame = "arm" =>
                /\ motor'[s].window
                /\ ~motor[s].quiet \/ motor[s].status # "on"
                     => motor'[s].status = motor[s].status
  <1>1. motor[s] \in MotorState /\ motor[s].plugged
    BY DEF BusTypes, ServoInv
  <1>2. motor'[s] = AfterFrame(s, motor[s], frame)
        /\ (NoneOn(s) => NoneOn(s)' \/ motor'[s].status = "on")
    BY <1>1, DeliverEffect
  <1> QED
    BY <1>1, <1>2, FrameEffect

(***************************************************************************)
(* The handshake with one servo leaves the others alone.                   *)
(***************************************************************************)
LEMMA EnableOther ==
    ASSUME FlowTypes, BusTypes, EnableStep, NEW s \in Servos, s # cur
    PROVE  motor'[s] = motor[s] /\ (NoneOn(s) => NoneOn(s)')
  <1>1. cur \in Servos
    BY DEF EnableStep, EnableEncos, WriteMode, StopReception, JoinReception,
           SendEnable, ReadTimesOut, SkipForeign, TakeAnswer, SendReset, Disarm,
           DrainAck, RestartReception, FlowTypes
  <1>2. \/ motor' = motor /\ (queue' = queue \/ (queue # <<>> /\ queue' = Tail(queue)))
        \/ \E frame : Deliver(cur, frame)
    BY Zenon
       DEF EnableStep, EnableEncos, WriteMode, StopReception, JoinReception,
           SendEnable, ReadTimesOut, SkipForeign, TakeAnswer, SendReset, Disarm,
           DrainAck, RestartReception, Dropped, Sent, NotSent
  <1>3. CASE motor' = motor /\ (queue' = queue \/ (queue # <<>> /\ queue' = Tail(queue)))
    BY <1>3, TailNoneOn
  <1> QED
    BY <1>1, <1>2, <1>3, DeliverToOther

(***************************************************************************)
(* DriverCanMit::enable() establishes that its servo is enabled with its   *)
(* window closed, or fails, and leaves the other servos as they are.       *)
(***************************************************************************)
LEMMA EnableKeeps ==
    ASSUME FlowTypes, BusTypes, StartFlow, EnableStep,
           NEW s \in Servos, ServoInv(s), s \notin excused'
    PROVE  ServoInv(s)'
  <1>1. UNCHANGED <<phase, cur>> /\ phase \in {"start", "verify", "reverify", "park"}
    BY DEF EnableStep, Enabling, EnableEncos, WriteMode, StopReception,
           JoinReception,
           SendEnable, ReadTimesOut, SkipForeign, TakeAnswer, SendReset, Disarm,
           DrainAck, RestartReception
  <1>2. cur \in Nat /\ s \in Nat
    BY NumServosAssumption DEF FlowTypes, Servos
  <1> USE DEF Waits, Asked, Answered, Established, Woken, Written, Up, Kept
  <1>3. CASE s # cur
    BY <1>1, <1>2, <1>3, EnableOther DEF ServoInv
  <1>4. ASSUME s = cur, motor' = motor, UNCHANGED queue \/ (queue # <<>> /\ queue' = Tail(queue)),
               phase = "start" =>
                 /\ Waits(s)' => Waits(s)
                 /\ Asked(s)' => Asked(s) \/ Waits(s)
                 /\ Answered(s)' => motor[s].status = "on"
                 /\ Established(s)' => Established(s)
        PROVE  ServoInv(s)'
    <2>1. NoneOn(s) => NoneOn(s)'
      BY <1>4, TailNoneOn
    <2> QED
      BY <1>1, <1>2, <1>4, <2>1 DEF ServoInv
  <1>5. CASE s = cur /\ EnableEncos
    <2>1. pc' = "check" /\ s \in Encos
      BY <1>5 DEF EnableEncos
    <2>2. motor'[s].plugged /\ motor'[s].status = motor[s].status
      <3>1. UNCHANGED <<motor, queue>> \/ Deliver(s, "command")
        BY <1>5 DEF EnableEncos, Sent, NotSent
      <3> QED
        BY <3>1, Heard DEF ServoInv
    <2> QED
      BY <1>1, <1>2, <1>5, <2>1, <2>2 DEF ServoInv, Healthy
  <1>6. CASE s = cur /\ WriteMode
    <2>1. s \notin Encos /\ pc = "mode"
          /\ (\/ Deliver(s, "mode") /\ pc' = "stop"
              \/ UNCHANGED <<motor, queue>> /\ pc' = "check" /\ rc' = "FAIL")
      BY <1>6 DEF WriteMode, Sent, NotSent
    <2>2. CASE Deliver(s, "mode") /\ pc' = "stop"
      BY <1>1, <1>2, <1>6, <2>1, <2>2, Heard DEF ServoInv, Healthy
    <2>3. CASE UNCHANGED <<motor, queue>> /\ pc' = "check" /\ rc' = "FAIL"
      BY <1>1, <1>4, <1>6, <2>1, <2>3
    <2> QED
      BY <2>1, <2>2, <2>3
  <1>7. CASE s = cur /\ (StopReception("send") \/ JoinReception("send"))
    <2>1. UNCHANGED <<motor, queue>> /\ pc \in {"stop", "join"} /\ pc' \in {"join", "send"}
      BY <1>7 DEF StopReception, JoinReception
    <2> QED
      BY <1>1, <1>4, <1>7, <2>1
  <1>8. CASE s = cur /\ SendEnable
    <2>1. pc = "send" /\ s \notin Encos /\ (phase # "park" => want)
      BY <1>1, <1>8 DEF SendEnable, StartFlow, Enabling, Handshake
    <2>2. \/ UNCHANGED <<motor, queue>> /\ pc' = "restart" /\ rc' = "FAIL"
          \/ UNCHANGED <<motor, queue>> /\ pc' = "send"
          \/ pc' = "read" /\ Deliver(s, IF want THEN "enable" ELSE "disable")
      BY <1>8 DEF SendEnable, GiveUp, TryAgain, Sent, NotSent
    <2>3. CASE UNCHANGED <<motor, queue>> /\ pc' = "restart" /\ rc' = "FAIL"
      BY <1>1, <1>4, <1>8, <2>1, <2>3
    <2>4. CASE UNCHANGED <<motor, queue>> /\ pc' = "send"
      BY <1>1, <1>4, <1>8, <2>1, <2>4
    <2>5. CASE pc' = "read" /\ phase # "park" /\ Deliver(s, "enable")
      BY <1>1, <1>2, <1>8, <2>1, <2>5, Heard DEF ServoInv, Healthy
    <2>6. CASE phase = "park" /\ Deliver(s, IF want THEN "enable" ELSE "disable")
      <3>1. motor'[s].plugged
        BY <2>6, Heard
      <3> QED
        BY <1>1, <2>1, <2>6, <3>1 DEF ServoInv
    <2> QED
      BY <2>1, <2>2, <2>3, <2>4, <2>5, <2>6
  <1>9. CASE s = cur /\ (ReadTimesOut \/ SkipForeign)
    <2>1. motor' = motor /\ (UNCHANGED queue \/ (queue # <<>> /\ queue' = Tail(queue)))
          /\ pc = "read" /\ pc' \in {"read", "send"}
      BY <1>9 DEF ReadTimesOut, SkipForeign, TryAgain
    <2> QED
      BY <1>1, <1>4, <1>9, <2>1
  <1>10. CASE s = cur /\ TakeAnswer
    <2>1. /\ motor' = motor /\ queue # <<>> /\ queue' = Tail(queue) /\ pc = "read"
          /\ Head(queue).id = s
      BY <1>10 DEF TakeAnswer, Foreign
    <2>2. \/ pc' = "disarm" /\ want /\ Head(queue).status = "on"
          \/ pc' = "restart" /\ ~want
          \/ pc' = "reset"
          \/ pc' = "restart" /\ rc' = "HARDWARE_FAULT"
      BY <1>10 DEF TakeAnswer, Normal
    <2>3. phase = "start" => want
      BY DEF StartFlow
    <2>4. phase = "start" /\ pc' = "disarm" => motor[s].status = "on"
      <3> SUFFICES ASSUME phase = "start", pc' = "disarm" PROVE motor[s].status = "on"
        OBVIOUS
      <3>1. ~NoneOn(s)
        <4>1. Len(queue) \in Nat /\ 1 \in 1 .. Len(queue) /\ Head(queue) = queue[1]
          BY <2>1 DEF BusTypes
        <4>2. Head(queue).status = "on"
          BY <2>2
        <4> QED
          BY <2>1, <4>1, <4>2 DEF NoneOn
      <3> QED
        BY <1>10, <2>1, <3>1 DEF ServoInv
    <2> QED
      BY <1>1, <1>4, <1>10, <2>1, <2>2, <2>3, <2>4
  <1>11. CASE s = cur /\ SendReset
    <2>1. pc = "reset" /\ s \notin Encos
      BY <1>1, <1>11 DEF SendReset, StartFlow, Enabling, Handshake
    <2>2. \/ Deliver(s, "reset") /\ pc' = "send"
          \/ UNCHANGED <<motor, queue>> /\ pc' = "restart" /\ rc' = "FAIL"
      BY <1>11 DEF SendReset, TryAgain, Sent, NotSent
    <2>3. CASE Deliver(s, "reset") /\ pc' = "send"
      BY <1>1, <1>2, <1>11, <2>1, <2>3, Heard DEF ServoInv, Healthy
    <2>4. CASE UNCHANGED <<motor, queue>> /\ pc' = "restart" /\ rc' = "FAIL"
      BY <1>1, <1>4, <1>11, <2>1, <2>4
    <2> QED
      BY <2>2, <2>3, <2>4
  <1>12. CASE s = cur /\ Disarm
    <2>1. pc = "disarm" /\ s \notin Encos
      BY <1>1, <1>12 DEF Disarm, StartFlow, Enabling, Handshake
    <2>2. Deliver(s, "disarm") /\ pc' = "drain"
      BY <1>12 DEF Disarm, Sent, NotSent
    <2> QED
      BY <1>1, <1>2, <1>12, <2>1, <2>2, Heard DEF ServoInv, Healthy
  <1>13. CASE s = cur /\ (DrainAck \/ RestartReception)
    <2>1. motor' = motor /\ (UNCHANGED queue \/ (queue # <<>> /\ queue' = Tail(queue)))
          /\ rc' = rc
          /\ ((pc = "drain" /\ pc' = "restart") \/ (pc = "restart" /\ pc' = "check"))
      BY <1>13 DEF DrainAck, Dropped, RestartReception
    <2> QED
      BY <1>1, <1>4, <1>13, <2>1
  <1> QED
    BY <1>3, <1>5, <1>6, <1>7, <1>8, <1>9, <1>10, <1>11, <1>12, <1>13
       DEF EnableStep

(***************************************************************************)
(* arm_comm_loss_protection() trips no servo: the enable frame before the  *)
(* write restarts the counter, and no window passes within the pass.       *)
(***************************************************************************)
LEMMA ArmKeeps ==
    ASSUME FlowTypes, BusTypes, StartFlow, ArmStep,
           NEW s \in Servos, ServoInv(s), s \notin excused'
    PROVE  ServoInv(s)'
  <1>1. phase = "arm"
    BY DEF ArmStep
  <1>2. cur \in Nat /\ s \in Nat /\ NumServos \in Nat /\ s <= NumServos
    BY NumServosAssumption DEF FlowTypes, Servos
  <1>3. motor[s] \in MotorState /\ motor[s].window \in BOOLEAN
    BY DEF BusTypes, MotorState
  <1> USE DEF Waits, Asked, Answered, Established, Woken, Written, Up, Kept
  <1>4. CASE BeginArm \/ StopReception("query") \/ JoinReception("query")
    <2>1. UNCHANGED <<phase, cur, motor, queue>> /\ pc \in {"next", "stop", "join"}
          /\ pc' \in {"stop", "join", "query"}
      BY <1>4 DEF BeginArm, StopReception, JoinReception
    <2> QED
      BY <1>1, <1>2, <2>1 DEF ServoInv
  <1>5. CASE EndArm
    <2>1. phase' = "run" /\ motor' = motor
      BY <1>5 DEF EndArm, Enter
    <2> QED
      BY <2>1 DEF ServoInv
  <1>6. ASSUME cur \in Servos, pc \in {"query", "reply", "write", "drainWrite"},
               s # cur, phase' = "arm",
               \/ cur' = cur
               \/ cur' = cur + 1 /\ pc' = "query",
               motor' = motor \/ \E frame : Deliver(cur, frame)
        PROVE  ServoInv(s)'
    <2>1. motor'[s] = motor[s]
      BY <1>6, DeliverToOther
    <2> QED
      BY <1>1, <1>2, <1>6, <2>1 DEF ServoInv
  <1>7. CASE QueryWindow
    <2>1. cur \in Servos /\ pc = "query"
      BY <1>2, <1>7 DEF QueryWindow, FlowTypes, Servos
    <2>2. phase' = "arm" /\ (motor' = motor \/ \E frame : Deliver(cur, frame))
          /\ (cur' = cur \/ (cur' = cur + 1 /\ pc' = "query"))
      BY <1>1, <1>7, Zenon DEF QueryWindow, ArmNext, Sent, NotSent
    <2>3. CASE s = cur
      <3>1. \/ s \in Encos /\ Deliver(s, "query") /\ pc' = "reply" /\ cur' = cur
            \/ s \notin Encos /\ Deliver(s, "enable") /\ pc' = "reply" /\ cur' = cur
            \/ s \in Encos /\ motor' = motor /\ pc' = "write" /\ cur' = cur
        BY <1>7, <2>3 DEF QueryWindow, NotAsserted, Sent, NotSent
      <3>2. CASE s \in Encos /\ Deliver(s, "query") /\ pc' = "reply" /\ cur' = cur
        BY <1>1, <1>2, <2>1, <2>2, <2>3, <3>2, Heard DEF ServoInv, Healthy
      <3>3. CASE s \notin Encos /\ Deliver(s, "enable") /\ pc' = "reply" /\ cur' = cur
        BY <1>1, <1>2, <2>1, <2>2, <2>3, <3>3, Heard DEF ServoInv, Healthy
      <3>4. CASE s \in Encos /\ motor' = motor /\ pc' = "write" /\ cur' = cur
        BY <1>1, <1>2, <2>1, <2>2, <2>3, <3>4 DEF ServoInv, Healthy
      <3> QED
        BY <3>1, <3>2, <3>3, <3>4
    <2> QED
      BY <1>6, <2>1, <2>2, <2>3
  <1>8. CASE TakeReply
    <2>1. pc = "reply" /\ motor' = motor /\ phase' = "arm"
          /\ (\/ cur' = cur /\ pc' = "write"
              \/ cur \in Encos /\ Armed(cur) = StopOnLoss /\ cur' = cur + 1 /\ pc' = "query")
      BY <1>1, <1>8 DEF TakeReply, WindowMatches, ArmNext
    <2>2. cur \in Servos
      BY <2>1 DEF FlowTypes
    <2>3. CASE s = cur
      BY <1>1, <1>2, <2>1, <2>3 DEF ServoInv, Armed, Healthy
    <2> QED
      BY <1>6, <2>1, <2>2, <2>3
  <1>9. CASE WriteWindow
    <2>1. pc = "write" /\ phase' = "arm"
          /\ (motor' = motor \/ \E frame : Deliver(cur, frame))
          /\ (cur' = cur \/ (cur' = cur + 1 /\ pc' = "query"))
      BY <1>1, <1>9, Zenon DEF WriteWindow, ArmNext, Sent, NotSent
    <2>2. cur \in Servos
      BY <2>1 DEF FlowTypes
    <2>3. CASE s = cur
      <3>1. Deliver(s, IF StopOnLoss THEN "arm" ELSE "disarm") /\ pc' = "drainWrite"
            /\ cur' = cur
        BY <1>9, <2>3 DEF WriteWindow, NotAsserted, Sent, NotSent
      <3>2. motor[s].status = Healthy(s) /\ (s \notin Encos => ~motor[s].quiet)
            /\ (s \in Encos => motor[s].status # "on")
        BY <1>1, <2>1, <2>3 DEF ServoInv
      <3>3. CASE StopOnLoss
        <4>1. motor'[s].plugged /\ motor'[s].window /\ motor'[s].status = motor[s].status
          BY <3>1, <3>2, <3>3, Heard
        <4>2. motor'[s].window = StopOnLoss
          <5>1. motor'[s].window \in BOOLEAN
            BY <2>2, <3>1, <2>3, DeliverTypes DEF BusTypes, MotorState
          <5> QED
            BY <3>3, <4>1, <5>1, PolicyAssumption
        <4> QED
          BY <1>1, <1>2, <2>1, <2>3, <3>1, <3>2, <4>1, <4>2 DEF ServoInv
      <3>4. CASE ~StopOnLoss
        <4>1. motor'[s].plugged /\ ~motor'[s].window /\ motor'[s].status = motor[s].status
          BY <3>1, <3>2, <3>4, Heard
        <4>2. motor'[s].window = StopOnLoss
          <5>1. motor'[s].window \in BOOLEAN
            BY <2>2, <3>1, <2>3, DeliverTypes DEF BusTypes, MotorState
          <5> QED
            BY <3>4, <4>1, <5>1, PolicyAssumption
        <4> QED
          BY <1>1, <1>2, <2>1, <2>3, <3>1, <3>2, <4>1, <4>2 DEF ServoInv
      <3> QED
        BY <3>3, <3>4
    <2> QED
      BY <1>6, <2>1, <2>2, <2>3
  <1>10. CASE DrainWrite
    <2>1. pc = "drainWrite" /\ motor' = motor /\ phase' = "arm" /\ cur' = cur + 1 /\ pc' = "query"
      BY <1>1, <1>10 DEF DrainWrite, ArmNext
    <2>2. cur \in Servos
      BY <2>1 DEF FlowTypes
    <2>3. CASE s = cur
      BY <1>1, <1>2, <2>1, <2>3 DEF ServoInv
    <2> QED
      BY <1>6, <2>1, <2>2, <2>3
  <1> QED
    BY <1>4, <1>5, <1>7, <1>8, <1>9, <1>10 DEF ArmStep

(***************************************************************************)
(* The stages of main() hand on what the previous one established.         *)
(***************************************************************************)
LEMMA SequenceKeeps ==
    ASSUME FlowTypes, BusTypes, StartFlow,
           \/ Open \/ StartServo \/ Started \/ VerifyServo \/ Reverified \/ CommandEach
           \/ GroupRead \/ ReadServo \/ Command \/ Stop
           \/ ParkServo \/ Parked \/ StopToClose \/ CloseDriver,
           NEW s \in Servos, ServoInv(s)
    PROVE  ServoInv(s)'
  <1>1. cur \in Nat /\ s \in Nat /\ NumServos \in Nat /\ s >= 1 /\ s <= NumServos
    BY NumServosAssumption DEF FlowTypes, Servos
  <1> USE DEF Waits, Asked, Answered, Established, Woken, Written, Up, Kept,
              Enter, NextServo,
              ToPark
  <1>2. ASSUME \/ motor' = motor
               \/ cur \in Servos /\ \E frame \in {"command", "disable"} : Deliver(cur, frame)
        PROVE  motor'[s].plugged /\ (s \in Encos => motor'[s].status = "off")
    <2>1. CASE motor'[s] = motor[s]
      BY <2>1 DEF ServoInv
    <2>2. CASE \E frame \in {"command", "disable"} : Deliver(s, frame)
      <3>1. PICK frame \in {"command", "disable"} : Deliver(s, frame)
        BY <2>2
      <3> QED
        BY <3>1, Heard DEF ServoInv
    <2> QED
      BY <1>2, <2>1, <2>2, DeliverToOther
  <1>3. ASSUME phase' \in {"run", "recover", "park", "closed"},
               \/ motor' = motor
               \/ cur \in Servos /\ \E frame \in {"command", "disable"} : Deliver(cur, frame)
        PROVE  ServoInv(s)'
    BY <1>2, <1>3 DEF ServoInv
  <1>4. CASE Open
    <2>1. phase = "open" /\ phase' = "start" /\ cur' = 1 /\ pc' = "next"
          /\ UNCHANGED <<motor, queue>>
      BY <1>4 DEF Open
    <2>2. NoneOn(s) => NoneOn(s)'
      BY <2>1 DEF NoneOn
    <2> QED
      BY <1>1, <2>1, <2>2 DEF ServoInv
  <1>5. CASE StartServo
    <2>1. phase = "start" /\ pc = "next" /\ UNCHANGED <<motor, queue>>
          /\ (\/ cur > NumServos /\ phase' = "read"
              \/ pc' = "mode" /\ UNCHANGED <<phase, cur>>)
      BY <1>5 DEF StartServo
    <2>2. NoneOn(s) => NoneOn(s)'
      BY <2>1 DEF NoneOn
    <2> QED
      BY <1>1, <2>1, <2>2 DEF ServoInv
  <1>6. CASE Started
    <2>1. phase = "start" /\ pc = "check" /\ cur \in Servos
      BY <1>6 DEF Started, FlowTypes
    <2>2. CASE rc = "SUCCESS"
      <3>1. phase' = phase /\ cur' = cur + 1 /\ pc' = "next" /\ UNCHANGED <<motor, queue>>
        BY <1>6, <2>2 DEF Started
      <3>2. NoneOn(s) => NoneOn(s)'
        BY <3>1 DEF NoneOn
      <3> QED
        BY <1>1, <2>1, <2>2, <3>1, <3>2 DEF ServoInv
    <2>3. CASE rc # "SUCCESS"
      <3>1. phase' = "park" /\ (motor' = motor \/ Deliver(cur, "disable"))
        BY <1>6, <2>3 DEF Started, Latch, Sent, NotSent
      <3> QED
        BY <1>3, <2>1, <3>1
    <2> QED
      BY <2>2, <2>3
  <1>7. CASE VerifyServo \/ Reverified
    <2>1. phase \in {"verify", "reverify"} /\ motor' = motor
      BY <1>7 DEF VerifyServo, Reverified, Verifying
    <2>2. \/ phase' \in {"verify", "reverify", "hold", "park"}
          \/ phase' = "arm" /\ cur' = 1 /\ pc' = "next"
      <3>1. CASE VerifyServo
        BY <2>1, <3>1 DEF VerifyServo, Verified
      <3>2. CASE Reverified
        BY <2>1, <3>2 DEF Reverified
      <3> QED
        BY <1>7, <3>1, <3>2
    <2>3. CASE phase' = "park"
      BY <1>3, <2>1, <2>3
    <2>4. CASE phase' # "park"
      BY <1>1, <2>1, <2>2, <2>4 DEF ServoInv
    <2> QED
      BY <2>3, <2>4
  <1>8. CASE CommandEach
    <2>1. phase \in {"hold", "probe"} /\ phase' \in {"hold", "probe", "reverify", "park"}
      BY <1>8 DEF CommandEach
    <2>2. motor' = motor \/ (~(cur > NumServos) /\ Deliver(cur, "command"))
      BY <1>8, Zenon DEF CommandEach, Sent, NotSent
    <2>3. motor' = motor \/ (cur \in Servos /\ Deliver(cur, "command"))
      BY <1>1, <2>2 DEF FlowTypes, Servos
    <2>4. CASE phase' = "park"
      BY <1>3, <2>3, <2>4
    <2>5. CASE phase' # "park"
      <3>1. motor'[s].plugged /\ motor'[s].status = motor[s].status
            /\ motor'[s].window = motor[s].window
        <4>1. CASE motor'[s] = motor[s]
          BY <4>1 DEF ServoInv
        <4>2. CASE Deliver(s, "command")
          BY <4>2, Heard
        <4> QED
          BY <2>3, <4>1, <4>2, DeliverToOther
      <3> QED
        BY <2>1, <2>5, <3>1 DEF ServoInv
    <2> QED
      BY <2>4, <2>5
  <1>9. CASE GroupRead \/ ReadServo \/ Command
    <2>1. /\ phase' \in {"read", "verify", "run", "recover", "park"}
          /\ phase' \in {"read", "verify"} => phase = "read"
      BY <1>9, StreamMoves
    <2>2. CASE motor' = motor
      <3>1. CASE phase' \in {"run", "recover", "park"}
        BY <1>3, <2>2, <3>1
      <3>2. CASE phase' \in {"read", "verify"}
        BY <2>1, <2>2, <3>2 DEF ServoInv
      <3> QED
        BY <2>1, <3>1, <3>2
    <2>3. CASE motor' # motor
      <3>1. (Command \/ ReadServo) /\ pc \notin {"next", "query"}
        BY <1>9, <2>3 DEF GroupRead, Command, ReadServo
      <3>2. cur \in Servos
        BY <3>1 DEF FlowTypes
      <3>3. CASE Command
        <4>1. Deliver(cur, "command") /\ phase' \in {"run", "recover"}
          BY <2>1, <2>3, <3>3 DEF Command, Sent, NotSent, Onward, Recover
        <4> QED
          BY <1>3, <3>2, <4>1
      <3>4. CASE ReadServo
        <4>1. Latch(cur) /\ phase' \in {"recover", "park"}
          BY <2>3, <3>4, ReadEffect
        <4>2. Deliver(cur, "disable")
          BY <2>3, <4>1 DEF Latch, Sent, NotSent
        <4> QED
          BY <1>3, <3>2, <4>1, <4>2
      <3> QED
        BY <3>1, <3>3, <3>4
    <2> QED
      BY <2>2, <2>3
  <1>11. CASE Stop \/ Parked \/ StopToClose \/ CloseDriver
    <2>1. phase' \in {"park", "closed"} /\ motor' = motor
      BY <1>11 DEF Stop, Parked, StopToClose, CloseDriver
    <2> QED
      BY <1>3, <2>1
  <1>12. CASE ParkServo
    <2>1. phase' = "park" /\ cur <= NumServos
      BY <1>12, Zenon DEF ParkServo
    <2>2. motor' = motor \/ Deliver(cur, "command")
      BY <1>12, Zenon DEF ParkServo, Sent, NotSent
    <2>3. cur \in Servos
      BY <1>1, <2>1 DEF FlowTypes, Servos
    <2> QED
      BY <1>3, <2>1, <2>2, <2>3
  <1> QED
    BY <1>4, <1>5, <1>6, <1>7, <1>8, <1>9, <1>11, <1>12

(***************************************************************************)
(* Neither the reception thread nor time undoes what was established: a    *)
(* motor whose window is closed does not trip.                             *)
(***************************************************************************)
LEMMA WorldKeeps ==
    ASSUME FlowTypes, BusTypes, StartFlow,
           ReceptionStep \/ ReceiveFails \/ Tick \/ MotorStep \/ UNCHANGED vars,
           NEW s \in Servos, ServoInv(s), s \notin excused'
    PROVE  ServoInv(s)'
  <1>1. UNCHANGED <<phase, cur, pc, rc>>
    BY DEF ReceptionStep, Receive, SelectTimesOut, ReceiveFails, Tick,
           MotorStep,
           Unplug, Cool, Trip, vars
  <1>2. cur \in Nat /\ s \in Nat
    BY NumServosAssumption DEF FlowTypes, Servos
  <1> USE DEF Waits, Asked, Answered, Established, Woken, Written, Up, Kept
  <1>3. ASSUME motor'[s] = motor[s],
               queue' = queue \/ (queue # <<>> /\ queue' = Tail(queue))
        PROVE  ServoInv(s)'
    <2>1. NoneOn(s) => NoneOn(s)'
      BY <1>3, TailNoneOn
    <2> QED
      BY <1>1, <1>3, <2>1 DEF ServoInv
  <1>4. CASE ReceptionStep \/ ReceiveFails \/ UNCHANGED vars
    <2>1. motor' = motor /\ (queue' = queue \/ (queue # <<>> /\ queue' = Tail(queue)))
      BY <1>4 DEF ReceptionStep, Receive, SelectTimesOut, ReceiveFails, vars
    <2> QED
      BY <1>3, <2>1
  <1>5. CASE MotorStep
    <2>1. PICK k \in Servos : Unplug(k) \/ Cool(k) \/ \E status \in IsFault : Trip(k, status)
      BY <1>5 DEF MotorStep
    <2>2. excused' = excused \cup {k} /\ queue' = queue
      BY <2>1 DEF Unplug, Cool, Trip, Fails
    <2>3. s # k
      BY <2>2
    <2>4. motor'[s] = motor[s]
      BY <2>1, <2>3 DEF Unplug, Cool, Trip, BusTypes
    <2> QED
      BY <1>3, <2>2, <2>4
  <1>6. CASE Tick
    <2>1. ~InExchange /\ phase # "open" /\ queue' = queue
          /\ motor'[s] = [motor[s] EXCEPT !.quiet = TRUE,
                            !.status = IF motor[s].quiet /\ motor[s].window /\ @ = "on"
                                       THEN "commLoss" ELSE @]
      BY <1>6 DEF Tick
    <2>2. motor[s] \in MotorState
      BY DEF BusTypes
    <2>3. motor'[s].plugged = motor[s].plugged /\ motor'[s].window = motor[s].window
          /\ (motor'[s].status = motor[s].status
              \/ (motor[s].window /\ motor[s].status = "on" /\ motor'[s].status = "commLoss"))
      BY <2>1, <2>2 DEF MotorState
    <2>4. NoneOn(s) => NoneOn(s)'
      BY <2>1 DEF NoneOn
    <2>5. ~Asked(s) /\ ~Answered(s) /\ ~Woken(s) /\ (phase = "arm" => pc \in {"next", "stop", "join"})
      BY <2>1 DEF InExchange, Enabling, StartFlow
    <2>6. ~Written(s)
      BY <1>2, <2>5 DEF StartFlow, Servos
    <2>7. ~Asked(s)' /\ ~Answered(s)' /\ ~Woken(s)' /\ ~Written(s)'
      BY <1>1, <2>5, <2>6
    <2>8. Established(s)' => Up(s)'
      <3>1. Established(s)' => Established(s)
        BY <1>1
      <3> QED
        BY <2>3, <3>1 DEF ServoInv, Healthy
    <2>9. Waits(s)' => motor'[s].status # "on" /\ NoneOn(s)'
      BY <1>1, <2>3, <2>4 DEF ServoInv
    <2>10. motor'[s].plugged /\ (s \in Encos => motor'[s].status = "off")
      BY <2>3 DEF ServoInv
    <2> QED
      BY <2>7, <2>8, <2>9, <2>10 DEF ServoInv
  <1> QED
    BY <1>4, <1>5, <1>6

(***************************************************************************)
(* The invariant of the start is inductive.                                *)
(***************************************************************************)
LEMMA StartStep ==
    ASSUME FlowTypes, BusTypes, StartInv, [Next]_vars
    PROVE  StartInv'
  <1>1. StartFlow'
    BY StartFlowStep DEF StartInv
  <1>2. ASSUME NEW s \in Servos \ excused' PROVE ServoInv(s)'
    <2>1. excused \subseteq excused'
      <3>1. CASE EnableStep \/ ArmStep
        BY <3>1
           DEF EnableStep, EnableEncos, WriteMode, StopReception, JoinReception,
                  SendEnable, ReadTimesOut, SkipForeign, TakeAnswer, SendReset,
                  Disarm,
                  DrainAck, RestartReception, ArmStep, BeginArm, QueryWindow,
                  TakeReply,
                  WriteWindow, DrainWrite, EndArm, NotAsserted
      <3>2. CASE Open \/ StartServo \/ Started \/ VerifyServo \/ Reverified \/ CommandEach
                 \/ GroupRead \/ ReadServo \/ Command \/ Stop
                 \/ ParkServo \/ Parked \/ StopToClose \/ CloseDriver
        <4>1. excused' = excused
          BY <3>2, Zenon
             DEF Open, StartServo, Started, VerifyServo, Reverified,
                 CommandEach, GroupRead,
                 ReadServo, Command, Stop, ParkServo, Parked, StopToClose,
                 CloseDriver
        <4> QED
          BY <4>1
      <3>3. CASE ReceptionStep \/ ReceiveFails \/ Tick \/ MotorStep \/ UNCHANGED vars
        BY <3>3
           DEF ReceptionStep, Receive, SelectTimesOut, ReceiveFails, Tick,
               MotorStep,
                  Unplug, Cool, Trip, Fails, vars
      <3> QED
        BY <3>1, <3>2, <3>3 DEF Next, ControlStep
    <2>2. s \in Servos /\ s \notin excused' /\ ServoInv(s) /\ StartFlow
      BY <2>1 DEF StartInv
    <2>3. CASE EnableStep
      BY <2>2, <2>3, EnableKeeps
    <2>4. CASE ArmStep
      BY <2>2, <2>4, ArmKeeps
    <2>5. CASE ReceptionStep \/ ReceiveFails \/ Tick \/ MotorStep \/ UNCHANGED vars
      BY <2>2, <2>5, WorldKeeps
    <2> QED
      BY <2>2, <2>3, <2>4, <2>5, SequenceKeeps DEF Next, ControlStep
  <1> QED
    BY <1>1, <1>2 DEF StartInv

(***************************************************************************)
(* The invariant of the start holds initially.                             *)
(***************************************************************************)
LEMMA StartInit == Init => StartInv
  <1> SUFFICES ASSUME Init PROVE StartInv
    OBVIOUS
  <1>1. StartFlow
    BY DEF Init, StartFlow, Enabling
  <1>2. ASSUME NEW s \in Servos \ excused PROVE ServoInv(s)
    <2>1. phase = "open" /\ queue = <<>> /\ motor[s].plugged /\ motor[s].status # "on"
          /\ (s \in Encos => motor[s].status = "off")
      BY <1>2 DEF Init
    <2>2. NoneOn(s)
      BY <2>1 DEF NoneOn
    <2> QED
      BY <2>1, <2>2
         DEF ServoInv, Waits, Asked, Answered, Established, Woken, Written
  <1> QED
    BY <1>1, <1>2 DEF StartInv

(***************************************************************************)
(* When the command stream starts, every motor is enabled and has the      *)
(* protection window that the policy asks for, unless a write could not be *)
(* sent or the motor failed by itself: for every number and mix of servos, *)
(* whichever windows and trips an earlier run left behind, and whatever    *)
(* frames are lost.                                                        *)
(***************************************************************************)
THEOREM StreamStarts == Spec => StreamStartsEnabled
  <1>1. (CanInv /\ StartInv) /\ [Next]_vars => (CanInv /\ StartInv)'
    <2> SUFFICES ASSUME CanInv, StartInv, [Next]_vars PROVE CanInv' /\ StartInv'
      OBVIOUS
    <2>1. CanInv'
      BY CanStep
    <2>2. StartInv'
      BY StartStep DEF CanInv
    <2> QED
      BY <2>1, <2>2
  <1>2. CanInv /\ StartInv /\ [Next]_vars =>
          [phase = "arm" /\ phase' = "run" =>
             \A s \in Servos \ excused : /\ motor'[s].status = Healthy(s)
                                          /\ motor'[s].window = StopOnLoss]_vars
    <2> SUFFICES ASSUME CanInv, StartInv, [Next]_vars, phase = "arm", phase' = "run",
                        NEW s \in Servos \ excused
                 PROVE  motor'[s].status = Healthy(s) /\ motor'[s].window = StopOnLoss
      OBVIOUS
    <2>1. EndArm
      <3>1. ~(EnableStep \/ Open \/ StartServo \/ Started \/ VerifyServo \/ Reverified
              \/ CommandEach \/ GroupRead \/ ReadServo \/ Command \/ Stop \/ ParkServo \/ Parked
              \/ StopToClose \/ CloseDriver)
        BY DEF EnableStep, Enabling, Open, StartServo, Started, VerifyServo,
               Verifying,
               Reverified, CommandEach, GroupRead, ReadServo, Command, Stop,
               ParkServo,
               Parked, StopToClose, CloseDriver
      <3>2. ~(ReceptionStep \/ ReceiveFails \/ Tick \/ MotorStep \/ UNCHANGED vars)
        BY DEF ReceptionStep, Receive, SelectTimesOut, ReceiveFails, Tick,
               MotorStep,
               Unplug, Cool, Trip, vars
      <3>3. ArmStep => EndArm
        BY DEF ArmStep, BeginArm, StopReception, JoinReception, QueryWindow,
               TakeReply,
               WriteWindow, DrainWrite, ArmNext
      <3> QED
        BY <3>1, <3>2, <3>3 DEF Next, ControlStep
    <2>2. motor' = motor /\ cur > NumServos
      BY <2>1 DEF EndArm
    <2>3. Written(s)
      <3>1. cur \in Nat /\ s \in 1 .. NumServos
        BY NumServosAssumption DEF CanInv, FlowTypes, Servos
      <3> QED
        BY <2>2, <3>1, NumServosAssumption DEF Written
    <2> QED
      BY <2>2, <2>3 DEF StartInv, ServoInv, Kept
  <1> QED
    BY <1>1, <1>2, CanInit, StartInit, PTL DEF Spec, StreamStartsEnabled

-----------------------------------------------------------------------------
(***************************************************************************)
(* The staleness scan.  The stages of the bus after the first scan.        *)
(***************************************************************************)
Scanned == \/ phase \in {"verify", "hold", "probe", "reverify", "arm", "run"}
           \/ phase = "read" /\ pc = "read"
Down == {"recover", "park", "closed"}
AllFresh == \A s \in Servos : cache[s].age = 0

(***************************************************************************)
(* t lies on the way from c to s, where the servos are commanded one after *)
(* the other and the first follows the last.                               *)
(***************************************************************************)
Between(c, t, s) == (c <= t /\ t <= s) \/ (s < c /\ (c <= t \/ t <= s))

(***************************************************************************)
(* A status of the servo waits in the buffer.                              *)
(***************************************************************************)
Reported(s) == \E i \in 1 .. Len(queue) : queue[i].id = s /\ queue[i].kind = "status"

(***************************************************************************)
(* Every frame in the buffer is of a servo that was commanded since the    *)
(* last tick, and no two are of the same servo.                            *)
(***************************************************************************)
OnePerServo ==
    /\ \A i \in 1 .. Len(queue) : ~motor[queue[i].id].quiet
    /\ \A i, j \in 1 .. Len(queue) : queue[i].id = queue[j].id => i = j

(***************************************************************************)
(* What a tick leaves behind.  No cached status is older than one tick; a  *)
(* servo that was commanded since has a fresh one or its answer waits; the *)
(* servos still to be commanded come next in the order of the stream, and  *)
(* as long as there is one the buffer holds at most one answer of each of  *)
(* the others.                                                             *)
(***************************************************************************)
Round ==
    /\ \A s \in Servos : cache[s].age <= 1
    /\ \A s \in Servos : motor[s].quiet \/ cache[s].age = 0 \/ Reported(s)
    /\ (\E s \in Servos : motor[s].quiet) => OnePerServo
    /\ \A s, t \in Servos : motor[s].quiet /\ Between(cur, t, s) => motor[t].quiet

(***************************************************************************)
(* The inductive invariant.  A scan that found no servo dead found every   *)
(* one heard of, and so a motor that moved.  Until the stream, a tick ends *)
(* the promptness, so no cached status is older than the start; in the     *)
(* stream, every status is fresh or a round is under way.                  *)
(***************************************************************************)
AllSeen == Scanned /\ dead = {} => moved /\ \A s \in Servos : cache[s].seen
AllPlugged == prompt => \A s \in Servos : motor[s].plugged
NoTickYet == prompt /\ phase # "run" /\ phase \notin Down => AllFresh
InTime == prompt /\ phase = "run" => AllFresh \/ Round
StreamFlow == phase = "run" => cur \in Servos /\ pc \in {"next", "read", "write"}
AliveInv == AllSeen /\ AllPlugged /\ NoTickYet /\ InTime /\ StreamFlow

(***************************************************************************)
(* The cache changes when a frame is parsed and when time passes.          *)
(***************************************************************************)
LEMMA CacheCases ==
    ASSUME [Next]_vars
    PROVE  \/ cache' = cache
           \/ queue # <<>> /\ cache' = Parsed(cache, Head(queue))
           \/ Tick
  <1>1. CASE EnableStep
    BY <1>1, Zenon
       DEF EnableStep, EnableEncos, WriteMode, StopReception, JoinReception,
           SendEnable, ReadTimesOut, SkipForeign, TakeAnswer, SendReset, Disarm,
           DrainAck, RestartReception
  <1>2. CASE ArmStep
    BY <1>2, Zenon
       DEF ArmStep, BeginArm, StopReception, JoinReception, QueryWindow,
           TakeReply, WriteWindow, DrainWrite, EndArm
  <1>3. CASE Open \/ StartServo \/ VerifyServo \/ Reverified \/ CommandEach \/ Command \/ Stop
             \/ ParkServo \/ StopToClose \/ CloseDriver \/ Started \/ ReadServo \/ Parked
             \/ GroupRead
    BY <1>3, Zenon
       DEF Open, StartServo, VerifyServo, Reverified, CommandEach, Command,
           Stop,
           ParkServo, StopToClose, CloseDriver, Started, ReadServo, Parked,
           GroupRead
  <1>4. CASE ReceptionStep \/ ReceiveFails
    BY <1>4, Zenon DEF ReceptionStep, Receive, SelectTimesOut, ReceiveFails
  <1>5. CASE MotorStep
    BY <1>5 DEF MotorStep, Unplug, Cool, Trip
  <1>6. CASE UNCHANGED vars
    BY <1>6 DEF vars
  <1> QED
    BY <1>1, <1>2, <1>3, <1>4, <1>5, <1>6 DEF Next, ControlStep

(***************************************************************************)
(* What parsing a frame does to the entry of a servo.                      *)
(***************************************************************************)
LEMMA ParsedEffect ==
    ASSUME NEW c \in [Servos -> CacheEntry], NEW f \in Frames, NEW s \in Servos
    PROVE  /\ c[s].seen => Parsed(c, f)[s].seen
           /\ Parsed(c, f)[s].age = c[s].age \/ Parsed(c, f)[s].age = 0
           /\ f.id # s => Parsed(c, f)[s] = c[s]
           /\ f.id = s /\ f.kind = "status" => Parsed(c, f)[s].age = 0
  <1>1. f.id \in Servos /\ c[s] \in CacheEntry
    BY DEF Frames
  <1>2. CASE f.kind = "status"
    <2>1. Parsed(c, f) = [c EXCEPT ![f.id] = [seen |-> TRUE, error |-> f.status, age |-> 0]]
      BY <1>2 DEF Parsed
    <2> QED
      BY <1>1, <2>1
  <1>3. CASE f.kind # "status" /\ f.id \in Encos
    <2>1. Parsed(c, f) = [c EXCEPT ![f.id].seen = TRUE, ![f.id].age = 0]
      BY <1>3 DEF Parsed
    <2> QED
      BY <1>1, <1>3, <2>1 DEF CacheEntry
  <1>4. CASE f.kind # "status" /\ f.id \notin Encos
    <2>1. Parsed(c, f) = c
      BY <1>4 DEF Parsed
    <2> QED
      BY <1>4, <2>1
  <1> QED
    BY <1>2, <1>3, <1>4

(***************************************************************************)
(* A servo that was heard of stays so, and only time makes a status older. *)
(***************************************************************************)
LEMMA CacheEffect ==
    ASSUME BusTypes, SetTypes, [Next]_vars, NEW s \in Servos
    PROVE  /\ cache[s].seen => cache'[s].seen
           /\ Tick \/ cache'[s].age = cache[s].age \/ cache'[s].age = 0
  <1>1. CASE cache' = cache
    BY <1>1
  <1>2. CASE queue # <<>> /\ cache' = Parsed(cache, Head(queue))
    <2>1. Head(queue) \in Frames
      BY <1>2 DEF BusTypes
    <2>2. cache \in [Servos -> CacheEntry]
      BY DEF SetTypes
    <2> QED
      BY <1>2, <2>1, <2>2, ParsedEffect
  <1>3. CASE Tick
    <2>1. cache'[s] = Older(cache[s]) /\ cache[s] \in CacheEntry
      BY <1>3 DEF Tick, SetTypes
    <2> QED
      BY <1>3, <2>1 DEF Older, CacheEntry
  <1> QED
    BY <1>1, <1>2, <1>3, CacheCases

(***************************************************************************)
(* The order of the stages: the way down is final, the start goes on after *)
(* a scan, and the stream follows the arming.                              *)
(***************************************************************************)
LEMMA PhaseCases ==
    ASSUME FlowTypes, [Next]_vars
    PROVE  /\ phase \in Down => phase' \in Down
           /\ Scanned' => Scanned \/ GroupRead
           /\ phase' = "run" => phase = "run" \/ phase = "arm"
           /\ phase = "run" => phase' = "run" \/ phase' \in Down
  <1> USE DEF Enter, NextServo, ToPark, Scanned, Down
  <1>1. CASE EnableStep
    <2>1. phase' = phase /\ phase # "read"
      BY <1>1
         DEF EnableStep, Enabling, EnableEncos, WriteMode, StopReception,
             JoinReception, SendEnable, ReadTimesOut, SkipForeign, TakeAnswer,
             SendReset, Disarm, DrainAck, RestartReception
    <2> QED
      BY <2>1
  <1>2. CASE ArmStep
    BY <1>2
       DEF ArmStep, BeginArm, StopReception, JoinReception, QueryWindow,
           ArmNext,
           TakeReply, WriteWindow, DrainWrite, EndArm
  <1>3. CASE Open \/ StartServo \/ Started
    BY <1>3 DEF Open, StartServo, Started
  <1>4. CASE VerifyServo \/ Reverified
    BY <1>4 DEF VerifyServo, Reverified, Verifying, Verified
  <1>5. CASE CommandEach
    BY <1>5 DEF CommandEach
  <1>6. CASE GroupRead
    <2>1. /\ phase \in {"read", "run", "recover"}
          /\ phase' = phase \/ (phase = "run" /\ phase' = "recover")
      BY <1>6 DEF GroupRead, Recover
    <2> QED
      BY <1>6, <2>1
  <1>7. CASE ReadServo \/ Command
    <2>1. pc # "next" /\ (phase = "read" => pc = "read")
      BY <1>7 DEF ReadServo, Command
    <2>2. Scanned' => Scanned
      BY <1>7, <2>1, StreamMoves
    <2> QED
      BY <1>7, <2>1, <2>2, StreamMoves
  <1>8. CASE Stop
    BY <1>8 DEF Stop
  <1>9. CASE ParkServo \/ Parked \/ StopToClose \/ CloseDriver
    BY <1>9 DEF ParkServo, Parked, StopToClose, CloseDriver
  <1>10. CASE ReceptionStep \/ ReceiveFails \/ Tick \/ MotorStep \/ UNCHANGED vars
    BY <1>10 DEF ReceptionStep, Receive, SelectTimesOut, ReceiveFails, Tick,
                MotorStep, Unplug, Cool, Trip, vars
  <1> QED
    BY <1>1, <1>2, <1>3, <1>4, <1>5, <1>6, <1>7, <1>8, <1>9, <1>10
       DEF Next, ControlStep

(***************************************************************************)
(* What keeps the promptness: a tick does only in the stream, when every   *)
(* servo was commanded and every answer was taken from the buffer.         *)
(***************************************************************************)
LEMMA PromptCases ==
    ASSUME [Next]_vars
    PROVE  \/ prompt' = FALSE
           \/ UNCHANGED prompt /\ ~Tick /\ ~MotorStep /\ ~ReceiveFails
           \/ UNCHANGED prompt /\ ~Tick /\ UNCHANGED vars
           \/ /\ Tick /\ prompt /\ phase = "run" /\ queue = <<>>
              /\ \A s \in Servos : ~motor[s].quiet
  <1>1. CASE ReceiveFails
    BY <1>1 DEF ReceiveFails
  <1>2. CASE MotorStep
    BY <1>2 DEF MotorStep, Unplug, Cool, Trip, Fails
  <1>3. CASE Tick
    BY <1>3 DEF Tick
  <1>4. CASE UNCHANGED vars
    BY <1>3, <1>4 DEF vars
  <1> QED
    BY <1>1, <1>2, <1>3, <1>4 DEF Next, ControlStep, ReceptionStep

(***************************************************************************)
(* Only the scan changes the set of dead servos, or finds a servo moved.   *)
(***************************************************************************)
LEMMA DeadCases ==
    ASSUME [Next]_vars
    PROVE  (dead' = dead /\ moved' = moved) \/ GroupRead
  <1>1. CASE EnableStep \/ ArmStep
    BY <1>1
       DEF EnableStep, EnableEncos, WriteMode, StopReception, JoinReception,
           SendEnable, ReadTimesOut, SkipForeign, TakeAnswer, SendReset, Disarm,
           DrainAck, RestartReception, ArmStep, BeginArm, QueryWindow,
           TakeReply, WriteWindow, DrainWrite, EndArm, servoVars
  <1>2. CASE Open \/ StartServo \/ VerifyServo \/ Reverified \/ CommandEach \/ Command \/ Stop
             \/ ParkServo \/ StopToClose \/ CloseDriver \/ Started \/ ReadServo \/ Parked
    BY <1>2, Zenon
       DEF Open, StartServo, VerifyServo, Reverified, CommandEach, Command,
           Stop,
           ParkServo, StopToClose, CloseDriver, Started, ReadServo, Parked,
           servoVars
  <1>4. CASE ReceptionStep \/ ReceiveFails \/ Tick \/ MotorStep \/ UNCHANGED vars
    BY <1>4 DEF ReceptionStep, Receive, SelectTimesOut, ReceiveFails, Tick,
                MotorStep, Unplug, Cool, Trip, vars, servoVars
  <1> QED
    BY <1>1, <1>2, <1>4 DEF Next, ControlStep

(***************************************************************************)
(* What happens in the stream while it stays prompt.                       *)
(***************************************************************************)
LEMMA RunCases ==
    ASSUME phase = "run", phase' = "run", prompt', prompt \in BOOLEAN, [Next]_vars
    PROVE  \/ UNCHANGED <<cache, queue, motor, cur>>
           \/ /\ Deliver(cur, "command") /\ UNCHANGED cache
              /\ cur' = IF cur < NumServos THEN cur + 1 ELSE 1
           \/ Receive
           \/ Tick
  <1> USE DEF Enter, ToPark
  <1>1. CASE GroupRead
    BY <1>1 DEF GroupRead, Recover
  <1>2. CASE ReadServo
    BY <1>2 DEF ReadServo, ReadHealthy, ReadFault, Recover
  <1>3. CASE Command
    BY <1>3 DEF Command, Sent, NotSent, Recover, Onward
  <1>4. CASE ReceptionStep
    BY <1>4 DEF ReceptionStep, SelectTimesOut
  <1>5. CASE ReceiveFails \/ MotorStep
    BY <1>5 DEF ReceiveFails, MotorStep, Unplug, Cool, Trip, Fails
  <1>6. CASE UNCHANGED vars
    BY <1>6 DEF vars
  <1>7. ~(EnableStep \/ ArmStep \/ Open \/ StartServo \/ Started \/ VerifyServo \/ Reverified
          \/ CommandEach \/ Stop \/ ParkServo \/ Parked \/ StopToClose \/ CloseDriver)
    BY DEF EnableStep, Enabling, ArmStep, Open, StartServo, Started,
           VerifyServo,
           Verifying, Reverified, CommandEach, Stop, ParkServo, Parked,
           StopToClose, CloseDriver
  <1> QED
    BY <1>1, <1>2, <1>3, <1>4, <1>5, <1>6, <1>7 DEF Next, ControlStep

(***************************************************************************)
(* The buffer has room for the answer of a servo that was not commanded    *)
(* yet: at most one answer of each of the others waits in it.              *)
(***************************************************************************)
LEMMA RoomForOne ==
    ASSUME BusTypes, Capacity >= NumServos, OnePerServo, NEW s \in Servos, motor[s].quiet
    PROVE  Len(queue) < Capacity
  <1> DEFINE I == 1 .. Len(queue)
             R == Servos \ {s}
             f == [i \in I |-> queue[i].id]
  <1>1. Len(queue) \in Nat
    BY DEF BusTypes
  <1>2. IsFiniteSet(Servos) /\ Cardinality(Servos) = NumServos
    BY NumServosAssumption, FS_Interval DEF Servos
  <1>3. IsFiniteSet(R) /\ Cardinality(R) = NumServos - 1
    BY <1>2, FS_RemoveElement
  <1>4. IsFiniteSet(I) /\ Cardinality(I) = Len(queue)
    <2>1. 1 \in Int /\ Len(queue) \in Int
      BY <1>1
    <2>2. IsFiniteSet(1 .. Len(queue))
          /\ Cardinality(1 .. Len(queue)) = IF 1 > Len(queue) THEN 0 ELSE Len(queue) - 1 + 1
      BY <2>1, FS_Interval
    <2> QED
      BY <1>1, <2>2
  <1>5. \A i \in I : queue[i].id \in R
    <2>1. \A i \in I : queue[i] \in Frames
      BY <1>1 DEF BusTypes
    <2> QED
      BY <2>1 DEF OnePerServo, Frames
  <1>6. f \in [I -> R]
    BY <1>5
  <1>7. \A i, j \in I : f[i] = f[j] => i = j
    BY DEF OnePerServo
  <1>8. f \in Injection(I, R)
    BY <1>6, <1>7 DEF Injection, IsInjective
  <1> HIDE DEF f, I, R
  <1>9. Cardinality(I) <= Cardinality(R)
    BY <1>3, <1>8, FS_Injection
  <1> QED
    BY <1>1, <1>3, <1>4, <1>9, NumServosAssumption, LimitsAssumption

(***************************************************************************)
(* A connected motor answers a command with its status, which is dropped   *)
(* only when the buffer is full.                                           *)
(***************************************************************************)
LEMMA CommandAnswered ==
    ASSUME BusTypes, "alias" \notin Faults, NEW s \in Servos, motor[s].plugged,
           Deliver(s, "command")
    PROVE  /\ ~motor'[s].quiet
           /\ motor'[s].plugged
           /\ \A k \in Servos : k # s => motor'[k] = motor[k]
           /\ IF Len(queue) < Capacity
              THEN \E a \in Frames : a.id = s /\ a.kind = "status" /\ queue' = Append(queue, a)
              ELSE queue' = queue
  <1> DEFINE m == AfterFrame(s, motor[s], "command")
  <1>1. motor[s] \in MotorState
    BY DEF BusTypes
  <1>2. m \in MotorState /\ ~m.quiet /\ m.plugged
    BY <1>1, FrameEffect
  <1>3. motor' = [motor EXCEPT ![s] = m]
    BY DEF Deliver
  <1>4. PICK a \in Answers(s, m, "command") :
            queue' = IF Len(queue) < Capacity THEN Append(queue, a) ELSE queue
    BY DEF Deliver
  <1> HIDE DEF m
  <1>5. a \in Frames /\ a.id = s
    BY <1>2, AnswerTypes
  <1>6. a = Answer(s, m, "command")
    BY DEF Answers
  <1>7. a.kind = "status"
    BY <1>6 DEF Answer
  <1> QED
    BY <1>2, <1>3, <1>4, <1>5, <1>7 DEF BusTypes

(***************************************************************************)
(* A command keeps the round: its servo is the next one that was not       *)
(* commanded, if there is one, and then the buffer has room for the        *)
(* answer.                                                                 *)
(***************************************************************************)
LEMMA CommandRound ==
    ASSUME BusTypes, SetTypes, "alias" \notin Faults, Capacity >= NumServos,
           cur \in Servos, \A s \in Servos : motor[s].plugged, Round,
           Deliver(cur, "command"), UNCHANGED cache,
           cur' = IF cur < NumServos THEN cur + 1 ELSE 1
    PROVE  Round'
  <1>1. /\ ~motor'[cur].quiet
        /\ \A k \in Servos : k # cur => motor'[k] = motor[k]
        /\ IF Len(queue) < Capacity
           THEN \E a \in Frames : a.id = cur /\ a.kind = "status" /\ queue' = Append(queue, a)
           ELSE queue' = queue
    BY CommandAnswered
  <1>2. Len(queue) \in Nat /\ queue \in Seq(Frames)
    BY DEF BusTypes
  <1>3. \/ queue' = queue /\ ~(Len(queue) < Capacity)
        \/ /\ Len(queue') = Len(queue) + 1
           /\ queue'[Len(queue) + 1].id = cur /\ queue'[Len(queue) + 1].kind = "status"
           /\ \A i \in 1 .. Len(queue) : queue'[i] = queue[i]
    BY <1>1, <1>2
  <1>4. \A s \in Servos : cache'[s].age <= 1
    BY DEF Round
  <1>5. ASSUME NEW s \in Servos PROVE Reported(s) => Reported(s)'
    BY <1>2, <1>3 DEF Reported
  <1>0. PICK c \in Servos : c = cur
    OBVIOUS
  <1>6. motor[c].quiet => Reported(c)'
    <2>1. SUFFICES ASSUME motor[c].quiet PROVE Reported(c)'
      OBVIOUS
    <2>2. OnePerServo
      BY <2>1 DEF Round
    <2>3. Len(queue) < Capacity
      BY <2>1, <2>2, RoomForOne
    <2>4. Len(queue) + 1 \in 1 .. Len(queue')
      BY <1>2, <1>3, <2>3
    <2> QED
      BY <1>0, <1>3, <2>3, <2>4 DEF Reported
  <1>7. \A s \in Servos : motor'[s].quiet \/ cache'[s].age = 0 \/ Reported(s)'
    <2> SUFFICES ASSUME NEW s \in Servos
                 PROVE  motor'[s].quiet \/ cache'[s].age = 0 \/ Reported(s)'
      OBVIOUS
    <2>1. CASE s = c
      BY <1>0, <1>1, <1>5, <1>6, <2>1 DEF Round
    <2>2. CASE s # c
      BY <1>0, <1>1, <1>5, <2>2 DEF Round
    <2> QED
      BY <2>1, <2>2
  <1>8. (\E s \in Servos : motor'[s].quiet) => OnePerServo'
    <2> SUFFICES ASSUME NEW s \in Servos, motor'[s].quiet PROVE OnePerServo'
      OBVIOUS
    <2>1. s # cur /\ motor[s].quiet
      BY <1>1
    <2>2. Between(cur, cur, s)
      BY <2>1, NumServosAssumption DEF Between, Servos
    <2>3. motor[cur].quiet /\ OnePerServo
      BY <2>1, <2>2 DEF Round
    <2>4. Len(queue) < Capacity
      BY <2>3, RoomForOne
    <2>5. \A i \in 1 .. Len(queue) : queue[i].id # cur /\ queue[i].id \in Servos
      <3>1. \A i \in 1 .. Len(queue) : queue[i] \in Frames
        BY <1>2
      <3> QED
        BY <2>3, <3>1 DEF OnePerServo, Frames
    <2>6. \A i \in 1 .. Len(queue') : ~motor'[queue'[i].id].quiet
      BY <1>1, <1>2, <1>3, <2>3, <2>4, <2>5 DEF OnePerServo
    <2>7. \A i, j \in 1 .. Len(queue') : queue'[i].id = queue'[j].id => i = j
      BY <1>2, <1>3, <2>3, <2>4, <2>5 DEF OnePerServo
    <2> QED
      BY <2>6, <2>7 DEF OnePerServo
  <1>9. ASSUME NEW s \in Servos, NEW t \in Servos, motor'[s].quiet, Between(cur', t, s)
        PROVE  motor'[t].quiet
    <2>1. s # cur /\ motor[s].quiet
      BY <1>1, <1>9
    <2>2. Between(cur, t, s) /\ t # cur
      BY <1>9, <2>1, NumServosAssumption DEF Between, Servos
    <2> QED
      BY <1>1, <2>1, <2>2 DEF Round
  <1> QED
    BY <1>4, <1>7, <1>8, <1>9 DEF Round

(***************************************************************************)
(* The reception of a frame keeps the round: a status that leaves the      *)
(* buffer is the servo's fresh one.                                        *)
(***************************************************************************)
LEMMA ReceiveRound ==
    ASSUME BusTypes, SetTypes, Round, Receive
    PROVE  Round'
  <1>1. /\ queue # <<>> /\ queue' = Tail(queue) /\ cache' = Parsed(cache, Head(queue))
        /\ UNCHANGED <<motor, cur>>
    BY DEF Receive
  <1>2. /\ Len(queue) \in Nat /\ Head(queue) \in Frames /\ Head(queue) = queue[1]
        /\ Len(queue') = Len(queue) - 1 /\ Len(queue) >= 1
        /\ \A i \in 1 .. Len(queue') : queue'[i] = queue[i + 1]
    BY <1>1 DEF BusTypes
  <1>3. cache \in [Servos -> CacheEntry]
    BY DEF SetTypes
  <1>4. \A s \in Servos : cache'[s].age <= 1
    BY <1>1, <1>2, <1>3, ParsedEffect DEF Round
  <1>5. ASSUME NEW s \in Servos PROVE motor'[s].quiet \/ cache'[s].age = 0 \/ Reported(s)'
    <2>1. CASE motor[s].quiet
      BY <1>1, <2>1
    <2>2. CASE cache[s].age = 0
      BY <1>1, <1>2, <1>3, <2>2, ParsedEffect
    <2>3. CASE Reported(s)
      <3>1. PICK i \in 1 .. Len(queue) : queue[i].id = s /\ queue[i].kind = "status"
        BY <2>3 DEF Reported
      <3>2. CASE i = 1
        BY <1>1, <1>2, <1>3, <3>1, <3>2, ParsedEffect
      <3>3. CASE i # 1
        <4>1. i - 1 \in 1 .. Len(queue') /\ queue'[i - 1] = queue[i]
          BY <1>2, <3>3
        <4> QED
          BY <3>1, <4>1 DEF Reported
      <3> QED
        BY <3>2, <3>3
    <2> QED
      BY <2>1, <2>2, <2>3 DEF Round
  <1>6. OnePerServo => OnePerServo'
    <2> SUFFICES ASSUME OnePerServo PROVE OnePerServo'
      OBVIOUS
    <2>1. \A i \in 1 .. Len(queue') : i + 1 \in 1 .. Len(queue) /\ queue'[i] = queue[i + 1]
      BY <1>2
    <2>2. \A i \in 1 .. Len(queue') : ~motor'[queue'[i].id].quiet
      BY <1>1, <2>1 DEF OnePerServo
    <2>3. \A i, j \in 1 .. Len(queue') : queue'[i].id = queue'[j].id => i = j
      BY <1>2, <2>1 DEF OnePerServo
    <2> QED
      BY <2>2, <2>3 DEF OnePerServo
  <1> QED
    BY <1>1, <1>4, <1>5, <1>6 DEF Round

(***************************************************************************)
(* A tick that finds every servo commanded and the buffer empty finds      *)
(* every status fresh, and starts a round.                                 *)
(***************************************************************************)
LEMMA TickRound ==
    ASSUME BusTypes, SetTypes, AllFresh \/ Round, Tick, queue = <<>>,
           \A s \in Servos : ~motor[s].quiet
    PROVE  Round'
  <1>1. queue' = <<>> /\ Len(queue) = 0 /\ Len(queue') = 0
    BY DEF Tick
  <1>2. \A s \in Servos : cache[s].age = 0
    BY <1>1 DEF AllFresh, Round, Reported
  <1>3. \A s \in Servos : cache'[s] = Older(cache[s]) /\ cache[s] \in CacheEntry
    BY DEF Tick, SetTypes
  <1>4. \A s \in Servos : cache'[s].age <= 1
    <2> SUFFICES ASSUME NEW s \in Servos PROVE cache'[s].age <= 1
      OBVIOUS
    <2>1. \A e \in CacheEntry : Older(e).age = e.age \/ Older(e).age = e.age + 1
      BY DEF Older, CacheEntry
    <2> QED
      BY <1>2, <1>3, <2>1
  <1>5. \A s \in Servos : motor'[s].quiet
    BY DEF Tick, BusTypes, MotorState
  <1>6. OnePerServo'
    BY <1>1 DEF OnePerServo
  <1> QED
    BY <1>4, <1>5, <1>6 DEF Round

(***************************************************************************)
(* Every step of the stream keeps the statuses fresh or a round under way. *)
(***************************************************************************)
LEMMA RunRound ==
    ASSUME BusTypes, SetTypes, "alias" \notin Faults, Capacity >= NumServos,
           phase = "run", phase' = "run", prompt, prompt', cur \in Servos,
           \A s \in Servos : motor[s].plugged, AllFresh \/ Round, [Next]_vars
    PROVE  (AllFresh \/ Round)'
  <1>1. CASE Tick
    <2>1. queue = <<>> /\ \A s \in Servos : ~motor[s].quiet
      BY <1>1, PromptCases
    <2> QED
      BY <1>1, <2>1, TickRound
  <1>2. CASE ~Tick /\ AllFresh
    <2>1. AllFresh'
      BY <1>2, CacheEffect DEF AllFresh
    <2> QED
      BY <2>1
  <1>3. CASE ~Tick /\ Round
    <2>1. CASE UNCHANGED <<cache, queue, motor, cur>>
      BY <1>3, <2>1 DEF Round, OnePerServo, Reported
    <2>2. CASE Receive
      BY <1>3, <2>2, ReceiveRound
    <2>3. CASE /\ Deliver(cur, "command") /\ UNCHANGED cache
               /\ cur' = IF cur < NumServos THEN cur + 1 ELSE 1
      BY <1>3, <2>3, CommandRound
    <2>4. prompt \in BOOLEAN
      OBVIOUS
    <2> QED
      BY <1>3, <2>1, <2>2, <2>3, <2>4, RunCases
  <1> QED
    BY <1>1, <1>2, <1>3

(***************************************************************************)
(* The servos stay connected while the stream is prompt.                   *)
(***************************************************************************)
LEMMA PluggedStep ==
    ASSUME FlowTypes, BusTypes, AllPlugged, [Next]_vars
    PROVE  AllPlugged'
  <1> SUFFICES ASSUME prompt', NEW s \in Servos PROVE motor'[s].plugged
    BY DEF AllPlugged
  <1>1. prompt /\ ~MotorStep
    <2>1. prompt
      BY PromptCases
    <2>2. MotorStep => prompt' = FALSE
      BY DEF MotorStep, Unplug, Cool, Trip, Fails
    <2> QED
      BY <2>1, <2>2
  <1>2. motor[s].plugged /\ cur \in Nat /\ motor[s] \in MotorState
    BY <1>1, NumServosAssumption DEF AllPlugged, FlowTypes, BusTypes
  <1>3. CASE motor' = motor
    BY <1>2, <1>3
  <1>4. CASE Tick
    BY <1>2, <1>4 DEF Tick, MotorState
  <1>5. ASSUME pc # "next" \/ ~(cur > NumServos), pc = "query" => ~(cur > NumServos),
               NEW frame, Deliver(cur, frame)
        PROVE  motor'[s].plugged
    <2>1. cur \in Servos
      BY <1>5, Addressed
    <2>2. /\ \A k \in Servos : k # cur => motor'[k] = motor[k]
          /\ motor'[cur] = IF motor[cur].plugged THEN AfterFrame(cur, motor[cur], frame)
                                                 ELSE motor[cur]
      BY <1>5, <2>1, DeliverTypes
    <2>3. motor[cur] \in MotorState
      BY <2>1 DEF BusTypes
    <2>4. AfterFrame(cur, motor[cur], frame).plugged = motor[cur].plugged
      BY <2>3, FrameEffect
    <2> QED
      BY <1>2, <2>2, <2>4
  <1> QED
    BY <1>1, <1>2, <1>3, <1>4, <1>5, BusCases

(***************************************************************************)
(* The stream commands servos that exist.                                  *)
(***************************************************************************)
LEMMA StreamFlowStep ==
    ASSUME FlowTypes, StreamFlow, [Next]_vars
    PROVE  StreamFlow'
  <1> SUFFICES ASSUME phase' = "run" PROVE cur' \in Servos /\ pc' \in {"next", "read", "write"}
    BY DEF StreamFlow
  <1> USE DEF Enter, ToPark, NextServo
  <1>0. 1 \in Servos
    BY NumServosAssumption DEF Servos
  <1>1. CASE phase # "run"
    <2>1. phase = "arm"
      BY <1>1, PhaseCases
    <2>2. ~(EnableStep \/ Open \/ StartServo \/ Started \/ VerifyServo \/ Reverified
            \/ CommandEach \/ GroupRead \/ ReadServo \/ Command \/ Stop \/ ParkServo \/ Parked
            \/ StopToClose \/ CloseDriver)
      BY <2>1
         DEF EnableStep, Enabling, Open, StartServo, Started, VerifyServo,
             Verifying, Reverified, CommandEach, GroupRead, ReadServo, Command,
             Stop, ParkServo, Parked, StopToClose, CloseDriver
    <2>3. ~(ReceptionStep \/ ReceiveFails \/ Tick \/ MotorStep \/ UNCHANGED vars)
      BY <2>1 DEF ReceptionStep, Receive, SelectTimesOut, ReceiveFails, Tick,
             MotorStep, Unplug, Cool, Trip, vars
    <2>4. ArmStep => EndArm
      BY <2>1
         DEF ArmStep, BeginArm, StopReception, JoinReception, QueryWindow,
             TakeReply, WriteWindow, DrainWrite, ArmNext
    <2>5. EndArm
      BY <2>2, <2>3, <2>4 DEF Next, ControlStep
    <2> QED
      BY <1>0, <2>5 DEF EndArm
  <1>2. CASE phase = "run"
    <2>1. cur \in Servos /\ pc \in {"next", "read", "write"}
      BY <1>2 DEF StreamFlow
    <2>2. CASE GroupRead \/ ReadServo \/ Command
      BY <1>0, <1>2, <2>1, <2>2, StreamMoves, NumServosAssumption DEF Servos
    <2>5. CASE ReceptionStep \/ ReceiveFails \/ Tick \/ MotorStep \/ UNCHANGED vars
      <3>1. UNCHANGED <<cur, pc>>
        BY <2>5 DEF ReceptionStep, Receive, SelectTimesOut, ReceiveFails, Tick,
                    MotorStep, Unplug, Cool, Trip, vars
      <3> QED
        BY <2>1, <3>1
    <2>6. ~(EnableStep \/ ArmStep \/ Open \/ StartServo \/ Started \/ VerifyServo \/ Reverified
            \/ CommandEach \/ Stop \/ ParkServo \/ Parked \/ StopToClose \/ CloseDriver)
      BY <1>2
         DEF EnableStep, Enabling, ArmStep, Open, StartServo, Started,
             VerifyServo,
             Verifying, Reverified, CommandEach, Stop, ParkServo, Parked,
             StopToClose, CloseDriver
    <2> QED
      BY <2>2, <2>5, <2>6 DEF Next, ControlStep
  <1> QED
    BY <1>1, <1>2

(***************************************************************************)
(* The invariant of the scan is inductive.                                 *)
(***************************************************************************)
LEMMA AliveStep ==
    ASSUME FlowTypes, FlagTypes, BusTypes, SetTypes, AliveInv, [Next]_vars,
           "alias" \notin Faults, Capacity >= NumServos
    PROVE  AliveInv'
  <1>2. AllSeen'
    <2> SUFFICES ASSUME Scanned', dead' = {}
                 PROVE  moved' /\ \A s \in Servos : cache'[s].seen
      BY DEF AllSeen
    <2>1. CASE GroupRead
      <3>1. \A s \in Servos : cache[s].seen
        BY <2>1 DEF GroupRead
      <3>2. \E s \in Servos : cache[s].seen
        BY <3>1, NumServosAssumption DEF Servos
      <3>3. moved' /\ cache' = cache
        BY <2>1, <3>2, Zenon DEF GroupRead
      <3> QED
        BY <3>1, <3>3
    <2>2. CASE ~GroupRead
      <3>1. Scanned /\ dead = {} /\ moved' = moved
        BY <2>2, PhaseCases, DeadCases
      <3>2. moved /\ \A s \in Servos : cache[s].seen
        BY <3>1 DEF AliveInv, AllSeen
      <3> QED
        BY <3>1, <3>2, CacheEffect
    <2> QED
      BY <2>1, <2>2
  <1>3. AllPlugged'
    BY PluggedStep DEF AliveInv
  <1>4. prompt' => prompt
    BY PromptCases
  <1>5. NoTickYet'
    <2> SUFFICES ASSUME prompt', phase' # "run", phase' \notin Down PROVE AllFresh'
      BY DEF NoTickYet
    <2>1. phase # "run"
      BY PhaseCases
    <2>2. phase \notin Down
      BY PhaseCases
    <2>3. ~Tick
      BY <2>1, PromptCases
    <2>4. AllFresh
      BY <1>4, <2>1, <2>2 DEF AliveInv, NoTickYet
    <2> QED
      BY <2>3, <2>4, CacheEffect DEF AllFresh
  <1>6. InTime'
    <2> SUFFICES ASSUME prompt', phase' = "run" PROVE (AllFresh \/ Round)'
      BY DEF InTime
    <2>1. CASE phase = "run"
      <3>1. AllFresh \/ Round
        BY <1>4, <2>1 DEF AliveInv, InTime
      <3>2. cur \in Servos /\ \A s \in Servos : motor[s].plugged
        BY <1>4, <2>1 DEF AliveInv, StreamFlow, AllPlugged
      <3> QED
        BY <1>4, <2>1, <3>1, <3>2, RunRound
    <2>2. CASE phase = "arm"
      <3>1. AllFresh
        BY <1>4, <2>2 DEF AliveInv, NoTickYet, Down
      <3>2. ~Tick
        BY <2>2, PromptCases
      <3> QED
        BY <3>1, <3>2, CacheEffect DEF AllFresh
    <2> QED
      BY <2>1, <2>2, PhaseCases
  <1>7. StreamFlow'
    BY StreamFlowStep DEF AliveInv
  <1> QED
    BY <1>2, <1>3, <1>5, <1>6, <1>7 DEF AliveInv

(***************************************************************************)
(* The invariant of the scan holds initially.                              *)
(***************************************************************************)
LEMMA AliveInit == Init => AliveInv
  <1> SUFFICES ASSUME Init PROVE AliveInv
    OBVIOUS
  <1>1. phase = "open"
    BY DEF Init
  <1>2. \A s \in Servos : motor[s].plugged /\ cache[s].age = 0
    BY DEF Init
  <1> QED
    BY <1>1, <1>2
       DEF AliveInv, AllSeen, AllPlugged, NoTickYet, InTime,
           StreamFlow, AllFresh, Scanned

(***************************************************************************)
(* The scan of a prompt stream finds no status older than one tick.        *)
(***************************************************************************)
LEMMA ScanFindsAlive ==
    ASSUME FlagTypes, SetTypes, AliveInv, [Next]_vars, phase = "run", prompt, dead = {},
           NormalAge >= 1
    PROVE  dead' = {}
  <1>2. CASE GroupRead
    <2>0. moved /\ \A s \in Servos : cache[s].seen
      BY DEF AliveInv, AllSeen, Scanned
    <2>1. Threshold = NormalAge /\ Threshold \in Nat
      BY <2>0, LimitsAssumption DEF Threshold
    <2>2. \A s \in Servos : cache[s].seen /\ cache[s].age <= 1
      BY <2>0 DEF AliveInv, InTime, AllFresh, Round
    <2>3. \A s \in Servos : cache[s].age \in Nat
      BY LimitsAssumption DEF SetTypes, CacheEntry, MaxAge
    <2>4. dead' = {s \in Servos : ~cache[s].seen \/ cache[s].age > Threshold}
      BY <1>2 DEF GroupRead
    <2> QED
      BY <2>1, <2>2, <2>3, <2>4
  <1> QED
    BY <1>2, DeadCases

(***************************************************************************)
(* As long as every servo answers every command and the answers are        *)
(* received, the staleness scan of the command stream declares no servo    *)
(* dead, once a scan has found them all: for every number and mix of       *)
(* servos and whatever the start's own limit, provided that the socket     *)
(* buffers one answer of each servo, that a status of the previous tick is *)
(* not stale yet, and that no status is taken for a register               *)
(* acknowledgement.                                                        *)
(***************************************************************************)
THEOREM AnsweringServos ==
    ASSUME Capacity >= NumServos, NormalAge >= 1, "alias" \notin Faults
    PROVE  Spec => AnsweringServoIsAlive
  <1>1. (CanInv /\ AliveInv) /\ [Next]_vars => (CanInv /\ AliveInv)'
    <2> SUFFICES ASSUME CanInv, AliveInv, [Next]_vars PROVE CanInv' /\ AliveInv'
      OBVIOUS
    <2>1. CanInv'
      BY CanStep
    <2>2. AliveInv'
      BY AliveStep DEF CanInv
    <2> QED
      BY <2>1, <2>2
  <1>2. CanInv /\ AliveInv /\ [Next]_vars 
        => [phase = "run" /\ prompt /\ dead = {} => dead' = {}]_vars
    BY ScanFindsAlive DEF CanInv
  <1> QED
    BY <1>1, <1>2, CanInit, AliveInit, PTL DEF Spec, AnsweringServoIsAlive
=============================================================================
