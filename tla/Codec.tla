------------------------------- MODULE Codec -------------------------------
(* What goes over the CAN bus between DriverCanMit and one MIT servo: the    *)
(* command and status frames bit by bit (pi_servo_dm.cpp, can/math_ops.cpp), *)
(* the frames that switch a DM servo and write its registers, and the        *)
(* queries by which an ENCOS servo is asked for the scale of its velocity    *)
(* and torque fields (query_and_adopt_encos_mit_ranges()).                   *)
(* Physical values are integers in the unit the servo reports its ranges in. *)
EXTENDS Integers, Sequences

CONSTANTS
    CompiledRange,  \* kind -> field -> <<min, max>>: the ServoDmParam tables
    MotorSpeeds,    \* the velocity ranges an ENCOS firmware may be set to
    MotorTorques,
    Requests,       \* the commands asked for: field -> value, in range or not
    Reports,        \* what the motor measures: "pos", "vel", "tor" -> value
    RegisterValues,
    MaxChatter      \* frames of other kinds that reach the socket

Kinds == {"dm", "encos"}
Fields == {"kp", "kd", "pos", "vel", "tor"}
Measured == {"pos", "vel", "tor"}

Int16s == {v \in Int : -32768 <= v /\ v <= 32767}

ASSUME CodecAssumption ==
    /\ CompiledRange \in [Kinds -> [Fields -> Int \X Int]]
    /\ \A k \in Kinds, f \in Fields : CompiledRange[k][f][1] < CompiledRange[k][f][2]
    /\ MotorSpeeds \subseteq Int16s \X Int16s /\ MotorTorques \subseteq Int16s \X Int16s
    /\ Requests \subseteq [Fields -> Int] /\ Reports \subseteq [Measured -> Int]
    /\ \A v \in RegisterValues : v \in Nat /\ v \div 16777216 <= 255
    /\ MaxChatter \in Nat

VARIABLES
    kind,
    motorRange,     \* "vel", "tor" -> the range the firmware uses
    codec,          \* p_servo_param_: "vel", "tor" -> range
    reported,       \* reported_spd_..., reported_tor_...: a range, or <<>>
    query,          \* "spd", "tor" or "done", and
    awaiting,       \* TRUE between the query and the reading of its answer
    answers,        \* answers the servo has sent
    socket,         \* frames that read_frame() would return, oldest first
    lost, chatter,  \* faults so far
    requested, obeyed,  \* the request, and what the motor took it for
    measured,       \* what the motor put in its last status frame
    seen,           \* ReceivedServoData, as field codes
    written        \* <<written, read by the motor>>

queryVars == <<codec, reported, query, awaiting, answers, socket, lost, chatter>>
talkVars == <<requested, obeyed, measured, seen, written>>
codecVars == <<kind, motorRange, queryVars, talkVars>>
----------------------------------------------------------------------------
RangeOf(f) == IF f \in {"vel", "tor"} THEN codec[f] ELSE CompiledRange[kind][f]
MotorRangeOf(f) == IF f \in {"vel", "tor"} THEN motorRange[f] ELSE CompiledRange[kind][f]
Bits(f) == CASE f = "pos" -> 16 [] f = "kd" /\ kind = "encos" -> 9 [] OTHER -> 12
Full(f) == CASE Bits(f) = 16 -> 65535 [] Bits(f) = 12 -> 4095 [] Bits(f) = 9 -> 511

float_to_uint(x, range, f) == (Full(f) * (x - range[1])) \div (range[2] - range[1])
Clamped(x, range) ==
    IF x > range[2] THEN range[2] ELSE IF x < range[1] THEN range[1] ELSE x
Code(request, f) == float_to_uint(Clamped(request[f], RangeOf(f)), RangeOf(f), f)

(* can_frame_to_command_dm_servo(), can_frame_to_command_encos_servo(): the  *)
(* fields of a code record in eight bytes.                                   *)
DmBytes(c) ==
    <<c.pos \div 256, c.pos % 256, c.vel \div 16, (c.vel % 16) * 16 + c.kp \div 256,
      c.kp % 256, c.kd \div 16, (c.kd % 16) * 16 + c.tor \div 256, c.tor % 256>>
EncosBytesShifted(c) ==                                                 \* mutant
    <<c.kp \div 256, c.kp % 256, c.kd % 256, c.pos \div 256, c.pos % 256,
      c.vel \div 16, (c.vel % 16) * 16 + c.tor \div 256, c.tor % 256>>
EncosBytes(c) ==
    <<c.kp \div 128, (c.kp % 128) * 2 + c.kd \div 256, c.kd % 256, c.pos \div 256,
      c.pos % 256, c.vel \div 16, (c.vel % 16) * 16 + c.tor \div 256, c.tor % 256>>
CommandFrame(request) ==
    LET c == [f \in Fields |-> Code(request, f)]
    IN  [i \in 1..8 |-> (IF kind = "dm" THEN DmBytes(c) ELSE EncosBytes(c))[i] % 256]

(* can_frame_to_enable_dm_servo(), ..._reset_..., ..._set_zero_...: the last *)
(* byte after seven bytes of ones.                                           *)
InstructionByte == [enable |-> 252, disable |-> 253, setZero |-> 254, reset |-> 251]

(* The firmware's reading of a frame: an instruction of a DM servo, or by    *)
(* three leading zero bits the MIT mode of an ENCOS servo.                   *)
Instruction(b) ==
    /\ kind = "dm" /\ (\A i \in 1..7 : b[i] = 255)
    /\ \E i \in DOMAIN InstructionByte : b[8] = InstructionByte[i]
Decoded(b) ==
    IF kind = "dm"
    THEN [pos |-> b[1] * 256 + b[2], vel |-> b[3] * 16 + b[4] \div 16,
          kp |-> (b[4] % 16) * 256 + b[5], kd |-> b[6] * 16 + b[7] \div 16,
          tor |-> (b[7] % 16) * 256 + b[8]]
    ELSE [kp |-> (b[1] % 32) * 128 + b[2] \div 2, kd |-> (b[2] % 2) * 256 + b[3],
          pos |-> b[4] * 256 + b[5], vel |-> b[6] * 16 + b[7] \div 16,
          tor |-> (b[7] % 16) * 256 + b[8]]
Understood(b) ==
    IF Instruction(b) THEN <<"instruction", b[8]>>
    ELSE IF kind = "encos" /\ b[1] \div 32 # 0 THEN <<"mode", b[1] \div 32>>
    ELSE <<"command", Decoded(b)>>

(* The status frame of either kind, and its parser, which takes a DM frame   *)
(* whose third byte is 0x55 for the answer to a register write.              *)
StatusFrame(m) ==
    LET c == [f \in Measured |-> float_to_uint(m[f], MotorRangeOf(f), f)]
    IN  <<IF kind = "dm" THEN 17 ELSE 32, c.pos \div 256, c.pos % 256, c.vel \div 16,
          (c.vel % 16) * 16 + c.tor \div 256, c.tor % 256, 0, 0>>
DM_CMD_WRITE == 85
Ignored(b) == IF kind = "dm" THEN b[3] = DM_CMD_WRITE ELSE b[1] \div 32 # 1
parse_status(b) ==
    [pos |-> b[2] * 256 + b[3], vel |-> b[4] * 16 + b[5] \div 16, tor |-> (b[5] % 16) * 256 + b[6]]

(* can_frame_to_write_register_dm_servo(), little-endian.                    *)
RegisterBytes(v) == <<v % 256, (v \div 256) % 256, (v \div 65536) % 256, v \div 16777216>>
RegisterFrame(v) == <<1, 0, DM_CMD_WRITE, 9>> \o RegisterBytes(v)
RegisterValue(b) == b[5] + 256 * b[6] + 65536 * b[7] + 16777216 * b[8]

(* The answer to a range query: 5 in the top bits, the code, two int16.      *)
QueryCode(q) == IF q = "spd" THEN 26 ELSE 27
FieldOf(q) == IF q = "spd" THEN "vel" ELSE "tor"
Word(v) == <<(v % 65536) \div 256, v % 256>>
Int16(high, low) == LET v == high * 256 + low IN IF v >= 32768 THEN v - 65536 ELSE v
RangeReply(q) ==
    [own |-> TRUE,
     data |-> <<5 * 32, QueryCode(q)>> \o Word(motorRange[FieldOf(q)][1])
                                      \o Word(motorRange[FieldOf(q)][2])]
Foreign == {[own |-> FALSE, data |-> <<5 * 32, 26, 0, 0, 0, 1>>],
            [own |-> TRUE, data |-> <<32, 26, 0, 0, 0, 1, 0, 0>>]}

parse_mit_range_reply_encos_servo(frame, q) ==
    /\ frame.own /\ Len(frame.data) >= 6
    /\ frame.data[1] \div 32 = 5 /\ frame.data[2] = QueryCode(q)
ReplyRange(frame) ==
    <<Int16(frame.data[3], frame.data[4]), Int16(frame.data[5], frame.data[6])>>
----------------------------------------------------------------------------
MotorRanges(k) ==
    IF k = "dm" THEN [vel : {CompiledRange.dm.vel}, tor : {CompiledRange.dm.tor}]
    ELSE [vel : MotorSpeeds, tor : MotorTorques]

CodecInit ==
    /\ kind \in Kinds
    /\ motorRange \in MotorRanges(kind)
    /\ codec = [vel |-> CompiledRange[kind].vel, tor |-> CompiledRange[kind].tor]
    /\ reported = [vel |-> <<>>, tor |-> <<>>]
    /\ query = (IF kind = "dm" THEN "done" ELSE "spd") /\ awaiting = FALSE
    /\ answers = {} /\ socket = <<>> /\ lost = 0 /\ chatter = 0
    /\ requested = <<>> /\ obeyed = <<>> /\ measured = <<>> /\ seen = <<>> /\ written = <<>>

NextQuery == IF query = "spd" THEN "tor" ELSE "done"

SendQuery ==
    /\ query # "done" /\ ~awaiting
    /\ awaiting' = TRUE /\ answers' = answers \cup {RangeReply(query)}
    /\ UNCHANGED <<kind, motorRange, codec, reported, query, socket, lost, chatter, talkVars>>
SendFails ==
    /\ query # "done" /\ ~awaiting
    /\ query' = NextQuery /\ lost' = 1
    /\ UNCHANGED <<kind, motorRange, codec, reported, awaiting, answers, socket, chatter, talkVars>>

Arrive ==
    \E frame \in answers :
        /\ answers' = answers \ {frame} /\ socket' = Append(socket, frame)
        /\ UNCHANGED <<kind, motorRange, codec, reported, query, awaiting, lost, chatter, talkVars>>
Lose ==
    \E frame \in answers :
        /\ answers' = answers \ {frame} /\ lost' = 1
        /\ UNCHANGED <<kind, motorRange, codec, reported, query, awaiting, socket, chatter,
                       talkVars>>
Chatter ==
    /\ query # "done" /\ chatter < MaxChatter
    /\ \E frame \in Foreign : socket' = Append(socket, frame)
    /\ chatter' = chatter + 1
    /\ UNCHANGED <<kind, motorRange, codec, reported, query, awaiting, answers, lost, talkVars>>

(* adopt_encos_mit_range(): a range in order is noted; only a velocity range *)
(* replaces the codec's.                                                     *)
adopt_encos_mit_range(f, range) ==
    IF range[1] < range[2]
    THEN /\ reported' = [reported EXCEPT ![f] = range]
         /\ codec' = IF f = "vel" THEN [codec EXCEPT !.vel = range] ELSE codec
    ELSE UNCHANGED <<reported, codec>>

ReadReply ==
    /\ awaiting /\ socket # <<>>
    /\ IF parse_mit_range_reply_encos_servo(Head(socket), query)
       THEN adopt_encos_mit_range(FieldOf(query), ReplyRange(Head(socket)))
       ELSE UNCHANGED <<reported, codec>>
    /\ socket' = Tail(socket) /\ awaiting' = FALSE /\ query' = NextQuery
    /\ UNCHANGED <<kind, motorRange, answers, lost, chatter, talkVars>>
ReadTimesOut ==
    /\ awaiting /\ socket = <<>>
    /\ awaiting' = FALSE /\ query' = NextQuery /\ lost' = 1
    /\ UNCHANGED <<kind, motorRange, codec, reported, answers, socket, chatter, talkVars>>

(* A frame says nothing about the ones before it: one exchange per behaviour. *)
Quiet == query = "done" /\ requested = <<>> /\ measured = <<>> /\ written = <<>>

send_command(request) ==
    /\ Quiet
    /\ requested' = request /\ obeyed' = Understood(CommandFrame(request))
    /\ UNCHANGED <<kind, motorRange, queryVars, measured, seen, written>>

(* A motor measures what its ranges can hold.                                *)
Measurable(m) ==
    \A f \in Measured :
        LET r == MotorRangeOf(f) IN r[1] < r[2] /\ r[1] <= m[f] /\ m[f] <= r[2]
HearStatus(m) ==
    /\ Quiet /\ Measurable(m)
    /\ measured' = m
    /\ seen' = IF Ignored(StatusFrame(m)) THEN seen ELSE parse_status(StatusFrame(m))
    /\ UNCHANGED <<kind, motorRange, queryVars, requested, obeyed, written>>

WriteRegister(v) ==
    /\ Quiet /\ kind = "dm"
    /\ written' = <<v, RegisterValue(RegisterFrame(v))>>
    /\ UNCHANGED <<kind, motorRange, queryVars, requested, obeyed, measured, seen>>

CodecNext ==
    \/ SendQuery \/ SendFails \/ Arrive \/ Lose \/ Chatter \/ ReadReply \/ ReadTimesOut
    \/ \E request \in Requests : send_command(request)
    \/ \E m \in Reports : HearStatus(m)
    \/ \E v \in RegisterValues : WriteRegister(v)

CodecSpec == CodecInit /\ [][CodecNext]_codecVars
----------------------------------------------------------------------------
(* An answer that was late, lost, malformed, out of order or another         *)
(* servo's never gives the velocity field a scale that is not the motor's    *)
(* own or the compiled one; what is reported to the client is what the       *)
(* firmware holds; and the torque field keeps the compiled scale.            *)
RangeIsOwn ==
    /\ codec.vel \in {CompiledRange[kind].vel, motorRange.vel}
    /\ codec.tor = CompiledRange[kind].tor
    /\ \A f \in {"vel", "tor"} : reported[f] \in {<<>>, motorRange[f]}

(* When nothing was lost, late or foreign, the two sides end with one scale  *)
(* for velocities, unless the firmware's makes no sense.                     *)
ScalesAgree ==
    query = "done" /\ lost = 0 /\ chatter = 0 /\ motorRange.vel[1] < motorRange.vel[2] =>
        codec.vel = motorRange.vel

(* A code stands for its value to within one step of the field.              *)
Near(code, x, range, f) ==
    LET d == code * (range[2] - range[1]) - (x - range[1]) * Full(f)
    IN  -(range[2] - range[1]) < d /\ d < range[2] - range[1]

AtTop == kind = "dm" /\ \A f \in Fields \ {"tor"} : requested[f] >= RangeOf(f)[2]

(* What the motor reads out of a command frame is a command, and every field *)
(* of it is the requested value, saturated at the field's range instead of   *)
(* wrapped, whatever the other fields hold.  (With everything but the torque *)
(* at its top, gains of 500 and 5 included, a DM frame could be read as an   *)
(* instruction; no packaged model has such gains.)  A register gets the      *)
(* value that was sent to it.                                                *)
MotorObeys ==
    /\ written # <<>> => written[1] = written[2]
    /\ requested # <<>> /\ ~AtTop =>
        /\ obeyed[1] = "command"
        /\ \A f \in Fields :
            CASE requested[f] >= RangeOf(f)[2] -> obeyed[2][f] = Full(f)
              [] requested[f] <= RangeOf(f)[1] -> obeyed[2][f] = 0
              [] OTHER -> Near(obeyed[2][f], requested[f], RangeOf(f), f)

(* The host reads what the motor measured, in every field whose scale the    *)
(* two share, unless the parser took the frame for an acknowledgement.       *)
TelemetryTrue ==
    measured # <<>> /\ ~Ignored(StatusFrame(measured)) =>
        \A f \in Measured : RangeOf(f) = MotorRangeOf(f) =>
            Near(seen[f], measured[f], RangeOf(f), f)

(* The driver and the motor take every frame to mean the same, whatever the  *)
(* range queries at the start met with.                                      *)
BothEndsAgree == RangeIsOwn /\ ScalesAgree /\ MotorObeys /\ TelemetryTrue
=============================================================================
