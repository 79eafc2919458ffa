------------------------------ MODULE MCServo ------------------------------
(* A joint with a few positions, every check on, alone or in a pair; a     *)
(* passive encoder with the old and the new layout of its EEPROM; and the  *)
(* frames of a DM and of an ENCOS servo, with the tables of the code; and  *)
(* the springs of a leader with two joints.  A behaviour is one of the     *)
(* four; the others stay in their initial state.                           *)
EXTENDS ServoChecks, PassiveEncoder, Codec, Spring

VARIABLE unit   \* "joint", "encoder", "codec" or "spring"

Thresholds == [c \in Checkers |-> 2]
Setup(enabled, torqueMode, disturbed) ==
    [enabled |-> enabled, torqueMode |-> torqueMode, disturbed |-> disturbed]
Setups ==
    {Setup(TRUE, TRUE, {"hot", "strained"}), Setup(TRUE, FALSE, {"strained"}),
     Setup(TRUE, TRUE, {"fast"}), Setup(FALSE, FALSE, {"hot"})}

Bytes(adcHigh, adcLow, reportHigh, reportLow) ==
    [r \in Registers |-> CASE r = "adcHigh" -> adcHigh [] r = "adcLow" -> adcLow
                           [] r = "reportHigh" -> reportHigh [] r = "reportLow" -> reportLow]
Encoders ==
    {Bytes(0, 200, 0, 200), Bytes(0, 100, 255, 200), Bytes(1, 200, 0, 100),
     Bytes(Absent, 100, Absent, 200), Bytes(Absent, 200, Absent, 100)}

Ranges(vel, tor) ==
    [kp |-> <<0, 500>>, kd |-> <<0, 50>>, pos |-> <<-125, 125>>, vel |-> vel, tor |-> tor]
MCCompiledRange ==
    [dm |-> Ranges(<<-3000, 3000>>, <<-100, 100>>),
     encos |-> Ranges(<<-1800, 1800>>, <<-420, 420>>)]
MCMotorSpeeds == {<<-1800, 1800>>, <<-2500, 2500>>, <<300, 300>>}
MCMotorTorques == {<<-420, 420>>, <<-300, 300>>, <<0, -1>>}
Still == [kp |-> 0, kd |-> 1, pos |-> 0, vel |-> 0, tor |-> 0]
MCRequests ==
    {Still, [kp |-> 500, kd |-> 50, pos |-> 125, vel |-> 9000, tor |-> 9000],
     [kp |-> -1, kd |-> -1, pos |-> -126, vel |-> -9000, tor |-> -9000]}
    \cup {[Still EXCEPT ![p[1]] = p[2]] : p \in
            {"kp"} \X {127, 128, 500, 501} \cup {"kd"} \X {0, 25, 26, 51}
            \cup {"pos"} \X {-125, -1, 124, 200} \cup {"vel"} \X {-7, 1799}
            \cup {"tor"} \X {-1, 99, 419}}
MCReports ==
    {[pos |-> 0, vel |-> 0, tor |-> 0], [pos |-> 125, vel |-> 299, tor |-> -1],
     [pos |-> -125, vel |-> -1, tor |-> 99]}
    \cup {[pos |-> p, vel |-> 5, tor |-> 7] : p \in -124..-30}
MCRegisterValues == {0, 1, 40000, 200000, 16909060}

SpringOf(type, invert, offset) ==
    [config |-> TRUE, type |-> type, invert |-> invert, offset |-> offset]
NoSpring == [config |-> FALSE, type |-> 1, invert |-> FALSE, offset |-> 0]
MCSpringSetups ==
    {<<SpringOf(2, FALSE, 2), NoSpring>>, <<SpringOf(1, TRUE, 0), SpringOf(-1, FALSE, -3)>>}

Chosen(u, S) == IF unit = u THEN S ELSE {CHOOSE x \in S : TRUE}
MCInit ==
    /\ unit \in {"joint", "encoder", "codec", "spring"}
    /\ config \in Chosen("joint", Setups)
    /\ compat \in Chosen("encoder", BOOLEAN)
    /\ eeprom \in Chosen("encoder", Encoders)
    /\ kind \in Chosen("codec", Kinds)
    /\ motorRange \in Chosen("codec", MotorRanges(kind))
    /\ springSetup \in Chosen("spring", SpringSetups)
    /\ Init /\ EncoderInit /\ CodecInit /\ SpringInit

JointTurn == unit = "joint" /\ Next /\ UNCHANGED <<encoderVars, codecVars, springVars, unit>>
EncoderTurn ==
    unit = "encoder" /\ EncoderNext /\ UNCHANGED <<vars, codecVars, springVars, unit>>
CodecTurn == unit = "codec" /\ CodecNext /\ UNCHANGED <<vars, encoderVars, springVars, unit>>
SpringTurn == unit = "spring" /\ SpringNext /\ UNCHANGED <<vars, encoderVars, codecVars, unit>>
EncoderIsRead ==
    unit = "encoder" /\ ReadEncoder /\ UNCHANGED <<vars, codecVars, springVars, unit>>
LeaderIsStepped ==
    unit = "spring" /\ StillStep /\ UNCHANGED <<vars, encoderVars, codecVars, unit>>
MCVars == <<vars, encoderVars, codecVars, springVars, unit>>

MCSpec ==
    /\ MCInit /\ [][JointTurn \/ EncoderTurn \/ CodecTurn \/ SpringTurn]_MCVars
    /\ WF_MCVars(EncoderIsRead) /\ WF_MCVars(LeaderIsStepped)
=============================================================================
