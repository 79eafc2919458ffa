---------------------------- MODULE JointConfig ----------------------------
(* How a joint and its servos get their limits: the model file first, the    *)
(* individual file of one robot over it, then the checks; and how the first  *)
(* reading of a servo undoes a whole turn that its single-turn encoder lost  *)
(* at power-up (pi_joint.cpp, pi_servo.cpp, pi_device_config.cpp).           *)
(* A file holds a sequence of joint entries [joint, servos]; an entry maps   *)
(* the fields it defines to integers, so that a field that is absent, or has *)
(* the wrong type, is one that is not in its domain.                         *)
EXTENDS Integers, Sequences, FiniteSets

CONSTANTS
    ModelFiles,         \* the model files to load
    IndividualFiles,    \* the individual files to load over them
    Garbage,            \* what a member without an initializer may hold
    MaxPosition         \* the joint moves within -MaxPosition .. MaxPosition

(* What the JSON library hands over: sequences of entries, whose fields are  *)
(* integers.                                                                 *)
IsSequence(s) == s \in Seq({s[i] : i \in DOMAIN s})
IsEntry(entry) == entry \in [DOMAIN entry -> Int]
IsFile(file) ==
    /\ IsSequence(file.joints)
    /\ \A i \in DOMAIN file.joints :
        /\ IsEntry(file.joints[i].joint)
        /\ IsSequence(file.joints[i].servos)
        /\ \A k \in DOMAIN file.joints[i].servos : IsEntry(file.joints[i].servos[k])

ASSUME JointConfigAssumption ==
    /\ \A file \in ModelFiles \cup IndividualFiles : IsFile(file)
    /\ Garbage \subseteq Int /\ MaxPosition \in Nat

VARIABLES
    modelFile, individualFile,  \* [current : it can be read and has the version, joints]
    stage,      \* "model", "individual", "starting", "running" or "refused"
    at,         \* the entry of the file that is loaded next
    joints,     \* new_joints: what is loaded so far
    garbage,    \* the value of the members the constructors leave alone
    registered, \* the servo ids the driver has a data index for
    truth,      \* where the reference servo of the first joint really is
    lost,       \* whole turns its encoder lost at power-up
    wrap        \* position_wrap_initialized_, position_wrap_offset_rel_

files == <<modelFile, individualFile>>
configVars == <<files, stage, at, joints, garbage, registered, truth, lost, wrap>>

----------------------------------------------------------------------------
(* get_field_value() on every field of an entry.                             *)
Overlay(values, entry) ==
    [f \in DOMAIN values \cup DOMAIN entry |->
        IF f \in DOMAIN entry THEN entry[f] ELSE values[f]]

NewJoint == [accel |-> garbage, rescale |-> garbage, vel |-> 0, follow |-> 0,
             damping |-> 0, grip |-> 0, ref |-> 0, normMin |-> 0, normMax |-> 0]
NewServo == [posMin |-> garbage, posMax |-> garbage, dir |-> 1, zero |-> 0, period |-> 0]

(* follow_vel_max falls back to vel_max as long as no file gave it a value.  *)
FallBack(values, given) ==
    IF "follow" \in given THEN values ELSE [values EXCEPT !.follow = values.vel]

(* Joint::init_config_model() and the part of Servo::init_config_model()     *)
(* that can refuse.                                                          *)
ModelJoint(entry) == FallBack(Overlay(NewJoint, entry), DOMAIN entry)
ModelJointAccepted(entry) ==
    /\ "id" \in DOMAIN entry
    /\ ModelJoint(entry).follow > 0
    /\ ModelJoint(entry).damping >= 0
    /\ ModelJoint(entry).grip >= 0

LimitsOrdered(values, given) ==
    {"posMin", "posMax"} \subseteq given => values.posMin <= values.posMax

ModelServoAccepted(entry) ==
    /\ {"id", "index", "model"} \subseteq DOMAIN entry
    /\ Overlay(NewServo, entry).dir \in {1, -1}
    /\ LimitsOrdered(Overlay(NewServo, entry), DOMAIN entry)

(* Servo::new_servos() registers each servo it reaches with the driver.      *)
Loaded(entry) ==
    [values |-> ModelJoint(entry.joint), given |-> DOMAIN entry.joint,
     servos |-> [i \in DOMAIN entry.servos |->
                    [values |-> Overlay(NewServo, entry.servos[i]),
                     given |-> DOMAIN entry.servos[i]]]]
EntryAccepted(entry) ==
    /\ ModelJointAccepted(entry.joint)
    /\ entry.servos # <<>>
    /\ \A i \in DOMAIN entry.servos : ModelServoAccepted(entry.servos[i])
EntryIds(entry) == {entry.servos[i].id : i \in DOMAIN entry.servos}

(* Joint::init_config_individual().  The reference index is checked against  *)
(* the servos the model file created.                                        *)
OverriddenJoint(j, entry) ==
    FallBack(Overlay(j.values, entry), j.given \cup DOMAIN entry)
OverrideAccepted(j, entry) ==
    LET values == OverriddenJoint(j, entry) IN
    /\ values.ref \in 0 .. Len(j.servos) - 1
    /\ values.vel > 0 /\ values.accel > 0 /\ values.follow > 0
    /\ "rescale" \in DOMAIN entry => values.rescale >= 0

(* Servo::init_config_individual(): a wrap period, which only this file can  *)
(* give, needs both limits and a range narrower than itself.                 *)
OverriddenServo(s, entry) == Overlay([s.values EXCEPT !.period = 0], entry)
RangeIsNarrow(values) == values.posMax - values.posMin < values.period
ServoOverrideAccepted(s, entry) ==
    LET values == OverriddenServo(s, entry)
        given == s.given \cup DOMAIN entry IN
    /\ values.dir \in {1, -1}
    /\ LimitsOrdered(values, given)
    /\ "period" \in DOMAIN entry =>
        /\ {"posMin", "posMax"} \subseteq given
        /\ values.posMin < values.posMax
        /\ values.period > 0
        /\ RangeIsNarrow(values)

Overridden(j, entry) ==
    [values |-> OverriddenJoint(j, entry.joint), given |-> j.given \cup DOMAIN entry.joint,
     servos |-> [i \in DOMAIN j.servos |->
                    [values |-> OverriddenServo(j.servos[i], entry.servos[i]),
                     given |-> j.servos[i].given \cup DOMAIN entry.servos[i]]]]

(* validate_normalized_position_range(): it reads the limits whether or not  *)
(* they were configured.                                                     *)
validate_normalized_position_range(j) ==
    LET limits == j.servos[j.values.ref + 1].values IN
    /\ "normMin" \in j.given <=> "normMax" \in j.given
    /\ "normMin" \in j.given =>
        /\ "margin" \notin j.given
        /\ limits.posMin < limits.posMax
        /\ j.values.normMin < j.values.normMax
        /\ limits.posMin <= j.values.normMin /\ j.values.normMax <= limits.posMax

IndividualAccepted(j, entry) ==
    /\ OverrideAccepted(j, entry.joint)
    /\ Len(entry.servos) = Len(j.servos)
    /\ \A i \in DOMAIN j.servos : ServoOverrideAccepted(j.servos[i], entry.servos[i])
    /\ validate_normalized_position_range(Overridden(j, entry))
----------------------------------------------------------------------------
ConfigInit ==
    /\ modelFile \in ModelFiles /\ individualFile \in IndividualFiles
    /\ stage = "model" /\ at = 1 /\ joints = <<>> /\ registered = {}
    /\ garbage \in Garbage
    /\ truth = 0 /\ lost = 0
    /\ wrap = [done |-> FALSE, offset |-> 0]

(* The destructors of the servos unregister them; the caller's joints stay   *)
(* as they were.                                                             *)
Refuse ==
    /\ stage' = "refused" /\ joints' = <<>> /\ registered' = {}
    /\ UNCHANGED <<files, at, garbage, truth, lost, wrap>>

(* DeviceConfig::init_config(): the file is there, is JSON and has the       *)
(* version; both files are read before the first joint is made.              *)
FilesCurrent == modelFile.current /\ individualFile.current

LoadModel ==
    /\ stage = "model" /\ FilesCurrent /\ at <= Len(modelFile.joints)
    /\ EntryAccepted(modelFile.joints[at])
    /\ joints' = Append(joints, Loaded(modelFile.joints[at]))
    /\ registered' = registered \cup EntryIds(modelFile.joints[at])
    /\ at' = at + 1
    /\ UNCHANGED <<files, stage, garbage, truth, lost, wrap>>

RefuseModel ==
    /\ stage = "model"
    /\ \/ ~FilesCurrent
       \/ modelFile.joints = <<>>
       \/ at <= Len(modelFile.joints) /\ ~EntryAccepted(modelFile.joints[at])
    /\ Refuse

TurnToIndividual ==
    /\ stage = "model" /\ FilesCurrent
    /\ at = Len(modelFile.joints) + 1 /\ modelFile.joints # <<>>
    /\ stage' = "individual" /\ at' = 1
    /\ UNCHANGED <<files, joints, garbage, registered, truth, lost, wrap>>

LoadIndividual ==
    /\ stage = "individual" /\ at <= Len(individualFile.joints) /\ at <= Len(joints)
    /\ IndividualAccepted(joints[at], individualFile.joints[at])
    /\ joints' = [joints EXCEPT ![at] = Overridden(@, individualFile.joints[at])]
    /\ at' = at + 1
    /\ UNCHANGED <<files, stage, garbage, registered, truth, lost, wrap>>

(* Joint count mismatch in either direction, or an entry that is refused.    *)
RefuseIndividual ==
    /\ stage = "individual"
    /\ IF at > Len(individualFile.joints) THEN at <= Len(joints)
       ELSE at <= Len(joints) => ~IndividualAccepted(joints[at], individualFile.joints[at])
    /\ Refuse

(* The arm stands anywhere when its node starts.                             *)
Complete ==
    /\ stage = "individual" /\ at > Len(individualFile.joints) /\ at > Len(joints)
    /\ stage' = "starting"
    /\ truth' \in -MaxPosition .. MaxPosition /\ lost' \in -1 .. 1
    /\ UNCHANGED <<files, at, joints, garbage, registered, wrap>>
----------------------------------------------------------------------------
(* The servo of the first joint's reference index, and what its encoder      *)
(* reports: the true position, less the turns that were lost.                *)
Reference == joints[1].servos[joints[1].values.ref + 1].values
MeasuredAbsolute == (truth - lost * Reference.period) * Reference.dir + Reference.zero
BaseRelative == (MeasuredAbsolute - Reference.zero) * Reference.dir

(* get_pos_rad_relative() and its inverse, get_pos_rad_absolute().           *)
Relative == BaseRelative + wrap.offset
CommandOf(relative) == (relative - wrap.offset) * Reference.dir + Reference.zero

Ceiling(a, b) == -((-a) \div b)
Turns == Ceiling(Reference.posMin - BaseRelative, Reference.period) ..
            (Reference.posMax - BaseRelative) \div Reference.period

(* The offset for the turns that bring the position within the limits; none  *)
(* when there are none, and none, after an error, when there are several.    *)
WrapOffset ==
    IF Cardinality(Turns) # 1 THEN 0 ELSE (CHOOSE n \in Turns : TRUE) * Reference.period

(* initialize_position_wrap(), on the first fresh reading only: when the     *)
(* joint has moved past a limit later on, the offset must not follow it.     *)
UndecidedEachTime == Reference.period > 0                               \* mutant
UndecidedWrap == Reference.period > 0 /\ ~wrap.done
initialize_position_wrap ==
    IF UndecidedWrap THEN [done |-> TRUE, offset |-> WrapOffset] ELSE wrap

ReadServo ==
    /\ stage \in {"starting", "running"}
    /\ wrap' = initialize_position_wrap
    /\ stage' = "running"
    /\ UNCHANGED <<files, at, joints, garbage, registered, truth, lost>>

(* The joint moves; before the first reading nothing is commanded.           *)
MoveJoint ==
    /\ stage = "running"
    /\ truth' \in {truth - 1, truth + 1} \cap (-MaxPosition .. MaxPosition)
    /\ wrap' = initialize_position_wrap
    /\ UNCHANGED <<files, stage, at, joints, garbage, registered, lost>>

ConfigDone == stage = "refused" /\ UNCHANGED configVars

ConfigNext ==
    \/ LoadModel \/ RefuseModel \/ TurnToIndividual
    \/ LoadIndividual \/ RefuseIndividual \/ Complete
    \/ ReadServo \/ MoveJoint \/ ConfigDone

ConfigSpec == ConfigInit /\ [][ConfigNext]_configVars
----------------------------------------------------------------------------
Ready == stage \in {"starting", "running"}

(* Whatever the two files say, a joint that drives an arm has positive       *)
(* velocity, acceleration and slew limits, its configured position limits    *)
(* are in order, and the range that normalized commands map to lies within   *)
(* the configured raw range of the reference servo.                          *)
LoadedIsSane ==
    Ready => \A i \in DOMAIN joints :
        LET j == joints[i] IN
        /\ j.values.vel > 0 /\ j.values.accel > 0 /\ j.values.follow > 0
        /\ \A s \in DOMAIN j.servos :
            {"posMin", "posMax"} \subseteq j.servos[s].given =>
                j.servos[s].values.posMin <= j.servos[s].values.posMax
        /\ LET limits == j.servos[j.values.ref + 1] IN
           {"normMin", "normMax"} \subseteq j.given
                /\ {"posMin", "posMax"} \subseteq limits.given =>
            limits.values.posMin <= j.values.normMin /\ j.values.normMax <= limits.values.posMax

(* The individual file of a robot wins over its model's file, field by       *)
(* field; and the follower's slew limit is what a file says, or else the     *)
(* velocity limit that is finally in force, not the model file's             *)
(* (pi_joint.cpp: keep it tracking the possibly overridden vel_max).         *)
Effective(i, f, default) ==
    IF f \in DOMAIN individualFile.joints[i].joint THEN individualFile.joints[i].joint[f]
    ELSE IF f \in DOMAIN modelFile.joints[i].joint THEN modelFile.joints[i].joint[f]
    ELSE default
IndividualWins ==
    Ready => \A i \in DOMAIN joints :
        /\ \A f \in {"vel", "accel", "rescale"} :
            joints[i].values[f] = Effective(i, f, IF f = "vel" THEN 0 ELSE garbage)
        /\ joints[i].values.follow = Effective(i, "follow", Effective(i, "vel", 0))

(* A failed load leaves no servo behind in the driver's static registry, and *)
(* a finished one has exactly the servos of the model file there.            *)
RegistryMatches ==
    /\ stage = "refused" => registered = {}
    /\ Ready => registered = UNION {EntryIds(modelFile.joints[i]) : i \in DOMAIN joints}

(* However many turns the encoder lost, commanding the position a servo      *)
(* reports asks the motor to stay where it is: the command takes the turn    *)
(* out again that the reading put in.                                        *)
CommandMeetsReading ==
    stage = "running" => CommandOf(Relative) = MeasuredAbsolute

(* The offset is the number of lost turns whenever the joint was within its  *)
(* limits when it was first read, and it never changes afterwards: the       *)
(* reported position moves as the joint moves.                               *)
TurnsRecovered ==
    /\ ~wrap.done /\ wrap'.done /\ truth \in Reference.posMin .. Reference.posMax
        => wrap'.offset = lost * Reference.period
    /\ wrap.done => wrap' = wrap

(* A joint runs with the limits and the turn that its files and its encoder  *)
(* give, or not at all.                                                      *)
LoadedAsWritten ==
    [][/\ TurnsRecovered
       /\ (LoadedIsSane /\ IndividualWins /\ RegistryMatches /\ CommandMeetsReading)']_configVars
=============================================================================
