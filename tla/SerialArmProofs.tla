---------------------------- MODULE SerialArmProofs ----------------------------
(***************************************************************************)
(* The gripper for every travel, step, window and tolerance, and the       *)
(* servos of a serial line for every number of servos and of faults.       *)
(***************************************************************************)
EXTENDS Feetech, Effector, SequenceTheorems, TLAPS

-----------------------------------------------------------------------------
(***************************************************************************)
(* The gripper.                                                            *)
(***************************************************************************)

(* A target that is clipped lies between the bounds.                         *)
LEMMA ClipBounds ==
    ASSUME NEW x \in Int, NEW lo \in Int, NEW hi \in Int, lo <= hi
    PROVE  /\ Clip(x, lo, hi) \in Int
           /\ lo <= Clip(x, lo, hi) /\ Clip(x, lo, hi) <= hi
           /\ x \in lo .. hi => Clip(x, lo, hi) = x
           /\ x <= lo => Clip(x, lo, hi) = lo
           /\ hi <= x => Clip(x, lo, hi) = hi
  BY DEF Clip

(* The window shrinks to nothing and is never negative.                      *)
LEMMA WindowTypes ==
    ASSUME NEW t \in {"cool", "cautious", "critical"}
    PROVE  WindowOf(t) \in Nat
  <1>1. GripWindow \in Nat /\ GripWindow \div 2 \in Nat
    BY StepAssumption
  <1> QED
    BY <1>1 DEF WindowOf

(* The clamped command is a position of the gripper, inside the window when   *)
(* there is a limit.                                                          *)
LEMMA GripBounds ==
    ASSUME NEW x \in Int, NEW at \in Positions, NEW t \in {"cool", "cautious", "critical"}
    PROVE  /\ GripClamp(x, at, t) \in Positions
           /\ config.limited => Abs(GripClamp(x, at, t) - at) <= WindowOf(t)
  <1> DEFINE w == WindowOf(t)
             y == Clip(x, at - w, at + w)
  <1>1. w \in Nat /\ at \in Int /\ 0 <= at /\ at <= Travel /\ Travel \in Int
    BY WindowTypes, TravelAssumption DEF Positions
  <1> HIDE DEF w
  <1>2. y \in Int /\ at - w <= y /\ y <= at + w
    BY <1>1, ClipBounds
  <1> HIDE DEF y
  <1>3. GripClamp(x, at, t) = IF config.limited THEN Clip(y, 0, Travel) ELSE Clip(x, 0, Travel)
    BY DEF GripClamp, y, w
  <1>4. Clip(y, 0, Travel) \in 0 .. Travel /\ Abs(Clip(y, 0, Travel) - at) <= w
    BY <1>1, <1>2 DEF Clip, Abs
  <1>5. Clip(x, 0, Travel) \in 0 .. Travel
    BY <1>1 DEF Clip
  <1> QED
    BY <1>3, <1>4, <1>5 DEF Positions, w

(* What a normalized position stands for is a position.                      *)
LEMMA ScaledDown ==
    ASSUME NEW a \in Nat, NEW b \in Nat, NEW n \in Nat \ {0}, a <= n
    PROVE  (a * b) \div n \in 0 .. b
  <1>1. a * b \in Nat /\ a * b <= n * b
    OBVIOUS
  <1> DEFINE q == (a * b) \div n
  <1>2. q \in Int /\ n * q <= a * b /\ a * b < n * (q + 1)
    BY <1>1
  <1> HIDE DEF q
  <1>3. q <= b
    <2>1. SUFFICES ASSUME q > b PROVE FALSE
      BY <1>2
    <2>2. n * q > n * b
      BY <1>2, <2>1
    <2> QED
      BY <1>1, <1>2, <2>2
  <1>4. q >= 0
    <2>1. SUFFICES ASSUME q + 1 <= 0 PROVE FALSE
      BY <1>2
    <2>2. n * (q + 1) <= 0
      BY <1>2, <2>1
    <2> QED
      BY <1>1, <1>2, <2>2
  <1> QED
    BY <1>2, <1>3, <1>4 DEF q

(* The normalized travel lies inside the travel and is never empty.           *)
LEMMA RangeTypes ==
    /\ RangeMin \in Nat /\ RangeMax \in Nat /\ EffectiveMax \in Nat
    /\ RangeMin < EffectiveMax /\ EffectiveMax <= RangeMax /\ RangeMax <= Travel
  BY TravelAssumption, SafetyMarginAssumption, RangeAssumption
     DEF RangeMin, RangeMax, EffectiveMax

(* A normalized position stands for a position, whatever is commanded.        *)
LEMMA FromTypes ==
    ASSUME config \in Configurations, NEW n \in Int, NEW at \in Positions
    PROVE  FromNormalized(n, at) \in Positions
  <1> DEFINE x == Clip(n, 0, Levels)
             y == IF config.openAtMin THEN Levels - x ELSE x
  <1> DEFINE R == RangeMin
             E == EffectiveMax
  <1>1. Levels \in Nat \ {0} /\ Travel \in Nat /\ R \in Nat /\ E \in Nat
        /\ E - R \in Nat /\ E <= Travel
    BY TravelAssumption, RangeTypes
  <1>2. x \in 0 .. Levels
    BY <1>1 DEF Clip
  <1> HIDE DEF x
  <1>3. y \in Nat /\ y <= Levels
    BY <1>1, <1>2
  <1> HIDE DEF y
  <1> HIDE DEF R, E
  <1>4. (y * (E - R)) \div Levels \in 0 .. E - R
    BY <1>1, <1>3, ScaledDown
  <1> DEFINE z == (y * (E - R)) \div Levels
  <1> HIDE DEF z
  <1>5. z \in 0 .. E - R
    BY <1>4 DEF z
  <1>6. R + z \in Positions
    BY <1>1, <1>5 DEF Positions
  <1>7. FromNormalized(n, at) = IF n = NaN THEN at ELSE R + z
    BY DEF FromNormalized, x, y, z, R, E
  <1> QED
    BY <1>6, <1>7

(* The ready position is one too.                                             *)
LEMMA ReadyTypes ==
    ASSUME config \in Configurations
    PROVE  ReadyPosition \in Positions
  BY FromTypes, TravelAssumption DEF ReadyPosition, Positions

(* Publishing a position and commanding it back moves the gripper from the    *)
(* nearer point of the normalized travel by at most the safety margin and one *)
(* unit of the grid.                                                          *)
LEMMA Conversions ==
    ASSUME config \in Configurations, NEW p \in Positions
    PROVE  Abs(FromNormalized(ToNormalized(p), p) - Clip(p, RangeMin, RangeMax))
              <= RangeMax - EffectiveMax + 1
  <1> DEFINE R == RangeMin
             T == RangeMax - RangeMin
             S == RangeMax - EffectiveMax
             L == Levels
             at == Clip(p, RangeMin, RangeMax) - RangeMin
             x == (at * L) \div T
             r == (x * (T - S)) \div L
  <1>1. /\ T \in Nat \ {0} /\ L \in Nat \ {0} /\ L >= T /\ S \in Nat /\ S < T
        /\ at \in Nat /\ at <= T /\ R \in Nat
        /\ T - S = EffectiveMax - RangeMin /\ Clip(p, RangeMin, RangeMax) = R + at
    <2>1. p \in Int
      BY TravelAssumption DEF Positions
    <2> DEFINE c == Clip(p, RangeMin, RangeMax)
    <2>2. c \in Int /\ RangeMin <= c /\ c <= RangeMax
      BY <2>1, RangeTypes, ClipBounds
    <2>3. Travel \in Nat \ {0} /\ Levels \in Nat /\ Levels >= Travel
      BY TravelAssumption
    <2> HIDE DEF c
    <2>4. /\ T \in Nat \ {0} /\ L \in Nat \ {0} /\ L >= T /\ S \in Nat /\ S < T
          /\ R \in Nat /\ T - S = EffectiveMax - RangeMin
          /\ c - RangeMin \in Nat /\ c - RangeMin <= T /\ c = R + (c - RangeMin)
      BY <2>2, <2>3, RangeTypes
    <2> QED
      BY <2>4 DEF c
  <1> DEFINE X == ToNormalized(p)
  <1>1a. X = IF config.openAtMin THEN L - x ELSE x
    BY DEF ToNormalized
  <1>1b. \A n : FromNormalized(n, p) = IF n = NaN THEN p
             ELSE R + ((IF config.openAtMin THEN L - Clip(n, 0, L) ELSE Clip(n, 0, L))
                       * (T - S)) \div L
    BY <1>1 DEF FromNormalized
  <1> HIDE DEF R, T, S, at, X
  <1>2. x \in 0 .. L
    BY <1>1, ScaledDown
  <1>3. T * x <= at * L /\ at * L < T * (x + 1)
    <2>1. at * L \in Nat
      BY <1>1
    <2> QED
      BY <1>1, <2>1
  <1>4. r \in Int /\ L * r <= x * (T - S) /\ x * (T - S) < L * (r + 1)
    <2>1. x * (T - S) \in Nat
      BY <1>1, <1>2
    <2> QED
      BY <1>1, <2>1
  <1>5. FromNormalized(X, p) = R + r
    <2>1. CASE config.openAtMin
      <3>1. X = L - x
        BY <1>1a, <2>1
      <3>2. Clip(L - x, 0, L) = L - x
        BY <1>1, <1>2 DEF Clip
      <3>3. L - x # NaN /\ L - (L - x) = x
        BY <1>1, <1>2 DEF NaN
      <3> QED
        BY <1>1b, <2>1, <3>1, <3>2, <3>3
    <2>2. CASE ~config.openAtMin
      <3>1. X = x
        BY <1>1a, <2>2
      <3>2. Clip(x, 0, L) = x
        BY <1>1, <1>2 DEF Clip
      <3>3. x # NaN
        BY <1>1, <1>2 DEF NaN
      <3> QED
        BY <1>1b, <2>2, <3>1, <3>2, <3>3
    <2> QED
      BY <2>1, <2>2
  <1> HIDE DEF x, r
  <1>6. r <= at
    <2>1. L * r <= x * T
      <3>1. x * (T - S) <= x * T
        BY <1>1, <1>2
      <3> QED
        BY <1>1, <1>2, <1>4, <3>1
    <2>2. L * r <= L * at
      <3>1. x * T = T * x /\ L * at = at * L
        BY <1>1, <1>2
      <3>2. T * x \in Int /\ at * L \in Int /\ L * r \in Int
        BY <1>1, <1>2, <1>4
      <3> QED
        BY <1>3, <2>1, <3>1, <3>2
    <2> QED
      BY <1>1, <1>4, <2>2
  <1>7. at <= r + S + 1
    <2>1. SUFFICES ASSUME at >= r + S + 2 PROVE FALSE
      BY <1>1, <1>4
    <2>2. L * at >= L * (r + 1) + L * (S + 1)
      <3>1. L * at >= L * (r + S + 2)
        BY <1>1, <1>4, <2>1
      <3>2. L * (r + S + 2) = L * (r + 1) + L * (S + 1)
        BY <1>1, <1>4
      <3> QED
        BY <1>1, <1>4, <3>1, <3>2
    <2>3. L * at > x * (T - S) + L * (S + 1)
      BY <1>1, <1>2, <1>4, <2>2
    <2>4. x * (T - S) = x * T - x * S
      BY <1>1, <1>2
    <2>5. x * T + T > at * L
      BY <1>1, <1>2, <1>3
    <2>6. x * S <= L * S
      BY <1>1, <1>2
    <2>7. L * (S + 1) = L * S + L
      BY <1>1
    <2>8. L * at = at * L /\ x * T \in Int /\ x * S \in Int /\ L * S \in Int /\ at * L \in Int
      BY <1>1, <1>2
    <2> QED
      BY <1>1, <2>3, <2>4, <2>5, <2>6, <2>7, <2>8
  <1>8. Abs((R + r) - (R + at)) <= S + 1
    BY <1>1, <1>4, <1>6, <1>7 DEF Abs
  <1> QED
    BY <1>1, <1>5, <1>8 DEF X, S

(***************************************************************************)
(* The inductive invariant of the gripper.  A move that is not over has    *)
(* confirmations left, and has spent more than its budget only while it    *)
(* was confirming; a servo that is excluded has been named; the torque of  *)
(* a serial gripper is on from the first iteration of the start-up, whose  *)
(* target is within a step.  A cycle sends one of five sequences of torque *)
(* switches.                                                               *)
(***************************************************************************)
Orders == {<<>>, <<"on">>, <<"off">>, <<"off", "on">>, <<"off", "on", "on">>}

GripTypes ==
    /\ config \in Configurations
    /\ pc \in {"off", "start", "verify", "run", "ended"}
    /\ isReady \in BOOLEAN /\ engaged \in BOOLEAN
    /\ failed \in BOOLEAN /\ lastFailed \in BOOLEAN
    /\ cmdState \in {"IDLE", "REQUESTED", "MOVING"}
    /\ pos \in Positions /\ tele \in Positions /\ cmd \in Positions
    /\ temp \in Temperatures
    /\ ramp \in Positions \cup {NoRamp}
    /\ drive \in {"none", "position", "probe", "torque", "free"}
    /\ switched \in Orders
    /\ origin \in {"startup", "move", "told"}

MoveTypes ==
    /\ joint \in [prev : Positions, still : 0 .. StuckThreshold + 1, latched : BOOLEAN]
    /\ initCount \in 0 .. 1
    /\ reachedCnt \in 0 .. ConfirmCount + 1
    /\ budget \in [total : Nat, used : Nat]
    /\ budget.used <= budget.total + ConfirmCount + 1

MoveInv ==
    ~isReady => reachedCnt <= ConfirmCount /\ budget.used <= budget.total + reachedCnt

BlamedInv == failed => lastFailed
EngagedInv == pc \in {"verify", "run"} /\ config.family = "serial" => engaged
ProbeInv == pc = "verify" => Abs(joint.prev - pos) <= Step

(* The torque switches a cycle composes.                                      *)
LEMMA SwitchOrders ==
    ASSUME config \in Configurations
    PROVE  /\ <<>> \in Orders
           /\ \A on \in BOOLEAN : EngageOnce(on) \in Orders
           /\ \A r \in {"LEADER", "FOLLOWER"} : /\ SetControlMode(r) \in Orders
                                               /\ <<>> \o SetControlMode(r) \in Orders
           /\ SetControlMode("FOLLOWER") \o EngageOnce(FALSE) \in Orders
           /\ <<>> \o <<>> \in Orders
           /\ config.family = "serial" => EngageOnce(TRUE) = <<>>
           /\ config.family # "serial" => \A on \in BOOLEAN : EngageOnce(on) = <<>>
  <1>1. config.family = "can" \/ config.family = "serial"
    BY ConfigurationAssumption
  <1>2. /\ <<>> \o <<>> = <<>> /\ <<>> \o <<"off">> = <<"off">>
        /\ <<>> \o <<"off", "on">> = <<"off", "on">>
        /\ <<"off", "on">> \o <<"on">> = <<"off", "on", "on">>
    <2> DEFINE W == {"on", "off"}
    <2>1. /\ <<>> \in Seq(W) /\ <<"off">> \in Seq(W) /\ <<"off", "on">> \in Seq(W)
          /\ <<"on">> \in Seq(W) /\ <<"off", "on", "on">> \in Seq(W)
      OBVIOUS
    <2>2. <<>> \o <<>> = <<>> /\ <<>> \o <<"off">> = <<"off">>
          /\ <<>> \o <<"off", "on">> = <<"off", "on">>
      BY <2>1, ConcatEmptySeq
    <2>3. <<"off", "on">> \o <<"on">> = Append(<<"off", "on">>, "on")
      BY <2>1, AppendIsConcat
    <2>4. Append(<<"off", "on">>, "on") = <<"off", "on", "on">>
      <3> DEFINE a == Append(<<"off", "on">>, "on")
                 b == <<"off", "on", "on">>
      <3>1. a \in Seq(W) /\ Len(a) = 3 /\ a[1] = "off" /\ a[2] = "on" /\ a[3] = "on"
        BY <2>1
      <3>2. b \in Seq(W) /\ Len(b) = 3 /\ b[1] = "off" /\ b[2] = "on" /\ b[3] = "on"
        OBVIOUS
      <3> HIDE DEF a, b
      <3>3. \A i \in 1 .. Len(a) : a[i] = b[i]
        BY <3>1, <3>2
      <3>4. a = b
        BY <3>1, <3>2, <3>3, SeqEqual
      <3> QED
        BY <3>4 DEF a, b
    <2> QED
      BY <2>2, <2>3, <2>4
  <1>3. CASE config.family = "can"
    <2>1. \A r \in {"LEADER", "FOLLOWER"} : SetControlMode(r) = <<>>
      BY <1>3, Zenon DEF SetControlMode
    <2>2. \A on \in BOOLEAN : EngageOnce(on) = <<>>
      BY <1>3 DEF EngageOnce
    <2> QED
      BY <1>2, <1>3, <2>1, <2>2 DEF Orders
  <1>4. CASE config.family = "serial"
    <2>1. SetControlMode("LEADER") = <<"off">> /\ SetControlMode("FOLLOWER") = <<"off", "on">>
      BY <1>4 DEF SetControlMode
    <2>2. EngageOnce(TRUE) = <<>> /\ EngageOnce(FALSE) = <<"on">>
      BY <1>4 DEF EngageOnce
    <2>3. \A on \in BOOLEAN : EngageOnce(on) \in Orders
      BY <2>2 DEF Orders
    <2> QED
      BY <1>2, <1>4, <2>1, <2>2, <2>3 DEF Orders
  <1> QED
    BY <1>1, <1>3, <1>4

(* None of them ends in a torque-off that follows something else.             *)
LEMMA OrdersAreSafe ==
    ASSUME switched \in Orders
    PROVE  TorqueOffIsAlone /\ switched \in Seq({"on", "off"})
  <1>1. switched \in Seq({"on", "off"})
    <2> DEFINE W == {"on", "off"}
    <2>1. /\ <<>> \in Seq(W) /\ <<"off">> \in Seq(W) /\ <<"off", "on">> \in Seq(W)
          /\ <<"on">> \in Seq(W) /\ <<"off", "on", "on">> \in Seq(W)
      OBVIOUS
    <2> QED
      BY <2>1, Zenon DEF Orders
  <1>2. /\ <<"on">>[Len(<<"on">>)] = "on" /\ <<"off", "on">>[Len(<<"off", "on">>)] = "on"
        /\ <<"off", "on", "on">>[Len(<<"off", "on", "on">>)] = "on"
    OBVIOUS
  <1>3. \/ switched = <<>> \/ switched = <<"off">> \/ switched = <<"on">>
        \/ switched = <<"off", "on">> \/ switched = <<"off", "on", "on">>
    BY DEF Orders
  <1>4. switched # <<>> /\ switched # <<"off">> => switched[Len(switched)] = "on"
    <2>1. CASE switched = <<"on">>
      BY <1>2, <2>1, Zenon
    <2>2. CASE switched = <<"off", "on">>
      BY <1>2, <2>2, Zenon
    <2>3. CASE switched = <<"off", "on", "on">>
      BY <1>2, <2>3, Zenon
    <2> QED
      BY <1>3, <2>1, <2>2, <2>3, Zenon
  <1>5. TorqueOffIsAlone
    BY <1>4 DEF TorqueOffIsAlone
  <1> QED
    BY <1>1, <1>5

(* The stuck detector keeps its types and does not touch the last target.     *)
LEMMA StuckTypes ==
    ASSUME config \in Configurations, NEW at \in Positions, NEW last \in Positions,
           NEW j \in [prev : Positions, still : 0 .. StuckThreshold + 1, latched : BOOLEAN]
    PROVE  /\ CheckStuck(j, last, at)
                \in [prev : Positions, still : 0 .. StuckThreshold + 1, latched : BOOLEAN]
           /\ CheckStuck(j, last, at).prev = j.prev
  <1> DEFINE still == IF Abs(ReadyPosition - at) > Margin /\ at = last THEN j.still + 1 ELSE 0
             count == IF still > StuckThreshold THEN StuckThreshold + 1 ELSE still
  <1>1. StuckThreshold \in Nat
    BY CountAssumption
  <1>2. count \in 0 .. StuckThreshold + 1
    BY <1>1
  <1> HIDE DEF count
  <1>3. (j.latched \/ count > StuckThreshold) \in BOOLEAN
    OBVIOUS
  <1>4. CheckStuck(j, last, at)
          = [j EXCEPT !.still = count, !.latched = j.latched \/ count > StuckThreshold]
    BY DEF CheckStuck, count
  <1> QED
    BY <1>2, <1>3, <1>4

(* The next target lies between the last one, or the gripper, and the ready   *)
(* position; a move that starts at the gripper makes one step.                *)
LEMMA TargetTypes ==
    ASSUME config \in Configurations, NEW at \in Positions, NEW j, j.prev \in Positions
    PROVE  /\ NextTarget(j, at) \in Positions
           /\ j.prev = at => Abs(NextTarget(j, at) - at) <= Step
  <1> DEFINE overtaken ==
                 /\ Abs(ReadyPosition - at) > Margin
                 /\ (ReadyPosition - at) * (ReadyPosition - j.prev) < 0
             base == IF overtaken THEN at ELSE j.prev
  <1>1. base \in Positions
    OBVIOUS
  <1> HIDE DEF base
  <1>2. NextTarget(j, at) = Clip(ReadyPosition, base - Step, base + Step)
    BY DEF NextTarget, base
  <1>3. ReadyPosition \in Positions /\ Travel \in Nat /\ Step \in Nat
    BY ReadyTypes, TravelAssumption, StepAssumption
  <1>4. Clip(ReadyPosition, base - Step, base + Step) \in Positions
    BY <1>1, <1>3 DEF Positions, Clip
  <1>5. Abs(Clip(ReadyPosition, base - Step, base + Step) - base) <= Step
    BY <1>1, <1>3 DEF Positions, Clip, Abs
  <1>6. j.prev = at => base = at
    BY DEF base
  <1> QED
    BY <1>2, <1>4, <1>5, <1>6

(* The budget of a move allows at least its first iteration.                  *)
LEMMA BudgetTypes ==
    ASSUME NEW d \in Nat
    PROVE  BudgetFor(d) \in Nat \ {0}
  <1>1. d \div Step + 1 \in Nat
    BY StepAssumption
  <1>2. BudgetScale * (d \div Step + 1) \in Nat
    BY <1>1, CountAssumption
  <1> QED
    BY <1>2, CountAssumption DEF BudgetFor, Larger

(* One iteration of a ready move, with the gripper measured at a position.    *)
LEMMA IterateKeeps ==
    ASSUME GripTypes, MoveTypes, BlamedInv, NEW first \in BOOLEAN,
           first \/ (~isReady /\ MoveInv),
           NEW at \in Positions, NEW t \in Temperatures, Iterate(first, at, t)
    PROVE  /\ MoveTypes' /\ MoveInv'
           /\ isReady' \in BOOLEAN /\ lastFailed' \in BOOLEAN
           /\ lastFailed => lastFailed'
           /\ cmd' \in Positions /\ drive' \in {"none", "position"}
           /\ drive' = "position" /\ config.limited => Abs(cmd' - at) <= WindowOf(t)
           /\ isReady' /\ Outside(at) => lastFailed'
           /\ first => Abs(joint'.prev - at) <= Step
  <1> DEFINE JointType == [prev : Positions, still : 0 .. StuckThreshold + 1,
                           latched : BOOLEAN]
             fresh == IF first THEN JointAt(at) ELSE joint
             spent == IF first
                          THEN [total |-> BudgetFor(Abs(ReadyPosition - at)), used |-> 1]
                          ELSE Spend(budget)
             before == IF first THEN 0 ELSE reachedCnt
  <1>1. ConfirmCount \in Nat /\ StuckThreshold \in Nat
    BY CountAssumption
  <1>2. fresh \in JointType
    <2>1. JointAt(at) \in JointType
      BY <1>1 DEF JointAt
    <2> QED
      BY <2>1 DEF MoveTypes
  <1>3. before \in 0 .. ConfirmCount
    BY <1>1 DEF MoveTypes, MoveInv
  <1>4. spent \in [total : Nat, used : Nat] /\ spent.used <= spent.total + before + 1
        /\ spent.used <= spent.total + ConfirmCount + 1
    <2>1. CASE first
      <3>1. Abs(ReadyPosition - at) \in Nat
        BY ReadyTypes, TravelAssumption DEF Positions, Abs, GripTypes
      <3>2. BudgetFor(Abs(ReadyPosition - at)) \in Nat \ {0}
        BY <3>1, BudgetTypes
      <3> QED
        BY <1>1, <2>1, <3>2
    <2>2. CASE ~first
      <3>1. budget.used <= budget.total + reachedCnt /\ reachedCnt \in 0 .. ConfirmCount
        BY <1>1, <2>2 DEF MoveTypes, MoveInv
      <3>2. budget \in [total : Nat, used : Nat]
        BY DEF MoveTypes
      <3> QED
        BY <1>1, <2>2, <3>1, <3>2 DEF Spend
    <2> QED
      BY <2>1, <2>2
  <1>5. initCount' = 1 /\ budget' = spent
    BY DEF Iterate
  <1>6. CASE failed
    <2>1. isReady' = TRUE /\ joint' = fresh /\ reachedCnt' = before /\ drive' = "none"
          /\ UNCHANGED <<lastFailed, cmd>>
      BY <1>6 DEF Iterate
    <2> HIDE DEF fresh, spent, before
    <2>2. MoveTypes' /\ MoveInv'
      BY <1>1, <1>2, <1>3, <1>4, <1>5, <2>1 DEF MoveTypes, MoveInv
    <2>3. first => Abs(joint'.prev - at) <= Step
      <3>1. Abs(at - at) <= Step
        BY TravelAssumption, StepAssumption DEF Positions, Abs
      <3>2. first => joint'.prev = at
        BY <2>1 DEF fresh, JointAt
      <3> QED
        BY <3>1, <3>2
    <2> QED
      BY <1>6, <2>1, <2>2, <2>3 DEF GripTypes, BlamedInv
  <1>7. CASE ~failed
    <2> DEFINE j == CheckStuck(fresh, IF first THEN at ELSE pos, at)
               calm == j.latched \/ ~Outside(at)
               next == NextTarget(j, at)
    <2>1. /\ reachedCnt' = (IF calm THEN before + 1 ELSE 0)
          /\ isReady' = (\/ reachedCnt' > ConfirmCount
                         \/ ~calm /\ BudgetExhausted(budget'))
          /\ joint' = [j EXCEPT !.prev = next]
          /\ lastFailed' = Blame(isReady', at)
          /\ SendPosition(GripClamp(joint'.prev, at, t))
      BY <1>7 DEF Iterate
    <2>2. j \in JointType /\ j.prev = fresh.prev
      BY <1>2, StuckTypes DEF GripTypes
    <2>2a. first => j.prev = at
      BY <2>2 DEF JointAt
    <2> HIDE DEF fresh, spent, before, j
    <2>3. next \in Positions /\ (first => Abs(next - at) <= Step)
      BY <2>2, <2>2a, TargetTypes DEF GripTypes
    <2> HIDE DEF next
    <2>4. joint' \in JointType /\ joint'.prev = next
      BY <2>1, <2>2, <2>3
    <2>5. t \in {"cool", "cautious", "critical"} /\ next \in Int
      BY <2>3, ConfigurationAssumption, TravelAssumption DEF Positions
    <2>6. /\ cmd' \in Positions /\ drive' = "position"
          /\ config.limited => Abs(cmd' - at) <= WindowOf(t)
      BY <2>1, <2>4, <2>5, GripBounds DEF SendPosition
    <2>7. calm \in BOOLEAN
      BY <2>2
    <2> HIDE DEF calm
    <2>8. isReady' \in BOOLEAN
      BY <2>1
    <2>9. reachedCnt' \in 0 .. ConfirmCount + 1
      BY <1>1, <1>3, <2>1, <2>7
    <2>10. MoveTypes'
      BY <1>4, <1>5, <2>4, <2>9 DEF MoveTypes
    <2>11. MoveInv'
      <3>1. CASE calm
        BY <1>1, <1>3, <1>4, <1>5, <2>1, <3>1 DEF MoveInv
      <3>2. CASE ~calm
        BY <1>1, <1>3, <1>4, <1>5, <2>1, <3>2 DEF MoveInv, BudgetExhausted
      <3> QED
        BY <3>1, <3>2
    <2>12. lastFailed' \in BOOLEAN /\ (lastFailed => lastFailed')
           /\ (isReady' /\ Outside(at) => lastFailed')
      BY <2>1 DEF Blame
    <2> QED
      BY <2>3, <2>4, <2>6, <2>8, <2>10, <2>11, <2>12
  <1> QED
    BY <1>6, <1>7

GripInv ==
    /\ GripTypes /\ MoveTypes /\ MoveInv /\ BlamedInv /\ EngagedInv
    /\ ProbeInv /\ SqueezeBounded

(* The command of a cycle that operates the gripper.                          *)
LEMMA OperateKeeps ==
    ASSUME GripTypes, MoveTypes, pos' \in Positions, temp' \in Temperatures,
           NEW goal \in Positions, NEW from \in Positions \cup {NoRamp}, Operate(goal, from)
    PROVE  /\ joint' \in [prev : Positions, still : 0 .. StuckThreshold + 1,
                          latched : BOOLEAN]
           /\ ramp' \in Positions \cup {NoRamp} /\ cmd' \in Positions
           /\ drive' \in {"position", "torque", "free"}
           /\ drive' = "position" /\ config.limited => Abs(cmd' - pos') <= WindowOf(temp')
           /\ drive' = "torque" /\ goal = pos' /\ from = NoRamp => cmd' = pos'
  <1>1. Travel \in Nat /\ temp' \in {"cool", "cautious", "critical"} /\ goal \in Int
    BY TravelAssumption, ConfigurationAssumption DEF Positions
  <1>2. CASE config.role = "LEADER"
    BY <1>2 DEF Operate, GripTypes, MoveTypes
  <1>3. CASE config.role # "LEADER" /\ config.mode = "torque" /\ config.family = "can"
    <2> DEFINE start == IF from = NoRamp THEN pos' ELSE from
    <2>1. ramp' = Clip(goal, start - 1, start + 1) /\ drive' = "torque" /\ cmd' = ramp'
          /\ joint' = joint
      BY <1>3 DEF Operate, RampTo
    <2>2. start \in Positions
      OBVIOUS
    <2>3. from = NoRamp => start = pos'
      OBVIOUS
    <2> HIDE DEF start
    <2>4. ramp' \in Positions /\ (goal = start => ramp' = goal)
      BY <1>1, <2>1, <2>2 DEF Clip, Positions
    <2> QED
      BY <2>1, <2>3, <2>4 DEF MoveTypes
  <1>4. CASE config.role # "LEADER" /\ config.mode = "torque" /\ config.family # "can"
    BY <1>4 DEF Operate, GripTypes, MoveTypes
  <1>5. CASE config.role # "LEADER" /\ config.mode # "torque"
    <2>1. SendPosition(GripClamp(goal, pos', temp')) /\ joint' = [joint EXCEPT !.prev = cmd']
          /\ ramp' = ramp
      BY <1>5 DEF Operate
    <2>2. cmd' \in Positions /\ drive' = "position"
          /\ (config.limited => Abs(cmd' - pos') <= WindowOf(temp'))
      BY <1>1, <2>1, GripBounds DEF SendPosition
    <2> QED
      BY <2>1, <2>2 DEF GripTypes, MoveTypes
  <1> QED
    BY <1>2, <1>3, <1>4, <1>5

(* A command to stay pulls by nothing.                                        *)
LEMMA StandStill ==
    ASSUME NEW at \in Positions
    PROVE  Abs(at - at) <= 1
  BY TravelAssumption DEF Positions, Abs

(* Every step of the gripper keeps the invariant, tells an unfinished ready   *)
(* move, and starts the torque of a gripper that comes out of one at the      *)
(* gripper.                                                                   *)
LEMMA GripStep ==
    ASSUME GripInv, [EffectorNext]_effectorVars
    PROVE  /\ GripInv'
           /\ ~isReady /\ isReady' /\ ~config.skipHoming /\ Outside(pos') => lastFailed'
           /\ cmdState = "MOVING" /\ cmdState' = "IDLE" /\ drive' = "torque"
              => Abs(cmd' - pos') <= 1
  <1> DEFINE Goal ==
        /\ GripInv'
        /\ ~isReady /\ isReady' /\ ~config.skipHoming /\ Outside(pos') => lastFailed'
        /\ cmdState = "MOVING" /\ cmdState' = "IDLE" /\ drive' = "torque"
           => Abs(cmd' - pos') <= 1
  <1> USE DEF GripInv, moveVars
  <1> DEFINE Starts == \E lost \in BOOLEAN : Start(lost)
             Told == \E n \in {NaN} \cup (-1 .. Levels + 1) : ApplyAction(n)
  <1>1. ASSUME Starts PROVE Goal
    <2>0. PICK lost \in BOOLEAN : Start(lost)
      BY <1>1
    <2>1. joint' \in [prev : Positions, still : 0 .. StuckThreshold + 1, latched : BOOLEAN]
      <3>1. JointAt(pos) \in [prev : Positions, still : 0 .. StuckThreshold + 1,
                              latched : BOOLEAN]
        BY CountAssumption DEF JointAt, GripTypes
      <3> QED
        BY <2>0, <3>1 DEF Start, MoveTypes
    <2>2. MoveTypes' /\ MoveInv'
      BY <2>0, <2>1 DEF Start, MoveTypes, MoveInv
    <2>3. GripTypes'
      BY <2>0 DEF Start, GripTypes, SendPosition
    <2>4. BlamedInv' /\ EngagedInv' /\ ProbeInv'
      BY <2>0 DEF Start, BlamedInv, EngagedInv, ProbeInv
    <2>5. SqueezeBounded'
      <3>1. CASE lost
        BY <2>0, <3>1 DEF Start, SqueezeBounded
      <3>2. CASE ~lost
        <4>1. cmd' = pos /\ pos' = pos /\ temp' = temp /\ drive' = "position"
          BY <2>0, <3>2 DEF Start, SendPosition
        <4>2. WindowOf(temp) \in Nat
          BY WindowTypes, ConfigurationAssumption DEF GripTypes
        <4>3. pos \in Int
          BY TravelAssumption DEF GripTypes, Positions
        <4> QED
          BY <4>1, <4>2, <4>3 DEF SqueezeBounded, Abs
      <3> QED
        BY <3>1, <3>2
    <2>6. isReady' = isReady /\ cmdState' = cmdState
      BY <2>0 DEF Start
    <2> QED
      BY <2>2, <2>3, <2>4, <2>5, <2>6
  <1>2. ASSUME StartMove PROVE Goal
    <2>1. UNCHANGED <<config, cmdState, pos, temp, ramp, failed, origin>> /\ pc' = "verify"
      BY <1>2 DEF StartMove
    <2>2. engaged' \in BOOLEAN /\ tele' \in Positions /\ switched' \in Orders
      BY <1>2, SwitchOrders DEF StartMove, GripTypes
    <2>3. EngagedInv'
      BY <1>2 DEF StartMove, EngagedInv
    <2>5. CASE config.skipHoming
      <3>1. isReady' = TRUE /\ joint' = [joint EXCEPT !.prev = pos]
            /\ UNCHANGED <<initCount, reachedCnt, budget, lastFailed, drive, cmd>>
        BY <1>2, <2>5 DEF StartMove, SkipHoming
      <3>2. MoveTypes' /\ MoveInv'
        BY <3>1 DEF MoveTypes, MoveInv, GripTypes
      <3>3. GripTypes'
        BY <2>1, <2>2, <3>1 DEF GripTypes
      <3>4. BlamedInv' /\ SqueezeBounded'
        BY <2>1, <3>1 DEF BlamedInv, SqueezeBounded
      <3>5. ProbeInv'
        <4>1. Abs(pos - pos) <= Step
          BY TravelAssumption, StepAssumption DEF Positions, Abs, GripTypes
        <4>2. joint'.prev = pos
          BY <3>1 DEF MoveTypes
        <4> QED
          BY <2>1, <4>1, <4>2 DEF ProbeInv
      <3> QED
        BY <2>1, <2>3, <2>5, <3>2, <3>3, <3>4, <3>5
    <2>6. CASE ~config.skipHoming
      <3>1. Iterate(TRUE, pos, temp)
        BY <1>2, <2>6 DEF StartMove
      <3>2. /\ MoveTypes' /\ MoveInv'
            /\ isReady' \in BOOLEAN /\ lastFailed' \in BOOLEAN
            /\ lastFailed => lastFailed'
            /\ cmd' \in Positions /\ drive' \in {"none", "position"}
            /\ drive' = "position" /\ config.limited => Abs(cmd' - pos) <= WindowOf(temp)
            /\ isReady' /\ Outside(pos) => lastFailed'
            /\ Abs(joint'.prev - pos) <= Step
        BY <3>1, IterateKeeps DEF GripTypes
      <3>3. GripTypes'
        BY <2>1, <2>2, <3>2 DEF GripTypes
      <3>4. BlamedInv' /\ SqueezeBounded'
        BY <2>1, <3>2 DEF BlamedInv, SqueezeBounded
      <3>5. ProbeInv'
        BY <2>1, <3>2 DEF ProbeInv
      <3> QED
        BY <2>1, <2>3, <3>2, <3>3, <3>4, <3>5
    <2> QED
      BY <2>5, <2>6
  <1>3. ASSUME VerifyServos PROVE Goal
    <2>1. UNCHANGED <<config, isReady, cmdState, pos, temp, tele, joint, initCount, reachedCnt,
                      budget, ramp, engaged, failed, lastFailed, origin>>
          /\ pc = "verify" /\ pc' = "run" /\ switched' = <<>>
      BY <1>3 DEF VerifyServos
    <2>2. UNCHANGED <<drive, cmd>> \/ (drive' = "probe" /\ cmd' = joint.prev)
      BY <1>3 DEF VerifyServos
    <2>3. cmd' \in Positions
      BY <2>2 DEF GripTypes, MoveTypes
    <2>4. GripTypes'
      BY <2>1, <2>2, <2>3 DEF GripTypes, Orders
    <2>5. MoveTypes' /\ MoveInv' /\ BlamedInv'
      BY <2>1 DEF MoveTypes, MoveInv, BlamedInv
    <2>6. EngagedInv' /\ ProbeInv'
      BY <2>1 DEF EngagedInv, ProbeInv
    <2>7. SqueezeBounded'
      BY <2>1, <2>2 DEF SqueezeBounded, ProbeInv
    <2> QED
      BY <2>1, <2>4, <2>5, <2>6, <2>7
  <1>4. ASSUME \/ StartFails \/ Request \/ StepFails
               \/ Told
        PROVE  Goal
    <2>1. /\ UNCHANGED <<config, isReady, pos, temp, joint, initCount, reachedCnt, budget, ramp,
                         engaged, failed, drive, cmd, switched>>
          /\ pc' \in {pc, "ended"}
          /\ cmdState' \in {cmdState, "REQUESTED"} /\ origin' \in {origin, "told"}
      BY <1>4 DEF StartFails, Request, StepFails, ApplyAction
    <2>2. lastFailed' \in BOOLEAN /\ (lastFailed => lastFailed')
      <3>1. lastFailed' = lastFailed \/ lastFailed' = TRUE
        BY <1>4, Zenon DEF StartFails, Request, StepFails, ApplyAction
      <3> QED
        BY <3>1 DEF GripTypes
    <2>3. tele' \in Positions
      <3>1. CASE StartFails \/ Request \/ StepFails
        BY <3>1 DEF StartFails, Request, StepFails, GripTypes
      <3>2. CASE \E n \in {NaN} \cup (-1 .. Levels + 1) : ApplyAction(n)
        <4>1. PICK n \in {NaN} \cup (-1 .. Levels + 1) : ApplyAction(n)
          BY <3>2
        <4>2. n \in Int
          BY TravelAssumption DEF NaN
        <4> QED
          BY <4>1, <4>2, FromTypes DEF ApplyAction, GripTypes
      <3> QED
        BY <1>4, <3>1, <3>2
    <2>4. GripTypes'
      BY <2>1, <2>2, <2>3 DEF GripTypes
    <2>5. MoveTypes' /\ MoveInv' /\ BlamedInv'
      BY <2>1, <2>2 DEF MoveTypes, MoveInv, BlamedInv
    <2>6. EngagedInv' /\ ProbeInv'
      BY <2>1 DEF EngagedInv, ProbeInv
    <2>7. SqueezeBounded'
      BY <2>1 DEF SqueezeBounded
    <2> QED
      BY <2>1, <2>4, <2>5, <2>6, <2>7
  <1>5. Reachable \subseteq Positions
    BY DEF Reachable
  <1>6. ASSUME BeginMove PROVE Goal
    <2>1. pos' \in Positions /\ temp' \in Temperatures
      BY <1>5, <1>6 DEF BeginMove, Measure
    <2>2. UNCHANGED <<config, pc, failed, origin>> /\ cmdState' = "MOVING" /\ tele' = pos'
          /\ ramp' = NoRamp /\ engaged' = (config.family = "serial") /\ pc = "run"
      BY <1>6 DEF BeginMove, ClearBuffers, RestartRamp
    <2>2a. switched' \in Orders
      BY <1>6, SwitchOrders DEF BeginMove, GripTypes
    <2>3. Iterate(TRUE, pos', temp')
      BY <1>6 DEF BeginMove
    <2>4. /\ MoveTypes' /\ MoveInv'
          /\ isReady' \in BOOLEAN /\ lastFailed' \in BOOLEAN
          /\ lastFailed => lastFailed'
          /\ cmd' \in Positions /\ drive' \in {"none", "position"}
          /\ drive' = "position" /\ config.limited => Abs(cmd' - pos') <= WindowOf(temp')
          /\ isReady' /\ Outside(pos') => lastFailed'
      BY <2>1, <2>3, IterateKeeps
    <2>5. GripTypes'
      BY <2>1, <2>2, <2>2a, <2>4 DEF GripTypes
    <2>6. BlamedInv' /\ SqueezeBounded'
      BY <2>2, <2>4 DEF BlamedInv, SqueezeBounded
    <2>7. EngagedInv' /\ ProbeInv'
      BY <2>2 DEF EngagedInv, ProbeInv
    <2> QED
      BY <2>2, <2>4, <2>5, <2>6, <2>7
  <1>7. ASSUME ContinueMove PROVE Goal
    <2>1. pos' \in Positions /\ temp' \in Temperatures /\ ~isReady
      BY <1>5, <1>7 DEF ContinueMove, Measure
    <2>2. UNCHANGED <<config, pc, cmdState, failed, origin>> /\ pc = "run"
          /\ engaged' = (engaged \/ config.family = "serial")
          /\ tele' = (IF config.family = "serial" THEN pos' ELSE tele)
      BY <1>7 DEF ContinueMove
    <2>3. Iterate(initCount < 1, pos', temp') /\ (initCount < 1) \in BOOLEAN
      BY <1>7 DEF ContinueMove
    <2>4. /\ MoveTypes' /\ MoveInv'
          /\ isReady' \in BOOLEAN /\ lastFailed' \in BOOLEAN
          /\ lastFailed => lastFailed'
          /\ cmd' \in Positions /\ drive' \in {"none", "position"}
          /\ drive' = "position" /\ config.limited => Abs(cmd' - pos') <= WindowOf(temp')
          /\ isReady' /\ Outside(pos') => lastFailed'
      BY <2>1, <2>3, IterateKeeps
    <2>5. /\ ramp' \in {ramp, NoRamp}
          /\ switched' \in {EngageOnce(engaged) \o SetControlMode(config.role),
                            EngageOnce(engaged) \o <<>>}
      BY <1>7 DEF ContinueMove, RestartRamp
    <2>6. switched' \in Orders
      <3>1. EngageOnce(engaged) = <<>>
        BY <2>2, SwitchOrders DEF EngagedInv, GripTypes
      <3>2. config.role \in {"LEADER", "FOLLOWER"}
        BY ConfigurationAssumption DEF GripTypes
      <3>3. <<>> \o SetControlMode(config.role) \in Orders /\ <<>> \o <<>> \in Orders
        BY <3>2, SwitchOrders DEF GripTypes
      <3> QED
        BY <2>5, <3>1, <3>3
    <2>7. GripTypes'
      BY <2>1, <2>2, <2>4, <2>5, <2>6 DEF GripTypes
    <2>8. BlamedInv' /\ SqueezeBounded'
      BY <2>2, <2>4 DEF BlamedInv, SqueezeBounded
    <2>9. EngagedInv' /\ ProbeInv'
      BY <2>2 DEF EngagedInv, ProbeInv
    <2> QED
      BY <2>2, <2>4, <2>7, <2>8, <2>9
  <1>8. ASSUME RestoreMode \/ OperateStep PROVE Goal
    <2>1. pos' \in Positions /\ temp' \in Temperatures /\ isReady /\ pc = "run"
      BY <1>5, <1>8 DEF RestoreMode, OperateStep, Measure
    <2>2. /\ UNCHANGED <<config, pc, isReady, initCount, reachedCnt, budget, engaged, failed,
                         lastFailed>>
          /\ cmdState' = "IDLE" /\ origin' \in {origin, "move"}
          /\ tele' \in Positions
      BY <1>8, <2>1 DEF RestoreMode, OperateStep, ClearBuffers, GripTypes
    <2>2a. switched' \in Orders
      <3>1. switched' \in {SetControlMode(config.role), <<>>}
        BY <1>8 DEF RestoreMode, OperateStep
      <3>2. config.role \in {"LEADER", "FOLLOWER"}
        BY ConfigurationAssumption DEF GripTypes
      <3> QED
        BY <3>1, <3>2, SwitchOrders DEF GripTypes
    <2>3. \E from \in Positions \cup {NoRamp} :
             /\ Operate(tele', from)
             /\ cmdState = "MOVING" => tele' = pos' /\ from = NoRamp
      BY <1>8 DEF RestoreMode, OperateStep, ClearBuffers, RestartRamp, GripTypes
    <2>4. /\ joint' \in [prev : Positions, still : 0 .. StuckThreshold + 1, latched : BOOLEAN]
          /\ ramp' \in Positions \cup {NoRamp} /\ cmd' \in Positions
          /\ drive' \in {"position", "torque", "free"}
          /\ drive' = "position" /\ config.limited => Abs(cmd' - pos') <= WindowOf(temp')
          /\ drive' = "torque" /\ cmdState = "MOVING" => cmd' = pos'
      BY <2>1, <2>2, <2>3, OperateKeeps
    <2>5. GripTypes'
      BY <2>1, <2>2, <2>2a, <2>4 DEF GripTypes
    <2>6. MoveTypes' /\ MoveInv'
      BY <2>1, <2>2, <2>4 DEF MoveTypes, MoveInv
    <2>7. BlamedInv' /\ SqueezeBounded'
      BY <2>2, <2>4 DEF BlamedInv, SqueezeBounded
    <2>8. EngagedInv' /\ ProbeInv'
      BY <2>1, <2>2 DEF EngagedInv, ProbeInv
    <2>9. cmd' = pos' => Abs(cmd' - pos') <= 1
      BY <2>1, StandStill
    <2> QED
      BY <2>2, <2>4, <2>5, <2>6, <2>7, <2>8, <2>9
  <1>9. ASSUME UNCHANGED effectorVars PROVE Goal
    <2>1. UNCHANGED <<config, pc, isReady, cmdState, pos, temp, tele, joint, initCount, reachedCnt,
                      budget, ramp, engaged, failed, lastFailed, drive, cmd, switched, origin>>
      BY <1>9 DEF effectorVars
    <2>2. GripTypes' /\ MoveTypes'
      BY <2>1 DEF GripTypes, MoveTypes
    <2>3. MoveInv' /\ BlamedInv' /\ EngagedInv' /\ SqueezeBounded' /\ ProbeInv'
      BY <2>1 DEF MoveInv, BlamedInv, EngagedInv, SqueezeBounded, ProbeInv
    <2> QED
      BY <2>1, <2>2, <2>3
  <1>10. EffectorNext =>
           \/ Starts \/ Told
           \/ StartMove \/ VerifyServos \/ StartFails \/ Request \/ StepFails
           \/ BeginMove \/ ContinueMove \/ RestoreMode \/ OperateStep
    BY Zenon DEF EffectorNext, Cycle
  <1> HIDE DEF Goal, GripInv, Starts, Told
  <1>11. Goal
    BY <1>10, <1>1, <1>2, <1>3, <1>4, <1>6, <1>7, <1>8, <1>9
  <1> QED
    BY <1>11 DEF Goal

(* The gripper starts in the invariant.                                       *)
LEMMA GripInit == EffectorInit => GripInv
  <1> SUFFICES ASSUME EffectorInit PROVE GripInv
    OBVIOUS
  <1> USE DEF EffectorInit
  <1>1. 0 \in Positions /\ ConfirmCount \in Nat /\ StuckThreshold \in Nat
    BY TravelAssumption, CountAssumption DEF Positions
  <1>2. GripTypes
    BY <1>1 DEF GripTypes, Orders
  <1>3. MoveTypes /\ MoveInv
    BY <1>1 DEF MoveTypes, MoveInv, JointAt
  <1>4. BlamedInv /\ EngagedInv /\ SqueezeBounded /\ ProbeInv
    BY DEF BlamedInv, EngagedInv, SqueezeBounded, ProbeInv
  <1> QED
    BY <1>2, <1>3, <1>4 DEF GripInv

(***************************************************************************)
(* For every gripper: the types hold, the probe of the start-up pulls by   *)
(* one step of the ready move at most, and a published position that is    *)
(* commanded back stays where it was or goes to the nearer end of the      *)
(* normalized travel.  For every gripper with a grip torque limit: no      *)
(* position command leaves the (derated) window around the measured        *)
(* position.                                                               *)
(***************************************************************************)
THEOREM TameGripper == EffectorSpec => []GripperIsTame
  <1>1. GripInv /\ [EffectorNext]_effectorVars => GripInv'
    BY GripStep
  <1>2. GripInv => GripperIsTame
    <2> SUFFICES ASSUME GripInv PROVE GripperIsTame
      OBVIOUS
    <2>1. EffectorTypeOK
      BY CountAssumption, OrdersAreSafe DEF GripInv, GripTypes, MoveTypes, EffectorTypeOK
    <2>2. RoundTrip
      BY Conversions DEF GripInv, GripTypes, RoundTrip
    <2> QED
      BY <2>1, <2>2 DEF GripInv, GripperIsTame
  <1> QED
    BY <1>1, <1>2, GripInit, PTL DEF EffectorSpec

(***************************************************************************)
(* Where a ready move leaves the gripper.  The target of a move in progress *)
(* is the ready position or lies strictly between it and the gripper, so    *)
(* the last command cannot pull the gripper out of the tolerance again.     *)
(***************************************************************************)
Between(c, p, q) == (p <= c /\ c <= q) \/ (q <= c /\ c <= p)
Leads(q, p) == \/ q = ReadyPosition
               \/ p < q /\ q < ReadyPosition
               \/ ReadyPosition < q /\ q < p

LeadInv ==
    pc = "run" /\ cmdState = "MOVING" /\ ~failed =>
        /\ drive = "position"
        /\ Between(cmd, pos, joint.prev)
        /\ Leads(joint.prev, pos)
        /\ isReady /\ Outside(pos) => lastFailed

OriginInv ==
    /\ pc \in {"off", "start", "verify"} => cmdState = "IDLE" /\ origin = "startup"
    /\ pc = "run" /\ cmdState # "MOVING" /\ origin = "move" => isReady

(* A command inside the window lies between the gripper and the target.       *)
LEMMA ClampBetween ==
    ASSUME NEW q \in Positions, NEW at \in Positions,
           NEW t \in {"cool", "cautious", "critical"}
    PROVE  Between(GripClamp(q, at, t), at, q)
  <1> DEFINE w == WindowOf(t)
  <1>1. w \in Nat
    BY WindowTypes
  <1>2. GripClamp(q, at, t) = IF config.limited THEN Clip(Clip(q, at - w, at + w), 0, Travel)
                                                ELSE Clip(q, 0, Travel)
    BY DEF GripClamp
  <1> HIDE DEF w
  <1>3. Between(Clip(Clip(q, at - w, at + w), 0, Travel), at, q)
    BY <1>1, TravelAssumption DEF Positions, Clip, Between
  <1>4. Between(Clip(q, 0, Travel), at, q)
    BY TravelAssumption DEF Positions, Clip, Between
  <1> QED
    BY <1>2, <1>3, <1>4

(* The target leads the gripper from one iteration to the next.               *)
LEMMA TargetLeads ==
    ASSUME config \in Configurations, NEW at \in Positions, NEW j, j.prev \in Positions,
           \/ j.prev = at
           \/ j.prev = ReadyPosition
           \/ at <= j.prev /\ j.prev < ReadyPosition
           \/ ReadyPosition < j.prev /\ j.prev <= at
    PROVE  Leads(NextTarget(j, at), at)
  <1> DEFINE R == ReadyPosition
             q == j.prev
             overtaken == Abs(R - at) > Margin /\ (R - at) * (R - q) < 0
             base == IF overtaken THEN at ELSE q
  <1>1. R \in Int /\ q \in Int /\ at \in Int /\ Step \in Nat \ {0}
    BY ReadyTypes, TravelAssumption, StepAssumption DEF Positions
  <1>2. NextTarget(j, at) = Clip(R, base - Step, base + Step)
    BY DEF NextTarget
  <1> HIDE DEF R, q
  <1>3. ASSUME q = R \/ q = at PROVE Leads(NextTarget(j, at), at)
    <2>1. base = q
      <3>1. CASE q = R
        BY <1>1, <3>1
      <3>2. CASE q = at
        BY <3>2
      <3> QED
        BY <1>3, <3>1, <3>2
    <2> HIDE DEF base
    <2> QED
      BY <1>1, <1>2, <1>3, <2>1 DEF Clip, Leads, R
  <1>4. ASSUME at <= q, q < R PROVE Leads(NextTarget(j, at), at)
    <2>1. R - at > 0 /\ R - q > 0
      BY <1>1, <1>4
    <2>2. (R - at) * (R - q) >= 0
      BY <1>1, <2>1
    <2>3. base = q
      BY <1>1, <2>2
    <2> HIDE DEF base
    <2> QED
      BY <1>1, <1>2, <1>4, <2>3 DEF Clip, Leads, R
  <1>5. ASSUME R < q, q <= at PROVE Leads(NextTarget(j, at), at)
    <2>1. R - at < 0 /\ R - q < 0
      BY <1>1, <1>5
    <2>2. (R - at) * (R - q) >= 0
      BY <1>1, <2>1
    <2>3. base = q
      BY <1>1, <2>2
    <2> HIDE DEF base
    <2> QED
      BY <1>1, <1>2, <1>5, <2>3 DEF Clip, Leads, R
  <1> QED
    BY <1>1, <1>3, <1>4, <1>5 DEF R, q

(* An iteration of a move that is in progress, or the first one.              *)
LEMMA IterateLeads ==
    ASSUME GripTypes, MoveTypes, ~failed, NEW first \in BOOLEAN,
           NEW at \in Positions, NEW t \in Temperatures, Iterate(first, at, t),
           \/ first
           \/ /\ drive = "position" /\ Between(cmd, pos, joint.prev)
              /\ Leads(joint.prev, pos) /\ at \in Reachable
    PROVE  /\ drive' = "position"
           /\ Between(cmd', at, joint'.prev)
           /\ Leads(joint'.prev, at)
           /\ isReady' /\ Outside(at) => lastFailed'
  <1> DEFINE JointType == [prev : Positions, still : 0 .. StuckThreshold + 1,
                           latched : BOOLEAN]
             fresh == IF first THEN JointAt(at) ELSE joint
             j == CheckStuck(fresh, IF first THEN at ELSE pos, at)
  <1>1. fresh \in JointType /\ fresh.prev = (IF first THEN at ELSE joint.prev)
    <2>1. JointAt(at) \in JointType /\ JointAt(at).prev = at
      BY CountAssumption DEF JointAt
    <2> QED
      BY <2>1 DEF MoveTypes
  <1>2. j \in JointType /\ j.prev = fresh.prev
    BY <1>1, StuckTypes DEF GripTypes
  <1>3. /\ joint' = [j EXCEPT !.prev = NextTarget(j, at)]
        /\ SendPosition(GripClamp(joint'.prev, at, t))
        /\ lastFailed' = Blame(isReady', at)
    BY DEF Iterate
  <1> HIDE DEF fresh, j
  <1>4. \/ j.prev = at
        \/ j.prev = ReadyPosition
        \/ at <= j.prev /\ j.prev < ReadyPosition
        \/ ReadyPosition < j.prev /\ j.prev <= at
    <2>1. CASE first
      BY <1>1, <1>2, <2>1
    <2>2. CASE ~first
      <3>1. j.prev = joint.prev
        BY <1>1, <1>2, <2>2
      <3>2. at \in pos .. cmd \/ at \in cmd .. pos \/ Abs(at - pos) <= 1
        BY <2>2 DEF Reachable
      <3>3. at \in Int /\ pos \in Int /\ cmd \in Int /\ joint.prev \in Int
            /\ ReadyPosition \in Int
        BY ReadyTypes, TravelAssumption DEF GripTypes, MoveTypes, Positions
      <3> QED
        BY <2>2, <3>1, <3>2, <3>3 DEF Between, Leads, Abs
    <2> QED
      BY <2>1, <2>2
  <1>5. NextTarget(j, at) \in Positions /\ Leads(NextTarget(j, at), at)
    BY <1>2, <1>4, TargetTypes, TargetLeads DEF GripTypes
  <1>6. joint'.prev = NextTarget(j, at)
    BY <1>2, <1>3
  <1>7. Between(GripClamp(joint'.prev, at, t), at, joint'.prev)
    BY <1>5, <1>6, ClampBetween, ConfigurationAssumption
  <1> QED
    BY <1>3, <1>5, <1>6, <1>7 DEF SendPosition, Blame

(* The last command of a ready move moves the gripper by at most one unit     *)
(* away from the ready position.                                              *)
LEMMA MoveEndsNear ==
    ASSUME GripTypes, MoveTypes, drive = "position", Between(cmd, pos, joint.prev),
           Leads(joint.prev, pos), ~Outside(pos), NEW at \in Reachable
    PROVE  Abs(at - ReadyPosition) <= Margin + Hysteresis + 1
  <1>1. at \in Positions /\ (at \in pos .. cmd \/ at \in cmd .. pos \/ Abs(at - pos) <= 1)
    BY DEF Reachable
  <1>2. at \in Int /\ pos \in Int /\ cmd \in Int /\ joint.prev \in Int
        /\ ReadyPosition \in Int
    BY <1>1, ReadyTypes, TravelAssumption DEF GripTypes, MoveTypes, Positions
  <1>3. Margin \in Nat /\ Hysteresis \in Nat
    BY ToleranceAssumption
  <1>4. Abs(ReadyPosition - pos) <= Margin + Hysteresis
    BY <1>2, <1>3 DEF Outside, Abs
  <1> QED
    BY <1>1, <1>2, <1>3, <1>4 DEF Between, Leads, Abs

(* Every step keeps what is known of a move and of the buffered target.       *)
LEMMA LeadStep ==
    ASSUME GripTypes, MoveTypes, BlamedInv, LeadInv, OriginInv, MoveForgetsCommand,
           [EffectorNext]_effectorVars
    PROVE  LeadInv' /\ OriginInv' /\ MoveForgetsCommand'
  <1> DEFINE Goal == LeadInv' /\ OriginInv' /\ MoveForgetsCommand'
             Starts == \E lost \in BOOLEAN : Start(lost)
             Told == \E n \in {NaN} \cup (-1 .. Levels + 1) : ApplyAction(n)
  <1>1. ASSUME Starts \/ StartMove PROVE Goal
    <2>1. pc \in {"off", "start"} /\ pc' \in {"start", "verify"}
          /\ UNCHANGED <<cmdState, origin>>
      BY <1>1 DEF Start, StartMove
    <2> QED
      BY <2>1 DEF LeadInv, OriginInv, MoveForgetsCommand
  <1>2. ASSUME VerifyServos \/ StartFails PROVE Goal
    <2>1. pc \in {"off", "start", "verify"} /\ pc' \in {"run", "ended"}
          /\ UNCHANGED <<cmdState, origin>>
      BY <1>2 DEF VerifyServos, StartFails
    <2> QED
      BY <2>1 DEF LeadInv, OriginInv, MoveForgetsCommand
  <1>3. ASSUME Request \/ Told PROVE Goal
    <2>1. pc = "run" /\ pc' = pc /\ isReady' = isReady /\ cmdState = "IDLE"
          /\ \/ cmdState' = "REQUESTED" /\ origin' = origin
             \/ cmdState' = "IDLE" /\ origin' = "told"
      BY <1>3 DEF Request, ApplyAction
    <2> QED
      BY <2>1 DEF LeadInv, OriginInv, MoveForgetsCommand
  <1>4. ASSUME StepFails PROVE Goal
    <2>1. pc' = "ended" /\ lastFailed' = TRUE
      BY <1>4 DEF StepFails
    <2> QED
      BY <2>1 DEF LeadInv, OriginInv, MoveForgetsCommand
  <1>5. Reachable \subseteq Positions
    BY DEF Reachable
  <1>6. ASSUME BeginMove PROVE Goal
    <2>1. pos' \in Positions /\ temp' \in Temperatures /\ cmdState' = "MOVING"
          /\ UNCHANGED <<config, pc, failed, origin>> /\ pc = "run"
      BY <1>5, <1>6 DEF BeginMove, Measure
    <2>2. OriginInv' /\ MoveForgetsCommand'
      BY <2>1 DEF OriginInv, MoveForgetsCommand
    <2>3. Iterate(TRUE, pos', temp')
      BY <1>6 DEF BeginMove
    <2>4. ~failed => /\ drive' = "position"
                     /\ Between(cmd', pos', joint'.prev)
                     /\ Leads(joint'.prev, pos')
                     /\ isReady' /\ Outside(pos') => lastFailed'
      BY <2>1, <2>3, IterateLeads
    <2>5. ReadyPosition' = ReadyPosition
      BY <2>1 DEF ReadyPosition, FromNormalized, RangeMin, EffectiveMax
    <2>6. LeadInv'
      BY <2>1, <2>4, <2>5 DEF LeadInv, Between, Leads, Outside
    <2> QED
      BY <2>2, <2>6
  <1>7. ASSUME ContinueMove PROVE Goal
    <2>1. pos' \in Reachable /\ pos' \in Positions /\ temp' \in Temperatures /\ ~isReady
          /\ UNCHANGED <<config, pc, cmdState, failed, origin>> /\ pc = "run"
          /\ cmdState # "REQUESTED"
      BY <1>5, <1>7 DEF ContinueMove, Measure
    <2>2. cmdState = "MOVING" \/ origin # "move"
      BY <2>1 DEF OriginInv
    <2>3. OriginInv' /\ MoveForgetsCommand'
      BY <2>1, <2>2 DEF OriginInv, MoveForgetsCommand
    <2>4. Iterate(initCount < 1, pos', temp') /\ (initCount < 1) \in BOOLEAN
      BY <1>7 DEF ContinueMove
    <2>5. ~failed /\ cmdState = "MOVING" =>
             /\ drive' = "position"
             /\ Between(cmd', pos', joint'.prev)
             /\ Leads(joint'.prev, pos')
             /\ isReady' /\ Outside(pos') => lastFailed'
      BY <2>1, <2>4, IterateLeads DEF LeadInv
    <2>6. ReadyPosition' = ReadyPosition
      BY <2>1 DEF ReadyPosition, FromNormalized, RangeMin, EffectiveMax
    <2>7. LeadInv'
      BY <2>1, <2>5, <2>6 DEF LeadInv, Between, Leads, Outside
    <2> QED
      BY <2>3, <2>7
  <1>8. ASSUME RestoreMode PROVE Goal
    <2>1. pos' \in Reachable /\ pos' \in Positions /\ isReady /\ cmdState = "MOVING"
          /\ cmdState' = "IDLE" /\ tele' = pos' /\ origin' = "move"
          /\ UNCHANGED <<config, pc, isReady, failed, lastFailed>> /\ pc = "run"
      BY <1>5, <1>8 DEF RestoreMode, Measure, ClearBuffers
    <2>2. LeadInv' /\ OriginInv'
      BY <2>1 DEF LeadInv, OriginInv
    <2>3. ReadyPosition' = ReadyPosition
      BY <2>1 DEF ReadyPosition, FromNormalized, RangeMin, EffectiveMax
    <2>4. ~lastFailed => Abs(pos' - ReadyPosition) <= Margin + Hysteresis + 1
      <3>1. SUFFICES ASSUME ~lastFailed
                     PROVE  Abs(pos' - ReadyPosition) <= Margin + Hysteresis + 1
        OBVIOUS
      <3>2. ~failed
        BY <3>1 DEF BlamedInv
      <3> QED
        BY <2>1, <3>1, <3>2, MoveEndsNear DEF LeadInv
    <2>5. MoveForgetsCommand'
      BY <2>1, <2>3, <2>4 DEF MoveForgetsCommand
    <2> QED
      BY <2>2, <2>5
  <1>9. ASSUME OperateStep PROVE Goal
    <2>1. cmdState = "IDLE" /\ pc = "run"
          /\ UNCHANGED <<config, pc, isReady, cmdState, tele, lastFailed, origin>>
      BY <1>9 DEF OperateStep
    <2>2. ReadyPosition' = ReadyPosition
      BY <2>1 DEF ReadyPosition, FromNormalized, RangeMin, EffectiveMax
    <2>3. MoveForgetsCommand'
      BY <2>1, <2>2 DEF MoveForgetsCommand
    <2> QED
      BY <2>1, <2>3 DEF LeadInv, OriginInv
  <1>10. ASSUME UNCHANGED effectorVars PROVE Goal
    <2>1. UNCHANGED <<config, pc, isReady, cmdState, pos, tele, joint, failed, lastFailed, drive,
                      cmd, origin>>
      BY <1>10 DEF effectorVars, moveVars
    <2>2. ReadyPosition' = ReadyPosition
      BY <2>1 DEF ReadyPosition, FromNormalized, RangeMin, EffectiveMax
    <2>3. MoveForgetsCommand' /\ OriginInv'
      BY <2>1, <2>2 DEF MoveForgetsCommand, OriginInv
    <2>4. LeadInv'
      BY <2>1, <2>2 DEF LeadInv, Between, Leads, Outside
    <2> QED
      BY <2>3, <2>4
  <1>11. EffectorNext =>
           \/ Starts \/ Told
           \/ StartMove \/ VerifyServos \/ StartFails \/ Request \/ StepFails
           \/ BeginMove \/ ContinueMove \/ RestoreMode \/ OperateStep
    BY Zenon DEF EffectorNext, Cycle
  <1> HIDE DEF Goal, Starts, Told
  <1>12. Goal
    BY <1>1, <1>2, <1>3, <1>4, <1>6, <1>7, <1>8, <1>9, <1>10, <1>11
  <1> QED
    BY <1>12 DEF Goal

(***************************************************************************)
(* For every gripper, a ready move is clean: it becomes ready short of the *)
(* ready position only with the servo named, forgets the command that was  *)
(* buffered before it, starts the torque at the gripper, and no torque-off *)
(* follows a torque-on in the same cycle.  (That it ends is left to TLC.)  *)
(***************************************************************************)
THEOREM CleanReadyMoves ==
    EffectorSpec => /\ HonestReady /\ RampRestarts
                    /\ [](MoveForgetsCommand /\ TorqueOffIsAlone)
  <1> DEFINE Inv == GripInv /\ LeadInv /\ OriginInv /\ MoveForgetsCommand
  <1>1. EffectorInit => Inv
    <2>1. EffectorInit => LeadInv /\ OriginInv /\ MoveForgetsCommand
      BY DEF EffectorInit, LeadInv, OriginInv, MoveForgetsCommand
    <2> QED
      BY <2>1, GripInit
  <1>2. Inv /\ [EffectorNext]_effectorVars => Inv'
    BY GripStep, LeadStep DEF GripInv
  <1>3. Inv => MoveForgetsCommand /\ TorqueOffIsAlone
    BY OrdersAreSafe DEF GripInv, GripTypes
  <1>4. Inv /\ [EffectorNext]_effectorVars
        => /\ [~isReady /\ isReady' /\ ~config.skipHoming /\ Outside(pos')
                 => lastFailed']_effectorVars
           /\ [cmdState = "MOVING" /\ cmdState' = "IDLE" /\ drive' = "torque"
                 => Abs(cmd' - pos') <= 1]_effectorVars
    BY GripStep
  <1> HIDE DEF Inv
  <1> QED
    BY <1>1, <1>2, <1>3, <1>4, PTL DEF EffectorSpec, HonestReady, RampRestarts

-----------------------------------------------------------------------------
(***************************************************************************)
(* The servos of the line.  The inductive invariant follows a script       *)
(* register by register: what has been written to the servo at cur, and    *)
(* what the servos that the last start or switch has completed keep until  *)
(* the next one.                                                           *)
(***************************************************************************)
ServoType ==
    [torque : BOOLEAN, goal : ServoPositions, pos : ServoPositions, positionMode : BOOLEAN,
     locked : BOOLEAN, recent : BOOLEAN, plugged : BOOLEAN]

Places == {"read", "move", "operate", "write", "servo"}

LineTypes ==
    /\ role \in Roles /\ firmware \in Firmwares
    /\ place \in Places
    /\ why \in {"startup", "command", "recovery"}
    /\ servo \in [Servos -> ServoType]
    /\ cached \in [Servos -> ServoPositions]
    /\ pending \in Goals
    /\ dead \subseteq Servos /\ polled \subseteq Servos
    /\ parked \subseteq Servos /\ settled \subseteq Servos
    /\ faults \in 0 .. MaxFaults

(* What is going on: a start, a switch to position mode or to leader, the     *)
(* cycles of an arm that holds its servos and those of a limp one.            *)
Switching == phase = "override" \/ (phase = "normal" /\ role # "leader")
Building == phase = "start" \/ Switching
Yielding == phase = "normal" /\ role = "leader"
Holding == phase \in {"hold", "home", "restore", "leave"} \/ (phase = "run" /\ role # "leader")
Limp == phase = "run" /\ role = "leader"

OpTypes ==
    /\ phase \in Phases
    /\ cur \in 1 .. NumServos + 1
    /\ step \in Nat \ {0}
    /\ tries \in 1 .. Attempts
    /\ rc \in {"SUCCESS", "FAIL"}
    /\ present \in ServoPositions
    /\ phase = "start" => step <= 11
    /\ Switching => step <= 7
    /\ Yielding \/ phase = "park" => step <= 2
    /\ phase \notin Scripted => step = 1

(* Position mode is for good.                                                 *)
ModeInv ==
    phase \notin {"open", "start", "park", "closed"} =>
        \A s \in Servos : servo[s].positionMode

(* A start and a switch to position mode: 3 is the mode register, 4 its lock. *)
BuildInv ==
    /\ phase \in Scripted => \A s \in settled : s < cur
    /\ phase = "start" => \A s \in Servos : s < cur => servo[s].positionMode
    /\ phase = "start" /\ cur \in Servos =>
         /\ step = 3 => ~servo[cur].locked
         /\ step = 4 /\ rc = "SUCCESS" => servo[cur].positionMode
         /\ step >= 5 => servo[cur].positionMode
         /\ step \in {5, 8, 9, 10, 11} => servo[cur].locked
         /\ step = 10 => present = servo[cur].pos
         /\ step = 11 => servo[cur].goal = servo[cur].pos
    /\ Switching /\ cur \in Servos =>
         /\ step >= 5 => servo[cur].locked
         /\ step = 6 => present = servo[cur].pos
         /\ step = 7 => servo[cur].goal = servo[cur].pos

SettledInv ==
    /\ Building \/ Holding => \A s \in settled : servo[s].torque /\ servo[s].locked
    /\ Yielding \/ Limp => \A s \in settled : ~servo[s].torque /\ s \notin DOMAIN pending
    /\ Yielding /\ step = 2 => cur \notin DOMAIN pending
    /\ phase = "recover" /\ role # "leader" => \A s \in settled : servo[s].locked
    /\ phase = "recover" => place \in {"read", "move"}

FeetechInv == LineTypes /\ OpTypes /\ ModeInv /\ BuildInv /\ SettledInv

(* The scripts, register by register.                                         *)
LEMMA StartScript ==
    ASSUME phase = "start"
    PROVE  /\ Len(Script) = 11
           /\ Script[1] = "off" /\ Script[2] = "unlock" /\ Script[3] = "mode"
           /\ Script[4] = "lock" /\ Script[5] = "unlock" /\ Script[6] = "gains"
           /\ Script[7] = "lock" /\ Script[8] = "accel" /\ Script[9] = "getpos"
           /\ Script[10] = "goal" /\ Script[11] = "on"
  <1>1. Script = <<"off", "unlock", "mode", "lock", "unlock", "gains", "lock",
                   "accel", "getpos", "goal", "on">>
    BY Zenon DEF Script
  <1> QED
    BY <1>1

(* The switch to position mode.                                               *)
LEMMA SwitchScript ==
    ASSUME Switching, role \in Roles
    PROVE  /\ Len(Script) = 7
           /\ Script[1] = "off" /\ Script[2] = "unlock" /\ Script[3] = "mode"
           /\ Script[4] = "lock" /\ Script[5] = "getpos" /\ Script[6] = "goal"
           /\ Script[7] = "on"
  <1>1. role = "leader" \/ role = "follower"
    BY RolesAssumption
  <1>2. CASE phase = "override"
    <2>1. Script = <<"off", "unlock", "mode", "lock", "getpos", "goal", "on">>
      BY <1>2, Zenon DEF Script, ToPosition
    <2> QED
      BY <2>1
  <1>3. CASE phase = "normal" /\ role = "follower"
    <2>1. Script = <<"off", "unlock", "mode", "lock", "getpos", "goal", "on">>
      BY <1>3, Zenon DEF Script, ToPosition
    <2> QED
      BY <2>1
  <1> QED
    BY <1>1, <1>2, <1>3 DEF Switching

(* The switch to leader and the parking.                                      *)
LEMMA ShortScripts ==
    /\ Yielding => Len(Script) = 2 /\ Script[1] = "off" /\ Script[2] = "get"
    /\ phase = "park" => Len(Script) = 2 /\ Script[1] = "goalCached" /\ Script[2] = "off"
  <1>1. ASSUME Yielding PROVE Script = <<"off", "get">>
    BY <1>1, Zenon DEF Script, Yielding
  <1>2. ASSUME phase = "park" PROVE Script = <<"goalCached", "off">>
    BY <1>2, Zenon DEF Script
  <1> QED
    BY <1>1, <1>2

(* What a register write does to a servo.                                     *)
Written(s, register, v) ==
    /\ v \in ServoType /\ v.pos = servo[s].pos /\ v.plugged = servo[s].plugged
    /\ servo[s].positionMode => v.positionMode
    /\ register = "mode" /\ ~servo[s].locked => v.positionMode
    /\ register = "unlock" => ~v.locked
    /\ register = "lock" => v.locked
    /\ register \notin {"lock", "unlock"} => v.locked = servo[s].locked
    /\ register = "on" => v.torque
    /\ register # "off" => (servo[s].torque => v.torque)
    /\ register \notin {"on", "goal", "goalCached"} => (v.torque => servo[s].torque)
    /\ register = "goal" => v.goal = present
    /\ register \notin {"goal", "goalCached"} => v.goal = servo[s].goal

(* A goal write moves the goal and never lowers torque.                       *)
LEMMA GoalWritten ==
    ASSUME NEW v \in ServoType, NEW p \in ServoPositions, firmware \in Firmwares
    PROVE  /\ WriteGoal(v, p) \in ServoType
           /\ WriteGoal(v, p).goal = p /\ WriteGoal(v, p).pos = v.pos
           /\ WriteGoal(v, p).plugged = v.plugged /\ WriteGoal(v, p).locked = v.locked
           /\ WriteGoal(v, p).positionMode = v.positionMode
           /\ v.torque => WriteGoal(v, p).torque
  BY DEF WriteGoal, ServoType

(* Every register write the firmware may carry out is one of these.           *)
LEMMA EffectsWritten ==
    ASSUME LineTypes, present \in ServoPositions, NEW s \in Servos, NEW register,
           NEW v \in Effects(s, register)
    PROVE  Written(s, register, v)
  <1>1. servo[s] \in ServoType /\ cached[s] \in ServoPositions
    BY DEF LineTypes
  <1>2. CASE register = "on"
    <2>1. v = [servo[s] EXCEPT !.torque = TRUE, !.recent = (firmware = "hx")]
      BY <1>2 DEF Effects
    <2> QED
      BY <1>1, <1>2, <2>1 DEF Written, ServoType
  <1>3. CASE register = "off"
    <2>1. v = [servo[s] EXCEPT !.torque = FALSE] \/ v = servo[s]
      BY <1>3 DEF Effects
    <2> QED
      BY <1>1, <1>3, <2>1 DEF Written, ServoType
  <1>4. CASE register = "unlock"
    <2>1. v = [servo[s] EXCEPT !.locked = FALSE]
      BY <1>4 DEF Effects
    <2> QED
      BY <1>1, <1>4, <2>1 DEF Written, ServoType
  <1>5. CASE register = "lock"
    <2>1. v = [servo[s] EXCEPT !.locked = TRUE]
      BY <1>5 DEF Effects
    <2> QED
      BY <1>1, <1>5, <2>1 DEF Written, ServoType
  <1>6. CASE register = "mode"
    <2>1. v = [servo[s] EXCEPT !.positionMode = (@ \/ ~servo[s].locked)]
      BY <1>6 DEF Effects
    <2> QED
      BY <1>1, <1>6, <2>1 DEF Written, ServoType
  <1>7. CASE register = "goal"
    <2>1. v = WriteGoal(servo[s], present)
      BY <1>7 DEF Effects
    <2> QED
      BY <1>1, <1>7, <2>1, GoalWritten DEF Written, LineTypes
  <1>8. CASE register = "goalCached"
    <2>1. v = WriteGoal(servo[s], cached[s])
      BY <1>8 DEF Effects
    <2> QED
      BY <1>1, <1>8, <2>1, GoalWritten DEF Written, LineTypes
  <1>9. CASE register \notin {"on", "off", "unlock", "lock", "mode", "goal", "goalCached"}
    <2>1. v = servo[s]
      BY <1>9 DEF Effects
    <2> QED
      BY <1>1, <1>9, <2>1 DEF Written
  <1> QED
    BY <1>2, <1>3, <1>4, <1>5, <1>6, <1>7, <1>8, <1>9

(* A transaction writes the register of one servo, or leaves it as it was     *)
(* when no answer came.                                                       *)
LEMMA Transaction ==
    ASSUME LineTypes, present \in ServoPositions, NEW s \in Servos, NEW register,
           Answered(s, register) \/ NoAnswer(s, register)
    PROVE  /\ servo' \in [Servos -> ServoType]
           /\ \A k \in Servos : k # s => servo'[k] = servo[k]
           /\ \A k \in Servos : /\ servo[k].positionMode => servo'[k].positionMode
                                /\ servo'[k].plugged = servo[k].plugged
           /\ servo'[s] = servo[s] \/ Written(s, register, servo'[s])
           /\ Answered(s, register) => Written(s, register, servo'[s])
           /\ faults' \in 0 .. MaxFaults
  <1>1. servo[s] \in ServoType /\ servo \in [Servos -> ServoType] /\ faults \in 0 .. MaxFaults
    BY DEF LineTypes
  <1>2. ASSUME NEW v \in Effects(s, register), servo' = [servo EXCEPT ![s] = v]
        PROVE  /\ servo' \in [Servos -> ServoType]
               /\ \A k \in Servos : k # s => servo'[k] = servo[k]
               /\ Written(s, register, servo'[s])
    <2>1. Written(s, register, v) /\ v \in ServoType
      BY <1>2, EffectsWritten DEF Written
    <2> QED
      BY <1>1, <1>2, <2>1
  <1>3. CASE Answered(s, register)
    <2>1. /\ servo' \in [Servos -> ServoType]
          /\ \A k \in Servos : k # s => servo'[k] = servo[k]
          /\ Written(s, register, servo'[s]) /\ faults' \in 0 .. MaxFaults
      BY <1>1, <1>2, <1>3 DEF Answered
    <2>2. \A k \in Servos : /\ servo[k].positionMode => servo'[k].positionMode
                            /\ servo'[k].plugged = servo[k].plugged
      BY <2>1 DEF Written
    <2> QED
      BY <2>1, <2>2
  <1>4. CASE NoAnswer(s, register) /\ ~Answered(s, register)
    <2>1. CASE UNCHANGED <<servo, faults>>
      BY <1>1, <1>4, <2>1
    <2>2. CASE servo[s].plugged /\ Strikes("lost")
               /\ \E v \in Effects(s, register) \cup {servo[s]} : servo' = [servo EXCEPT ![s] = v]
      <3>1. faults' \in 0 .. MaxFaults
        BY <1>1, <2>2, AttemptsAssumption DEF Strikes
      <3>2. PICK v \in Effects(s, register) \cup {servo[s]} : servo' = [servo EXCEPT ![s] = v]
        BY <2>2
      <3>3. CASE v \in Effects(s, register)
        <4>1. /\ servo' \in [Servos -> ServoType]
              /\ \A k \in Servos : k # s => servo'[k] = servo[k]
              /\ Written(s, register, servo'[s])
          BY <1>2, <3>2, <3>3
        <4>2. \A k \in Servos : /\ servo[k].positionMode => servo'[k].positionMode
                                /\ servo'[k].plugged = servo[k].plugged
          BY <4>1 DEF Written
        <4> QED
          BY <1>4, <3>1, <4>1, <4>2
      <3>4. CASE v = servo[s]
        BY <1>1, <1>4, <3>1, <3>2, <3>4
      <3> QED
        BY <3>2, <3>3, <3>4
    <2> QED
      BY <1>4, <2>1, <2>2 DEF NoAnswer
  <1> QED
    BY <1>3, <1>4

(* Which step of which script accesses a register.                            *)
LEMMA StepOfRegister ==
    ASSUME OpTypes, role \in Roles, NEW register, InScript(register)
    PROVE  /\ cur \in Servos /\ phase \in Scripted /\ place = "servo"
           /\ phase = "start" \/ Switching \/ Yielding \/ phase = "park"
           /\ phase = "start" /\ register = "off" => step = 1
           /\ phase = "start" /\ register = "unlock" => step \in {2, 5}
           /\ phase = "start" /\ register = "mode" => step = 3
           /\ phase = "start" /\ register = "lock" => step \in {4, 7}
           /\ phase = "start" /\ register = "gains" => step = 6
           /\ phase = "start" /\ register = "accel" => step = 8
           /\ phase = "start" /\ register = "getpos" => step = 9
           /\ phase = "start" /\ register = "goal" => step = 10
           /\ phase = "start" /\ register = "on" => step = 11
           /\ phase = "start" => register \notin {"get", "goalCached"} /\ Len(Script) = 11
           /\ Switching /\ register = "off" => step = 1
           /\ Switching /\ register = "unlock" => step = 2
           /\ Switching /\ register = "mode" => step = 3
           /\ Switching /\ register = "lock" => step = 4
           /\ Switching /\ register = "getpos" => step = 5
           /\ Switching /\ register = "goal" => step = 6
           /\ Switching /\ register = "on" => step = 7
           /\ Switching => /\ register \notin {"get", "goalCached", "gains", "accel"}
                           /\ Len(Script) = 7
           /\ Yielding => /\ \/ register = "off" /\ step = 1
                             \/ register = "get" /\ step = 2
                          /\ Len(Script) = 2
           /\ phase = "park" => /\ \/ register = "goalCached" /\ step = 1
                                   \/ register = "off" /\ step = 2
                                /\ Len(Script) = 2
  <1>1. /\ phase \in Scripted /\ place = "servo" /\ cur \in Servos /\ Script[step] = register
        /\ step \in Nat \ {0}
    BY NumServosAssumption DEF InScript, OpTypes, Servos, Register
  <1>2. CASE phase = "start"
    <2>1. step \in 1 .. 11
      BY <1>1, <1>2 DEF OpTypes
    <2> QED
      BY <1>1, <1>2, <2>1, StartScript DEF Switching, Yielding
  <1>3. CASE Switching
    <2>1. step \in 1 .. 7 /\ phase \notin {"start", "park"} /\ ~Yielding
      BY <1>1, <1>3 DEF OpTypes, Switching, Yielding
    <2> QED
      BY <1>1, <1>3, <2>1, SwitchScript
  <1>4. CASE Yielding
    <2>1. step \in 1 .. 2 /\ phase \notin {"start", "park"} /\ ~Switching
      BY <1>1, <1>4 DEF OpTypes, Switching, Yielding
    <2>2. Len(Script) = 2 /\ Script[1] = "off" /\ Script[2] = "get"
      BY <1>4, ShortScripts
    <2> QED
      BY <1>1, <1>4, <2>1, <2>2
  <1>5. CASE phase = "park"
    <2>1. step \in 1 .. 2 /\ ~Switching /\ ~Yielding
      BY <1>1, <1>5 DEF OpTypes, Switching, Yielding
    <2>2. Len(Script) = 2 /\ Script[1] = "goalCached" /\ Script[2] = "off"
      BY <1>5, ShortScripts
    <2> QED
      BY <1>1, <1>5, <2>1, <2>2
  <1> QED
    BY <1>1, <1>2, <1>3, <1>4, <1>5 DEF Scripted, Switching, Yielding

(* An operation begins afresh: nothing is owed yet.                           *)
LEMMA Afresh ==
    ASSUME FeetechInv, role' = role, NEW next \in Scripted, Begin(next),
           next \in {"override", "normal"} => \A s \in Servos : servo'[s].positionMode
    PROVE  /\ OpTypes' /\ ModeInv' /\ BuildInv' /\ SettledInv'
           /\ place' = "servo" /\ settled' = {} /\ phase' = next
  <1>1. /\ phase' = next /\ place' = "servo" /\ settled' = {} /\ cur' = 1 /\ step' = 1
        /\ tries' = 1 /\ rc' = "SUCCESS" /\ present' = Ready
    BY DEF Begin, AtFirst
  <1>2. OpTypes'
    BY <1>1, NumServosAssumption, AttemptsAssumption
       DEF OpTypes, Phases, Ready, ServoPositions
  <1>3. ModeInv'
    BY <1>1 DEF ModeInv, Scripted
  <1>4. BuildInv'
    BY <1>1, NumServosAssumption DEF BuildInv, Servos
  <1>5. SettledInv'
    BY <1>1 DEF SettledInv, Scripted
  <1> QED
    BY <1>1, <1>2, <1>3, <1>4, <1>5

(* A place in a cycle.                                                        *)
LEMMA InCycle ==
    ASSUME FeetechInv, NEW next \in Cyclic \cup {"closed"}, NEW at, BusCycle(next, at)
    PROVE  /\ OpTypes' /\ BuildInv'
           /\ place' = at /\ settled' = settled /\ phase' = next
  <1>1. /\ phase' = next /\ place' = at /\ settled' = settled /\ cur' = 1 /\ step' = 1
        /\ tries' = 1 /\ rc' = "SUCCESS" /\ present' = Ready
    BY DEF BusCycle, AtFirst
  <1>2. OpTypes'
    BY <1>1, NumServosAssumption, AttemptsAssumption
       DEF OpTypes, Phases, Ready, ServoPositions, Cyclic
  <1>3. BuildInv'
    BY <1>1 DEF BuildInv, Scripted, Cyclic, Switching
  <1> QED
    BY <1>1, <1>2, <1>3

(* The next servo of an operation, with the one at cur completed or not.      *)
LEMMA NextServoKeeps ==
    ASSUME FeetechInv, role' = role, cur \in Servos, NEW done \in SUBSET {cur}, NextServo(done)
    PROVE  /\ OpTypes' /\ cur' = cur + 1 /\ step' = 1 /\ phase' = phase /\ place' = place
           /\ why' = why /\ settled' = settled \cup done
           /\ phase \in Scripted => \A s \in settled' : s < cur'
  <1>1. /\ phase' = phase /\ place' = place /\ settled' = settled \cup done /\ cur' = cur + 1
        /\ step' = 1 /\ tries' = 1 /\ rc' = "SUCCESS" /\ present' = Ready /\ why' = why
    BY DEF NextServo
  <1>2. OpTypes'
    BY <1>1, NumServosAssumption, AttemptsAssumption
       DEF FeetechInv, OpTypes, Ready, ServoPositions, Servos, Switching, Yielding
  <1>3. ASSUME phase \in Scripted PROVE \A s \in settled' : s < cur'
    <2>1. \A s \in settled : s < cur /\ s \in Int
      BY <1>3 DEF FeetechInv, BuildInv, LineTypes, Servos
    <2>2. cur \in Int
      BY DEF Servos
    <2>3. \A s \in settled : s < cur + 1
      BY <2>1, <2>2
    <2>4. cur < cur + 1 /\ \A s \in done : s = cur
      BY <2>2
    <2> QED
      BY <1>1, <2>3, <2>4, Zenon
  <1> QED
    BY <1>1, <1>2, <1>3

(* A mode switch has returned: the servos it completed are as it left them.   *)
LEMMA AfterSwitchKeeps ==
    ASSUME FeetechInv, role' = role, phase \in {"override", "normal"}, AfterSwitch,
           \A s \in Servos : servo[s].positionMode => servo'[s].positionMode,
           \A s \in settled : servo'[s] = servo[s],
           DOMAIN pending' \subseteq DOMAIN pending
    PROVE  /\ OpTypes' /\ ModeInv' /\ BuildInv' /\ SettledInv'
           /\ place' \in Places /\ settled' = settled
           /\ why' \in {why, "startup"}
  <1>1. \/ phase = "override" /\ BusCycle("home", "move") /\ why' = why
        \/ phase = "normal" /\ BusCycle("run", "operate") /\ why' = "startup"
        \/ phase = "normal" /\ BusCycle("run", "write") /\ why' = why
    <2> DEFINE A == BusCycle("home", "move") /\ UNCHANGED why
               B == BusCycle("run", "operate") /\ why' = "startup"
               C == BusCycle("run", "write") /\ UNCHANGED why
    <2>1. (CASE phase = "override" -> A
             [] phase = "normal" /\ why = "command" -> B
             [] OTHER -> C)
      BY DEF AfterSwitch
    <2> HIDE DEF A, B, C
    <2>2. (phase = "override" /\ A) \/ (phase = "normal" /\ B) \/ (phase = "normal" /\ C)
      <3>1. CASE phase = "override"
        BY <2>1, <3>1
      <3>2. CASE phase = "normal"
        BY <2>1, <3>2
      <3> QED
        BY <3>1, <3>2
    <2> QED
      BY <2>2 DEF A, B, C
  <1>2. PICK next \in {"home", "run"}, at \in {"move", "operate", "write"} :
           /\ BusCycle(next, at) /\ why' \in {why, "startup"}
           /\ next = "home" => phase = "override"
           /\ next = "run" => phase = "normal"
    BY <1>1
  <1>3. /\ OpTypes' /\ BuildInv'
        /\ place' = at /\ settled' = settled /\ phase' = next
    BY <1>2, InCycle DEF Cyclic
  <1>4. \A s \in Servos : servo'[s].positionMode
    BY DEF FeetechInv, ModeInv
  <1>5. ModeInv'
    BY <1>4 DEF ModeInv
  <1>6. SettledInv'
    <2>1. \A s \in settled' : servo'[s] = servo[s]
      BY <1>3
    <2>2. CASE next = "home"
      BY <1>2, <1>3, <2>1, <2>2
         DEF FeetechInv, SettledInv, Building, Holding, Switching, Yielding, Limp
    <2>3. CASE next = "run"
      BY <1>2, <1>3, <2>1, <2>3
         DEF FeetechInv, SettledInv, Building, Holding, Switching, Yielding, Limp
    <2> QED
      BY <2>2, <2>3
  <1> QED
    BY <1>2, <1>3, <1>5, <1>6 DEF Places

(* A failure inside an operation.                                             *)
LEMMA FailedOperation ==
    ASSUME FeetechInv, role' = role, phase \in Scripted, place = "servo", cur \in Servos,
           OperationFails,
           \A s \in Servos : servo[s].positionMode => servo'[s].positionMode,
           \A s \in Servos : s # cur => servo'[s] = servo[s],
           DOMAIN pending' \subseteq DOMAIN pending
    PROVE  /\ OpTypes' /\ ModeInv' /\ BuildInv' /\ SettledInv'
           /\ place' \in Places /\ settled' \subseteq Servos
           /\ why' \in {why, "startup"}
  <1>1. \A s \in settled : s \in Servos /\ s # cur
    BY DEF FeetechInv, BuildInv, LineTypes, Servos
  <1>2. CASE phase = "start"
    <2>1. Begin("park") /\ why' = why
      BY <1>2 DEF OperationFails
    <2> QED
      BY <2>1, Afresh DEF Scripted, Places
  <1>3. CASE phase = "park"
    <2>1. NextServo({})
      BY <1>3 DEF OperationFails
    <2>2. /\ OpTypes' /\ cur' = cur + 1 /\ step' = 1 /\ phase' = phase /\ place' = place
          /\ why' = why /\ settled' = settled \cup {}
          /\ \A s \in settled' : s < cur'
      BY <2>1, NextServoKeeps
    <2>3. ModeInv' /\ BuildInv' /\ SettledInv'
      BY <1>3, <2>2 DEF ModeInv, BuildInv, SettledInv, Switching, Building, Holding, Yielding,
                        Limp
    <2> QED
      BY <2>2, <2>3 DEF FeetechInv, LineTypes
  <1>4. CASE phase \notin {"start", "park"}
    <2>1. AfterSwitch
      BY <1>4 DEF OperationFails
    <2>2. phase \in {"override", "normal"}
      BY <1>4 DEF Scripted
    <2>3. /\ OpTypes' /\ ModeInv' /\ BuildInv' /\ SettledInv'
          /\ place' \in Places /\ settled' = settled
          /\ why' \in {why, "startup"}
      BY <1>1, <2>1, <2>2, AfterSwitchKeeps
    <2> QED
      BY <2>3 DEF FeetechInv, LineTypes
  <1> QED
    BY <1>2, <1>3, <1>4

(* A register write never lets a servo jump, and while it may fail it leaves  *)
(* every other servo alone.                                                   *)
LEMMA NoJumpInScripts ==
    ASSUME FeetechInv, NEW register, InScript(register),
           Answered(cur, register) \/ NoAnswer(cur, register)
    PROVE  NoJump
  <1>0. role \in Roles /\ present \in ServoPositions
    BY DEF FeetechInv, LineTypes, OpTypes
  <1>1. /\ cur \in Servos /\ place = "servo"
        /\ \A k \in Servos : k # cur => servo'[k] = servo[k]
        /\ servo'[cur] = servo[cur] \/ Written(cur, register, servo'[cur])
    BY <1>0, StepOfRegister, Transaction DEF FeetechInv
  <1>2. SUFFICES ASSUME phase # "park", ~servo[cur].torque, servo'[cur].torque
                 PROVE  servo'[cur].goal = servo'[cur].pos
    BY <1>1 DEF NoJump
  <1>3. Written(cur, register, servo'[cur])
    BY <1>1, <1>2
  <1>4. register \in {"on", "goal", "goalCached"}
    BY <1>2, <1>3 DEF Written
  <1>5. CASE register = "on"
    <2>1. (phase = "start" /\ step = 11) \/ (Switching /\ step = 7)
      BY <1>0, <1>2, <1>5, StepOfRegister DEF FeetechInv
    <2> QED
      BY <1>1, <1>3, <1>5, <2>1 DEF FeetechInv, BuildInv, Written
  <1>6. CASE register = "goal"
    <2>1. (phase = "start" /\ step = 10) \/ (Switching /\ step = 6)
      BY <1>0, <1>2, <1>6, StepOfRegister DEF FeetechInv
    <2> QED
      BY <1>1, <1>3, <1>6, <2>1 DEF FeetechInv, BuildInv, Written
  <1>7. CASE register = "goalCached"
    BY <1>0, <1>2, <1>7, StepOfRegister DEF FeetechInv
  <1> QED
    BY <1>4, <1>5, <1>6, <1>7

(* The registers whose failure ends the operation.                            *)
LEMMA AccessKeeps ==
    ASSUME FeetechInv, NEW register, Access(register),
           register \in {"off", "on", "unlock", "accel", "goal", "goalCached"}
    PROVE  FeetechInv' /\ NoJump
  <1>0. role \in Roles /\ present \in ServoPositions /\ LineTypes /\ OpTypes
    BY DEF FeetechInv, LineTypes, OpTypes
  <1>1. /\ InScript(register)
        /\ Answered(cur, register) \/ NoAnswer(cur, register)
        /\ role' = role /\ firmware' = firmware /\ cached' = cached /\ dead' = dead
        /\ polled' = polled
        /\ pending' = IF Yielding THEN Discard(cur) ELSE pending
        /\ \/ Answered(cur, register) /\ Advance
           \/ OperationFails
        /\ parked' = parked \/ parked' = parked \cup {cur}
    BY DEF Access, Yielding
  <1>2. /\ cur \in Servos /\ phase \in Scripted /\ place = "servo"
        /\ servo' \in [Servos -> ServoType]
        /\ \A k \in Servos : k # cur => servo'[k] = servo[k]
        /\ \A k \in Servos : servo[k].positionMode => servo'[k].positionMode
        /\ servo'[cur] = servo[cur] \/ Written(cur, register, servo'[cur])
        /\ Answered(cur, register) => Written(cur, register, servo'[cur])
        /\ faults' \in 0 .. MaxFaults
    BY <1>0, <1>1, StepOfRegister, Transaction
  <1>3. pending' \in Goals /\ (~Yielding => pending' = pending)
        /\ (Yielding => DOMAIN pending' = DOMAIN pending \ {cur})
        /\ DOMAIN pending' \subseteq DOMAIN pending
    BY <1>0, <1>1 DEF LineTypes, Goals, Discard
  <1>4. place' \in Places /\ why' \in {why, "startup"} /\ settled' \subseteq Servos
        => LineTypes'
    BY <1>0, <1>1, <1>2, <1>3 DEF LineTypes
  <1>5. \A s \in settled : s \in Servos /\ s # cur /\ servo'[s] = servo[s]
    BY <1>0, <1>2 DEF FeetechInv, BuildInv, LineTypes, Servos
  <1>6. NoJump
    BY <1>1, NoJumpInScripts
  <1>7. CASE OperationFails
    <2>1. /\ OpTypes' /\ ModeInv' /\ BuildInv' /\ SettledInv'
          /\ place' \in Places /\ settled' \subseteq Servos
          /\ why' \in {why, "startup"}
      BY <1>1, <1>2, <1>3, <1>7, FailedOperation
    <2> QED
      BY <1>4, <1>6, <2>1 DEF FeetechInv
  <1>8. CASE Answered(cur, register) /\ Advance
    <2>1. Written(cur, register, servo'[cur])
      BY <1>2, <1>8
    <2>2. \/ step = Len(Script) /\ NextServo(IF phase = "park" THEN {} ELSE {cur})
          \/ /\ step # Len(Script) /\ step' = step + 1
             /\ phase' = phase /\ place' = place /\ why' = why /\ cur' = cur /\ tries' = tries
             /\ rc' = rc /\ present' = present /\ settled' = settled
      BY <1>8 DEF Advance
    <2>3. /\ phase' = phase /\ place' = place /\ why' = why /\ OpTypes'
          /\ \/ /\ step = Len(Script) /\ cur' = cur + 1 /\ step' = 1
                /\ settled' = settled \cup (IF phase = "park" THEN {} ELSE {cur})
                /\ \A s \in settled' : s < cur'
             \/ /\ step # Len(Script) /\ cur' = cur /\ step' = step + 1 /\ present' = present
                /\ settled' = settled /\ rc' = rc
      <3>1. CASE step = Len(Script) /\ NextServo(IF phase = "park" THEN {} ELSE {cur})
        <4> DEFINE done == IF phase = "park" THEN {} ELSE {cur}
        <4>1. done \in SUBSET {cur} /\ NextServo(done)
          BY <3>1
        <4> HIDE DEF done
        <4>2. /\ OpTypes' /\ cur' = cur + 1 /\ step' = 1 /\ phase' = phase /\ place' = place
              /\ why' = why /\ settled' = settled \cup done
              /\ \A s \in settled' : s < cur'
          BY <1>1, <1>2, <4>1, NextServoKeeps
        <4> QED
          BY <3>1, <4>2 DEF done
      <3>2. CASE /\ step # Len(Script) /\ step' = step + 1
                 /\ phase' = phase /\ place' = place /\ why' = why /\ cur' = cur
                 /\ tries' = tries /\ rc' = rc /\ present' = present /\ settled' = settled
        <4>0. /\ phase = "start" => Len(Script) = 11
              /\ Switching => Len(Script) = 7
              /\ Yielding \/ phase = "park" => Len(Script) = 2
          BY <1>0, <1>1, StepOfRegister
        <4> DEFINE len == Len(Script)
        <4> HIDE DEF len
        <4>1. /\ phase = "start" => step < 11
              /\ Switching => step < 7
              /\ Yielding \/ phase = "park" => step < 2
              /\ phase \in Scripted
          <5>1. step # len /\ step \in Nat
            BY <1>0, <3>2 DEF OpTypes, len
          <5>2. /\ phase = "start" => len = 11
                /\ Switching => len = 7
                /\ Yielding \/ phase = "park" => len = 2
            BY <4>0 DEF len
          <5>3. /\ phase = "start" => step <= 11
                /\ Switching => step <= 7
                /\ Yielding \/ phase = "park" => step <= 2
            BY <1>0 DEF OpTypes
          <5> QED
            BY <1>2, <5>1, <5>2, <5>3
        <4>2. OpTypes'
          BY <1>0, <1>1, <3>2, <4>1 DEF OpTypes, Switching, Yielding
        <4> QED
          BY <3>2, <4>2
      <3> QED
        BY <2>2, <3>1, <3>2
    <2>4. LineTypes'
      BY <1>0, <1>2, <1>4, <2>3 DEF LineTypes
    <2>5. ModeInv'
      BY <1>2, <2>3 DEF FeetechInv, ModeInv
    <2>6. phase = "start" \/ Switching \/ Yielding \/ phase = "park"
      BY <1>0, <1>1, StepOfRegister
    <2>7. /\ (Switching' = Switching) /\ (Yielding' = Yielding) /\ (Building' = Building)
          /\ ~Holding' /\ ~Limp'
      BY <1>1, <1>2, <2>3 DEF Switching, Yielding, Building, Holding, Limp, Scripted
    <2>8. CASE phase = "start"
      <3>1. /\ Len(Script) = 11
            /\ \/ register = "off" /\ step = 1
               \/ register = "unlock" /\ step \in {2, 5}
               \/ register = "accel" /\ step = 8
               \/ register = "goal" /\ step = 10
               \/ register = "on" /\ step = 11
        BY <1>0, <1>1, <2>8, StepOfRegister
      <3>2. ~Switching /\ ~Yielding /\ Building
        BY <2>8 DEF Switching, Yielding, Building
      <3>3. BuildInv'
        BY <1>0, <1>2, <2>1, <2>3, <2>7, <2>8, <3>1, <3>2, NumServosAssumption
           DEF FeetechInv, BuildInv, Servos, Written, OpTypes
      <3>4. SettledInv'
        <4>1. step = 11 => servo[cur].locked /\ servo'[cur].torque /\ servo'[cur].locked
          BY <1>2, <2>1, <2>8, <3>1 DEF FeetechInv, BuildInv, Written
        <4> QED
          BY <1>5, <2>3, <2>7, <2>8, <3>1, <3>2, <4>1 DEF FeetechInv, SettledInv
      <3> QED
        BY <1>6, <2>3, <2>4, <2>5, <3>3, <3>4 DEF FeetechInv
    <2>9. CASE Switching
      <3>1. /\ Len(Script) = 7
            /\ \/ register = "off" /\ step = 1
               \/ register = "unlock" /\ step = 2
               \/ register = "goal" /\ step = 6
               \/ register = "on" /\ step = 7
        BY <1>0, <1>1, <2>9, StepOfRegister
      <3>2. phase \notin {"start", "park", "recover"} /\ ~Yielding /\ Building
        BY <2>9 DEF Switching, Yielding, Building
      <3>3. BuildInv'
        BY <1>0, <1>2, <2>1, <2>3, <2>7, <2>9, <3>1, <3>2, NumServosAssumption
           DEF FeetechInv, BuildInv, Servos, Written, OpTypes
      <3>4. SettledInv'
        <4>1. step = 7 => servo[cur].locked /\ servo'[cur].torque /\ servo'[cur].locked
          BY <1>2, <2>1, <2>9, <3>1 DEF FeetechInv, BuildInv, Written
        <4> QED
          BY <1>5, <2>3, <2>7, <2>9, <3>1, <3>2, <4>1 DEF FeetechInv, SettledInv
      <3> QED
        BY <1>6, <2>3, <2>4, <2>5, <3>3, <3>4 DEF FeetechInv
    <2>10. CASE Yielding
      <3>1. Len(Script) = 2 /\ register = "off" /\ step = 1
        BY <1>0, <1>1, <2>10, StepOfRegister
      <3>2. phase \notin {"start", "park", "recover"} /\ ~Switching /\ ~Building
        BY <2>10 DEF Switching, Yielding, Building
      <3>3. BuildInv'
        BY <2>3, <2>7, <2>10, <3>1, <3>2 DEF FeetechInv, BuildInv
      <3>4. SettledInv'
        BY <1>3, <1>5, <2>3, <2>7, <2>10, <3>1, <3>2 DEF FeetechInv, SettledInv
      <3> QED
        BY <1>6, <2>3, <2>4, <2>5, <3>3, <3>4 DEF FeetechInv
    <2>11. CASE phase = "park"
      <3>1. ~Switching /\ ~Building /\ ~Yielding
        BY <2>11 DEF Switching, Yielding, Building
      <3>2. BuildInv'
        BY <2>3, <2>7, <2>11, <3>1 DEF FeetechInv, BuildInv
      <3>3. SettledInv'
        BY <2>3, <2>7, <2>11, <3>1 DEF SettledInv
      <3> QED
        BY <1>6, <2>3, <2>4, <2>5, <3>2, <3>3 DEF FeetechInv
    <2> QED
      BY <2>6, <2>8, <2>9, <2>10, <2>11
  <1> QED
    BY <1>1, <1>7, <1>8

(* The EEPROM write: whatever it returned, the lock comes next.               *)
LEMMA WriteEepromKeeps ==
    ASSUME FeetechInv, WriteEeprom
    PROVE  FeetechInv' /\ NoJump
  <1>0. role \in Roles /\ present \in ServoPositions /\ LineTypes /\ OpTypes
    BY DEF FeetechInv, LineTypes, OpTypes
  <1>1. PICK register \in {"mode", "gains"} :
           /\ InScript(register)
           /\ \/ Answered(cur, register) /\ rc' = "SUCCESS"
              \/ NoAnswer(cur, register) /\ rc' = "FAIL"
    BY DEF WriteEeprom, InScript
  <1>2. /\ cur \in Servos /\ (phase = "start" \/ Switching) /\ phase \in Scripted
        /\ register = "mode" => step = 3
        /\ register = "gains" => step = 6 /\ phase = "start"
    BY <1>0, <1>1, StepOfRegister
  <1>3. /\ servo' \in [Servos -> ServoType]
        /\ \A k \in Servos : k # cur => servo'[k] = servo[k]
        /\ \A k \in Servos : servo[k].positionMode => servo'[k].positionMode
        /\ servo'[cur] = servo[cur] \/ Written(cur, register, servo'[cur])
        /\ Answered(cur, register) => Written(cur, register, servo'[cur])
        /\ faults' \in 0 .. MaxFaults
    BY <1>0, <1>1, <1>2, Transaction
  <1>4. /\ role' = role /\ firmware' = firmware /\ cached' = cached /\ dead' = dead
        /\ polled' = polled /\ why' = why /\ pending' = pending /\ parked' = parked
        /\ phase' = phase /\ place' = place /\ cur' = cur /\ step' = step + 1
        /\ tries' = tries /\ present' = present /\ settled' = settled
    BY DEF WriteEeprom, lineVars
  <1>5. LineTypes'
    BY <1>0, <1>3, <1>4 DEF LineTypes
  <1>6. OpTypes'
    BY <1>0, <1>1, <1>2, <1>4 DEF OpTypes, Scripted, Switching, Yielding
  <1>7. ModeInv'
    BY <1>3, <1>4 DEF FeetechInv, ModeInv
  <1>8. BuildInv'
    <2>1. /\ servo[cur].positionMode => servo'[cur].positionMode
          /\ rc' = "SUCCESS" => Written(cur, register, servo'[cur])
      BY <1>1, <1>2, <1>3
    <2>2. CASE phase = "start"
      <3>1. CASE register = "mode"
        <4>1. rc' = "SUCCESS" => servo'[cur].positionMode
          BY <1>2, <2>1, <2>2, <3>1 DEF FeetechInv, BuildInv, Written
        <4> QED
          BY <1>0, <1>2, <1>3, <1>4, <2>2, <3>1, <4>1
             DEF FeetechInv, BuildInv, Servos, OpTypes, Switching
      <3>2. CASE register = "gains"
        BY <1>0, <1>2, <1>3, <1>4, <2>1, <2>2, <3>2
           DEF FeetechInv, BuildInv, Servos, OpTypes, Switching
      <3> QED
        BY <1>1, <3>1, <3>2
    <2>3. CASE Switching
      <3>1. step = 3 /\ phase # "start"
        BY <1>0, <1>1, <1>2, <2>3, StepOfRegister DEF Switching
      <3> QED
        BY <1>4, <3>1 DEF FeetechInv, BuildInv, Switching
    <2> QED
      BY <1>2, <2>2, <2>3
  <1>9. SettledInv'
    <2>1. \A s \in settled : s \in Servos /\ s # cur /\ servo'[s] = servo[s]
      BY <1>0, <1>2, <1>3 DEF FeetechInv, BuildInv, LineTypes, Servos
    <2> QED
      BY <1>2, <1>4, <2>1
         DEF FeetechInv, SettledInv, Building, Switching, Yielding, Holding, Limp, Scripted
  <1>10. NoJump
    BY <1>1, NoJumpInScripts
  <1> QED
    BY <1>5, <1>6, <1>7, <1>8, <1>9, <1>10 DEF FeetechInv

(* The lock: the operation goes on only if the write before it succeeded.     *)
LEMMA LockEepromKeeps ==
    ASSUME FeetechInv, LockEeprom
    PROVE  FeetechInv' /\ NoJump
  <1>0. role \in Roles /\ present \in ServoPositions /\ LineTypes /\ OpTypes
    BY DEF FeetechInv, LineTypes, OpTypes
  <1>1. /\ InScript("lock")
        /\ Answered(cur, "lock") \/ NoAnswer(cur, "lock")
        /\ \/ Answered(cur, "lock") /\ rc = "SUCCESS" /\ Advance
           \/ OperationFails
    BY DEF LockEeprom
  <1>2. /\ cur \in Servos /\ (phase = "start" \/ Switching) /\ phase \in Scripted
        /\ place = "servo"
        /\ step = 4 \/ (step = 7 /\ phase = "start")
        /\ phase = "start" => Len(Script) = 11
        /\ Switching => Len(Script) = 7 /\ step = 4
    BY <1>0, <1>1, StepOfRegister
  <1>3. /\ servo' \in [Servos -> ServoType]
        /\ \A k \in Servos : k # cur => servo'[k] = servo[k]
        /\ \A k \in Servos : servo[k].positionMode => servo'[k].positionMode
        /\ Answered(cur, "lock") => Written(cur, "lock", servo'[cur])
        /\ faults' \in 0 .. MaxFaults
    BY <1>0, <1>1, <1>2, Transaction
  <1>4. /\ role' = role /\ firmware' = firmware /\ cached' = cached /\ dead' = dead
        /\ polled' = polled /\ pending' = pending /\ parked' = parked
    BY DEF LockEeprom, lineVars
  <1>5. place' \in Places /\ why' \in {why, "startup"} /\ settled' \subseteq Servos
        => LineTypes'
    BY <1>0, <1>3, <1>4 DEF LineTypes
  <1>6. NoJump
    BY <1>1, NoJumpInScripts
  <1>7. CASE OperationFails
    <2>1. /\ OpTypes' /\ ModeInv' /\ BuildInv' /\ SettledInv'
          /\ place' \in Places /\ settled' \subseteq Servos
          /\ why' \in {why, "startup"}
      BY <1>2, <1>3, <1>4, <1>7, FailedOperation
    <2> QED
      BY <1>5, <1>6, <2>1 DEF FeetechInv
  <1>8. CASE Answered(cur, "lock") /\ rc = "SUCCESS" /\ Advance
    <2>1. Written(cur, "lock", servo'[cur])
      BY <1>3, <1>8
    <2>2. /\ phase' = phase /\ place' = place /\ why' = why /\ settled' = settled
          /\ present' = present /\ cur' = cur /\ step' = step + 1 /\ tries' = tries /\ rc' = rc
      <3>1. step # Len(Script)
        <4>1. CASE phase = "start"
          BY <1>2, <4>1
        <4>2. CASE Switching
          BY <1>2, <4>2
        <4> QED
          BY <1>2, <4>1, <4>2
      <3> QED
        BY <1>8, <3>1 DEF Advance
    <2>3. OpTypes'
      BY <1>0, <1>2, <1>4, <2>2 DEF OpTypes, Scripted, Switching, Yielding
    <2>4. LineTypes'
      BY <1>0, <1>5, <2>2 DEF LineTypes
    <2>5. ModeInv'
      BY <1>3, <2>2 DEF FeetechInv, ModeInv
    <2>6. BuildInv'
      <3>1. CASE phase = "start"
        BY <1>0, <1>2, <1>3, <1>4, <1>8, <2>1, <2>2, <3>1
           DEF FeetechInv, BuildInv, Servos, Written, OpTypes, Switching
      <3>2. CASE Switching
        BY <1>2, <1>4, <2>1, <2>2, <3>2
           DEF FeetechInv, BuildInv, Written, Switching
      <3> QED
        BY <1>2, <3>1, <3>2
    <2>7. SettledInv'
      <3>1. \A s \in settled : s \in Servos /\ s # cur /\ servo'[s] = servo[s]
        BY <1>0, <1>2, <1>3 DEF FeetechInv, BuildInv, LineTypes, Servos
      <3> QED
        BY <1>2, <1>4, <2>2, <3>1
           DEF FeetechInv, SettledInv, Building, Switching, Yielding, Holding, Limp, Scripted
    <2> QED
      BY <1>6, <2>3, <2>4, <2>5, <2>6, <2>7 DEF FeetechInv
  <1> QED
    BY <1>1, <1>7, <1>8

(* The position is read for the goal that follows.                            *)
LEMMA ReadPositionKeeps ==
    ASSUME FeetechInv, ReadPosition
    PROVE  FeetechInv' /\ NoJump
  <1>0. role \in Roles /\ present \in ServoPositions /\ LineTypes /\ OpTypes
    BY DEF FeetechInv, LineTypes, OpTypes
  <1>1. /\ InScript("getpos")
        /\ Answered(cur, "getpos") \/ NoAnswer(cur, "getpos")
        /\ \/ /\ Answered(cur, "getpos") /\ present' = servo[cur].pos /\ step' = step + 1
              /\ phase' = phase /\ place' = place /\ why' = why /\ cur' = cur
              /\ tries' = tries /\ rc' = rc /\ settled' = settled
           \/ OperationFails
    BY DEF ReadPosition
  <1>2. /\ cur \in Servos /\ phase \in Scripted /\ place = "servo"
        /\ (phase = "start" /\ step = 9) \/ (Switching /\ step = 5)
    BY <1>0, <1>1, StepOfRegister
  <1>3. /\ servo' \in [Servos -> ServoType]
        /\ \A k \in Servos : k # cur => servo'[k] = servo[k]
        /\ \A k \in Servos : servo[k].positionMode => servo'[k].positionMode
        /\ Answered(cur, "getpos") => Written(cur, "getpos", servo'[cur])
        /\ faults' \in 0 .. MaxFaults
    BY <1>0, <1>1, <1>2, Transaction
  <1>4. /\ role' = role /\ firmware' = firmware /\ cached' = cached /\ dead' = dead
        /\ polled' = polled /\ pending' = pending /\ parked' = parked
    BY DEF ReadPosition, lineVars
  <1>5. place' \in Places /\ why' \in {why, "startup"} /\ settled' \subseteq Servos
        => LineTypes'
    BY <1>0, <1>3, <1>4 DEF LineTypes
  <1>6. NoJump
    BY <1>1, NoJumpInScripts
  <1>7. CASE OperationFails
    <2>1. /\ OpTypes' /\ ModeInv' /\ BuildInv' /\ SettledInv'
          /\ place' \in Places /\ settled' \subseteq Servos
          /\ why' \in {why, "startup"}
      BY <1>2, <1>3, <1>4, <1>7, FailedOperation
    <2> QED
      BY <1>5, <1>6, <2>1 DEF FeetechInv
  <1>8. CASE /\ Answered(cur, "getpos") /\ present' = servo[cur].pos /\ step' = step + 1
             /\ phase' = phase /\ place' = place /\ why' = why /\ cur' = cur
             /\ tries' = tries /\ rc' = rc /\ settled' = settled
    <2>1. Written(cur, "getpos", servo'[cur]) /\ servo[cur].pos \in ServoPositions
      BY <1>0, <1>2, <1>3, <1>8 DEF LineTypes, ServoType
    <2>2. OpTypes'
      BY <1>0, <1>2, <1>4, <1>8, <2>1 DEF OpTypes, Scripted, Switching, Yielding
    <2>3. LineTypes'
      BY <1>0, <1>5, <1>8 DEF LineTypes
    <2>4. ModeInv'
      BY <1>3, <1>8 DEF FeetechInv, ModeInv
    <2>5. BuildInv'
      <3>1. CASE phase = "start"
        <4>1. step = 9 /\ ~Switching
          BY <1>2, <3>1 DEF Switching
        <4> QED
          BY <1>2, <1>3, <1>4, <1>8, <2>1, <3>1, <4>1
             DEF FeetechInv, BuildInv, Servos, Written, Switching
      <3>2. CASE Switching
        BY <1>2, <1>4, <1>8, <2>1, <3>2
           DEF FeetechInv, BuildInv, Written, Switching
      <3> QED
        BY <1>2, <3>1, <3>2
    <2>6. SettledInv'
      <3>1. \A s \in settled : s \in Servos /\ s # cur /\ servo'[s] = servo[s]
        BY <1>0, <1>2, <1>3 DEF FeetechInv, BuildInv, LineTypes, Servos
      <3> QED
        BY <1>2, <1>4, <1>8, <3>1
           DEF FeetechInv, SettledInv, Building, Switching, Yielding, Holding, Limp, Scripted
    <2> QED
      BY <1>6, <2>2, <2>3, <2>4, <2>5, <2>6 DEF FeetechInv
  <1> QED
    BY <1>1, <1>7, <1>8

(* The verified disable completes a servo only when torque reads off.         *)
LEMMA VerifyDisableKeeps ==
    ASSUME FeetechInv, VerifyDisable
    PROVE  FeetechInv' /\ NoJump
  <1>0. role \in Roles /\ present \in ServoPositions /\ LineTypes /\ OpTypes
    BY DEF FeetechInv, LineTypes, OpTypes
  <1>1. /\ cur \in Servos /\ Yielding /\ step = 2 /\ InScript("get")
        /\ phase \in Scripted /\ place = "servo"
    BY <1>0, StepOfRegister DEF VerifyDisable
  <1>2. /\ role' = role /\ firmware' = firmware /\ cached' = cached /\ dead' = dead
        /\ polled' = polled /\ pending' = pending /\ parked' = parked
    BY DEF VerifyDisable, lineVars
  <1>3. \A s \in settled : s \in Servos /\ s # cur
    BY <1>0, <1>1 DEF FeetechInv, BuildInv, LineTypes, Servos
  <1>4. CASE ~servo[cur].torque /\ NextServo({cur}) /\ UNCHANGED <<servo, faults>>
    <2>1. /\ OpTypes' /\ cur' = cur + 1 /\ step' = 1 /\ phase' = phase /\ place' = place
          /\ why' = why /\ settled' = settled \cup {cur}
          /\ \A s \in settled' : s < cur'
          /\ servo' = servo /\ faults' = faults
      BY <1>1, <1>2, <1>4, NextServoKeeps
    <2>2. LineTypes' /\ NoJump
      BY <1>0, <1>1, <1>2, <2>1 DEF LineTypes, NoJump
    <2>3. ModeInv'
      BY <2>1 DEF FeetechInv, ModeInv
    <2>4. BuildInv'
      BY <1>1, <1>2, <2>1 DEF FeetechInv, BuildInv, Yielding, Switching
    <2>5. SettledInv'
      BY <1>1, <1>2, <1>4, <2>1
         DEF FeetechInv, SettledInv, Yielding, Building, Switching, Holding, Limp
    <2> QED
      BY <2>1, <2>2, <2>3, <2>4, <2>5 DEF FeetechInv
  <1>5. CASE /\ tries < Attempts /\ step' = 1 /\ tries' = tries + 1 /\ Waited
             /\ UNCHANGED <<phase, place, why, cur, rc, present, settled, faults>>
    <2>1. PICK again \in BOOLEAN : servo' = [servo EXCEPT ![cur].recent = again]
      BY <1>0, <1>1, <1>5 DEF Waited, LineTypes, ServoType
    <2>2. servo \in [Servos -> ServoType] /\ servo[cur] \in ServoType
      BY <1>0, <1>1 DEF LineTypes
    <2>3. /\ servo' \in [Servos -> ServoType]
          /\ \A s \in Servos : /\ servo'[s].torque = servo[s].torque
                               /\ servo'[s].positionMode = servo[s].positionMode
                               /\ servo'[s].locked = servo[s].locked
      BY <1>1, <2>1, <2>2 DEF ServoType
    <2>4. LineTypes' /\ NoJump
      BY <1>0, <1>2, <1>5, <2>3 DEF LineTypes, NoJump
    <2>5. OpTypes'
      BY <1>0, <1>1, <1>2, <1>5, AttemptsAssumption DEF OpTypes, Scripted, Switching, Yielding
    <2>6. ModeInv'
      BY <1>5, <2>3 DEF FeetechInv, ModeInv
    <2>7. BuildInv'
      BY <1>1, <1>2, <1>5 DEF FeetechInv, BuildInv, Yielding, Switching
    <2>8. SettledInv'
      BY <1>1, <1>2, <1>3, <1>5, <2>3
         DEF FeetechInv, SettledInv, Yielding, Building, Switching, Holding, Limp
    <2> QED
      BY <2>4, <2>5, <2>6, <2>7, <2>8 DEF FeetechInv
  <1>6. ASSUME OperationFails, servo' \in [Servos -> ServoType], faults' \in 0 .. MaxFaults,
               \A k \in Servos : k # cur => servo'[k] = servo[k],
               \A k \in Servos : servo[k].positionMode => servo'[k].positionMode
        PROVE  FeetechInv'
    <2>1. /\ OpTypes' /\ ModeInv' /\ BuildInv' /\ SettledInv'
          /\ place' \in Places /\ settled' \subseteq Servos
          /\ why' \in {why, "startup"}
      BY <1>1, <1>2, <1>6, FailedOperation
    <2>2. LineTypes'
      BY <1>0, <1>2, <1>6, <2>1 DEF LineTypes
    <2> QED
      BY <2>1, <2>2 DEF FeetechInv
  <1>7. CASE OperationFails /\ UNCHANGED <<servo, faults>>
    <2>1. servo' = servo /\ servo \in [Servos -> ServoType] /\ faults' \in 0 .. MaxFaults
      BY <1>0, <1>7 DEF LineTypes
    <2>2. FeetechInv'
      BY <1>6, <1>7, <2>1
    <2> QED
      BY <2>1, <2>2 DEF NoJump
  <1>8. CASE OperationFails /\ NoAnswer(cur, "get")
    <2>1. /\ servo' \in [Servos -> ServoType] /\ faults' \in 0 .. MaxFaults
          /\ \A k \in Servos : k # cur => servo'[k] = servo[k]
          /\ \A k \in Servos : servo[k].positionMode => servo'[k].positionMode
      BY <1>0, <1>1, <1>8, Transaction
    <2>2. FeetechInv'
      BY <1>6, <1>8, <2>1
    <2>3. NoJump
      BY <1>1, <1>8, NoJumpInScripts
    <2> QED
      BY <2>2, <2>3
  <1> QED
    BY <1>4, <1>5, <1>7, <1>8 DEF VerifyDisable

(* A parked servo is passed over, and an operation ends with the last servo.  *)
LEMMA EndsKeep ==
    ASSUME FeetechInv, SkipParked \/ EndOperation
    PROVE  FeetechInv' /\ NoJump
  <1>0. role \in Roles /\ LineTypes /\ OpTypes
    BY DEF FeetechInv, LineTypes
  <1>1. /\ role' = role /\ firmware' = firmware /\ cached' = cached /\ dead' = dead
        /\ polled' = polled /\ pending' = pending /\ parked' = parked
        /\ servo' = servo /\ faults' = faults
    BY DEF SkipParked, EndOperation, lineVars
  <1>2. NoJump
    BY <1>1 DEF NoJump
  <1>3. place' \in Places /\ why' \in {why, "startup"} /\ settled' \subseteq Servos
        => LineTypes'
    BY <1>0, <1>1 DEF LineTypes
  <1>4. CASE SkipParked
    <2>1. phase = "park" /\ cur \in Servos /\ NextServo({})
      BY <1>0, <1>4 DEF SkipParked, LineTypes
    <2>2. /\ OpTypes' /\ cur' = cur + 1 /\ step' = 1 /\ phase' = phase /\ place' = place
          /\ why' = why /\ settled' = settled \cup {}
          /\ \A s \in settled' : s < cur'
      BY <1>1, <2>1, NextServoKeeps DEF Scripted
    <2>3. ModeInv' /\ BuildInv' /\ SettledInv'
      BY <2>1, <2>2 DEF ModeInv, BuildInv, SettledInv, Switching, Building, Holding, Yielding,
                        Limp
    <2>4. LineTypes'
      BY <1>0, <1>3, <2>2 DEF LineTypes
    <2> QED
      BY <1>2, <2>2, <2>3, <2>4 DEF FeetechInv
  <1>5. CASE EndOperation
    <2>1. phase \in Scripted /\ cur > NumServos
      BY <1>5 DEF EndOperation
    <2>2. \A s \in Servos : s < cur
      BY <1>0, <2>1, NumServosAssumption DEF Servos, OpTypes
    <2>3. CASE phase = "start"
      <3>1. BusCycle("hold", "read") /\ why' = why
        BY <1>5, <2>3 DEF EndOperation
      <3>2. /\ OpTypes' /\ BuildInv' /\ place' = "read" /\ settled' = settled
            /\ phase' = "hold"
        BY <3>1, InCycle DEF Cyclic
      <3>3. ModeInv'
        BY <1>1, <2>2, <2>3 DEF FeetechInv, ModeInv, BuildInv
      <3>4. SettledInv'
        BY <1>1, <2>3, <3>2
           DEF FeetechInv, SettledInv, Building, Switching, Holding, Yielding, Limp
      <3>5. LineTypes'
        BY <1>0, <1>3, <3>1, <3>2 DEF LineTypes, Places
      <3> QED
        BY <1>2, <3>2, <3>3, <3>4, <3>5 DEF FeetechInv
    <2>4. CASE phase = "park"
      <3>1. BusCycle("closed", "read") /\ why' = why
        BY <1>5, <2>4 DEF EndOperation
      <3>2. /\ OpTypes' /\ BuildInv' /\ place' = "read" /\ settled' = settled
            /\ phase' = "closed"
        BY <3>1, InCycle
      <3>3. ModeInv' /\ SettledInv'
        BY <3>2 DEF ModeInv, SettledInv, Building, Switching, Holding, Yielding, Limp
      <3>4. LineTypes'
        BY <1>0, <1>3, <3>1, <3>2 DEF LineTypes, Places
      <3> QED
        BY <1>2, <3>2, <3>3, <3>4 DEF FeetechInv
    <2>5. CASE phase \notin {"start", "park"}
      <3>1. AfterSwitch /\ phase \in {"override", "normal"}
        BY <1>5, <2>1, <2>5 DEF EndOperation, Scripted
      <3>2. /\ OpTypes' /\ ModeInv' /\ BuildInv' /\ SettledInv'
            /\ place' \in Places /\ settled' = settled
            /\ why' \in {why, "startup"}
        BY <1>1, <3>1, AfterSwitchKeeps
      <3>3. LineTypes'
        BY <1>0, <1>3, <3>2 DEF LineTypes
      <3> QED
        BY <1>2, <3>2, <3>3 DEF FeetechInv
    <2> QED
      BY <2>3, <2>4, <2>5
  <1> QED
    BY <1>4, <1>5

(* A cycle that leaves the phase and the operation alone.                     *)
LEMMA SamePhase ==
    ASSUME FeetechInv, phase \in Cyclic, role' = role, UNCHANGED <<phase, opVars, settled>>,
           \A s \in Servos : /\ servo[s].positionMode => servo'[s].positionMode
                             /\ servo'[s].locked = servo[s].locked
                             /\ servo[s].torque => servo'[s].torque
                             /\ Limp /\ s \in settled => servo'[s].torque = servo[s].torque,
           Limp => DOMAIN pending' \subseteq DOMAIN pending,
           phase = "recover" => place' \in {"read", "move"}
    PROVE  OpTypes' /\ ModeInv' /\ BuildInv' /\ SettledInv' /\ settled' = settled
  <1>1. /\ phase' = phase /\ cur' = cur /\ step' = step /\ tries' = tries /\ rc' = rc
        /\ present' = present /\ settled' = settled
    BY DEF opVars
  <1>2. settled \subseteq Servos
    BY DEF FeetechInv, LineTypes
  <1>3. ~Building /\ ~Yielding /\ ~Switching /\ phase \notin Scripted
    BY DEF Building, Yielding, Switching, Cyclic, Scripted
  <1>4. /\ (Building' = Building) /\ (Yielding' = Yielding) /\ (Switching' = Switching)
        /\ (Holding' = Holding) /\ (Limp' = Limp)
    BY <1>1 DEF Building, Yielding, Switching, Holding, Limp
  <1>5. OpTypes'
    BY <1>1, <1>4 DEF FeetechInv, OpTypes
  <1>6. ModeInv'
    BY <1>1 DEF FeetechInv, ModeInv
  <1>7. BuildInv'
    BY <1>1, <1>3, <1>4 DEF BuildInv, Scripted
  <1>8. SettledInv'
    BY <1>1, <1>2, <1>3, <1>4 DEF FeetechInv, SettledInv
  <1> QED
    BY <1>1, <1>5, <1>6, <1>7, <1>8

(* A failed step of the loop.                                                 *)
LEMMA StepErrsKeeps ==
    ASSUME FeetechInv, phase \in Cyclic, role' = role, StepErrs, servo' = servo,
           DOMAIN pending' \subseteq DOMAIN pending
    PROVE  /\ OpTypes' /\ ModeInv' /\ BuildInv' /\ SettledInv'
           /\ place' = "read" /\ settled' = settled /\ why' \in {why, "recovery"}
  <1>1. CASE Recovering
    <2>1. place' = "read" /\ UNCHANGED <<phase, opVars, why, settled>>
      BY <1>1 DEF StepErrs
    <2>2. UNCHANGED <<phase, opVars, settled>>
      BY <2>1
    <2>3. OpTypes' /\ ModeInv' /\ BuildInv' /\ SettledInv' /\ settled' = settled
      BY <2>1, <2>2, SamePhase
    <2> QED
      BY <2>1, <2>3
  <1>2. CASE ~Recovering
    <2>1. why' = "recovery" /\ BusCycle("recover", "read")
      BY <1>2 DEF StepErrs
    <2>2. /\ OpTypes' /\ BuildInv' /\ place' = "read" /\ settled' = settled
          /\ phase' = "recover"
      BY <2>1, InCycle DEF Cyclic
    <2>3. ModeInv'
      BY <2>2 DEF FeetechInv, ModeInv, Cyclic
    <2>4. SettledInv'
      BY <2>2 DEF FeetechInv, SettledInv, Building, Switching, Holding, Yielding, Limp, Cyclic
    <2> QED
      BY <2>1, <2>2, <2>3, <2>4
  <1> QED
    BY <1>1, <1>2

(* A bulk read leaves known positions and servos.                             *)
LEMMA BulkReadTypes ==
    ASSUME LineTypes, NEW heard, NEW deaf, BulkRead(heard, deaf)
    PROVE  /\ cached' \in [Servos -> ServoPositions] /\ dead' \subseteq Servos
           /\ polled' \subseteq Servos
  <1>1. \A s \in Servos : servo[s].pos \in ServoPositions
    BY DEF LineTypes, ServoType
  <1>2. Refresh(heard) \in [Servos -> ServoPositions]
    BY <1>1 DEF Refresh, LineTypes
  <1>3. Classify(deaf) \subseteq Servos /\ Polled(dead') \subseteq Servos
    BY DEF Classify, Polled
  <1> QED
    BY <1>2, <1>3 DEF BulkRead, LineTypes

(* The bulk read and what the arm does with it.                               *)
LEMMA GroupReadKeeps ==
    ASSUME FeetechInv, GroupRead
    PROVE  FeetechInv' /\ NoJump
  <1>0. LineTypes
    BY DEF FeetechInv
  <1>1. /\ phase \in Cyclic /\ place = "read" /\ role' = role /\ firmware' = firmware
        /\ servo' = servo /\ pending' = pending /\ parked' = parked
    BY DEF GroupRead
  <1>2. /\ cached' \in [Servos -> ServoPositions] /\ dead' \subseteq Servos
        /\ polled' \subseteq Servos /\ faults' \in 0 .. MaxFaults
        /\ \E ok \in BOOLEAN : AfterRead(ok)
    <2>1. \A fault : Strikes(fault) => faults' \in 0 .. MaxFaults
      BY <1>0, AttemptsAssumption DEF Strikes, LineTypes
    <2>2. \A heard : ReadSucceeds(heard) \in BOOLEAN
      BY DEF ReadSucceeds
    <2>3. ASSUME NEW quiet, NEW deaf, BulkRead(Responders(quiet), deaf),
                 AfterRead(ReadSucceeds(Responders(quiet)))
          PROVE  /\ cached' \in [Servos -> ServoPositions] /\ dead' \subseteq Servos
                 /\ polled' \subseteq Servos
                 /\ \E ok \in BOOLEAN : AfterRead(ok)
      BY <1>0, <2>2, <2>3, BulkReadTypes
    <2>4. CASE /\ BulkRead(Responders({}), {})
               /\ AfterRead(ReadSucceeds(Responders({}))) /\ faults' = faults
      BY <1>0, <2>3, <2>4 DEF LineTypes
    <2>5. CASE \E quiet, deaf \in SUBSET Servos :
                  /\ Strikes("lost") /\ BulkRead(Responders(quiet), deaf)
                  /\ AfterRead(ReadSucceeds(Responders(quiet)))
      BY <2>1, <2>3, <2>5
    <2>6. CASE Strikes("tx") /\ UNCHANGED <<cached, dead, polled>> /\ AfterRead(FALSE)
      BY <1>0, <2>1, <2>6 DEF LineTypes
    <2> QED
      BY <2>4, <2>5, <2>6 DEF GroupRead
  <1>3. NoJump
    BY <1>1 DEF NoJump
  <1>4. place' \in Places /\ why' \in {why, "recovery"} /\ settled' = settled => LineTypes'
    BY <1>0, <1>1, <1>2 DEF LineTypes
  <1>5. \/ place' = "move" /\ UNCHANGED <<phase, opVars, why, settled>>
        \/ StepErrs
    BY <1>2 DEF AfterRead
  <1>6. CASE place' = "move" /\ UNCHANGED <<phase, opVars, why, settled>>
    <2>1. place' = "move" /\ UNCHANGED <<phase, opVars, settled>> /\ why' = why
      BY <1>6
    <2>2. OpTypes' /\ ModeInv' /\ BuildInv' /\ SettledInv' /\ settled' = settled
      BY <1>1, <2>1, SamePhase
    <2>3. LineTypes'
      BY <1>4, <2>1, <2>2 DEF Places
    <2> QED
      BY <1>3, <2>2, <2>3 DEF FeetechInv
  <1>7. CASE StepErrs
    <2>1. /\ OpTypes' /\ ModeInv' /\ BuildInv' /\ SettledInv'
          /\ place' = "read" /\ settled' = settled /\ why' \in {why, "recovery"}
      BY <1>1, <1>7, StepErrsKeeps
    <2>2. LineTypes'
      BY <1>4, <2>1 DEF Places
    <2> QED
      BY <1>3, <2>1, <2>2 DEF FeetechInv
  <1> QED
    BY <1>5, <1>6, <1>7

(* The line is opened.                                                        *)
LEMMA OpenKeeps ==
    ASSUME FeetechInv, Open
    PROVE  FeetechInv' /\ NoJump
  <1>0. LineTypes
    BY DEF FeetechInv
  <1>1. /\ BulkRead(Responders({}), {})
        /\ Begin("start") \/ BusCycle("closed", "read")
    BY DEF Open
  <1>2. /\ role' = role /\ firmware' = firmware /\ servo' = servo /\ pending' = pending
        /\ parked' = parked /\ why' = why /\ faults' = faults
    BY DEF Open
  <1>3. /\ cached' \in [Servos -> ServoPositions] /\ dead' \subseteq Servos
        /\ polled' \subseteq Servos
    BY <1>0, <1>1, BulkReadTypes
  <1>4. NoJump
    BY <1>2 DEF NoJump
  <1>5. place' \in Places /\ settled' \subseteq Servos => LineTypes'
    BY <1>0, <1>2, <1>3 DEF LineTypes
  <1>6. CASE Begin("start")
    <2>1. /\ OpTypes' /\ ModeInv' /\ BuildInv' /\ SettledInv'
          /\ place' = "servo" /\ settled' = {}
      BY <1>2, <1>6, Afresh DEF Scripted
    <2> QED
      BY <1>4, <1>5, <2>1 DEF FeetechInv, Places
  <1>7. CASE BusCycle("closed", "read")
    <2>1. /\ OpTypes' /\ BuildInv' /\ place' = "read" /\ settled' = settled
          /\ phase' = "closed"
      BY <1>7, InCycle
    <2>2. ModeInv' /\ SettledInv'
      BY <2>1 DEF ModeInv, SettledInv, Building, Switching, Holding, Yielding, Limp
    <2>3. LineTypes'
      BY <1>0, <1>5, <2>1 DEF LineTypes, Places
    <2> QED
      BY <1>4, <2>1, <2>2, <2>3 DEF FeetechInv
  <1> QED
    BY <1>1, <1>6, <1>7

(* The goals of a cycle are queued for servos that exist.                     *)
LEMMA QueuedGoals ==
    ASSUME NEW target \in [Servos -> ServoPositions]
    PROVE  Queue(target) \in Goals
  <1>1. Alive \in SUBSET Servos /\ Queue(target) \in [Alive -> ServoPositions]
    BY DEF Queue, Alive
  <1> QED
    BY <1>1 DEF Goals

(* The cycle of start(), an iteration of a ready move and a cycle of a ready  *)
(* arm queue goals; a limp arm queues none.                                   *)
LEMMA QueueKeeps ==
    ASSUME FeetechInv, HoldStart \/ MoveToReady \/ OperateServos
    PROVE  FeetechInv' /\ NoJump
  <1>0. LineTypes
    BY DEF FeetechInv
  <1>1. /\ phase \in {"hold", "home", "run"} /\ role' = role /\ firmware' = firmware
        /\ servo' = servo /\ cached' = cached /\ dead' = dead /\ polled' = polled
        /\ parked' = parked /\ why' = why /\ faults' = faults /\ place' = "write"
        /\ UNCHANGED <<phase, opVars, settled>>
    BY DEF HoldStart, MoveToReady, OperateServos
  <1>2. [s \in Servos |-> Ready] \in [Servos -> ServoPositions]
        /\ cached \in [Servos -> ServoPositions]
    BY <1>0 DEF Ready, ServoPositions, LineTypes
  <1>3. pending' \in Goals /\ (Limp => pending' = pending)
    <2>1. CASE HoldStart \/ MoveToReady
      BY <1>2, <2>1, QueuedGoals DEF HoldStart, MoveToReady, Limp
    <2>2. CASE OperateServos
      <3>1. CASE role = "leader"
        BY <1>0, <2>2, <3>1 DEF OperateServos, LineTypes
      <3>2. CASE role # "leader"
        <4>1. \E target \in [Servos -> ServoPositions] : pending' = Queue(target)
          BY <1>2, <2>2, <3>2 DEF OperateServos
        <4> QED
          BY <3>2, <4>1, QueuedGoals DEF Limp
      <3> QED
        BY <3>1, <3>2
    <2> QED
      BY <2>1, <2>2
  <1>4. OpTypes' /\ ModeInv' /\ BuildInv' /\ SettledInv' /\ settled' = settled
    BY <1>1, <1>3, SamePhase DEF Cyclic
  <1>5. LineTypes' /\ NoJump
    BY <1>0, <1>1, <1>3, <1>4 DEF LineTypes, NoJump, Places
  <1> QED
    BY <1>4, <1>5 DEF FeetechInv

(* The last iteration of a ready move.                                        *)
LEMMA MoveEndsKeeps ==
    ASSUME FeetechInv, MoveEnds
    PROVE  FeetechInv' /\ NoJump
  <1>0. LineTypes
    BY DEF FeetechInv
  <1>1. /\ phase = "home" /\ role' = role /\ firmware' = firmware
        /\ servo' = servo /\ cached' = cached /\ dead' = dead /\ polled' = polled
        /\ parked' = parked /\ why' = why /\ faults' = faults
    BY DEF MoveEnds
  <1>2. [s \in Servos |-> Ready] \in [Servos -> ServoPositions]
    BY DEF Ready, ServoPositions
  <1>3. pending' \in Goals
    BY <1>2, QueuedGoals DEF MoveEnds
  <1>4. NoJump
    BY <1>1 DEF NoJump
  <1>5. place' \in Places /\ settled' \subseteq Servos => LineTypes'
    BY <1>0, <1>1, <1>3 DEF LineTypes
  <1>6. \A s \in Servos : servo'[s].positionMode
    BY <1>1 DEF FeetechInv, ModeInv
  <1>7. CASE Begin("normal")
    <2>1. /\ OpTypes' /\ ModeInv' /\ BuildInv' /\ SettledInv'
          /\ place' = "servo" /\ settled' = {}
      BY <1>1, <1>6, <1>7, Afresh DEF Scripted
    <2> QED
      BY <1>4, <1>5, <2>1 DEF FeetechInv, Places
  <1>8. CASE BusCycle("restore", "write") \/ BusCycle("leave", "write")
    <2>1. /\ OpTypes' /\ BuildInv' /\ place' = "write" /\ settled' = settled
          /\ phase' \in {"restore", "leave"}
      BY <1>8, InCycle DEF Cyclic
    <2>2. ModeInv'
      BY <1>6 DEF ModeInv
    <2>3. SettledInv'
      BY <1>1, <2>1
         DEF FeetechInv, SettledInv, Building, Switching, Holding, Yielding, Limp
    <2>4. LineTypes'
      BY <1>0, <1>5, <2>1 DEF LineTypes, Places
    <2> QED
      BY <1>4, <2>1, <2>2, <2>3, <2>4 DEF FeetechInv
  <1>9. Begin("normal") \/ BusCycle("restore", "write") \/ BusCycle("leave", "write")
    <2> DEFINE A == Begin("normal")
               B == BusCycle("restore", "write")
               C == BusCycle("leave", "write")
    <2>1. (CASE why = "startup" -> A
             [] why = "command" -> B
             [] why = "recovery" -> C)
      BY DEF MoveEnds
    <2>2. why \in {"startup", "command", "recovery"}
      BY <1>0 DEF LineTypes
    <2> HIDE DEF A, B, C
    <2>3. A \/ B \/ C
      BY <2>1, <2>2
    <2> QED
      BY <2>3 DEF A, B, C
  <1> QED
    BY <1>7, <1>8, <1>9

(* A switch of the mode begins, or the program is asked to stop.              *)
LEMMA BeginningsKeep ==
    ASSUME FeetechInv, SwitchMode \/ Rehome \/ Stop
    PROVE  FeetechInv' /\ NoJump
  <1>0. LineTypes
    BY DEF FeetechInv
  <1>1. /\ phase \in Cyclic /\ role' = role /\ firmware' = firmware
        /\ servo' = servo /\ cached' = cached /\ dead' = dead /\ polled' = polled
        /\ pending' = pending
        /\ parked' = parked /\ why' \in {why, "command"} /\ faults' = faults
    BY DEF SwitchMode, Rehome, Stop, lineVars, Cyclic
  <1>2. PICK next \in {"override", "normal", "park"} : Begin(next)
    BY DEF SwitchMode, Rehome, Stop
  <1>3. NoJump
    BY <1>1 DEF NoJump
  <1>4. \A s \in Servos : servo'[s].positionMode
    BY <1>1 DEF FeetechInv, ModeInv, Cyclic
  <1>5. /\ OpTypes' /\ ModeInv' /\ BuildInv' /\ SettledInv'
        /\ place' = "servo" /\ settled' = {}
    BY <1>1, <1>2, <1>4, Afresh DEF Scripted
  <1>6. LineTypes'
    BY <1>0, <1>1, <1>5 DEF LineTypes, Places
  <1> QED
    BY <1>3, <1>5, <1>6 DEF FeetechInv

(* The group write reaches settled servos that have torque already: those of  *)
(* a limp arm are not in the queue.                                           *)
LEMMA GroupWriteKeeps ==
    ASSUME FeetechInv, GroupWrite
    PROVE  FeetechInv' /\ NoJump
  <1>0. LineTypes
    BY DEF FeetechInv
  <1>1. /\ phase \in Cyclic /\ place = "write" /\ role' = role /\ firmware' = firmware
        /\ cached' = cached /\ dead' = dead /\ polled' = polled /\ parked' = parked
        /\ pending' = NoGoals
    BY DEF GroupWrite
  <1>2. NoGoals \in Goals /\ DOMAIN NoGoals = {}
    BY DEF NoGoals, Goals
  <1>3. phase # "recover"
    BY <1>1 DEF FeetechInv, SettledInv
  <1>4. CASE Strikes("tx") /\ servo' = servo
             /\ ((Begin("park") /\ why' = why) \/ StepErrs)
    <2>1. NoJump /\ faults' \in 0 .. MaxFaults
      BY <1>0, <1>4, AttemptsAssumption DEF LineTypes, NoJump, Strikes
    <2>2. place' \in Places /\ settled' \subseteq Servos /\ why' \in {why, "recovery"}
          => LineTypes'
      BY <1>0, <1>1, <1>2, <1>4, <2>1 DEF LineTypes
    <2>3. CASE Begin("park") /\ why' = why
      <3>1. /\ OpTypes' /\ ModeInv' /\ BuildInv' /\ SettledInv'
            /\ place' = "servo" /\ settled' = {}
        BY <1>1, <2>3, Afresh DEF Scripted
      <3> QED
        BY <2>1, <2>2, <2>3, <3>1 DEF FeetechInv, Places
    <2>4. CASE StepErrs
      <3>1. /\ OpTypes' /\ ModeInv' /\ BuildInv' /\ SettledInv'
            /\ place' = "read" /\ settled' = settled /\ why' \in {why, "recovery"}
        BY <1>1, <1>2, <1>4, <2>4, StepErrsKeeps
      <3>2. LineTypes'
        BY <1>0, <2>2, <3>1 DEF LineTypes, Places
      <3> QED
        BY <2>1, <3>1, <3>2 DEF FeetechInv
    <2> QED
      BY <1>4, <2>3, <2>4
  <1>5. CASE /\ servo' = [s \in Servos |->
                            IF s \in DOMAIN pending /\ servo[s].plugged
                            THEN WriteGoal(servo[s], pending[s]) ELSE servo[s]]
             /\ \/ phase = "leave" /\ Begin("park")
                \/ phase = "hold" /\ BusCycle("home", "move")
                \/ place' = "read" /\ UNCHANGED <<phase, opVars, settled>>
             /\ UNCHANGED <<why, faults>>
    <2>1. \A s \in Servos :
             /\ servo[s] \in ServoType
             /\ s \in DOMAIN pending => pending[s] \in ServoPositions
      BY <1>0 DEF LineTypes, Goals
    <2>2. \A s \in Servos :
             /\ servo'[s] \in ServoType
             /\ servo'[s].locked = servo[s].locked
             /\ servo'[s].positionMode = servo[s].positionMode
             /\ servo[s].torque => servo'[s].torque
             /\ s \notin DOMAIN pending => servo'[s] = servo[s]
      BY <1>0, <1>5, <2>1, GoalWritten DEF LineTypes
    <2>3. servo' \in [Servos -> ServoType]
      BY <1>5, <2>2
    <2>4. place' \in Places /\ settled' \subseteq Servos => LineTypes'
      BY <1>0, <1>1, <1>2, <1>5, <2>3 DEF LineTypes
    <2>5. NoJump
      <3>1. \A s \in settled : servo[s].torque \/ s \notin DOMAIN pending
        BY <1>1, <1>3 DEF FeetechInv, SettledInv, Cyclic, Holding, Limp
      <3> QED
        BY <1>1, <2>2, <3>1 DEF NoJump
    <2>6. CASE phase = "leave" /\ Begin("park")
      <3>1. /\ OpTypes' /\ ModeInv' /\ BuildInv' /\ SettledInv'
            /\ place' = "servo" /\ settled' = {}
        BY <1>1, <2>6, Afresh DEF Scripted
      <3> QED
        BY <2>4, <2>5, <3>1 DEF FeetechInv, Places
    <2>7. CASE phase = "hold" /\ BusCycle("home", "move")
      <3>1. /\ OpTypes' /\ BuildInv' /\ place' = "move" /\ settled' = settled
            /\ phase' = "home"
        BY <2>7, InCycle DEF Cyclic
      <3>2. ModeInv'
        BY <2>2, <2>7 DEF FeetechInv, ModeInv
      <3>3. SettledInv'
        BY <1>0, <1>1, <2>2, <2>7, <3>1
           DEF FeetechInv, SettledInv, LineTypes, Building, Switching, Holding, Yielding, Limp
      <3>4. LineTypes'
        BY <1>0, <2>4, <3>1 DEF LineTypes, Places
      <3> QED
        BY <2>5, <3>1, <3>2, <3>3, <3>4 DEF FeetechInv
    <2>8. CASE place' = "read" /\ UNCHANGED <<phase, opVars, settled>>
      <3>1. \A s \in Servos : Limp /\ s \in settled => servo'[s].torque = servo[s].torque
        BY <2>2 DEF FeetechInv, SettledInv
      <3>2. OpTypes' /\ ModeInv' /\ BuildInv' /\ SettledInv' /\ settled' = settled
        BY <1>1, <1>2, <1>3, <2>2, <2>8, <3>1, SamePhase
      <3>3. LineTypes'
        BY <1>0, <2>4, <2>8, <3>2 DEF LineTypes, Places
      <3> QED
        BY <2>5, <3>2, <3>3 DEF FeetechInv
    <2> QED
      BY <1>5, <2>6, <2>7, <2>8
  <1>6. \/ /\ servo' = [s \in Servos |->
                          IF s \in DOMAIN pending /\ servo[s].plugged
                          THEN WriteGoal(servo[s], pending[s]) ELSE servo[s]]
           /\ \/ phase = "leave" /\ Begin("park")
              \/ phase = "hold" /\ BusCycle("home", "move")
              \/ place' = "read" /\ UNCHANGED <<phase, opVars, settled>>
           /\ UNCHANGED <<why, faults>>
        \/ /\ Strikes("tx") /\ servo' = servo
           /\ (Begin("park") /\ why' = why) \/ StepErrs
    <2> DEFINE A == Begin("park")
               B == BusCycle("home", "move")
               C == place' = "read" /\ UNCHANGED <<phase, opVars, settled>>
               D == (CASE phase = "leave" -> A [] phase = "hold" -> B [] OTHER -> C)
    <2> HIDE DEF A, B, C
    <2>1. D => (phase = "leave" /\ A) \/ (phase = "hold" /\ B) \/ C
      OBVIOUS
    <2> HIDE DEF D
    <2>2. \/ /\ servo' = [s \in Servos |->
                          IF s \in DOMAIN pending /\ servo[s].plugged
                          THEN WriteGoal(servo[s], pending[s]) ELSE servo[s]]
             /\ D /\ UNCHANGED <<why, faults>>
          \/ /\ Strikes("tx") /\ servo' = servo
             /\ (Begin("park") /\ why' = why) \/ StepErrs
      BY Zenon DEF GroupWrite, A, B, C, D
    <2> QED
      BY <2>1, <2>2 DEF A, B, C
  <1> QED
    BY <1>4, <1>5, <1>6

(* The arm moves by itself or by hand between the cycles, a servo obeys again *)
(* and a cable breaks; none of it touches torque, goal, mode or lock.         *)
LEMMA SurroundingsKeep ==
    ASSUME FeetechInv, NEW s \in Servos, Track(s) \/ BackDrive(s) \/ Settle(s) \/ Unplug(s)
    PROVE  FeetechInv' /\ NoJump
  <1>0. LineTypes
    BY DEF FeetechInv
  <1>1. /\ role' = role /\ firmware' = firmware /\ phase' = phase /\ place' = place
        /\ cur' = cur /\ step' = step /\ tries' = tries /\ rc' = rc /\ present' = present
        /\ cached' = cached /\ pending' = pending /\ dead' = dead /\ polled' = polled
        /\ parked' = parked /\ why' = why /\ settled' = settled
    BY DEF Track, BackDrive, Settle, Unplug, Moved, opVars, lineVars
  <1>2. faults' \in 0 .. MaxFaults
    BY <1>0, AttemptsAssumption
       DEF Track, BackDrive, Settle, Unplug, Moved, Strikes, LineTypes
  <1>3. servo[s] \in ServoType /\ servo \in [Servos -> ServoType]
    BY <1>0 DEF LineTypes
  <1>4. /\ servo' \in [Servos -> ServoType]
        /\ \A k \in Servos : /\ servo'[k].torque = servo[k].torque
                             /\ servo'[k].goal = servo[k].goal
                             /\ servo'[k].positionMode = servo[k].positionMode
                             /\ servo'[k].locked = servo[k].locked
                             /\ phase \notin Cyclic => servo'[k].pos = servo[k].pos
    <2>1. CASE Track(s)
      <3>1. servo' = [servo EXCEPT ![s].pos = servo[s].goal] /\ phase \in Cyclic
        BY <2>1 DEF Track, Moved
      <3> QED
        BY <1>3, <3>1 DEF ServoType
    <2>2. CASE BackDrive(s)
      <3>1. phase \in Cyclic
        BY <2>2 DEF BackDrive
      <3>2. PICK p \in ServoPositions : servo' = [servo EXCEPT ![s].pos = p]
        BY <2>2 DEF BackDrive, Moved
      <3> QED
        BY <1>3, <3>1, <3>2 DEF ServoType
    <2>3. CASE Settle(s)
      <3>1. servo' = [servo EXCEPT ![s].recent = FALSE]
        BY <2>3 DEF Settle
      <3> QED
        BY <1>3, <3>1 DEF ServoType
    <2>4. CASE Unplug(s)
      <3>1. PICK gone : servo' = [t \in Servos |->
               IF t \in gone THEN [servo[t] EXCEPT !.plugged = FALSE] ELSE servo[t]]
        BY <2>4 DEF Unplug
      <3>2. \A t \in Servos : servo[t] \in ServoType
        BY <1>3
      <3>3. \A t \in Servos : [servo[t] EXCEPT !.plugged = FALSE] \in ServoType
        BY <3>2 DEF ServoType
      <3> QED
        BY <3>1, <3>2, <3>3 DEF ServoType
    <2> QED
      BY <2>1, <2>2, <2>3, <2>4
  <1>5. LineTypes' /\ NoJump
    BY <1>0, <1>1, <1>2, <1>4 DEF LineTypes, NoJump
  <1>6. /\ (Building' = Building) /\ (Yielding' = Yielding) /\ (Switching' = Switching)
        /\ (Holding' = Holding) /\ (Limp' = Limp)
    BY <1>1 DEF Building, Yielding, Switching, Holding, Limp
  <1>7. OpTypes' /\ ModeInv'
    BY <1>1, <1>4, <1>6 DEF FeetechInv, OpTypes, ModeInv
  <1>8. BuildInv'
    <2>1. phase = "start" \/ Switching => phase \notin Cyclic
      BY DEF Switching, Cyclic
    <2> QED
      BY <1>1, <1>4, <1>6, <2>1 DEF FeetechInv, BuildInv
  <1>9. SettledInv'
    BY <1>0, <1>1, <1>4, <1>6 DEF FeetechInv, SettledInv, LineTypes
  <1> QED
    BY <1>5, <1>7, <1>8, <1>9 DEF FeetechInv

(* The state a program finds keeps the invariant.                             *)
LEMMA FeetechStarts == FeetechInit => FeetechInv
  <1> SUFFICES ASSUME FeetechInit PROVE FeetechInv
    OBVIOUS
  <1>1. PICK first \in FirstServos : servo = [s \in Servos |-> first]
    BY DEF FeetechInit
  <1>2. first \in ServoType
    BY <1>1 DEF FirstServos, ServoType
  <1>3. servo \in [Servos -> ServoType]
    BY <1>1, <1>2
  <1>4. NoGoals \in Goals
    BY DEF NoGoals, Goals
  <1>5. LineTypes
    <2>1. cached \in [Servos -> ServoPositions]
      BY DEF FeetechInit, Ready, ServoPositions
    <2>2. faults \in 0 .. MaxFaults
      BY AttemptsAssumption DEF FeetechInit
    <2> QED
      BY <1>3, <1>4, <2>1, <2>2 DEF FeetechInit, LineTypes, Places
  <1>6. OpTypes
    BY NumServosAssumption, AttemptsAssumption
       DEF FeetechInit, OpTypes, Ready, ServoPositions, Phases, Scripted, Cyclic, Switching,
           Yielding
  <1>7. ModeInv /\ BuildInv /\ SettledInv
    BY DEF FeetechInit, ModeInv, BuildInv, SettledInv, Scripted, Switching, Yielding, Building,
           Holding, Limp
  <1> QED
    BY <1>5, <1>6, <1>7 DEF FeetechInv

(* Every step of the arm keeps the invariant and lets no servo jump.          *)
LEMMA FeetechStep ==
    FeetechInv /\ [FeetechNext]_feetechVars => FeetechInv' /\ [NoJump]_feetechVars
  <1> SUFFICES ASSUME FeetechInv, [FeetechNext]_feetechVars
               PROVE  FeetechInv' /\ [NoJump]_feetechVars
    OBVIOUS
  <1>1. CASE UNCHANGED feetechVars
    BY <1>1 DEF feetechVars, FeetechInv, LineTypes, OpTypes, ModeInv, BuildInv, SettledInv,
                Switching, Yielding, Building, Holding, Limp
  <1>2. CASE WriteRegister
    BY <1>2, AccessKeeps DEF WriteRegister
  <1>3. CASE \E s \in Servos : Track(s) \/ BackDrive(s) \/ Settle(s) \/ Unplug(s)
    BY <1>3, SurroundingsKeep
  <1> QED
    BY <1>1, <1>2, <1>3, WriteEepromKeeps, LockEepromKeeps, ReadPositionKeeps,
       VerifyDisableKeeps, EndsKeep, GroupReadKeeps, OpenKeeps, QueueKeeps, MoveEndsKeeps,
       BeginningsKeep, GroupWriteKeeps
       DEF FeetechNext, ControlStep, ServoOperation

(* Torque is where it is due: for any number of servos, both firmwares, any   *)
(* number of faults and of disable attempts, no servo of the arm jumps when   *)
(* its torque comes on, every operating servo is in position mode, those that *)
(* the last start or switch completed have their EEPROM locked, and those of  *)
(* a leader in operation are limp.                                            *)
THEOREM OrderlyTorque == FeetechSpec => TorqueIsOrderly
  <1>1. FeetechInit => FeetechInv
    BY FeetechStarts
  <1>2. FeetechInv /\ [FeetechNext]_feetechVars => FeetechInv' /\ [NoJump]_feetechVars
    BY FeetechStep
  <1>3. FeetechInv => FeetechTypeOK /\ LeaderIsLimp /\ Configured
    <2> SUFFICES ASSUME FeetechInv PROVE FeetechTypeOK /\ LeaderIsLimp /\ Configured
      OBVIOUS
    <2>1. step \in 1 .. 12
      BY RolesAssumption
         DEF FeetechInv, OpTypes, Scripted, LineTypes, Switching, Yielding
    <2>2. FeetechTypeOK
      BY <2>1 DEF FeetechInv, LineTypes, OpTypes, FeetechTypeOK, ServoType, Places
    <2>3. LeaderIsLimp
      BY DEF FeetechInv, SettledInv, LeaderIsLimp, Limp
    <2>4. Configured
      <3>1. ASSUME phase \in Cyclic PROVE \A s \in Servos : servo[s].positionMode
        BY <3>1 DEF FeetechInv, ModeInv, Cyclic
      <3>2. ASSUME phase \in Cyclic, role = "follower" \/ phase \notin {"run", "recover"}
            PROVE  \A s \in settled : servo[s].locked
        BY <3>2 DEF FeetechInv, SettledInv, Cyclic, Holding
      <3> QED
        BY <3>1, <3>2 DEF Configured
    <2> QED
      BY <2>2, <2>3, <2>4
  <1>4. FeetechInv' /\ [NoJump]_feetechVars =>
           [NoJump /\ (FeetechTypeOK /\ LeaderIsLimp /\ Configured)']_feetechVars
    BY <1>3, PTL
  <1> QED
    BY <1>1, <1>2, <1>4, PTL DEF FeetechSpec, TorqueIsOrderly

(* What a read of a ready arm that goes on to operate has heard.  A failed    *)
(* one goes on only with nobody dead; with no answer lost, the pings of the   *)
(* servos would then have found the one that kept silent.                     *)
LEMMA ReadsAreSeeing ==
    ASSUME FeetechInv, GroupRead, phase = "run", place' = "move"
    PROVE  /\ dead' = dead
           /\ faults' = faults =>
                 \A s \in polled : servo[s].plugged /\ cached'[s] = servo[s].pos
  <1>1. dead \subseteq Servos /\ polled \subseteq Servos /\ faults \in Nat
    BY AttemptsAssumption DEF FeetechInv, LineTypes
  <1>2. ASSUME NEW ok, AfterRead(ok) PROVE ok \/ dead' = {}
    BY <1>2 DEF AfterRead, StepErrs, BusCycle
  <1>3. ASSUME NEW heard, NEW deaf, BulkRead(heard, deaf), AfterRead(ReadSucceeds(heard))
        PROVE  dead' = dead /\ (heard = polled \/ Classify(deaf) = {})
    BY <1>2, <1>3 DEF BulkRead, ReadSucceeds
  <1>4. CASE BulkRead(Responders({}), {}) /\ AfterRead(ReadSucceeds(Responders({})))
    <2>1. dead' = dead /\ (Responders({}) = polled \/ Classify({}) = {})
      BY <1>3, <1>4
    <2>2. ReadSucceeds(Responders({})) \/ dead' = {}
      BY <1>2, <1>4
    <2>3. \A s \in polled : servo[s].plugged
      <3>1. CASE Responders({}) = polled
        BY <3>1 DEF Responders
      <3>2. CASE Classify({}) = {} /\ dead = {}
        BY <1>1, <3>2 DEF Classify
      <3> QED
        BY <2>1, <2>2, <3>1, <3>2 DEF ReadSucceeds
    <2>4. \A s \in polled : s \in Responders({})
      BY <2>3 DEF Responders
    <2>5. \A s \in polled : cached'[s] = servo[s].pos
      BY <1>1, <1>4, <2>4 DEF BulkRead, Refresh
    <2> QED
      BY <2>1, <2>3, <2>5
  <1>5. ASSUME NEW fault, Strikes(fault) PROVE faults' # faults
    BY <1>1, <1>5 DEF Strikes
  <1>6. CASE \E quiet, deaf \in SUBSET Servos :
                /\ Strikes("lost")
                /\ BulkRead(Responders(quiet), deaf)
                /\ AfterRead(ReadSucceeds(Responders(quiet)))
    BY <1>3, <1>5, <1>6
  <1>7. CASE Strikes("tx") /\ dead' = dead
    BY <1>5, <1>7
  <1> QED
    BY <1>4, <1>6, <1>7 DEF GroupRead

(* A ready arm never operates blindly: for any line and any number of faults, *)
(* a cycle that goes on to operate has written nobody off, and has heard      *)
(* every servo it polls unless an answer was lost in this very read.          *)
THEOREM SeeingOperation == FeetechSpec => NoBlindOperation
  <1> DEFINE Seeing ==
        phase = "run" /\ place = "read" /\ place' = "move"
        => /\ dead' = dead
           /\ faults' = faults =>
                 \A s \in polled : servo[s].plugged /\ cached'[s] = servo[s].pos
  <1>1. FeetechInit => FeetechInv
    BY FeetechStarts
  <1>2. FeetechInv /\ [FeetechNext]_feetechVars => FeetechInv'
    BY FeetechStep
  <1>3. ASSUME FeetechInv, FeetechNext, phase = "run", place = "read", place' = "move"
        PROVE  GroupRead
    <2>1. phase \notin Scripted /\ place \notin {"servo", "move", "operate", "write"}
          /\ phase # "open"
      BY <1>3 DEF Scripted
    <2>2. ~ServoOperation
      <3>1. ~WriteRegister /\ ~WriteEeprom /\ ~LockEeprom /\ ~ReadPosition /\ ~VerifyDisable
        BY <2>1 DEF WriteRegister, Access, WriteEeprom, LockEeprom, ReadPosition, VerifyDisable,
                    InScript
      <3>2. ~SkipParked /\ ~EndOperation
        BY <1>3, <2>1 DEF SkipParked, EndOperation
      <3> QED
        BY <3>1, <3>2 DEF ServoOperation
    <2>3. ~Open /\ ~HoldStart /\ ~MoveToReady /\ ~MoveEnds /\ ~SwitchMode /\ ~OperateServos
          /\ ~GroupWrite /\ ~Rehome
      BY <1>3, <2>1 DEF Open, HoldStart, MoveToReady, MoveEnds, SwitchMode, OperateServos,
                        GroupWrite, Rehome
    <2>4. ~Stop /\ \A s \in Servos : ~(Track(s) \/ BackDrive(s) \/ Settle(s) \/ Unplug(s))
      BY <1>3 DEF Stop, Begin, Track, BackDrive, Settle, Unplug, Moved
    <2> QED
      BY <1>3, <2>2, <2>3, <2>4 DEF FeetechNext, ControlStep
  <1>4. FeetechInv /\ FeetechNext => Seeing
    BY <1>3, ReadsAreSeeing
  <1> HIDE DEF Seeing
  <1>5. FeetechInv /\ [FeetechNext]_feetechVars => [Seeing]_feetechVars
    BY <1>4
  <1>6. FeetechSpec => [][Seeing]_feetechVars
    BY <1>1, <1>2, <1>5, PTL DEF FeetechSpec
  <1> QED
    BY <1>6 DEF NoBlindOperation, Seeing

(* A line without a fault: every servo is connected and polled.               *)
HealthInv ==
    faults = 0 =>
        /\ why # "recovery" /\ dead = {} /\ polled = Servos
        /\ \A s \in Servos : servo[s].plugged

(* What the operations on the servos leave as it is.                          *)
LEMMA OperationsStayHealthy ==
    ASSUME FeetechInv, HealthInv, ServoOperation
    PROVE  HealthInv'
  <1>0. LineTypes /\ OpTypes /\ role \in Roles /\ present \in ServoPositions /\ faults \in Nat
        /\ servo \in [Servos -> ServoType] /\ why \in {"startup", "command", "recovery"}
    BY AttemptsAssumption DEF FeetechInv, LineTypes, OpTypes
  <1>1. dead' = dead /\ polled' = polled
    BY DEF ServoOperation, WriteRegister, Access, WriteEeprom, LockEeprom, ReadPosition,
           VerifyDisable, SkipParked, EndOperation, lineVars
  <1>2. AfterSwitch => why' \in {why, "startup"}
    <2> DEFINE A == BusCycle("home", "move")
               B == BusCycle("run", "operate")
               C == BusCycle("run", "write")
    <2> HIDE DEF A, B, C
    <2>1. (CASE phase = "override" -> A /\ why' = why
             [] phase = "normal" /\ why = "command" -> B /\ why' = "startup"
             [] OTHER -> C /\ why' = why) => why' \in {why, "startup"}
      OBVIOUS
    <2> QED
      BY <2>1 DEF AfterSwitch, A, B, C
  <1>3. OperationFails => why' \in {why, "startup"}
    <2> DEFINE A == Begin("park")
               B == NextServo({})
               C == AfterSwitch
    <2>1. B => why' = why
      BY DEF NextServo
    <2>2. C => why' \in {why, "startup"}
      BY <1>2
    <2> HIDE DEF A, B, C
    <2>3. (CASE phase = "start" -> A /\ why' = why
             [] phase = "park" -> B
             [] OTHER -> C) => why' \in {why, "startup"}
      BY <2>1, <2>2
    <2> QED
      BY <2>3 DEF OperationFails, A, B, C
  <1>4. Advance => why' = why
    BY DEF Advance, NextServo
  <1>5. why' \in {why, "startup"}
    <2>1. CASE EndOperation
      <3> DEFINE A == BusCycle("hold", "read")
                 B == BusCycle("closed", "read")
                 C == AfterSwitch
      <3>1. C => why' \in {why, "startup"}
        BY <1>2
      <3> HIDE DEF A, B, C
      <3>2. (CASE phase = "start" -> A /\ why' = why
               [] phase = "park" -> B /\ why' = why
               [] OTHER -> C) => why' \in {why, "startup"}
        BY <3>1
      <3> QED
        BY <2>1, <3>2 DEF EndOperation, A, B, C
    <2>2. CASE WriteRegister \/ LockEeprom
      BY <1>3, <1>4, <2>2 DEF WriteRegister, Access, LockEeprom
    <2>3. CASE ReadPosition \/ WriteEeprom \/ SkipParked
      BY <1>3, <2>3 DEF ReadPosition, WriteEeprom, SkipParked, NextServo
    <2>4. CASE VerifyDisable
      BY <1>3, <2>4 DEF VerifyDisable, NextServo
    <2> QED
      BY <2>1, <2>2, <2>3, <2>4 DEF ServoOperation
  <1>6. /\ faults' \in {faults, faults + 1}
        /\ \A s \in Servos : servo'[s].plugged = servo[s].plugged
    <2>1. ASSUME NEW register, NEW other, InScript(other),
                 Answered(cur, register) \/ NoAnswer(cur, register)
          PROVE  /\ faults' \in {faults, faults + 1}
                 /\ \A s \in Servos : servo'[s].plugged = servo[s].plugged
      <3>1. cur \in Servos
        BY <1>0, <2>1, StepOfRegister
      <3>2. \A s \in Servos : servo'[s].plugged = servo[s].plugged
        BY <1>0, <2>1, <3>1, Transaction
      <3>3. faults' \in {faults, faults + 1}
        BY <2>1 DEF Answered, NoAnswer, Strikes
      <3> QED
        BY <3>2, <3>3
    <2>2. CASE UNCHANGED <<servo, faults>>
      BY <2>2
    <2>3. CASE VerifyDisable /\ Waited /\ faults' = faults
      <3>1. PICK recent \in {FALSE, servo[cur].recent} :
                 servo' = [servo EXCEPT ![cur].recent = recent]
        BY <2>3 DEF Waited
      <3>2. cur \in Servos /\ servo[cur] \in ServoType
        BY <1>0, <2>3, StepOfRegister DEF VerifyDisable
      <3> QED
        BY <1>0, <2>3, <3>1, <3>2 DEF ServoType
    <2>4. CASE WriteRegister
      BY <2>1, <2>4 DEF WriteRegister, Access
    <2>5. CASE WriteEeprom
      BY <2>1, <2>5 DEF WriteEeprom
    <2>6. CASE LockEeprom \/ ReadPosition
      BY <2>1, <2>6 DEF LockEeprom, ReadPosition
    <2>7. CASE VerifyDisable
      BY <2>1, <2>2, <2>3, <2>7 DEF VerifyDisable
    <2> QED
      BY <2>2, <2>4, <2>5, <2>6, <2>7 DEF ServoOperation, SkipParked, EndOperation
  <1> QED
    BY <1>0, <1>1, <1>5, <1>6 DEF HealthInv

(* A read that loses no answer hears every servo of a healthy line.           *)
LEMMA ReadsStayHealthy ==
    ASSUME FeetechInv, HealthInv, GroupRead \/ Open
    PROVE  HealthInv'
  <1>0. faults \in Nat /\ Servos # {}
    <2>1. 1 \in Servos
      BY NumServosAssumption DEF Servos
    <2>2. faults \in Nat
      BY AttemptsAssumption DEF FeetechInv, LineTypes
    <2> QED
      BY <2>1, <2>2
  <1> SUFFICES ASSUME faults' = 0 PROVE HealthInv'
    BY DEF HealthInv
  <1>1. \A fault : ~Strikes(fault)
    BY <1>0 DEF Strikes
  <1>2. faults = 0 /\ servo' = servo
    BY <1>1 DEF GroupRead, Open
  <1>3. Responders({}) = polled /\ ReadSucceeds(Responders({}))
    BY <1>0, <1>2 DEF HealthInv, Responders, ReadSucceeds
  <1>4. dead' = dead /\ polled' = polled
    BY <1>1, <1>3 DEF GroupRead, Open, BulkRead
  <1>5. why' = why
    <2>1. ASSUME GroupRead PROVE AfterRead(ReadSucceeds(Responders({})))
      BY <1>1, <2>1 DEF GroupRead
    <2>2. CASE GroupRead
      BY <1>3, <2>1, <2>2 DEF AfterRead
    <2> QED
      BY <2>2 DEF Open
  <1> QED
    BY <1>2, <1>4, <1>5 DEF HealthInv

(* The other steps: a failed write and a broken cable are faults.             *)
LEMMA OthersStayHealthy ==
    ASSUME FeetechInv, HealthInv,
           \/ HoldStart \/ MoveToReady \/ MoveEnds \/ SwitchMode \/ OperateServos \/ GroupWrite
           \/ Rehome \/ Stop
           \/ \E s \in Servos : Track(s) \/ BackDrive(s) \/ Settle(s) \/ Unplug(s)
    PROVE  HealthInv'
  <1>0. faults \in Nat /\ servo \in [Servos -> ServoType] /\ LineTypes
    BY AttemptsAssumption DEF FeetechInv, LineTypes
  <1> SUFFICES ASSUME faults' = 0 PROVE HealthInv'
    BY DEF HealthInv
  <1>1. \A fault : ~Strikes(fault)
    BY <1>0 DEF Strikes
  <1>2. CASE \/ HoldStart \/ MoveToReady \/ MoveEnds \/ SwitchMode \/ OperateServos
             \/ Rehome \/ Stop
    <2>1. /\ servo' = servo /\ dead' = dead /\ polled' = polled /\ faults' = faults
          /\ why' \in {why, "command"}
      BY <1>2 DEF HoldStart, MoveToReady, MoveEnds, SwitchMode, OperateServos, Rehome, Stop,
                  lineVars
    <2> QED
      BY <2>1 DEF HealthInv
  <1>3. CASE GroupWrite
    <2>1. /\ servo' = [s \in Servos |->
                         IF s \in DOMAIN pending /\ servo[s].plugged
                         THEN WriteGoal(servo[s], pending[s]) ELSE servo[s]]
          /\ UNCHANGED <<why, faults, dead, polled>>
      BY <1>1, <1>3 DEF GroupWrite
    <2>2. \A s \in Servos : servo'[s].plugged = servo[s].plugged
      BY <1>0, <2>1, GoalWritten DEF LineTypes, Goals
    <2> QED
      BY <2>1, <2>2 DEF HealthInv
  <1>4. ASSUME NEW s \in Servos, Track(s) \/ BackDrive(s) \/ Settle(s) \/ Unplug(s)
        PROVE  HealthInv'
    <2>1. ~Unplug(s)
      BY <1>1 DEF Unplug
    <2>2. UNCHANGED <<why, faults, dead, polled>>
      BY <1>4, <2>1 DEF Track, BackDrive, Settle, Moved, lineVars
    <2>3. \A k \in Servos : servo'[k].plugged = servo[k].plugged
      <3>1. CASE Settle(s)
        BY <1>0, <3>1 DEF Settle, ServoType
      <3>2. CASE Track(s) \/ BackDrive(s)
        <4>1. PICK p : servo' = [servo EXCEPT ![s].pos = p]
          BY <3>2 DEF Track, BackDrive, Moved
        <4> QED
          BY <1>0, <4>1 DEF ServoType
      <3> QED
        BY <1>4, <2>1, <3>1, <3>2
    <2> QED
      BY <2>2, <2>3 DEF HealthInv
  <1> QED
    BY <1>2, <1>3, <1>4

(* A healthy line stays up: whatever the firmware ignores and whatever the    *)
(* client and the operator do, no arm without a fault on its line goes into   *)
(* recovery or takes a servo for dead.                                        *)
THEOREM HealthyLines == FeetechSpec => []HealthyLineStaysUp
  <1>1. FeetechInit => FeetechInv
    BY FeetechStarts
  <1>2. FeetechInv /\ [FeetechNext]_feetechVars => FeetechInv'
    BY FeetechStep
  <1>3. FeetechInit => HealthInv
    BY DEF FeetechInit, FirstServos, HealthInv
  <1>4. FeetechInv /\ HealthInv /\ [FeetechNext]_feetechVars => HealthInv'
    <2> SUFFICES ASSUME FeetechInv, HealthInv, [FeetechNext]_feetechVars PROVE HealthInv'
      OBVIOUS
    <2>1. CASE UNCHANGED feetechVars
      BY <2>1 DEF feetechVars, HealthInv
    <2> QED
      BY <2>1, OperationsStayHealthy, ReadsStayHealthy, OthersStayHealthy
         DEF FeetechNext, ControlStep
  <1>5. HealthInv => HealthyLineStaysUp
    BY DEF HealthInv, HealthyLineStaysUp, Recovering
  <1> QED
    BY <1>1, <1>2, <1>3, <1>4, <1>5, PTL DEF FeetechSpec
=============================================================================
