----------------------------- MODULE ServoChecks -----------------------------
(***************************************************************************)
(* The safety checks of one servo of a follower arm: the HoldCheckers that *)
(* Servo::read_hardware_values() samples in a fixed order, the SafeMode     *)
(* latches they set and clear, and the follower slew that turns the        *)
(* leader's position into the servo's target, across ready moves.          *)
(*                                                                         *)
(* Positions are a grid 0 .. Reach.  In a control cycle the servo is read, *)
(* wherever it may have got to, the checks run, and a target is sent.  An  *)
(* escalated code puts the arm into emergency recovery (Device.tla); here  *)
(* it ends the run.  is_temperature_ is not kept: nothing sets it, since   *)
(* the temperature check returns its code without graceful_management().   *)
(***************************************************************************)
EXTENDS Integers, FiniteSets

CONSTANTS
    Reach,          \* the joint can be found at 0 .. Reach
    PosMin,         \* pos_min_rel_
    PosMax,         \* pos_max_rel_
    ErrorMargin,    \* pos_error_margin_
    Home,           \* home_pos_rel_
    MaxBehind,      \* max_pos_difference_rad_
    Tolerable,      \* tolerable_pos_difference_rad_
    Slew,           \* follow_vel_max_ in one control period
    Threshold,      \* hold_count_threshold_ of each checker
    ExitThreshold,  \* EXIT_COUNT_THRESHOLD
    Configurations  \* safety_feature_off, safety_torque_mode and what may go wrong

Checkers == {"temperature", "exceed", "behind", "velocity", "torque"}
Disturbances == {"hot", "fast", "strained"}
Positions == 0 .. Reach

ASSUME ReachAssumption ==
    /\ Reach \in Nat
    /\ PosMin \in Positions /\ PosMax \in Positions /\ Home \in Positions
ASSUME DistanceAssumption ==
    ErrorMargin \in Nat /\ MaxBehind \in Nat /\ Tolerable \in Nat /\ Slew \in Nat \ {0}
ASSUME ThresholdAssumption ==
    Threshold \in [Checkers -> Nat \ {0}] /\ ExitThreshold \in Nat \ {0}
ASSUME ConfigurationAssumption ==
    Configurations \subseteq
        [enabled : BOOLEAN, torqueMode : BOOLEAN, disturbed : SUBSET Disturbances]

VARIABLES
    config,   \* is_safe_mode_enabled_, is_torque_mode_enabled_, possible disturbances
    mode,     \* "operate", "requested" and "moving" (a ready move) or "alarm"
    pos,      \* get_pos_rad_relative() as last read
    tele,     \* tele_pos_ of the joint
    target,   \* prev_target_pos_: the last command of the slew
    checks,   \* the checkers, the latches of SafeMode, its anchor and the code
              \* returned by the last read
    hotRun,   \* consecutive reads above the force-stop temperature (history)
    nearRun   \* consecutive cycles with the leader near and no limit latch (history)

vars == <<config, mode, pos, tele, target, checks, hotRun, nearRun>>

Latches == {"exceed", "behind", "velocity", "torque"}
Codes == {"SUCCESS", "TEMPERATURE", "POS_EXCEED", "POS_BEHIND", "VEL", "TOR"}

TypeOK ==
    /\ config \in Configurations
    /\ mode \in {"operate", "requested", "moving", "alarm"}
    /\ pos \in Positions /\ tele \in Positions /\ target \in Positions
    /\ DOMAIN checks.of = Checkers
    /\ \A c \in Checkers :
         /\ checks.of[c].hold \in 0 .. Threshold[c]
         /\ checks.of[c].exit \in 0 .. ExitThreshold
         /\ checks.of[c].holding \in BOOLEAN
    /\ checks.latched \subseteq Latches
    /\ checks.anchor \in Positions
    /\ checks.code \in Codes
    /\ hotRun \in 0 .. Threshold["temperature"]
    /\ nearRun \in 0 .. ExitThreshold

-----------------------------------------------------------------------------
(* HoldChecker.                                                            *)

NewChecker == [hold |-> 0, exit |-> 0, holding |-> FALSE]
AtMost(n, x) == IF x > n THEN n ELSE x

\* is_holding(): each counter is kept while the other one counts.  Counts are
\* saturated at their threshold, which the tests cannot tell apart.
IsHolding(k, condition, threshold) ==
    IF ~k.holding
    THEN LET n == IF condition THEN AtMost(threshold, k.hold + 1) ELSE 0
         IN  [k EXCEPT !.hold = n, !.holding = (n >= threshold)]
    ELSE LET n == IF condition THEN 0 ELSE AtMost(ExitThreshold, k.exit + 1)
         IN  [k EXCEPT !.exit = n, !.holding = (n < ExitThreshold)]

-----------------------------------------------------------------------------
(* SafeMode.  s is the state of the checks inside a read.                  *)

Abs(x) == IF x < 0 THEN -x ELSE x
Clip(x, lo, hi) == IF x < lo THEN lo ELSE IF x > hi THEN hi ELSE x

IsBehind(at, limit) == Abs(at - tele) > limit

Latch(s, l) == [s EXCEPT !.latched = @ \cup {l}]

\* The anchor follows the measured position while the latch holds.
LatchBehindLive(s, at) == [Latch(s, "behind") EXCEPT !.anchor = at]

\* graceful_management_pos_behind(): the anchor is captured by the transition.
LatchBehind(s, at) ==
    [Latch(s, "behind") EXCEPT !.anchor = IF "behind" \in s.latched THEN @ ELSE at]

\* graceful_management(): the position checks manage themselves, the others
\* escalate; with the safety feature off every code escalates.
Graceful(s, code, at) ==
    IF ~config.enabled THEN [s EXCEPT !.code = code]
    ELSE CASE code = "POS_EXCEED" -> [Latch(s, "exceed") EXCEPT !.code = "SUCCESS"]
           [] code = "POS_BEHIND" -> [LatchBehind(s, at) EXCEPT !.code = "SUCCESS"]
           [] code = "VEL" -> [Latch(s, "velocity") EXCEPT !.code = code]
           [] code = "TOR" ->
                 LET t == Latch(s, "torque")
                 IN  [(IF IsBehind(at, Tolerable) THEN LatchBehind(t, at) ELSE t)
                         EXCEPT !.code = code]

\* exit_safe_mode()
ExitSafeMode(s, l) == IF config.enabled THEN [s EXCEPT !.latched = @ \ {l}] ELSE s

\* get_safe_tele_pos_rad()
SafeTele(s, t) ==
    IF ~config.enabled THEN t
    ELSE IF "exceed" \in s.latched /\ t \notin PosMin .. PosMax
    THEN Clip(t, PosMin, PosMax)
    ELSE IF "behind" \in s.latched THEN s.anchor ELSE t

-----------------------------------------------------------------------------
(* Servo::read_hardware_values().  x is a sample: where the servo is and    *)
(* which of its other values are out of bounds.  A check that returns sets  *)
(* the code, and the checks after it are not sampled.                       *)

Samples == [at : Positions, out : SUBSET config.disturbed]

Sampled(s, c, condition) ==
    [s EXCEPT !.of[c] = IsHolding(@, condition, Threshold[c])]

CheckTemperature(s, x) ==
    LET t == Sampled(s, "temperature", "hot" \in x.out)
    IN  IF t.of["temperature"].holding THEN [t EXCEPT !.code = "TEMPERATURE"] ELSE t

CheckExceed(s, x) ==
    LET t == Sampled(s, "exceed", x.at \notin PosMin - ErrorMargin .. PosMax + ErrorMargin)
    IN  IF t.of["exceed"].holding
        THEN Graceful(t, "POS_EXCEED", x.at) ELSE ExitSafeMode(t, "exceed")

\* Skipped during every kind of ready move.
CheckBehind(s, x) ==
    LET t == Sampled(s, "behind", IsBehind(x.at, MaxBehind))
    IN  IF mode # "operate" THEN s
        ELSE IF t.of["behind"].holding
        THEN Graceful(t, "POS_BEHIND", x.at) ELSE ExitSafeMode(t, "behind")

CheckVelocity(s, x) ==
    LET t == Sampled(s, "velocity", "fast" \in x.out)
    IN  IF t.of["velocity"].holding
        THEN Graceful(t, "VEL", x.at) ELSE ExitSafeMode(t, "velocity")

CheckTorque(s, x) ==
    LET t == Sampled(s, "torque", "strained" \in x.out)
    IN  IF t.of["torque"].holding
        THEN IF config.torqueMode THEN Graceful(t, "TOR", x.at) ELSE t
        ELSE IF IsBehind(x.at, Tolerable) THEN t ELSE ExitSafeMode(t, "torque")

\* The code is "" until a check returns.
Then(s, t) == IF s.code # "" THEN s ELSE t

ReadHardwareValues(x) ==
    LET s1 == CheckTemperature([checks EXCEPT !.code = ""], x)
        s2 == Then(s1, CheckExceed(s1, x))
        s3 == Then(s2, CheckBehind(s2, x))
        s4 == Then(s3, CheckVelocity(s3, x))
        s5 == Then(s4, CheckTorque(s4, x))
    IN  Then(s5, [s5 EXCEPT !.code = "SUCCESS"])

-----------------------------------------------------------------------------
Init ==
    /\ config \in Configurations
    /\ mode = "operate"
    /\ pos = Home /\ tele = Home /\ target = Home
    /\ checks = [of |-> [c \in Checkers |-> NewChecker], latched |-> {},
                 anchor |-> 0, code |-> "SUCCESS"]
    /\ hotRun = 0 /\ nearRun = 0

\* apply_action(): the leader's position, which need not be in the limits.
Command(t) ==
    /\ mode = "operate"
    /\ tele' = t
    /\ UNCHANGED <<config, mode, pos, target, checks, hotRun, nearRun>>

\* The read of a cycle: the joint has moved by at most one position.
Read(x) ==
    /\ Abs(x.at - pos) <= 1
    /\ pos' = x.at
    /\ checks' = ReadHardwareValues(x)
    /\ hotRun' = IF "hot" \in x.out THEN AtMost(Threshold["temperature"], hotRun + 1) ELSE 0
    /\ nearRun' = IF /\ mode = "operate"
                     /\ ~IsBehind(x.at, MaxBehind) /\ "exceed" \notin checks'.latched
                  THEN AtMost(ExitThreshold, nearRun + 1) ELSE 0

\* The synchronized follower slew of a single joint.
SlewTo(from, goal) == Clip(goal, from - Slew, from + Slew)

\* A control cycle of operate_as_follower().
Operate(x) ==
    /\ mode = "operate"
    /\ Read(x)
    /\ checks'.code = "SUCCESS"
    /\ target' = SlewTo(target, SafeTele(checks', tele))
    /\ UNCHANGED <<config, mode, tele>>

\* COMMAND_MOVE_TO_READY_POS: request_move_to_ready_position()
Request ==
    /\ mode = "operate"
    /\ mode' = "requested"
    /\ UNCHANGED <<config, pos, tele, target, checks, hotRun, nearRun>>

\* The buffers are rebased on the position read in the cycle and the ready
\* move begins.
BeginMove(x) ==
    /\ mode = "requested"
    /\ Read(x)
    /\ checks'.code = "SUCCESS"
    /\ mode' = "moving"
    /\ tele' = x.at /\ target' = SlewTo(x.at, Home)
    /\ UNCHANGED <<config>>

\* An iteration of the ready move.
ContinueMove(x) ==
    /\ mode = "moving"
    /\ Read(x)
    /\ checks'.code = "SUCCESS"
    /\ target' = SlewTo(target, Home)
    /\ UNCHANGED <<config, mode, tele>>

\* The cycle after the end of the move: the servo is read while the move is
\* still on, the buffers are rebased and the follower operates.  A joint that
\* is stuck or out of budget ends the move where it is.
EndMove(x) ==
    /\ mode = "moving"
    /\ Read(x)
    /\ checks'.code = "SUCCESS"
    /\ mode' = "operate"
    /\ tele' = x.at
    /\ target' = SlewTo(x.at, SafeTele(checks', x.at))
    /\ UNCHANGED config

\* An escalated code: the arm enters emergency recovery.
Escalate(x) ==
    /\ mode # "alarm"
    /\ Read(x)
    /\ checks'.code # "SUCCESS"
    /\ mode' = "alarm"
    /\ UNCHANGED <<config, tele, target>>

Cycle == \E x \in Samples :
    Operate(x) \/ BeginMove(x) \/ ContinueMove(x) \/ EndMove(x) \/ Escalate(x)

Next == (\E t \in Positions : Command(t)) \/ Request \/ Cycle

Spec == Init /\ [][Next]_vars
-----------------------------------------------------------------------------
(* Properties.                                                             *)

\* While the position-behind latch holds, the slew brings the target to the
\* anchor and never moves it away again, however the loaded joint sags, unless
\* the position-limit latch takes precedence.
NoRatchet ==
    (/\ mode = "operate" /\ mode' = "operate"
     /\ "behind" \in checks.latched /\ "behind" \in checks'.latched
     /\ "exceed" \notin checks'.latched)
        => Abs(target' - checks'.anchor) <= Abs(target - checks.anchor)

\* A servo that stays above the force-stop temperature for as long as its
\* checker demands stops the arm, whichever position latch, velocity or torque
\* check would have returned from the read first.
HeatTrips ==
    hotRun = Threshold["temperature"] => checks.code = "TEMPERATURE"

\* The latch and the hysteresis of its checker agree, also after ready moves
\* that do not sample the checker.
LatchFollowsChecker ==
    mode # "alarm" =>
        ("behind" \in checks.latched <=> config.enabled /\ checks.of["behind"].holding)

\* A joint that stays with its leader, inside its limits, for as long as the
\* exit hysteresis is released from the position-behind latch.
LatchIsLeft ==
    mode = "operate" /\ nearRun = ExitThreshold => "behind" \notin checks.latched

\* Safe mode is entered, kept and left as its checkers say, and what it does
\* meanwhile brings the joint to rest.
SafeModeIsSound ==
    [][NoRatchet /\ (TypeOK /\ HeatTrips /\ LatchFollowsChecker /\ LatchIsLeft)']_vars

\* After a commanded ready move that ends inside the limits the follower holds
\* there: its first target is the rebased buffer.
HoldsAfterMove ==
    [][(mode = "moving" /\ mode' = "operate" /\ tele' \in PosMin .. PosMax)
            => target' = tele']_vars
=============================================================================
