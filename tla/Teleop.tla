------------------------------- MODULE Teleop -------------------------------
(***************************************************************************)
(* A leader/follower pair in Python: TeleopPair.engage(), disengage(),     *)
(* cancel_engage() and set_force_feedback_gain(), and ArmSession.connect() *)
(* and close(), called from three threads while either arm's node process  *)
(* may die or its reader may fail.  A call on an arm is one action (it is  *)
(* serialised by the locks of the arm) that may fail, with or without its  *)
(* effect.  Lifecycle locks of the arms are held over several actions only *)
(* by _enable().                                                           *)
(***************************************************************************)
EXTENDS Naturals

CONSTANT AlignSteps     \* max_alignment_duration_s, in alignment steps

ASSUME AlignAssumption == AlignSteps \in Nat

Arms == {"leader", "follower"}
Threads == {"engage", "stop", "session"}
Unlocked == "no one"

\* What a _rollback() expects of _engagement_generation, which only grows:
\* nothing (None), the current value, or a value it has left behind.
Expectations == {"any", "current", "past"}

VARIABLES
    conn,       \* per arm: connected (_capabilities, set by connect() and reset
                \* by close(), and _backend._is_connected())
    changed,    \* arms whose _connection_generation is not the one in
                \* _engagement_arm_generations; it only grows too
    bilateral,  \* the leader's node is in bilateral mode
    live,       \* the follower's node follows the leader's stream
    moving,     \* the follower's node pursues a target of the alignment
    engaged,    \* _engaged
    inProgress, \* _engage_in_progress
    needs,      \* _needs_rollback
    blocked,    \* _engagement_blocked
    cancel,     \* _align_cancel
    cleanup,    \* holder of _cleanup_lock
    at,         \* per thread: where its call is
    ret,        \* per thread: where _rollback() returns to
    want,       \* per thread: expected_generation of _rollback()
    failed,     \* cleanup_failed of the _rollback() that holds the lock
    steps,      \* alignment steps taken
    fresh,      \* newly_connected of ArmSession.connect()
    overtaken   \* history: the rollback of a rejected gain came late and took
                \* the _needs_rollback of a later engagement's alignment

armVars == <<conn, changed, bilateral, live, moving>>
pairVars == <<engaged, inProgress, needs, blocked, cancel>>
threadVars == <<cleanup, at, ret, want, failed, steps, fresh, overtaken>>
teleopVars == <<armVars, pairVars, threadVars>>

SessionPCs == {"idle", "pause", "float", "align", "command", "enable",
        "on", "resume", "mark", "finish", "cancel", "rollback", "rbFollower",
        "rbLeader", "drain", "closeLeader", "closeFollower", "connectFollower",
        "pauseFollower", "connectLeader", "floatLeader", "abort"}

\* Types of all variables.
TeleopTypeOK ==
    /\ conn \in [Arms -> BOOLEAN]
    /\ changed \subseteq Arms
    /\ {bilateral, live, moving, engaged, inProgress, needs, blocked, cancel, overtaken}
        \subseteq BOOLEAN
    /\ cleanup \in Threads \cup {Unlocked}
    /\ at \in [Threads -> SessionPCs] /\ ret \in [Threads -> SessionPCs]
    /\ want \in [Threads -> Expectations]
    /\ failed \in BOOLEAN
    /\ steps \in 0 .. AlignSteps
    /\ fresh \subseteq Arms

TeleopInit ==
    /\ conn = [a \in Arms |-> FALSE]
    /\ changed = Arms
    /\ bilateral = FALSE /\ live = FALSE /\ moving = FALSE
    /\ engaged = FALSE /\ inProgress = FALSE /\ needs = FALSE
    /\ blocked = FALSE /\ cancel = FALSE
    /\ cleanup = Unlocked
    /\ at = [t \in Threads |-> "idle"] /\ ret = [t \in Threads |-> "idle"]
    /\ want = [t \in Threads |-> "any"] /\ failed = FALSE
    /\ steps = 0 /\ fresh = {} /\ overtaken = FALSE

GotoStep(t, l) == at' = [at EXCEPT ![t] = l]

\* _assert_connection_generation()
Current(a) == conn[a] /\ a \notin changed
BothCurrent == \A a \in Arms : Current(a)

\* _rollback(expected_generation) is entered, to continue at l.
Rollback(t, expected, l) ==
    /\ GotoStep(t, "rollback")
    /\ ret' = [ret EXCEPT ![t] = l]
    /\ want' = [want EXCEPT ![t] = expected]

-----------------------------------------------------------------------------
(***************************************************************************)
(* Calls on the arms: what a successful call does, and a failed call that  *)
(* may have had its effect all the same.                                   *)
(***************************************************************************)
SetLive(v, ok) == /\ ok => conn["follower"]
                  /\ live' \in IF ok THEN {v}
                               ELSE {live} \cup (IF conn["follower"] THEN {v} ELSE {})
SetBilateral(v, ok) == /\ ok => conn["leader"]
                       /\ bilateral' \in IF ok THEN {v}
                                         ELSE {bilateral} \cup (IF conn["leader"] THEN {v} ELSE {})

\* The node of an arm that is gone, or that has just started, is idle.
Idle(as) == /\ bilateral' = (bilateral /\ "leader" \notin as)
            /\ live' = (live /\ "follower" \notin as)
            /\ moving' = (moving /\ "follower" \notin as)

\* Python loses an arm: its process dies, or its reader fails, after which no
\* heartbeat reaches the node and its watchdog idles it; no call reaches that
\* node again, for connect() closes the old process.
LoseArm(a) ==
    /\ conn[a]
    /\ conn' = [conn EXCEPT ![a] = FALSE]
    /\ Idle({a})
    /\ UNCHANGED <<changed, pairVars, threadVars>>

-----------------------------------------------------------------------------
(***************************************************************************)
(* engage()                                                                *)
(***************************************************************************)
\* _begin_engage() admits the engagement.
BeginEngage ==
    /\ at["engage"] = "idle" /\ cleanup = Unlocked
    /\ ~blocked /\ \A a \in Arms : conn[a]
    /\ ~engaged /\ ~inProgress
    /\ changed' = {}
    /\ inProgress' = TRUE /\ needs' = TRUE /\ cancel' = FALSE /\ overtaken' = FALSE
    /\ want' = [t \in Threads |-> IF want[t] = "current" THEN "past" ELSE want[t]]
    /\ GotoStep("engage", "pause")
    /\ UNCHANGED <<conn, bilateral, live, moving, engaged, blocked, cleanup, ret,
                   failed, steps, fresh>>

\* A refused engage() disengages before it raises.
RefuseEngage ==
    /\ at["engage"] = "idle" /\ cleanup = Unlocked
    /\ \/ blocked
       \/ \E a \in Arms : ~conn[a]
       \/ engaged /\ (~BothCurrent \/ ~bilateral)
    /\ cancel' = TRUE
    /\ Rollback("engage", "current", "idle")
    /\ UNCHANGED <<armVars, engaged, inProgress, needs, blocked,
                   cleanup, failed, steps, fresh, overtaken>>

\* _raise_if_alignment_cancelled() raises.
Cancelled ==
    /\ at["engage"] \in {"float", "align", "enable"}
    /\ cancel \/ ~BothCurrent
    /\ needs' = (needs \/ cancel)
    /\ Rollback("engage", "any", "finish")
    /\ UNCHANGED <<armVars, engaged, inProgress, blocked, cancel,
                   cleanup, failed, steps, fresh, overtaken>>
MayProceed == ~cancel /\ BothCurrent

\* Move on, or roll back after an exception; _enable() drops its locks.
Proceed(l, ok) ==
    /\ IF ok THEN GotoStep("engage", l) /\ UNCHANGED <<ret, want>>
             ELSE Rollback("engage", "any", "finish")
    /\ cleanup' = IF ~ok /\ cleanup = "engage" THEN Unlocked ELSE cleanup

\* _align(): the follower is paused first, whatever was cancelled meanwhile.
PauseToAlign ==
    /\ at["engage"] = "pause"
    /\ \E ok \in BOOLEAN : SetLive(FALSE, ok) /\ Proceed("float", ok)
    /\ UNCHANGED <<conn, changed, bilateral, moving, pairVars,
                   failed, steps, fresh, overtaken>>

FloatToAlign ==
    /\ at["engage"] = "float" /\ MayProceed
    /\ \E ok \in BOOLEAN : SetBilateral(FALSE, ok) /\ Proceed("align", ok)
    /\ UNCHANGED <<conn, changed, live, moving, pairVars,
                   failed, steps, fresh, overtaken>>

\* _validate_pair() and the turns of the loop: a stale state, a leader that
\* jumps and the time limit raise; otherwise the arms are aligned, or the
\* follower gets the next target.
Align ==
    /\ at["engage"] = "align" /\ MayProceed
    /\ \/ Proceed("align", FALSE)
       \/ Proceed("enable", TRUE)
       \/ steps < AlignSteps /\ Proceed("command", TRUE)
    /\ UNCHANGED <<armVars, pairVars, failed, steps, fresh, overtaken>>

\* FollowerArm.command() goes to whatever connection the arm now has.
CommandFollower ==
    /\ at["engage"] = "command"
    /\ Proceed("align", conn["follower"])
    /\ moving' = (moving \/ conn["follower"])
    /\ steps' = steps + 1
    /\ UNCHANGED <<conn, changed, bilateral, live, pairVars, failed, fresh, overtaken>>

\* _enable(): the cleanup lock and both lifecycle locks, and a last check.
Enable ==
    /\ at["engage"] = "enable" /\ cleanup = Unlocked /\ MayProceed
    /\ cleanup' = "engage" /\ steps' = 0
    /\ GotoStep("engage", "on")
    /\ UNCHANGED <<armVars, pairVars, ret, want, failed, fresh, overtaken>>
ArmsLocked == at["engage"] \in {"on", "resume", "mark"}

EnableFeedback ==
    /\ at["engage"] = "on"
    /\ \E ok \in BOOLEAN : SetBilateral(TRUE, ok) /\ Proceed("resume", ok)
    /\ UNCHANGED <<conn, changed, live, moving, pairVars,
                   failed, steps, fresh, overtaken>>

\* The leader's stream replaces the last target of the alignment.
ResumeLive ==
    /\ at["engage"] = "resume"
    /\ \/ ~BothCurrent /\ Proceed("mark", FALSE) /\ UNCHANGED <<live, moving>>
       \/ /\ BothCurrent
          /\ \E ok \in BOOLEAN :
                /\ SetLive(TRUE, ok) /\ Proceed("mark", ok)
                /\ moving' = (moving /\ ~live')
    /\ UNCHANGED <<conn, changed, bilateral, pairVars, failed, steps, fresh, overtaken>>

\* _mark_engaged(), with which _enable() returns and drops its locks.
MarkEngaged ==
    /\ at["engage"] = "mark"
    /\ \/ /\ ~BothCurrent
          /\ Proceed("finish", FALSE)
          /\ UNCHANGED engaged
       \/ /\ BothCurrent
          /\ engaged' = TRUE
          /\ cleanup' = Unlocked
          /\ GotoStep("engage", "finish")
          /\ UNCHANGED <<ret, want>>
    /\ UNCHANGED <<armVars, inProgress, needs, blocked, cancel, failed,
                   steps, fresh, overtaken>>

\* _finish_engage(), under no lock but that of the flag.
FinishEngage ==
    /\ at["engage"] = "finish"
    /\ inProgress' = FALSE /\ steps' = 0
    /\ GotoStep("engage", "idle")
    /\ UNCHANGED <<armVars, engaged, needs, blocked, cancel, cleanup, ret, want,
                   failed, fresh, overtaken>>

-----------------------------------------------------------------------------
(***************************************************************************)
(* _rollback(): under the cleanup lock, each leg on its own.               *)
(***************************************************************************)
ReturnTo(t) ==
    /\ GotoStep(t, ret[t])
    /\ ret' = [ret EXCEPT ![t] = "idle"] /\ want' = [want EXCEPT ![t] = "any"]

\* The rollback of a rejected gain expects no generation: when another thread
\* has disengaged meanwhile, it meets the alignment of the next engagement.
MeetsAlignment(t) == t = "stop" /\ want[t] = "any" /\ ~engaged /\ inProgress

EnterRollback(t) ==
    /\ at[t] = "rollback" /\ cleanup = Unlocked
    /\ IF needs /\ want[t] # "past"
       THEN /\ cleanup' = t
            /\ needs' = FALSE /\ engaged' = FALSE
            /\ overtaken' = (overtaken \/ MeetsAlignment(t))
            /\ GotoStep(t, "rbFollower")
            /\ UNCHANGED <<ret, want>>
       ELSE /\ ReturnTo(t)
            /\ UNCHANGED <<cleanup, needs, engaged, overtaken>>
    /\ UNCHANGED <<armVars, inProgress, blocked, cancel, failed, steps, fresh>>

\* Pause, then hold, even when the pause failed.
RollBackFollower(t) ==
    /\ at[t] = "rbFollower"
    /\ \/ /\ Current("follower")
          /\ \E paused, held \in BOOLEAN :
                /\ SetLive(FALSE, paused)
                /\ moving' \in IF held THEN {FALSE} ELSE {moving, FALSE}
                /\ failed' = (~paused \/ ~held)
       \/ ~Current("follower") /\ UNCHANGED <<live, moving, failed>>
    /\ GotoStep(t, "rbLeader")
    /\ UNCHANGED <<conn, changed, bilateral, pairVars, cleanup,
                   ret, want, steps, fresh, overtaken>>

RollBackLeaderOnce(t) ==
    /\ at[t] = "rbLeader"
    /\ \/ Current("leader") /\ \E ok \in BOOLEAN : SetBilateral(FALSE, ok)
       \/ ~Current("leader") /\ UNCHANGED bilateral
    /\ cleanup' = Unlocked /\ failed' = FALSE
    /\ ReturnTo(t)
    /\ UNCHANGED <<conn, changed, live, moving, pairVars, steps, fresh, overtaken>>

RollBackLeader(t) ==
    /\ at[t] = "rbLeader"
    /\ \/ /\ Current("leader")
          /\ \E ok \in BOOLEAN :
                /\ SetBilateral(FALSE, ok)
                /\ needs' = (needs \/ failed \/ ~ok)
       \/ /\ ~Current("leader")
          /\ needs' = (needs \/ failed)
          /\ UNCHANGED bilateral
    /\ cleanup' = Unlocked /\ failed' = FALSE
    /\ ReturnTo(t)
    /\ UNCHANGED <<conn, changed, live, moving, engaged, inProgress, blocked,
                   cancel, steps, fresh, overtaken>>

-----------------------------------------------------------------------------
(***************************************************************************)
(* disengage(), cancel_engage(), set_force_feedback_gain()                 *)
(***************************************************************************)
\* The generation is read first; it may be an older one when cancel is set.
Disengage(t) ==
    /\ t = "stop" /\ at[t] = "idle"
    /\ want' = [want EXCEPT ![t] = "current"]
    /\ GotoStep(t, "cancel")
    /\ UNCHANGED <<armVars, pairVars, cleanup, ret, failed, steps, fresh, overtaken>>

CancelThenRollBack(t) ==
    /\ at[t] = "cancel"
    /\ cancel' = TRUE
    /\ GotoStep(t, "rollback")
    /\ UNCHANGED <<armVars, engaged, inProgress, needs, blocked,
                   cleanup, ret, want, failed, steps, fresh, overtaken>>

CancelEngage ==
    /\ at["stop"] = "idle" /\ inProgress /\ ~cancel
    /\ cancel' = TRUE
    /\ UNCHANGED <<armVars, engaged, inProgress, needs, blocked,
                   threadVars>>

\* Only a rejected change of the gain has an effect on the pair.
RejectGain ==
    /\ at["stop"] = "idle" /\ cleanup = Unlocked /\ engaged
    /\ Rollback("stop", "any", "idle")
    /\ UNCHANGED <<armVars, pairVars, cleanup, failed, steps, fresh, overtaken>>

-----------------------------------------------------------------------------
(***************************************************************************)
(* ArmSession.close() and connect()                                        *)
(***************************************************************************)
\* _connections_are_current()
PairIsCurrent ==
    /\ \A a \in Arms : conn[a]
    /\ engaged \/ inProgress => BothCurrent
    /\ engaged => bilateral

\* _block_engagement() up to its wait for the cleanup lock.
Block(l) ==
    /\ blocked' = TRUE /\ cancel' = TRUE
    /\ GotoStep("session", "drain")
    /\ ret' = [ret EXCEPT !["session"] = l]

CloseSession ==
    /\ at["session"] = "idle"
    /\ Block("closeLeader")
    /\ UNCHANGED <<armVars, engaged, inProgress, needs, cleanup,
                   want, failed, steps, fresh, overtaken>>

ConnectSession ==
    /\ at["session"] = "idle"
    /\ fresh' = {}
    /\ IF PairIsCurrent
       THEN GotoStep("session", "connectFollower") /\ UNCHANGED <<blocked, cancel, ret>>
       ELSE Block("connectFollower")
    /\ UNCHANGED <<armVars, engaged, inProgress, needs, cleanup,
                   want, failed, steps, overtaken>>

\* The transition that held the lock is over; then disengage().
Drained ==
    /\ at["session"] = "drain" /\ cleanup = Unlocked
    /\ want' = [want EXCEPT !["session"] = "current"]
    /\ GotoStep("session", "cancel")
    /\ UNCHANGED <<armVars, pairVars, cleanup, ret, failed, steps, fresh, overtaken>>

\* _Arm.close(): whether or not the backend's close raised.
Closed(as) ==
    /\ conn' = [a \in Arms |-> conn[a] /\ a \notin as]
    /\ changed' = changed \cup as
    /\ Idle(as)

CloseArms ==
    /\ at["session"] \in {"closeLeader", "closeFollower"} /\ ~ArmsLocked
    /\ IF at["session"] = "closeLeader"
       THEN Closed({"leader"}) /\ GotoStep("session", "closeFollower")
       ELSE Closed({"follower"}) /\ GotoStep("session", "idle")
    /\ UNCHANGED <<pairVars, cleanup, ret, want, failed, steps, fresh, overtaken>>

\* _Arm.connect(), which leaves a connected arm alone; the old process, if
\* it still runs, is closed first.
ConnectArm(a, l, after) ==
    /\ ~ArmsLocked
    /\ \/ /\ conn[a]
          /\ GotoStep("session", after)
          /\ UNCHANGED <<conn, changed, bilateral, live, moving, fresh>>
       \/ /\ ~conn[a]
          /\ conn' = [conn EXCEPT ![a] = TRUE]
          /\ changed' = changed \cup {a}
          /\ Idle({a})
          /\ fresh' = fresh \cup {a}
          /\ GotoStep("session", l)
       \/ /\ ~conn[a]
          /\ Idle({a})
          /\ GotoStep("session", "abort")
          /\ UNCHANGED <<conn, changed, fresh>>

ConnectFollower ==
    /\ at["session"] = "connectFollower"
    /\ ConnectArm("follower", "pauseFollower", "connectLeader")
    /\ UNCHANGED <<pairVars, cleanup, ret, want, failed, steps, overtaken>>

PauseFollower ==
    /\ at["session"] = "pauseFollower"
    /\ \E ok \in BOOLEAN :
        SetLive(FALSE, ok) /\ GotoStep("session", IF ok THEN "connectLeader" ELSE "abort")
    /\ UNCHANGED <<conn, changed, bilateral, moving, pairVars,
                   cleanup, ret, want, failed, steps, fresh, overtaken>>

ConnectLeader ==
    /\ at["session"] = "connectLeader"
    /\ ConnectArm("leader", "floatLeader", "finish")
    /\ UNCHANGED <<pairVars, cleanup, ret, want, failed, steps, overtaken>>

FloatLeader ==
    /\ at["session"] = "floatLeader"
    /\ \E ok \in BOOLEAN :
        SetBilateral(FALSE, ok) /\ GotoStep("session", IF ok THEN "finish" ELSE "abort")
    /\ UNCHANGED <<conn, changed, live, moving, pairVars,
                   cleanup, ret, want, failed, steps, fresh, overtaken>>

AllowEngagement ==
    /\ at["session"] = "finish"
    /\ blocked' = FALSE /\ fresh' = {}
    /\ GotoStep("session", "idle")
    /\ UNCHANGED <<armVars, engaged, inProgress, needs, cancel, cleanup, ret,
                   want, failed, steps, overtaken>>

\* A failed connect closes the arms it connected; engagement stays blocked.
AbortConnect ==
    /\ at["session"] = "abort" /\ ~ArmsLocked
    /\ Closed(fresh) /\ fresh' = {}
    /\ GotoStep("session", "idle")
    /\ UNCHANGED <<pairVars, cleanup, ret, want, failed, steps, overtaken>>

-----------------------------------------------------------------------------
RollbackStep(t) == EnterRollback(t) \/ RollBackFollower(t) \/ RollBackLeader(t)

EngageStep ==
    \/ Cancelled \/ PauseToAlign \/ FloatToAlign \/ Align \/ CommandFollower
    \/ Enable \/ EnableFeedback \/ ResumeLive \/ MarkEngaged \/ FinishEngage
    \/ RollbackStep("engage")
StopStep == CancelThenRollBack("stop") \/ RollbackStep("stop")
SessionStep ==
    \/ Drained \/ CancelThenRollBack("session") \/ RollbackStep("session")
    \/ CloseArms \/ ConnectFollower \/ PauseFollower \/ ConnectLeader
    \/ FloatLeader \/ AllowEngagement \/ AbortConnect

TeleopNext ==
    \/ BeginEngage \/ RefuseEngage \/ EngageStep
    \/ Disengage("stop") \/ CancelEngage \/ RejectGain \/ StopStep
    \/ CloseSession \/ ConnectSession \/ SessionStep
    \/ \E a \in Arms : LoseArm(a)

\* Threads are scheduled, and the session's thread obtains a lock that is
\* free again and again.
TeleopSpec ==
    /\ TeleopInit /\ [][TeleopNext]_teleopVars
    /\ WF_teleopVars(EngageStep) /\ WF_teleopVars(StopStep) /\ SF_teleopVars(SessionStep)

-----------------------------------------------------------------------------
(***************************************************************************)
(* A pair that is not engaged, with no transition under way and no failed  *)
(* clean-up to repeat, is safe: a connected follower neither follows the   *)
(* leader nor pursues a target of its alignment, and a connected leader    *)
(* has no force feedback (_rollback(): "Best-effort return to the safe     *)
(* disengaged state").                                                     *)
(***************************************************************************)
DisengagedIsSafe ==
    (~engaged /\ ~inProgress /\ ~needs /\ cleanup = Unlocked) =>
        /\ conn["follower"] => ~live
        /\ Current("follower") => ~moving
        /\ conn["leader"] => ~bilateral

(***************************************************************************)
(* An engaged pair can be disengaged: a rollback would not be skipped,     *)
(* although disengage(), a rejected gain and a failed engagement all       *)
(* consume the same _needs_rollback flag.                                  *)
(***************************************************************************)
EngagedCanRollBack == engaged => needs

(***************************************************************************)
(* Once a closing or reconnecting session has blocked engagement and       *)
(* waited for the transition that was under way, the follower does not     *)
(* start to follow and the leader gets no force feedback before engagement *)
(* is allowed again (_block_engagement()).                                 *)
(***************************************************************************)
BlockedMeansBlocked ==
    (blocked /\ at["session"] \notin {"idle", "drain"}) =>
        (live' => live) /\ (bilateral' => bilateral)

(***************************************************************************)
(* The pair is safe, or engaged in a way that can be taken back, and a     *)
(* session that closes keeps it so.  A pair whose alignment lost its flag  *)
(* to a late rollback of a gain is neither, until the next engagement      *)
(* begins; nothing else of what the three threads do, in any order, has    *)
(* that effect.                                                            *)
(***************************************************************************)
PairIsSafe ==
    [][/\ BlockedMeansBlocked
       /\ (TeleopTypeOK /\ (overtaken \/ (DisengagedIsSafe /\ EngagedCanRollBack)))']_teleopVars

(***************************************************************************)
(* What the tests say of disengage(), "disengage freezes the follower and  *)
(* returns the leader to float" (tests/sil/test_native_sil.py:1129): when  *)
(* it has returned, and no engagement has begun since it was called, the   *)
(* pair is not engaged.                                                    *)
(***************************************************************************)
DisengageDisengages ==
    [][(at["stop"] # "idle" /\ want["stop"] = "current" /\ at'["stop"] = "idle")
        => ~engaged']_teleopVars
=============================================================================
