--------------------------- MODULE DriverController ---------------------------
(***************************************************************************)
(* DriverController, the driver of arms behind a vendor controller box     *)
(* (Trossen), with the ServoController views the joints use.  Two threads: *)
(* the control thread, which queues modes and commands and flushes them    *)
(* with group_write_hardware_values(), and the stall watchdog, which idles *)
(* the arm when the control thread stops talking to the driver.  A vendor  *)
(* call is a step of its own, because no lock covers it: the other thread  *)
(* may run before and after each one.                                      *)
(***************************************************************************)
EXTENDS Integers, FiniteSets

CONSTANTS
    NumJoints,      \* joints of the controller; the last one is the gripper
    StallTimeout,   \* CONTROLLER_STALL_WATCHDOG_TIMEOUT_MS, in ticks
    VendorFaults    \* vendor calls that may fail in this instance

VendorCalls == {"connect", "count", "read", "modes", "write", "idle", "cleanup"}

ASSUME NumJointsAssumption == NumJoints \in Nat \ {0, 1}
ASSUME StallTimeoutAssumption == StallTimeout \in Nat \ {0}
ASSUME VendorFaultsAssumption == VendorFaults \subseteq VendorCalls

Joints == 1 .. NumJoints

Modes == {"UNSET", "POSITION", "EFFORT"}
DriveModes == Modes \ {"UNSET"}
VendorModes == {"idle", "position", "external_effort"}

\* A joint nobody asked a mode for is idle on the controller.
VendorMode(mode) ==
    CASE mode = "POSITION" -> "position"
      [] mode = "EFFORT"   -> "external_effort"
      [] mode = "UNSET"    -> "idle"

VARIABLES
    ctl,        \* where the control thread is
    opened,     \* opened_
    reads,      \* read_success_count_ > 0
    desired,    \* desired_modes_
    dirty,      \* modes_dirty_
    queued,     \* commands_: the mode of each pending command, UNSET if none
    local,      \* the flush's own copies: modes to apply, commands to write
    madeSafe,   \* made_safe_
    safeLock,   \* holder of safe_mutex_
    armed,      \* watchdog_running_
    wd,         \* where the watchdog thread is
    tripped,    \* watchdog_tripped_
    idleTime,   \* time since last_interaction_ms_, saturated
    toPark,     \* servos whose park_safely() is still to be called
    vendor,     \* control mode of every joint on the vendor's side
    idleFailed  \* history: the vendor's last idle request failed

commandVars == <<desired, dirty, queued>>
safeVars == <<madeSafe, safeLock>>
watchdogVars == <<armed, wd, tripped, idleTime>>
controllerVars == <<ctl, opened, reads, commandVars, local, safeVars, watchdogVars,
          toPark, vendor, idleFailed>>

NoModes == [j \in Joints |-> "UNSET"]
NoFlush == [apply |-> FALSE, modes |-> NoModes, commands |-> NoModes]

ControlPhases == {"down", "failed", "connected", "outside", "copied", "applied",
                  "writing", "parking", "joining", "closing", "closed"}
WatchdogPhases == {"off", "sleeping", "tripped", "idled"}

ControllerTypeOK ==
    /\ ctl \in ControlPhases
    /\ opened \in BOOLEAN
    /\ reads \in BOOLEAN
    /\ desired \in [Joints -> Modes]
    /\ dirty \in BOOLEAN
    /\ queued \in [Joints -> Modes]
    /\ local \in [apply : BOOLEAN, modes : [Joints -> Modes],
                  commands : [Joints -> Modes]]
    /\ madeSafe \in BOOLEAN
    /\ safeLock \in {"free", "control", "watchdog"}
    /\ armed \in BOOLEAN
    /\ wd \in WatchdogPhases
    /\ tripped \in BOOLEAN
    /\ idleTime \in 0 .. StallTimeout + 1
    /\ toPark \in 0 .. NumJoints
    /\ vendor \in [Joints -> VendorModes]
    /\ idleFailed \in BOOLEAN

\* A controller may still be in the modes a killed session left it in.
ControllerInit ==
    /\ ctl = "down"
    /\ opened = FALSE /\ reads = FALSE
    /\ desired = NoModes /\ dirty = FALSE /\ queued = NoModes
    /\ local = NoFlush
    /\ madeSafe = FALSE /\ safeLock = "free"
    /\ armed = FALSE /\ wd = "off" /\ tripped = FALSE /\ idleTime = 0
    /\ toPark = NumJoints
    /\ vendor \in {[j \in Joints |-> m] : m \in VendorModes}
    /\ idleFailed = FALSE

AllIdle == [j \in Joints |-> "idle"]
Passive == vendor = AllIdle
Pending(commands) == {j \in Joints : commands[j] # "UNSET"}

\* TrossenArmShim turns what a vendor call raises into a failed call.
Succeeds(call) == IF call \in VendorFaults THEN BOOLEAN ELSE {TRUE}

-----------------------------------------------------------------------------
(***************************************************************************)
(* open(): the connection is made; a controller without joints is dropped  *)
(* again.  Then the first whole-arm read decides: if it fails, open()      *)
(* closes the driver.                                                      *)
(***************************************************************************)
Connect ==
    /\ ctl = "down"
    /\ \E ok \in Succeeds("connect"), count \in Succeeds("count") :
          /\ ctl' = IF ok /\ count THEN "connected" ELSE "failed"
          /\ opened' = (ok /\ count)
    /\ UNCHANGED <<reads, commandVars, local, safeVars, watchdogVars, toPark,
                   vendor, idleFailed>>

FirstRead ==
    /\ ctl = "connected"
    /\ \E ok \in Succeeds("read") :
          /\ reads' = ok
          /\ idleTime' = IF ok THEN 0 ELSE idleTime
          /\ ctl' = IF ok THEN "outside" ELSE "joining"
    /\ UNCHANGED <<opened, commandVars, local, safeVars, armed, wd, tripped,
                   toPark, vendor, idleFailed>>

(***************************************************************************)
(* What the device does between two flushes: read the whole arm, ask for   *)
(* modes (start_hardware(), change_control_mode_for_*()) and queue         *)
(* positions or efforts joint by joint.  A command for another mode than   *)
(* the one asked for is refused and changes nothing.                       *)
(***************************************************************************)
ReadController ==
    /\ ctl = "outside" /\ opened
    /\ idleTime' = 0
    /\ UNCHANGED <<ctl, opened, reads, commandVars, local, safeVars, armed, wd,
                   tripped, toPark, vendor, idleFailed>>

SetJointCommandMode(j, mode) ==
    /\ ctl = "outside" /\ mode # desired[j]
    /\ desired' = [desired EXCEPT ![j] = mode]
    /\ dirty' = TRUE
    /\ queued' = [queued EXCEPT ![j] = "UNSET"]
    /\ UNCHANGED <<ctl, opened, reads, local, safeVars, watchdogVars, toPark,
                   vendor, idleFailed>>

\* queue_position() and queue_external_effort().
QueueCommand(j, mode) ==
    /\ ctl = "outside"
    /\ desired[j] = mode
    /\ queued' = [queued EXCEPT ![j] = mode]
    /\ UNCHANGED <<ctl, opened, reads, desired, dirty, local, safeVars,
                   watchdogVars, toPark, vendor, idleFailed>>

(***************************************************************************)
(* group_write_hardware_values(), step by step.  The trip flag is tested   *)
(* once, on entry; what is pending is copied and cleared under             *)
(* command_mutex_; then come the vendor calls.                             *)
(***************************************************************************)
BeginFlush ==
    /\ ctl = "outside" /\ ~tripped
    /\ local' = [apply |-> dirty, modes |-> desired, commands |-> queued]
    /\ dirty' = FALSE
    /\ queued' = NoModes
    /\ ctl' = IF dirty THEN "copied" ELSE "writing"
    /\ UNCHANGED <<opened, reads, desired, safeVars, watchdogVars, toPark,
                   vendor, idleFailed>>

\* vendor_apply_command_modes(); a failure restores the dirty flag and ends
\* the flush, with the commands that were copied.
ApplyModes ==
    /\ ctl = "copied"
    /\ \/ /\ vendor' = [j \in Joints |-> VendorMode(local.modes[j])]
          /\ ctl' = "applied"
          /\ UNCHANGED <<dirty, local>>
       \/ /\ "modes" \in VendorFaults
          /\ dirty' = TRUE
          /\ ctl' = "outside"
          /\ local' = NoFlush
          /\ UNCHANGED vendor
    /\ UNCHANGED <<opened, reads, desired, queued, safeVars, watchdogVars,
                   toPark, idleFailed>>

\* The seeded bug that leaves the latch of an earlier make_safe() set.
KeepSafeLatch ==
    /\ ctl = "applied" /\ safeLock = "free"
    /\ ctl' = "writing"
    /\ UNCHANGED <<opened, reads, commandVars, local, safeVars, watchdogVars,
                   toPark, vendor, idleFailed>>

\* "The arm is active again": the latch is cleared under safe_mutex_.
ClearSafeLatch ==
    /\ ctl = "applied" /\ safeLock = "free"
    /\ madeSafe' = FALSE
    /\ ctl' = "writing"
    /\ UNCHANGED <<opened, reads, commandVars, local, safeLock, watchdogVars,
                   toPark, vendor, idleFailed>>

\* vendor_write_commands(): one transaction for the arm joints if all of them
\* carry the same kind of command, else one per joint in joint order, then
\* the gripper; the first one that raises ends it.  The controller takes a
\* command only in the mode it belongs to.
Rejected ==
    {j \in Pending(local.commands) : VendorMode(local.commands[j]) # vendor[j]}

VendorWriteCommands == IF Rejected # {} THEN {FALSE} ELSE Succeeds("write")

WriteCommands ==
    /\ ctl = "writing"
    /\ \E ok \in IF Pending(local.commands) = {} THEN {TRUE} ELSE VendorWriteCommands :
          idleTime' = IF ok THEN 0 ELSE idleTime
    /\ local' = NoFlush
    /\ ctl' = "outside"
    /\ UNCHANGED <<opened, reads, commandVars, safeVars, armed, wd, tripped,
                   toPark, vendor, idleFailed>>

(***************************************************************************)
(* make_safe(): under safe_mutex_, the vendor is asked to idle the arm     *)
(* unless that was done already; then the latch is set and the command     *)
(* buffers are emptied.  Both threads run it.                              *)
(***************************************************************************)
SafeAlready == madeSafe \/ ~opened

IdleVendor(thread, ok) ==
    /\ safeLock = "free" /\ ~SafeAlready
    /\ vendor' = IF ok THEN AllIdle ELSE vendor
    /\ idleFailed' = ~ok
    /\ safeLock' = IF ok THEN thread ELSE "free"
    /\ UNCHANGED madeSafe

LatchSafe(thread) ==
    /\ safeLock = thread
    /\ madeSafe' = TRUE
    /\ desired' = NoModes /\ dirty' = FALSE /\ queued' = NoModes
    /\ safeLock' = "free"
    /\ UNCHANGED <<vendor, idleFailed>>

(***************************************************************************)
(* Device::stop(): the servos are parked one after the other, the          *)
(* effector's first, each through make_safe(), so a failed attempt is      *)
(* repeated for the next servo.  Then close() joins the watchdog, makes    *)
(* safe if that has not worked yet, and disconnects whatever happened.     *)
(***************************************************************************)
ParkArm ==
    /\ ctl = "outside"
    /\ ctl' = "parking"
    /\ UNCHANGED <<opened, reads, commandVars, local, safeVars, watchdogVars,
                   toPark, vendor, idleFailed>>

NextParkedServo == toPark' = IF ctl = "parking" THEN toPark - 1 ELSE toPark

MakingSafe == ctl = "closing" \/ (ctl = "parking" /\ toPark > 0)

IdleFromControl ==
    /\ MakingSafe
    /\ \E ok \in Succeeds("idle") :
          /\ IdleVendor("control", ok)
          /\ IF ok THEN UNCHANGED toPark ELSE NextParkedServo
          /\ IF ~ok /\ ctl = "closing"
               THEN ctl' = "closed" /\ opened' = FALSE
               ELSE UNCHANGED <<ctl, opened>>
    /\ UNCHANGED <<reads, commandVars, local, watchdogVars>>

LatchFromControl ==
    /\ LatchSafe("control")
    /\ NextParkedServo
    /\ UNCHANGED <<ctl, opened, reads, local, watchdogVars>>

AlreadySafe ==
    /\ ctl = "parking" /\ toPark > 0 /\ safeLock = "free" /\ SafeAlready
    /\ NextParkedServo
    /\ UNCHANGED <<ctl, opened, reads, commandVars, local, safeVars,
                   watchdogVars, vendor, idleFailed>>

Parked ==
    /\ ctl = "parking" /\ toPark = 0
    /\ ctl' = "joining"
    /\ UNCHANGED <<opened, reads, commandVars, local, safeVars, watchdogVars,
                   toPark, vendor, idleFailed>>

StopWatchdog ==
    /\ ctl = "joining" /\ armed
    /\ armed' = FALSE
    /\ UNCHANGED <<ctl, opened, reads, commandVars, local, safeVars, wd,
                   tripped, idleTime, toPark, vendor, idleFailed>>

Joined ==
    /\ ctl = "joining" /\ ~armed /\ wd = "off"
    /\ ctl' = "closing"
    /\ UNCHANGED <<opened, reads, commandVars, local, safeVars, watchdogVars,
                   toPark, vendor, idleFailed>>

\* vendor_disconnect(): its failure is reported, the driver is closed anyway.
Disconnect ==
    /\ ctl = "closing" /\ safeLock = "free" /\ SafeAlready
    /\ opened' = FALSE
    /\ ctl' = "closed"
    /\ UNCHANGED <<reads, commandVars, local, safeVars, watchdogVars, toPark,
                   vendor, idleFailed>>

-----------------------------------------------------------------------------
(***************************************************************************)
(* The stall watchdog: armed once, it wakes up every period, compares the  *)
(* time since the last interaction with the limit, and reacts once.        *)
(***************************************************************************)
ArmCommLossProtection ==
    /\ ctl = "outside" /\ ~armed
    /\ armed' = TRUE
    /\ wd' = "sleeping"
    /\ idleTime' = 0
    /\ UNCHANGED <<ctl, opened, reads, commandVars, local, safeVars, tripped,
                   toPark, vendor, idleFailed>>

\* The seeded bug that compares with the limit the wrong way round.
StallsNever == FALSE

Stalled == idleTime > StallTimeout /\ ~tripped

Trip ==
    /\ wd = "sleeping" /\ armed
    /\ Stalled
    /\ tripped' = TRUE
    /\ wd' = "tripped"
    /\ UNCHANGED <<ctl, opened, reads, commandVars, local, safeVars, armed,
                   idleTime, toPark, vendor, idleFailed>>

\* The watchdog's make_safe(); it does not look at the result.
IdleFromWatchdog ==
    /\ wd = "tripped" /\ safeLock = "free"
    /\ \/ /\ SafeAlready
          /\ wd' = "sleeping"
          /\ UNCHANGED <<vendor, idleFailed, safeVars>>
       \/ \E ok \in Succeeds("idle") :
             /\ IdleVendor("watchdog", ok)
             /\ wd' = IF ok THEN "idled" ELSE "sleeping"
    /\ UNCHANGED <<ctl, opened, reads, commandVars, local, armed, tripped,
                   idleTime, toPark>>

LatchFromWatchdog ==
    /\ wd = "idled"
    /\ LatchSafe("watchdog")
    /\ wd' = "sleeping"
    /\ UNCHANGED <<ctl, opened, reads, local, armed, tripped, idleTime, toPark>>

WatchdogExits ==
    /\ wd = "sleeping" /\ ~armed
    /\ wd' = "off"
    /\ UNCHANGED <<ctl, opened, reads, commandVars, local, safeVars, armed,
                   tripped, idleTime, toPark, vendor, idleFailed>>

Tick ==
    /\ armed /\ idleTime <= StallTimeout
    /\ idleTime' = idleTime + 1
    /\ UNCHANGED <<ctl, opened, reads, commandVars, local, safeVars, armed, wd,
                   tripped, toPark, vendor, idleFailed>>

ControllerTerminated == ctl \in {"failed", "closed"} /\ UNCHANGED controllerVars

Watchdog == Trip \/ IdleFromWatchdog \/ LatchFromWatchdog \/ WatchdogExits

Flush == BeginFlush \/ ApplyModes \/ ClearSafeLatch \/ WriteCommands

Shutdown == \/ Parked \/ IdleFromControl \/ LatchFromControl \/ AlreadySafe
            \/ StopWatchdog \/ Joined \/ Disconnect

Control ==
    \/ Connect \/ FirstRead \/ ReadController \/ Flush \/ ParkArm \/ Shutdown
    \/ ArmCommLossProtection
    \/ \E j \in Joints, mode \in DriveModes :
          SetJointCommandMode(j, mode) \/ QueueCommand(j, mode)

ControllerNext == Control \/ Watchdog \/ Tick \/ ControllerTerminated

(***************************************************************************)
(* The watchdog thread is always scheduled again, and Device::stop() runs  *)
(* to its end; nothing is assumed of the control loop, which may stall     *)
(* anywhere, inside a flush too.                                           *)
(***************************************************************************)
ControllerSpec ==
    /\ ControllerInit /\ [][ControllerNext]_controllerVars
    /\ WF_controllerVars(Watchdog) /\ WF_controllerVars(Shutdown)

-----------------------------------------------------------------------------
(***************************************************************************)
(* As long as the watchdog has not tripped, a flush sends every command to *)
(* a joint that is in the mode the command was queued for, even after a    *)
(* mode change that failed: "retries the mode change before any command is *)
(* interpreted under a stale mode" (group_write_hardware_values()).        *)
(***************************************************************************)
CommandInItsMode == ctl = "writing" /\ ~tripped => Rejected = {}

(***************************************************************************)
(* The made_safe_ latch never stands for an arm that is active, except     *)
(* between a flush's mode change and the moment it clears the latch: a     *)
(* later park_safely() or close() would skip an arm that still moves.      *)
(***************************************************************************)
SafeLatchHolds == madeSafe /\ ctl # "applied" => Passive

(***************************************************************************)
(* A driver that was open and is closed leaves a passive arm behind,       *)
(* unless the controller refused the last idle request: "the controller    *)
(* never keeps executing the last streamed command" (close()), whatever    *)
(* the watchdog and a flush did in between.                                *)
(***************************************************************************)
ClosedArmIsPassive == ctl = "closed" /\ ~idleFailed => Passive

(***************************************************************************)
(* A control loop that stops talking to the driver gets its arm idled once *)
(* wherever it stalls, unless it comes back, shuts down or the controller  *)
(* refuses (watchdog_loop()).                                              *)
(***************************************************************************)
StallIsCaught ==
    (armed /\ ~tripped /\ idleTime > StallTimeout) ~>
        (Passive \/ idleTime <= StallTimeout \/ ~armed \/ idleFailed)

(***************************************************************************)
(* A shutdown ends: joining the watchdog never waits for a thread that     *)
(* waits for the shutdown (close() against make_safe() in the watchdog).   *)
(***************************************************************************)
ShutdownEnds == ctl = "parking" ~> ctl = "closed"

(***************************************************************************)
(* Whatever the control thread, the watchdog and the controller's refusals *)
(* do to each other: a command goes out in its mode, and an arm that       *)
(* counts as safe or closed is passive.                                    *)
(***************************************************************************)
ControllerIsSafe ==
    ControllerTypeOK /\ CommandInItsMode /\ SafeLatchHolds /\ ClosedArmIsPassive
=============================================================================
