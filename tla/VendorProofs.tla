---------------------------- MODULE VendorProofs ----------------------------
(***************************************************************************)
(* The arms that a vendor's library drives, each for every value of its    *)
(* constants.  Whatever the control thread, the stall watchdog and the     *)
(* vendor's refusals do to each other, a command of a whole-arm controller *)
(* goes out in its mode, and an arm that counts as safe or closed is       *)
(* passive.  Whatever the main thread, the torque callback and the         *)
(* gripper's thread of an FR3 do to each other, the newest order wins and  *)
(* a dead thread is seen.                                                  *)
(***************************************************************************)
EXTENDS DriverController, FR3, TLAPS

(***************************************************************************)
(* What the two threads owe each other.  The watchdog has tripped before   *)
(* it touches anything, it holds the lock exactly between its vendor call  *)
(* and its latch, and it is gone once the driver is being closed.          *)
(***************************************************************************)
WatchdogOwes ==
    /\ wd \in {"tripped", "idled"} => tripped
    /\ safeLock = "watchdog" <=> wd = "idled"
    /\ ctl \in {"closing", "closed"} => wd = "off"
    /\ ~armed /\ ctl \notin {"joining", "closing", "closed"} => wd = "off"

(***************************************************************************)
(* Only a shutdown makes the control thread take the lock, with a servo    *)
(* left to park while it parks; the driver is open in between.             *)
(***************************************************************************)
ControlOwes ==
    /\ safeLock = "control" => ctl \in {"parking", "closing"}
    /\ safeLock = "control" /\ ctl = "parking" => toPark > 0
    /\ ctl \notin {"down", "failed", "closed"} => opened

(***************************************************************************)
(* A thread between its vendor call and its latch has an idle arm, unless  *)
(* a flush changed the modes and waits for the lock to clear the latch.    *)
(***************************************************************************)
LockMeansIdle == safeLock # "free" /\ ctl # "applied" => Passive

(***************************************************************************)
(* Without a trip, what is queued and what a flush carries agrees with the *)
(* modes asked for, and these with the vendor's unless a change is due.    *)
(***************************************************************************)
QueueFollowsModes == \A j \in Joints : queued[j] # "UNSET" => queued[j] = desired[j]

FlushFollowsModes ==
    ctl \in {"copied", "applied", "writing"} =>
        /\ ~dirty
        /\ \A j \in Joints :
               local.commands[j] # "UNSET" => local.commands[j] = desired[j]
        /\ ctl = "copied" => local.modes = desired

VendorFollowsModes ==
    ctl \in {"down", "connected", "outside", "applied", "writing"} /\ ~dirty =>
        \A j \in Joints : desired[j] # "UNSET" => vendor[j] = VendorMode(desired[j])

ModesAgree == ~tripped => FlushFollowsModes /\ VendorFollowsModes

Threads == WatchdogOwes /\ ControlOwes

ControllerInv ==
    /\ ControllerTypeOK /\ SafeLatchHolds /\ ClosedArmIsPassive
    /\ Threads /\ LockMeansIdle
    /\ QueueFollowsModes /\ ModesAgree

-----------------------------------------------------------------------------
(***************************************************************************)
(* The values the vendor calls and the empty buffers take.                 *)
(***************************************************************************)
LEMMA SucceedsTypes == \A call : Succeeds(call) \subseteq BOOLEAN
  BY DEF Succeeds

(* NoModes and NoFlush, what make_safe() and a finished flush leave behind.  *)
LEMMA NoModesTypes ==
    /\ NoModes \in [Joints -> Modes]
    /\ NoFlush \in [apply : BOOLEAN, modes : [Joints -> Modes],
                    commands : [Joints -> Modes]]
  <1>1. NoModes \in [Joints -> Modes]
    BY DEF NoModes, Modes
  <1> QED
    BY <1>1 DEF NoFlush

(* Every mode the driver knows has one on the controller's side.             *)
LEMMA VendorModeTypes == \A mode \in Modes : VendorMode(mode) \in VendorModes
  BY DEF Modes, VendorMode, VendorModes

(***************************************************************************)
(* Every step of either thread keeps the types; the servos left to park    *)
(* are counted down only while the control thread holds the lock for one.  *)
(***************************************************************************)
LEMMA TypesKept ==
    ASSUME ControllerTypeOK, Threads, [ControllerNext]_controllerVars
    PROVE  ControllerTypeOK'
  <1> USE NumJointsAssumption, StallTimeoutAssumption
         DEF ControllerTypeOK, Threads, WatchdogOwes, ControlOwes, NoModes,
             NoFlush, AllIdle, Modes, DriveModes, VendorModes, commandVars,
             safeVars, watchdogVars, ControlPhases, WatchdogPhases
  <1>1. CASE Connect
    BY <1>1 DEF Connect
  <1>2. CASE FirstRead
    <2>1. reads' \in BOOLEAN
      BY <1>2, SucceedsTypes, Zenon DEF FirstRead
    <2>2. idleTime' \in 0 .. StallTimeout + 1 /\ ctl' \in ControlPhases
      BY <1>2 DEF FirstRead
    <2> QED
      BY <1>2, <2>1, <2>2 DEF FirstRead
  <1>3. CASE ReadController
    BY <1>3 DEF ReadController
  <1>4. CASE BeginFlush
    BY <1>4 DEF BeginFlush
  <1>5. CASE ApplyModes
    <2>1. \A j \in Joints : VendorMode(local.modes[j]) \in VendorModes
      BY VendorModeTypes
    <2>2. vendor' \in [Joints -> VendorModes]
      BY <1>5, <2>1 DEF ApplyModes
    <2>3. local' \in [apply : BOOLEAN, modes : [Joints -> Modes],
                     commands : [Joints -> Modes]]
      <3> HIDE DEF NoFlush
      <3> QED
        BY <1>5, NoModesTypes DEF ApplyModes
    <2> QED
      BY <1>5, <2>2, <2>3 DEF ApplyModes
  <1>6. CASE ClearSafeLatch
    BY <1>6 DEF ClearSafeLatch
  <1>7. CASE WriteCommands
    BY <1>7 DEF WriteCommands
  <1>8. CASE ParkArm
    BY <1>8 DEF ParkArm
  <1>9. CASE Parked
    BY <1>9 DEF Parked
  <1>10. CASE IdleFromControl
    <2>1. PICK ok \in BOOLEAN :
              /\ IdleVendor("control", ok)
              /\ IF ok THEN UNCHANGED toPark ELSE NextParkedServo
              /\ IF ~ok /\ ctl = "closing"
                   THEN ctl' = "closed" /\ opened' = FALSE
                   ELSE UNCHANGED <<ctl, opened>>
      BY <1>10, SucceedsTypes DEF IdleFromControl
    <2>2. toPark' \in 0 .. NumJoints
      BY <1>10, <2>1 DEF IdleFromControl, MakingSafe, NextParkedServo
    <2>3. idleFailed' \in BOOLEAN /\ vendor' \in [Joints -> VendorModes]
      BY <2>1 DEF IdleVendor
    <2>4. ctl' \in ControlPhases /\ opened' \in BOOLEAN
      BY <2>1
    <2>5. madeSafe' \in BOOLEAN /\ safeLock' \in {"free", "control", "watchdog"}
      BY <2>1 DEF IdleVendor
    <2>6. UNCHANGED <<reads, desired, dirty, queued, local, armed, wd, tripped,
                      idleTime>>
      BY <1>10 DEF IdleFromControl
    <2> HIDE DEF ControlPhases
    <2> QED
      BY <2>2, <2>3, <2>4, <2>5, <2>6
  <1>11. CASE LatchFromControl
    <2>1. toPark' \in 0 .. NumJoints
      BY <1>11 DEF LatchFromControl, LatchSafe, NextParkedServo
    <2>2. desired' \in [Joints -> Modes] /\ queued' \in [Joints -> Modes]
      BY <1>11 DEF LatchFromControl, LatchSafe
    <2> QED
      BY <1>11, <2>1, <2>2 DEF LatchFromControl, LatchSafe
  <1>12. CASE AlreadySafe
    BY <1>12 DEF AlreadySafe, NextParkedServo, SafeAlready
  <1>13. CASE StopWatchdog
    BY <1>13 DEF StopWatchdog
  <1>14. CASE Joined
    BY <1>14 DEF Joined
  <1>15. CASE Disconnect
    BY <1>15 DEF Disconnect, SafeAlready
  <1>16. CASE ArmCommLossProtection
    BY <1>16 DEF ArmCommLossProtection
  <1>17. CASE Trip
    BY <1>17 DEF Trip, Stalled
  <1>18. CASE IdleFromWatchdog
    BY <1>18 DEF IdleFromWatchdog, IdleVendor, SafeAlready
  <1>19. CASE LatchFromWatchdog
    BY <1>19 DEF LatchFromWatchdog, LatchSafe
  <1>20. CASE WatchdogExits
    BY <1>20 DEF WatchdogExits
  <1>21. CASE Tick
    BY <1>21 DEF Tick
  <1>22. CASE ControllerTerminated
    BY <1>22 DEF ControllerTerminated, controllerVars
  <1>23. CASE \E j \in Joints, mode \in DriveModes : SetJointCommandMode(j, mode)
    BY <1>23 DEF SetJointCommandMode
  <1>24. CASE \E j \in Joints, mode \in DriveModes : QueueCommand(j, mode)
    BY <1>24 DEF QueueCommand
  <1>25. CASE UNCHANGED controllerVars
    BY <1>25 DEF controllerVars
  <1> QED
    BY <1>1, <1>2, <1>3, <1>4, <1>5, <1>6, <1>7, <1>8, <1>9, <1>10, <1>11,
       <1>12, <1>13, <1>14, <1>15, <1>16, <1>17, <1>18, <1>19, <1>20, <1>21,
       <1>22, <1>23, <1>24, <1>25
       DEF ControllerNext, Control, Watchdog, Flush, Shutdown

(***************************************************************************)
(* Every step keeps what the threads owe each other: the watchdog's lock   *)
(* and trip, the join before close(), the lock of a shutdown.              *)
(***************************************************************************)
LEMMA ThreadsKept ==
    ASSUME ControllerTypeOK, Threads, [ControllerNext]_controllerVars
    PROVE  Threads'
  <1> USE NumJointsAssumption
         DEF ControllerTypeOK, Threads, WatchdogOwes, ControlOwes, commandVars,
             safeVars, watchdogVars, ControlPhases, WatchdogPhases
  <1>1. CASE Connect
    BY <1>1 DEF Connect
  <1>2. CASE FirstRead
    BY <1>2 DEF FirstRead
  <1>3. CASE ReadController
    BY <1>3 DEF ReadController
  <1>4. CASE BeginFlush
    BY <1>4 DEF BeginFlush
  <1>5. CASE ApplyModes
    BY <1>5 DEF ApplyModes
  <1>6. CASE ClearSafeLatch
    BY <1>6 DEF ClearSafeLatch
  <1>7. CASE WriteCommands
    BY <1>7 DEF WriteCommands
  <1>8. CASE ParkArm
    BY <1>8 DEF ParkArm
  <1>9. CASE Parked
    BY <1>9 DEF Parked
  <1>10. CASE IdleFromControl
    BY <1>10
       DEF IdleFromControl, IdleVendor, MakingSafe, SafeAlready, NextParkedServo
  <1>11. CASE LatchFromControl
    BY <1>11 DEF LatchFromControl, LatchSafe, NextParkedServo
  <1>12. CASE AlreadySafe
    BY <1>12 DEF AlreadySafe, NextParkedServo, SafeAlready
  <1>13. CASE StopWatchdog
    BY <1>13 DEF StopWatchdog
  <1>14. CASE Joined
    BY <1>14 DEF Joined
  <1>15. CASE Disconnect
    BY <1>15 DEF Disconnect, SafeAlready
  <1>16. CASE ArmCommLossProtection
    BY <1>16 DEF ArmCommLossProtection
  <1>17. CASE Trip
    BY <1>17 DEF Trip, Stalled
  <1>18. CASE IdleFromWatchdog
    BY <1>18 DEF IdleFromWatchdog, IdleVendor, SafeAlready
  <1>19. CASE LatchFromWatchdog
    BY <1>19 DEF LatchFromWatchdog, LatchSafe
  <1>20. CASE WatchdogExits
    BY <1>20 DEF WatchdogExits
  <1>21. CASE Tick
    BY <1>21 DEF Tick
  <1>22. CASE ControllerTerminated
    BY <1>22 DEF ControllerTerminated, controllerVars
  <1>23. CASE \E j \in Joints, mode \in DriveModes : SetJointCommandMode(j, mode)
    BY <1>23 DEF SetJointCommandMode
  <1>24. CASE \E j \in Joints, mode \in DriveModes : QueueCommand(j, mode)
    BY <1>24 DEF QueueCommand
  <1>25. CASE UNCHANGED controllerVars
    BY <1>25 DEF controllerVars
  <1> QED
    BY <1>1, <1>2, <1>3, <1>4, <1>5, <1>6, <1>7, <1>8, <1>9, <1>10, <1>11,
       <1>12, <1>13, <1>14, <1>15, <1>16, <1>17, <1>18, <1>19, <1>20, <1>21,
       <1>22, <1>23, <1>24, <1>25
       DEF ControllerNext, Control, Watchdog, Flush, Shutdown

(***************************************************************************)
(* Every step keeps a latched, a locked and a closed arm passive: the only *)
(* step that activates one, the mode change of a flush, ends where the     *)
(* latch is about to be cleared.                                           *)
(***************************************************************************)
LEMMA PassivityKept ==
    ASSUME ControllerTypeOK, Threads, SafeLatchHolds, ClosedArmIsPassive,
           LockMeansIdle, [ControllerNext]_controllerVars
    PROVE  (SafeLatchHolds /\ ClosedArmIsPassive /\ LockMeansIdle)'
  <1> USE DEF ControllerTypeOK, Threads, WatchdogOwes, ControlOwes,
              SafeLatchHolds, ClosedArmIsPassive, LockMeansIdle, Passive,
              commandVars, safeVars, watchdogVars, ControlPhases, WatchdogPhases
  <1>1. CASE Connect
    BY <1>1 DEF Connect
  <1>2. CASE FirstRead
    BY <1>2 DEF FirstRead
  <1>3. CASE ReadController
    BY <1>3 DEF ReadController
  <1>4. CASE BeginFlush
    BY <1>4 DEF BeginFlush
  <1>5. CASE ApplyModes
    BY <1>5 DEF ApplyModes
  <1>6. CASE ClearSafeLatch
    BY <1>6 DEF ClearSafeLatch
  <1>7. CASE WriteCommands
    BY <1>7 DEF WriteCommands
  <1>8. CASE ParkArm
    BY <1>8 DEF ParkArm
  <1>9. CASE Parked
    BY <1>9 DEF Parked
  <1>10. CASE IdleFromControl
    BY <1>10
       DEF IdleFromControl, IdleVendor, MakingSafe, SafeAlready, NextParkedServo
  <1>11. CASE LatchFromControl
    BY <1>11 DEF LatchFromControl, LatchSafe, NextParkedServo
  <1>12. CASE AlreadySafe
    BY <1>12 DEF AlreadySafe, NextParkedServo, SafeAlready
  <1>13. CASE StopWatchdog
    BY <1>13 DEF StopWatchdog
  <1>14. CASE Joined
    BY <1>14 DEF Joined
  <1>15. CASE Disconnect
    BY <1>15 DEF Disconnect, SafeAlready
  <1>16. CASE ArmCommLossProtection
    BY <1>16 DEF ArmCommLossProtection
  <1>17. CASE Trip
    BY <1>17 DEF Trip, Stalled
  <1>18. CASE IdleFromWatchdog
    BY <1>18 DEF IdleFromWatchdog, IdleVendor, SafeAlready
  <1>19. CASE LatchFromWatchdog
    BY <1>19 DEF LatchFromWatchdog, LatchSafe
  <1>20. CASE WatchdogExits
    BY <1>20 DEF WatchdogExits
  <1>21. CASE Tick
    BY <1>21 DEF Tick
  <1>22. CASE ControllerTerminated
    BY <1>22 DEF ControllerTerminated, controllerVars
  <1>23. CASE \E j \in Joints, mode \in DriveModes : SetJointCommandMode(j, mode)
    BY <1>23 DEF SetJointCommandMode
  <1>24. CASE \E j \in Joints, mode \in DriveModes : QueueCommand(j, mode)
    BY <1>24 DEF QueueCommand
  <1>25. CASE UNCHANGED controllerVars
    BY <1>25 DEF controllerVars
  <1> QED
    BY <1>1, <1>2, <1>3, <1>4, <1>5, <1>6, <1>7, <1>8, <1>9, <1>10, <1>11,
       <1>12, <1>13, <1>14, <1>15, <1>16, <1>17, <1>18, <1>19, <1>20, <1>21,
       <1>22, <1>23, <1>24, <1>25
       DEF ControllerNext, Control, Watchdog, Flush, Shutdown

(***************************************************************************)
(* Every step before a trip keeps the queue, the flush and the controller  *)
(* in the modes that were asked for; after a failed mode change the dirty  *)
(* flag stands for the disagreement.                                       *)
(***************************************************************************)
LEMMA ModesKept ==
    ASSUME ControllerTypeOK, Threads, QueueFollowsModes, ModesAgree,
           [ControllerNext]_controllerVars
    PROVE  (QueueFollowsModes /\ ModesAgree)'
  <1> USE DEF ControllerTypeOK, Threads, WatchdogOwes, ControlOwes,
              QueueFollowsModes, ModesAgree, FlushFollowsModes,
              VendorFollowsModes, NoModes, NoFlush, DriveModes, Modes,
              commandVars, safeVars, watchdogVars, ControlPhases, WatchdogPhases
  <1>1. CASE Connect
    BY <1>1 DEF Connect
  <1>2. CASE FirstRead
    BY <1>2 DEF FirstRead
  <1>3. CASE ReadController
    BY <1>3 DEF ReadController
  <1>4. CASE BeginFlush
    BY <1>4 DEF BeginFlush
  <1>5. CASE ApplyModes
    BY <1>5 DEF ApplyModes
  <1>6. CASE ClearSafeLatch
    BY <1>6 DEF ClearSafeLatch
  <1>7. CASE WriteCommands
    BY <1>7 DEF WriteCommands
  <1>8. CASE ParkArm
    BY <1>8 DEF ParkArm
  <1>9. CASE Parked
    BY <1>9 DEF Parked
  <1>10. CASE IdleFromControl
    BY <1>10
       DEF IdleFromControl, IdleVendor, MakingSafe, SafeAlready, NextParkedServo
  <1>11. CASE LatchFromControl
    BY <1>11 DEF LatchFromControl, LatchSafe, NextParkedServo
  <1>12. CASE AlreadySafe
    BY <1>12 DEF AlreadySafe, NextParkedServo, SafeAlready
  <1>13. CASE StopWatchdog
    BY <1>13 DEF StopWatchdog
  <1>14. CASE Joined
    BY <1>14 DEF Joined
  <1>15. CASE Disconnect
    BY <1>15 DEF Disconnect, SafeAlready
  <1>16. CASE ArmCommLossProtection
    BY <1>16 DEF ArmCommLossProtection
  <1>17. CASE Trip
    BY <1>17 DEF Trip, Stalled
  <1>18. CASE IdleFromWatchdog
    BY <1>18 DEF IdleFromWatchdog, IdleVendor, SafeAlready
  <1>19. CASE LatchFromWatchdog
    BY <1>19 DEF LatchFromWatchdog, LatchSafe
  <1>20. CASE WatchdogExits
    BY <1>20 DEF WatchdogExits
  <1>21. CASE Tick
    BY <1>21 DEF Tick
  <1>22. CASE ControllerTerminated
    BY <1>22 DEF ControllerTerminated, controllerVars
  <1>23. CASE \E j \in Joints, mode \in DriveModes : SetJointCommandMode(j, mode)
    BY <1>23 DEF SetJointCommandMode
  <1>24. CASE \E j \in Joints, mode \in DriveModes : QueueCommand(j, mode)
    BY <1>24 DEF QueueCommand
  <1>25. CASE UNCHANGED controllerVars
    BY <1>25 DEF controllerVars
  <1> QED
    BY <1>1, <1>2, <1>3, <1>4, <1>5, <1>6, <1>7, <1>8, <1>9, <1>10, <1>11,
       <1>12, <1>13, <1>14, <1>15, <1>16, <1>17, <1>18, <1>19, <1>20, <1>21,
       <1>22, <1>23, <1>24, <1>25
       DEF ControllerNext, Control, Watchdog, Flush, Shutdown

(***************************************************************************)
(* The invariant of the two threads holds from the power-up of the         *)
(* controller, in whatever modes a killed session left it, on.             *)
(***************************************************************************)
THEOREM ControllerInvariance == ControllerSpec => []ControllerInv
  <1>1. ControllerInit => ControllerInv
    <2> SUFFICES ASSUME ControllerInit PROVE ControllerInv
      OBVIOUS
    <2>1. PICK mode \in VendorModes : vendor = [j \in Joints |-> mode]
      BY DEF ControllerInit
    <2>2. vendor \in [Joints -> VendorModes]
      BY <2>1
    <2>3. ControllerTypeOK
      <3>1. idleTime \in 0 .. StallTimeout + 1 /\ toPark \in 0 .. NumJoints
        BY NumJointsAssumption, StallTimeoutAssumption DEF ControllerInit
      <3>2. /\ desired \in [Joints -> Modes] /\ queued \in [Joints -> Modes]
            /\ local \in [apply : BOOLEAN, modes : [Joints -> Modes],
                          commands : [Joints -> Modes]]
        BY NoModesTypes, Zenon DEF ControllerInit
      <3>3. /\ ctl \in ControlPhases /\ wd \in WatchdogPhases
            /\ safeLock \in {"free", "control", "watchdog"}
        BY DEF ControllerInit, ControlPhases, WatchdogPhases
      <3> QED
        BY <2>2, <3>1, <3>2, <3>3, Zenon DEF ControllerInit, ControllerTypeOK
    <2> QED
      BY <2>3
       DEF ControllerInit, ControllerInv, SafeLatchHolds,
           ClosedArmIsPassive, Threads, WatchdogOwes, ControlOwes,
           LockMeansIdle,
           QueueFollowsModes, ModesAgree, FlushFollowsModes, VendorFollowsModes,
           NoModes, NoFlush, ControlPhases, WatchdogPhases, Modes, VendorModes
  <1>2. ControllerInv /\ [ControllerNext]_controllerVars => ControllerInv'
    BY TypesKept, ThreadsKept, PassivityKept, ModesKept DEF ControllerInv
  <1> QED
    BY <1>1, <1>2, PTL DEF ControllerSpec

(***************************************************************************)
(* The controller driver is safe: ControllerIsSafe, which the run checks   *)
(* for two joints, holds for every number of joints, every stall limit and *)
(* every set of failing vendor calls.                                      *)
(***************************************************************************)
THEOREM ControllerSafety == ControllerSpec => []ControllerIsSafe
  <1>1. ControllerInv => CommandInItsMode
    BY DEF ControllerInv, ControllerTypeOK, ModesAgree, FlushFollowsModes,
           VendorFollowsModes, CommandInItsMode, Rejected, Pending
  <1>2. ControllerInv => ControllerIsSafe
    BY <1>1 DEF ControllerInv, ControllerIsSafe
  <1> QED
    BY <1>2, ControllerInvariance, PTL

-----------------------------------------------------------------------------
(***************************************************************************)
(* The inductive invariant of the FR3.  The main thread is in a ready move *)
(* that still has to send its target to the gripper, or is still opening   *)
(* the device.                                                             *)
(***************************************************************************)
MoveBegun ==
    \/ main \in {"closing", "homing", "activate", "activating"}
    \/ main = "await" /\ moves > 0
Starting == main \in {"off", "gripper"} \/ (main = "await" /\ moves = 0)

(***************************************************************************)
(* A ready move is counted before its target is sent, so the generations   *)
(* of the gripper's targets stay within the bounds.                        *)
(***************************************************************************)
CountInv ==
    /\ main = "off" => moves = 0
    /\ gen <= MaxTargets + moves
    /\ MoveBegun => moves > 0 /\ gen < MaxTargets + moves

(***************************************************************************)
(* The gripper's transport exists from start() to stop(), and its thread   *)
(* ends only when it has lost the gripper or is being stopped.             *)
(***************************************************************************)
TransportInv ==
    /\ Starting => poll = "none" /\ motion = "none"
    /\ MoveBegun \/ main \in {"connect", "loop", "opening"} => poll # "none"
    /\ poll \in {"top", "activate", "read", "write"} => polling \/ main = "closeGripper"
    /\ poll = "exited" => ~seen.conn \/ main \in {"closeGripper", "done"}

(***************************************************************************)
(* The torque controller runs, or its end is known, whenever it should     *)
(* run.                                                                    *)
(***************************************************************************)
ControllerRuns ==
    /\ main = "await" => /\ ~stopArm
                         /\ \/ arm = "running"
                            \/ arm = "loading" /\ ~started
                            \/ arm = "exited" /\ armFault
    /\ main \in {"gripper", "connect", "loop", "activate", "activating", "opening"} =>
            recovering \/ armFault \/ (arm = "running" /\ ~stopArm)

(***************************************************************************)
(* At most one order is pending for the arm, and it is the newest; with    *)
(* none pending the arm follows the newest.  A target from before a ready  *)
(* move exists only until the controller is started again.                 *)
(***************************************************************************)
ArmOrders ==
    /\ newHold => newTarget = "none" /\ lastArm = "hold"
    /\ newTarget # "none" => lastArm = "target"
    /\ ~newHold /\ newTarget = "none" => (target = "measured" <=> lastArm = "hold")
    /\ target = "stale" \/ newTarget = "stale" => main = "closing" \/ arm = "none"

(***************************************************************************)
(* The gripper moves only while it is active, and what its thread is about *)
(* to write follows from the copy of the requests it took.                 *)
(***************************************************************************)
Decided ==
    /\ motion # "none" => active = "on"
    /\ poll = "write" /\ ~out.write => out.to = motion /\ out.applied = applied
    /\ poll = "write" /\ out.write =>
        /\ active = "on"
        /\ \/ snap.hold /\ out.to = "hold" /\ out.applied = snap.gen
           \/ /\ ~snap.hold /\ snap.gen # applied
              /\ out.to = snap.pos /\ out.applied = snap.gen
           \/ /\ ~snap.hold /\ snap.pos = "closed"
              /\ out.to = "closed" /\ out.applied = applied

(***************************************************************************)
(* A hold that the gripper's thread has taken up stands for the newest     *)
(* target: whatever is decided later does not fall back to an older one.   *)
(***************************************************************************)
HoldTaken == ordered = "hold" /\ ~askHold
HoldStands ==
    /\ HoldTaken => snap.gen = gen
    /\ HoldTaken /\ motion = "hold" =>
        /\ poll = "top" => applied = gen
        /\ poll \in {"activate", "read"} => applied = gen \/ snap.hold
        /\ poll = "write" => applied = gen \/ (out.to = "hold" /\ out.applied = gen)

(***************************************************************************)
(* The type invariant, by the variables that change together.              *)
(***************************************************************************)
MainTypes ==
    /\ main \in MainPhases
    /\ recovering \in BOOLEAN /\ ready \in BOOLEAN
    /\ moves \in 0 .. MaxMoves

ControllerTypes ==
    /\ arm \in {"none", "loading", "running", "exited"}
    /\ started \in BOOLEAN /\ exited \in BOOLEAN
    /\ stopArm \in BOOLEAN /\ armFault \in BOOLEAN

OrderTypes ==
    /\ target \in {"measured", "live", "stale"}
    /\ newTarget \in {"none", "live", "stale"}
    /\ newHold \in BOOLEAN
    /\ lastArm \in {"hold", "target"}

RequestTypes ==
    /\ wanted \in GripperPositions
    /\ gen \in Nat
    /\ askAct \in BOOLEAN /\ askHold \in BOOLEAN
    /\ ordered \in {"none", "activate", "target", "hold"}

Seens == [conn : BOOLEAN, act : BOOLEAN, ever : BOOLEAN, fault : BOOLEAN, open : BOOLEAN]
Snaps == [act : BOOLEAN, hold : BOOLEAN, pos : GripperPositions, gen : Generations]
Commands == [to : Motions, applied : {-1} \cup Generations, write : BOOLEAN]

PollTypes ==
    /\ poll \in {"none", "top", "activate", "read", "write", "exited"}
    /\ polling \in BOOLEAN
    /\ seen \in Seens
    /\ snap \in Snaps
    /\ out \in Commands
    /\ applied \in {-1} \cup Generations
    /\ active \in {"off", "starting", "on"}
    /\ motion \in Motions

FR3Types == MainTypes /\ ControllerTypes /\ OrderTypes /\ RequestTypes /\ PollTypes

FR3Inv == /\ FR3Types /\ CountInv /\ TransportInv /\ ControllerRuns
          /\ ArmOrders /\ Decided /\ HoldStands

(***************************************************************************)
(* RobotiqTransport::set_target() keeps the types of the requests.         *)
(***************************************************************************)
LEMMA TargetTypes ==
    ASSUME RequestTypes, NEW pos \in GripperPositions, GripperTarget(pos)
    PROVE  RequestTypes'
  <1>1. wanted' \in GripperPositions /\ gen' \in Nat /\ ordered' = "target"
    BY DEF RequestTypes, GripperTarget
  <1>2. askAct' \in BOOLEAN /\ askHold' \in BOOLEAN
    BY DEF RequestTypes, GripperTarget
  <1> QED
    BY <1>1, <1>2 DEF RequestTypes

(***************************************************************************)
(* The newest target's generation is within the bounds.                    *)
(***************************************************************************)
LEMMA ShortGenerations ==
    ASSUME MainTypes, RequestTypes, CountInv
    PROVE  gen \in Generations
  BY BoundsAssumption DEF MainTypes, RequestTypes, CountInv, Generations

(***************************************************************************)
(* A transport that loses its gripper keeps a well-formed status.          *)
(***************************************************************************)
LEMMA LostTypes ==
    ASSUME seen \in Seens
    PROVE  [seen EXCEPT !.conn = FALSE] \in Seens /\ ~[seen EXCEPT !.conn = FALSE].conn
  BY DEF Seens

(***************************************************************************)
(* fail_transport() ends the polling thread with the gripper marked as     *)
(* lost.                                                                   *)
(***************************************************************************)
LEMMA FailedTypes ==
    ASSUME seen \in Seens, FailTransport
    PROVE  poll' = "exited" /\ polling' = FALSE /\ seen' \in Seens /\ ~seen'.conn
  BY DEF Seens, FailTransport

(***************************************************************************)
(* What RobotiqTransport::run() decides from a status: it writes only to   *)
(* an active gripper; a hold comes first, then a new target, and otherwise *)
(* only an interrupted grasp is closed again.                              *)
(***************************************************************************)
LEMMA CommandEffect ==
    ASSUME PollTypes, NEW status, status.act \in BOOLEAN, status.moving \in BOOLEAN
    PROVE  /\ MotionCommand(status) \in Commands
           /\ ~MotionCommand(status).write =>
                MotionCommand(status).to = motion /\ MotionCommand(status).applied = applied
           /\ MotionCommand(status).write =>
                /\ status.act
                /\ \/ /\ snap.hold /\ MotionCommand(status).to = "hold"
                      /\ MotionCommand(status).applied = snap.gen
                   \/ /\ ~snap.hold /\ snap.gen # applied
                      /\ MotionCommand(status).to = snap.pos
                      /\ MotionCommand(status).applied = snap.gen
                   \/ /\ ~snap.hold /\ snap.pos = "closed"
                      /\ MotionCommand(status).to = "closed"
                      /\ MotionCommand(status).applied = applied
           /\ status.act /\ snap.hold =>
                MotionCommand(status).to = "hold" /\ MotionCommand(status).applied = snap.gen
  <1> USE DEF PollTypes, Snaps, Commands, Motions, GripperPositions,
              MotionCommand
  <1>1. CASE ~status.act
    BY <1>1 DEF NothingToWrite
  <1>2. CASE status.act /\ snap.hold
    BY <1>2 DEF Send
  <1>3. CASE status.act /\ ~snap.hold /\ snap.gen # applied
    BY <1>3 DEF Send
  <1>4. CASE status.act /\ ~snap.hold /\ snap.gen = applied /\ snap.pos = "closed" /\ ~status.moving
    BY <1>4 DEF Send
  <1>5. CASE status.act /\ ~snap.hold /\ snap.gen = applied /\ ~(snap.pos = "closed" /\ ~status.moving)
    BY <1>5 DEF NothingToWrite
  <1> QED
    BY <1>1, <1>2, <1>3, <1>4, <1>5

(***************************************************************************)
(* A read of the status either fails the transport or leaves a decision    *)
(* that follows from the copy of the requests.                             *)
(***************************************************************************)
LEMMA ReadEffect ==
    ASSUME PollTypes, PollRead
    PROVE  \/ FailTransport /\ out' = out
           \/ /\ poll' = "write" /\ polling' = polling
              /\ seen' \in Seens /\ seen'.conn
              /\ out' \in Commands
              /\ ~out'.write => out'.to = motion /\ out'.applied = applied
              /\ out'.write =>
                    /\ active = "on"
                    /\ \/ snap.hold /\ out'.to = "hold" /\ out'.applied = snap.gen
                       \/ /\ ~snap.hold /\ snap.gen # applied
                          /\ out'.to = snap.pos /\ out'.applied = snap.gen
                       \/ /\ ~snap.hold /\ snap.pos = "closed"
                          /\ out'.to = "closed" /\ out'.applied = applied
              /\ active = "on" /\ snap.hold => out'.to = "hold" /\ out'.applied = snap.gen
  <1>1. CASE FailTransport /\ out' = out
    BY <1>1
  <1>2. CASE \E status \in Statuses :
                /\ seen' = [conn |-> TRUE, act |-> status.act,
                            ever |-> seen.ever \/ status.act,
                            fault |-> status.fault, open |-> status.open]
                /\ out' = MotionCommand(status)
                /\ poll' = "write"
                /\ UNCHANGED polling
    <2>1. PICK status \in Statuses :
                /\ seen' = [conn |-> TRUE, act |-> status.act,
                            ever |-> seen.ever \/ status.act,
                            fault |-> status.fault, open |-> status.open]
                /\ out' = MotionCommand(status)
                /\ poll' = "write"
                /\ UNCHANGED polling
      BY <1>2
    <2>2. /\ status.act \in BOOLEAN /\ status.moving \in BOOLEAN
          /\ status.fault \in BOOLEAN /\ status.open \in BOOLEAN
          /\ status.act => active = "on"
          /\ active = "on" => status.act
      BY DEF Statuses
    <2>3. seen' \in Seens /\ seen'.conn
      BY <2>1, <2>2 DEF Seens
    <2> QED
      BY <2>1, <2>2, <2>3, CommandEffect
  <1> QED
    BY <1>1, <1>2 DEF PollRead

(***************************************************************************)
(* Every step keeps the types of the main thread.                          *)
(***************************************************************************)
LEMMA MainTypesKept ==
    ASSUME MainTypes, [FR3Next]_fr3Vars
    PROVE  MainTypes'
  <1> USE BoundsAssumption DEF MainTypes, MainPhases, mainVars
  <1>1. CASE OpenRobot
    BY <1>1 DEF OpenRobot, StartController
  <1>2. CASE ControllerStarted
    BY <1>2 DEF ControllerStarted
  <1>3. CASE ControllerFailed
    BY <1>3 DEF ControllerFailed
  <1>4. CASE StartGripper
    BY <1>4 DEF StartGripper
  <1>5. CASE GripperAnswered
    BY <1>5, DontGoHomeAssumption DEF GripperAnswered
  <1>6. CASE GripperSilent
    BY <1>6 DEF GripperSilent
  <1>7. CASE MoveClosed
    BY <1>7 DEF MoveClosed
  <1>8. CASE Home
    BY <1>8 DEF Home, StartController
  <1>9. CASE Activate
    BY <1>9 DEF Activate, OpenGripper, FailMove
  <1>10. CASE Activated
    BY <1>10 DEF Activated, OpenGripper, FailMove
  <1>11. CASE Opened
    BY <1>11 DEF Opened, FailMove
  <1>12. CASE Park
    BY <1>12 DEF Park
  <1>13. CASE StopClosed
    BY <1>13 DEF StopClosed
  <1>14. CASE StopPolling
    BY <1>14 DEF StopPolling
  <1>15. CASE StopDone
    BY <1>15 DEF StopDone
  <1>16. CASE EnterRecovery
    BY <1>16 DEF EnterRecovery
  <1>17. CASE RuntimeHold
    BY <1>17 DEF RuntimeHold
  <1>18. CASE BeginArmMove
    <2>1. moves' \in 0 .. MaxMoves
      BY <1>18 DEF BeginArmMove
    <2>2. main' = "closing" /\ ready' = FALSE /\ recovering' = recovering
      BY <1>18 DEF BeginArmMove
    <2> QED
      BY <2>1, <2>2
  <1>19. CASE BeginStop
    BY <1>19 DEF BeginStop
  <1>20. CASE \E pos \in GripperPositions : CommandGripper(pos)
    BY <1>20 DEF CommandGripper
  <1>21. CASE FirstCallback
    BY <1>21 DEF FirstCallback
  <1>22. CASE Callback
    BY <1>22 DEF Callback
  <1>23. CASE ControllerEnds
    BY <1>23 DEF ControllerEnds
  <1>24. CASE PollTop
    BY <1>24 DEF PollTop
  <1>25. CASE PollActivate
    BY <1>25 DEF PollActivate
  <1>26. CASE PollRead
    BY <1>26 DEF PollRead
  <1>27. CASE PollWrite
    BY <1>27 DEF PollWrite
  <1>28. CASE PollEnds
    BY <1>28 DEF PollEnds
  <1>29. CASE GripperBecomesActive
    BY <1>29 DEF GripperBecomesActive
  <1>30. CASE Terminated \/ UNCHANGED fr3Vars
    BY <1>30 DEF Terminated, fr3Vars
  <1> QED
    BY <1>1, <1>2, <1>3, <1>4, <1>5, <1>6, <1>7, <1>8, <1>9, <1>10, <1>11,
       <1>12, <1>13, <1>14, <1>15, <1>16, <1>17, <1>18, <1>19, <1>20, <1>21,
       <1>22, <1>23, <1>24, <1>25, <1>26, <1>27, <1>28, <1>29, <1>30
       DEF FR3Next, MainStep, LoopStep, ArmStep, PollStep

(***************************************************************************)
(* Every step keeps the types of the torque controller.                    *)
(***************************************************************************)
LEMMA ControllerTypesKept ==
    ASSUME ControllerTypes, [FR3Next]_fr3Vars
    PROVE  ControllerTypes'
  <1> USE DEF ControllerTypes, armVars
  <1>1. CASE OpenRobot
    BY <1>1 DEF OpenRobot, StartController, InitializeControllerState
  <1>2. CASE ControllerStarted
    BY <1>2 DEF ControllerStarted
  <1>3. CASE ControllerFailed
    BY <1>3 DEF ControllerFailed
  <1>4. CASE StartGripper
    BY <1>4 DEF StartGripper
  <1>5. CASE GripperAnswered
    BY <1>5 DEF GripperAnswered
  <1>6. CASE GripperSilent
    BY <1>6 DEF GripperSilent
  <1>7. CASE MoveClosed
    BY <1>7 DEF MoveClosed
  <1>8. CASE Home
    BY <1>8 DEF Home, StartController, InitializeControllerState
  <1>9. CASE Activate
    BY <1>9 DEF Activate
  <1>10. CASE Activated
    BY <1>10 DEF Activated
  <1>11. CASE Opened
    BY <1>11 DEF Opened
  <1>12. CASE Park
    BY <1>12 DEF Park
  <1>13. CASE StopClosed
    BY <1>13 DEF StopClosed
  <1>14. CASE StopPolling
    BY <1>14 DEF StopPolling
  <1>15. CASE StopDone
    BY <1>15 DEF StopDone
  <1>16. CASE EnterRecovery
    BY <1>16 DEF EnterRecovery
  <1>17. CASE RuntimeHold
    BY <1>17 DEF RuntimeHold
  <1>18. CASE BeginArmMove
    BY <1>18 DEF BeginArmMove
  <1>19. CASE BeginStop
    BY <1>19 DEF BeginStop
  <1>20. CASE \E pos \in GripperPositions : CommandGripper(pos)
    BY <1>20 DEF CommandGripper
  <1>21. CASE FirstCallback
    BY <1>21 DEF FirstCallback
  <1>22. CASE Callback
    BY <1>22 DEF Callback
  <1>23. CASE ControllerEnds
    BY <1>23 DEF ControllerEnds, ControllerExits
  <1>24. CASE PollTop
    BY <1>24 DEF PollTop
  <1>25. CASE PollActivate
    BY <1>25 DEF PollActivate
  <1>26. CASE PollRead
    BY <1>26 DEF PollRead
  <1>27. CASE PollWrite
    BY <1>27 DEF PollWrite
  <1>28. CASE PollEnds
    BY <1>28 DEF PollEnds
  <1>29. CASE GripperBecomesActive
    BY <1>29 DEF GripperBecomesActive
  <1>30. CASE Terminated \/ UNCHANGED fr3Vars
    BY <1>30 DEF Terminated, fr3Vars
  <1> QED
    BY <1>1, <1>2, <1>3, <1>4, <1>5, <1>6, <1>7, <1>8, <1>9, <1>10, <1>11,
       <1>12, <1>13, <1>14, <1>15, <1>16, <1>17, <1>18, <1>19, <1>20, <1>21,
       <1>22, <1>23, <1>24, <1>25, <1>26, <1>27, <1>28, <1>29, <1>30
       DEF FR3Next, MainStep, LoopStep, ArmStep, PollStep

(***************************************************************************)
(* Every step keeps the types of the arm's orders.                         *)
(***************************************************************************)
LEMMA OrderTypesKept ==
    ASSUME OrderTypes, [FR3Next]_fr3Vars
    PROVE  OrderTypes'
  <1> USE DEF OrderTypes, orderVars
  <1>1. CASE OpenRobot
    BY <1>1 DEF OpenRobot, StartController, InitializeControllerState
  <1>2. CASE ControllerStarted
    BY <1>2 DEF ControllerStarted
  <1>3. CASE ControllerFailed
    BY <1>3 DEF ControllerFailed
  <1>4. CASE StartGripper
    BY <1>4 DEF StartGripper
  <1>5. CASE GripperAnswered
    BY <1>5 DEF GripperAnswered, ArmHold
  <1>6. CASE GripperSilent
    BY <1>6 DEF GripperSilent
  <1>7. CASE MoveClosed
    BY <1>7 DEF MoveClosed
  <1>8. CASE Home
    BY <1>8 DEF Home, StartController, InitializeControllerState
  <1>9. CASE Activate
    BY <1>9 DEF Activate, OpenGripper, FailMove, ArmHold
  <1>10. CASE Activated
    BY <1>10 DEF Activated, OpenGripper, FailMove, ArmHold
  <1>11. CASE Opened
    BY <1>11 DEF Opened, FailMove, ArmHold
  <1>12. CASE Park
    BY <1>12 DEF Park, ArmHold
  <1>13. CASE StopClosed
    BY <1>13 DEF StopClosed
  <1>14. CASE StopPolling
    BY <1>14 DEF StopPolling
  <1>15. CASE StopDone
    BY <1>15 DEF StopDone
  <1>16. CASE EnterRecovery
    BY <1>16 DEF EnterRecovery
  <1>17. CASE RuntimeHold
    BY <1>17 DEF RuntimeHold, ArmHold
  <1>18. CASE BeginArmMove
    BY <1>18 DEF BeginArmMove
  <1>19. CASE BeginStop
    BY <1>19 DEF BeginStop
  <1>20. CASE \E pos \in GripperPositions : CommandGripper(pos)
    BY <1>20 DEF CommandGripper, ArmTarget
  <1>21. CASE FirstCallback
    BY <1>21 DEF FirstCallback
  <1>22. CASE Callback
    BY <1>22 DEF Callback, ApplyPendingCommand
  <1>23. CASE ControllerEnds
    BY <1>23 DEF ControllerEnds
  <1>24. CASE PollTop
    BY <1>24 DEF PollTop
  <1>25. CASE PollActivate
    BY <1>25 DEF PollActivate
  <1>26. CASE PollRead
    BY <1>26 DEF PollRead
  <1>27. CASE PollWrite
    BY <1>27 DEF PollWrite
  <1>28. CASE PollEnds
    BY <1>28 DEF PollEnds
  <1>29. CASE GripperBecomesActive
    BY <1>29 DEF GripperBecomesActive
  <1>30. CASE Terminated \/ UNCHANGED fr3Vars
    BY <1>30 DEF Terminated, fr3Vars
  <1> QED
    BY <1>1, <1>2, <1>3, <1>4, <1>5, <1>6, <1>7, <1>8, <1>9, <1>10, <1>11,
       <1>12, <1>13, <1>14, <1>15, <1>16, <1>17, <1>18, <1>19, <1>20, <1>21,
       <1>22, <1>23, <1>24, <1>25, <1>26, <1>27, <1>28, <1>29, <1>30
       DEF FR3Next, MainStep, LoopStep, ArmStep, PollStep

(***************************************************************************)
(* Every step keeps the types of the gripper's requests.                   *)
(***************************************************************************)
LEMMA RequestTypesKept ==
    ASSUME RequestTypes, [FR3Next]_fr3Vars
    PROVE  RequestTypes'
  <1> USE DEF RequestTypes, requestVars, gripperVars, GripperPositions
  <1>1. CASE OpenRobot
    BY <1>1 DEF OpenRobot
  <1>2. CASE ControllerStarted
    BY <1>2 DEF ControllerStarted
  <1>3. CASE ControllerFailed
    BY <1>3 DEF ControllerFailed
  <1>4. CASE StartGripper
    BY <1>4 DEF StartGripper
  <1>5. CASE GripperAnswered
    BY <1>5 DEF GripperAnswered
  <1>6. CASE GripperSilent
    BY <1>6 DEF GripperSilent
  <1>7. CASE MoveClosed
    BY <1>7 DEF MoveClosed
  <1>8. CASE Home
    BY <1>8 DEF Home
  <1>9. CASE Activate
    <2>1. CASE GripperTarget("open")
      BY <2>1, TargetTypes
    <2>2. CASE ~GripperTarget("open")
      BY <1>9, <2>2 DEF Activate, OpenGripper
    <2> QED
      BY <2>1, <2>2
  <1>10. CASE Activated
    <2>1. CASE GripperTarget("open")
      BY <2>1, TargetTypes
    <2>2. CASE ~GripperTarget("open")
      BY <1>10, <2>2 DEF Activated, OpenGripper
    <2> QED
      BY <2>1, <2>2
  <1>11. CASE Opened
    BY <1>11 DEF Opened, GripperHold
  <1>12. CASE Park
    BY <1>12 DEF Park, GripperHold
  <1>13. CASE StopClosed
    BY <1>13 DEF StopClosed, GripperHold
  <1>14. CASE StopPolling
    BY <1>14 DEF StopPolling
  <1>15. CASE StopDone
    BY <1>15 DEF StopDone
  <1>16. CASE EnterRecovery
    BY <1>16 DEF EnterRecovery
  <1>17. CASE RuntimeHold
    BY <1>17 DEF RuntimeHold, GripperHold
  <1>18. CASE BeginArmMove
    BY <1>18 DEF BeginArmMove, GripperHold
  <1>19. CASE BeginStop
    BY <1>19 DEF BeginStop
  <1>20. CASE \E pos \in GripperPositions : CommandGripper(pos)
    BY <1>20, TargetTypes DEF CommandGripper
  <1>21. CASE FirstCallback
    BY <1>21 DEF FirstCallback
  <1>22. CASE Callback
    BY <1>22 DEF Callback
  <1>23. CASE ControllerEnds
    BY <1>23 DEF ControllerEnds
  <1>24. CASE PollTop
    BY <1>24 DEF PollTop
  <1>25. CASE PollActivate
    BY <1>25 DEF PollActivate
  <1>26. CASE PollRead
    BY <1>26 DEF PollRead
  <1>27. CASE PollWrite
    BY <1>27 DEF PollWrite
  <1>28. CASE PollEnds
    BY <1>28 DEF PollEnds
  <1>29. CASE GripperBecomesActive
    BY <1>29 DEF GripperBecomesActive
  <1>30. CASE Terminated \/ UNCHANGED fr3Vars
    BY <1>30 DEF Terminated, fr3Vars
  <1> QED
    BY <1>1, <1>2, <1>3, <1>4, <1>5, <1>6, <1>7, <1>8, <1>9, <1>10, <1>11,
       <1>12, <1>13, <1>14, <1>15, <1>16, <1>17, <1>18, <1>19, <1>20, <1>21,
       <1>22, <1>23, <1>24, <1>25, <1>26, <1>27, <1>28, <1>29, <1>30
       DEF FR3Next, MainStep, LoopStep, ArmStep, PollStep

(***************************************************************************)
(* Every step keeps the types of the polling thread and of the gripper.    *)
(***************************************************************************)
LEMMA PollTypesKept ==
    ASSUME RequestTypes, CountInv, MainTypes, PollTypes, [FR3Next]_fr3Vars
    PROVE  PollTypes'
  <1> USE DEF PollTypes, pollVars, gripperVars
  <1>1. CASE OpenRobot
    BY <1>1 DEF OpenRobot
  <1>2. CASE ControllerStarted
    BY <1>2 DEF ControllerStarted
  <1>3. CASE ControllerFailed
    BY <1>3 DEF ControllerFailed
  <1>4. CASE StartGripper
    <2>1. Unseen \in Seens
      BY DEF Unseen, Seens
    <2> QED
      BY <1>4, <2>1 DEF StartGripper
  <1>5. CASE GripperAnswered
    BY <1>5 DEF GripperAnswered
  <1>6. CASE GripperSilent
    BY <1>6 DEF GripperSilent
  <1>7. CASE MoveClosed
    BY <1>7 DEF MoveClosed
  <1>8. CASE Home
    BY <1>8 DEF Home
  <1>9. CASE Activate
    BY <1>9 DEF Activate
  <1>10. CASE Activated
    BY <1>10 DEF Activated
  <1>11. CASE Opened
    BY <1>11 DEF Opened
  <1>12. CASE Park
    BY <1>12 DEF Park
  <1>13. CASE StopClosed
    BY <1>13 DEF StopClosed
  <1>14. CASE StopPolling
    BY <1>14, LostTypes DEF StopPolling
  <1>15. CASE StopDone
    BY <1>15 DEF StopDone
  <1>16. CASE EnterRecovery
    BY <1>16 DEF EnterRecovery
  <1>17. CASE RuntimeHold
    BY <1>17 DEF RuntimeHold
  <1>18. CASE BeginArmMove
    BY <1>18 DEF BeginArmMove
  <1>19. CASE BeginStop
    BY <1>19 DEF BeginStop
  <1>20. CASE \E pos \in GripperPositions : CommandGripper(pos)
    BY <1>20 DEF CommandGripper
  <1>21. CASE FirstCallback
    BY <1>21 DEF FirstCallback
  <1>22. CASE Callback
    BY <1>22 DEF Callback
  <1>23. CASE ControllerEnds
    BY <1>23 DEF ControllerEnds
  <1>24. CASE PollTop
    <2>1. snap' \in Snaps
      BY <1>24, ShortGenerations DEF PollTop, Snaps, RequestTypes
    <2> QED
      BY <1>24, <2>1 DEF PollTop
  <1>25. CASE PollActivate
    <2>1. "none" \in Motions
      BY DEF Motions
    <2> QED
      BY <1>25, <2>1, FailedTypes DEF PollActivate
  <1>26. CASE PollRead
    BY <1>26, ReadEffect, FailedTypes DEF PollRead
  <1>27. CASE PollWrite
    <2>1. NoCommand \in Commands
      BY DEF NoCommand, Commands, Motions
    <2>2. out.to \in Motions /\ out.applied \in {-1} \cup Generations
      BY DEF Commands
    <2> QED
      BY <1>27, <2>1, <2>2, FailedTypes DEF PollWrite
  <1>28. CASE PollEnds
    BY <1>28 DEF PollEnds
  <1>29. CASE GripperBecomesActive
    BY <1>29 DEF GripperBecomesActive
  <1>30. CASE Terminated \/ UNCHANGED fr3Vars
    BY <1>30 DEF Terminated, fr3Vars
  <1> QED
    BY <1>1, <1>2, <1>3, <1>4, <1>5, <1>6, <1>7, <1>8, <1>9, <1>10, <1>11,
       <1>12, <1>13, <1>14, <1>15, <1>16, <1>17, <1>18, <1>19, <1>20, <1>21,
       <1>22, <1>23, <1>24, <1>25, <1>26, <1>27, <1>28, <1>29, <1>30
       DEF FR3Next, MainStep, LoopStep, ArmStep, PollStep

(***************************************************************************)
(* Every step keeps the generations within the bounds.                     *)
(***************************************************************************)
LEMMA CountKept ==
    ASSUME MainTypes, RequestTypes, CountInv, TransportInv, [FR3Next]_fr3Vars
    PROVE  CountInv'
  <1> USE BoundsAssumption
         DEF MainTypes, RequestTypes, CountInv, MoveBegun, TransportInv,
             Starting, mainVars, requestVars
  <1>1. CASE OpenRobot
    BY <1>1 DEF OpenRobot, StartController
  <1>2. CASE ControllerStarted
    BY <1>2 DEF ControllerStarted
  <1>3. CASE ControllerFailed
    BY <1>3 DEF ControllerFailed
  <1>4. CASE StartGripper
    BY <1>4 DEF StartGripper
  <1>5. CASE GripperAnswered
    BY <1>5 DEF GripperAnswered
  <1>6. CASE GripperSilent
    BY <1>6 DEF GripperSilent
  <1>7. CASE MoveClosed
    BY <1>7 DEF MoveClosed
  <1>8. CASE Home
    BY <1>8 DEF Home, StartController
  <1>9. CASE Activate
    BY <1>9 DEF Activate, OpenGripper, GripperTarget, FailMove
  <1>10. CASE Activated
    BY <1>10 DEF Activated, OpenGripper, GripperTarget, FailMove
  <1>11. CASE Opened
    BY <1>11 DEF Opened, FailMove, GripperHold
  <1>12. CASE Park
    BY <1>12 DEF Park, GripperHold
  <1>13. CASE StopClosed
    BY <1>13 DEF StopClosed, GripperHold
  <1>14. CASE StopPolling
    BY <1>14 DEF StopPolling
  <1>15. CASE StopDone
    BY <1>15 DEF StopDone
  <1>16. CASE EnterRecovery
    BY <1>16 DEF EnterRecovery
  <1>17. CASE RuntimeHold
    BY <1>17 DEF RuntimeHold, GripperHold
  <1>18. CASE BeginArmMove
    BY <1>18 DEF BeginArmMove, GripperHold
  <1>19. CASE BeginStop
    BY <1>19 DEF BeginStop
  <1>20. CASE \E pos \in GripperPositions : CommandGripper(pos)
    BY <1>20 DEF CommandGripper, GripperTarget
  <1>21. CASE FirstCallback
    BY <1>21 DEF FirstCallback
  <1>22. CASE Callback
    BY <1>22 DEF Callback
  <1>23. CASE ControllerEnds
    BY <1>23 DEF ControllerEnds
  <1>24. CASE PollTop
    BY <1>24 DEF PollTop
  <1>25. CASE PollActivate
    BY <1>25 DEF PollActivate
  <1>26. CASE PollRead
    BY <1>26 DEF PollRead
  <1>27. CASE PollWrite
    BY <1>27 DEF PollWrite
  <1>28. CASE PollEnds
    BY <1>28 DEF PollEnds
  <1>29. CASE GripperBecomesActive
    BY <1>29 DEF GripperBecomesActive
  <1>30. CASE Terminated \/ UNCHANGED fr3Vars
    BY <1>30 DEF Terminated, fr3Vars
  <1> QED
    BY <1>1, <1>2, <1>3, <1>4, <1>5, <1>6, <1>7, <1>8, <1>9, <1>10, <1>11,
       <1>12, <1>13, <1>14, <1>15, <1>16, <1>17, <1>18, <1>19, <1>20, <1>21,
       <1>22, <1>23, <1>24, <1>25, <1>26, <1>27, <1>28, <1>29, <1>30
       DEF FR3Next, MainStep, LoopStep, ArmStep, PollStep

(***************************************************************************)
(* No step loses the transport, or ends its thread without a trace.        *)
(***************************************************************************)
LEMMA TransportKept ==
    ASSUME MainTypes, PollTypes, CountInv, TransportInv, [FR3Next]_fr3Vars
    PROVE  TransportInv'
  <1> USE DEF MainTypes, PollTypes, Seens, TransportInv, CountInv, Starting,
              MoveBegun, mainVars, pollVars, gripperVars
  <1>1. CASE OpenRobot
    BY <1>1 DEF OpenRobot, StartController
  <1>2. CASE ControllerStarted
    BY <1>2 DEF ControllerStarted
  <1>3. CASE ControllerFailed
    BY <1>3 DEF ControllerFailed
  <1>4. CASE StartGripper
    BY <1>4 DEF StartGripper, Unseen
  <1>5. CASE GripperAnswered
    BY <1>5 DEF GripperAnswered
  <1>6. CASE GripperSilent
    BY <1>6 DEF GripperSilent
  <1>7. CASE MoveClosed
    BY <1>7 DEF MoveClosed
  <1>8. CASE Home
    BY <1>8 DEF Home, StartController
  <1>9. CASE Activate
    BY <1>9 DEF Activate, OpenGripper, FailMove
  <1>10. CASE Activated
    BY <1>10 DEF Activated, OpenGripper, FailMove
  <1>11. CASE Opened
    BY <1>11 DEF Opened, FailMove
  <1>12. CASE Park
    BY <1>12 DEF Park
  <1>13. CASE StopClosed
    BY <1>13 DEF StopClosed
  <1>14. CASE StopPolling
    BY <1>14 DEF StopPolling
  <1>15. CASE StopDone
    BY <1>15 DEF StopDone
  <1>16. CASE EnterRecovery
    BY <1>16 DEF EnterRecovery
  <1>17. CASE RuntimeHold
    BY <1>17 DEF RuntimeHold
  <1>18. CASE BeginArmMove
    BY <1>18 DEF BeginArmMove
  <1>19. CASE BeginStop
    BY <1>19 DEF BeginStop
  <1>20. CASE \E pos \in GripperPositions : CommandGripper(pos)
    BY <1>20 DEF CommandGripper
  <1>21. CASE FirstCallback
    BY <1>21 DEF FirstCallback
  <1>22. CASE Callback
    BY <1>22 DEF Callback
  <1>23. CASE ControllerEnds
    BY <1>23 DEF ControllerEnds
  <1>24. CASE PollTop
    BY <1>24 DEF PollTop
  <1>25. CASE PollActivate
    BY <1>25 DEF PollActivate, FailTransport
  <1>26. CASE PollRead
    BY <1>26 DEF PollRead, FailTransport
  <1>27. CASE PollWrite
    BY <1>27 DEF PollWrite, FailTransport
  <1>28. CASE PollEnds
    BY <1>28 DEF PollEnds
  <1>29. CASE GripperBecomesActive
    BY <1>29 DEF GripperBecomesActive
  <1>30. CASE Terminated \/ UNCHANGED fr3Vars
    BY <1>30 DEF Terminated, fr3Vars
  <1> QED
    BY <1>1, <1>2, <1>3, <1>4, <1>5, <1>6, <1>7, <1>8, <1>9, <1>10, <1>11,
       <1>12, <1>13, <1>14, <1>15, <1>16, <1>17, <1>18, <1>19, <1>20, <1>21,
       <1>22, <1>23, <1>24, <1>25, <1>26, <1>27, <1>28, <1>29, <1>30
       DEF FR3Next, MainStep, LoopStep, ArmStep, PollStep

(***************************************************************************)
(* No step ends the torque controller without a trace while it should run. *)
(***************************************************************************)
LEMMA RunsKept ==
    ASSUME MainTypes, ControllerTypes, CountInv, TransportInv, ControllerRuns, [FR3Next]_fr3Vars
    PROVE  ControllerRuns'
  <1> USE DEF MainTypes, ControllerTypes, CountInv, TransportInv, MoveBegun,
              Starting, ControllerRuns, mainVars, armVars
  <1>1. CASE OpenRobot
    BY <1>1 DEF OpenRobot, StartController, InitializeControllerState
  <1>2. CASE ControllerStarted
    BY <1>2 DEF ControllerStarted
  <1>3. CASE ControllerFailed
    <2>1. CASE moves = 0 /\ poll = "none"
      BY <1>3, <2>1 DEF ControllerFailed
    <2>2. CASE ~(moves = 0 /\ poll = "none")
      <3>1. poll # "none"
        BY <1>3, <2>2 DEF ControllerFailed
      <3>2. main' = "loop" /\ recovering' = TRUE
        BY <1>3, <2>2, <3>1, Zenon DEF ControllerFailed
      <3> QED
        BY <3>2
    <2> QED
      BY <2>1, <2>2
  <1>4. CASE StartGripper
    BY <1>4 DEF StartGripper
  <1>5. CASE GripperAnswered
    BY <1>5 DEF GripperAnswered
  <1>6. CASE GripperSilent
    BY <1>6 DEF GripperSilent
  <1>7. CASE MoveClosed
    BY <1>7 DEF MoveClosed
  <1>8. CASE Home
    BY <1>8 DEF Home, StartController, InitializeControllerState
  <1>9. CASE Activate
    BY <1>9 DEF Activate, OpenGripper, FailMove
  <1>10. CASE Activated
    BY <1>10 DEF Activated, OpenGripper, FailMove
  <1>11. CASE Opened
    BY <1>11 DEF Opened, FailMove
  <1>12. CASE Park
    BY <1>12 DEF Park
  <1>13. CASE StopClosed
    BY <1>13 DEF StopClosed
  <1>14. CASE StopPolling
    BY <1>14 DEF StopPolling
  <1>15. CASE StopDone
    BY <1>15 DEF StopDone
  <1>16. CASE EnterRecovery
    BY <1>16 DEF EnterRecovery
  <1>17. CASE RuntimeHold
    BY <1>17 DEF RuntimeHold
  <1>18. CASE BeginArmMove
    BY <1>18 DEF BeginArmMove
  <1>19. CASE BeginStop
    BY <1>19 DEF BeginStop
  <1>20. CASE \E pos \in GripperPositions : CommandGripper(pos)
    BY <1>20 DEF CommandGripper
  <1>21. CASE FirstCallback
    BY <1>21 DEF FirstCallback
  <1>22. CASE Callback
    BY <1>22 DEF Callback
  <1>23. CASE ControllerEnds
    <2>1. CASE stopArm
      <3>1. main' = main /\ stopArm' = stopArm /\ recovering' = recovering /\ armFault' = armFault
        BY <1>23, <2>1, Zenon DEF ControllerEnds, ControllerExits
      <3> QED
        BY <2>1, <3>1
    <2>2. CASE ~stopArm
      <3>1. main' = main /\ arm' = "exited" /\ armFault' = TRUE /\ stopArm' = stopArm
        BY <1>23, <2>2, Zenon DEF ControllerEnds, ControllerExits
      <3> QED
        BY <2>2, <3>1
    <2> QED
      BY <2>1, <2>2
  <1>24. CASE PollTop
    BY <1>24 DEF PollTop
  <1>25. CASE PollActivate
    BY <1>25 DEF PollActivate
  <1>26. CASE PollRead
    BY <1>26 DEF PollRead
  <1>27. CASE PollWrite
    BY <1>27 DEF PollWrite
  <1>28. CASE PollEnds
    BY <1>28 DEF PollEnds
  <1>29. CASE GripperBecomesActive
    BY <1>29 DEF GripperBecomesActive
  <1>30. CASE Terminated \/ UNCHANGED fr3Vars
    BY <1>30 DEF Terminated, fr3Vars
  <1> QED
    BY <1>1, <1>2, <1>3, <1>4, <1>5, <1>6, <1>7, <1>8, <1>9, <1>10, <1>11,
       <1>12, <1>13, <1>14, <1>15, <1>16, <1>17, <1>18, <1>19, <1>20, <1>21,
       <1>22, <1>23, <1>24, <1>25, <1>26, <1>27, <1>28, <1>29, <1>30
       DEF FR3Next, MainStep, LoopStep, ArmStep, PollStep

(***************************************************************************)
(* No step of the main thread, the torque callback or a ready move leaves  *)
(* an older order behind a newer one.                                      *)
(***************************************************************************)
LEMMA ArmOrdersKept ==
    ASSUME OrderTypes, ControllerTypes, ArmOrders, [FR3Next]_fr3Vars
    PROVE  ArmOrders'
  <1> USE DEF OrderTypes, ControllerTypes, ArmOrders, mainVars, armVars,
              orderVars
  <1>1. CASE OpenRobot
    BY <1>1 DEF OpenRobot, StartController, InitializeControllerState
  <1>2. CASE ControllerStarted
    BY <1>2 DEF ControllerStarted
  <1>3. CASE ControllerFailed
    BY <1>3 DEF ControllerFailed
  <1>4. CASE StartGripper
    BY <1>4 DEF StartGripper
  <1>5. CASE GripperAnswered
    BY <1>5 DEF GripperAnswered, ArmHold
  <1>6. CASE GripperSilent
    BY <1>6 DEF GripperSilent
  <1>7. CASE MoveClosed
    BY <1>7 DEF MoveClosed
  <1>8. CASE Home
    BY <1>8 DEF Home, StartController, InitializeControllerState
  <1>9. CASE Activate
    BY <1>9 DEF Activate, OpenGripper, FailMove, ArmHold
  <1>10. CASE Activated
    BY <1>10 DEF Activated, OpenGripper, FailMove, ArmHold
  <1>11. CASE Opened
    BY <1>11 DEF Opened, FailMove, ArmHold
  <1>12. CASE Park
    BY <1>12 DEF Park, ArmHold
  <1>13. CASE StopClosed
    BY <1>13 DEF StopClosed
  <1>14. CASE StopPolling
    BY <1>14 DEF StopPolling
  <1>15. CASE StopDone
    BY <1>15 DEF StopDone
  <1>16. CASE EnterRecovery
    BY <1>16 DEF EnterRecovery
  <1>17. CASE RuntimeHold
    BY <1>17 DEF RuntimeHold, ArmHold
  <1>18. CASE BeginArmMove
    BY <1>18 DEF BeginArmMove
  <1>19. CASE BeginStop
    BY <1>19 DEF BeginStop
  <1>20. CASE \E pos \in GripperPositions : CommandGripper(pos)
    BY <1>20 DEF CommandGripper, ArmTarget
  <1>21. CASE FirstCallback
    BY <1>21 DEF FirstCallback
  <1>22. CASE Callback
    BY <1>22 DEF Callback, ApplyPendingCommand
  <1>23. CASE ControllerEnds
    BY <1>23 DEF ControllerEnds, ControllerExits
  <1>24. CASE PollTop
    BY <1>24 DEF PollTop
  <1>25. CASE PollActivate
    BY <1>25 DEF PollActivate
  <1>26. CASE PollRead
    BY <1>26 DEF PollRead
  <1>27. CASE PollWrite
    BY <1>27 DEF PollWrite
  <1>28. CASE PollEnds
    BY <1>28 DEF PollEnds
  <1>29. CASE GripperBecomesActive
    BY <1>29 DEF GripperBecomesActive
  <1>30. CASE Terminated \/ UNCHANGED fr3Vars
    BY <1>30 DEF Terminated, fr3Vars
  <1> QED
    BY <1>1, <1>2, <1>3, <1>4, <1>5, <1>6, <1>7, <1>8, <1>9, <1>10, <1>11,
       <1>12, <1>13, <1>14, <1>15, <1>16, <1>17, <1>18, <1>19, <1>20, <1>21,
       <1>22, <1>23, <1>24, <1>25, <1>26, <1>27, <1>28, <1>29, <1>30
       DEF FR3Next, MainStep, LoopStep, ArmStep, PollStep

(***************************************************************************)
(* Every step keeps the polling thread's decision in line with its copy of *)
(* the requests.                                                           *)
(***************************************************************************)
LEMMA DecidedKept ==
    ASSUME PollTypes, Decided, [FR3Next]_fr3Vars
    PROVE  Decided'
  <1> USE DEF PollTypes, Decided, pollVars, gripperVars
  <1>1. CASE OpenRobot
    BY <1>1 DEF OpenRobot
  <1>2. CASE ControllerStarted
    BY <1>2 DEF ControllerStarted
  <1>3. CASE ControllerFailed
    BY <1>3 DEF ControllerFailed
  <1>4. CASE StartGripper
    BY <1>4 DEF StartGripper
  <1>5. CASE GripperAnswered
    BY <1>5 DEF GripperAnswered
  <1>6. CASE GripperSilent
    BY <1>6 DEF GripperSilent
  <1>7. CASE MoveClosed
    BY <1>7 DEF MoveClosed
  <1>8. CASE Home
    BY <1>8 DEF Home
  <1>9. CASE Activate
    BY <1>9 DEF Activate
  <1>10. CASE Activated
    BY <1>10 DEF Activated
  <1>11. CASE Opened
    BY <1>11 DEF Opened
  <1>12. CASE Park
    BY <1>12 DEF Park
  <1>13. CASE StopClosed
    BY <1>13 DEF StopClosed
  <1>14. CASE StopPolling
    BY <1>14 DEF StopPolling
  <1>15. CASE StopDone
    BY <1>15 DEF StopDone
  <1>16. CASE EnterRecovery
    BY <1>16 DEF EnterRecovery
  <1>17. CASE RuntimeHold
    BY <1>17 DEF RuntimeHold
  <1>18. CASE BeginArmMove
    BY <1>18 DEF BeginArmMove
  <1>19. CASE BeginStop
    BY <1>19 DEF BeginStop
  <1>20. CASE \E pos \in GripperPositions : CommandGripper(pos)
    BY <1>20 DEF CommandGripper
  <1>21. CASE FirstCallback
    BY <1>21 DEF FirstCallback
  <1>22. CASE Callback
    BY <1>22 DEF Callback
  <1>23. CASE ControllerEnds
    BY <1>23 DEF ControllerEnds
  <1>24. CASE PollTop
    BY <1>24 DEF PollTop
  <1>25. CASE PollActivate
    BY <1>25 DEF PollActivate, FailTransport
  <1>26. CASE PollRead
    <2>1. UNCHANGED <<motion, active, snap, applied>>
      BY <1>26 DEF PollRead
    <2>2. CASE FailTransport
      BY <2>1, <2>2 DEF FailTransport
    <2>3. CASE ~FailTransport
      BY <1>26, <2>1, <2>3, ReadEffect
    <2> QED
      BY <2>2, <2>3
  <1>27. CASE PollWrite
    BY <1>27 DEF PollWrite, FailTransport, NoCommand
  <1>28. CASE PollEnds
    BY <1>28 DEF PollEnds
  <1>29. CASE GripperBecomesActive
    BY <1>29 DEF GripperBecomesActive
  <1>30. CASE Terminated \/ UNCHANGED fr3Vars
    BY <1>30 DEF Terminated, fr3Vars
  <1> QED
    BY <1>1, <1>2, <1>3, <1>4, <1>5, <1>6, <1>7, <1>8, <1>9, <1>10, <1>11,
       <1>12, <1>13, <1>14, <1>15, <1>16, <1>17, <1>18, <1>19, <1>20, <1>21,
       <1>22, <1>23, <1>24, <1>25, <1>26, <1>27, <1>28, <1>29, <1>30
       DEF FR3Next, MainStep, LoopStep, ArmStep, PollStep

(***************************************************************************)
(* A hold, once taken up, stands for the newest target.                    *)
(***************************************************************************)
LEMMA HoldKept ==
    ASSUME PollTypes, RequestTypes, TransportInv, Decided, HoldStands, [FR3Next]_fr3Vars
    PROVE  HoldStands'
  <1> USE DEF PollTypes, RequestTypes, TransportInv, Starting, Decided,
              HoldTaken, HoldStands, requestVars, pollVars, gripperVars
  <1>1. CASE OpenRobot
    BY <1>1 DEF OpenRobot
  <1>2. CASE ControllerStarted
    BY <1>2 DEF ControllerStarted
  <1>3. CASE ControllerFailed
    BY <1>3 DEF ControllerFailed
  <1>4. CASE StartGripper
    BY <1>4 DEF StartGripper
  <1>5. CASE GripperAnswered
    BY <1>5 DEF GripperAnswered
  <1>6. CASE GripperSilent
    BY <1>6 DEF GripperSilent
  <1>7. CASE MoveClosed
    BY <1>7 DEF MoveClosed
  <1>8. CASE Home
    BY <1>8 DEF Home
  <1>9. CASE Activate
    BY <1>9 DEF Activate, OpenGripper, GripperTarget
  <1>10. CASE Activated
    BY <1>10 DEF Activated, OpenGripper, GripperTarget
  <1>11. CASE Opened
    BY <1>11 DEF Opened, GripperHold
  <1>12. CASE Park
    BY <1>12 DEF Park, GripperHold
  <1>13. CASE StopClosed
    BY <1>13 DEF StopClosed, GripperHold
  <1>14. CASE StopPolling
    BY <1>14 DEF StopPolling
  <1>15. CASE StopDone
    BY <1>15 DEF StopDone
  <1>16. CASE EnterRecovery
    BY <1>16 DEF EnterRecovery
  <1>17. CASE RuntimeHold
    BY <1>17 DEF RuntimeHold, GripperHold
  <1>18. CASE BeginArmMove
    BY <1>18 DEF BeginArmMove, GripperHold
  <1>19. CASE BeginStop
    BY <1>19 DEF BeginStop
  <1>20. CASE \E pos \in GripperPositions : CommandGripper(pos)
    BY <1>20 DEF CommandGripper, GripperTarget
  <1>21. CASE FirstCallback
    BY <1>21 DEF FirstCallback
  <1>22. CASE Callback
    BY <1>22 DEF Callback
  <1>23. CASE ControllerEnds
    BY <1>23 DEF ControllerEnds
  <1>24. CASE PollTop
    BY <1>24 DEF PollTop
  <1>25. CASE PollActivate
    BY <1>25 DEF PollActivate, FailTransport
  <1>26. CASE PollRead
    <2>1. UNCHANGED <<motion, active, snap, applied, ordered, askHold, gen>> /\ poll = "read"
      BY <1>26 DEF PollRead
    <2>2. CASE FailTransport
      BY <2>1, <2>2 DEF FailTransport
    <2>3. CASE ~FailTransport
      BY <1>26, <2>1, <2>3, ReadEffect
    <2> QED
      BY <2>2, <2>3
  <1>27. CASE PollWrite
    BY <1>27 DEF PollWrite, FailTransport, NoCommand
  <1>28. CASE PollEnds
    BY <1>28 DEF PollEnds
  <1>29. CASE GripperBecomesActive
    BY <1>29 DEF GripperBecomesActive
  <1>30. CASE Terminated \/ UNCHANGED fr3Vars
    BY <1>30 DEF Terminated, fr3Vars
  <1> QED
    BY <1>1, <1>2, <1>3, <1>4, <1>5, <1>6, <1>7, <1>8, <1>9, <1>10, <1>11,
       <1>12, <1>13, <1>14, <1>15, <1>16, <1>17, <1>18, <1>19, <1>20, <1>21,
       <1>22, <1>23, <1>24, <1>25, <1>26, <1>27, <1>28, <1>29, <1>30
       DEF FR3Next, MainStep, LoopStep, ArmStep, PollStep

(***************************************************************************)
(* No step sends a holding gripper back to an older target.                *)
(***************************************************************************)
LEMMA HoldStep ==
    ASSUME PollTypes, Decided, HoldStands, [FR3Next]_fr3Vars
    PROVE  HoldIsNotUndone
  <1> USE DEF HoldIsNotUndone
  <1>1. CASE PollActivate
    BY <1>1 DEF PollActivate
  <1>2. CASE PollWrite
    <2> SUFFICES ASSUME motion = "hold", HoldTaken
                 PROVE  motion' \in {"hold", "none"} \/ (motion' = "closed" /\ snap.pos = "closed")
      BY DEF HoldTaken
    <2>1. motion' = motion \/ motion' = out.to
      BY <1>2 DEF PollWrite
    <2>2. snap.gen = gen /\ (applied = gen \/ out.to = "hold")
      BY <1>2 DEF HoldStands, PollWrite
    <2>3. snap.pos \in {"open", "closed"} /\ out.write \in BOOLEAN
      BY DEF PollTypes, Snaps, Commands, GripperPositions
    <2> QED
      BY <1>2, <2>1, <2>2, <2>3 DEF Decided, PollWrite
  <1>3. CASE MainStep \/ LoopStep
    <2>1. motion' = motion
      BY <1>3
         DEF MainStep, LoopStep, OpenRobot, ControllerStarted, ControllerFailed,
           StartGripper, GripperAnswered, GripperSilent, MoveClosed, Home,
           Activate,
           Activated, Opened, Park, StopClosed, StopPolling, StopDone,
           EnterRecovery,
           RuntimeHold, BeginArmMove, BeginStop, CommandGripper, gripperVars
    <2> QED
      BY <2>1
  <1>4. CASE ArmStep \/ PollTop \/ PollRead \/ PollEnds \/ GripperBecomesActive
             \/ Terminated \/ UNCHANGED fr3Vars
    <2>1. motion' = motion
      BY <1>4
         DEF ArmStep, FirstCallback, Callback, ControllerEnds, PollTop,
             PollRead,
           PollEnds, GripperBecomesActive, Terminated, fr3Vars, gripperVars
    <2> QED
      BY <2>1
  <1> QED
    BY <1>1, <1>2, <1>3, <1>4 DEF FR3Next, PollStep

(***************************************************************************)
(* The invariant holds initially.                                          *)
(***************************************************************************)
LEMMA FR3Initially == FR3Init => FR3Inv
  <1> SUFFICES ASSUME FR3Init PROVE FR3Inv
    OBVIOUS
  <1>1. MainTypes /\ CountInv
    <2>1. MaxTargets \in Nat /\ MaxMoves \in Nat
      BY BoundsAssumption
    <2>2. main = "off" /\ recovering = FALSE /\ ready = FALSE
      BY DEF FR3Init
    <2>3. moves = 0 /\ gen = 0
      BY DEF FR3Init
    <2>4. main \in MainPhases
      BY <2>2 DEF MainPhases
    <2>5. recovering \in BOOLEAN /\ ready \in BOOLEAN
      BY <2>2, Zenon
    <2>6. moves \in 0 .. MaxMoves
      BY <2>1, <2>3
    <2>7. ~MoveBegun
      BY <2>2 DEF MoveBegun
    <2>8. CountInv
      BY <2>1, <2>3, <2>7 DEF CountInv
    <2> QED
      BY <2>4, <2>5, <2>6, <2>8 DEF MainTypes
  <1>2. ControllerTypes /\ OrderTypes
    BY DEF FR3Init, ControllerTypes, OrderTypes
  <1>3. RequestTypes
    BY DEF FR3Init, RequestTypes, GripperPositions
  <1>4. PollTypes
    <2>1. 0 \in Generations
      BY BoundsAssumption DEF Generations
    <2>2. Unseen \in Seens
      BY DEF Unseen, Seens
    <2>3. NoSnap \in Snaps
      BY <2>1 DEF NoSnap, Snaps, GripperPositions
    <2>4. NoCommand \in Commands /\ "none" \in Motions
      BY DEF NoCommand, Commands, Motions
    <2> QED
      BY <2>2, <2>3, <2>4 DEF FR3Init, PollTypes
  <1>5. TransportInv /\ ControllerRuns /\ ArmOrders
    BY DEF FR3Init, TransportInv, ControllerRuns, ArmOrders, MoveBegun
  <1>6. Decided /\ HoldStands
    BY DEF FR3Init, Decided, HoldStands, HoldTaken
  <1> QED
    BY <1>1, <1>2, <1>3, <1>4, <1>5, <1>6 DEF FR3Inv, FR3Types

(***************************************************************************)
(* The invariant is inductive.                                             *)
(***************************************************************************)
LEMMA FR3Inductive == FR3Inv /\ [FR3Next]_fr3Vars => FR3Inv'
  <1> SUFFICES ASSUME FR3Inv, [FR3Next]_fr3Vars PROVE FR3Inv'
    OBVIOUS
  <1>1. /\ MainTypes /\ ControllerTypes /\ OrderTypes /\ RequestTypes /\ PollTypes
        /\ CountInv /\ TransportInv /\ ControllerRuns /\ ArmOrders
        /\ Decided /\ HoldStands
    BY DEF FR3Inv, FR3Types
  <1>2. MainTypes' /\ ControllerTypes' /\ OrderTypes'
    BY <1>1, MainTypesKept, ControllerTypesKept, OrderTypesKept
  <1>3. RequestTypes' /\ PollTypes'
    BY <1>1, RequestTypesKept, PollTypesKept
  <1>4. CountInv' /\ TransportInv' /\ ControllerRuns'
    BY <1>1, CountKept, TransportKept, RunsKept
  <1>5. ArmOrders' /\ Decided' /\ HoldStands'
    BY <1>1, ArmOrdersKept, DecidedKept, HoldKept
  <1> QED
    BY <1>2, <1>3, <1>4, <1>5 DEF FR3Inv, FR3Types

(***************************************************************************)
(* The invariant holds in every behaviour.                                 *)
(***************************************************************************)
LEMMA FR3Always == FR3Spec => []FR3Inv
  BY FR3Initially, FR3Inductive, PTL DEF FR3Spec

(***************************************************************************)
(* The invariant implies what the FR3 promises of a state.                 *)
(***************************************************************************)
LEMMA FR3SafeState ==
    FR3Inv => FR3TypeOK /\ NewestArmOrderWins /\ NoTargetSurvivesMove /\ DeadThreadIsSeen
  <1> SUFFICES ASSUME FR3Inv
               PROVE  FR3TypeOK /\ NewestArmOrderWins /\ NoTargetSurvivesMove /\ DeadThreadIsSeen
    OBVIOUS
  <1>1. MainTypes /\ ControllerTypes /\ OrderTypes /\ RequestTypes /\ PollTypes /\ CountInv
    BY DEF FR3Inv, FR3Types
  <1>2. FR3TypeOK
    <2>1. gen \in Generations
      BY <1>1, ShortGenerations
    <2> QED
      BY <1>1, <2>1
         DEF FR3TypeOK, MainTypes, ControllerTypes, OrderTypes, RequestTypes,
                        PollTypes, Seens, Snaps, Commands
  <1>3. NewestArmOrderWins /\ NoTargetSurvivesMove
    BY <1>1 DEF FR3Inv, ArmOrders, NewestArmOrderWins, NoTargetSurvivesMove
  <1>4. DeadThreadIsSeen
    BY DEF FR3Inv, TransportInv, ControllerRuns, DeadThreadIsSeen, HardwareBad
  <1> QED
    BY <1>2, <1>3, <1>4

(***************************************************************************)
(* A torque controller or a gripper thread that has ended is never taken   *)
(* for a quiet one: the next read reports it, or the device is already in  *)
(* recovery, for every number of targets and ready moves and every set of  *)
(* robot faults.                                                           *)
(***************************************************************************)
THEOREM DeadThreadsAreSeen == FR3Spec => []DeadThreadIsSeen
  BY FR3Always, FR3SafeState, PTL

(***************************************************************************)
(* The FR3's two threads pursue the newest order of the main thread and    *)
(* nothing older, within normal operation and across ready moves, for      *)
(* every number of targets and moves and every set of robot faults.        *)
(***************************************************************************)
THEOREM NewestOrders == FR3Spec => NewestOrderWins
  <1>1. FR3Inv /\ [FR3Next]_fr3Vars =>
            [HoldIsNotUndone
                /\ (FR3TypeOK /\ NewestArmOrderWins /\ NoTargetSurvivesMove)']_fr3Vars
    <2> SUFFICES ASSUME FR3Inv, [FR3Next]_fr3Vars
                 PROVE  /\ HoldIsNotUndone
                        /\ (FR3TypeOK /\ NewestArmOrderWins /\ NoTargetSurvivesMove)'
      OBVIOUS
    <2>1. HoldIsNotUndone
      BY HoldStep DEF FR3Inv, FR3Types
    <2>2. FR3Inv'
      BY FR3Inductive
    <2>3. (FR3TypeOK /\ NewestArmOrderWins /\ NoTargetSurvivesMove)'
      BY <2>2, FR3SafeState, PTL
    <2> QED
      BY <2>1, <2>3
  <1> QED
    BY <1>1, FR3Always, PTL DEF FR3Spec, NewestOrderWins
=============================================================================
