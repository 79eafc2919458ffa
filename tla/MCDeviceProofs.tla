--------------------------- MODULE MCDeviceProofs ---------------------------
(***************************************************************************)
(* The devices of MCDevice together: faults are owned and arms move as     *)
(* ordered, whichever of the devices a behaviour is about, for every       *)
(* number of joints, budget and timeout and for every device that the      *)
(* constants give.  Each device brings the invariants of DeviceProofs with *)
(* its own constants.                                                      *)
(***************************************************************************)
EXTENDS MCDevice, DeviceProofs

\* The next-state relation of MCSpec.
MCNext == GivenTurn \/ SerialTurn \/ FloatingTurn \/ LeaderTurn

(***************************************************************************)
(* What the devices share with the one that is given: the constants whose  *)
(* assumptions they need, and the variables.                               *)
(***************************************************************************)
LEMMA SharedConstants ==
    /\ NumJoints \in Nat \ {0} /\ Budget \in Nat \ {0} /\ ConfirmCount \in Nat
    /\ MovingMode \in {"PARALLEL", "SEQUENTIAL"} /\ HasEffector \in BOOLEAN
    /\ Role \in {"LEADER", "FOLLOWER"} /\ DontGoHome \in BOOLEAN
    /\ ShutdownTimeout \in Nat \ {0} /\ ClientTimeout \in Nat \ {0}
    /\ AnnounceLoops \in Nat \ {0} /\ AnnounceInterval \in Nat \ {0}
    /\ MaxMoves \in Nat
  BY NumJointsAssumption, BudgetAssumption, ConfirmCountAssumption,
     MovingModeAssumption, HasEffectorAssumption, RoleAssumption,
     DontGoHomeAssumption, TimeoutAssumption, AnnounceAssumption, MaxMovesAssumption

(* What leaves the variables of the given device alone leaves those of the   *)
(* others alone.                                                             *)
LEMMA SharedVariables ==
    ASSUME UNCHANGED deviceVars
    PROVE  /\ UNCHANGED Serial!deviceVars
           /\ UNCHANGED Floating!deviceVars
           /\ UNCHANGED Leader!deviceVars
  <1> USE DEF deviceVars, homingVars, moveVars, servoVars, commandVars, recoveryVars,
              modeVars, inputVars, clientVars, announceVars
  <1>1. UNCHANGED Serial!deviceVars
    BY DEF Serial!deviceVars, Serial!homingVars, Serial!moveVars, Serial!servoVars,
           Serial!commandVars, Serial!recoveryVars, Serial!modeVars, Serial!inputVars,
           Serial!clientVars, Serial!announceVars
  <1>2. UNCHANGED Floating!deviceVars
    BY DEF Floating!deviceVars, Floating!homingVars, Floating!moveVars,
           Floating!servoVars, Floating!commandVars, Floating!recoveryVars,
           Floating!modeVars, Floating!inputVars, Floating!clientVars,
           Floating!announceVars
  <1>3. UNCHANGED Leader!deviceVars
    BY DEF Leader!deviceVars, Leader!homingVars, Leader!moveVars, Leader!servoVars,
           Leader!commandVars, Leader!recoveryVars, Leader!modeVars, Leader!inputVars,
           Leader!clientVars, Leader!announceVars
  <1> QED BY <1>1, <1>2, <1>3

(***************************************************************************)
(* A behaviour starts as one of the devices and stays with it.             *)
(***************************************************************************)
LEMMA UnitInit ==
    ASSUME MCInit
    PROVE  /\ unit \in Units
           /\ \/ unit = "given" /\ DeviceInit
              \/ unit = "serial" /\ Serial!DeviceInit
              \/ unit = "floating" /\ Floating!DeviceInit
              \/ unit = "leader" /\ Leader!DeviceInit
  BY UnitsAssumption DEF MCInit

(* A step is one of the unit's own, or none.                                 *)
LEMMA UnitStep ==
    ASSUME [MCNext]_MCVars
    PROVE  /\ unit' = unit
           /\ unit = "given" => [DeviceNext]_deviceVars
           /\ unit = "serial" => [Serial!DeviceNext]_(Serial!deviceVars)
           /\ unit = "floating" => [Floating!DeviceNext]_(Floating!deviceVars)
           /\ unit = "leader" => [Leader!DeviceNext]_(Leader!deviceVars)
  <1>1. CASE UNCHANGED MCVars
    BY <1>1, SharedVariables DEF MCVars
  <1>2. CASE MCNext
    BY <1>2 DEF MCNext, GivenTurn, SerialTurn, FloatingTurn, LeaderTurn
  <1> QED BY <1>1, <1>2

-----------------------------------------------------------------------------
(***************************************************************************)
(* The faults.                                                             *)
(***************************************************************************)
OwnedUnit ==
    /\ unit \in Units
    /\ unit = "given" => OwnedInv
    /\ unit = "serial" => Serial!StaleReadEscalates
    /\ unit = "floating" => Floating!OwnedInv
    /\ unit = "leader" => Leader!OwnedInv

(* The serial arm, whose bulk reads fail with and without dead servos.       *)
LEMMA SerialOwned ==
    /\ Serial!DeviceInit => Serial!StaleReadEscalates
    /\ Serial!StaleReadEscalates /\ [Serial!DeviceNext]_(Serial!deviceVars)
         => Serial!StaleReadEscalates'
    /\ Serial!StaleReadEscalates => StaleReadEscalates
  <1>1. Serial!StaleReadEscalates => StaleReadEscalates
    BY DEF Serial!StaleReadEscalates, StaleReadEscalates
  <1> QED BY SharedConstants, Serial!StaleReadInvariant, <1>1
          DEF Serial!AllCommands, Serial!MoveCommands

(* The follower that is made to float, which has no faults.                  *)
LEMMA FloatingOwned ==
    /\ Floating!DeviceInit => Floating!OwnedInv
    /\ Floating!OwnedInv /\ [Floating!DeviceNext]_(Floating!deviceVars)
         => Floating!OwnedInv'
    /\ Floating!OwnedInv => StaleReadEscalates /\ OnlyLostJointsExcluded
  <1>1. /\ Floating!StaleReadEscalates => StaleReadEscalates
        /\ Floating!OnlyLostJointsExcluded => OnlyLostJointsExcluded
    BY DEF Floating!StaleReadEscalates, StaleReadEscalates,
           Floating!OnlyLostJointsExcluded, OnlyLostJointsExcluded, Floating!Joints, Joints
  <1> QED BY SharedConstants, Floating!OwnedInvariant, <1>1
          DEF Floating!AllCommands, Floating!MoveCommands

(* The leader, which has no faults.                                          *)
LEMMA LeaderOwned ==
    /\ Leader!DeviceInit => Leader!OwnedInv
    /\ Leader!OwnedInv /\ [Leader!DeviceNext]_(Leader!deviceVars) => Leader!OwnedInv'
    /\ Leader!OwnedInv => StaleReadEscalates /\ OnlyLostJointsExcluded
  <1>1. /\ Leader!StaleReadEscalates => StaleReadEscalates
        /\ Leader!OnlyLostJointsExcluded => OnlyLostJointsExcluded
    BY DEF Leader!StaleReadEscalates, StaleReadEscalates,
           Leader!OnlyLostJointsExcluded, OnlyLostJointsExcluded, Leader!Joints, Joints
  <1> QED BY SharedConstants, Leader!OwnedInvariant, <1>1
          DEF Leader!AllCommands, Leader!MoveCommands

(***************************************************************************)
(* A fault is neither swallowed nor put down to a healthy joint, whichever *)
(* device a behaviour is about.  The given device is any whose errors come *)
(* from its own joints.                                                    *)
(***************************************************************************)
THEOREM OwnedFaults ==
    ASSUME "given" \in Units =>
               /\ "effector" \notin Faults
               /\ ArmType # "controller" \/ "write" \notin Faults
    PROVE  MCSpec => []FaultsAreOwned
  <1>1. "given" \in Units =>
            /\ DeviceInit => OwnedInv
            /\ OwnedInv /\ [DeviceNext]_deviceVars => OwnedInv'
            /\ OwnedInv => StaleReadEscalates /\ OnlyLostJointsExcluded
    BY OwnedInvariant
  <1>2. MCInit => OwnedUnit
    <2> SUFFICES ASSUME MCInit PROVE OwnedUnit
      OBVIOUS
    <2> QED BY UnitInit, <1>1, SerialOwned, FloatingOwned, LeaderOwned DEF OwnedUnit
  <1>3. OwnedUnit /\ [MCNext]_MCVars => OwnedUnit'
    <2> SUFFICES ASSUME OwnedUnit, [MCNext]_MCVars PROVE OwnedUnit'
      OBVIOUS
    <2>1. /\ unit' = unit
          /\ unit = "given" => [DeviceNext]_deviceVars
          /\ unit = "serial" => [Serial!DeviceNext]_(Serial!deviceVars)
          /\ unit = "floating" => [Floating!DeviceNext]_(Floating!deviceVars)
          /\ unit = "leader" => [Leader!DeviceNext]_(Leader!deviceVars)
      BY UnitStep
    <2> QED BY <2>1, <1>1, SerialOwned, FloatingOwned, LeaderOwned DEF OwnedUnit
  <1>4. OwnedUnit => FaultsAreOwned
    BY <1>1, UnitsAssumption, SerialOwned, FloatingOwned, LeaderOwned
       DEF OwnedUnit, FaultsAreOwned
  <1> QED BY <1>2, <1>3, <1>4, PTL DEF MCSpec, MCNext

-----------------------------------------------------------------------------
(***************************************************************************)
(* The moves.                                                              *)
(***************************************************************************)
OrderedUnit ==
    /\ unit \in Units
    /\ unit = "given" => OrderedInv
    /\ unit = "floating" => Floating!OrderedInv /\ Floating!UpInv
    /\ unit = "leader" => Leader!OrderedInv /\ Leader!UpInv

(***************************************************************************)
(* The floating follower: its moves are as ordered, and it stays up.       *)
(***************************************************************************)
LEMMA FloatingMoves ==
    /\ Floating!DeviceInit => Floating!OrderedInv
    /\ Floating!OrderedInv /\ [Floating!DeviceNext]_(Floating!deviceVars)
         => Floating!OrderedInv'
    /\ Floating!OrderedInv => OverrideHeld /\ SkipIsNotUndone
  <1>1. /\ Floating!OverrideHeld => OverrideHeld
        /\ Floating!SkipIsNotUndone => SkipIsNotUndone
    BY DEF Floating!OverrideHeld, OverrideHeld, Floating!SkipIsNotUndone, SkipIsNotUndone
  <1>2. Floating!ModesAreSure
    BY DEF Floating!ModesAreSure
  <1> QED BY SharedConstants, Floating!OrderedInvariant, <1>1, <1>2
          DEF Floating!AllCommands, Floating!MoveCommands

(* Made to float at any time, it has its modes, and an error has its cause.  *)
LEMMA FloatingStaysUp ==
    ASSUME ConfirmCount # 0
    PROVE  /\ Floating!DeviceInit => Floating!UpInv
           /\ Floating!OrderedInv /\ Floating!UpInv
                /\ [Floating!DeviceNext]_(Floating!deviceVars) => Floating!UpInv'
           /\ Floating!OrderedInv /\ Floating!UpInv
                => Floating!HealthyArmStaysUp /\ FloatMatchesModes
  <1>1. Floating!FloatMatchesModes => FloatMatchesModes
    BY DEF Floating!FloatMatchesModes, FloatMatchesModes, Floating!Operates, Operates,
           Floating!Joints, Joints
  <1> QED BY SharedConstants, Floating!HealthyOrdered, <1>1
          DEF Floating!AllCommands, Floating!MoveCommands

(***************************************************************************)
(* The leader: its moves are as ordered, it stays up and it floats.        *)
(***************************************************************************)
LEMMA LeaderMoves ==
    /\ Leader!DeviceInit => Leader!OrderedInv
    /\ Leader!OrderedInv /\ [Leader!DeviceNext]_(Leader!deviceVars)
         => Leader!OrderedInv'
    /\ Leader!OrderedInv => OverrideHeld
  <1>1. Leader!OverrideHeld => OverrideHeld
    BY DEF Leader!OverrideHeld, OverrideHeld
  <1>2. Leader!ModesAreSure
    BY DEF Leader!ModesAreSure
  <1> QED BY SharedConstants, Leader!OrderedInvariant, <1>1, <1>2
          DEF Leader!AllCommands, Leader!MoveCommands

(* Homed at the start, the leader floats, and an error has its cause.        *)
LEMMA LeaderStaysUp ==
    ASSUME ConfirmCount # 0
    PROVE  /\ Leader!DeviceInit => Leader!UpInv
           /\ Leader!OrderedInv /\ Leader!UpInv
                /\ [Leader!DeviceNext]_(Leader!deviceVars) => Leader!UpInv'
           /\ Leader!OrderedInv /\ Leader!UpInv
                => Leader!HealthyArmStaysUp /\ Leader!LeaderFloats
  BY SharedConstants, Leader!HealthyOrdered DEF Leader!AllCommands, Leader!MoveCommands

(***************************************************************************)
(* The arms move as ordered and only so, whichever device a behaviour is   *)
(* about and with mode commands at any time, in the middle of a move too.  *)
(* The given device is any whose mode switches do not fail half-way; the   *)
(* arrival at the ready pose has to be confirmed.                          *)
(***************************************************************************)
THEOREM OrderedMoves ==
    ASSUME "given" \in Units => ModesAreSure, ConfirmCount # 0
    PROVE  MCSpec => []ArmsMoveAsOrdered
  <1>1. "given" \in Units =>
            /\ DeviceInit => OrderedInv
            /\ OrderedInv /\ [DeviceNext]_deviceVars => OrderedInv'
            /\ OrderedInv => OverrideHeld /\ SkipIsNotUndone
    BY OrderedInvariant
  <1>2. MCInit => OrderedUnit
    <2> SUFFICES ASSUME MCInit PROVE OrderedUnit
      OBVIOUS
    <2> QED BY UnitInit, <1>1, FloatingMoves, FloatingStaysUp, LeaderMoves, LeaderStaysUp
            DEF OrderedUnit
  <1>3. OrderedUnit /\ [MCNext]_MCVars => OrderedUnit'
    <2> SUFFICES ASSUME OrderedUnit, [MCNext]_MCVars PROVE OrderedUnit'
      OBVIOUS
    <2>1. /\ unit' = unit
          /\ unit = "given" => [DeviceNext]_deviceVars
          /\ unit = "floating" => [Floating!DeviceNext]_(Floating!deviceVars)
          /\ unit = "leader" => [Leader!DeviceNext]_(Leader!deviceVars)
      BY UnitStep
    <2> QED BY <2>1, <1>1, FloatingMoves, FloatingStaysUp, LeaderMoves, LeaderStaysUp
            DEF OrderedUnit
  <1>4. OrderedUnit => ArmsMoveAsOrdered
    BY <1>1, UnitsAssumption, FloatingMoves, FloatingStaysUp, LeaderMoves, LeaderStaysUp
       DEF OrderedUnit, ArmsMoveAsOrdered
  <1> QED BY <1>2, <1>3, <1>4, PTL DEF MCSpec, MCNext
=============================================================================
