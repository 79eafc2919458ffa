SPECIFICATION MCSpec
CONSTANTS
    NumJoints = 2
    MovingMode = "PARALLEL"
    Budget = 2
    ConfirmCount = 1
    HasEffector = FALSE
    Faults = {"read", "bulk", "move", "hold"}
    Role = "FOLLOWER"
    ArmType = "can"
    DontGoHome = TRUE
    ShutdownTimeout = 1
    ClientTimeout = 1
    AnnounceLoops = 2
    AnnounceInterval = 2
    Commands = {"MOVE_TO_READY_POS", "MOVE_TO_READY_POS_AND_PAUSE",
                "MOVE_TO_READY_AND_STOP", "PAUSE", "RESUME", "STOP"}
    MaxMoves = 2
    Units = {"given", "serial", "floating", "leader"}
INVARIANTS
    DeviceTypeOK
    MoveIsBounded
    RecoveryIsolated
    NoStaleTarget
    ReadyAnnouncement
    FaultsAreOwned
    ArmsMoveAsOrdered
PROPERTIES
    FollowsLifecycle
    FloatEndsInHold
