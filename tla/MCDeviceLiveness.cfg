SPECIFICATION MCSpec
CONSTANTS
    NumJoints = 1
    MovingMode = "PARALLEL"
    Budget = 1
    ConfirmCount = 0
    HasEffector = FALSE
    Faults = {"algo", "move"}
    Role = "FOLLOWER"
    ArmType = "can"
    DontGoHome = FALSE
    ShutdownTimeout = 2
    ClientTimeout = 1
    AnnounceLoops = 2
    AnnounceInterval = 2
    Commands = {"HEARTBEAT", "MOVE_TO_READY_POS", "MOVE_TO_READY_AND_STOP"}
    MaxMoves = 2
PROPERTIES
    RecoveryTearsDown
    ClientIsServed
    RoutineTerminates
    RoutineOutlastsRefusals
