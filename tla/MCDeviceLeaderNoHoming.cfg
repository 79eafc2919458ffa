SPECIFICATION MCSpec
CONSTANTS
    NumJoints = 2
    MovingMode = "PARALLEL"
    Budget = 2
    ConfirmCount = 1
    HasEffector = FALSE
    Faults = {}
    Role = "LEADER"
    ArmType = "controller"
    DontGoHome = TRUE
    ShutdownTimeout = 1
    ClientTimeout = 1
    AnnounceLoops = 2
    AnnounceInterval = 2
    Commands = {}
    MaxMoves = 0
    Units = {"given"}
INVARIANT LeaderFloats
