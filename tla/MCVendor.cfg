SPECIFICATION MCSpec
CONSTANTS
    NumJoints = 2
    StallTimeout = 1
    VendorFaults = {"connect", "count", "read", "modes", "write", "idle"}
    DontGoHome = FALSE
    MaxTargets = 2
    MaxMoves = 2
    RobotFaults = {"robot", "limit", "modbus", "gripper"}
INVARIANTS
    ControllerIsSafe
PROPERTIES
    NewestOrderWins
    FailureIsSeen
    VendorCallsEnd
