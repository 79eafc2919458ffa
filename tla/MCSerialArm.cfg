SPECIFICATION MCSpec
CONSTANTS
    NumServos = 2
    Roles = {"leader", "follower"}
    Firmwares = {"plain", "hx"}
    Attempts = 2
    LineFaults = {"lost", "unplug", "tx"}
    MaxFaults = 1
    Travel = 3
    SafetyMargin = 1
    NormMin = 1
    NormMax = 3
    Levels = 3
    Margin = 0
    Hysteresis = 0
    Step = 1
    GripWindow = 2
    StuckThreshold = 1
    ConfirmCount = 1
    BudgetFloor = 3
    BudgetScale = 1
    Configurations <- Setups
    Temperatures = {"cool", "critical"}
    Faults = {"dead", "error"}
INVARIANTS
    GripperIsTame
PROPERTIES
    TorqueIsOrderly
    LossIsSurvived
    ReadyMoveIsClean
CHECK_DEADLOCK FALSE
