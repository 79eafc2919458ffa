SPECIFICATION MCSpec
CONSTANTS
    Reach = 4
    PosMin = 0
    PosMax = 2
    ErrorMargin = 1
    Home = 1
    MaxBehind = 1
    Tolerable = 0
    Slew = 1
    Threshold <- Thresholds
    ExitThreshold = 2
    Configurations <- Setups
    RequiredFrequency = 200
    Unset = 255
    Layouts <- Encoders
    FirmwareCompat = {TRUE, FALSE}
    MaxLate = 2
    ResponseDeadline = 2
    RetryBackoff = 3
    StartTimeout = 5
    RestartAt = 6
    FailureAt = 12
    CompiledRange <- MCCompiledRange
    MotorSpeeds <- MCMotorSpeeds
    MotorTorques <- MCMotorTorques
    Requests <- MCRequests
    Reports <- MCReports
    RegisterValues <- MCRegisterValues
    MaxChatter = 1
    SpringJoints = {1, 2}
    SpringSetups <- MCSpringSetups
    MaxPlace = 4
    AngleThreshold = 1
    RestSteps = 1
    SpringHome = 2
    SpringConstant = 2
    SpringPreload = 2
    SpringLimit = 3
PROPERTY HoldsAfterMove
CHECK_DEADLOCK FALSE
