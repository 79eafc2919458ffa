SPECIFICATION Spec
CONSTANTS
    NumServos = 2
    Encos = {2}
    Effector = {1}
    StopOnLoss = TRUE
    Retries = 2
    InitialAge = 0
    NormalAge = 1
    Capacity = 2
    Faults = {"busy", "hot", "unplug", "rx", "fault"}
    MaxFaults = 1
INVARIANTS
    ReaderIsAlone
PROPERTIES
    StreamStartsEnabled
    AnsweringServoIsAlive
    OffStaysOff
    BusEnds
CHECK_DEADLOCK FALSE
