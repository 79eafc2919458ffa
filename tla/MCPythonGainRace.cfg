SPECIFICATION MCSpec
CONSTANTS
    Units = {"pair"}
    Callers = {"app"}
    Engagers = {"engage"}
    MaxRequests = 2
    MaxConnects = 2
    Capacity = 1
    AnnounceLoops = 1
    AlignSteps = 1
PROPERTIES
    DisengageDisengages
CHECK_DEADLOCK FALSE
