SPECIFICATION MCSpec
CONSTANTS
    Units = {"arm", "pair"}
    Callers = {"app"}
    Engagers = {"engage"}
    MaxRequests = 2
    MaxConnects = 2
    Capacity = 1
    AnnounceLoops = 1
    AlignSteps = 1
INVARIANTS
    AnswersAreOwn
    NodeAsBelieved
PROPERTIES
    CallsEnd
    PairIsSafe
CHECK_DEADLOCK FALSE
