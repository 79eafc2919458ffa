SPECIFICATION MCSpec
CONSTANTS
    ModelFiles <- MCModelFiles
    IndividualFiles <- MCIndividualFiles
    Garbage <- MCGarbage
    MaxPosition = 3
    Orders <- MCOrders
    Topics = {"status", "lifecycle"}
    NativeTopics = {"status"}
    HashSize = 64
    PortRange = 10
    PortProbeCandidates = 3
    Hashes <- PortHashes
    MaxOccupied = 2
    Commands = {"stop", "pause", "resume"}
    FrameKinds = {"good", "foreign", "wrongCount"}
    MaxCommands = 2
    MaxFrames = 2
    QueueBound = 2
    Clients = {"left", "right"}
    Effectors = {"none", "gripper"}
    Inodes = {1, 2, 3, 4}
    Overlapping = FALSE
INVARIANTS
    PowerAsOrdered
    Reachable
    InertiaOnce
PROPERTIES
    LoadedAsWritten
    TopicsKeepOrder
    LaunchEnds
