SPECIFICATION InferenceSpec
CONSTANTS
    ActionsPerChunk = 2
    Poses = {p1, p2}
    Horizon = 2
    MaxSessions = 1
    ThresholdNum = 1
    ThresholdDen = 2
    Senders = {s1}
    Getters = {g1}
    MaxFaults = 0
    MaxRpcFaults = 0
    None = None
    NoTensor = NoTensor
    ChunkSize = 4
    Threshold = 1
    Multiplier = 2
    Overrun = 1
    MaxChunks = 3
    MaxTicks = 10
    MaxClears = 1
    RobotStates = {0, 1}
    Offsets = {0, 2}
    ChunkSteps = 2
    MaxInferences = 3
INVARIANTS
    ClientTypeOK
    RtcTypeOK
    QueueIsOneChunk
    QueuesAligned
    PrefixForesees
    ChunksAnchored
PROPERTIES
    ClientRefined
    QuietMergeIsFresh
    ExecutedInOrder
    ExecutedOnTime
