SPECIFICATION AsyncSpec
CONSTANTS
    ActionsPerChunk = 1
    Poses = {p1}
    Horizon = 0
    MaxSessions = 1
    ThresholdNum = 0
    ThresholdDen = 2
    Senders = {s1, s2}
    Getters = {g1}
    MaxFaults = 0
    MaxRpcFaults = 1
    None = None
PROPERTIES
    WorkAnswered
    SendEnds
    ShutdownTerminates
