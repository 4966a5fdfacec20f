SPECIFICATION AsyncSafety
CONSTANTS
    ActionsPerChunk = 2
    Poses = {p1, p2}
    Horizon = 2
    MaxSessions = 1
    ThresholdNum = 1
    ThresholdDen = 2
    Senders = {s1}
    Getters = {g1}
    MaxFaults = 0
    MaxRpcFaults = 0
    None = None
INVARIANT ReceiverSurvives
