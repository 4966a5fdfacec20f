SPECIFICATION ComponentsSpec
CONSTANTS
    OnlineSteps = 2
    BeforeLearning = 2
    MaxWorkers = 3
    MaxParts = 2
    MaxVersions = 2
    MaxLinkFaults = 1
    NumEpisodes = 2
    MaxFrames = 2
    MaxKeys = 1
    MaxSessions = 2
    QueueMaxsize = 2
    MaxFed = 5
    MaxEncodings = 2
    MaxFailures = 0
    MaxShots = 3
    MaxConnections = 2
    WatchdogTimeout = 3
    MaxIteration = 2
    MaxTime = 10
    NumMotors = 2
    Resolution = 8
    OffsetMagnitude = 3
    Centres = {0, 2, 7}
    Ranges <- MCRanges
    MaxPrograms = 3
    NoCalibration = NoCalibration
    TornFile = TornFile
INVARIANTS
    ComponentsTypeOK
    
    
    
    EncodedInOrder
    BaseStopped
    ReadsAsCalibrated
PROPERTIES
    LoadsNewest
    EpisodesArrive
    ActorStops
    RecordingEnds
    FinishReturns
    ReadsFreshFrame
