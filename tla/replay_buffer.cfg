SPECIFICATION Spec
CONSTANTS
    Capacity = 3
    QueueSize = 1
    LearningStep = 2
    MaxMade = 4
    MaxCrashes = 1
INVARIANTS
    SampledWhole
    SampledNext
    CheckpointFaithful
PROPERTIES
    KeepsNewest
    PrefetchServes
CHECK_DEADLOCK FALSE
