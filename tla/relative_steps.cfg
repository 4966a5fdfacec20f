SPECIFICATION RelativeSpec
CONSTANTS
    RobotStates = {0, 1}
    Offsets = {0, 2}
    ChunkSteps = 2
    MaxInferences = 3
INVARIANT SharedReference
