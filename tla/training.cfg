SPECIFICATION TrainingSpec
CONSTANTS
    Tasks = {task1, task2}
    Layers = 2
    DenoiseSteps = 2
    NActionSteps = 2
    MaxCalls = 4
    None = None
    Lengths <- MCLengths
    Layouts <- MCLayouts
    FileSizes = {4, 8}
    MaxMade = 2
    MaxDeleted = 1
    Fractions <- MCFractions
    Streamed <- MCStreamed
    BufferSize = 2
    History = 3
    Lookahead = 2
    Deltas <- MCDeltas
    ImageWindows <- MCImageWindows
    NumEnvs = 2
    NEpisodes = 3
    MaxSteps = 3
    Steps = 5
    SaveFreq = 2
    MaxRuns = 3
INVARIANTS
    TrainingTypeOK
    LossesOfThisBatch
    OneAssignmentAlone
    DatasetsReadBack
    StreamedOnce
    EvaluatedEpisodes
    ResumesWhole
PROPERTIES
    ExecutesOwnActions
