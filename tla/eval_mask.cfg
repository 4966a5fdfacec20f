SPECIFICATION EvalSpec
CONSTANTS
    NumEnvs = 2
    NEpisodes = 3
    MaxSteps = 3
INVARIANTS
    EpisodeRewards
