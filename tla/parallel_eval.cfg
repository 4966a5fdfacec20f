SPECIFICATION Spec
CONSTANTS
    Tasks = {task1, task2}
    Layers = 2
    DenoiseSteps = 2
    NActionSteps = 2
    MaxCalls = 4
    None = None
INVARIANTS
    OneAssignment
