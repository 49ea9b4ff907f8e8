SPECIFICATION Spec
CONSTANTS
    MaxRuns = 2
    MaxInputs = 4
PROPERTY PauseReachesAgent
CHECK_DEADLOCK FALSE
