CONSTANTS
    MaxRuns = 2
    MaxInputs = 4

SPECIFICATION Spec
CHECK_DEADLOCK FALSE
INVARIANT RegistryFollowsConsumer
PROPERTIES
    LaunchReplacesNoRun
    LostUiPausesMission
    EndedRunIsForgotten
    GivenUpRunIsTold
    ForceTerminationKills
