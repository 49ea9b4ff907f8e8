CONSTANTS
    AgentKinds = {"started", "completed", "interrupted", "aborted", "other"}
    MaxEvents = 4
    MaxCalls = 2
    MaxInputs = 2
SPECIFICATION Spec
INVARIANT RecoveryIsNotCompletion
CHECK_DEADLOCK FALSE
