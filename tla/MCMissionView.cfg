CONSTANTS
    AgentKinds = {"started", "completed", "interrupted", "route_completed", "error", "aborted", "other"}
    MaxEvents = 3
    PageCalls = 2
    PageInputs = 3
SPECIFICATION PageSpec
INVARIANT ViewIsProjection
PROPERTY ViewCatchesUp
\* A mission that was discarded is closed for good.
CHECK_DEADLOCK FALSE
