CONSTANTS
    Subjects = {"codex", "claude", "link", "scheduler"}
    Requests = {q1}
    QueueLimit = 1
    MaxInputs = 4
    ClaudeInputs = 4
    Missions = {m1, m2, m3}
    Foreground = {m1}
    Pids = {1, 2}
    MaxNonces = 1
    MaxTries = 2
    LinkCalls = 2
    MaxActive = 2
    Limits <- SmallLimits
    MaxActions = 2
SPECIFICATION MCSpec
INVARIANTS
    AnswerMatchesCommand
    CommandRunsOnce
    ReadyNamesServer
    ScheduleIsSound
PROPERTIES
    KeepsContract
    RequestIsAnswered
    TerminateEndsRun
    PauseIsReported
    ClaudeKeepsContract
    ClaudeTerminateEnds
    CallReturns
    ActionsAreHandedOut
CHECK_DEADLOCK FALSE
