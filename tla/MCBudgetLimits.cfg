CONSTANTS
    Subjects = {"budget"}
    Missions = {m1, m2}
    Blobs = {b1}
    MaxEvents = 4
    MaxLives = 2
    MaxInputs = 8
    Runs = {r1, r2}
    Criteria = {k1}
    Subscribers = {c1}
    Paths = {p1, p2}
    Contents = {d1, d2}
    Totals = {1, 2, 4}
    Requests <- OneRequest
    Default <- SmallDefault
    BudgetInputs = 6
    MaxVersion = 6
    MaxPending = 2
    MaxStored = 3
    MaxItems = 2
    MaxTokens = 3
    MaxHistory = 3
    MaxCommits = 2
    MaxApprovals = 2
    MergeInputs = 2
    MaxSnapshots = 2
    SnapshotInputs = 2

SPECIFICATION MCSpec
PROPERTY IncreaseNeedsContract
CHECK_DEADLOCK FALSE
