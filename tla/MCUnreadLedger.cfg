CONSTANTS
    ApprovalIds = {a1}
    Digests = {d1}
    Authorities = {c1}
    Deadlines = {1}
    Never = 2
    ReadsFail = TRUE
    MaxLedger = 2

SPECIFICATION Spec
INVARIANT PauseIsKept
