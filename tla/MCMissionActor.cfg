CONSTANTS
    ApprovalIds = {a1, a2}
    Digests = {d1}
    Authorities = {c1}
    Deadlines = {1}
    Never = 2
    ReadsFail = FALSE
    MaxLedger = 4

SPECIFICATION Spec
SYMMETRY Symmetry
INVARIANTS
    TypeOK
    MemoryMatchesLedger
    PauseIsKept
