CONSTANTS
    ApprovalIds = {a1, a2}
    Digests = {d1, d2}
    Authorities = {c1, c2}
    Deadlines = {1}
    Never = 2
    ReadsFail = FALSE
    MaxLedger = 6

SPECIFICATION ApprovalsSpec
SYMMETRY Symmetry
INVARIANTS
    DispatchIsCovered
    ConsumedOncePerApproval
    RevisionsChain
    LoadoutChangeLeavesNoGrant
