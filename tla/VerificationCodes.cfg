\* Four requests on three kinds of codes, two of them overlapping, a lagging
\* replica, codes that expire, one failure.
SPECIFICATION Spec
CONSTANTS
    Request = {r1, r2, r3, r4}
    None = None
    Wrong = Wrong
    Kind <- MCKind
    MaxAttempts = 1
    OtpTTL = 1
    LinkTTL = 1
    HasReplica = TRUE
    MaxInFlight = 2
    MaxFaults = 1
    MaxTime = 1
SYMMETRY Symmetry
INVARIANTS CodeInv SingleUse AttemptBudget RightCodeWorks
CHECK_DEADLOCK FALSE
