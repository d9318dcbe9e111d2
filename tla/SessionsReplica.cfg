\* Two users, requests that overlap, tokens that expire, one failure, and queries
\* answered by a replica that may lag by any amount.
SPECIFICATION Spec
CONSTANTS
    Request = {r1, r2, r3}
    User = {u1, u2}
    None = None
    All = All
    MaxSessions = 1
    AccessTTL = 1
    RefreshTTL = 2
    Leeway = 1
    HasReplica = TRUE
    MaxInFlight = 3
    MaxFaults = 1
    MaxTime = 3
SYMMETRY Symmetry
INVARIANTS SessionInv RotatedOnce SignedOutTokensRejected
PROPERTY EndedStaysEnded
CHECK_DEADLOCK FALSE
