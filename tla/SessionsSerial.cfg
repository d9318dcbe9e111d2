\* One user whose requests do not overlap; no token expires in the run.
SPECIFICATION Spec
CONSTANTS
    Request = {r1, r2, r3, r4, r5}
    User = {u1}
    None = None
    All = All
    MaxSessions = 2
    AccessTTL = 1
    RefreshTTL = 2
    Leeway = 0
    HasReplica = FALSE
    MaxInFlight = 1
    MaxFaults = 1
    MaxTime = 1
SYMMETRY Symmetry
INVARIANTS SessionCap PasswordChangeSignsOut ReuseRevokesFamily
CHECK_DEADLOCK FALSE
