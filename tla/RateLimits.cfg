\* Two handlers on each of the drivers.
SPECIFICATION Spec
CONSTANTS
    c1 = c1  c2 = c2
    Client = {c1, c2}
    Drivers <- AllDrivers
    MaxRequests = 2
    Window = 2
    ChallengeTTL = 1
    MaxTime = 4
    MaxAttempts = 5
    MaxFaults = 1
SYMMETRY Symmetry
INVARIANTS LimiterInv LimitHolds
PROPERTIES KeepsCache
CHECK_DEADLOCK FALSE
