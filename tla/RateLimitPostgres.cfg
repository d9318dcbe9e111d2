\* The Postgres driver by itself: two handlers that count the same client.
SPECIFICATION Spec
CONSTANTS
    c1 = c1  c2 = c2
    Client = {c1, c2}
    Drivers = {"postgres"}
    MaxRequests = 2
    Window = 2
    ChallengeTTL = 1
    MaxTime = 4
    MaxAttempts = 5
    MaxFaults = 0
SYMMETRY Symmetry
INVARIANT AtMostMaxPerWindow
CHECK_DEADLOCK FALSE
