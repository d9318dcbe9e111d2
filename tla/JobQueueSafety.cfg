\* Two processes, one job, two faults: claims that race across the lease, holds that
\* outlive it, and what they leave behind.
SPECIFICATION Spec
CONSTANTS
    s1 = s1  s2 = s2  j1 = j1  j2 = j2
    None = None
    Job = {j1}
    Server = {s1, s2}
    Slot = {1}
    Unhandled = {}
    MaxRetry = 1
    RetryDelay <- MCRetryDelay
    Skew <- MCSkew
    Lease = 4
    JobTimeout = 1
    FinalizeTimeout = 1
    PollInterval = 1
    ClaimDelay = 1
    SchedSlack = 0
    MaxSkew = 1
    TicksPerSecond = 2
    MaxFaults = 2
    MaxStops = 0
    MaxTime = 0
INVARIANTS IInv ExclusiveExecution RetryBudget OneSuccess
PROPERTY KeepsContract
CHECK_DEADLOCK FALSE
