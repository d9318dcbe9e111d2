\* One goroutine, a job with and one without a registered handler, one fault, one
\* shutdown: every behaviour of the model runs to its end, or to an overrun
\* that lasts for ever.
SPECIFICATION FairSpec
CONSTANTS
    s1 = s1  s2 = s2  j1 = j1  j2 = j2
    None = None
    Job = {j1, j2}
    Server = {s1}
    Slot = {1}
    Unhandled = {j2}
    MaxRetry = 1
    RetryDelay <- MCRetryDelay
    Skew <- MCSkew
    Lease = 1
    JobTimeout = 0
    FinalizeTimeout = 0
    PollInterval = 1
    ClaimDelay = 0
    SchedSlack = 0
    MaxSkew = 0
    TicksPerSecond = 1
    MaxFaults = 1
    MaxStops = 1
    MaxTime = 0
PROPERTIES EveryJobResolved StopEndsRun
CHECK_DEADLOCK FALSE
