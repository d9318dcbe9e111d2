\* Two senders that share a pool of one connection.
SPECIFICATION PoolFairSpec
CONSTANTS
    s1 = s1  s2 = s2  k1 = k1  k2 = k2
    Sender = {s1, s2}
    Conn = {k1, k2}
    MaxConns = 1
    MaxRetries = 2
    None = None
    MaxPoolFaults = 3
INVARIANTS PoolInv LeftoversAreLate
PROPERTIES GoroutinesEnd
CHECK_DEADLOCK FALSE
