\* The tick job, four drivers, a night with a repeated minute.
SPECIFICATION FairSpec
CONSTANTS
    tick = tick  i1 = i1  i2 = i2
    Job = {tick}
    Expression <- MCExpression
    Horizon = 3
    Wall <- MCWall
    MaxRuns = 2
    Instance = {i1}
    Drivers = {"memory", "redis", "rabbitmq", "kafka"}
    Local = {i1}
    MaxFaults = 1
    MaxStarts = 2
INVARIANTS DeliveryInv ConfirmedIsKept
PROPERTIES RunsExactlyWhenDue OncePerMinute Shutdown
CHECK_DEADLOCK FALSE
