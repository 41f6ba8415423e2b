SPECIFICATION GatewaySpec
CONSTANTS
    Messages = {m1, m2, m3}
    Mentions = {m1, m2}
    Capacity = 2
    MaxRuns = 2
INVARIANTS
    GatewayTypeOK
    ResourcesOutliveTasks
PROPERTIES
    HandledOnceWhileRemembered
    ShutdownEnds
\* The process exits.
CHECK_DEADLOCK FALSE
