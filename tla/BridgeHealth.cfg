SPECIFICATION HealthSpec
CONSTANTS
    TTL = 10
    Interval = 2
    MaxLate = 3
    MaxMissed = 1
INVARIANTS
    HealthTypeOK
    VerdictIsRight
PROPERTY ConnectedGetsHealthy
