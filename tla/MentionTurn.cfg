SPECIFICATION Spec
CONSTANTS
    MaxSteps = 4
    MaxRetry = 2
    MaxChunks = 2
INVARIANTS
    TypeOK
    NoEditRacesDelete
    ProgressRetired
    WholeReplyIsFinal
    DeltaMatchesRun
PROPERTY KeepsPromise
\* A turn ends, and the handler task with it.
CHECK_DEADLOCK FALSE
