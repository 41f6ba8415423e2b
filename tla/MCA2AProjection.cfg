SPECIFICATION Spec
CONSTANTS
    t1 = t1
    t2 = t2
    Turns <- MCTurns
    MaxIds = 2
    None = None
    MaxEvents = 2
    WithCategory = TRUE
SYMMETRY MCSymmetry
INVARIANTS
    TypeOK
    OneTrail
    ClosedOnce
\* Every turn ends.
CHECK_DEADLOCK FALSE
