SPECIFICATION MCSpec
CONSTANTS
    Tasks = {t1, t2, t3}
    Tiers = {low}
    NoTier = NoTier
    NoTask = NoTask
    Limit = 2
    MaxOld = 3
    MaxPosts = 2
    MaxShort = 1
    MaxRestarts = 1
CHECK_DEADLOCK FALSE
INVARIANTS
    TypeOK
    ClearBoundsHistory
    ReplayFits
    MapMatchesTable
PROPERTY FollowersAreServed
SYMMETRY Symmetry
CONSTRAINTS
    ThreeOnlyMention
    LongIsForOne
