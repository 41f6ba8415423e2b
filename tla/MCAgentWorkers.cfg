SPECIFICATION Spec
CONSTANTS
    Terminals = {c1, c2}
    Stems = {a, s}
    Seed = s
    Updates <- UpdatesOf
    MenuFields = {"prompt", "tools"}
    Broken = Broken
    NoFile = NoFile
    MaxCommands = 2
    Slots = {a}
    MaxCrashes = 1
CHECK_DEADLOCK FALSE
INVARIANTS
    TypeOK
    CrashIsSeen
PROPERTIES
    UpdateTouchesOwnField
    AgentSurvives
    WantedServes
CONSTRAINT OneBesideWorkers
