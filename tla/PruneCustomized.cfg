SPECIFICATION Spec
CONSTANTS
    Terminals = {c1}
    Stems = {a, s}
    Seed = s
    Updates <- UpdatesOf
    MenuFields = {"prompt"}
    Broken = Broken
    NoFile = NoFile
    MaxCommands = 2
    Slots = {}
    MaxCrashes = 0
CHECK_DEADLOCK FALSE
PROPERTY CustomizedSeedKept
