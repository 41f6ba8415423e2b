SPECIFICATION Spec
CONSTANTS
    Agents = {a, b}
    McpSlots = {m}
    Tools = tools
INVARIANT SweepStaysInRoster
