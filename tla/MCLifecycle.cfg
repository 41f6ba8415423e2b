SPECIFICATION Spec
CONSTANTS
    h1 = h1
    h2 = h2
    p1 = p1
    p2 = p2
    Homes = {h1, h2}
    Ports = {p1, p2}
    PortMaps <- PortMapsOf
    Commands = {c1, c2}
    None = None
    MaxBoot = 2
INVARIANTS
    TypeOK
    OneSupervisor
PROPERTIES
    FailedStartTornDown
    CommandsEnd
