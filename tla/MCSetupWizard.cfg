SPECIFICATION Spec
CONSTANTS
    c1 = c1
    c2 = c2
    c3 = c3
    g1 = g1
    g2 = g2
    p1 = p1
    p2 = p2
    Names = {s}
    Starter = s
    Models = {m1, m2}
    Flagship = m1
    Tokens = {good, bad}
    Accepted = {good}
    Guilds = {g1, g2}
    Channels = {c1, c2, c3}
    GuildOf <- HomeOf
    Perms = {p1, p2}
    Overwrites <- OverwritesOf
    Urls = {url}
    Local = Local
    PollTimeout = 3
    PollInterval = 2
    RetryAfters = {1, 4}
    RequestTimes = {0, 1}
    None = None
    MaxRuns = 2
CHECK_DEADLOCK FALSE
INVARIANTS
    TypeOK
    EnterKeepsBinding
    BoundWhereItMayPost
PROPERTIES
    WaitsEnd
