SPECIFICATION Spec
CONSTANTS
    s1 = s1
    s2 = s2
    a1 = a1
    a2 = a2
    p1 = p1
    p2 = p2
    p3 = p3
    NoKey = NoKey
    NoProfile = NoProfile
    Tasks = {1, 2}
    Keys <- KeysOfSessions
    Sessions = {s1, s2}
    Submissions <- OneOrTwo
    MaxNamed = 1
    Earlier <- Others
    Agents = {a1, a2}
    Default = a1
    NoAgent = NoAgent
    MaxInstances = 1
    MaxWorkers = 2
    Parts <- TurnSizes
    Window = 2
    CommitLimit = 3
    Backend = "server"
    FileFallback = FALSE
    MaxFaults = 1
    Profiles = {p1, p2, p3}
    Main = p3
    Lists <- ModelLists
    ClientTimeout = 1
    RequestTimeout = 1
INVARIANTS
    TypeOK
    CacheBounded
    AckMeansStored
    TurnsWhole
    DefaultServes
PROPERTIES
    RetryAfterTimeoutIsLost
    SeesLastTurn
    DefaultIsKept
CHECK_DEADLOCK FALSE
