SPECIFICATION GatewaySpec
CONSTANTS
    web = web
    g = g
    b = b
    p = p
    None = None
    NoEvent = NoEvent
    Gateways = {g}
    Gateway = g
    Publishers = {p}
    ChannelOf <- OnWeb
    ChannelsOf <- OnlyWeb
    Anonymous = FALSE
    QueueSize = 1
    Workers = 2
    MaxStreams = 3
    MaxEvents = 3
    Pages = {b}
    Viewed <- OfTheUser
    HubSize = 1
    MaxPages = 1
INVARIANTS
    GatewayTypeOK
    HeardWithoutGap
    HeardOnce
    NewestKept
PROPERTIES
    WorkerReturns
    BacklogIsHeard
CHECK_DEADLOCK FALSE
