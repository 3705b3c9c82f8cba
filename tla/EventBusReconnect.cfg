SPECIFICATION Spec
CONSTANTS
    web = web
    g1 = g1
    p = p
    None = None
    Gateways = {g1}
    Publishers = {p}
    ChannelOf <- OnWeb
    ChannelsOf <- AllChannels
    Anonymous = FALSE
    QueueSize = 3
    Workers = 2
    MaxStreams = 2
    MaxEvents = 3
INVARIANTS
    SubscriberListens
CHECK_DEADLOCK FALSE
