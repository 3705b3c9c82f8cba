SPECIFICATION Spec
CONSTANTS
    ann = ann
    bob = bob
    a1 = a1
    a2 = a2
    a3 = a3
    b1 = b1
    k1 = k1
    NoKey = NoKey
    NoTask = NoTask
    Free = Free
    Users = {ann, bob}
    Tasks = {a1, a3, b1}
    Keys = {k1}
    UserOf <- MCUserOf
    KeyOf <- MCKeyOf
    BatchSize = 2
    UserQueueSize = 1
    Flaky = {a1}
    MaxProgress <- OneIfFlaky
    MaxFaults = 2
INVARIANTS
    SlotsAccounted
    CapacityRespected
    EnqueuedOnce
    EventsWellFormed
    VerdictIsLastEvent
CHECK_DEADLOCK FALSE
