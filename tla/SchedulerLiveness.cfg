SPECIFICATION FairSpec
CONSTANTS
    ann = ann
    bob = bob
    a1 = a1
    a2 = a2
    a3 = a3
    b1 = b1
    k1 = k1
    NoKey = NoKey
    NoTask = NoTask
    Free = Free
    Users = {ann, bob}
    Tasks = {a1, a2, b1}
    Keys = {k1}
    UserOf <- MCUserOf
    KeyOf <- MCKeyOf
    BatchSize = 2
    UserQueueSize = 1
    Flaky = {}
    MaxProgress <- NoProgress
    MaxFaults = 1
PROPERTIES
    EverySubmitReturns
    AnsweredTaskEnds
CHECK_DEADLOCK FALSE
