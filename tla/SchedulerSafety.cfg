SPECIFICATION Spec
CONSTANTS
    ann = ann
    bob = bob
    a1 = a1
    a2 = a2
    a3 = a3
    b1 = b1
    k1 = k1
    NoKey = NoKey
    NoTask = NoTask
    Free = Free
    Users = {ann, bob}
    Tasks = {a1, a2, a3, b1}
    Keys = {k1}
    UserOf <- MCUserOf
    KeyOf <- MCKeyOf
    BatchSize = 2
    UserQueueSize = 3
    Flaky = {}
    MaxProgress <- NoProgress
    MaxFaults = 0
INVARIANTS
    TypeOK
    OneTaskPerUser
    ClaimSucceeds
    KeyAcceptedOnce
PROPERTIES
    ImplementsTaskService
SYMMETRY SameMessage
