SPECIFICATION Spec
CONSTANTS
    k1 = k1
    k2 = k2
    NoTimer = NoTimer
    Timers = {k1, k2}
    Triggers = {4}
    Fast = 1
    Slow = 2
    Recent = 1
    Near = 3
    MaxTime = 7
    MaxFaults = 1
SYMMETRY Symmetry
INVARIANTS
    TypeOK
    FiresOnce
    NoneForgotten
    Prompt
PROPERTIES
    DeletedStaysQuiet
CHECK_DEADLOCK FALSE
