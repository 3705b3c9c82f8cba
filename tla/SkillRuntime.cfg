SPECIFICATION SkillSpec
CONSTANTS
    w1 = w1
    w2 = w2
    Workers = {w1, w2}
    NoWorker = NoWorker
    Scripted = {1}
    MaxVersion = 2
    MaxCalls = 4
    MaxFaults = 2
INVARIANTS
    SkillTypeOK
    IndexedMeansInstalled
PROPERTIES
    HonestAnswers
SYMMETRY Symmetry
CHECK_DEADLOCK FALSE
