SPECIFICATION Spec
CONSTANTS
    Companies = {c1}
    Zones = {z1, z2}
    Students = {1, 2}
    Batches = {1, 2}
    Doses = {1, 2}
    MaxSlots = 2
    MaxTries = 2
    MaxMade = 2
    Acoustic = {v1, v2}
    Electric = {}
    Either = {g1}
    Singers = {s1, s2}
    NumAcoustic = 1
    NumElectric = 1
    CordCount = 1
    NoName = noname
    N = 5
    Values = {1, 2, 3}
    Cutoff = 3
    MaxLevel = 0
INVARIANTS
    OneJab
    NoIdleStage
    SingersReal
    SortedAtEnd
PROPERTIES
    RegisteredServed
    AllGoHome
CHECK_DEADLOCK FALSE
