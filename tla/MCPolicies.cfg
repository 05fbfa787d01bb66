SPECIFICATION PolicySpec
CONSTANTS
    NPROC = 2
    NCPU = 1
    Chans = {10, 11}
    TicksChan = 10
    MaxPid = 3
    LastQ = 1
    AgeShift = 0
    MaxTicks = 6
    Prios = {0, 1}
    DefaultPrio = 0
    MinPrioStart = 1
    LkCPUs = {c0, c1}
    Threads = {t1, t2}
    PtableLock = ptlock
    DeviceLocks = {devlock}
    NoLkCPU = nocpu
SYMMETRY Symmetry
INVARIANTS
    PolicySound
    InterruptsRight
PROPERTY
    PicksLeast
CHECK_DEADLOCK FALSE
