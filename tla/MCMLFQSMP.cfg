SPECIFICATION SMPSpec
CONSTANTS
    NPROC = 2
    NCPU = 2
    Chans = {10, 11}
    TicksChan = 10
    MaxPid = 3
    LastQ = 1
    AgeShift = 0
    MaxTicks = 6
INVARIANTS
    YieldsOwn
CHECK_DEADLOCK FALSE
