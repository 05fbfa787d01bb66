SPECIFICATION FCFSSpec
CONSTANTS
    NPROC = 3
    NCPU = 1
    Chans = {10, 11}
    TicksChan = 10
    MaxPid = 4
    MaxTicks = 1
INVARIANT
    WaitTimeSane
PROPERTY
    FirstCome
CHECK_DEADLOCK FALSE
