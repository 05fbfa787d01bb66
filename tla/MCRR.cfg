SPECIFICATION MCSpec
CONSTANTS
    NPROC = 3
    NCPU = 1
    Chans = {10}
    MaxPid = 3
PROPERTIES
    NoStarvation
    BoundedBypass
CHECK_DEADLOCK FALSE
