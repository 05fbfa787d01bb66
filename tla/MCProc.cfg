SPECIFICATION Spec
CONSTANTS
    NPROC = 3
    NCPU = 2
    Chans = {10}
    MaxPid = 4
INVARIANTS
    SwitchSafe
    StackSafe
    NoMissedExit
    ParentAlive
