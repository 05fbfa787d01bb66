SPECIFICATION StorageSpec
CONSTANTS
    Procs = {p1, p2}
    Blocks = {1, 2, 3}
    Vals = {0, 1}
    LOGSIZE = 4
    Size = 4
    MAXOPBLOCKS = 2
    OpBlocks = 1
    Writers = {w1, w2}
    Root = root
    Inodes = {f1}
    NBlocks = 5
    ImageBlocks = 3
    BSIZE = 2
    NDIRECT = 1
    MaxWrite = 2
    Words = {1}
    ImageWord = 9
    Offsets = {1}
    Lengths = {1, 3}
    MaxCalls = 3
    NoOne = noone
INVARIANTS
    DurableAfterEnd
    NoPanic
    BlocksOwned
    ReadsBack
PROPERTIES
    CrashAtomic
    SleepersWake
CHECK_DEADLOCK FALSE
