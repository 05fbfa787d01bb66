SPECIFICATION Spec
CONSTANTS
    Procs = {p1, p2}
    InitProc = p1
    NPAGES = 15
    PGSIZE = 2
    NPTENTRIES = 2
    KERNBASE = 8
    Modulus = 16
    Budgets = {1, 4, 18}
    ExecCalls <- MCExecCalls
    MAXARG = 1
    Increments <- MCIncrements
    HeaderSize = 8
    MinUnits = 4
    MaxBreak = 13
    Requests = {1, 9, 25}
    Gaps = {1}
    Pids = {j1, j2, j3}
    NoPid = nopid
    MaxTop = 5
    NOFILE = 14
    Lines <- MCLines
    MaxFailures = 1
    MaxLines = 2
    NSHPROC = 7
    MAXARGS = 3
    NDESC = 5
    ShSessions <- MCShSessions
    MaxShFails = 1
    Files <- MCFiles
    Kind <- MCKind
    LinkSize = 1
    HeapJunk <- MCHeapJunk
    Contents <- MCContents
    NoFile = nofile
    GetCalls <- MCGetCalls
    CHUNK = 2
    MaxGets = 2
    MaxClients = 2
SYMMETRY Alike
INVARIANTS
    MemoryRight
    JobsExact
    DescriptorsRight
    LinesRun
    Delivered
    NeverBothWait
CHECK_DEADLOCK FALSE
