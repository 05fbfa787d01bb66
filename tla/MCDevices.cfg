SPECIFICATION Spec
CONSTANTS
    BufProcs = {p1, p2}
    Blocks = {k1, k2, k3, k4}
    NBUF = 3
    Stored = {k1, k2}
    MaxStores = 2
    MaxPinned = 1
    Nobody = nobody
    NoBlock = noblock
    Readers = {r1, r2}
    INPUT_BUF = 3
    Modulus32 = 6
    Letters = {x}
    Newline = nl
    Return = cr
    Eof = eof
    KillLine = kill
    Backspace = bs
    NoChar = nochar
    ReadSizes = {1, 3}
    NoReader = noreader
INVARIANTS
    CacheCoherent
    ReadersServed
PROPERTIES
    SleepersWoken
    ImplementsEditor
CHECK_DEADLOCK FALSE
