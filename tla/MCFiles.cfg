SPECIFICATION Spec
CONSTANTS
    Procs = {p1, p2}
    Inums = {1, 2, 3}
    Names = {"a", "b"}
    Paths <- PathSet
    LinkPaths <- LinkSet
    NFILE = 1
    NOFILE = 1
    MaxLinks = 2
    Nobody = nobody
SYMMETRY MCSymmetry
INVARIANTS
    CountsRight
    FreesUnused
    Coherent
    NoPanic
CHECK_DEADLOCK FALSE
