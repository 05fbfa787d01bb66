SPECIFICATION Spec
CONSTANTS
    Writers = {w1, w2}
    Readers = {r1}
    PIPESIZE = 2
    Modulus = 4
    Bytes = {0, 1}
    MaxN = 3
SYMMETRY Symmetry
INVARIANTS
    NoLostWakeup
    NoUseAfterFree
PROPERTY
    ImplementsQueue
