CONSTANTS
    P = {p1, p2}
    NFILE = 2
    NOFILE = 2
    Pages = {g}
    PIPESIZE = 2
    W = 4
    Byte = {a, b}
    Junk = Junk
    ReadLens = {1}
    WriteLens = {2}
    NoFile = NoFile
    NoPage = NoPage
    Nobody = Nobody
SPECIFICATION Spec
SYMMETRY Symmetry
INVARIANTS EndsCounted NoLostWakeup
PROPERTY IsFifo
CHECK_DEADLOCK FALSE
