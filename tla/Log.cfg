SPECIFICATION Spec
CONSTANTS
    Data = {d1, d2}
    Vals = {v1, v2}
    LOGSIZE = 4
    SIZE = 5
    MAXOPBLOCKS = 2
    NBUF = 3
    T = {p1, p2}
    Nobody = Nobody
    NoBlock = NoBlock
    MaxCrashes = 1
SYMMETRY Symmetry
INVARIANTS SleeperHasWaker  Reserved
PROPERTY Atomic
