CONSTANTS
    P = {p1, p2}
    NINODES = 3
    NINODE = 3
    DPB = 2
    Calls <- MCCalls
    None = None
SPECIFICATION Spec
SYMMETRY Symmetry
INVARIANT NoLeak
