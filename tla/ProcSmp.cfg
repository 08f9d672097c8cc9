SPECIFICATION Spec
CONSTANTS
    NPROC = 3
    NCONT = 1
    CPUs = {k1, k2}
    Free = Free
    Served = {0}
    MaxPid = 4
    KillPids = {2}
    KallocFails = TRUE
    UvmcopyFails = TRUE
    NameiFails = TRUE
    BeginOpSleeps = TRUE
    InitExits = TRUE
SYMMETRY Symmetry
INVARIANTS OneCPU LockOrder NoLostExit NoOrphan
PROPERTY OnlyParentReaps
