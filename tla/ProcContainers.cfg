SPECIFICATION Spec
CONSTANTS
    NPROC = 3
    NCONT = 2
    CPUs = {k1, k2}
    Free = Free
    Served = {0, 1}
    MaxPid = 2
    KillPids = {}
    KallocFails = FALSE
    UvmcopyFails = TRUE
    NameiFails = TRUE
    BeginOpSleeps = TRUE
    InitExits = FALSE
SYMMETRY Symmetry
INVARIANTS SlotInv  ContainersAgree
