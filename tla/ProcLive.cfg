SPECIFICATION FairSpec
CONSTANTS
    NPROC = 3
    NCONT = 2
    CPUs = {k1}
    Free = Free
    Served = {0}
    MaxPid = 3
    KillPids = {}
    KallocFails = FALSE
    UvmcopyFails = FALSE
    NameiFails = FALSE
    BeginOpSleeps = FALSE
    InitExits = FALSE
PROPERTIES
    RootRuns
    WaitReturns
