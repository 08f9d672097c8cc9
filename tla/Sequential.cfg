CONSTANTS
    Pool = {8, 10, 12, 13, 14, 15, 16, 18, 20}
    PGSIZE = 2
    FAN = 3
    P = {p1, p2}
    Programs <- MCPrograms
    Grows <- MCGrows
    Copies <- MCCopies
    MaxCalls = 4
    MinCore = 4
    MaxBrk = 15
    Sizes = {2, 3, 5}
    e1 = e1
    e2 = e2
    e3 = e3
    e4 = e4
    e5 = e5
    Elem <- MCElem
    Key <- MCKey
    Lists = {l1, l2}
    NULL = NULL
    Mem = 5
    Byte = {0, 1, 2}
    MaxN = 3
    INTBITS = 8
    DIRSIZ = 2
    Patterns <- MCPatterns
    Texts <- MCTexts
    Paths <- MCPaths
    Formats <- MCFormats
    BUFSIZ = 4
    Inputs <- MCInputs
    MAXARGS = 3
    MaxLen = 5
SPECIFICATION MCSpec
INVARIANTS PagesKept MemorySeen HeapTiled ListsAreSequences 
CHECK_DEADLOCK FALSE
SYMMETRY Symmetry
