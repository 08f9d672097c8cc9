CONSTANTS
    p1 = p1
    p2 = p2
    p3 = p3
    P = {p1, p2, p3}
    File <- MCFile
    Inodes = {1, 2}
    NDIRECT = 2
    NINDIRECT = 2
    BSIZE = 2
    NBLOCKS = 5
    MAXOPBLOCKS = 6
    Lens <- MCLens
    Uses <- MCUses
    Nobody = Nobody
SPECIFICATION Spec
INVARIANTS DiskAgrees FilesKept FitsLog
CHECK_DEADLOCK FALSE
