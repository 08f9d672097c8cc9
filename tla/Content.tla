------------------------------ MODULE Content ------------------------------
(***************************************************************************)
(* The contents of files: block allocation, the block addresses of an      *)
(* inode, readi(), writei() and itrunc() of kernel/fs.c, and the loops of  *)
(* fileread() and filewrite() in kernel/file.c above them.                 *)
(*                                                                         *)
(* Every process uses one open file; several may use the same.  The lock   *)
(* of an inode is held from the first to the last step of a writei() or    *)
(* itrunc(), and one step handles one block, because files share the free  *)
(* blocks.  blk and bitmap are the disk as the buffer cache has it; dinode *)
(* is the copy of the inodes there.                                        *)
(***************************************************************************)
EXTENDS Integers, Sequences, FiniteSets

CONSTANTS
    P,                  \* processes
    File,               \* process -> the open file, an inode with an offset
    Inodes,
    NDIRECT, NINDIRECT, BSIZE,
    NBLOCKS,            \* data blocks on disk, numbered from 1
    MAXOPBLOCKS,
    Lens,               \* process -> lengths of its reads and writes
    Uses,               \* process -> its calls; "fault": copyin() may fail
    Nobody

ASSUME ContentAssumption ==
    /\ {NDIRECT, NINDIRECT, BSIZE, MAXOPBLOCKS} \subseteq Nat \ {0} /\ NBLOCKS \in Nat
    /\ NINDIRECT <= BSIZE /\ MAXOPBLOCKS >= 6
    /\ File \in [P -> Inodes] /\ Nobody \notin P
    /\ Lens \in [P -> SUBSET (Nat \ {0})]
    /\ Uses \in [P -> SUBSET {"read", "write", "fault", "open", "trunc"}]
    /\ Inodes \subseteq Nat \ {0}

MAXFILE == NDIRECT + NINDIRECT
Blocks == 1..NBLOCKS

\* The bitmap block, and the block with the inodes.
BBLOCK == 0
IBLOCK == NBLOCKS + 1

VARIABLES
    bitmap,             \* the blocks in use
    blk,                \* block -> BSIZE bytes, or block numbers
    inode,              \* size, addrs, lock
    dinode,             \* size, addrs
    off,                \* inode -> f->off of the file open on it
    proc                \* position, call and locals

vars == <<bitmap, blk, inode, dinode, off, proc>>

\* The byte every program writes at offset o of file f: it tells the places apart.
Data(f, o) == f * MAXFILE * BSIZE + o

Zero == [k \in 0..(BSIZE - 1) |-> 0]
Empty == [size |-> 0, addrs |-> [k \in 0..NDIRECT |-> 0]]
User == [pc |-> "user", n |-> 0, i |-> 0, n1 |-> 0, tot |-> 0, logged |-> {}]

Init ==
    /\ bitmap = {}
    /\ blk = [b \in Blocks |-> Zero]
    /\ inode = [f \in Inodes |-> [size |-> 0, addrs |-> Empty.addrs, lock |-> Nobody]]
    /\ dinode = [f \in Inodes |-> Empty]
    /\ off = [f \in Inodes |-> 0]
    /\ proc = [p \in P |-> User]

-----------------------------------------------------------------------------
(* Blocks.                                                                 *)

\* balloc(): the first free block, zeroed; 0 when there is none.
balloc(used) == IF used = Blocks THEN 0
                ELSE CHOOSE b \in Blocks \ used : \A c \in Blocks \ used : b <= c

\* The bytes of a free block are forgotten: nobody reads them before balloc() zeroes
\* them.
bfree(b) == [c \in Blocks |-> IF c = b THEN Zero ELSE blk[c]]

\* bmap(ip, bn) allocates what is missing.  The result has the address, 0 if there is
\* no space, the inode's addresses, the disk, and the blocks passed to log_write().
bmap(addrs, bn) ==
    LET b1 == balloc(bitmap)
        none == [addr |-> 0, addrs |-> addrs, used |-> bitmap, blk |-> blk, logged |-> {}]
        k == IF bn < NDIRECT THEN bn ELSE NDIRECT
        top == IF addrs[k] # 0 THEN [none EXCEPT !.addr = addrs[k]]
               ELSE IF b1 = 0 THEN none
               ELSE [addr |-> b1, addrs |-> [addrs EXCEPT ![k] = b1], used |-> bitmap \cup {b1},
                     blk |-> [blk EXCEPT ![b1] = Zero], logged |-> {BBLOCK, b1}]
        ind == top.addr
        bi == bn - NDIRECT
        b2 == balloc(top.used) IN
    IF bn < NDIRECT \/ ind = 0 THEN top
    ELSE IF top.blk[ind][bi] # 0 THEN [top EXCEPT !.addr = top.blk[ind][bi]]
    ELSE IF b2 = 0 THEN [top EXCEPT !.addr = 0]
    ELSE [top EXCEPT !.addr = b2, !.used = @ \cup {b2},
                     !.blk = [@ EXCEPT ![b2] = Zero, ![ind][bi] = b2],
                     !.logged = @ \cup {BBLOCK, b2, ind}]

Smaller(a, b) == IF a < b THEN a ELSE b

\* The bytes of one turn of the loops of readi() and writei().
Chunk(o, left) == Smaller(left, BSIZE - (o % BSIZE))

-----------------------------------------------------------------------------
(* filewrite() and writei().                                               *)

\* Mutant: the data blocks are taken for the only ones.
MutMaxDataOnly == (MAXOPBLOCKS - 1 - 1) * BSIZE

\* Blocks of data in a transaction, so that it fits the log.
max == ((MAXOPBLOCKS - 1 - 1 - 2) \div 2) * BSIZE

Write(p) ==
    /\ "write" \in Uses[p]
    /\ proc[p].pc = "user"
    /\ \E n \in Lens[p] :
        proc' = [proc EXCEPT ![p] = [User EXCEPT !.pc = "write", !.n = n]]
    /\ UNCHANGED <<bitmap, blk, inode, dinode, off>>

\* begin_op(), ilock() and the checks at the start of writei().
WriteBegin(p) ==
    LET f == File[p]
        n1 == Smaller(proc[p].n - proc[p].i, max) IN
    /\ proc[p].pc = "write"
    /\ inode[f].lock = Nobody
    /\ IF off[f] > inode[f].size \/ off[f] + n1 > MAXFILE * BSIZE
       THEN proc' = [proc EXCEPT ![p] = User] /\ UNCHANGED inode
       ELSE /\ inode' = [inode EXCEPT ![f].lock = p]
            /\ proc' = [proc EXCEPT ![p].pc = "writei", ![p].n1 = n1, ![p].tot = 0,
                                    ![p].logged = {}]
    /\ UNCHANGED <<bitmap, blk, dinode, off>>

\* Mutant: copies to bp->data without the offset in the block.
MutWriteBlockStart(p) ==
    LET f == File[p]
        o == off[f] + proc[p].tot
        m == Chunk(o, proc[p].n1 - proc[p].tot)
        r == bmap(inode[f].addrs, o \div BSIZE)
        new == [k \in 0..(BSIZE - 1) |-> IF k < m THEN Data(f, o + k) ELSE r.blk[r.addr][k]] IN
    /\ proc[p].pc = "writei"
    /\ proc[p].tot < proc[p].n1
    /\ bitmap' = r.used
    /\ inode' = [inode EXCEPT ![f].addrs = r.addrs]
    /\ IF r.addr = 0
       THEN /\ blk' = r.blk
            /\ proc' = [proc EXCEPT ![p].pc = "writei_end", ![p].logged = @ \cup r.logged]
       ELSE /\ blk' = [r.blk EXCEPT ![r.addr] = new]
            /\ proc' = [proc EXCEPT ![p].tot = @ + m,
                                    ![p].logged = @ \cup r.logged \cup {r.addr}]
    /\ UNCHANGED <<dinode, off>>

\* One turn: a block is found or made, and its bytes copied.
WriteBlock(p) ==
    LET f == File[p]
        o == off[f] + proc[p].tot
        m == Chunk(o, proc[p].n1 - proc[p].tot)
        r == bmap(inode[f].addrs, o \div BSIZE)
        new == [k \in 0..(BSIZE - 1) |->
                  IF k \in (o % BSIZE)..((o % BSIZE) + m - 1) THEN Data(f, o - (o % BSIZE) + k)
                  ELSE r.blk[r.addr][k]] IN
    /\ proc[p].pc = "writei"
    /\ proc[p].tot < proc[p].n1
    /\ bitmap' = r.used
    /\ inode' = [inode EXCEPT ![f].addrs = r.addrs]
    /\ IF r.addr = 0
       THEN /\ blk' = r.blk
            /\ proc' = [proc EXCEPT ![p].pc = "writei_end", ![p].logged = @ \cup r.logged]
       ELSE /\ blk' = [r.blk EXCEPT ![r.addr] = new]
            /\ proc' = [proc EXCEPT ![p].tot = @ + m,
                                    ![p].logged = @ \cup r.logged \cup {r.addr}]
    /\ UNCHANGED <<dinode, off>>

\* copyin() fails: the loop ends after bmap().
WriteFault(p) ==
    LET f == File[p]
        r == bmap(inode[f].addrs, (off[f] + proc[p].tot) \div BSIZE) IN
    /\ "fault" \in Uses[p]
    /\ proc[p].pc = "writei"
    /\ proc[p].tot < proc[p].n1
    /\ r.addr # 0
    /\ bitmap' = r.used
    /\ inode' = [inode EXCEPT ![f].addrs = r.addrs]
    /\ blk' = r.blk
    /\ proc' = [proc EXCEPT ![p].pc = "writei_end", ![p].logged = @ \cup r.logged]
    /\ UNCHANGED <<dinode, off>>

\* Mutant: iupdate() only when the size changed.
MutWriteEndNoUpdate(p) ==
    LET f == File[p]
        u == proc[p]
        o == off[f] + u.tot IN
    /\ u.pc = "writei_end" \/ (u.pc = "writei" /\ u.tot = u.n1)
    /\ IF o > inode[f].size
       THEN /\ inode' = [inode EXCEPT ![f].size = o, ![f].lock = Nobody]
            /\ dinode' = [dinode EXCEPT ![f] = [size |-> o, addrs |-> inode[f].addrs]]
       ELSE inode' = [inode EXCEPT ![f].lock = Nobody] /\ UNCHANGED dinode
    /\ off' = [off EXCEPT ![f] = o]
    /\ proc' = [proc EXCEPT ![p] =
          IF u.tot # u.n1 \/ u.i + u.tot = u.n THEN User
          ELSE [@ EXCEPT !.pc = "write", !.i = @ + u.tot, !.n1 = 0, !.tot = 0, !.logged = {}]]
    /\ UNCHANGED <<bitmap, blk>>

\* The size, iupdate(), f->off, iunlock(), end_op(); the next transaction follows
\* unless this one fell short.
WriteEnd(p) ==
    LET f == File[p]
        u == proc[p]
        o == off[f] + u.tot
        size == IF o > inode[f].size THEN o ELSE inode[f].size IN
    /\ u.pc = "writei_end" \/ (u.pc = "writei" /\ u.tot = u.n1)
    /\ inode' = [inode EXCEPT ![f].size = size, ![f].lock = Nobody]
    /\ dinode' = [dinode EXCEPT ![f] = [size |-> size, addrs |-> inode[f].addrs]]
    /\ off' = [off EXCEPT ![f] = o]
    /\ proc' = [proc EXCEPT ![p] =
          IF u.tot # u.n1 \/ u.i + u.tot = u.n THEN User
          ELSE [@ EXCEPT !.pc = "write", !.i = @ + u.tot, !.n1 = 0, !.tot = 0, !.logged = {}]]
    /\ UNCHANGED <<bitmap, blk>>

-----------------------------------------------------------------------------
(* fileread(), open() of the file once more, and O_TRUNC.                  *)

\* readi(): how much it reads, and the bytes.
ReadLen(f, n) == IF off[f] > inode[f].size THEN 0 ELSE Smaller(n, inode[f].size - off[f])
Byte(f, o) == LET r == bmap(inode[f].addrs, o \div BSIZE) IN r.blk[r.addr][o % BSIZE]

Read(p) ==
    LET f == File[p] IN
    /\ "read" \in Uses[p]
    /\ proc[p].pc = "user"
    /\ inode[f].lock = Nobody
    /\ \E n \in Lens[p] : off' = [off EXCEPT ![f] = @ + ReadLen(f, n)]
    /\ UNCHANGED <<bitmap, blk, inode, dinode, proc>>

\* A new struct file starts at offset 0.
Reopen(p) ==
    /\ "open" \in Uses[p]
    /\ \A q \in P : File[q] = File[p] => proc[q].pc = "user"
    /\ off[File[p]] # 0
    /\ off' = [off EXCEPT ![File[p]] = 0]
    /\ UNCHANGED <<bitmap, blk, inode, dinode, proc>>

\* itrunc() frees the direct blocks, ...
Trunc(p) ==
    /\ "trunc" \in Uses[p]
    /\ proc[p].pc = "user"
    /\ inode[File[p]].lock = Nobody
    /\ inode' = [inode EXCEPT ![File[p]].lock = p]
    /\ proc' = [proc EXCEPT ![p].pc = "itrunc"]
    /\ UNCHANGED <<bitmap, blk, dinode, off>>

TruncDirect(p) ==
    LET a == inode[File[p]].addrs IN
    /\ proc[p].pc = "itrunc"
    /\ \E k \in 0..(NDIRECT - 1) :
        /\ a[k] # 0 /\ \A j \in 0..(k - 1) : a[j] = 0
        /\ bitmap' = bitmap \ {a[k]}
        /\ blk' = bfree(a[k])
        /\ inode' = [inode EXCEPT ![File[p]].addrs[k] = 0]
    /\ proc' = [proc EXCEPT ![p].logged = @ \cup {BBLOCK}]
    /\ UNCHANGED <<dinode, off>>

\* ... what the indirect block lists, one after the other (i counts), ...
TruncIndirect(p) ==
    LET a == inode[File[p]].addrs
        ind == a[NDIRECT] IN
    /\ proc[p].pc = "itrunc"
    /\ \A k \in 0..(NDIRECT - 1) : a[k] = 0
    /\ ind # 0
    /\ proc[p].i < NINDIRECT
    /\ bitmap' = bitmap \ {blk[ind][proc[p].i]}
    /\ blk' = bfree(blk[ind][proc[p].i])
    /\ proc' = [proc EXCEPT ![p].i = @ + 1, ![p].logged = @ \cup {BBLOCK}]
    /\ UNCHANGED <<inode, dinode, off>>

\* ... and the indirect block; then the inode is empty.
TruncEnd(p) ==
    LET f == File[p]
        a == inode[f].addrs IN
    /\ proc[p].pc = "itrunc"
    /\ \A k \in 0..(NDIRECT - 1) : a[k] = 0
    /\ a[NDIRECT] = 0 \/ proc[p].i = NINDIRECT
    /\ bitmap' = bitmap \ {a[NDIRECT]}
    /\ blk' = bfree(a[NDIRECT])
    /\ inode' = [inode EXCEPT ![f] = [size |-> 0, addrs |-> Empty.addrs, lock |-> Nobody]]
    /\ dinode' = [dinode EXCEPT ![f] = Empty]
    /\ proc' = [proc EXCEPT ![p] = User]
    /\ UNCHANGED off

Next ==
    \E p \in P :
        \/ Write(p) \/ WriteBegin(p) \/ WriteBlock(p) \/ WriteFault(p) \/ WriteEnd(p)
        \/ Read(p) \/ Reopen(p) \/ Trunc(p) \/ TruncDirect(p) \/ TruncIndirect(p) \/ TruncEnd(p)

Spec == Init /\ [][Next]_vars

-----------------------------------------------------------------------------
(* Properties.                                                             *)

TypeOK ==
    /\ bitmap \subseteq Blocks
    /\ \A f \in Inodes : /\ inode[f].size \in 0..(MAXFILE * BSIZE)
                         /\ inode[f].addrs \in [0..NDIRECT -> Blocks \cup {0}]
                         /\ off[f] \in Nat
    /\ \A p \in P : proc[p].tot \in 0..proc[p].n1

\* The blocks of an inode, the indirect block included, as pairs of place and block.
Owned(f) ==
    LET a == inode[f].addrs
        ind == a[NDIRECT] IN
    {<<f, k, a[k]>> : k \in {k \in 0..NDIRECT : a[k] # 0}}
    \cup {<<f, NDIRECT + 1 + j, blk[ind][j]>> :
            j \in {j \in 0..(NINDIRECT - 1) : ind # 0 /\ blk[ind][j] # 0}}
Truncating(f) == \E p \in P : File[p] = f /\ proc[p].pc = "itrunc"

\* A block belongs to one place of one inode, and it is marked in use; between calls
\* nothing else is: no block is shared or lost, although allocations of several
\* files and truncations interleave and calls fail half way.
BlocksOwned ==
    LET steady == {f \in Inodes : ~Truncating(f)}
        owned == UNION {Owned(f) : f \in steady} IN
    /\ \A x, y \in owned : x[3] = y[3] => x = y
    /\ \A x \in owned : x[3] \in bitmap
    /\ steady = Inodes => bitmap = {x[3] : x \in owned}

\* What a file contains, read through the block addresses, is what was written at
\* each offset, also after a write that failed, or a truncation and reuse of blocks.
Contents ==
    \A f \in Inodes : inode[f].lock = Nobody =>
        \A o \in 0..(inode[f].size - 1) : Byte(f, o) = Data(f, o)

\* Every block below the size of a file exists, so that readi() never allocates one
\* (it is called outside of transactions) and never stops short.
NoHoles ==
    \A f \in Inodes : ~Truncating(f) =>
        \A o \in 0..(inode[f].size - 1) :
            LET r == bmap(inode[f].addrs, o \div BSIZE) IN r.addr # 0 /\ r.logged = {}

\* When an inode is unlocked its copy on disk has the addresses of all its blocks,
\* although bmap() changes them in memory only: a crash loses none.
Updated ==
    \A f \in Inodes : inode[f].lock = Nobody =>
        dinode[f] = [size |-> inode[f].size, addrs |-> inode[f].addrs]

\* A transaction of filewrite() writes at most MAXOPBLOCKS blocks (with the inode
\* block): the limit it works with keeps the promise of begin_op().
FitsLog == \A p \in P : Cardinality(proc[p].logged \cup {IBLOCK}) <= MAXOPBLOCKS

\* The bitmap, the block addresses in memory and those on disk agree: a block in use
\* has one place in one file, and an unlocked inode is on disk as it is in memory.
DiskAgrees == TypeOK /\ BlocksOwned /\ Updated

\* Every byte below the size of a file has a block, and is the byte that was written.
FilesKept == NoHoles /\ Contents

=============================================================================
