-------------------------------- MODULE Log ---------------------------------
(***************************************************************************)
(* The write-ahead log (kernel/log.c) on the buffer cache (kernel/bio.c),  *)
(* with crashes.                                                           *)
(*                                                                         *)
(* Processes T make file system calls: begin_op(), then bread(), change    *)
(* and log_write() some blocks, then end_op(), whose last caller commits.  *)
(* They also read blocks outside of any transaction.  A crash keeps the    *)
(* disk and loses the rest; the boot process recovers from the log.        *)
(*                                                                         *)
(* One step is one critical section of log.lock or bcache.lock, one        *)
(* acquiresleep() of a buffer, or one disk write, which is atomic for a    *)
(* block.  Block 0 is the log header, 1..SIZE-1 are the log blocks.        *)
(***************************************************************************)
EXTENDS Integers, Sequences, FiniteSets

CONSTANTS
    Data,               \* numbers of the blocks outside the log
    Vals,               \* contents of a block
    LOGSIZE, MAXOPBLOCKS, NBUF,
    SIZE,               \* log.size: the blocks of the log, its header included
    T,                  \* the processes
    Nobody,             \* no process: an unlocked buffer
    NoBlock,            \* no block: a buffer not used yet
    MaxCrashes          \* bound on the number of crashes

Header == 0
LogBlocks == 1..(SIZE - 1)
Blocks == {Header} \cup LogBlocks \cup Data

ASSUME LogAssumption ==
    /\ LOGSIZE \in Nat /\ MAXOPBLOCKS \in Nat \ {0} /\ NBUF \in Nat \ {0}
    /\ SIZE \in Nat /\ LOGSIZE < SIZE
    /\ Data \cap (0..(SIZE - 1)) = {} /\ NoBlock \notin Data \cup 0..(SIZE - 1)
    /\ MAXOPBLOCKS <= LOGSIZE
    /\ IsFiniteSet(T) /\ Nobody \notin T
    /\ MaxCrashes \in Nat

VARIABLES
    disk,               \* block -> contents; the header holds block numbers
    bcache,             \* the buffers, most recently used first
    log,                \* outstanding, committing, lh (the header in memory)
    thr,                \* per process: position, and inside bread() or
                        \* brelse() the block and where to return
    crashes

vars == <<disk, bcache, log, thr, crashes>>

\* A buffer without a block; the data of an invalid buffer is never read.
EmptyBuf(b) == [blockno |-> b, valid |-> FALSE, refcnt |-> 0,
                data |-> <<>>, lock |-> Nobody]

Thread(l) == [pc |-> l, blk |-> NoBlock, ret |-> "none", tail |-> 0, wrote |-> {},
              recovering |-> FALSE]

\* The first process runs fsinit(); until the log is recovered it is alone.
Booting(first) ==
    [t \in T |-> IF t = first THEN [Thread("recover") EXCEPT !.recovering = TRUE]
                              ELSE Thread("off")]

NewCache == [i \in 1..NBUF |-> EmptyBuf(NoBlock)]

NewLog == [outstanding |-> 0, committing |-> FALSE, lh |-> <<>>]

Init ==
    /\ \E v \in Vals : disk = [b \in Blocks |-> IF b = Header THEN <<>> ELSE v]
    /\ bcache = NewCache
    /\ log = NewLog
    /\ \E t \in T : thr = Booting(t)
    /\ crashes = 0

-----------------------------------------------------------------------------
(* The buffer cache.                                                       *)


Cached(b) == \E i \in 1..NBUF : bcache[i].blockno = b
Idx(b) == CHOOSE i \in 1..NBUF : bcache[i].blockno = b
Buf(b) == bcache[Idx(b)]

Goto(t, l) == thr' = [thr EXCEPT ![t].pc = l]

\* The thread u at p, using block b and then going to l; what a thread calls: bread(b), or
\* brelse(b), then l.
At(u, p, b, l) == [pc |-> p, blk |-> b, ret |-> l, tail |-> u.tail, wrote |-> u.wrote,
                   recovering |-> u.recovering]
Bread(u, b, l) == At(u, "bget", b, l)
Release(u, b, l) == At(u, "brelse", b, l)

\* The buffers that nobody refers to, and the least recently used of them.
Recyclable == {i \in 1..NBUF : bcache[i].refcnt = 0}
LRU == CHOOSE i \in Recyclable : \A j \in Recyclable : j <= i

Bget(t) ==
    LET b == thr[t].blk IN
    /\ thr[t].pc = "bget"
    /\ IF ~Cached(b) /\ Recyclable = {}
       THEN Goto(t, "panic") /\ UNCHANGED bcache
       ELSE /\ Goto(t, "block")
            /\ bcache' = IF Cached(b)
                         THEN [bcache EXCEPT ![Idx(b)].refcnt = @ + 1]
                         ELSE [bcache EXCEPT ![LRU] = [EmptyBuf(b) EXCEPT !.refcnt = 1]]
    /\ UNCHANGED <<disk, log, crashes>>

\* acquiresleep(), and the read of a block that is not valid.
BufLock(t) ==
    LET b == thr[t].blk IN
    /\ thr[t].pc = "block"
    /\ Buf(b).lock = Nobody
    /\ bcache' = [bcache EXCEPT ![Idx(b)] =
                    [@ EXCEPT !.lock = t, !.valid = TRUE,
                              !.data = IF Buf(b).valid THEN Buf(b).data ELSE disk[b]]]
    /\ thr' = [thr EXCEPT ![t] = At(@, @.ret, b, "none")]
    /\ UNCHANGED <<disk, log, crashes>>

\* Move the i-th buffer to the front as f.
ToFront(i, f) == [j \in 1..NBUF |-> IF j = 1 THEN f
                                    ELSE IF j <= i THEN bcache[j - 1] ELSE bcache[j]]

Brelse(t) ==
    LET b == thr[t].blk
        f == [Buf(b) EXCEPT !.lock = Nobody, !.refcnt = @ - 1] IN
    /\ thr[t].pc = "brelse"
    /\ bcache' = IF f.refcnt = 0 THEN ToFront(Idx(b), f)
                                 ELSE [bcache EXCEPT ![Idx(b)] = f]
    /\ thr' = [thr EXCEPT ![t] = At(@, @.ret, NoBlock, "none")]
    /\ UNCHANGED <<disk, log, crashes>>

-----------------------------------------------------------------------------
(* File system calls.                                                      *)

\* wakeup(&log).
WakeLog(th) == [t \in T |-> IF th[t].pc = "begin_sleep" THEN [th[t] EXCEPT !.pc = "begin"]
                                                         ELSE th[t]]

\* A process reads a block without a transaction, as fileread() does.
Read(t) ==
    /\ thr[t].pc = "idle"
    /\ \E b \in Data : thr' = [thr EXCEPT ![t] = Bread(@, b, "read")]
    /\ UNCHANGED <<disk, bcache, log, crashes>>

ReadDone(t) ==
    /\ thr[t].pc = "read"
    /\ thr' = [thr EXCEPT ![t] = Release(@, @.blk, "idle")]
    /\ UNCHANGED <<disk, bcache, log, crashes>>

\* Mutant: begin_op() forgets the blocks that are in the log already.
MutBeginOpLogged(t) ==
    /\ thr[t].pc \in {"idle", "begin"}
    /\ IF log.committing \/ (log.outstanding + 1) * MAXOPBLOCKS > LOGSIZE
       THEN Goto(t, "begin_sleep") /\ UNCHANGED log
       ELSE /\ log' = [log EXCEPT !.outstanding = @ + 1]
            /\ thr' = [thr EXCEPT ![t] = Thread("op")]
    /\ UNCHANGED <<disk, bcache, crashes>>

BeginOp(t) ==
    /\ thr[t].pc \in {"idle", "begin"}
    /\ IF log.committing \/ Len(log.lh) + (log.outstanding + 1) * MAXOPBLOCKS > LOGSIZE
       THEN Goto(t, "begin_sleep") /\ UNCHANGED log
       ELSE /\ log' = [log EXCEPT !.outstanding = @ + 1]
            /\ thr' = [thr EXCEPT ![t] = Thread("op")]
    /\ UNCHANGED <<disk, bcache, crashes>>

\* The call changes at most MAXOPBLOCKS different blocks (param.h).
OpBread(t) ==
    /\ thr[t].pc = "op"
    /\ \E b \in Data :
        /\ Cardinality(thr[t].wrote \cup {b}) <= MAXOPBLOCKS
        /\ thr' = [thr EXCEPT ![t] = Bread(@, b, "modify")]
    /\ UNCHANGED <<disk, bcache, log, crashes>>

Modify(t) ==
    /\ thr[t].pc = "modify"
    /\ \E v \in Vals : bcache' = [bcache EXCEPT ![Idx(thr[t].blk)].data = v]
    /\ Goto(t, "log_write")
    /\ UNCHANGED <<disk, log, crashes>>

Logged(b) == \E i \in 1..Len(log.lh) : log.lh[i] = b

\* log_write(): pin a block that is new in the log, absorb one that is not.
LogWrite(t) ==
    LET b == thr[t].blk IN
    /\ thr[t].pc = "log_write"
    /\ IF Len(log.lh) >= LOGSIZE \/ Len(log.lh) >= SIZE - 1 \/ log.outstanding < 1
       THEN Goto(t, "panic") /\ UNCHANGED <<bcache, log>>
       ELSE /\ \/ Logged(b) /\ UNCHANGED <<bcache, log>>
               \/ /\ ~Logged(b)
                  /\ log' = [log EXCEPT !.lh = Append(@, b)]
                  /\ bcache' = [bcache EXCEPT ![Idx(b)].refcnt = @ + 1]
            /\ thr' = [thr EXCEPT ![t] =
                         [Release(@, b, "op") EXCEPT !.wrote = thr[t].wrote \cup {b}]]
    /\ UNCHANGED <<disk, crashes>>

EndOp(t) ==
    /\ thr[t].pc = "op"
    /\ IF log.committing
       THEN /\ log' = [log EXCEPT !.outstanding = @ - 1]
            /\ Goto(t, "panic")
       ELSE \/ /\ log.outstanding = 1
               /\ log' = [log EXCEPT !.outstanding = 0, !.committing = TRUE]
               /\ thr' = [thr EXCEPT ![t] = Thread("commit")]
            \/ /\ log.outstanding # 1
               /\ log' = [log EXCEPT !.outstanding = @ - 1]
               /\ thr' = WakeLog([thr EXCEPT ![t] = Thread("idle")])
    /\ UNCHANGED <<disk, bcache, crashes>>

-----------------------------------------------------------------------------
(* commit() and recover_from_log().                                        *)

\* bwrite(): v goes to the locked buffer of b and to the disk.
Bwrite(b, v, cache) ==
    /\ bcache' = [cache EXCEPT ![Idx(b)].data = v]
    /\ disk' = [disk EXCEPT ![b] = v]

Commit(t) ==
    /\ thr[t].pc = "commit"
    /\ Goto(t, IF log.lh = <<>> THEN "commit_done" ELSE "write_log")
    /\ UNCHANGED <<disk, bcache, log, crashes>>

\* Mutant: write_log() leaves out the last block.
MutWriteLogShort(t) ==
    /\ thr[t].pc = "write_log"
    /\ thr' = [thr EXCEPT ![t] =
                 IF @.tail + 1 < Len(log.lh) THEN Bread(@, @.tail + 1, "write_log_from")
                                             ELSE Bread(@, Header, "write_head")]
    /\ UNCHANGED <<disk, bcache, log, crashes>>

\* The loop of write_log(), which goes on to write_head().
WriteLog(t) ==
    /\ thr[t].pc = "write_log"
    /\ thr' = [thr EXCEPT ![t] =
                 IF @.tail < Len(log.lh) THEN Bread(@, @.tail + 1, "write_log_from")
                                         ELSE Bread(@, Header, "write_head")]
    /\ UNCHANGED <<disk, bcache, log, crashes>>

WriteLogFrom(t) ==
    /\ thr[t].pc = "write_log_from"
    /\ thr' = [thr EXCEPT ![t] = Bread(@, log.lh[@.tail + 1], "write_log_copy")]
    /\ UNCHANGED <<disk, bcache, log, crashes>>

WriteLogCopy(t) ==
    /\ thr[t].pc = "write_log_copy"
    /\ Bwrite(thr[t].tail + 1, Buf(thr[t].blk).data, bcache)
    /\ thr' = [thr EXCEPT ![t] = Release(@, @.blk, "write_log_release")]
    /\ UNCHANGED <<log, crashes>>

WriteLogRelease(t) ==
    /\ thr[t].pc = "write_log_release"
    /\ thr' = [thr EXCEPT ![t] =
                 [Release(@, @.tail + 1, "write_log") EXCEPT !.tail = thr[t].tail + 1]]
    /\ UNCHANGED <<disk, bcache, log, crashes>>

\* The header on disk becomes the one in memory: the commit point when that is
\* not empty, the end of the transaction when it is.
WriteHead(t) ==
    /\ thr[t].pc = "write_head"
    /\ Bwrite(Header, log.lh, bcache)
    /\ thr' = [thr EXCEPT ![t] =
                 [Release(@, Header, IF log.lh # <<>> THEN "install"
                                     ELSE IF @.recovering THEN "recovered"
                                     ELSE "commit_done") EXCEPT !.tail = 0]]
    /\ UNCHANGED <<log, crashes>>

\* The loop of install_trans(), then log.lh.n = 0 and write_head().
Install(t) ==
    /\ thr[t].pc = "install"
    /\ \/ /\ thr[t].tail < Len(log.lh)
          /\ thr' = [thr EXCEPT ![t] = Bread(@, @.tail + 1, "install_dst")]
          /\ UNCHANGED log
       \/ /\ thr[t].tail = Len(log.lh)
          /\ log' = [log EXCEPT !.lh = <<>>]
          /\ thr' = [thr EXCEPT ![t] = Bread(@, Header, "write_head")]
    /\ UNCHANGED <<disk, bcache, crashes>>

InstallDst(t) ==
    /\ thr[t].pc = "install_dst"
    /\ thr' = [thr EXCEPT ![t] = Bread(@, log.lh[@.tail + 1], "install_copy")]
    /\ UNCHANGED <<disk, bcache, log, crashes>>

\* bunpin() leaves the reference of the bread() that brelse() will drop.
InstallCopy(t) ==
    LET b == thr[t].blk IN
    /\ thr[t].pc = "install_copy"
    /\ Bwrite(b, Buf(thr[t].tail + 1).data,
              IF thr[t].recovering THEN bcache
              ELSE [bcache EXCEPT ![Idx(b)].refcnt = @ - 1])
    /\ thr' = [thr EXCEPT ![t] = Release(@, @.tail + 1, "install_release")]
    /\ UNCHANGED <<log, crashes>>

InstallRelease(t) ==
    /\ thr[t].pc = "install_release"
    /\ thr' = [thr EXCEPT ![t] =
                 [Release(@, log.lh[@.tail + 1], "install") EXCEPT !.tail = thr[t].tail + 1]]
    /\ UNCHANGED <<disk, bcache, log, crashes>>

\* Mutant: end_op() does not wake the processes waiting for the commit.
MutCommitDoneNoWakeup(t) ==
    /\ thr[t].pc = "commit_done"
    /\ log' = [log EXCEPT !.committing = FALSE]
    /\ thr' = [thr EXCEPT ![t] = Thread("idle")]
    /\ UNCHANGED <<disk, bcache, crashes>>

CommitDone(t) ==
    /\ thr[t].pc = "commit_done"
    /\ log' = [log EXCEPT !.committing = FALSE]
    /\ thr' = WakeLog([thr EXCEPT ![t] = Thread("idle")])
    /\ UNCHANGED <<disk, bcache, crashes>>

Recover(t) ==
    /\ thr[t].pc = "recover"
    /\ thr' = [thr EXCEPT ![t] = Bread(@, Header, "read_head")]
    /\ UNCHANGED <<disk, bcache, log, crashes>>

ReadHead(t) ==
    /\ thr[t].pc = "read_head"
    /\ log' = [log EXCEPT !.lh = Buf(Header).data]
    /\ thr' = [thr EXCEPT ![t] = Release(@, Header, "install")]
    /\ UNCHANGED <<disk, bcache, crashes>>

\* fsinit() returns; init and its children start.
Recovered(t) ==
    /\ thr[t].pc = "recovered"
    /\ thr' = [u \in T |-> Thread("idle")]
    /\ UNCHANGED <<disk, bcache, log, crashes>>

Crash ==
    /\ crashes < MaxCrashes
    /\ crashes' = crashes + 1
    /\ bcache' = NewCache /\ log' = NewLog /\ \E t \in T : thr' = Booting(t)
    /\ UNCHANGED disk

-----------------------------------------------------------------------------
CacheStep(t) == Bget(t) \/ BufLock(t) \/ Brelse(t)
CallStep(t) == \/ Read(t) \/ ReadDone(t) \/ BeginOp(t) \/ OpBread(t) \/ Modify(t)
               \/ LogWrite(t) \/ EndOp(t)
CommitStep(t) == \/ Commit(t) \/ WriteLog(t) \/ WriteLogFrom(t) \/ WriteLogCopy(t)
                 \/ WriteLogRelease(t) \/ WriteHead(t) \/ Install(t) \/ InstallDst(t)
                 \/ InstallCopy(t) \/ InstallRelease(t) \/ CommitDone(t)
                 \/ Recover(t) \/ ReadHead(t) \/ Recovered(t)

Next == (\E t \in T : CacheStep(t) \/ CallStep(t) \/ CommitStep(t)) \/ Crash

Spec == Init /\ [][Next]_vars

-----------------------------------------------------------------------------
(* Properties.                                                             *)

\* Where a thread is in log.c, also while it is inside bread() or brelse().
CachePcs == {"bget", "block", "brelse"}
Pos(u) == IF u.pc \in CachePcs THEN u.ret ELSE u.pc
Where(t) == Pos(thr[t])

CallPcs == {"off", "idle", "read", "begin", "begin_sleep", "op", "modify", "log_write",
            "panic"}
CommitPcs == {"commit", "write_log", "write_log_from", "write_log_copy",
              "write_log_release", "write_head", "install", "install_dst",
              "install_copy", "install_release", "commit_done", "recover",
              "read_head", "recovered"}
Pcs == CallPcs \cup CommitPcs \cup CachePcs

Contents(b) == IF b = Header THEN Seq(Data) ELSE Vals

\* Types; a thread at a position where it has read a buffer holds its lock.
TypeOK ==
    /\ DOMAIN disk = Blocks /\ \A b \in Blocks : disk[b] \in Contents(b)
    /\ DOMAIN bcache = 1..NBUF
    /\ \A i \in 1..NBUF :
        /\ bcache[i].blockno \in Blocks \cup {NoBlock} /\ bcache[i].valid \in BOOLEAN
        /\ bcache[i].refcnt \in Nat /\ bcache[i].lock \in T \cup {Nobody}
        /\ bcache[i].valid => bcache[i].data \in Contents(bcache[i].blockno)
    /\ log \in [outstanding : Nat, committing : BOOLEAN, lh : Seq(Data)]
    /\ thr \in [T -> [pc : Pcs, blk : Blocks \cup {NoBlock}, ret : Pcs \cup {"none"},
                     tail : 0..LOGSIZE, wrote : SUBSET Data, recovering : BOOLEAN]]
    /\ crashes \in 0..MaxCrashes
    /\ \A t \in T :
        thr[t].pc \in {"read", "modify", "log_write", "write_log_copy", "write_head",
                      "install_copy", "read_head", "brelse"}
          => Cached(thr[t].blk) /\ Buf(thr[t].blk).lock = t /\ Buf(thr[t].blk).valid

\* None of the panics is reached: bget() always finds a buffer, the space that
\* begin_op() reserves is enough for log_write(), log_write() is called inside a
\* transaction and no call ends during a commit.
NoPanic == \A t \in T : thr[t].pc # "panic"

\* bget() never makes a second buffer for a block, whose updates would be lost.
OneBuffer ==
    \A i, j \in 1..NBUF :
        bcache[i].blockno = bcache[j].blockno /\ i # j => bcache[i].blockno = NoBlock

Recovering == \E t \in T : thr[t].recovering

\* The contents of the disk after a recovery that is not interrupted.
Durable ==
    LET h == disk[Header] IN
    [b \in Data |-> IF \E i \in 1..Len(h) : h[i] = b
                    THEN disk[CHOOSE i \in 1..Len(h) : h[i] = b]
                    ELSE disk[b]]

\* What bread() returns.
Current ==
    [b \in Data |-> IF ~Recovering /\ Cached(b) /\ Buf(b).valid THEN Buf(b).data
                                                                ELSE Durable[b]]

ActivePcs == {"op", "modify", "log_write"}
Active == {t \in T : Where(t) \in ActivePcs}

Abstract == INSTANCE AtomicDisk WITH durable <- Durable, current <- Current,
                                     active <- Active

\* The log implements the atomic disk: updates become durable together, only
\* when no call is in progress, and a crash at any point, in commit() or in the
\* recovery from an earlier crash, loses either all of them or none.
Atomic == Abstract!Spec

\* When nothing is logged and no call is active or committing, what is on disk
\* is what processes read: no committed update stays in memory only.
Installed ==
    log.lh = <<>> /\ log.outstanding = 0 /\ ~log.committing /\ ~Recovering
        => disk[Header] = <<>> /\ \A b \in Data : disk[b] = Current[b]

\* begin_op()'s reservation is sound: what is logged and what the active calls
\* may still log fits into the log.
Reserved ==
    Len(log.lh) + log.outstanding * MAXOPBLOCKS
        <= LOGSIZE + Cardinality(UNION {thr[t].wrote : t \in Active})

\* A process sleeps in begin_op() only while a call or a commit is going on
\* that will wake it up: end_op() loses no wakeup.
SleeperHasWaker ==
    (\E t \in T : thr[t].pc = "begin_sleep") => log.outstanding > 0 \/ log.committing

\* commit() runs without log.lock, and has the log for itself: while a process is in it,
\* or recovers, no call is active and no other process is in it.
CommitAlone ==
    \A t \in T : Where(t) \in CommitPcs =>
        Active = {} /\ \A u \in T : Where(u) \in CommitPcs => u = t

ThreadOf(u) == [pc |-> u.pc, blk |-> u.blk, ret |-> u.ret, tail |-> u.tail,
                wrote |-> u.wrote, recovering |-> u.recovering]
RecoverPcs == {"recover", "read_head", "install", "install_dst", "install_copy",
               "install_release", "write_head", "recovered", "panic"}

\* What holds of each thread: a recovery is alone and nothing is counted during it, at most
\* one thread is in commit(), with log.committing set, and the log is empty when it is over.
ThreadInv(t) ==
    /\ thr[t].recovering \in BOOLEAN
    /\ Where(t) \notin CachePcs /\ thr[t].ret # "begin_sleep"
    /\ thr[t].recovering =>
        /\ Where(t) \in RecoverPcs
        /\ log.outstanding = 0 /\ ~log.committing
        /\ \A u \in T : u # t => thr[u].pc = "off"
    /\ ~thr[t].recovering => Where(t) \notin {"recover", "read_head", "recovered"}
    /\ Where(t) \in CommitPcs =>
        /\ thr[t].recovering \/ log.committing
        /\ \A u \in T : Where(u) \in CommitPcs => u = t
    /\ Where(t) \in {"commit_done", "recovered"} => log.lh = <<>>

\* The inductive invariant behind CommitAlone and SleeperHasWaker: log.outstanding counts
\* at least the active calls, is 0 during a commit, and with no call, commit or recovery
\* in progress the log is empty, so that begin_op() has no reason to sleep.
LogInv ==
    /\ log = [outstanding |-> log.outstanding, committing |-> log.committing, lh |-> log.lh]
    /\ log.outstanding \in Nat /\ log.committing \in BOOLEAN
    /\ thr = [t \in T |-> ThreadOf(thr[t])]
    /\ Cardinality(Active) <= log.outstanding
    /\ log.committing => log.outstanding = 0
    /\ \A t \in T : ThreadInv(t)
    /\ ~Recovering /\ ~log.committing /\ log.outstanding = 0 => log.lh = <<>>
    /\ SleeperHasWaker


=============================================================================
