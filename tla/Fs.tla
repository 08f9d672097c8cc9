--------------------------------- MODULE Fs ---------------------------------
(***************************************************************************)
(* Inodes, directories and path names: the in-memory inode table, the      *)
(* inodes on disk and the directories of kernel/fs.c, and the system calls *)
(* of kernel/sysfile.c that create, find, link and remove names, run by    *)
(* several processes at once.                                              *)
(*                                                                         *)
(* A step is a critical section of itable.lock, or the code between        *)
(* acquiring and releasing sleep locks that nobody else can see.  A system *)
(* call runs inside begin_op() and end_op(); the disk here is what the     *)
(* buffer cache holds.  The log makes it durable when no call is running   *)
(* (module Log), so a crash takes the disk back to such a state: Crash.    *)
(***************************************************************************)
EXTENDS Integers, Sequences, FiniteSets, SequencesExt

CONSTANTS
    P,                  \* processes
    NINODES,            \* inodes on disk; 1 is the root directory
    NINODE,             \* entries of the inode table
    DPB,                \* directory entries in a block
    Calls,              \* the system calls processes make
    None

ASSUME FsAssumption ==
    /\ NINODES \in Nat \ {0} /\ NINODE \in Nat /\ NINODE >= NINODES /\ DPB \in Nat \ {0}
    /\ None \notin 1..NINODE /\ None \notin P

ROOTINO == 1
Inum == 1..NINODES
Entries == 1..NINODE

VARIABLES
    dinode,             \* inodes on disk: type, nlink
    ents,               \* contents of directories: name and inum of every slot
    itable,             \* inum, ref, valid, lock and the copy of type and nlink
    proc,               \* per process: position, arguments and locals, cwd, ofile
    lost                \* history: inodes named in a directory when that was freed,
                        \* and inodes without names at a crash

vars == <<dinode, ents, itable, proc, lost>>

FreeInode == [type |-> "free", nlink |-> 0]
FreeEntry == [inum |-> ROOTINO, ref |-> 0, valid |-> FALSE, lock |-> None,
              type |-> "free", nlink |-> 0]
Dirent(n, i) == [name |-> n, inum |-> i]

\* ip, dp, name, inum: as in the code; old: the inode of sys_link().  path: the
\* elements still to look up; parent: stop one level early; then, bad: where to
\* continue.  puts: references to give back before continuing at next.
User(cwd, ofile) ==
    [pc |-> "user", call |-> None, ip |-> None, dp |-> None, name |-> None, old |-> None,
     inum |-> 0, path |-> <<>>, parent |-> FALSE, then |-> "user", bad |-> "user",
     puts |-> <<>>, next |-> "user", cwd |-> cwd, ofile |-> ofile]

\* After booting from a disk every process is in the root directory.
BootTable == [e \in Entries |->
                IF e = 1 THEN [FreeEntry EXCEPT !.ref = Cardinality(P)] ELSE FreeEntry]
BootProcs == [p \in P |-> User(1, None)]

Init ==
    /\ dinode = [i \in Inum |-> IF i = ROOTINO THEN [type |-> "dir", nlink |-> 1] ELSE FreeInode]
    /\ ents = [i \in Inum |-> IF i = ROOTINO THEN <<Dirent(".", 1), Dirent("..", 1)>> ELSE <<>>]
    /\ lost = {}
    /\ itable = BootTable /\ proc = BootProcs

-----------------------------------------------------------------------------
(* Inodes.                                                                 *)

\* iget(): the entry that has the inode, or the first free one.
Cached(t, i) == {e \in Entries : t[e].ref > 0 /\ t[e].inum = i}
First(S) == CHOOSE e \in S : \A f \in S : e <= f
igetEntry(t, i) == IF Cached(t, i) # {} THEN First(Cached(t, i))
                   ELSE First({e \in Entries : t[e].ref = 0})
iget(t, i) ==
    LET e == igetEntry(t, i) IN
    IF Cached(t, i) # {} THEN [t EXCEPT ![e].ref = @ + 1]
    ELSE [t EXCEPT ![e] = [FreeEntry EXCEPT !.inum = i, !.ref = 1]]

\* ilock() by p waits for the lock, and reads the inode if it is not valid.
Unlocked(e) == itable[e].lock = None
ilock(t, e, p) ==
    LET d == dinode[t[e].inum] IN
    IF t[e].valid THEN [t EXCEPT ![e].lock = p]
    ELSE [t EXCEPT ![e].lock = p, ![e].valid = TRUE, ![e].type = d.type, ![e].nlink = d.nlink]
iunlock(t, e) == [t EXCEPT ![e].lock = None]

\* The link count of an inode changes in the copy, and iupdate() writes it back.
SetLinks(t, e, n) == [t EXCEPT ![e].nlink = n]
iupdate(d, t, e) == [d EXCEPT ![t[e].inum] = [type |-> t[e].type, nlink |-> t[e].nlink]]

\* dirlookup(): the inode number in the first entry with the name, or 0.
Slots(i, n) == {k \in 1..Len(ents[i]) : ents[i][k].inum # 0 /\ ents[i][k].name = n}
dirlookup(i, n) == IF Slots(i, n) = {} THEN 0 ELSE ents[i][First(Slots(i, n))].inum

\* dirlink() of a name that is not there writes the first empty slot, or a new one,
\* for which a block is missing now and then.
Link(s, n, i) ==
    LET empty == {k \in 1..Len(s) : s[k].inum = 0} IN
    IF empty # {} THEN [s EXCEPT ![First(empty)] = Dirent(n, i)] ELSE Append(s, Dirent(n, i))
MayFail(s) == Len(s) % DPB = 0 /\ \A k \in 1..Len(s) : s[k].inum # 0

isdirempty(i) == \A k \in 3..Len(ents[i]) : ents[i][k].inum = 0

\* Continue at l once the references in es are given back.  A call that returns
\* forgets its locals.
Put(u, es, l) ==
    LET v == CASE l = "user" -> User(u.cwd, u.ofile)
               [] l \in {"open_file", "done"} -> [User(u.cwd, u.ofile) EXCEPT !.ip = u.ip]
               [] OTHER -> u IN
    [v EXCEPT !.pc = IF es = <<>> THEN l ELSE "put", !.puts = es,
              !.next = IF es = <<>> THEN "user" ELSE l]

\* Mutant: the inode is still locked.
MutIputLocked(p) ==
    LET e == Head(proc[p].puts) IN
    /\ proc[p].pc = "put"
    /\ IF itable[e].ref = 1 /\ itable[e].valid /\ itable[e].nlink = 0
       THEN /\ Unlocked(e)
            /\ itable' = [itable EXCEPT ![e].lock = p]
            /\ proc' = [proc EXCEPT ![p].pc = "put_free"]
       ELSE /\ itable' = [itable EXCEPT ![e] = IF @.ref = 1 THEN FreeEntry
                                               ELSE [@ EXCEPT !.ref = @ - 1]]
            /\ proc' = [proc EXCEPT ![p] = Put(@, Tail(@.puts), @.next)]
    /\ UNCHANGED <<dinode, ents, lost>>

\* iput(): the last reference to an inode without links frees the inode.  The lock
\* is free then, as the comment says (property LastReference).
Iput(p) ==
    LET e == Head(proc[p].puts) IN
    /\ proc[p].pc = "put"
    /\ itable[e].lock # p
    /\ IF itable[e].ref = 1 /\ itable[e].valid /\ itable[e].nlink = 0
       THEN /\ Unlocked(e)
            /\ itable' = [itable EXCEPT ![e].lock = p]
            /\ proc' = [proc EXCEPT ![p].pc = "put_free"]
       ELSE /\ itable' = [itable EXCEPT ![e] = IF @.ref = 1 THEN FreeEntry
                                               ELSE [@ EXCEPT !.ref = @ - 1]]
            /\ proc' = [proc EXCEPT ![p] = Put(@, Tail(@.puts), @.next)]
    /\ UNCHANGED <<dinode, ents, lost>>

\* iunlockput(): the lock is released first.
Iunlock(p) ==
    /\ proc[p].pc = "put"
    /\ itable[Head(proc[p].puts)].lock = p
    /\ itable' = iunlock(itable, Head(proc[p].puts))
    /\ UNCHANGED <<dinode, ents, proc, lost>>

\* itrunc(), and the inode is free on disk: ialloc() may take it from now on, ...
IputFree(p) ==
    LET i == itable[Head(proc[p].puts)].inum IN
    /\ proc[p].pc = "put_free"
    /\ dinode' = [dinode EXCEPT ![i] = FreeInode]
    /\ ents' = [ents EXCEPT ![i] = <<>>]
    /\ lost' = lost \cup ({ents[i][k].inum : k \in 3..Len(ents[i])} \ {0})
    /\ proc' = [proc EXCEPT ![p].pc = "put_invalid"]
    /\ UNCHANGED itable

\* ... while the table entry still names it until the last step of iput().
IputInvalid(p) ==
    /\ proc[p].pc = "put_invalid"
    /\ itable' = [itable EXCEPT ![Head(proc[p].puts)] =
          [@ EXCEPT !.valid = FALSE, !.lock = None, !.type = "free", !.nlink = 0]]
    /\ proc' = [proc EXCEPT ![p].pc = "put_drop"]
    /\ UNCHANGED <<dinode, ents, lost>>

IputDrop(p) ==
    LET e == Head(proc[p].puts) IN
    /\ proc[p].pc = "put_drop"
    /\ itable' = [itable EXCEPT ![e] = IF @.ref = 1 THEN FreeEntry ELSE [@ EXCEPT !.ref = @ - 1]]
    /\ proc' = [proc EXCEPT ![p] = Put(@, Tail(@.puts), @.next)]
    /\ UNCHANGED <<dinode, ents, lost>>

-----------------------------------------------------------------------------
(* Path names.                                                             *)

\* Mutant: a reference is not given back.
MutNotFoundKeeps(u, es) == Put([u EXCEPT !.ip = None, !.path = <<>>, !.parent = FALSE,
                                         !.then = "user", !.bad = "user"], <<>>, u.bad)

\* namex() has found nothing, or the inode or parent the call goes on with.
NotFound(u, es) == Put([u EXCEPT !.ip = None, !.path = <<>>, !.parent = FALSE,
                                 !.then = "user", !.bad = "user"], es, u.bad)
Found(u, es) == Put([u EXCEPT !.path = <<>>, !.parent = FALSE, !.then = "user", !.bad = "user"],
                    es, u.then)

\* namex() has reached entry e: go on, or return it; es are to be put first.
Arrive(u, e, es) ==
    CASE u.path # <<>> -> Put([u EXCEPT !.ip = e], es, "namex")
      [] u.path = <<>> /\ u.parent -> NotFound(u, es \o <<e>>)
      [] OTHER -> Found([u EXCEPT !.ip = e], es)

\* namex() starts at the root or at the current directory.
NameFrom(p, u, path) ==
    LET e == IF path.abs THEN igetEntry(itable, ROOTINO) ELSE u.cwd IN
    /\ itable' = IF path.abs THEN iget(itable, ROOTINO) ELSE [itable EXCEPT ![e].ref = @ + 1]
    /\ proc' = [proc EXCEPT ![p] = Arrive([u EXCEPT !.path = path.names], e, <<>>)]

\* One turn of the loop of namex(): the lock is held inside the step only.
Namex(p) ==
    LET u == proc[p]
        e == u.ip
        t == ilock(itable, e, None)
        i == dirlookup(itable[e].inum, Head(u.path)) IN
    /\ u.pc = "namex"
    /\ Unlocked(e)
    /\ \/ /\ t[e].type = "dir" => ~(u.parent /\ Len(u.path) = 1) /\ i = 0
          /\ itable' = t
          /\ proc' = [proc EXCEPT ![p] = NotFound(u, <<e>>)]
       \/ /\ t[e].type = "dir" /\ u.parent /\ Len(u.path) = 1
          /\ itable' = t
          /\ proc' = [proc EXCEPT ![p] = Found([u EXCEPT !.dp = e, !.ip = None,
                                                         !.name = Head(u.path)], <<>>)]
       \/ /\ t[e].type = "dir" /\ ~(u.parent /\ Len(u.path) = 1) /\ i # 0
          /\ itable' = iget(t, i)
          /\ proc' = [proc EXCEPT ![p] =
                Arrive([u EXCEPT !.path = Tail(@)], igetEntry(t, i), <<e>>)]
    /\ UNCHANGED <<dinode, ents, lost>>

-----------------------------------------------------------------------------
(* System calls.                                                           *)

\* Calls begin with a look up: of the parent for the calls that make or remove the
\* name, else of the path.
Parents == {"create", "mkdir", "mknod", "unlink"}
Begin(p) ==
    /\ proc[p].pc = "user"
    /\ \E c \in Calls :
        /\ c.op = "open" \/ c.op = "create" => proc[p].ofile = None
        /\ NameFrom(p, [proc[p] EXCEPT !.call = c, !.parent = c.op \in Parents,
              !.then = CASE c.op \in {"create", "mkdir", "mknod"} -> "create"
                         [] OTHER -> c.op], c.path)
    /\ UNCHANGED <<dinode, ents, lost>>

\* sys_close() of an inode: fileclose() puts it.
Close(p) ==
    /\ proc[p].pc = "user"
    /\ proc[p].ofile # None
    /\ proc' = [proc EXCEPT ![p] = Put([@ EXCEPT !.ofile = None], <<@.ofile>>, "user")]
    /\ UNCHANGED <<dinode, ents, itable, lost>>

NewType(c) == CASE c.op = "create" -> "file" [] c.op = "mkdir" -> "dir" [] c.op = "mknod" -> "device"

\* create(): the parent is locked; the name may exist.
Create(p) ==
    LET u == proc[p]
        t == ilock(itable, u.dp, p)
        i == dirlookup(itable[u.dp].inum, u.name) IN
    /\ u.pc = "create"
    /\ Unlocked(u.dp)
    /\ IF i # 0
       THEN /\ itable' = iget(t, i)
            /\ proc' = [proc EXCEPT ![p] = Put([@ EXCEPT !.ip = igetEntry(t, i), !.dp = None],
                                               <<u.dp>>, "create_found")]
       ELSE itable' = t /\ proc' = [proc EXCEPT ![p].pc = "create_alloc"]
    /\ UNCHANGED <<dinode, ents, lost>>

\* open(O_CREATE) accepts what is there unless it is a directory; the others do not.
CreateFound(p) ==
    LET u == proc[p]
        t == ilock(itable, u.ip, p) IN
    /\ u.pc = "create_found"
    /\ Unlocked(u.ip)
    /\ itable' = t
    /\ proc' = [proc EXCEPT ![p] =
          IF u.call.op = "create" /\ t[u.ip].type \in {"file", "device"}
          THEN Put(u, <<>>, "open_file")
          ELSE Put([u EXCEPT !.ip = None], <<u.ip>>, "user")]
    /\ UNCHANGED <<dinode, ents, lost>>


\* ialloc(): an inode that is free on disk, ...
CreateAlloc(p) ==
    LET u == proc[p]
        free == {i \in Inum : dinode[i].type = "free"} IN
    /\ u.pc = "create_alloc"
    /\ IF free = {}
       THEN /\ proc' = [proc EXCEPT ![p] = Put([@ EXCEPT !.dp = None], <<u.dp>>, "user")]
            /\ UNCHANGED dinode
       ELSE /\ dinode' = [dinode EXCEPT ![First(free)] = [type |-> NewType(u.call), nlink |-> 0]]
            /\ proc' = [proc EXCEPT ![p].pc = "create_iget", ![p].inum = First(free)]
    /\ UNCHANGED <<ents, itable, lost>>

\* ... and a reference to it.
CreateIget(p) ==
    /\ proc[p].pc = "create_iget"
    /\ itable' = iget(itable, proc[p].inum)
    /\ proc' = [proc EXCEPT ![p].pc = "create_init",
                            ![p].ip = igetEntry(itable, proc[p].inum)]
    /\ UNCHANGED <<dinode, ents, lost>>

\* The rest of create() is done with both inodes locked.
CreateInit(p) ==
    LET u == proc[p]
        isdir == u.call.op = "mkdir"
        i == u.inum
        d == itable[u.dp].inum
        t == SetLinks(ilock(itable, u.ip, p), u.ip, 1)
        dots == IF isdir THEN <<Dirent(".", i), Dirent("..", d)>> ELSE <<>> IN
    /\ u.pc = "create_init"
    /\ Unlocked(u.ip)
    /\ \/ LET t2 == IF isdir THEN SetLinks(t, u.dp, t[u.dp].nlink + 1) ELSE t IN
          /\ itable' = t2
          /\ dinode' = iupdate(iupdate(dinode, t2, u.ip), t2, u.dp)
          /\ ents' = [ents EXCEPT ![i] = dots, ![d] = Link(@, u.name, i)]
          /\ proc' = [proc EXCEPT ![p] = Put([@ EXCEPT !.dp = None], <<u.dp>>,
                 IF u.call.op = "create" THEN "open_file" ELSE "done")]
       \/ \E s \in {<<>>, dots} :
          /\ IF s = dots THEN MayFail(ents[d]) ELSE isdir
          /\ itable' = SetLinks(t, u.ip, 0)
          /\ dinode' = iupdate(dinode, SetLinks(t, u.ip, 0), u.ip)
          /\ ents' = [ents EXCEPT ![i] = s]
          /\ proc' = [proc EXCEPT ![p] = Put([@ EXCEPT !.ip = None, !.dp = None],
                                             <<u.ip, u.dp>>, "user")]
    /\ UNCHANGED lost

\* sys_mkdir() and sys_mknod() drop the new inode.
Done(p) ==
    /\ proc[p].pc = "done"
    /\ proc' = [proc EXCEPT ![p] = Put([@ EXCEPT !.ip = None], <<@.ip>>, "user")]
    /\ UNCHANGED <<dinode, ents, itable, lost>>

\* sys_open() of an existing name.
Open(p) ==
    LET u == proc[p]
        t == ilock(itable, u.ip, p) IN
    /\ u.pc = "open"
    /\ Unlocked(u.ip)
    /\ itable' = t
    /\ proc' = [proc EXCEPT ![p] =
          IF t[u.ip].type = "dir" /\ u.call.write THEN Put([u EXCEPT !.ip = None], <<u.ip>>, "user")
          ELSE Put(u, <<>>, "open_file")]
    /\ UNCHANGED <<dinode, ents, lost>>

\* The reference becomes the file's, unless the device is unknown, or there is no
\* file or descriptor.
OpenFile(p) ==
    LET u == proc[p] IN
    /\ u.pc = "open_file"
    /\ \/ /\ itable' = iunlock(itable, u.ip)
          /\ proc' = [proc EXCEPT ![p] = User(u.cwd, u.ip)]
       \/ /\ proc' = [proc EXCEPT ![p] = Put([u EXCEPT !.ip = None], <<u.ip>>, "user")]
          /\ UNCHANGED itable
    /\ UNCHANGED <<dinode, ents, lost>>

Chdir(p) ==
    LET u == proc[p]
        t == ilock(itable, u.ip, None) IN
    /\ u.pc = "chdir"
    /\ Unlocked(u.ip)
    /\ itable' = t
    /\ proc' = [proc EXCEPT ![p] =
          IF t[u.ip].type = "dir" THEN Put([u EXCEPT !.cwd = u.ip, !.ip = None], <<u.cwd>>, "user")
          ELSE Put([u EXCEPT !.ip = None], <<u.ip>>, "user")]
    /\ UNCHANGED <<dinode, ents, lost>>

\* Mutant: without ip->nlink++.
MutLinkIncNot(p) ==
    LET u == proc[p]
        t == ilock(itable, u.ip, None) IN
    /\ u.pc = "link"
    /\ Unlocked(u.ip)
    /\ itable' = t
    /\ proc' = [proc EXCEPT ![p] = IF t[u.ip].type = "dir" THEN Put([u EXCEPT !.ip = None], <<u.ip>>, "user")
                                   ELSE [u EXCEPT !.pc = "link_new"]]
    /\ UNCHANGED <<dinode, ents, lost>>

\* sys_link(): the count goes up before the new name is looked up.
LinkInc(p) ==
    LET u == proc[p]
        t == ilock(itable, u.ip, None)
        t2 == SetLinks(t, u.ip, t[u.ip].nlink + 1) IN
    /\ u.pc = "link"
    /\ Unlocked(u.ip)
    /\ IF t[u.ip].type = "dir"
       THEN /\ itable' = t
            /\ proc' = [proc EXCEPT ![p] = Put([u EXCEPT !.ip = None], <<u.ip>>, "user")]
            /\ UNCHANGED dinode
       ELSE /\ itable' = t2
            /\ dinode' = iupdate(dinode, t2, u.ip)
            /\ proc' = [proc EXCEPT ![p].pc = "link_new"]
    /\ UNCHANGED <<ents, lost>>

\* The inode stays in old during the second look up.
LinkNew(p) ==
    LET u == proc[p] IN
    /\ u.pc = "link_new"
    /\ NameFrom(p, [u EXCEPT !.old = u.ip, !.ip = None, !.parent = TRUE,
                             !.then = "link_dir", !.bad = "link_bad"], u.call.new)
    /\ UNCHANGED <<dinode, ents, lost>>

LinkDir(p) ==
    LET u == proc[p]
        t == ilock(itable, u.dp, p)
        d == itable[u.dp].inum
        i == dirlookup(d, u.name) IN
    /\ u.pc = "link_dir"
    /\ Unlocked(u.dp)
    /\ \/ /\ i # 0
          /\ itable' = iget(t, i)
          /\ proc' = [proc EXCEPT ![p] = Put([u EXCEPT !.dp = None],
                                             <<igetEntry(t, i), u.dp>>, "link_bad")]
          /\ UNCHANGED ents
       \/ /\ i = 0 /\ MayFail(ents[d])
          /\ itable' = t
          /\ proc' = [proc EXCEPT ![p] = Put([u EXCEPT !.dp = None], <<u.dp>>, "link_bad")]
          /\ UNCHANGED ents
       \/ /\ i = 0
          /\ itable' = t
          /\ ents' = [ents EXCEPT ![d] = Link(@, u.name, itable[u.old].inum)]
          /\ proc' = [proc EXCEPT ![p] = Put([u EXCEPT !.dp = None, !.old = None],
                                             <<u.dp, u.old>>, "user")]
    /\ UNCHANGED <<dinode, lost>>

LinkBad(p) ==
    LET u == proc[p]
        e == u.old
        t == ilock(itable, e, p)
        t2 == SetLinks(t, e, t[e].nlink - 1) IN
    /\ u.pc = "link_bad"
    /\ Unlocked(e)
    /\ itable' = t2
    /\ dinode' = iupdate(dinode, t2, e)
    /\ proc' = [proc EXCEPT ![p] = Put([u EXCEPT !.old = None], <<e>>, "user")]
    /\ UNCHANGED <<ents, lost>>

\* sys_unlink(): the parent is locked, then the inode, ...
Unlink(p) ==
    LET u == proc[p]
        t == ilock(itable, u.dp, p)
        i == dirlookup(itable[u.dp].inum, u.name) IN
    /\ u.pc = "unlink"
    /\ Unlocked(u.dp)
    /\ IF u.name \in {".", ".."} \/ i = 0
       THEN itable' = t /\ proc' = [proc EXCEPT ![p] = Put([u EXCEPT !.dp = None], <<u.dp>>, "user")]
       ELSE /\ itable' = iget(t, i)
            /\ proc' = [proc EXCEPT ![p].pc = "unlink_ip", ![p].ip = igetEntry(t, i)]
    /\ UNCHANGED <<dinode, ents, lost>>

\* ... the entry is cleared and the parent put, ...
UnlinkEntry(p) ==
    LET u == proc[p]
        t == ilock(itable, u.ip, p)
        d == itable[u.dp].inum
        i == itable[u.ip].inum
        t2 == IF t[u.ip].type = "dir" THEN SetLinks(t, u.dp, t[u.dp].nlink - 1) ELSE t IN
    /\ u.pc = "unlink_ip"
    /\ Unlocked(u.ip)
    /\ \/ /\ t[u.ip].type = "dir" /\ ~isdirempty(i)
          /\ itable' = t
          /\ proc' = [proc EXCEPT ![p] = Put([u EXCEPT !.ip = None, !.dp = None],
                                             <<u.ip, u.dp>>, "user")]
          /\ UNCHANGED <<dinode, ents>>
       \/ /\ t[u.ip].type = "dir" => isdirempty(i)
          /\ itable' = t2
          /\ dinode' = iupdate(dinode, t2, u.dp)
          /\ ents' = [ents EXCEPT ![d][First(Slots(d, u.name))] = Dirent("", 0)]
          /\ proc' = [proc EXCEPT ![p] = Put([u EXCEPT !.dp = None], <<u.dp>>, "unlink_drop")]
    /\ UNCHANGED lost

\* ... and the count of the inode, still locked, goes down.
UnlinkDrop(p) ==
    LET u == proc[p]
        t == SetLinks(itable, u.ip, itable[u.ip].nlink - 1) IN
    /\ u.pc = "unlink_drop"
    /\ itable' = t
    /\ dinode' = iupdate(dinode, t, u.ip)
    /\ proc' = [proc EXCEPT ![p] = Put([u EXCEPT !.ip = None], <<u.ip>>, "user")]
    /\ UNCHANGED <<ents, lost>>

-----------------------------------------------------------------------------
Quiet == \A p \in P : proc[p].pc = "user"

\* The machine stops and boots again.  What running calls have written is not
\* committed, so this is a crash in the last state without running calls.
Crash ==
    /\ Quiet
    /\ itable' = BootTable /\ proc' = BootProcs
    /\ lost' = lost \cup {i \in Inum : dinode[i].type # "free" /\ dinode[i].nlink = 0}
    /\ UNCHANGED <<dinode, ents>>

Step(p) ==
    \/ Iput(p) \/ Iunlock(p) \/ IputFree(p) \/ IputInvalid(p) \/ IputDrop(p)
    \/ Namex(p) \/ Create(p) \/ CreateFound(p) \/ CreateAlloc(p) \/ CreateIget(p)
    \/ CreateInit(p) \/ Done(p) \/ Open(p) \/ OpenFile(p) \/ Chdir(p)
    \/ LinkInc(p) \/ LinkNew(p) \/ LinkDir(p) \/ LinkBad(p)
    \/ Unlink(p) \/ UnlinkEntry(p) \/ UnlinkDrop(p)

Next == Crash \/ \E p \in P : Begin(p) \/ Close(p) \/ Step(p)

Spec == Init /\ [][Next]_vars

-----------------------------------------------------------------------------
(* Properties.                                                             *)

TypeOK ==
    /\ dinode \in [Inum -> [type : {"free", "dir", "file", "device"}, nlink : Nat]]
    /\ \A i \in Inum : \A k \in 1..Len(ents[i]) : ents[i][k].inum \in Inum \cup {0}
    /\ \A e \in Entries : /\ itable[e].inum \in Inum /\ itable[e].ref \in Nat
                          /\ itable[e].lock \in P \cup {None}
    /\ \A p \in P : proc[p].cwd \in Entries /\ proc[p].ofile \in Entries \cup {None}

\* The pointers to entry e that processes have.
Pointers(e) ==
    Cardinality({<<p, f>> \in P \X {"ip", "dp", "old", "cwd", "ofile"} : proc[p][f] = e})
    + Cardinality({<<p, k>> \in P \X (1..3) : k <= Len(proc[p].puts) /\ proc[p].puts[k] = e})

\* ref is the number of pointers to the entry (comment at fs.c:133), through every
\* early return of every call: no entry is recycled while it is used, none leaks.
RefsCounted == \A e \in Entries : itable[e].ref = Pointers(e)

\* An inode is in the table once, so that its lock excludes everybody; and the copy
\* in an entry that is valid and not locked is what is on disk.
TableAgrees ==
    \A e \in Entries : itable[e].ref > 0 =>
        /\ Cached(itable, itable[e].inum) = {e}
        /\ itable[e].valid /\ itable[e].lock = None =>
            /\ itable[e].type = dinode[itable[e].inum].type
            /\ itable[e].nlink = dinode[itable[e].inum].nlink

\* Whoever holds the lock of an inode has a reference of its own in hand, also in
\* iunlockput() and between the steps of iput(): so an iput() that finds the last
\* reference finds the inode unlocked, and may wait for it with itable.lock held
\* (comment at fs.c:344).
InHand(p) == {proc[p].ip, proc[p].dp, proc[p].old} \cup {proc[p].puts[k] : k \in 1..Len(proc[p].puts)}
LastReference ==
  /\ \A e \in Entries : ~Unlocked(e) => e \in InHand(itable[e].lock)
  /\ \A p \in P : proc[p].pc = "put" =>
        LET e == itable[Head(proc[p].puts)] IN
        e.lock # p /\ e.ref = 1 /\ e.valid /\ e.nlink = 0 => e.lock = None

\* A directory that has a name never has an entry for a free inode, not even while
\* inodes are made and removed.  No ilock() finds an inode without a type, and no
\* sys_unlink() one without links, which is a panic in both.
Named(i) == i = ROOTINO \/ \E d \in Inum : \E k \in 3..Len(ents[d]) : ents[d][k].inum = i

\* When no call is running, so after every crash too, nlink is the number of names
\* of an inode, and for a directory also of its subdirectories, whose ".." name it.
\* The exception is an inode whose directory was removed by one process while
\* another was adding the name to it: create() and dirlink() do not look whether the
\* directory still has a name.
Names(i) == {<<d, k>> \in Inum \X (3..4) : k <= Len(ents[d]) /\ ents[d][k].inum = i}
Subdirs(i) == {d \in Inum \ {i} : Len(ents[d]) >= 2 /\ ents[d][2].inum = i /\ dinode[d].nlink > 0}
LinksCounted ==
    Quiet => \A i \in Inum \ lost : dinode[i].type # "free" =>
        dinode[i].nlink = Cardinality(Names(i)) + Cardinality(Subdirs(i))
                          + (IF i = ROOTINO THEN 1 ELSE 0)

\* When no call is running, an inode without links is free on disk, unless some
\* process still uses it, or did at a crash.
NoLeak ==
    Quiet => \A i \in Inum \ lost :
        dinode[i].type # "free" /\ dinode[i].nlink = 0 => Cached(itable, i) # {}

\* The inode table says who uses which inode: ref counts the pointers that processes
\* have, an inode has one entry, and an entry nobody has locked agrees with the disk.
InodesAgree == TypeOK /\ RefsCounted /\ TableAgrees

=============================================================================
