----------------------------- MODULE LogProofs ------------------------------
(***************************************************************************)
(* For any number of processes, blocks, buffers and crashes: a commit has  *)
(* the log for itself, and nobody sleeps in begin_op() without a call or a *)
(* commit in progress that will wake it up.                                *)
(***************************************************************************)
EXTENDS Log, FiniteSetTheorems, TLAPS

-----------------------------------------------------------------------------
(* Steps of one thread.                                                    *)

\* Only t's thread moves, and stays a record of the same shape.
Moved(t) ==
    /\ thr' = [u \in T |-> ThreadOf(thr'[u])]
    /\ \A u \in T : u # t => thr'[u] = thr[u]

\* A thread that is given a new record.
LEMMA SetThread ==
    ASSUME LogInv, NEW t \in T, NEW u, u = ThreadOf(u), thr' = [thr EXCEPT ![t] = u]
    PROVE  Moved(t) /\ thr'[t] = u
<1>1. /\ DOMAIN thr = T /\ thr = [v \in T |-> thr[v]]
      /\ \A v \in T : thr[v] = ThreadOf(thr[v])
   BY DEF LogInv, ThreadInv
<1>2. /\ thr' = [v \in T |-> thr'[v]] /\ thr'[t] = u
      /\ \A v \in T : v # t => thr'[v] = thr[v]
   BY <1>1
<1>3. \A v \in T : thr'[v] = ThreadOf(thr'[v])
   BY <1>1, <1>2
<1> QED BY <1>2, <1>3 DEF Moved

\* The set of active calls is finite.
LEMMA ActiveFinite ==
    /\ IsFiniteSet(Active) /\ Cardinality(Active) \in Nat
    /\ IsFiniteSet(Active') /\ Cardinality(Active') \in Nat
BY FS_Subset, FS_CardinalityType, LogAssumption DEF Active

\* What t does to the log by moving to the record u: nothing but to change the header in
\* memory, which it may while its call is active, in the recovery, or to empty it.
Move(t, u) ==
    /\ Moved(t) /\ thr[t].pc # "off" /\ thr'[t] = u /\ u.recovering = thr[t].recovering
    /\ log' = [outstanding |-> log.outstanding, committing |-> log.committing, lh |-> log'.lh]
    /\ Pos(u) \notin CachePcs /\ u.ret # "begin_sleep"
    /\ Pos(u) \in ActivePcs => Where(t) \in ActivePcs
    /\ Pos(u) \in CommitPcs => Where(t) \in CommitPcs
    /\ IF u.recovering THEN Pos(u) \in RecoverPcs
                       ELSE Pos(u) \notin {"recover", "read_head", "recovered"}
    /\ Pos(u) \in {"commit_done", "recovered"} => log'.lh = <<>>
    /\ log'.lh = log.lh \/ log'.lh = <<>> \/ Where(t) \in ActivePcs \/ thr[t].recovering
    /\ u.pc = "begin_sleep" => log.outstanding > 0 \/ log.committing

\* An active call is counted, so that there is no commit and no recovery.
LEMMA ActiveCounted ==
    ASSUME LogInv, NEW t \in T, Where(t) \in ActivePcs
    PROVE  /\ log.outstanding >= 1 /\ ~log.committing
           /\ \A u \in T : ~thr[u].recovering /\ Where(u) \notin CommitPcs
<1>1. t \in Active /\ Active # {}
   BY DEF Active
<1>2. Cardinality(Active) # 0
   BY <1>1, ActiveFinite, FS_EmptySet
<1>3. log.outstanding >= 1
   BY <1>2, ActiveFinite DEF LogInv, ThreadInv
<1> QED BY <1>3 DEF LogInv, ThreadInv

\* Such a move keeps the invariant.
LEMMA MoveKeeps ==
    ASSUME LogInv, NEW t \in T, NEW u, Move(t, u)
    PROVE  LogInv'
<1>1. \A v \in T : v # t => thr'[v] = thr[v] /\ Where(v)' = Where(v)
   BY DEF Move, Moved, Where
<1>2. Where(t)' = Pos(u) /\ thr'[t].pc = u.pc /\ thr'[t].recovering = thr[t].recovering
   BY DEF Move, Where
<1>3. log'.outstanding = log.outstanding /\ log'.committing = log.committing
   BY DEF Move
<1>4. Active' \subseteq Active
   BY <1>1, <1>2 DEF Move, Active
<1>5. Cardinality(Active') <= log'.outstanding
   BY <1>3, <1>4, ActiveFinite, FS_Subset DEF LogInv, ThreadInv
<1>6. log'.lh = log.lh \/ log'.lh = <<>> \/ thr[t].recovering
         \/ (log.outstanding >= 1 /\ ~log.committing
              /\ \A v \in T : ~thr[v].recovering /\ Where(v) \notin CommitPcs)
   BY ActiveCounted DEF Move
<1>7. \A v \in T : thr'[v].recovering = thr[v].recovering
   BY <1>1, <1>2
<1>8. Recovering' = Recovering
   BY <1>7 DEF Recovering
<1>9. \A v \in T : thr[v].recovering => v = t
   BY DEF LogInv, ThreadInv, Move
<1>10. ASSUME NEW v \in T
       PROVE  /\ thr'[v].recovering \in BOOLEAN
              /\ Where(v)' \notin CachePcs /\ thr'[v].ret # "begin_sleep"
   BY <1>1, <1>2, <1>7 DEF LogInv, ThreadInv, Move
<1>11. ASSUME NEW v \in T, thr'[v].recovering
       PROVE  /\ Where(v)' \in RecoverPcs
              /\ log'.outstanding = 0 /\ ~log'.committing
              /\ \A w \in T : w # v => thr'[w].pc = "off"
  <2>1. v = t /\ thr[t].recovering /\ u.recovering
     BY <1>7, <1>9, <1>11 DEF Move
  <2>2. Where(v)' \in RecoverPcs
     BY <2>1, <1>2 DEF Move
  <2> QED BY <2>1, <2>2, <1>1, <1>3 DEF LogInv, ThreadInv
<1>12. ASSUME NEW v \in T, ~thr'[v].recovering
       PROVE  Where(v)' \notin {"recover", "read_head", "recovered"}
  <2>1. CASE v = t
     BY <2>1, <1>2, <1>12 DEF Move
  <2>2. CASE v # t
     BY <2>2, <1>1, <1>12 DEF LogInv, ThreadInv
  <2> QED BY <2>1, <2>2
<1>13. \A v \in T : Where(v)' \in CommitPcs => Where(v) \in CommitPcs
   BY <1>1, <1>2 DEF Move
<1>14. ASSUME NEW v \in T, Where(v)' \in CommitPcs
       PROVE  /\ thr'[v].recovering \/ log'.committing
              /\ \A w \in T : Where(w)' \in CommitPcs => w = v
   BY <1>3, <1>7, <1>13, <1>14 DEF LogInv, ThreadInv
<1>15. ASSUME NEW v \in T, Where(v)' \in {"commit_done", "recovered"}
       PROVE  log'.lh = <<>>
  <2>1. CASE v = t
     BY <2>1, <1>2, <1>15 DEF Move
  <2>2. CASE v # t
    <3>1. Where(v) \in {"commit_done", "recovered"} /\ Where(v) \in CommitPcs
       BY <2>2, <1>1, <1>15 DEF CommitPcs
    <3>2. log.lh = <<>>
       BY <3>1 DEF LogInv, ThreadInv
    <3>3. ~thr[t].recovering
       BY <2>2, <3>1 DEF LogInv, ThreadInv, Where, Pos, CachePcs
    <3> QED BY <3>1, <3>2, <3>3, <1>6
  <2> QED BY <2>1, <2>2
<1>16. ~Recovering' /\ ~log'.committing /\ log'.outstanding = 0 => log'.lh = <<>>
   BY <1>3, <1>6, <1>8 DEF LogInv, ThreadInv, Recovering
<1>17. SleeperHasWaker'
  <2>1. ASSUME NEW v \in T, thr'[v].pc = "begin_sleep"
        PROVE  log.outstanding > 0 \/ log.committing
     BY <2>1, <1>1, <1>2 DEF LogInv, ThreadInv, SleeperHasWaker, Move
  <2> QED BY <2>1, <1>3 DEF SleeperHasWaker
<1>18. /\ log' = [outstanding |-> log'.outstanding, committing |-> log'.committing,
                  lh |-> log'.lh]
       /\ log'.outstanding \in Nat /\ log'.committing \in BOOLEAN
       /\ log'.committing => log'.outstanding = 0
   BY <1>3 DEF LogInv, ThreadInv, Move
<1>19. thr' = [v \in T |-> ThreadOf(thr'[v])]
   BY DEF Move, Moved
<1>20. \A v \in T : ThreadInv(v)'
   BY <1>10, <1>11, <1>12, <1>14, <1>15 DEF ThreadInv
<1> QED BY <1>5, <1>16, <1>17, <1>18, <1>19, <1>20 DEF LogInv

-----------------------------------------------------------------------------
(* The steps of a process that count no call and end no commit.            *)

\* t goes to p, and returns to r if p is inside bread() or brelse().
Step(t, p, r) ==
    /\ Moved(t) /\ thr'[t].pc = p /\ thr'[t].ret = r
    /\ thr'[t].recovering = thr[t].recovering

\* Goto(), bread() and brelse() are such steps.
LEMMA GotoStep ==
    ASSUME LogInv, NEW t \in T, NEW l, Goto(t, l)
    PROVE  Step(t, l, thr[t].ret)
<1> DEFINE u == [thr[t] EXCEPT !.pc = l]
<1>1. thr[t] = ThreadOf(thr[t]) /\ thr = [v \in T |-> thr[v]]
   BY DEF LogInv, ThreadInv
<1>2. u = ThreadOf(u) /\ u.pc = l /\ u.ret = thr[t].ret /\ u.recovering = thr[t].recovering
   BY <1>1 DEF ThreadOf
<1>3. thr' = [thr EXCEPT ![t] = u]
   BY <1>1 DEF Goto
<1> HIDE DEF u
<1> QED BY <1>2, <1>3, SetThread, Zenon DEF Step

\* The same for a record that replaces the one of t.
LEMMA RecordStep ==
    ASSUME LogInv, NEW t \in T, NEW p, NEW b, NEW r, NEW k, NEW w,
           thr' = [thr EXCEPT ![t] = [pc |-> p, blk |-> b, ret |-> r, tail |-> k,
                                      wrote |-> w, recovering |-> thr[t].recovering]]
    PROVE  Step(t, p, r)
<1> DEFINE u == [pc |-> p, blk |-> b, ret |-> r, tail |-> k, wrote |-> w,
                 recovering |-> thr[t].recovering]
<1>1. u = ThreadOf(u) /\ u.pc = p /\ u.ret = r /\ u.recovering = thr[t].recovering
   BY DEF ThreadOf
<1>2. thr' = [thr EXCEPT ![t] = u]
   OBVIOUS
<1> HIDE DEF u
<1> QED BY <1>1, <1>2, SetThread, Zenon DEF Step

\* The records that bread() and brelse() make and leave.
LEMMA AtStep ==
    ASSUME LogInv, NEW t \in T, NEW p, NEW b, NEW r, thr' = [thr EXCEPT ![t] = At(thr[t], p, b, r)]
    PROVE  Step(t, p, r)
BY RecordStep, Zenon DEF At

\* The same where the step also notes a written block, as log_write() does.
LEMMA WroteStep ==
    ASSUME LogInv, NEW t \in T, NEW b, NEW l, NEW w,
           thr' = [thr EXCEPT ![t] = [Release(thr[t], b, l) EXCEPT !.wrote = w]]
    PROVE  Step(t, "brelse", l)
<1> DEFINE u == [Release(thr[t], b, l) EXCEPT !.wrote = w]
<1>1. u = [pc |-> "brelse", blk |-> b, ret |-> l, tail |-> thr[t].tail, wrote |-> w,
           recovering |-> thr[t].recovering]
   BY DEF Release, At
<1>2. u = ThreadOf(u) /\ u.pc = "brelse" /\ u.ret = l /\ u.recovering = thr[t].recovering
   BY <1>1 DEF ThreadOf
<1>3. thr' = [thr EXCEPT ![t] = u]
   OBVIOUS
<1> HIDE DEF u
<1> QED BY <1>2, <1>3, SetThread, Zenon DEF Step

\* The same where it goes on in a loop.
LEMMA TailStep ==
    ASSUME LogInv, NEW t \in T, NEW b, NEW l, NEW k,
           thr' = [thr EXCEPT ![t] = [Release(thr[t], b, l) EXCEPT !.tail = k]]
    PROVE  Step(t, "brelse", l)
<1> DEFINE u == [Release(thr[t], b, l) EXCEPT !.tail = k]
<1>1. u = [pc |-> "brelse", blk |-> b, ret |-> l, tail |-> k, wrote |-> thr[t].wrote,
           recovering |-> thr[t].recovering]
   BY DEF Release, At
<1>2. u = ThreadOf(u) /\ u.pc = "brelse" /\ u.ret = l /\ u.recovering = thr[t].recovering
   BY <1>1 DEF ThreadOf
<1>3. thr' = [thr EXCEPT ![t] = u]
   OBVIOUS
<1> HIDE DEF u
<1> QED BY <1>2, <1>3, SetThread, Zenon DEF Step

\* Where t may go in log.c.
Allowed(t, q) ==
    /\ q \notin CachePcs
    /\ q \in ActivePcs => Where(t) \in ActivePcs
    /\ q \in CommitPcs => Where(t) \in CommitPcs
    /\ IF thr[t].recovering THEN q \in RecoverPcs
                            ELSE q \notin {"recover", "read_head", "recovered"}
    /\ q \in {"commit_done", "recovered"} => log'.lh = <<>>

\* A step to an allowed place keeps the invariant.
LEMMA StepKeeps ==
    ASSUME LogInv, NEW t \in T, NEW p, NEW r, Step(t, p, r), thr[t].pc # "off",
           r # "begin_sleep",
           p = "begin_sleep" => log.outstanding > 0 \/ log.committing,
           Allowed(t, IF p \in CachePcs THEN r ELSE p),
           log' = [outstanding |-> log.outstanding, committing |-> log.committing,
                   lh |-> log'.lh],
           log'.lh = log.lh \/ log'.lh = <<>> \/ Where(t) \in ActivePcs \/ thr[t].recovering
    PROVE  LogInv'
<1>1. Pos(thr'[t]) = IF p \in CachePcs THEN r ELSE p
   BY DEF Pos, Step
<1>2. Move(t, thr'[t])
   BY <1>1 DEF Move, Step, Allowed
<1> QED BY <1>2, MoveKeeps

\* A step that leaves the log alone and does not go to sleep.
LEMMA QuietKeeps ==
    ASSUME LogInv, NEW t \in T, NEW p, NEW r, Step(t, p, r), thr[t].pc # "off",
           r # "begin_sleep", p # "begin_sleep",
           Allowed(t, IF p \in CachePcs THEN r ELSE p), log' = log
    PROVE  LogInv'
<1>1. log' = [outstanding |-> log.outstanding, committing |-> log.committing,
              lh |-> log'.lh]
   BY DEF LogInv, ThreadInv
<1> QED BY <1>1, StepKeeps

\* bget(), acquiresleep() and brelse() keep it.
LEMMA CacheKeeps ==
    ASSUME LogInv, NEW t \in T, CacheStep(t)
    PROVE  LogInv'
<1>1. /\ thr[t] = ThreadOf(thr[t]) /\ thr = [v \in T |-> thr[v]]
      /\ thr[t].ret # "begin_sleep" /\ thr[t].pc # "off"
   BY DEF LogInv, ThreadInv, CacheStep, Bget, BufLock, Brelse
<1>2. thr[t].pc \in CachePcs /\ Where(t) = thr[t].ret /\ log' = log
   BY DEF CacheStep, Bget, BufLock, Brelse, CachePcs, Where, Pos
<1>3. Allowed(t, thr[t].ret) /\ Allowed(t, "panic")
   BY <1>2 DEF LogInv, ThreadInv, Allowed, CachePcs, ActivePcs, CommitPcs, RecoverPcs
<1>4. CASE Bget(t)
  <2>1. Step(t, "panic", thr[t].ret) \/ Step(t, "block", thr[t].ret)
     BY <1>4, GotoStep DEF Bget
  <2> QED BY <2>1, <1>1, <1>2, <1>3, QuietKeeps DEF CachePcs
<1>5. CASE BufLock(t)
  <2>1. thr' = [thr EXCEPT ![t] = At(thr[t], thr[t].ret, thr[t].blk, "none")]
     BY <1>5 DEF BufLock
  <2>2. Step(t, thr[t].ret, "none")
     BY <2>1, AtStep, Zenon
  <2> QED BY <2>2, <1>1, <1>2, <1>3, QuietKeeps DEF Allowed
<1>6. CASE Brelse(t)
  <2>1. thr' = [thr EXCEPT ![t] = At(thr[t], thr[t].ret, NoBlock, "none")]
     BY <1>6 DEF Brelse
  <2>2. Step(t, thr[t].ret, "none")
     BY <2>1, AtStep, Zenon
  <2> QED BY <2>2, <1>1, <1>2, <1>3, QuietKeeps DEF Allowed
<1> QED BY <1>4, <1>5, <1>6 DEF CacheStep

\* Which places are next in a call and in commit().
LEMMA Places ==
    ASSUME LogInv, NEW t \in T, thr[t].pc \notin CachePcs
    PROVE  /\ Where(t) = thr[t].pc /\ thr[t].ret # "begin_sleep"
           /\ thr[t].recovering \in BOOLEAN
           /\ thr[t].recovering => thr[t].pc \in RecoverPcs
           /\ thr[t].pc \in {"recover", "read_head", "recovered"} => thr[t].recovering
           /\ thr[t].pc \in {"commit_done", "recovered"} => log.lh = <<>>
BY DEF LogInv, ThreadInv, Where, Pos

\* read(), and the calls between begin_op() and end_op(), keep it.
LEMMA CallKeeps ==
    ASSUME LogInv, NEW t \in T, CallStep(t), ~EndOp(t), log'.outstanding = log.outstanding
    PROVE  LogInv'
<1>1. /\ thr[t].pc \in {"idle", "begin", "read", "op", "modify", "log_write"}
      /\ thr[t].pc \notin CachePcs /\ thr[t].pc # "off"
   BY DEF CallStep, Read, ReadDone, BeginOp, OpBread, Modify, LogWrite, CachePcs
<1>2. Where(t) = thr[t].pc /\ thr[t].ret # "begin_sleep" /\ ~thr[t].recovering
   BY <1>1, Places DEF RecoverPcs
<1>3. \A q \in {"idle", "read", "begin_sleep", "panic"} : Allowed(t, q)
   BY <1>2 DEF Allowed, CachePcs, ActivePcs, CommitPcs
<1>4. Where(t) \in ActivePcs => \A q \in ActivePcs : Allowed(t, q)
   BY <1>2 DEF Allowed, CachePcs, ActivePcs, CommitPcs
<1>5. CASE Read(t)
  <2>1. PICK b \in Data : thr' = [thr EXCEPT ![t] = At(thr[t], "bget", b, "read")]
     BY <1>5, Zenon DEF Read, Bread
  <2>2. Step(t, "bget", "read") /\ log' = log
     BY <1>5, <2>1, AtStep, Zenon DEF Read
  <2> QED BY <2>2, <1>1, <1>3, QuietKeeps DEF CachePcs
<1>6. CASE ReadDone(t)
  <2>1. thr' = [thr EXCEPT ![t] = At(thr[t], "brelse", thr[t].blk, "idle")] /\ log' = log
     BY <1>6 DEF ReadDone, Release
  <2>2. Step(t, "brelse", "idle")
     BY <2>1, AtStep, Zenon
  <2> QED BY <2>1, <2>2, <1>1, <1>3, QuietKeeps DEF CachePcs
<1>7. CASE BeginOp(t)
  <2>1. log.outstanding + 1 # log.outstanding
     BY DEF LogInv, ThreadInv
  <2>2. /\ log.committing \/ Len(log.lh) + (log.outstanding + 1) * MAXOPBLOCKS > LOGSIZE
        /\ Goto(t, "begin_sleep") /\ log' = log
     BY <1>7, <2>1 DEF BeginOp, LogInv, ThreadInv
  <2>3. Step(t, "begin_sleep", thr[t].ret)
     BY <2>2, GotoStep
  <2>4. ~Recovering
     BY <1>1, <1>2 DEF LogInv, ThreadInv, Recovering
  <2>5. log.outstanding > 0 \/ log.committing
    <3> SUFFICES ASSUME log.outstanding = 0, ~log.committing
                 PROVE  FALSE
       BY DEF LogInv, ThreadInv
    <3>1. log.lh = <<>>
       BY <2>4 DEF LogInv, ThreadInv
    <3>2. Len(log.lh) = 0
       BY <3>1
    <3>3. (log.outstanding + 1) * MAXOPBLOCKS = MAXOPBLOCKS
       BY LogAssumption
    <3> QED BY <2>2, <3>2, <3>3, LogAssumption
  <2>6. log' = [outstanding |-> log.outstanding, committing |-> log.committing, lh |-> log'.lh]
     BY <2>2 DEF LogInv, ThreadInv
  <2> QED BY <2>2, <2>3, <2>5, <2>6, <1>1, <1>2, <1>3, StepKeeps DEF CachePcs
<1>8. CASE OpBread(t)
  <2>1. PICK b \in Data : thr' = [thr EXCEPT ![t] = At(thr[t], "bget", b, "modify")]
     BY <1>8, Zenon DEF OpBread, Bread
  <2>2. Step(t, "bget", "modify") /\ log' = log /\ Where(t) \in ActivePcs
     BY <1>2, <1>8, <2>1, AtStep, Zenon DEF OpBread, ActivePcs
  <2>3. Allowed(t, "modify")
     BY <2>2, <1>4 DEF ActivePcs
  <2> QED BY <2>2, <2>3, <1>1, QuietKeeps DEF CachePcs
<1>9. CASE Modify(t)
  <2>1. Step(t, "log_write", thr[t].ret) /\ log' = log /\ Where(t) \in ActivePcs
     BY <1>2, <1>9, GotoStep DEF Modify, ActivePcs
  <2>2. Allowed(t, "log_write")
     BY <2>1, <1>4 DEF ActivePcs
  <2> QED BY <2>1, <2>2, <1>1, <1>2, QuietKeeps DEF CachePcs
<1>10. CASE LogWrite(t)
  <2>1. Where(t) \in ActivePcs
     BY <1>2, <1>10 DEF LogWrite, ActivePcs
  <2>2. Allowed(t, "op")
     BY <2>1, <1>4 DEF ActivePcs
  <2>3. log' = [outstanding |-> log.outstanding, committing |-> log.committing, lh |-> log'.lh]
     BY <1>10 DEF LogWrite, LogInv, ThreadInv
  <2>4. CASE Goto(t, "panic")
    <3>1. Step(t, "panic", thr[t].ret)
       BY <2>4, GotoStep
    <3> QED BY <3>1, <2>1, <2>3, <1>1, <1>2, <1>3, StepKeeps DEF CachePcs
  <2>5. CASE thr' = [thr EXCEPT ![t] = [Release(thr[t], thr[t].blk, "op")
                                          EXCEPT !.wrote = thr[t].wrote \cup {thr[t].blk}]]
    <3>1. Step(t, "brelse", "op")
       BY <2>5, WroteStep, Zenon
    <3> QED BY <3>1, <2>1, <2>2, <2>3, <1>1, StepKeeps DEF CachePcs
  <2> QED BY <2>4, <2>5, <1>10 DEF LogWrite
<1> QED BY <1>5, <1>6, <1>7, <1>8, <1>9, <1>10 DEF CallStep

\* The steps of commit() and of the recovery keep it, until their last one.
LEMMA CommitKeeps ==
    ASSUME LogInv, NEW t \in T, CommitStep(t), ~CommitDone(t), ~Recovered(t)
    PROVE  LogInv'
<1>1. /\ thr[t].pc \in CommitPcs \ {"commit_done", "recovered"}
      /\ thr[t].pc \notin CachePcs /\ thr[t].pc # "off"
   BY DEF CommitStep, Commit, WriteLog, WriteLogFrom, WriteLogCopy, WriteLogRelease, WriteHead,
          Install, InstallDst, InstallCopy, InstallRelease, Recover, ReadHead, CommitPcs, CachePcs
<1>2. /\ Where(t) = thr[t].pc /\ thr[t].ret # "begin_sleep" /\ thr[t].recovering \in BOOLEAN
      /\ thr[t].recovering => thr[t].pc \in RecoverPcs
      /\ thr[t].pc \in {"recover", "read_head"} => thr[t].recovering
   BY <1>1, Places
<1>3. \A q \in {"install", "install_dst", "install_copy", "install_release", "write_head"} :
        Allowed(t, q)
   BY <1>1, <1>2 DEF Allowed, CachePcs, ActivePcs, CommitPcs, RecoverPcs
<1>4. ~thr[t].recovering =>
        \A q \in {"write_log", "write_log_from", "write_log_copy", "write_log_release"} :
            Allowed(t, q)
   BY <1>1, <1>2 DEF Allowed, CachePcs, ActivePcs, CommitPcs
<1>5. thr[t].pc \in {"commit", "write_log", "write_log_from", "write_log_copy",
                     "write_log_release"} => ~thr[t].recovering
   BY <1>2 DEF RecoverPcs
<1>6. ASSUME NEW b, NEW l, l \in CommitPcs, Allowed(t, l), log' = log,
             \/ thr' = [thr EXCEPT ![t] = Bread(thr[t], b, l)]
             \/ thr' = [thr EXCEPT ![t] = Release(thr[t], b, l)]
      PROVE  LogInv'
  <2>1. Step(t, "bget", l) \/ Step(t, "brelse", l)
     BY <1>6, AtStep DEF Bread, Release
  <2>2. l # "begin_sleep"
     BY <1>6 DEF CommitPcs
  <2> QED BY <2>1, <2>2, <1>1, <1>6, QuietKeeps DEF CachePcs
<1>7. ASSUME NEW b, NEW l, NEW k, l \in CommitPcs, Allowed(t, l), log' = log,
             thr' = [thr EXCEPT ![t] = [Release(thr[t], b, l) EXCEPT !.tail = k]]
      PROVE  LogInv'
  <2>1. Step(t, "brelse", l)
     BY <1>7, TailStep, Zenon
  <2>2. l # "begin_sleep"
     BY <1>7 DEF CommitPcs
  <2> QED BY <2>1, <2>2, <1>1, <1>7, QuietKeeps DEF CachePcs
<1>8. CASE Commit(t)
  <2> DEFINE l == IF log.lh = <<>> THEN "commit_done" ELSE "write_log"
  <2>1. Step(t, l, thr[t].ret) /\ log' = log
     BY <1>8, GotoStep DEF Commit
  <2>2. Allowed(t, l) /\ l \notin CachePcs /\ l # "begin_sleep"
    <3>1. ~thr[t].recovering /\ thr[t].pc = "commit"
       BY <1>5, <1>8 DEF Commit
    <3> QED BY <2>1, <3>1, <1>1, <1>2 DEF Allowed, CachePcs, ActivePcs, CommitPcs
  <2> HIDE DEF l
  <2> QED BY <2>1, <2>2, <1>1, <1>2, QuietKeeps
<1>9. CASE WriteLog(t)
  <2>1. Allowed(t, "write_log_from") /\ Allowed(t, "write_head") /\ log' = log
     BY <1>3, <1>4, <1>5, <1>9 DEF WriteLog
  <2>2. \/ thr' = [thr EXCEPT ![t] = Bread(thr[t], thr[t].tail + 1, "write_log_from")]
        \/ thr' = [thr EXCEPT ![t] = Bread(thr[t], Header, "write_head")]
     BY <1>9, Zenon DEF WriteLog
  <2> QED BY <2>1, <2>2, <1>6 DEF CommitPcs
<1>10. CASE WriteLogFrom(t)
  <2>1. Allowed(t, "write_log_copy") /\ log' = log
     BY <1>4, <1>5, <1>10 DEF WriteLogFrom
  <2>2. thr' = [thr EXCEPT ![t] = Bread(thr[t], log.lh[thr[t].tail + 1], "write_log_copy")]
     BY <1>10 DEF WriteLogFrom
  <2> QED BY <2>1, <2>2, <1>6, Zenon DEF CommitPcs
<1>11. CASE WriteLogCopy(t)
  <2>1. Allowed(t, "write_log_release") /\ log' = log
     BY <1>4, <1>5, <1>11 DEF WriteLogCopy
  <2>2. thr' = [thr EXCEPT ![t] = Release(thr[t], thr[t].blk, "write_log_release")]
     BY <1>11 DEF WriteLogCopy
  <2> QED BY <2>1, <2>2, <1>6, Zenon DEF CommitPcs
<1>12. CASE WriteLogRelease(t)
  <2>1. Allowed(t, "write_log") /\ log' = log
     BY <1>4, <1>5, <1>12 DEF WriteLogRelease
  <2>2. thr' = [thr EXCEPT ![t] = [Release(thr[t], thr[t].tail + 1, "write_log")
                                     EXCEPT !.tail = thr[t].tail + 1]]
     BY <1>12 DEF WriteLogRelease
  <2> DEFINE k == thr[t].tail + 1
  <2>3. thr' = [thr EXCEPT ![t] = [Release(thr[t], k, "write_log") EXCEPT !.tail = k]]
     BY <2>2
  <2>4. "write_log" \in CommitPcs
     BY DEF CommitPcs
  <2> HIDE DEF k
  <2> QED BY <2>1, <2>3, <2>4, <1>7, Zenon
<1>13. CASE WriteHead(t)
  <2> DEFINE l == IF log.lh # <<>> THEN "install"
                  ELSE IF thr[t].recovering THEN "recovered" ELSE "commit_done"
  <2>1. log' = log
     BY <1>13 DEF WriteHead
  <2>2. Allowed(t, l) /\ l \in CommitPcs
     BY <2>1, <1>1, <1>2 DEF Allowed, CachePcs, ActivePcs, CommitPcs, RecoverPcs
  <2>3. thr' = [thr EXCEPT ![t] = [Release(thr[t], Header, l) EXCEPT !.tail = 0]]
     BY <1>13 DEF WriteHead
  <2> HIDE DEF l
  <2> QED BY <2>1, <2>2, <2>3, <1>7, Zenon
<1>14. CASE Install(t)
  <2>1. CASE /\ thr' = [thr EXCEPT ![t] = Bread(thr[t], thr[t].tail + 1, "install_dst")]
             /\ log' = log
     BY <2>1, <1>3, <1>6, Zenon DEF CommitPcs
  <2>2. CASE /\ thr' = [thr EXCEPT ![t] = Bread(thr[t], Header, "write_head")]
             /\ log' = [log EXCEPT !.lh = <<>>]
    <3>1. Step(t, "bget", "write_head")
       BY <2>2, AtStep, Zenon DEF Bread
    <3>2. /\ log' = [outstanding |-> log.outstanding, committing |-> log.committing,
                     lh |-> log'.lh]
          /\ log'.lh = <<>>
       BY <2>2 DEF LogInv, ThreadInv
    <3> QED BY <3>1, <3>2, <1>1, <1>3, StepKeeps DEF CachePcs
  <2> QED BY <1>14, <2>1, <2>2 DEF Install
<1>15. CASE InstallDst(t)
  <2>1. thr' = [thr EXCEPT ![t] = Bread(thr[t], log.lh[thr[t].tail + 1], "install_copy")]
        /\ log' = log
     BY <1>15 DEF InstallDst
  <2> QED BY <2>1, <1>3, <1>6, Zenon DEF CommitPcs
<1>16. CASE InstallCopy(t)
  <2>1. thr' = [thr EXCEPT ![t] = Release(thr[t], thr[t].tail + 1, "install_release")]
        /\ log' = log
     BY <1>16 DEF InstallCopy
  <2> QED BY <2>1, <1>3, <1>6, Zenon DEF CommitPcs
<1>17. CASE InstallRelease(t)
  <2>1. thr' = [thr EXCEPT ![t] = [Release(thr[t], log.lh[thr[t].tail + 1], "install")
                                     EXCEPT !.tail = thr[t].tail + 1]]
        /\ log' = log
     BY <1>17 DEF InstallRelease
  <2> DEFINE k == thr[t].tail + 1
  <2> DEFINE b == log.lh[k]
  <2>2. thr' = [thr EXCEPT ![t] = [Release(thr[t], b, "install") EXCEPT !.tail = k]]
     BY <2>1
  <2>3. "install" \in CommitPcs /\ Allowed(t, "install")
     BY <1>3 DEF CommitPcs
  <2> HIDE DEF b, k
  <2> QED BY <2>1, <2>2, <2>3, <1>7, Zenon
<1>18. CASE Recover(t)
  <2>1. Allowed(t, "read_head") /\ log' = log
     BY <1>1, <1>2, <1>18 DEF Recover, Allowed, CachePcs, ActivePcs, CommitPcs, RecoverPcs
  <2>2. thr' = [thr EXCEPT ![t] = Bread(thr[t], Header, "read_head")]
     BY <1>18 DEF Recover
  <2> QED BY <2>1, <2>2, <1>6, Zenon DEF CommitPcs
<1>19. CASE ReadHead(t)
  <2>1. thr[t].recovering /\ thr' = [thr EXCEPT ![t] = Release(thr[t], Header, "install")]
     BY <1>2, <1>19 DEF ReadHead
  <2>2. Step(t, "brelse", "install")
     BY <2>1, AtStep, Zenon DEF Release
  <2>3. log' = [outstanding |-> log.outstanding, committing |-> log.committing, lh |-> log'.lh]
     BY <1>19 DEF ReadHead, LogInv, ThreadInv
  <2> QED BY <2>1, <2>2, <2>3, <1>1, <1>3, StepKeeps DEF CachePcs
<1> QED BY <1>8, <1>9, <1>10, <1>11, <1>12, <1>13, <1>14, <1>15, <1>16, <1>17, <1>18, <1>19
        DEF CommitStep

-----------------------------------------------------------------------------
(* The steps that change the count of calls, end a commit or boot.         *)

\* begin_op() counts the call that it lets in: no commit and no recovery is going on.
LEMMA BeginKeeps ==
    ASSUME LogInv, NEW t \in T, BeginOp(t), log'.outstanding # log.outstanding
    PROVE  LogInv'
<1>1. /\ thr[t].pc \in {"idle", "begin"} /\ ~log.committing
      /\ log' = [log EXCEPT !.outstanding = @ + 1]
      /\ thr' = [thr EXCEPT ![t] = Thread("op")]
   BY DEF BeginOp, LogInv, ThreadInv
<1>2. /\ log' = [outstanding |-> log.outstanding + 1, committing |-> FALSE, lh |-> log.lh]
      /\ log'.outstanding = log.outstanding + 1 /\ log'.committing = FALSE
      /\ log'.outstanding \in Nat /\ log'.outstanding > 0
  <2>1. PICK o, c, h : log = [outstanding |-> o, committing |-> c, lh |-> h]
     BY DEF LogInv, ThreadInv
  <2>2. o = log.outstanding /\ o \in Nat /\ c = FALSE /\ h = log.lh
     BY <1>1, <2>1 DEF LogInv, ThreadInv
  <2>3. log' = [outstanding |-> o + 1, committing |-> c, lh |-> h]
     BY <1>1, <2>1
  <2>4. log'.outstanding = o + 1 /\ log'.committing = c
     BY <2>3
  <2>5. o + 1 \in Nat /\ o + 1 > 0
     BY <2>2
  <2> QED BY <2>2, <2>3, <2>4, <2>5, Zenon
<1>3. Where(t) = thr[t].pc /\ ~thr[t].recovering
   BY <1>1, Places DEF CachePcs, RecoverPcs
<1>4. \A v \in T : ~thr[v].recovering /\ Where(v) \notin CommitPcs
   BY <1>1, <1>3 DEF LogInv, ThreadInv
<1>5. Moved(t) /\ thr'[t] = Thread("op")
  <2>1. Thread("op") = ThreadOf(Thread("op"))
     BY DEF Thread, ThreadOf
  <2> QED BY <1>1, <2>1, SetThread, Zenon
<1>6. /\ Where(t)' = "op" /\ thr'[t].recovering = FALSE /\ thr'[t].ret = "none"
      /\ thr'[t].pc = "op"
   BY <1>5 DEF Where, Pos, Thread, CachePcs
<1>7. \A v \in T : v # t => thr'[v] = thr[v] /\ Where(v)' = Where(v)
   BY <1>5 DEF Moved, Where
<1>8. Cardinality(Active') <= log'.outstanding
  <2>1. Active' = Active \cup {t} /\ t \notin Active
     BY <1>1, <1>3, <1>6, <1>7 DEF Active, ActivePcs
  <2>2. Cardinality(Active') = Cardinality(Active) + 1
     BY <2>1, ActiveFinite, FS_AddElement
  <2> QED BY <2>2, <1>2, ActiveFinite DEF LogInv, ThreadInv
<1>9. \A v \in T : /\ ~thr'[v].recovering /\ thr'[v].recovering \in BOOLEAN
                   /\ Where(v)' \notin CachePcs /\ thr'[v].ret # "begin_sleep"
                   /\ Where(v)' \notin CommitPcs
                   /\ Where(v)' \notin {"recover", "read_head", "recovered", "commit_done"}
   BY <1>4, <1>6, <1>7, Zenon DEF LogInv, ThreadInv, CachePcs, CommitPcs
<1>10. thr' = [v \in T |-> ThreadOf(thr'[v])]
   BY <1>5 DEF Moved
<1>11. SleeperHasWaker'
   BY <1>2 DEF SleeperHasWaker
<1>12. /\ log' = [outstanding |-> log'.outstanding, committing |-> log'.committing,
                  lh |-> log'.lh]
       /\ log'.committing \in BOOLEAN /\ log'.outstanding # 0
   BY <1>2
<1>13. \A v \in T : ThreadInv(v)'
   BY <1>9 DEF ThreadInv
<1> QED BY <1>2, <1>8, <1>10, <1>11, <1>12, <1>13 DEF LogInv

\* Nobody sleeps; who recovers, and where the others are, is as before.
Awake == \A v \in T : thr'[v].pc # "begin_sleep" /\ thr'[v].ret # "begin_sleep"
SameRecovery(t) ==
    /\ thr'[t].recovering = FALSE
    /\ \A v \in T : v # t => thr'[v].recovering = thr[v].recovering
SamePlaces(t) ==
    /\ Where(t)' = "idle"
    /\ \A v \in T : v # t => \/ Where(v)' = Where(v)
                             \/ Where(v)' = "begin" /\ Where(v) = "begin_sleep"

\* WakeLog() changes nothing but the place of those who sleep in begin_op().
LEMMA Woken ==
    ASSUME LogInv, NEW t \in T, thr' = WakeLog([thr EXCEPT ![t] = Thread("idle")])
    PROVE  /\ thr' = [v \in T |-> ThreadOf(thr'[v])]
           /\ Awake /\ SameRecovery(t) /\ SamePlaces(t)
<1>1. thr = [v \in T |-> thr[v]] /\ \A v \in T : thr[v] = ThreadOf(thr[v])
   BY DEF LogInv, ThreadInv
<1>2. thr'[t] = Thread("idle")
   BY <1>1 DEF WakeLog, Thread
<1>3. \A v \in T : v # t => thr'[v] = IF thr[v].pc = "begin_sleep"
                                      THEN [thr[v] EXCEPT !.pc = "begin"] ELSE thr[v]
   BY <1>1 DEF WakeLog
<1>4. thr' = [v \in T |-> thr'[v]]
   BY DEF WakeLog
<1>5. /\ thr'[t] = ThreadOf(thr'[t]) /\ Where(t)' = "idle" /\ thr'[t].recovering = FALSE
      /\ thr'[t].pc = "idle" /\ thr'[t].ret = "none"
  <2>1. thr'[t] = ThreadOf(thr'[t])
     BY <1>2, Zenon DEF Thread, ThreadOf
  <2>2. thr'[t].pc = "idle" /\ thr'[t].ret = "none" /\ thr'[t].recovering = FALSE
     BY <1>2 DEF Thread
  <2>3. Where(t)' = "idle"
     BY <2>2 DEF Where, Pos, CachePcs
  <2> QED BY <2>1, <2>2, <2>3
<1>6. ASSUME NEW v \in T, v # t
      PROVE  /\ thr'[v] = ThreadOf(thr'[v]) /\ thr'[v].pc # "begin_sleep"
             /\ thr'[v].recovering = thr[v].recovering /\ thr'[v].ret = thr[v].ret
             /\ \/ Where(v)' = Where(v)
                \/ Where(v)' = "begin" /\ Where(v) = "begin_sleep"
  <2>1. CASE thr[v].pc = "begin_sleep"
    <3>1. thr'[v] = [thr[v] EXCEPT !.pc = "begin"] /\ thr[v] = ThreadOf(thr[v])
       BY <1>1, <1>3, <1>6, <2>1
    <3>2. /\ thr'[v] = ThreadOf(thr'[v]) /\ thr'[v].pc = "begin"
          /\ thr'[v].recovering = thr[v].recovering /\ thr'[v].ret = thr[v].ret
       BY <3>1, Zenon DEF ThreadOf
    <3> QED BY <2>1, <3>2 DEF Where, Pos, CachePcs
  <2>2. CASE thr[v].pc # "begin_sleep"
     BY <1>1, <1>3, <1>6, <2>2, Zenon DEF Where
  <2> QED BY <2>1, <2>2
<1>7. thr' = [v \in T |-> ThreadOf(thr'[v])]
  <2>1. \A v \in T : thr'[v] = ThreadOf(thr'[v])
     BY <1>5, <1>6, Zenon
  <2> QED BY <2>1, <1>4, Zenon
<1>8. Awake
   BY <1>5, <1>6 DEF Awake, LogInv, ThreadInv
<1>9. SameRecovery(t)
   BY <1>5, <1>6, Zenon DEF SameRecovery
<1>10. SamePlaces(t)
   BY <1>5, <1>6 DEF SamePlaces
<1> QED BY <1>7, <1>8, <1>9, <1>10

\* end_op() drops its call; the last one out commits, the others wake the sleepers up.
LEMMA EndKeeps ==
    ASSUME LogInv, NEW t \in T, EndOp(t)
    PROVE  LogInv'
<1>1. thr[t].pc = "op" /\ Where(t) = "op" /\ Where(t) \in ActivePcs
   BY DEF EndOp, Where, Pos, CachePcs, ActivePcs
<1>2. /\ log.outstanding >= 1 /\ ~log.committing
      /\ \A v \in T : ~thr[v].recovering /\ Where(v) \notin CommitPcs
   BY <1>1, ActiveCounted
<1>3. PICK o, c, h : log = [outstanding |-> o, committing |-> c, lh |-> h]
   BY DEF LogInv, ThreadInv
<1>4. o = log.outstanding /\ o \in Nat /\ o >= 1 /\ c = FALSE /\ Cardinality(Active) <= o
   BY <1>2, <1>3 DEF LogInv, ThreadInv
<1>5. Cardinality(Active \ {t}) <= o - 1
  <2>1. t \in Active
     BY <1>1 DEF Active
  <2>2. Cardinality(Active \ {t}) = Cardinality(Active) - 1
     BY <2>1, ActiveFinite, FS_RemoveElement, Zenon
  <2> QED BY <2>2, <1>4, ActiveFinite
<1>6. CASE /\ log.outstanding = 1
           /\ log' = [log EXCEPT !.outstanding = 0, !.committing = TRUE]
           /\ thr' = [thr EXCEPT ![t] = Thread("commit")]
  <2>1. log' = [outstanding |-> 0, committing |-> TRUE, lh |-> h]
     BY <1>3, <1>6, Zenon
  <2>2. log'.outstanding = 0 /\ log'.committing = TRUE
     BY <2>1
  <2>3. Moved(t) /\ thr'[t] = Thread("commit")
    <3>1. Thread("commit") = ThreadOf(Thread("commit"))
       BY DEF Thread, ThreadOf
    <3> QED BY <1>6, <3>1, SetThread, Zenon
  <2>4. thr'[t].pc = "commit" /\ thr'[t].ret = "none" /\ thr'[t].recovering = FALSE
     BY <2>3 DEF Thread
  <2>5. Where(t)' = "commit"
     BY <2>4 DEF Where, Pos, CachePcs
  <2>6. \A v \in T : v # t => thr'[v] = thr[v] /\ Where(v)' = Where(v)
     BY <2>3 DEF Moved, Where
  <2>7. Cardinality(Active') <= log'.outstanding
    <3>1. Active' = Active \ {t}
       BY <2>5, <2>6 DEF Active, ActivePcs
    <3> QED BY <3>1, <2>2, <1>4, <1>5, <1>6
  <2>8. \A v \in T : /\ ~thr'[v].recovering /\ thr'[v].recovering \in BOOLEAN
                     /\ Where(v)' \notin CachePcs /\ thr'[v].ret # "begin_sleep"
                     /\ Where(v)' \in CommitPcs => v = t
                     /\ Where(v)' \notin {"recover", "read_head", "recovered", "commit_done"}
     BY <1>2, <2>4, <2>5, <2>6, Zenon DEF LogInv, ThreadInv, CachePcs, CommitPcs
  <2>9. thr' = [v \in T |-> ThreadOf(thr'[v])]
     BY <2>3 DEF Moved
  <2>10. SleeperHasWaker'
     BY <2>2 DEF SleeperHasWaker
  <2>11. log' = [outstanding |-> log'.outstanding, committing |-> log'.committing,
                 lh |-> log'.lh]
     BY <2>1
  <2>12. \A v \in T : ThreadInv(v)'
     BY <2>2, <2>8 DEF ThreadInv
  <2>13. log'.outstanding \in Nat
     BY <2>2
  <2>14. log'.committing \in BOOLEAN
     BY <2>2, Zenon
  <2> QED BY <2>2, <2>7, <2>9, <2>10, <2>11, <2>12, <2>13, <2>14 DEF LogInv
<1>7. CASE /\ log.outstanding # 1
           /\ log' = [log EXCEPT !.outstanding = @ - 1]
           /\ thr' = WakeLog([thr EXCEPT ![t] = Thread("idle")])
  <2>1. log' = [outstanding |-> o - 1, committing |-> FALSE, lh |-> h]
     BY <1>3, <1>4, <1>7, Zenon
  <2>2. log'.outstanding = o - 1 /\ log'.committing = FALSE
     BY <2>1
  <2>3. log'.outstanding \in Nat /\ log'.outstanding # 0
     BY <2>2, <1>4, <1>7
  <2>4. thr' = [v \in T |-> ThreadOf(thr'[v])]
     BY <1>7, Woken, Zenon
  <2>5. Awake /\ SameRecovery(t) /\ SamePlaces(t)
     BY <1>7, Woken, Zenon
  <2>6. \A v \in T : ~thr'[v].recovering /\ thr'[v].recovering \in BOOLEAN
    <3>1. \A v \in T : thr[v].recovering = FALSE
       BY <1>2 DEF LogInv, ThreadInv
    <3>2. \A v \in T : thr'[v].recovering = FALSE
       BY <2>5, <3>1 DEF SameRecovery
    <3> QED BY <3>2, Zenon
  <2>8. Cardinality(Active') <= log'.outstanding
    <3>1. Active' = Active \ {t}
       BY <2>5 DEF SamePlaces, Active, ActivePcs
    <3> QED BY <3>1, <2>2, <1>5
  <2>9. \A v \in T : /\ Where(v)' \notin CachePcs /\ Where(v)' \notin CommitPcs
                     /\ Where(v)' \notin {"recover", "read_head", "recovered", "commit_done"}
     BY <1>2, <2>5 DEF SamePlaces, LogInv, ThreadInv, CachePcs, CommitPcs
  <2>10. SleeperHasWaker'
     BY <2>5 DEF Awake, SleeperHasWaker
  <2>11. log' = [outstanding |-> log'.outstanding, committing |-> log'.committing,
                 lh |-> log'.lh]
     BY <2>1
  <2>12. \A v \in T : ThreadInv(v)'
     BY <2>5, <2>6, <2>9 DEF Awake, ThreadInv
  <2>13. log'.committing \in BOOLEAN
     BY <2>2, Zenon
  <2> QED BY <2>2, <2>3, <2>4, <2>8, <2>10, <2>11, <2>12, <2>13 DEF LogInv
<1> QED BY <1>2, <1>6, <1>7 DEF EndOp

\* The end of a commit leaves an empty log and wakes everybody up.
LEMMA CommitDoneKeeps ==
    ASSUME LogInv, NEW t \in T, CommitDone(t)
    PROVE  LogInv'
<1>1. thr[t].pc = "commit_done" /\ Where(t) = "commit_done"
   BY DEF CommitDone, Where, Pos, CachePcs
<1>2. ~thr[t].recovering /\ log.committing /\ log.outstanding = 0 /\ log.lh = <<>>
   BY <1>1 DEF LogInv, ThreadInv, CommitPcs, RecoverPcs
<1>3. \A v \in T : ~thr[v].recovering /\ (Where(v) \in CommitPcs => v = t)
   BY <1>1, <1>2 DEF LogInv, ThreadInv, CommitPcs
<1>4. log' = [outstanding |-> 0, committing |-> FALSE, lh |-> <<>>]
  <2>1. PICK o, c, h : log = [outstanding |-> o, committing |-> c, lh |-> h]
     BY DEF LogInv, ThreadInv
  <2>2. log' = [outstanding |-> o, committing |-> FALSE, lh |-> h]
     BY <2>1, Zenon DEF CommitDone
  <2> QED BY <2>1, <2>2, <1>2
<1>5. log'.outstanding = 0 /\ log'.committing = FALSE /\ log'.lh = <<>>
   BY <1>4
<1>6. thr' = [v \in T |-> ThreadOf(thr'[v])]
   BY Woken, Zenon DEF CommitDone
<1>7. Awake /\ SameRecovery(t) /\ SamePlaces(t)
   BY Woken, Zenon DEF CommitDone
<1>8. \A v \in T : ~thr'[v].recovering /\ thr'[v].recovering \in BOOLEAN
  <2>1. \A v \in T : thr[v].recovering = FALSE
     BY <1>3 DEF LogInv, ThreadInv
  <2>2. \A v \in T : thr'[v].recovering = FALSE
     BY <1>7, <2>1 DEF SameRecovery
  <2> QED BY <2>2, Zenon
<1>10. Cardinality(Active') <= log'.outstanding
  <2>1. Active' \subseteq Active
     BY <1>7 DEF SamePlaces, Active, ActivePcs
  <2>2. Cardinality(Active') <= Cardinality(Active)
     BY <2>1, ActiveFinite, FS_Subset
  <2> QED BY <2>2, <1>2, <1>5, ActiveFinite DEF LogInv
<1>11. \A v \in T : /\ Where(v)' \notin CachePcs /\ Where(v)' \notin CommitPcs
                    /\ Where(v)' \notin {"recover", "read_head", "recovered", "commit_done"}
   BY <1>3, <1>7 DEF SamePlaces, LogInv, ThreadInv, CachePcs, CommitPcs
<1>12. SleeperHasWaker'
   BY <1>7 DEF Awake, SleeperHasWaker
<1>13. \A v \in T : ThreadInv(v)'
   BY <1>7, <1>8, <1>11 DEF Awake, ThreadInv
<1>14. log' = [outstanding |-> log'.outstanding, committing |-> log'.committing,
               lh |-> log'.lh]
   BY <1>4
<1>15. log'.outstanding \in Nat
   BY <1>5
<1>16. log'.committing \in BOOLEAN
   BY <1>5, Zenon
<1> QED BY <1>5, <1>6, <1>10, <1>12, <1>13, <1>14, <1>15, <1>16 DEF LogInv

\* At boot, and after a crash, one process recovers and the others are off.
LEMMA BootInv ==
    ASSUME NEW first \in T, log' = NewLog, thr' = Booting(first)
    PROVE  LogInv'
<1>1. /\ log' = [outstanding |-> 0, committing |-> FALSE, lh |-> <<>>]
      /\ log'.outstanding = 0 /\ log'.committing = FALSE /\ log'.lh = <<>>
   BY DEF NewLog
<1>2. thr'[first] = [pc |-> "recover", blk |-> NoBlock, ret |-> "none", tail |-> 0,
                     wrote |-> {}, recovering |-> TRUE]
   BY Zenon DEF Booting, Thread
<1>3. \A v \in T : v # first => thr'[v] = [pc |-> "off", blk |-> NoBlock, ret |-> "none",
                                          tail |-> 0, wrote |-> {}, recovering |-> FALSE]
   BY DEF Booting, Thread
<1>4. thr' = [v \in T |-> thr'[v]] /\ \A v \in T : thr'[v] = ThreadOf(thr'[v])
  <2>1. thr' = [v \in T |-> thr'[v]]
     BY DEF Booting
  <2>2. \A v \in T : thr'[v] = ThreadOf(thr'[v])
     BY <1>2, <1>3 DEF ThreadOf
  <2> QED BY <2>1, <2>2
<1>5. thr' = [v \in T |-> ThreadOf(thr'[v])]
   BY <1>4
<1>6. thr'[first].recovering = TRUE /\ thr'[first].ret = "none" /\ Where(first)' = "recover"
  <2>1. /\ thr'[first].recovering = TRUE /\ thr'[first].ret = "none"
        /\ thr'[first].pc = "recover"
     BY <1>2
  <2> QED BY <2>1 DEF Where, Pos, CachePcs
<1>7. \A v \in T : v # first => /\ thr'[v].recovering = FALSE /\ thr'[v].ret = "none"
                                /\ thr'[v].pc = "off" /\ Where(v)' = "off"
  <2>1. \A v \in T : v # first => /\ thr'[v].recovering = FALSE /\ thr'[v].ret = "none"
                                  /\ thr'[v].pc = "off"
     BY <1>3
  <2> QED BY <2>1 DEF Where, Pos, CachePcs
<1>8. Cardinality(Active') <= log'.outstanding
  <2>1. Active' = {}
     BY <1>6, <1>7 DEF Active, ActivePcs
  <2> QED BY <2>1, <1>1, FS_EmptySet
<1>9. \A v \in T : ThreadInv(v)'
   BY <1>1, <1>6, <1>7, Zenon DEF ThreadInv, CachePcs, CommitPcs, RecoverPcs
<1>10. SleeperHasWaker'
  <2>1. thr'[first].pc = "recover"
     BY <1>2
  <2> QED BY <2>1, <1>7 DEF SleeperHasWaker
<1> QED BY <1>1, <1>5, <1>8, <1>9, <1>10 DEF LogInv

\* When the recovery is over, every process is outside of any call.
LEMMA RecoveredKeeps ==
    ASSUME LogInv, NEW t \in T, Recovered(t)
    PROVE  LogInv'
<1>1. thr[t].pc = "recovered" /\ log' = log /\ thr' = [v \in T |-> Thread("idle")]
   BY DEF Recovered
<1>2. thr[t].recovering /\ log.lh = <<>>
   BY <1>1, Places DEF CachePcs
<1>3. log.outstanding = 0 /\ log.committing = FALSE
   BY <1>2 DEF LogInv, ThreadInv
<1>4. \A v \in T : thr'[v] = [pc |-> "idle", blk |-> NoBlock, ret |-> "none", tail |-> 0,
                              wrote |-> {}, recovering |-> FALSE]
   BY <1>1 DEF Thread
<1>5. thr' = [v \in T |-> ThreadOf(thr'[v])]
  <2>1. thr' = [v \in T |-> thr'[v]]
     BY <1>1
  <2>2. \A v \in T : thr'[v] = ThreadOf(thr'[v])
     BY <1>4 DEF ThreadOf
  <2> QED BY <2>1, <2>2
<1>6. \A v \in T : /\ thr'[v].recovering = FALSE /\ thr'[v].ret = "none"
                   /\ thr'[v].pc = "idle" /\ Where(v)' = "idle"
  <2>1. \A v \in T : thr'[v].recovering = FALSE /\ thr'[v].ret = "none" /\ thr'[v].pc = "idle"
     BY <1>4
  <2> QED BY <2>1 DEF Where, Pos, CachePcs
<1>7. Cardinality(Active') <= log'.outstanding
  <2>1. Active' = {}
     BY <1>6 DEF Active, ActivePcs
  <2> QED BY <2>1, <1>1, <1>3, FS_EmptySet
<1>8. \A v \in T : ThreadInv(v)'
   BY <1>6, Zenon DEF ThreadInv, CachePcs, CommitPcs
<1>9. SleeperHasWaker'
   BY <1>6 DEF SleeperHasWaker
<1>10. /\ log' = [outstanding |-> log'.outstanding, committing |-> log'.committing,
                  lh |-> log'.lh]
       /\ log'.outstanding \in Nat /\ log'.committing \in BOOLEAN
   BY <1>1 DEF LogInv
<1> QED BY <1>1, <1>2, <1>3, <1>5, <1>7, <1>8, <1>9, <1>10 DEF LogInv

-----------------------------------------------------------------------------
(* The theorems.                                                           *)

\* At boot the invariant holds.
LEMMA InitInv == Init => LogInv
<1> SUFFICES ASSUME Init PROVE LogInv
   OBVIOUS
<1>1. PICK first \in T : thr = Booting(first)
   BY DEF Init
<1>2. /\ log = [outstanding |-> 0, committing |-> FALSE, lh |-> <<>>]
      /\ log.outstanding = 0 /\ log.committing = FALSE /\ log.lh = <<>>
   BY DEF Init, NewLog
<1>3. thr[first] = [pc |-> "recover", blk |-> NoBlock, ret |-> "none", tail |-> 0,
                    wrote |-> {}, recovering |-> TRUE]
   BY <1>1, Zenon DEF Booting, Thread
<1>4. \A v \in T : v # first => thr[v] = [pc |-> "off", blk |-> NoBlock, ret |-> "none",
                                         tail |-> 0, wrote |-> {}, recovering |-> FALSE]
   BY <1>1 DEF Booting, Thread
<1>5. thr = [v \in T |-> ThreadOf(thr[v])]
  <2>1. thr = [v \in T |-> thr[v]]
     BY <1>1 DEF Booting
  <2>2. \A v \in T : thr[v] = ThreadOf(thr[v])
     BY <1>3, <1>4 DEF ThreadOf
  <2> QED BY <2>1, <2>2
<1>6. thr[first].recovering = TRUE /\ thr[first].ret = "none" /\ thr[first].pc = "recover"
   BY <1>3
<1>7. \A v \in T : v # first => /\ thr[v].recovering = FALSE /\ thr[v].ret = "none"
                                /\ thr[v].pc = "off"
   BY <1>4
<1>8. Where(first) = "recover" /\ \A v \in T : v # first => Where(v) = "off"
   BY <1>6, <1>7 DEF Where, Pos, CachePcs
<1>9. Cardinality(Active) <= log.outstanding
  <2>1. Active = {}
     BY <1>8 DEF Active, ActivePcs
  <2> QED BY <2>1, <1>2, FS_EmptySet
<1>10. \A v \in T : ThreadInv(v)
   BY <1>2, <1>6, <1>7, <1>8, Zenon DEF ThreadInv, CachePcs, CommitPcs, RecoverPcs
<1>11. SleeperHasWaker
   BY <1>6, <1>7 DEF SleeperHasWaker
<1> QED BY <1>2, <1>5, <1>9, <1>10, <1>11 DEF LogInv

\* Every step keeps it.
LEMMA NextKeeps == LogInv /\ [Next]_vars => LogInv'
<1> SUFFICES ASSUME LogInv, [Next]_vars PROVE LogInv'
   OBVIOUS
<1>1. ASSUME NEW t \in T, CacheStep(t) PROVE LogInv'
   BY <1>1, CacheKeeps
<1>2. ASSUME NEW t \in T, CallStep(t) PROVE LogInv'
  <2>1. CASE EndOp(t)
     BY <2>1, EndKeeps
  <2>2. CASE ~EndOp(t) /\ log'.outstanding = log.outstanding
     BY <1>2, <2>2, CallKeeps
  <2>3. CASE ~EndOp(t) /\ log'.outstanding # log.outstanding
    <3>1. Read(t) \/ ReadDone(t) \/ OpBread(t) \/ Modify(t) => log' = log
       BY DEF Read, ReadDone, OpBread, Modify
    <3>2. LogWrite(t) => log'.outstanding = log.outstanding
       BY DEF LogWrite, LogInv
    <3>3. BeginOp(t)
       BY <1>2, <2>3, <3>1, <3>2 DEF CallStep
    <3> QED BY <2>3, <3>3, BeginKeeps
  <2> QED BY <2>1, <2>2, <2>3
<1>3. ASSUME NEW t \in T, CommitStep(t) PROVE LogInv'
   BY <1>3, CommitKeeps, CommitDoneKeeps, RecoveredKeeps
<1>4. CASE Crash
   BY <1>4, BootInv DEF Crash
<1>5. CASE UNCHANGED vars
  <2>1. log' = log /\ thr' = thr
     BY <1>5 DEF vars
  <2> QED BY <2>1 DEF LogInv, ThreadInv, SleeperHasWaker, Recovering, Active, Where
<1> QED BY <1>1, <1>2, <1>3, <1>4, <1>5 DEF Next

\* LogInv is an inductive invariant of the log.
THEOREM LogInvariant == Spec => []LogInv
<1> QED BY InitInv, NextKeeps, PTL DEF Spec

\* end_op() loses no wakeup, for any number of processes and any sizes: whoever sleeps in
\* begin_op() does so while a call or a commit is in progress.
THEOREM NoLostWakeup == Spec => []SleeperHasWaker
<1>1. LogInv => SleeperHasWaker
   BY DEF LogInv
<1> QED BY <1>1, LogInvariant, PTL

\* commit() and the recovery, which run without log.lock, have the log for themselves.
THEOREM CommitsAlone == Spec => []CommitAlone
<1>1. LogInv => CommitAlone
  <2> SUFFICES ASSUME LogInv, NEW t \in T, Where(t) \in CommitPcs
               PROVE  Active = {} /\ \A u \in T : Where(u) \in CommitPcs => u = t
     BY DEF CommitAlone
  <2>1. Active = {}
     BY ActiveCounted DEF Active
  <2> QED BY <2>1 DEF LogInv, ThreadInv
<1> QED BY <1>1, LogInvariant, PTL

=============================================================================
