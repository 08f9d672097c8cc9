----------------------------- MODULE AtomicDisk -----------------------------
(***************************************************************************)
(* What the log promises to the file system (kernel/log.c:10-31): the      *)
(* writes of system calls between begin_op() and end_op() become durable   *)
(* together, when no call is active, and a crash undoes every write since. *)
(***************************************************************************)
CONSTANTS Data, Vals, T

VARIABLES durable,      \* the contents a crash falls back to
          current,      \* the contents the file system reads
          active        \* the processes inside an FS system call

vars == <<durable, current, active>>

Init == /\ \E v \in Vals : durable = [b \in Data |-> v]
        /\ current = durable
        /\ active = {}

Begin(t) == active' = active \cup {t} /\ UNCHANGED <<durable, current>>

Write(t, b, v) == /\ t \in active
                  /\ current' = [current EXCEPT ![b] = v]
                  /\ UNCHANGED <<durable, active>>

End(t) == active' = active \ {t} /\ UNCHANGED <<durable, current>>

Commit == active = {} /\ durable' = current /\ UNCHANGED <<current, active>>

Crash == current' = durable /\ active' = {} /\ UNCHANGED durable

Next == \/ \E t \in T : Begin(t) \/ End(t) \/ \E b \in Data, v \in Vals : Write(t, b, v)
        \/ Commit \/ Crash

Spec == Init /\ [][Next]_vars

=============================================================================
