---------------------------- MODULE AdvisoryLocks ----------------------------
(* core/locks.py as the scheduler of the backups uses it                    *)
(* (backup/scheduler.py, run_now).  pg_try_advisory_lock belongs to a       *)
(* connection; a session that commits inside the block gives its            *)
(* connection back to the process' pool and goes on with another, so the    *)
(* lock may be given up on a connection that does not hold it, and stay     *)
(* with the one that does, or end early with it.                            *)
EXTENDS Naturals

CONSTANTS
    Schedulers, \* the API processes that run a scheduler
    PoolSize,   \* connections of a process' pool
    MaxDues     \* bound on how often a backup becomes due

ASSUME LocksAssumption == PoolSize \in Nat \ {0} /\ MaxDues \in Nat

VARIABLES
    locked, \* how often each connection's session holds the lock
    block,  \* each scheduler: what it is doing, and with which connection
    due,    \* whether lastRunAt is an interval ago
    dues,   \* how often a backup became due
    lost    \* history: a connection was closed while it held the lock

lockVars == <<locked, block, due, dues, lost>>

Conns == 1..PoolSize
NoConn == 0
OutOfBlock == [step |-> "none", conn |-> NoConn]
GoesOn(p, step, c) == block' = [block EXCEPT ![p] = [step |-> step, conn |-> c]]

LocksTypeOK ==
    /\ locked \in [Schedulers \X Conns -> Nat]
    /\ block \in [Schedulers -> [step : {"none", "due", "won", "running", "ran"},
                                 conn : Conns \cup {NoConn}]]
    /\ due \in BOOLEAN /\ dues \in 0..MaxDues /\ lost \in BOOLEAN

Inside(p) == block[p].step \in {"won", "running"}

-----------------------------------------------------------------------------
FallDue ==
    /\ ~due /\ dues < MaxDues
    /\ due' = TRUE /\ dues' = dues + 1
    /\ UNCHANGED <<locked, block, lost>>

(* maybe_run_due reads the configuration, before it asks for the lock.      *)
SeeDue(p, c) ==
    /\ block[p].step = "none" /\ due
    /\ GoesOn(p, "due", c)
    /\ UNCHANGED <<locked, due, dues, lost>>
(* Mutant: the lock is not asked for.                                       *)
AlwaysFree(p, c) == TRUE
(* A session takes a lock again that it has already.                        *)
LockFree(p, c) == \A q \in Schedulers, d \in Conns : locked[<<q, d>>] = 0 \/ <<q, d>> = <<p, c>>
(* pg_try_advisory_lock, which does not wait.                               *)
Win(p) ==
    LET c == block[p].conn IN
    /\ block[p].step = "due" /\ LockFree(p, c)
    /\ locked' = [locked EXCEPT ![<<p, c>>] = @ + 1]
    /\ GoesOn(p, "won", c)
    /\ UNCHANGED <<due, dues, lost>>
PassOver(p) ==
    /\ block[p].step = "due" /\ ~LockFree(p, block[p].conn)
    /\ block' = [block EXCEPT ![p] = OutOfBlock]
    /\ UNCHANGED <<locked, due, dues, lost>>
(* The query fails: the block is entered without the lock, but on a session *)
(* whose transaction is aborted; run_now fails there and leaves the block.  *)
LockQueryFails(p) ==
    /\ block[p].step = "due"
    /\ block' = [block EXCEPT ![p] = OutOfBlock]
    /\ UNCHANGED <<locked, due, dues, lost>>

(* run_now commits the run's row and the new lastRunAt before it executes   *)
(* the run; the connection is back in the pool then.                        *)
StartDueRun(p) ==
    /\ block[p].step = "won"
    /\ GoesOn(p, "running", NoConn)
    /\ due' = FALSE
    /\ UNCHANGED <<locked, dues, lost>>
(* A run that may not start, because a manual one is active, commits nothing.*)
CallOff(p) ==
    /\ block[p].step = "won"
    /\ GoesOn(p, "ran", block[p].conn)
    /\ UNCHANGED <<locked, due, dues, lost>>
(* The run is over, and the session reads its row with some connection ...  *)
EndDueRun(p, c) ==
    /\ block[p].step = "running"
    /\ GoesOn(p, "ran", c)
    /\ UNCHANGED <<locked, due, dues, lost>>
(* ... on which the block unlocks: a lock that it does not hold is left.    *)
UnlockBlock(p) ==
    LET c == block[p].conn IN
    /\ block[p].step = "ran"
    /\ locked' = [locked EXCEPT ![<<p, c>>] = IF @ > 0 THEN @ - 1 ELSE 0]
    /\ block' = [block EXCEPT ![p] = OutOfBlock]
    /\ UNCHANGED <<due, dues, lost>>

(* Mutant: connections that are never closed.                               *)
NeverRecycled(p, c) == FALSE
(* The pool closes a connection that is not in use: older than              *)
(* database_pool_recycle_seconds, or above pool_size when it is given back. *)
Unused(p, c) == block[p].conn # c
CloseConnection(p, c) ==
    /\ Unused(p, c) /\ locked[<<p, c>>] > 0
    /\ locked' = [locked EXCEPT ![<<p, c>>] = 0]
    /\ lost' = (lost \/ Inside(p))
    /\ UNCHANGED <<block, due, dues>>
(* A process dies, and all its connections with it.                         *)
ProcessDies(p) ==
    /\ block[p].step # "none"
    /\ block' = [block EXCEPT ![p] = OutOfBlock]
    /\ locked' = [l \in Schedulers \X Conns |-> IF l[1] = p THEN 0 ELSE locked[l]]
    /\ UNCHANGED <<due, dues, lost>>

-----------------------------------------------------------------------------
LocksInit ==
    /\ locked = [l \in Schedulers \X Conns |-> 0]
    /\ block = [p \in Schedulers |-> OutOfBlock]
    /\ due = FALSE /\ dues = 0 /\ lost = FALSE

LocksNext ==
    \/ FallDue
    \/ \E p \in Schedulers :
          \/ Win(p) \/ PassOver(p) \/ LockQueryFails(p) \/ StartDueRun(p) \/ CallOff(p)
          \/ UnlockBlock(p) \/ ProcessDies(p)
          \/ \E c \in Conns : SeeDue(p, c) \/ EndDueRun(p, c) \/ CloseConnection(p, c)

LocksSpec == LocksInit /\ [][LocksNext]_lockVars

-----------------------------------------------------------------------------
(* "Only the replica that wins the lock performs the scheduled run": two    *)
(* are inside the block at once only if the pool closed the connection that *)
(* held the lock for a run that was still going on (advisory_lock, run_now).*)
OverlapNeedsALostConnection ==
    \A p, q \in Schedulers : p # q /\ Inside(p) /\ Inside(q) => lost

(* A lock that was left behind delays the backups but does not end them:    *)
(* what is due is run, since the pool closes old connections in the end.    *)
DueRunsHappen == due ~> ~due
=============================================================================
