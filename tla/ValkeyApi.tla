------------------------------ MODULE ValkeyApi ------------------------------
(***************************************************************************)
(* The mutations of ValkeyLedger as the API runs them: every request is a  *)
(* PostgreSQL transaction that takes one advisory lock, reads the database *)
(* clock, reads the tables, and writes what becomes visible when it        *)
(* commits.  Several requests, the import loop and the deletion loop       *)
(* compete for the lock; any transaction may be rolled back.  This         *)
(* specification implements LedgerSpec: the lock makes each mutation look  *)
(* like the one step it is there.                                          *)
(***************************************************************************)
EXTENDS ValkeyLedger

CONSTANTS
    Workers,   \* the goroutines of the API that serve requests
    Free,      \* the lock is not held
    Idle       \* a worker without a transaction

ASSUME ApiAssumption == Free \notin Workers

VARIABLES
    lock,        \* pg_advisory_xact_lock(1)
    tx,          \* the transaction of each worker
    userQuotas   \* user_quotas itself; `quota` is what the last mutation read of it

apiVars == <<ledgerVars, lock, tx, userQuotas>>

\* A transaction that has the lock; its `now` and its writes follow.
Locked(r) == [request |-> r, now |-> Null, writes |-> {}]

Holds(c) == tx[c] # Idle

\* The transaction of c ends and the lock with it.
Release(c) ==
    /\ lock' = Free
    /\ tx' = [tx EXCEPT ![c] = Idle]

-----------------------------------------------------------------------------

\* A bug: the clock is read before the lock is granted.
AcquireAfterClock(c, r) ==
    /\ tx[c] = Idle
    /\ lock = Free
    /\ lock' = c
    /\ \E now \in 1..clock : tx' = [tx EXCEPT ![c] = [Locked(r) EXCEPT !.now = now]]
    /\ UNCHANGED <<ledgerVars, userQuotas>>

\* A bug: the transaction does not wait for the lock.
AcquireAlways(c, r) ==
    /\ tx[c] = Idle
    /\ lock' = c
    /\ tx' = [tx EXCEPT ![c] = Locked(r)]
    /\ UNCHANGED <<ledgerVars, userQuotas>>

\* beginMutation until the lock is granted.  A request that waits for it too
\* long answers lock_timeout and has changed nothing.
Acquire(c, r) ==
    /\ tx[c] = Idle
    /\ lock = Free
    /\ lock' = c
    /\ tx' = [tx EXCEPT ![c] = Locked(r)]
    /\ UNCHANGED <<ledgerVars, userQuotas>>

\* DatabaseTime, after the lock was granted; the quota row has no lock of its own.
Read(c) ==
    /\ Holds(c)
    /\ tx[c].now = Null
    /\ tx' = [tx EXCEPT ![c].now = clock]
    /\ quota' = userQuotas
    /\ UNCHANGED <<rows, billing, keys, audit, cr, imported, clock, stamp, lock, userQuotas>>

\* The tables allow the mutation.
Decide(c) ==
    /\ Holds(c)
    /\ tx[c].now # Null /\ tx[c].writes = {}
    /\ Len(audit) < MaxAudit
    /\ \E w \in Plan(tx[c].request, tx[c].now) : tx' = [tx EXCEPT ![c].writes = {w}]
    /\ UNCHANGED <<ledgerVars, lock, userQuotas>>

\* The tables do not: an error, a replayed answer, or nothing to change.
Refuse(c) ==
    /\ Holds(c)
    /\ tx[c].now # Null /\ tx[c].writes = {}
    /\ Plan(tx[c].request, tx[c].now) = {}
    /\ Release(c)
    /\ UNCHANGED <<ledgerVars, userQuotas>>

Commit(c) ==
    /\ Holds(c)
    /\ \E w \in tx[c].writes : Apply(tx[c].request, w)
    /\ stamp' = tx[c].now
    /\ Release(c)
    /\ UNCHANGED <<quota, cr, imported, clock, userQuotas>>

\* A statement fails, the connection is lost or the process dies.
Rollback(c) ==
    /\ Holds(c)
    /\ Release(c)
    /\ UNCHANGED <<ledgerVars, userQuotas>>

\* The migration is one statement and takes no advisory lock.
MigrateQuotas ==
    /\ userQuotas' = [u \in Users |-> LoweredQuota]
    /\ UNCHANGED <<ledgerVars, lock, tx>>

\* The transactions of the import and deletion loops, under the same lock.
StoreObservation ==
    /\ lock = Free
    /\ \/ \E o \in imported : ImportApply(o)
       \/ \E i \in Ids : CompleteDeletion(i)
    /\ UNCHANGED <<lock, tx, userQuotas>>

\* What goes on beside the transactions.
Surroundings ==
    /\ OperatorNext \/ Tick \/ \E i \in Ids : ImportRead(i)
    /\ UNCHANGED <<lock, tx, userQuotas>>

-----------------------------------------------------------------------------

ApiInit ==
    /\ LedgerInit
    /\ lock = Free
    /\ tx = [c \in Workers |-> Idle]
    /\ userQuotas = [u \in Users |-> InitialQuota]

ApiNext ==
    \/ \E c \in Workers : \/ \E r \in Requests : Acquire(c, r)
                          \/ Read(c) \/ Decide(c) \/ Refuse(c) \/ Commit(c) \/ Rollback(c)
    \/ MigrateQuotas
    \/ StoreObservation
    \/ Surroundings

ApiSpec == ApiInit /\ [][ApiNext]_apiVars

-----------------------------------------------------------------------------
(* Properties                                                               *)

\* The transaction about to commit was decided on the tables as they still are:
\* nothing it has read has changed since, and its time is not before the time of
\* the mutation committed last.
DecisionStillHolds ==
    \A c \in Workers : tx[c] # Idle =>
        /\ lock = c
        /\ \A w \in tx[c].writes :
              /\ w \in Plan(tx[c].request, tx[c].now)
              /\ stamp <= tx[c].now
              /\ tx[c].now <= clock

=============================================================================
