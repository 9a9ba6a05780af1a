--------------------------- MODULE ValkeyApiProofs ---------------------------
(***************************************************************************)
(* The transactions of the API implement the ledger, whatever the number   *)
(* of workers: every commit is one mutation of the ledger.                 *)
(***************************************************************************)
EXTENDS ValkeyApi, TLAPS

\* A plan depends on the tables and the quotas, and on nothing else.
LEMMA PlanStable ==
    ASSUME UNCHANGED <<rows, billing, keys, quota>>, NEW r, NEW now
    PROVE  Plan(r, now)' = Plan(r, now)
  BY DEF Plan, Create, Patch, Resize, ResizeChange, UpdateWhitelist, RotatePassword, Delete,
         KeyFree, NameTaken, QuotaAllows, ValkeyUsage, Owned, Active, ReserveOf, Reserve,
         Found, EnsureReady, IsStale, CanClose, Closed

\* What a worker knows while it has a transaction: it holds the lock, so nobody
\* else can make its time or its decision obsolete.
Safe(c, r, now) ==
    /\ tx[c] = [request |-> r, now |-> now, writes |-> tx[c].writes]
    /\ lock = c
    /\ now # Null => stamp <= now
    /\ now = Null => tx[c].writes = {}
    /\ \A w \in tx[c].writes : w \in Plan(r, now) /\ Len(audit) < MaxAudit

ApiInv ==
    /\ clock \in Nat \ {0} /\ stamp \in 1..clock
    /\ DOMAIN tx = Workers
    /\ \A c \in Workers : tx[c] # Idle =>
          \E r \in Requests, now \in 0..clock : Safe(c, r, now)

\* The other workers have nothing while one holds the lock.
LEMMA OnlyHolder ==
    ASSUME ApiInv, NEW c \in Workers, NEW d \in Workers, tx[c] # Idle, tx[d] # Idle
    PROVE  c = d
  BY DEF ApiInv, Safe

LEMMA LockFree ==
    ASSUME ApiInv, lock = Free, NEW c \in Workers
    PROVE  tx[c] = Idle
  BY ApiAssumption DEF ApiInv, Safe

LEMMA InvRead ==
    ASSUME ApiInv, NEW c \in Workers, Read(c)
    PROVE  ApiInv'
<1>1. PICK r \in Requests, now \in 0..clock : Safe(c, r, now)
  BY DEF ApiInv, Read, Holds
<1>2. now = Null /\ tx[c].writes = {}
  BY <1>1 DEF Safe, Read
<1>3. /\ tx'[c] = [request |-> r, now |-> clock, writes |-> {}]
      /\ tx'[c].writes = {}
      /\ \A d \in Workers \ {c} : tx'[d] = tx[d] /\ tx[d] = Idle
      /\ DOMAIN tx' = Workers
  <2>1. DOMAIN tx = Workers /\ tx' = [tx EXCEPT ![c].now = clock]
    BY DEF ApiInv, Read
  <2>2. tx[c] = [request |-> r, now |-> now, writes |-> {}]
    BY <1>1, <1>2 DEF Safe
  <2>3. tx'[c] = [tx[c] EXCEPT !.now = clock]
    BY <2>1
  <2>4. tx'[c] = [request |-> r, now |-> clock, writes |-> {}]
    BY <2>2, <2>3
  <2>5. \A d \in Workers \ {c} : tx'[d] = tx[d] /\ tx[d] = Idle
    BY <2>1, OnlyHolder DEF Read, Holds
  <2>6. QED
    BY <2>1, <2>4, <2>5
<1>4. clock \in 0..clock /\ stamp <= clock /\ clock # Null
  BY DEF ApiInv, Null
<1>5. Safe(c, r, clock)'
  BY <1>1, <1>3, <1>4 DEF Safe, Read
<1>6. QED
  BY <1>1, <1>3, <1>4, <1>5 DEF ApiInv, Read

LEMMA InvDecide ==
    ASSUME ApiInv, NEW c \in Workers, Decide(c)
    PROVE  ApiInv'
<1>1. PICK r \in Requests, now \in 0..clock : Safe(c, r, now)
  BY DEF ApiInv, Decide, Holds
<1>2. tx[c].request = r /\ tx[c].now = now /\ now # Null
  BY <1>1 DEF Safe, Decide
<1>3. PICK w \in Plan(r, now) : tx' = [tx EXCEPT ![c].writes = {w}]
  BY <1>2 DEF Decide
<1>4. /\ tx'[c] = [request |-> r, now |-> now, writes |-> {w}]
      /\ tx'[c].writes = {w}
      /\ \A d \in Workers \ {c} : tx'[d] = tx[d] /\ tx[d] = Idle
      /\ DOMAIN tx' = Workers
  <2>1. DOMAIN tx = Workers
    BY DEF ApiInv
  <2>2. tx[c] = [request |-> r, now |-> now, writes |-> tx[c].writes]
    BY <1>1 DEF Safe
  <2>3. tx'[c] = [tx[c] EXCEPT !.writes = {w}]
    BY <1>3, <2>1
  <2>4. tx'[c] = [request |-> r, now |-> now, writes |-> {w}]
    BY <2>2, <2>3
  <2>5. \A d \in Workers \ {c} : tx'[d] = tx[d] /\ tx[d] = Idle
    BY <1>3, <2>1, OnlyHolder DEF Decide, Holds
  <2>6. QED
    BY <1>3, <2>1, <2>4, <2>5
<1>5. Plan(r, now)' = Plan(r, now)
  BY PlanStable DEF Decide, ledgerVars
<1>6. Safe(c, r, now)'
  BY <1>1, <1>2, <1>3, <1>4, <1>5 DEF Safe, Decide, ledgerVars
<1>7. QED
  BY <1>1, <1>4, <1>6 DEF ApiInv, Decide, ledgerVars

\* A transaction ends.
LEMMA InvRelease ==
    ASSUME ApiInv, NEW c \in Workers, Holds(c), Release(c), clock' = clock,
           stamp' \in 1..clock
    PROVE  ApiInv'
<1>1. \A d \in Workers : tx'[d] = Idle
  BY OnlyHolder DEF ApiInv, Holds, Release
<1>2. QED
  BY <1>1 DEF ApiInv, Release

\* What goes on beside a transaction touches neither its tables nor its time.
LEMMA InvBeside ==
    ASSUME ApiInv, UNCHANGED <<rows, billing, keys, audit, quota, stamp, lock, tx>>,
           clock' \in Nat, clock <= clock'
    PROVE  ApiInv'
<1>1. ASSUME NEW c \in Workers, tx[c] # Idle
      PROVE  \E r \in Requests, now \in 0..clock' : Safe(c, r, now)'
  <2>1. PICK r \in Requests, now \in 0..clock : Safe(c, r, now)
    BY <1>1 DEF ApiInv
  <2>2. Plan(r, now)' = Plan(r, now)
    BY PlanStable
  <2>3. Safe(c, r, now)'
    BY <2>1, <2>2 DEF Safe
  <2>4. now \in 0..clock'
    BY <2>1 DEF ApiInv
  <2>5. QED
    BY <2>3, <2>4
<1>2. QED
  BY <1>1 DEF ApiInv

\* With the lock free there is no decision to protect.
LEMMA InvIdle ==
    ASSUME ApiInv, lock = Free, UNCHANGED <<clock, stamp, tx>>
    PROVE  ApiInv'
  BY LockFree DEF ApiInv

LEMMA CommitTime ==
    ASSUME ApiInv, NEW c \in Workers, Commit(c)
    PROVE  stamp' \in 1..clock
<1>1. PICK r \in Requests, now \in 0..clock : Safe(c, r, now)
  BY DEF ApiInv, Commit, Holds
<1>2. stamp' = now /\ now # Null
  BY <1>1 DEF Safe, Commit
<1>3. QED
  BY <1>1, <1>2 DEF ApiInv, Null

THEOREM ApiInvariant == ApiSpec => []ApiInv
<1>1. ApiInit => ApiInv
  BY DEF ApiInit, LedgerInit, ApiInv
<1>2. ApiInv /\ [ApiNext]_apiVars => ApiInv'
  <2> SUFFICES ASSUME ApiInv, [ApiNext]_apiVars PROVE ApiInv'
    OBVIOUS
  <2>0. clock \in Nat
    BY DEF ApiInv
  <2>1. ASSUME NEW c \in Workers, NEW r \in Requests, Acquire(c, r)
        PROVE  ApiInv'
    <3>1. /\ tx'[c] = Locked(r) /\ lock' = c
          /\ \A d \in Workers \ {c} : tx'[d] = tx[d] /\ tx[d] = Idle
          /\ DOMAIN tx' = Workers
      BY <2>1, LockFree DEF ApiInv, Acquire
    <3>2. tx'[c] = [request |-> r, now |-> 0, writes |-> {}] /\ tx'[c].writes = {}
      BY <3>1 DEF Locked, Null
    <3>3. Safe(c, r, 0)'
      BY <3>1, <3>2 DEF Safe, Null
    <3>4. 0 \in 0..clock
      BY <2>0
    <3>5. QED
      BY <2>1, <3>1, <3>3, <3>4 DEF ApiInv, Acquire, ledgerVars
  <2>2. ASSUME NEW c \in Workers, Read(c) PROVE ApiInv'
    BY <2>2, InvRead
  <2>3. ASSUME NEW c \in Workers, Decide(c) PROVE ApiInv'
    BY <2>3, InvDecide
  <2>4. ASSUME NEW c \in Workers, Refuse(c) \/ Rollback(c) PROVE ApiInv'
    <3>1. stamp \in 1..clock
      BY DEF ApiInv
    <3>2. QED
      BY <2>4, <3>1, InvRelease DEF Refuse, Rollback, ledgerVars
  <2>5. ASSUME NEW c \in Workers, Commit(c) PROVE ApiInv'
    BY <2>5, CommitTime, InvRelease DEF Commit
  <2>6. CASE MigrateQuotas
    BY <2>0, <2>6, InvBeside DEF MigrateQuotas, ledgerVars
  <2>7. CASE StoreObservation
    BY <2>7, InvIdle DEF StoreObservation, ImportApply, CompleteDeletion
  <2>8. CASE Surroundings
    <3>1. CASE OperatorNext
      <4>1. OperatorStep
        BY <3>1 DEF OperatorNext, AcceptFirst, AcceptNext, Admit, ProvisioningTimeout,
                    FinishRollout, FinishCredentialRotation, Observe, ResourceGone
      <4>2. QED
        BY <2>0, <2>8, <4>1, InvBeside DEF Surroundings, OperatorStep
    <3>2. CASE Tick
      BY <2>0, <2>8, <3>2, InvBeside DEF Surroundings, Tick
    <3>3. CASE \E i \in Ids : ImportRead(i)
      BY <2>0, <2>8, <3>3, InvBeside DEF Surroundings, ImportRead
    <3>4. QED
      BY <2>8, <3>1, <3>2, <3>3 DEF Surroundings
  <2>9. CASE UNCHANGED apiVars
    BY <2>0, <2>9, InvBeside DEF apiVars, ledgerVars
  <2>10. QED
    BY <2>1, <2>2, <2>3, <2>4, <2>5, <2>6, <2>7, <2>8, <2>9 DEF ApiNext
<1>3. QED
  BY <1>1, <1>2, PTL DEF ApiSpec

\* A decision is never obsolete when it is committed: between reading the tables
\* and the commit nothing that was read has changed.
THEOREM DecisionHolds == ApiSpec => []DecisionStillHolds
<1>1. ApiInv => DecisionStillHolds
  <2> SUFFICES ASSUME ApiInv, NEW c \in Workers, tx[c] # Idle
               PROVE  /\ lock = c
                      /\ \A w \in tx[c].writes :
                            /\ w \in Plan(tx[c].request, tx[c].now)
                            /\ stamp <= tx[c].now
                            /\ tx[c].now <= clock
    BY DEF DecisionStillHolds
  <2>1. PICK r \in Requests, now \in 0..clock : Safe(c, r, now)
    BY DEF ApiInv
  <2>2. tx[c].request = r /\ tx[c].now = now
    BY <2>1 DEF Safe
  <2>3. QED
    BY <2>1, <2>2 DEF Safe, ApiInv
<1>2. QED
  BY <1>1, ApiInvariant, PTL

\* The quotas the mutations have seen lag behind the table by the migration at most.
QuotaLag == userQuotas = quota \/ userQuotas = [u \in Users |-> LoweredQuota]

LEMMA QuotaLagHolds == ApiSpec => []QuotaLag
<1>1. ApiInit => QuotaLag
  BY DEF ApiInit, LedgerInit, QuotaLag
<1>2. QuotaLag /\ [ApiNext]_apiVars => QuotaLag'
  <2> SUFFICES ASSUME QuotaLag, [ApiNext]_apiVars PROVE QuotaLag'
    OBVIOUS
  <2>1. CASE \E c \in Workers : Read(c)
    BY <2>1 DEF Read, QuotaLag
  <2>2. CASE MigrateQuotas
    BY <2>2 DEF MigrateQuotas, QuotaLag
  <2>3. CASE \E c \in Workers : \/ \E r \in Requests : Acquire(c, r)
                                \/ Decide(c) \/ Refuse(c) \/ Commit(c) \/ Rollback(c)
    BY <2>3 DEF Acquire, Decide, Refuse, Commit, Rollback, ledgerVars, QuotaLag
  <2>4. CASE StoreObservation
    BY <2>4 DEF StoreObservation, ImportApply, CompleteDeletion, QuotaLag
  <2>5. CASE Surroundings
    <3>1. UNCHANGED <<quota, userQuotas>>
      BY <2>5 DEF Surroundings, OperatorNext, AcceptFirst, AcceptNext, Admit,
                  ProvisioningTimeout, FinishRollout, FinishCredentialRotation, Observe,
                  ResourceGone, OperatorStep, Tick, ImportRead
    <3>2. QED
      BY <3>1 DEF QuotaLag
  <2>6. CASE UNCHANGED apiVars
    BY <2>6 DEF apiVars, ledgerVars, QuotaLag
  <2>7. QED
    BY <2>1, <2>2, <2>3, <2>4, <2>5, <2>6 DEF ApiNext
<1>3. QED
  BY <1>1, <1>2, PTL DEF ApiSpec

\* Every step of the API is a step of the ledger or leaves it alone.
LEMMA StepSimulation ==
    ASSUME ApiInv, QuotaLag, [ApiNext]_apiVars
    PROVE  [LedgerNext]_ledgerVars
<1>1. ASSUME NEW c \in Workers, NEW r \in Requests, Acquire(c, r)
      PROVE  UNCHANGED ledgerVars
  BY <1>1 DEF Acquire
<1>2. ASSUME NEW c \in Workers, Decide(c) \/ Refuse(c) \/ Rollback(c)
      PROVE  UNCHANGED ledgerVars
  BY <1>2 DEF Decide, Refuse, Rollback
<1>3. ASSUME NEW c \in Workers, Commit(c)
      PROVE  MutationNext
  <2>1. PICK r \in Requests, now \in 0..clock : Safe(c, r, now)
    BY <1>3 DEF ApiInv, Commit, Holds
  <2>2. tx[c].request = r /\ tx[c].now = now
    BY <2>1 DEF Safe
  <2>3. PICK w \in tx[c].writes : Apply(r, w)
    BY <1>3, <2>2 DEF Commit
  <2>4. now # Null /\ now \in 1..clock
    BY <2>1, <2>3 DEF Safe, ApiInv, Null
  <2>5. w \in Plan(r, now) /\ Len(audit) < MaxAudit /\ stamp <= now /\ now <= clock
    BY <2>1, <2>3, <2>4 DEF Safe, ApiInv
  <2>6. Mutate(r, now, w)
    BY <1>3, <2>2, <2>3, <2>5 DEF Mutate, Commit
  <2>7. QED
    BY <2>1, <2>4, <2>5, <2>6 DEF MutationNext
<1>4. CASE MigrateQuotas
  BY <1>4 DEF MigrateQuotas
<1>5. CASE StoreObservation
  BY <1>5 DEF StoreObservation, LedgerNext, SyncNext
<1>6. CASE Surroundings
  BY <1>6 DEF Surroundings, LedgerNext, SyncNext
<1>7. CASE UNCHANGED apiVars
  BY <1>7 DEF apiVars
<1>8. ASSUME NEW c \in Workers, Read(c)
      PROVE  LowerQuota \/ UNCHANGED ledgerVars
  BY <1>8 DEF Read, QuotaLag, LowerQuota, ledgerVars
<1>9. QED
  BY <1>1, <1>2, <1>3, <1>4, <1>5, <1>6, <1>7, <1>8 DEF ApiNext, LedgerNext

\* The API, transactions, lock, roll-backs and all, implements the ledger.
THEOREM ApiImplementsLedger == ApiSpec => LedgerSpec
<1>1. ApiInit => LedgerInit
  BY DEF ApiInit
<1>2. ApiInv /\ QuotaLag /\ [ApiNext]_apiVars => [LedgerNext]_ledgerVars
  BY StepSimulation
<1>3. QED
  BY <1>1, <1>2, ApiInvariant, QuotaLagHolds, PTL DEF ApiSpec, LedgerSpec

=============================================================================
