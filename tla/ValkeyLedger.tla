---------------------------- MODULE ValkeyLedger ----------------------------
(***************************************************************************)
(* The management tables of the API (api/internal/valkey, api/internal/    *)
(* store) and what each HTTP mutation writes to them: instance rows,       *)
(* billing periods, idempotency keys, the audit log and the user quotas.   *)
(* Here a mutation is ONE step; ValkeyApi splits it into the transaction   *)
(* the code runs and implements this specification.                        *)
(*                                                                         *)
(* The operator appears through the part of the ValkeyInstance resource    *)
(* that the import loop reads: the configuration it accepted and what it   *)
(* reports of it.  The delivery of a row to Kubernetes is folded into the  *)
(* two Accept actions; ValkeySync has the delivery loop itself.            *)
(***************************************************************************)
EXTENDS Integers, Sequences, FiniteSets, Functions

CONSTANTS
    Users, Ids, Names, Windows, Keys, Pws, Whitelists,  \* sets of model values
    NoKey,          \* the "key" of a request without Idempotency-Key
    NoId,           \* the "id" of a create request
    NoRow, NoEntry, NoCR,
    Sizes,          \* the catalogue, a set of [vcpu, ram] records
    InitialQuota,   \* the user_quotas row registration writes
    LoweredQuota,   \* the limits a migration gives every user
    CpuMilli, RamMiB, InstanceLimit,
    KeyTTL,         \* idempotencyTTL, in clock ticks
    StaleAfter,     \* the minute of isStale, in clock ticks
    Requests,       \* the HTTP mutations clients may send, again and again
    MaxClock,       \* bound: the last clock value
    MaxAudit,       \* bound: the length of the audit log
    MaxReads        \* bound: observations read and not yet imported

Null == 0           \* SQL NULL of a timestamp; the clock starts at 1
Zero == [vcpu |-> 0, ram |-> 0]
Modes == {"single", "ha"}
Phases == {"provisioning", "running", "updating", "degraded", "unavailable", "error"}
Ops == {"create", "patch", "resize", "whitelist", "rotate", "delete"}
KeyedOps == {"create", "resize", "rotate"}  \* the handlers that demand a key
Time == Nat

Request == [op: Ops, user: Users, id: Ids \cup {NoId}, key: Keys \cup {NoKey},
            name: Names, window: Windows, mode: Modes, size: Sizes, pw: Pws,
            expected: Nat, wl: Whitelists]

Row == [user: Users, name: Names, window: Windows, mode: Modes, size: Sizes,
        wl: Whitelists, pw: Pws, passwordVersion: Nat, desiredGeneration: Nat,
        deletionRequested: BOOLEAN, deleted: BOOLEAN, phase: Phases,
        observedGeneration: Nat, observedAt: Time,
        appliedPasswordVersion: Nat, applied: Sizes \cup {Zero}]

Period == [size: Sizes, startedAt: Time, endedAt: Time,
           endedReason: {"", "resized", "deleted"}]

Event == [action: Ops, user: Users, id: Ids, key: Keys \cup {NoKey}, at: Time]

\* What canonicalHash tells apart of a request: everything but who sends it and
\* under which key.
Hash(r) == <<r.op, r.id, r.name, r.mode, r.size, r.pw, r.expected, r.wl, r.window>>

Entry == [hash: {Hash(r) : r \in Requests}, at: Time]

Intents == [generation: Nat, size: Sizes, passwordVersion: Nat, wl: Whitelists]

Status == [observedGeneration: Nat, phase: Phases, observedAt: Time,
           appliedPasswordVersion: Nat, applied: Sizes \cup {Zero}]

Resource == [accepted: Intents, status: Status]

Observation == [id: Ids, status: Status]

QuotaRow == [vcpu: Nat, ram: Nat]

ASSUME LedgerAssumption ==
    /\ KeyTTL \in Nat \ {0}
    /\ StaleAfter \in Nat
    /\ Requests \subseteq Request
    /\ \A r \in Requests : r.op \in KeyedOps <=> r.key \in Keys
    /\ Sizes \subseteq [vcpu: Nat \ {0}, ram: Nat \ {0}]
    /\ InitialQuota \in QuotaRow
    /\ LoweredQuota \in QuotaRow
    /\ NoKey \notin Keys
    /\ NoId \notin Ids
    /\ NoRow \notin Row
    /\ NoEntry \notin Entry
    /\ NoCR \notin Resource

VARIABLES
    rows,      \* valkey_instances
    billing,   \* billing_periods of each instance, oldest first
    keys,      \* idempotency_keys
    audit,     \* audit_logs; the key of the request is kept beside each event
    quota,     \* user_quotas, as the mutations have read it
    cr,        \* the ValkeyInstance resource of each instance
    imported,  \* statuses the import loop has read and not yet written
    clock,     \* clock_timestamp()
    stamp      \* `now` of the last committed mutation

tables == <<rows, billing, keys, audit>>
ledgerVars == <<rows, billing, keys, audit, quota, cr, imported, clock, stamp>>

-----------------------------------------------------------------------------
(* Catalogue and quota                                                      *)

ProcessCount(mode) == IF mode = "ha" THEN 3 ELSE 1

Larger(a, b) == IF a > b THEN a ELSE b

\* A bug: the reservation of the requested size only.
ReserveDesired(mode, desired, applied) ==
    [vcpu |-> ProcessCount(mode) * desired.vcpu,
     ram  |-> ProcessCount(mode) * desired.ram]

Reserve(mode, desired, applied) ==
    [vcpu |-> ProcessCount(mode) * Larger(desired.vcpu, applied.vcpu),
     ram  |-> ProcessCount(mode) * Larger(desired.ram, applied.ram)]

ReserveOf(i) == Reserve(rows[i].mode, rows[i].size, rows[i].applied)

\* deleted_at IS NULL
Active == {i \in Ids : rows[i] # NoRow /\ ~rows[i].deleted}

Owned(u) == {i \in Active : rows[i].user = u}

ValkeyUsage(S) ==
    [vcpu |-> SumFunction([i \in S |-> ReserveOf(i).vcpu]),
     ram  |-> SumFunction([i \in S |-> ReserveOf(i).ram])]

\* Over the limit is tolerated when the request does not make it worse.
Exceeds(requested, used, limit) == requested > limit /\ requested > used

\* A bug: only the user's own limits are checked.
UserQuotaAllows(u, current, candidate, isCreate) ==
    LET mine == ValkeyUsage(Owned(u))
    IN  /\ ~Exceeds(mine.vcpu - current.vcpu + candidate.vcpu, mine.vcpu, quota[u].vcpu)
        /\ ~Exceeds(mine.ram - current.ram + candidate.ram, mine.ram, quota[u].ram)

\* checkQuota: the user's quota, the number of instances, the cluster.
QuotaAllows(u, current, candidate, isCreate) ==
    LET mine == ValkeyUsage(Owned(u))
        all  == ValkeyUsage(Active)
    IN  /\ ~Exceeds(mine.vcpu - current.vcpu + candidate.vcpu, mine.vcpu, quota[u].vcpu)
        /\ ~Exceeds(mine.ram - current.ram + candidate.ram, mine.ram, quota[u].ram)
        /\ isCreate => Cardinality(Active) + 1 <= InstanceLimit
        /\ ~Exceeds((all.vcpu - current.vcpu + candidate.vcpu) * 1000,
                    all.vcpu * 1000, CpuMilli)
        /\ ~Exceeds((all.ram - current.ram + candidate.ram) * 1024,
                    all.ram * 1024, RamMiB)

-----------------------------------------------------------------------------
(* Guards shared by the mutations                                           *)

\* FindOwnedValkeyInstanceForUpdate: deleted rows are found too.
Found(r) == r.id \in Ids /\ rows[r.id] # NoRow /\ rows[r.id].user = r.user

\* A bug: a key one tick short of its lifetime is already replaced.
KeyFreeEarly(r, now) ==
    \/ keys[<<r.user, r.key>>] = NoEntry
    \/ keys[<<r.user, r.key>>].at <= now - KeyTTL + 1

\* liveIdempotencyKey finds nothing to replay and no mismatch: there is no key,
\* or it has lived its TTL and is replaced.
KeyFree(r, now) ==
    \/ keys[<<r.user, r.key>>] = NoEntry
    \/ keys[<<r.user, r.key>>].at <= now - KeyTTL

IsStale(row, now) == row.observedAt = Null \/ now - row.observedAt > StaleAfter

EnsureReady(row, now) ==
    /\ row.desiredGeneration = row.observedGeneration
    /\ row.phase \in {"running", "degraded"}
    /\ ~IsStale(row, now)

NameTaken(u, name, except) == \E i \in Owned(u) \ {except} : rows[i].name = name

OpenPeriod(size, now) ==
    [size |-> size, startedAt |-> now, endedAt |-> Null, endedReason |-> ""]

\* CloseBillingPeriod fails, and the transaction with it, unless exactly one
\* period is open.
CanClose(i) ==
    \E k \in DOMAIN billing[i] :
        \A m \in DOMAIN billing[i] : billing[i][m].endedAt = Null <=> m = k

\* A bug: the condition ended_at IS NULL is missing.
ClosedAgain(i, now, reason) ==
    [k \in DOMAIN billing[i] |->
        [billing[i][k] EXCEPT !.endedAt = now, !.endedReason = reason]]

Closed(i, now, reason) ==
    [k \in DOMAIN billing[i] |->
        IF billing[i][k].endedAt = Null
        THEN [billing[i][k] EXCEPT !.endedAt = now, !.endedReason = reason]
        ELSE billing[i][k]]

\* The writes of a transaction: the instance row, its billing periods, the
\* idempotency key of the request and the audit events.
Write(r, i, row, periods, now, events) ==
    [id |-> i, row |-> row, periods |-> periods,
     entry |-> [hash |-> Hash(r), at |-> now], events |-> events]

Audited(r, i, now) ==
    <<[action |-> r.op, user |-> r.user, id |-> i, key |-> r.key, at |-> now]>>

-----------------------------------------------------------------------------
(* The writes each mutation may commit.  The empty set is an error answer, a *)
(* replayed answer or a request that changes nothing.                        *)

NewRow(r) ==
    [user |-> r.user, name |-> r.name, window |-> r.window, mode |-> r.mode,
     size |-> r.size, wl |-> r.wl, pw |-> r.pw, passwordVersion |-> 1,
     desiredGeneration |-> 1, deletionRequested |-> FALSE, deleted |-> FALSE,
     phase |-> "provisioning", observedGeneration |-> 0, observedAt |-> Null,
     appliedPasswordVersion |-> 0, applied |-> Zero]

Create(r, now) ==
    IF /\ KeyFree(r, now)
       /\ ~NameTaken(r.user, r.name, NoId)
       /\ QuotaAllows(r.user, Zero, Reserve(r.mode, r.size, Zero), TRUE)
    THEN {Write(r, i, NewRow(r), <<OpenPeriod(r.size, now)>>, now, Audited(r, i, now)) :
             i \in {j \in Ids : rows[j] = NoRow}}
    ELSE {}

\* A field PATCH leaves out is a field sent with its current value.
Patch(r, now) ==
    IF /\ Found(r)
       /\ ~rows[r.id].deletionRequested
       /\ r.name # rows[r.id].name \/ r.window # rows[r.id].window
       /\ ~NameTaken(r.user, r.name, r.id)
    THEN {Write(r, r.id, [rows[r.id] EXCEPT !.name = r.name, !.window = r.window],
                billing[r.id], now, Audited(r, r.id, now))}
    ELSE {}

\* A bug: the new period starts without the old one ending.
ResizeNoClose(r, now) ==
    IF /\ EnsureReady(rows[r.id], now)
       /\ QuotaAllows(r.user, ReserveOf(r.id),
                      Reserve(rows[r.id].mode, r.size, rows[r.id].applied), FALSE)
    THEN {Write(r, r.id,
                [rows[r.id] EXCEPT !.size = r.size, !.desiredGeneration = @ + 1],
                Append(billing[r.id], OpenPeriod(r.size, now)),
                now, Audited(r, r.id, now))}
    ELSE {}

\* A changed size closes the billing period and opens the next at once.
ResizeChange(r, now) ==
    IF /\ EnsureReady(rows[r.id], now)
       /\ QuotaAllows(r.user, ReserveOf(r.id),
                      Reserve(rows[r.id].mode, r.size, rows[r.id].applied), FALSE)
       /\ CanClose(r.id)
    THEN {Write(r, r.id,
                [rows[r.id] EXCEPT !.size = r.size, !.desiredGeneration = @ + 1],
                Append(Closed(r.id, now, "resized"), OpenPeriod(r.size, now)),
                now, Audited(r, r.id, now))}
    ELSE {}

Resize(r, now) ==
    IF Found(r) /\ KeyFree(r, now) /\ ~rows[r.id].deletionRequested
    THEN IF rows[r.id].size = r.size
         THEN {Write(r, r.id, rows[r.id], billing[r.id], now, <<>>)}
         ELSE ResizeChange(r, now)
    ELSE {}

UpdateWhitelist(r, now) ==
    IF /\ Found(r)
       /\ ~rows[r.id].deletionRequested
       /\ r.wl # rows[r.id].wl
       /\ EnsureReady(rows[r.id], now)
    THEN {Write(r, r.id, [rows[r.id] EXCEPT !.wl = r.wl, !.desiredGeneration = @ + 1],
                billing[r.id], now, Audited(r, r.id, now))}
    ELSE {}

RotatePassword(r, now) ==
    IF /\ Found(r)
       /\ KeyFree(r, now)
       /\ ~rows[r.id].deletionRequested
       /\ EnsureReady(rows[r.id], now)
       /\ rows[r.id].passwordVersion = r.expected
       /\ rows[r.id].pw # r.pw
    THEN {Write(r, r.id, [rows[r.id] EXCEPT !.pw = r.pw, !.passwordVersion = @ + 1,
                                            !.desiredGeneration = @ + 1],
                billing[r.id], now, Audited(r, r.id, now))}
    ELSE {}

Delete(r, now) ==
    IF /\ Found(r)
       /\ ~rows[r.id].deletionRequested
       /\ CanClose(r.id)
    THEN {Write(r, r.id, [rows[r.id] EXCEPT !.deletionRequested = TRUE],
                Closed(r.id, now, "deleted"), now, Audited(r, r.id, now))}
    ELSE {}

Plan(r, now) ==
    CASE r.op = "create"    -> Create(r, now)
      [] r.op = "patch"     -> Patch(r, now)
      [] r.op = "resize"    -> Resize(r, now)
      [] r.op = "whitelist" -> UpdateWhitelist(r, now)
      [] r.op = "rotate"    -> RotatePassword(r, now)
      [] r.op = "delete"    -> Delete(r, now)

\* A bug: the answer is sent without being remembered.
ApplyUnremembered(r, w) ==
    /\ rows' = [rows EXCEPT ![w.id] = w.row]
    /\ billing' = [billing EXCEPT ![w.id] = w.periods]
    /\ audit' = audit \o w.events
    /\ UNCHANGED keys

Apply(r, w) ==
    /\ rows' = [rows EXCEPT ![w.id] = w.row]
    /\ billing' = [billing EXCEPT ![w.id] = w.periods]
    /\ keys' = IF r.key \in Keys
               THEN [keys EXCEPT ![<<r.user, r.key>>] = w.entry]
               ELSE keys
    /\ audit' = audit \o w.events

Mutate(r, now, w) ==
    /\ stamp <= now /\ now <= clock   \* `now` is read under the lock, before commit
    /\ w \in Plan(r, now)
    /\ Len(audit) < MaxAudit
    /\ Apply(r, w)
    /\ stamp' = now
    /\ UNCHANGED <<quota, cr, imported, clock>>

\* The migration that sets every quota, once a mutation has seen it.
LowerQuota ==
    /\ quota' = [u \in Users |-> LoweredQuota]
    /\ UNCHANGED <<rows, billing, keys, audit, cr, imported, clock, stamp>>

-----------------------------------------------------------------------------
(* The operator, as far as the import loop sees it                          *)

IntentOf(row) ==
    [generation |-> row.desiredGeneration, size |-> row.size,
     passwordVersion |-> row.passwordVersion, wl |-> row.wl]

Alive(i) == cr[i] # NoCR

\* The configuration that was accepted runs everywhere: no rollout and no
\* password rotation is unfinished.
Settled(accepted, status) ==
    /\ status.applied = accepted.size
    /\ status.appliedPasswordVersion = accepted.passwordVersion

\* The statuses applyOperationalPhase may write: the primary is not ready; an
\* operation is active; or all is well, and the accepted generation is confirmed.
\* Only "ha" has replicas to miss and a failover to wait for.
Operational(mode, accepted, status) ==
    LET Confirmed(p) == [status EXCEPT !.phase = p,
                                       !.observedGeneration = accepted.generation]
        unavailable  == [status EXCEPT !.phase = "unavailable"]
        updating     == [status EXCEPT !.phase = "updating"]
    IN  {unavailable} \cup
        (IF ~Settled(accepted, status) THEN {updating}
         ELSE IF mode = "ha" THEN {updating, Confirmed("running"), Confirmed("degraded")}
              ELSE {Confirmed("running")})

OperatorStep == UNCHANGED <<rows, billing, keys, audit, quota, imported, clock, stamp>>

\* One status update of the operator: some outcome of applyOperationalPhase on
\* what it has just learned.
UpdateStatus(i, status) ==
    \E new \in Operational(rows[i].mode, cr[i].accepted, status) :
        cr' = [cr EXCEPT ![i].status = new]

\* The first delivered specification is accepted.
AcceptFirst(i) ==
    /\ i \in Active /\ ~rows[i].deletionRequested
    /\ ~Alive(i)
    /\ cr' = [cr EXCEPT ![i] =
                [accepted |-> IntentOf(rows[i]),
                 status |-> [observedGeneration |-> 0, phase |-> "provisioning",
                             observedAt |-> Null, appliedPasswordVersion |-> 0,
                             applied |-> Zero]]]
    /\ OperatorStep

\* A bug: a new generation is accepted over one that is not finished.
AcceptAny(i) ==
    /\ i \in Active /\ ~rows[i].deletionRequested
    /\ Alive(i)
    /\ rows[i].desiredGeneration > cr[i].accepted.generation
    /\ rows[i].wl = cr[i].accepted.wl
    /\ cr' = [cr EXCEPT ![i].accepted = IntentOf(rows[i]),
                        ![i].status.observedGeneration = rows[i].desiredGeneration]
    /\ OperatorStep

\* A newer specification is accepted once the accepted one is complete; one that
\* changes the whitelist is refused.
AcceptNext(i) ==
    /\ i \in Active /\ ~rows[i].deletionRequested
    /\ Alive(i)
    /\ rows[i].desiredGeneration > cr[i].accepted.generation
    /\ rows[i].wl = cr[i].accepted.wl
    /\ cr[i].status.observedGeneration = cr[i].accepted.generation
    /\ Settled(cr[i].accepted, cr[i].status)
    /\ cr' = [cr EXCEPT ![i].accepted = IntentOf(rows[i]),
                        ![i].status.phase = IF @ = "unavailable" THEN @ ELSE "updating"]
    /\ OperatorStep

\* finishAppAdmission for the first time: the instance is initialized.
Admit(i) ==
    /\ Alive(i)
    /\ cr[i].status.applied = Zero /\ cr[i].status.phase # "error"
    /\ UpdateStatus(i, [cr[i].status EXCEPT
            !.applied = cr[i].accepted.size,
            !.appliedPasswordVersion = cr[i].accepted.passwordVersion,
            !.observedAt = clock])
    /\ OperatorStep

\* reconcileProvisioningDeadline; the time of the last observation stays.
ProvisioningTimeout(i) ==
    /\ Alive(i)
    /\ cr[i].status.applied = Zero /\ cr[i].status.phase # "error"
    /\ cr' = [cr EXCEPT ![i].status.phase = "error"]
    /\ OperatorStep

FinishRollout(i) ==
    /\ Alive(i)
    /\ cr[i].status.applied \notin {Zero, cr[i].accepted.size}
    /\ UpdateStatus(i, [cr[i].status EXCEPT !.applied = cr[i].accepted.size])
    /\ OperatorStep

FinishCredentialRotation(i) ==
    /\ Alive(i)
    /\ cr[i].status.applied # Zero
    /\ cr[i].status.appliedPasswordVersion # cr[i].accepted.passwordVersion
    /\ UpdateStatus(i, [cr[i].status EXCEPT
            !.appliedPasswordVersion = cr[i].accepted.passwordVersion])
    /\ OperatorStep

\* The heartbeat of a process that answers, and the phase that follows from it;
\* before the first admission only the heartbeat.
Observe(i) ==
    /\ Alive(i)
    /\ cr[i].status.phase # "error"
    /\ \E at \in {cr[i].status.observedAt, clock} :
          IF cr[i].status.applied = Zero
          THEN cr' = [cr EXCEPT ![i].status.observedAt = at]
          ELSE UpdateStatus(i, [cr[i].status EXCEPT !.observedAt = at])
    /\ OperatorStep

\* The finalizer is removed after the last process stopped.
ResourceGone(i) ==
    /\ Alive(i)
    /\ i \in Active /\ rows[i].deletionRequested
    /\ cr' = [cr EXCEPT ![i] = NoCR]
    /\ OperatorStep

-----------------------------------------------------------------------------
(* The import loop                                                          *)

\* importInstance up to the store: a row that is not being deleted, a resource
\* that has been observed.
ImportRead(i) ==
    /\ i \in Active /\ ~rows[i].deletionRequested
    /\ Alive(i)
    /\ cr[i].status.observedAt # Null
    /\ Cardinality(imported) < MaxReads
    /\ imported' = imported \cup {[id |-> i, status |-> cr[i].status]}
    /\ UNCHANGED <<rows, billing, keys, audit, quota, cr, clock, stamp>>

\* A bug: observations are written in whatever order they arrive.
UnorderedObservation(row, status) ==
    /\ ~row.deletionRequested
    /\ status.observedGeneration <= row.desiredGeneration
    /\ status.appliedPasswordVersion <= row.passwordVersion

ValidObservation(row, status) ==
    /\ ~row.deletionRequested
    /\ status.observedGeneration >= row.observedGeneration
    /\ status.appliedPasswordVersion >= row.appliedPasswordVersion
    /\ status.observedAt >= row.observedAt
    /\ status.observedGeneration <= row.desiredGeneration
    /\ status.appliedPasswordVersion <= row.passwordVersion

Observed(row, status) ==
    [row EXCEPT !.phase = status.phase,
                !.observedGeneration = status.observedGeneration,
                !.observedAt = status.observedAt,
                !.appliedPasswordVersion = status.appliedPasswordVersion,
                !.applied = IF status.applied = Zero THEN @ ELSE status.applied]

\* ImportValkeyObservation; what it refuses is dropped.
ImportApply(o) ==
    /\ o \in imported
    /\ imported' = imported \ {o}
    /\ rows' = IF o.id \in Active /\ ValidObservation(rows[o.id], o.status)
               THEN [rows EXCEPT ![o.id] = Observed(@, o.status)]
               ELSE rows
    /\ UNCHANGED <<billing, keys, audit, quota, cr, clock, stamp>>

\* A bug: the phase column is given the status the event reports.
CompleteDeletionPhase(i) ==
    /\ i \in Active /\ rows[i].deletionRequested
    /\ ~Alive(i)
    /\ rows' = [rows EXCEPT ![i].deleted = TRUE, ![i].phase = "deleted"]
    /\ UNCHANGED <<billing, keys, audit, quota, cr, imported, clock, stamp>>

\* CompleteValkeyDeletion: the namespace, and the resource in it, are gone.
CompleteDeletion(i) ==
    /\ i \in Active /\ rows[i].deletionRequested
    /\ ~Alive(i)
    /\ rows' = [rows EXCEPT ![i].deleted = TRUE]
    /\ UNCHANGED <<billing, keys, audit, quota, cr, imported, clock, stamp>>

Tick ==
    /\ clock < MaxClock
    /\ clock' = clock + 1
    /\ UNCHANGED <<rows, billing, keys, audit, quota, cr, imported, stamp>>

-----------------------------------------------------------------------------

LedgerInit ==
    /\ rows = [i \in Ids |-> NoRow]
    /\ billing = [i \in Ids |-> <<>>]
    /\ keys = [k \in Users \X Keys |-> NoEntry]
    /\ audit = <<>>
    /\ quota = [u \in Users |-> InitialQuota]
    /\ cr = [i \in Ids |-> NoCR]
    /\ imported = {}
    /\ clock = 1
    /\ stamp = 1

MutationNext == \E r \in Requests, now \in 1..clock : \E w \in Plan(r, now) : Mutate(r, now, w)

OperatorNext ==
    \E i \in Ids : \/ AcceptFirst(i) \/ AcceptNext(i) \/ Admit(i)
                   \/ ProvisioningTimeout(i) \/ FinishRollout(i)
                   \/ FinishCredentialRotation(i) \/ Observe(i) \/ ResourceGone(i)

SyncNext ==
    \/ \E i \in Ids : ImportRead(i) \/ CompleteDeletion(i)
    \/ \E o \in imported : ImportApply(o)

LedgerNext == MutationNext \/ LowerQuota \/ OperatorNext \/ SyncNext \/ Tick

LedgerSpec == LedgerInit /\ [][LedgerNext]_ledgerVars

\* The operator reconciles an instance again until nothing is left to do and the
\* two loops of the API run on tickers: none of their steps is put off for ever.
\* Clients, the migration and the clock owe nothing.
LedgerFairness ==
    /\ \A i \in Ids : /\ WF_ledgerVars(AcceptFirst(i))
                      /\ WF_ledgerVars(AcceptNext(i))
                      /\ WF_ledgerVars(FinishRollout(i))
                      /\ WF_ledgerVars(FinishCredentialRotation(i))
                      /\ WF_ledgerVars(ResourceGone(i))
                      /\ WF_ledgerVars(ImportRead(i))
                      /\ WF_ledgerVars(CompleteDeletion(i))
    /\ WF_ledgerVars(\E o \in imported : ImportApply(o))

FairLedgerSpec == LedgerSpec /\ LedgerFairness

-----------------------------------------------------------------------------
(* Properties                                                               *)

\* Every table and status field holds values of its column's type.
TypeOK ==
    /\ rows \in [Ids -> Row \cup {NoRow}]
    /\ billing \in [Ids -> Seq(Period)]
    /\ keys \in [Users \X Keys -> Entry \cup {NoEntry}]
    /\ audit \in Seq(Event)
    /\ quota \in [Users -> QuotaRow]
    /\ cr \in [Ids -> Resource \cup {NoCR}]
    /\ imported \subseteq Observation
    /\ clock \in Nat \ {0}
    /\ stamp \in 1..clock

\* checkQuota with the import loop: the reservation of a user, and of the
\* cluster, grows only to within its limit, whichever step makes it grow; a quota
\* lowered below what is used blocks growth and nothing else.
GrowsWithin(before, after, vcpu, ram) ==
    /\ after.vcpu > before.vcpu => after.vcpu <= vcpu
    /\ after.ram > before.ram => after.ram <= ram

QuotaRespected ==
    [][/\ \A u \in Users : GrowsWithin(ValkeyUsage(Owned(u)), ValkeyUsage(Owned(u))',
                                       quota[u].vcpu, quota[u].ram)
       /\ GrowsWithin(ValkeyUsage(Active), ValkeyUsage(Active)',
                      CpuMilli \div 1000, RamMiB \div 1024)
       /\ Cardinality(Active') <= Cardinality(Active) \/ Cardinality(Active') <= InstanceLimit
      ]_ledgerVars

Covers(a, b) == a.vcpu >= b.vcpu /\ a.ram >= b.ram

\* What every process of an instance takes together.
Footprint(mode, size) ==
    [vcpu |-> ProcessCount(mode) * size.vcpu, ram |-> ProcessCount(mode) * size.ram]

\* What the quota counts is never less than what the cluster runs: the size the
\* operator has accepted, and the size still applied, of every resource that is
\* alive fit in the reservation of its row, down-sizing included.
ReservationCoversReality ==
    \A i \in Ids : Alive(i) =>
        /\ i \in Active
        /\ Covers(ReserveOf(i), Footprint(rows[i].mode, cr[i].status.applied))
        /\ Covers(ReserveOf(i), Footprint(rows[i].mode, cr[i].accepted.size))

Timeline(row, p) ==
    /\ row = NoRow <=> p = <<>>
    /\ \A k \in 1..Len(p) :
          /\ p[k].endedAt = Null <=> (k = Len(p) /\ ~row.deletionRequested)
          /\ p[k].endedAt # Null => p[k].startedAt <= p[k].endedAt
          /\ k < Len(p) => p[k].endedAt = p[k + 1].startedAt
    /\ p # <<>> => p[Len(p)].size = row.size

\* The billing periods of an instance follow one another without a gap or an
\* overlap from its creation to the deletion request; the open one has the size
\* the row asks for.
BillingTimeline == \A i \in Ids : Timeline(rows[i], billing[i])

\* A closed billing period is never changed and no period is ever dropped.
BillingHistoryKept ==
    [][\A i \in Ids : \A k \in DOMAIN billing[i] :
          /\ k \in DOMAIN billing'[i]
          /\ billing[i][k].endedAt # Null => billing'[i][k] = billing[i][k]
      ]_ledgerVars

\* A retry of a keyed request within the key's lifetime changes nothing: two
\* audited changes under one key of one user are at least a lifetime apart.
ExactlyOnce ==
    \A j, k \in DOMAIN audit :
        /\ j < k
        /\ audit[j].key \in Keys
        /\ audit[j].key = audit[k].key
        /\ audit[j].user = audit[k].user
        => audit[k].at - audit[j].at >= KeyTTL

\* A row whose desired generation is observed tells the truth: the resource runs
\* exactly what the row asks for.
ReadyMeansApplied ==
    \A i \in Ids : (Alive(i) /\ rows[i].desiredGeneration = rows[i].observedGeneration) =>
        /\ cr[i].accepted = IntentOf(rows[i])
        /\ Settled(cr[i].accepted, cr[i].status)
        /\ rows[i].applied = rows[i].size
        /\ rows[i].appliedPasswordVersion = rows[i].passwordVersion

\* What a row reports never goes back in time, and nothing is reported of an
\* instance once its deletion was requested.
ObservationOrder ==
    [][\A i \in Active : rows'[i] # rows[i] =>
          /\ rows'[i].observedGeneration >= rows[i].observedGeneration
          /\ rows'[i].appliedPasswordVersion >= rows[i].appliedPasswordVersion
          /\ rows'[i].observedAt >= rows[i].observedAt
          /\ rows[i].deletionRequested =>
                rows'[i] = [rows[i] EXCEPT !.deleted = TRUE]
      ]_ledgerVars

\* "The change takes effect once the gateway confirms it": the operator takes over
\* the whitelist UpdateWhitelist has stored, unless it changes again or the
\* instance is deleted.
WhitelistTakesEffect ==
    \A i \in Ids, w \in Whitelists :
        (Alive(i) /\ rows[i] # NoRow /\ rows[i].wl = w) ~>
            \/ Alive(i) /\ cr[i].accepted.wl = w
            \/ rows[i] # NoRow /\ (rows[i].wl # w \/ rows[i].deletionRequested)

\* "error: the initial creation did not finish in time" is what the user sees when
\* the operator has given up on the creation.
FailureIsReported ==
    \A i \in Ids :
        (Alive(i) /\ cr[i].status.phase = "error") ~>
            (rows[i] # NoRow /\ (rows[i].phase = "error" \/ rows[i].deletionRequested))

=============================================================================
