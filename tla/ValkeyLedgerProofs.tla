------------------------- MODULE ValkeyLedgerProofs -------------------------
(***************************************************************************)
(* Theorems about ValkeyLedger, for every set of users, instances, keys    *)
(* and requests and without the bounds of the model-checking runs.         *)
(***************************************************************************)
EXTENDS ValkeyLedger, TLAPS

\* What a transaction may write.
WriteType == [id: Ids, row: Row, periods: Seq(Period), entry: Entry, events: Seq(Event)]

-----------------------------------------------------------------------------
(* Types of the helpers                                                     *)

\* Every update a mutation makes to a row gives a row.
LEMMA RowUpdates ==
    ASSUME NEW row \in Row, NEW r \in Request
    PROVE  /\ [row EXCEPT !.name = r.name, !.window = r.window] \in Row
           /\ [row EXCEPT !.size = r.size, !.desiredGeneration = @ + 1] \in Row
           /\ [row EXCEPT !.wl = r.wl, !.desiredGeneration = @ + 1] \in Row
           /\ [row EXCEPT !.pw = r.pw, !.passwordVersion = @ + 1,
                          !.desiredGeneration = @ + 1] \in Row
           /\ [row EXCEPT !.deletionRequested = TRUE] \in Row
<1>1. /\ row.desiredGeneration + 1 \in Nat
      /\ row.passwordVersion + 1 \in Nat
  BY DEF Row
<1>2. /\ r.name \in Names /\ r.window \in Windows /\ r.size \in Sizes
      /\ r.wl \in Whitelists /\ r.pw \in Pws
  BY DEF Request
<1>3. [row EXCEPT !.name = r.name, !.window = r.window] \in Row
  BY <1>2, Zenon DEF Row
<1>4. [row EXCEPT !.size = r.size, !.desiredGeneration = @ + 1] \in Row
  BY <1>1, <1>2, Zenon DEF Row
<1>5. [row EXCEPT !.wl = r.wl, !.desiredGeneration = @ + 1] \in Row
  BY <1>1, <1>2, Zenon DEF Row
<1>6. [row EXCEPT !.pw = r.pw, !.passwordVersion = @ + 1,
                  !.desiredGeneration = @ + 1] \in Row
  BY <1>1, <1>2, Zenon DEF Row
<1>7. [row EXCEPT !.deletionRequested = TRUE] \in Row
  BY Zenon DEF Row
<1>8. QED
  BY <1>3, <1>4, <1>5, <1>6, <1>7

\* Closing keeps the number of periods and their type.
LEMMA ClosedType ==
    ASSUME TypeOK, NEW i \in Ids, NEW now \in Nat,
           NEW reason \in {"resized", "deleted"}
    PROVE  /\ Closed(i, now, reason) \in Seq(Period)
           /\ Len(Closed(i, now, reason)) = Len(billing[i])
<1> DEFINE s == Closed(i, now, reason)
<1>1. billing[i] \in Seq(Period)
  BY DEF TypeOK
<1>2. /\ Len(billing[i]) \in Nat
      /\ DOMAIN billing[i] = 1..Len(billing[i])
  BY <1>1
<1>3. ASSUME NEW p \in Period
      PROVE  [p EXCEPT !.endedAt = now, !.endedReason = reason] \in Period
  BY DEF Period, Time
<1>4. s \in [1..Len(billing[i]) -> Period]
  <2>1. ASSUME NEW k \in 1..Len(billing[i])
        PROVE  billing[i][k] \in Period
    BY <1>1
  <2>2. QED
    BY <1>2, <1>3, <2>1, Zenon DEF Closed
<1>5. QED
  BY <1>2, <1>4

LEMMA WriteTyped ==
    ASSUME NEW r \in Requests, NEW i \in Ids, NEW row \in Row,
           NEW periods \in Seq(Period), NEW now \in Nat, NEW events \in Seq(Event)
    PROVE  Write(r, i, row, periods, now, events) \in WriteType
  BY DEF Write, WriteType, Entry, Time

LEMMA AuditedType ==
    ASSUME NEW r \in Requests, NEW i \in Ids, NEW now \in Nat
    PROVE  Audited(r, i, now) \in Seq(Event)
<1>1. [action |-> r.op, user |-> r.user, id |-> i, key |-> r.key, at |-> now] \in Event
  BY LedgerAssumption DEF Event, Request, Time
<1>2. QED
  BY <1>1 DEF Audited

LEMMA OpenPeriodType ==
    ASSUME NEW size \in Sizes, NEW now \in Nat
    PROVE  OpenPeriod(size, now) \in Period
  BY DEF OpenPeriod, Period, Time, Null

\* Every plan of every mutation is a set of well-typed writes.
LEMMA PlanType ==
    ASSUME TypeOK, NEW r \in Requests, NEW now \in Nat
    PROVE  Plan(r, now) \subseteq WriteType
<1>0. r \in Request
  BY LedgerAssumption
<1>1. ASSUME NEW i \in Ids
      PROVE  /\ billing[i] \in Seq(Period)
             /\ rows[i] # NoRow => rows[i] \in Row
             /\ Audited(r, i, now) \in Seq(Event)
  BY AuditedType DEF TypeOK
<1>2. Found(r) => r.id \in Ids /\ rows[r.id] \in Row
  BY <1>1 DEF Found
<1>3. ASSUME NEW i \in Ids, NEW row \in Row, NEW periods \in Seq(Period),
             NEW events \in Seq(Event)
      PROVE  Write(r, i, row, periods, now, events) \in WriteType
  BY WriteTyped
<1>4. OpenPeriod(r.size, now) \in Period
  BY <1>0, OpenPeriodType DEF Request
<1>5. Create(r, now) \subseteq WriteType
  <2>1. NewRow(r) \in Row
    BY <1>0 DEF NewRow, Row, Request, Modes, Phases, Time, Null
  <2>2. <<OpenPeriod(r.size, now)>> \in Seq(Period)
    BY <1>4
  <2>3. ASSUME NEW i \in Ids
        PROVE  Write(r, i, NewRow(r), <<OpenPeriod(r.size, now)>>, now,
                     Audited(r, i, now)) \in WriteType
    BY <1>1, <1>3, <2>1, <2>2
  <2>4. QED
    BY <2>3, Zenon DEF Create
<1>6. Patch(r, now) \subseteq WriteType
  <2>1. ASSUME Found(r)
        PROVE  Write(r, r.id, [rows[r.id] EXCEPT !.name = r.name, !.window = r.window],
                     billing[r.id], now, Audited(r, r.id, now)) \in WriteType
    BY <1>0, <1>1, <1>2, <1>3, <2>1, RowUpdates
  <2>2. QED
    BY <2>1, Zenon DEF Patch
<1>7. Resize(r, now) \subseteq WriteType
  <2>1. ASSUME Found(r)
        PROVE  Append(Closed(r.id, now, "resized"), OpenPeriod(r.size, now)) \in Seq(Period)
    BY <1>2, <1>4, <2>1, ClosedType
  <2>2. ASSUME Found(r)
        PROVE  ResizeChange(r, now) \subseteq WriteType
    <3>1. Write(r, r.id, [rows[r.id] EXCEPT !.size = r.size, !.desiredGeneration = @ + 1],
                Append(Closed(r.id, now, "resized"), OpenPeriod(r.size, now)),
                now, Audited(r, r.id, now)) \in WriteType
      BY <1>0, <1>1, <1>2, <1>3, <2>1, <2>2, RowUpdates
    <3>2. QED
      BY <3>1, Zenon DEF ResizeChange
  <2>3. <<>> \in Seq(Event)
    OBVIOUS
  <2>4. QED
    BY <1>1, <1>2, <1>3, <2>2, <2>3 DEF Resize
<1>8. UpdateWhitelist(r, now) \subseteq WriteType
  BY <1>0, <1>1, <1>2, <1>3, RowUpdates DEF UpdateWhitelist
<1>9. RotatePassword(r, now) \subseteq WriteType
  BY <1>0, <1>1, <1>2, <1>3, RowUpdates DEF RotatePassword
<1>10. Delete(r, now) \subseteq WriteType
  BY <1>0, <1>1, <1>2, <1>3, RowUpdates, ClosedType DEF Delete
<1>11. QED
  BY <1>0, <1>5, <1>6, <1>7, <1>8, <1>9, <1>10 DEF Plan, Request, Ops

\* Whatever phase the operator computes, it writes a status.
LEMMA OperationalType ==
    ASSUME NEW mode, NEW accepted \in Intents, NEW status \in Status
    PROVE  Operational(mode, accepted, status) \subseteq Status
<1>1. ASSUME NEW p \in Phases
      PROVE  [status EXCEPT !.phase = p] \in Status
  BY Zenon DEF Status
<1>2. ASSUME NEW p \in Phases
      PROVE  [status EXCEPT !.phase = p,
                            !.observedGeneration = accepted.generation] \in Status
  <2>1. accepted.generation \in Nat
    BY DEF Intents
  <2>2. QED
    BY <2>1, Zenon DEF Status
<1>3. {"running", "degraded", "updating", "unavailable"} \subseteq Phases
  BY DEF Phases
<1>4. QED
  BY <1>1, <1>2, <1>3, Zenon DEF Operational

\* A status update of the operator leaves a resource.
LEMMA UpdateStatusType ==
    ASSUME TypeOK, NEW i \in Ids, Alive(i), NEW status \in Status, UpdateStatus(i, status)
    PROVE  cr' \in [Ids -> Resource \cup {NoCR}]
<1>1. cr[i] \in Resource /\ cr \in [Ids -> Resource \cup {NoCR}]
  BY DEF TypeOK, Alive
<1>2. cr[i].accepted \in Intents
  BY <1>1 DEF Resource
<1>3. PICK new \in Status : cr' = [cr EXCEPT ![i].status = new]
  BY <1>2, OperationalType DEF UpdateStatus
<1>4. [cr[i] EXCEPT !.status = new] \in Resource
  BY <1>1 DEF Resource
<1>5. QED
  BY <1>1, <1>3, <1>4, Zenon

LEMMA MutateType ==
    ASSUME TypeOK, NEW r \in Requests, NEW now \in 1..clock, NEW w \in Plan(r, now),
           Mutate(r, now, w)
    PROVE  TypeOK'
<1>1. now \in Nat /\ clock \in Nat /\ stamp \in 1..clock
  BY DEF TypeOK
<1>2. w \in WriteType
  BY <1>1, PlanType
<1>3. /\ w.id \in Ids /\ w.row \in Row /\ w.periods \in Seq(Period)
      /\ w.entry \in Entry /\ w.events \in Seq(Event)
  BY <1>2 DEF WriteType
<1>4. r.user \in Users
  BY LedgerAssumption DEF Request
<1>5. rows' \in [Ids -> Row \cup {NoRow}]
  BY <1>3 DEF TypeOK, Mutate, Apply
<1>6. billing' \in [Ids -> Seq(Period)]
  BY <1>3 DEF TypeOK, Mutate, Apply
<1>7. keys' \in [Users \X Keys -> Entry \cup {NoEntry}]
  BY <1>3, <1>4 DEF TypeOK, Mutate, Apply
<1>8. audit' \in Seq(Event)
  BY <1>3 DEF TypeOK, Mutate, Apply
<1>9. QED
  BY <1>1, <1>5, <1>6, <1>7, <1>8 DEF TypeOK, Mutate

\* The parts of TypeOK that the operator and the import loop can touch.
LEMMA OperatorType ==
    ASSUME TypeOK, OperatorNext
    PROVE  TypeOK'
<1>1. PICK i \in Ids : \/ AcceptFirst(i) \/ AcceptNext(i) \/ Admit(i)
                       \/ ProvisioningTimeout(i) \/ FinishRollout(i)
                       \/ FinishCredentialRotation(i) \/ Observe(i) \/ ResourceGone(i)
  BY DEF OperatorNext
<1>2. /\ cr \in [Ids -> Resource \cup {NoCR}]
      /\ clock \in Nat
      /\ Alive(i) => /\ cr[i] \in Resource
                     /\ cr[i].accepted \in Intents
                     /\ cr[i].status \in Status
  BY DEF TypeOK, Alive, Resource
<1>3. i \in Active => rows[i] \in Row /\ IntentOf(rows[i]) \in Intents
  BY DEF TypeOK, Active, IntentOf, Intents, Row
<1>4. cr' \in [Ids -> Resource \cup {NoCR}]
  <2>1. CASE AcceptFirst(i)
    <3>1. [accepted |-> IntentOf(rows[i]),
           status |-> [observedGeneration |-> 0, phase |-> "provisioning",
                       observedAt |-> Null, appliedPasswordVersion |-> 0,
                       applied |-> Zero]] \in Resource
      BY <1>3, <2>1 DEF AcceptFirst, Resource, Status, Phases, Time, Null
    <3>2. QED
      BY <1>2, <2>1, <3>1, Zenon DEF AcceptFirst
  <2>2. CASE AcceptNext(i)
    <3> DEFINE p == IF cr[i].status.phase = "unavailable" THEN cr[i].status.phase
                    ELSE "updating"
    <3>1. [cr[i].status EXCEPT !.phase = p] \in Status
      BY <1>2, <2>2 DEF AcceptNext, Status, Phases
    <3>2. [cr[i] EXCEPT !.accepted = IntentOf(rows[i]), !.status.phase = p] \in Resource
      BY <1>2, <1>3, <2>2, <3>1 DEF AcceptNext, Resource
    <3>3. cr' = [cr EXCEPT ![i] = [cr[i] EXCEPT !.accepted = IntentOf(rows[i]),
                                                !.status.phase = p]]
      BY <1>2, <2>2 DEF AcceptNext
    <3>4. QED
      BY <1>2, <3>2, <3>3, Zenon
  <2>3. CASE Admit(i)
    <3>1. [cr[i].status EXCEPT !.applied = cr[i].accepted.size,
                               !.appliedPasswordVersion = cr[i].accepted.passwordVersion,
                               !.observedAt = clock] \in Status
      BY <1>2, <2>3 DEF Admit, Status, Intents, Time
    <3>2. QED
      BY <2>3, <3>1, UpdateStatusType DEF Admit
  <2>4. CASE ProvisioningTimeout(i)
    <3>1. [cr[i].status EXCEPT !.phase = "error"] \in Status
      BY <1>2, <2>4 DEF ProvisioningTimeout, Status, Phases
    <3>2. [cr[i] EXCEPT !.status.phase = "error"] \in Resource
      BY <1>2, <2>4, <3>1 DEF ProvisioningTimeout, Resource
    <3>3. QED
      BY <1>2, <2>4, <3>2 DEF ProvisioningTimeout
  <2>5. CASE FinishRollout(i)
    <3>1. [cr[i].status EXCEPT !.applied = cr[i].accepted.size] \in Status
      BY <1>2, <2>5 DEF FinishRollout, Status, Intents
    <3>2. QED
      BY <2>5, <3>1, UpdateStatusType DEF FinishRollout
  <2>6. CASE FinishCredentialRotation(i)
    <3>1. [cr[i].status EXCEPT
              !.appliedPasswordVersion = cr[i].accepted.passwordVersion] \in Status
      BY <1>2, <2>6 DEF FinishCredentialRotation, Status, Intents
    <3>2. QED
      BY <2>6, <3>1, UpdateStatusType DEF FinishCredentialRotation
  <2>7. CASE Observe(i)
    <3>1. PICK at \in {cr[i].status.observedAt, clock} :
             IF cr[i].status.applied = Zero
             THEN cr' = [cr EXCEPT ![i].status.observedAt = at]
             ELSE UpdateStatus(i, [cr[i].status EXCEPT !.observedAt = at])
      BY <2>7 DEF Observe
    <3>2. at \in Time
      BY <1>2, <2>7, <3>1 DEF Observe, Status, Time
    <3>3. [cr[i].status EXCEPT !.observedAt = at] \in Status
      BY <1>2, <2>7, <3>2 DEF Observe, Status
    <3>4. [cr[i] EXCEPT !.status.observedAt = at] \in Resource
      BY <1>2, <2>7, <3>3 DEF Observe, Resource
    <3>5. QED
      BY <1>2, <2>7, <3>1, <3>3, <3>4, UpdateStatusType DEF Observe
  <2>8. CASE ResourceGone(i)
    BY <1>2, <2>8 DEF ResourceGone
  <2>9. QED
    BY <1>1, <2>1, <2>2, <2>3, <2>4, <2>5, <2>6, <2>7, <2>8
<1>5. OperatorStep
  BY <1>1 DEF AcceptFirst, AcceptNext, Admit, ProvisioningTimeout, FinishRollout,
              FinishCredentialRotation, Observe, ResourceGone
<1>6. QED
  BY <1>4, <1>5 DEF TypeOK, OperatorStep

LEMMA SyncType ==
    ASSUME TypeOK, SyncNext
    PROVE  TypeOK'
<1>1. CASE \E i \in Ids : ImportRead(i)
  <2>1. PICK i \in Ids : ImportRead(i)
    BY <1>1
  <2>2. [id |-> i, status |-> cr[i].status] \in Observation
    BY <2>1 DEF TypeOK, ImportRead, Alive, Resource, Observation
  <2>3. QED
    BY <2>1, <2>2 DEF TypeOK, ImportRead
<1>2. CASE \E i \in Ids : CompleteDeletion(i)
  <2>1. PICK i \in Ids : CompleteDeletion(i)
    BY <1>2
  <2>2. rows[i] \in Row
    BY <2>1 DEF TypeOK, CompleteDeletion, Active
  <2>3. [rows[i] EXCEPT !.deleted = TRUE] \in Row
    BY <2>2, Zenon DEF Row
  <2>4. QED
    BY <2>1, <2>3 DEF TypeOK, CompleteDeletion
<1>3. CASE \E o \in imported : ImportApply(o)
  <2>1. PICK o \in imported : ImportApply(o)
    BY <1>3
  <2>2. o.id \in Ids /\ o.status \in Status
    BY DEF TypeOK, Observation
  <2>3. ASSUME o.id \in Active
        PROVE  Observed(rows[o.id], o.status) \in Row
    <3>1. rows[o.id] \in Row
      BY <2>3 DEF TypeOK, Active
    <3>2. /\ o.status.phase \in Phases /\ o.status.observedGeneration \in Nat
          /\ o.status.observedAt \in Time /\ o.status.appliedPasswordVersion \in Nat
          /\ o.status.applied \in Sizes \cup {Zero}
          /\ rows[o.id].applied \in Sizes \cup {Zero}
      BY <2>2, <3>1 DEF Status, Row
    <3>3. QED
      BY <3>1, <3>2, Zenon DEF Observed, Row
  <2>4. rows' \in [Ids -> Row \cup {NoRow}]
    BY <2>1, <2>2, <2>3 DEF TypeOK, ImportApply
  <2>5. QED
    BY <2>1, <2>4 DEF TypeOK, ImportApply
<1>4. QED
  BY <1>1, <1>2, <1>3 DEF SyncNext

-----------------------------------------------------------------------------

\* Every table, resource and observation keeps its type for ever.
THEOREM TypeCorrect == LedgerSpec => []TypeOK
<1>1. LedgerInit => TypeOK
  BY LedgerAssumption DEF LedgerInit, TypeOK
<1>2. TypeOK /\ [LedgerNext]_ledgerVars => TypeOK'
  <2> SUFFICES ASSUME TypeOK, [LedgerNext]_ledgerVars PROVE TypeOK'
    OBVIOUS
  <2>1. CASE MutationNext
    BY <2>1, MutateType DEF MutationNext
  <2>2. CASE LowerQuota
    BY <2>2, LedgerAssumption DEF LowerQuota, TypeOK
  <2>3. CASE OperatorNext
    BY <2>3, OperatorType
  <2>4. CASE SyncNext
    BY <2>4, SyncType
  <2>5. CASE Tick
    BY <2>5 DEF Tick, TypeOK
  <2>6. CASE UNCHANGED ledgerVars
    BY <2>6 DEF ledgerVars, TypeOK
  <2>7. QED
    BY <2>1, <2>2, <2>3, <2>4, <2>5, <2>6 DEF LedgerNext
<1>3. QED
  BY <1>1, <1>2, PTL DEF LedgerSpec

-----------------------------------------------------------------------------
(* What a plan does                                                         *)

Opens(r, now, w) ==
    /\ rows[w.id] = NoRow
    /\ w.row = NewRow(r)
    /\ w.periods = <<OpenPeriod(r.size, now)>>

Keeps(r, now, w) ==
    /\ rows[w.id] # NoRow
    /\ w.row.size = rows[w.id].size
    /\ w.row.deletionRequested = rows[w.id].deletionRequested
    /\ w.periods = billing[w.id]

Resizes(r, now, w) ==
    /\ rows[w.id] # NoRow /\ ~rows[w.id].deletionRequested
    /\ w.row.size = r.size
    /\ ~w.row.deletionRequested
    /\ w.periods = Append(Closed(w.id, now, "resized"), OpenPeriod(r.size, now))

Deletes(r, now, w) ==
    /\ rows[w.id] # NoRow /\ ~rows[w.id].deletionRequested
    /\ w.row.size = rows[w.id].size
    /\ w.row.deletionRequested
    /\ w.periods = Closed(w.id, now, "deleted")

\* Every plan opens, keeps, replaces or closes the billing of one instance.
LEMMA PlanBilling ==
    ASSUME TypeOK, NEW r \in Requests, NEW now \in Nat, NEW w \in Plan(r, now)
    PROVE  Opens(r, now, w) \/ Keeps(r, now, w) \/ Resizes(r, now, w) \/ Deletes(r, now, w)
<1>0. r \in Request /\ r.op \in Ops
  BY LedgerAssumption DEF Request
<1>1. ASSUME NEW i \in Ids, rows[i] # NoRow
      PROVE  rows[i] \in Row
  BY <1>1 DEF TypeOK
<1>2. CASE w \in Create(r, now)
  <2>1. PICK i \in {j \in Ids : rows[j] = NoRow} :
           w = Write(r, i, NewRow(r), <<OpenPeriod(r.size, now)>>, now, Audited(r, i, now))
    BY <1>2, Zenon DEF Create
  <2>2. /\ w.id = i /\ w.row = NewRow(r)
        /\ w.periods = <<OpenPeriod(r.size, now)>>
    BY <2>1 DEF Write
  <2>3. QED
    BY <2>1, <2>2 DEF Opens
<1>3. CASE w \in Patch(r, now)
  <2>1. Found(r) /\ w = Write(r, r.id, [rows[r.id] EXCEPT !.name = r.name, !.window = r.window],
                              billing[r.id], now, Audited(r, r.id, now))
    BY <1>3 DEF Patch
  <2>2. rows[r.id] \in Row /\ rows[r.id] # NoRow
    BY <1>1, <2>1 DEF Found
  <2>3. /\ w.id = r.id /\ w.periods = billing[r.id]
        /\ w.row = [rows[r.id] EXCEPT !.name = r.name, !.window = r.window]
    BY <2>1 DEF Write
  <2>4. QED
    BY <2>2, <2>3 DEF Keeps, Row
<1>4. CASE w \in Resize(r, now)
  <2>1. Found(r) /\ ~rows[r.id].deletionRequested
    BY <1>4 DEF Resize
  <2>2. rows[r.id] \in Row /\ rows[r.id] # NoRow
    BY <1>1, <2>1 DEF Found
  <2>3. CASE rows[r.id].size = r.size
    BY <1>4, <2>1, <2>2, <2>3 DEF Resize, Write, Keeps
  <2>4. CASE rows[r.id].size # r.size
    <3>1. w = Write(r, r.id,
                    [rows[r.id] EXCEPT !.size = r.size, !.desiredGeneration = @ + 1],
                    Append(Closed(r.id, now, "resized"), OpenPeriod(r.size, now)),
                    now, Audited(r, r.id, now))
      BY <1>4, <2>1, <2>4 DEF Resize, ResizeChange
    <3>2. /\ w.id = r.id
          /\ w.row = [rows[r.id] EXCEPT !.size = r.size, !.desiredGeneration = @ + 1]
          /\ w.periods = Append(Closed(r.id, now, "resized"), OpenPeriod(r.size, now))
      BY <3>1 DEF Write
    <3>3. QED
      BY <2>1, <2>2, <3>2 DEF Resizes, Row
  <2>5. QED
    BY <2>3, <2>4
<1>5. CASE w \in UpdateWhitelist(r, now)
  <2>1. Found(r) /\ w = Write(r, r.id, [rows[r.id] EXCEPT !.wl = r.wl, !.desiredGeneration = @ + 1],
                              billing[r.id], now, Audited(r, r.id, now))
    BY <1>5 DEF UpdateWhitelist
  <2>2. rows[r.id] \in Row /\ rows[r.id] # NoRow
    BY <1>1, <2>1 DEF Found
  <2>3. /\ w.id = r.id /\ w.periods = billing[r.id]
        /\ w.row = [rows[r.id] EXCEPT !.wl = r.wl, !.desiredGeneration = @ + 1]
    BY <2>1 DEF Write
  <2>4. QED
    BY <2>2, <2>3 DEF Keeps, Row
<1>6. CASE w \in RotatePassword(r, now)
  <2> DEFINE row == [rows[r.id] EXCEPT !.pw = r.pw, !.passwordVersion = @ + 1,
                                       !.desiredGeneration = @ + 1]
  <2>1. Found(r) /\ w = Write(r, r.id, row, billing[r.id], now, Audited(r, r.id, now))
    BY <1>6 DEF RotatePassword
  <2>2. rows[r.id] \in Row /\ rows[r.id] # NoRow
    BY <1>1, <2>1 DEF Found
  <2>3. w.id = r.id /\ w.periods = billing[r.id] /\ w.row = row
    BY <2>1 DEF Write
  <2>4. QED
    BY <2>2, <2>3 DEF Keeps, Row
<1>7. CASE w \in Delete(r, now)
  <2>1. /\ Found(r) /\ ~rows[r.id].deletionRequested
        /\ w = Write(r, r.id, [rows[r.id] EXCEPT !.deletionRequested = TRUE],
                     Closed(r.id, now, "deleted"), now, Audited(r, r.id, now))
    BY <1>7 DEF Delete
  <2>2. rows[r.id] \in Row /\ rows[r.id] # NoRow
    BY <1>1, <2>1 DEF Found
  <2>3. /\ w.id = r.id /\ w.periods = Closed(r.id, now, "deleted")
        /\ w.row = [rows[r.id] EXCEPT !.deletionRequested = TRUE]
    BY <2>1 DEF Write
  <2>4. QED
    BY <2>1, <2>2, <2>3 DEF Deletes, Row
<1>8. QED
  BY <1>0, <1>2, <1>3, <1>4, <1>5, <1>6, <1>7 DEF Plan, Ops

\* Every plan is dated `now`, audits at most one event of its request, and a
\* plan of a keyed request was made because its key was free.
LEMMA PlanKey ==
    ASSUME NEW r \in Requests, NEW now, NEW w \in Plan(r, now)
    PROVE  /\ w.entry = [hash |-> Hash(r), at |-> now]
           /\ w.events = <<>> \/ w.events = Audited(r, w.id, now)
           /\ r.key \in Keys => KeyFree(r, now)
<1>0. r.op \in Ops /\ (r.op \in KeyedOps <=> r.key \in Keys)
  BY LedgerAssumption DEF Request
<1>1. CASE w \in Create(r, now)
  <2>1. PICK i \in Ids :
           w = Write(r, i, NewRow(r), <<OpenPeriod(r.size, now)>>, now, Audited(r, i, now))
    BY <1>1, Zenon DEF Create
  <2>2. KeyFree(r, now)
    BY <1>1 DEF Create
  <2>3. QED
    BY <2>1, <2>2 DEF Write
<1>2. CASE r.op = "patch" /\ w \in Patch(r, now)
  BY <1>0, <1>2 DEF Patch, Write, KeyedOps
<1>3. CASE w \in Resize(r, now)
  <2>1. KeyFree(r, now)
    BY <1>3 DEF Resize
  <2>2. \/ w = Write(r, r.id, rows[r.id], billing[r.id], now, <<>>)
        \/ \E row, periods : w = Write(r, r.id, row, periods, now, Audited(r, r.id, now))
    BY <1>3, Zenon DEF Resize, ResizeChange
  <2>3. QED
    BY <2>1, <2>2 DEF Write
<1>4. CASE r.op = "whitelist" /\ w \in UpdateWhitelist(r, now)
  BY <1>0, <1>4 DEF UpdateWhitelist, Write, KeyedOps
<1>5. CASE w \in RotatePassword(r, now)
  BY <1>5 DEF RotatePassword, Write
<1>6. CASE r.op = "delete" /\ w \in Delete(r, now)
  BY <1>0, <1>6 DEF Delete, Write, KeyedOps
<1>7. QED
  BY <1>0, <1>1, <1>2, <1>3, <1>4, <1>5, <1>6 DEF Plan, Ops

-----------------------------------------------------------------------------
(* Exactly once                                                             *)

\* The strengthening of ExactlyOnce: no event is dated after the last committed
\* mutation, and every keyed event still has a key at least as young as itself.
KeysRemember ==
    \A k \in DOMAIN audit :
        /\ audit[k].at <= stamp
        /\ audit[k].key \in Keys =>
              /\ keys[<<audit[k].user, audit[k].key>>] # NoEntry
              /\ audit[k].at <= keys[<<audit[k].user, audit[k].key>>].at

\* A step that writes neither the audit log nor the keys disturbs nothing.
LEMMA KeysUntouched ==
    ASSUME KeysRemember, ExactlyOnce, UNCHANGED <<audit, keys, stamp>>
    PROVE  KeysRemember' /\ ExactlyOnce'
  BY DEF KeysRemember, ExactlyOnce

LEMMA MutateOnce ==
    ASSUME TypeOK, KeysRemember, ExactlyOnce,
           NEW r \in Requests, NEW now \in 1..clock, NEW w \in Plan(r, now),
           Mutate(r, now, w)
    PROVE  KeysRemember' /\ ExactlyOnce'
<1> DEFINE e == [action |-> r.op, user |-> r.user, id |-> w.id, key |-> r.key, at |-> now]
<1>1. /\ now \in Nat /\ stamp \in Nat /\ stamp <= now /\ stamp' = now
      /\ audit \in Seq(Event) /\ KeyTTL \in Nat
  BY LedgerAssumption DEF TypeOK, Mutate
<1>2. /\ w.entry = [hash |-> Hash(r), at |-> now]
      /\ w.events = <<>> \/ w.events = <<e>>
      /\ r.key \in Keys => KeyFree(r, now)
  BY PlanKey DEF Audited
<1>3. r.user \in Users
  BY LedgerAssumption DEF Request
<1>4. r.key \in Keys => keys' = [keys EXCEPT ![<<r.user, r.key>>] = w.entry]
  BY DEF Mutate, Apply
<1>5. r.key \notin Keys => keys' = keys
  BY DEF Mutate, Apply
<1>6. /\ keys \in [Users \X Keys -> Entry \cup {NoEntry}]
      /\ w.entry \in Entry /\ NoEntry \notin Entry
  <2>1. w \in WriteType
    BY <1>1, PlanType
  <2>2. QED
    BY <2>1, LedgerAssumption DEF TypeOK, WriteType
\* The keyed events of the log: an entry of the same key is gone or expired.
<1>7. ASSUME NEW k \in DOMAIN audit
      PROVE  /\ audit[k] \in Event /\ audit[k].at \in Nat
             /\ audit[k].at <= now
             /\ audit[k].key \in Keys /\ audit[k].key = r.key /\ audit[k].user = r.user
                => now - audit[k].at >= KeyTTL
  <2>1. audit[k] \in Event /\ audit[k].at \in Nat
    <3>1. audit[k] \in Event
      BY <1>1
    <3>2. QED
      BY <3>1 DEF Event, Time
  <2>2. audit[k].at <= stamp
    BY DEF KeysRemember
  <2>3. ASSUME audit[k].key \in Keys, audit[k].key = r.key, audit[k].user = r.user
        PROVE  now - audit[k].at >= KeyTTL
    <3> DEFINE key == keys[<<r.user, r.key>>]
    <3>1. key # NoEntry /\ audit[k].at <= key.at
      BY <2>3 DEF KeysRemember
    <3>2. key \in Entry
      BY <1>3, <1>6, <2>3, <3>1
    <3>3. key.at \in Nat
      BY <3>2 DEF Entry, Time
    <3>4. key.at <= now - KeyTTL
      BY <1>2, <2>3, <3>1 DEF KeyFree
    <3>5. QED
      BY <1>1, <2>1, <3>1, <3>3, <3>4
  <2>4. QED
    BY <1>1, <2>1, <2>2, <2>3
<1>8. ASSUME NEW k \in DOMAIN audit, audit[k].key \in Keys
      PROVE  LET key == keys'[<<audit[k].user, audit[k].key>>]
             IN  key # NoEntry /\ audit[k].at <= key.at
  <2>1. /\ keys[<<audit[k].user, audit[k].key>>] # NoEntry
        /\ audit[k].at <= keys[<<audit[k].user, audit[k].key>>].at
    BY <1>8 DEF KeysRemember
  <2>2. audit[k].user \in Users
    BY <1>7 DEF Event
  <2>3. CASE r.key \in Keys /\ audit[k].key = r.key /\ audit[k].user = r.user
    <3>1. keys'[<<audit[k].user, audit[k].key>>] = w.entry
      BY <1>3, <1>4, <1>6, <2>3
    <3>2. w.entry # NoEntry /\ w.entry.at = now
      BY <1>2, <1>6
    <3>3. QED
      BY <1>7, <3>1, <3>2
  <2>4. CASE r.key \in Keys /\ ~(audit[k].key = r.key /\ audit[k].user = r.user)
    BY <1>4, <1>6, <1>8, <2>1, <2>2, <2>4
  <2>5. CASE r.key \notin Keys
    BY <1>5, <2>1, <2>5
  <2>6. QED
    BY <2>3, <2>4, <2>5
<1>9. CASE w.events = <<>>
  <2>1. audit' = audit
    BY <1>1, <1>9 DEF Mutate, Apply
  <2>2. KeysRemember'
    BY <1>1, <1>7, <1>8, <2>1 DEF KeysRemember
  <2>3. ExactlyOnce'
    BY <2>1 DEF ExactlyOnce
  <2>4. QED
    BY <2>2, <2>3
<1>10. CASE w.events = <<e>>
  <2>1. /\ audit' = Append(audit, e)
        /\ DOMAIN audit = 1..Len(audit) /\ DOMAIN audit' = 1..(Len(audit) + 1)
        /\ Len(audit) \in Nat
        /\ audit'[Len(audit) + 1] = e
        /\ \A k \in DOMAIN audit : audit'[k] = audit[k]
    <3>1. audit' = audit \o <<e>>
      BY <1>10 DEF Mutate, Apply
    <3>2. QED
      BY <1>1, <3>1
  <2>2. e.at = now /\ e.key = r.key /\ e.user = r.user
    OBVIOUS
  <2>3. r.key \in Keys => /\ keys'[<<r.user, r.key>>] # NoEntry
                          /\ now <= keys'[<<r.user, r.key>>].at
    BY <1>1, <1>2, <1>3, <1>4, <1>6
  <2>4. KeysRemember'
    BY <1>1, <1>7, <1>8, <2>1, <2>2, <2>3 DEF KeysRemember
  <2>5. ASSUME NEW j \in DOMAIN audit', NEW k \in DOMAIN audit', j < k,
               audit'[j].key \in Keys, audit'[j].key = audit'[k].key,
               audit'[j].user = audit'[k].user
        PROVE  audit'[k].at - audit'[j].at >= KeyTTL
    <3>1. j \in DOMAIN audit /\ audit'[j] = audit[j]
      BY <2>1, <2>5
    <3>2. CASE k \in DOMAIN audit
      BY <2>1, <2>5, <3>1, <3>2 DEF ExactlyOnce
    <3>3. CASE k = Len(audit) + 1
      BY <1>7, <2>1, <2>2, <2>5, <3>1, <3>3
    <3>4. QED
      BY <2>1, <3>2, <3>3
  <2>6. ExactlyOnce'
    BY <2>5 DEF ExactlyOnce
  <2>7. QED
    BY <2>4, <2>6
<1>11. QED
  BY <1>2, <1>9, <1>10

\* A keyed request changes something at most once within the lifetime of its key,
\* whatever the number of users, keys, requests and retries.
THEOREM ExactlyOnceHolds == LedgerSpec => []ExactlyOnce
<1>1. LedgerInit => KeysRemember /\ ExactlyOnce
  BY DEF LedgerInit, KeysRemember, ExactlyOnce
<1>2. TypeOK /\ KeysRemember /\ ExactlyOnce /\ [LedgerNext]_ledgerVars
      => KeysRemember' /\ ExactlyOnce'
  <2> SUFFICES ASSUME TypeOK, KeysRemember, ExactlyOnce, [LedgerNext]_ledgerVars
               PROVE  KeysRemember' /\ ExactlyOnce'
    OBVIOUS
  <2>1. CASE MutationNext
    BY <2>1, MutateOnce DEF MutationNext
  <2>2. CASE LowerQuota \/ OperatorNext \/ SyncNext \/ Tick \/ UNCHANGED ledgerVars
    <3>1. UNCHANGED <<audit, keys, stamp>>
      BY <2>2 DEF LowerQuota, OperatorNext, SyncNext, Tick, ledgerVars, OperatorStep,
                  AcceptFirst, AcceptNext, Admit, ProvisioningTimeout, FinishRollout,
                  FinishCredentialRotation, Observe, ResourceGone,
                  ImportRead, ImportApply, CompleteDeletion
    <3>2. QED
      BY <3>1, KeysUntouched
  <2>3. QED
    BY <2>1, <2>2 DEF LedgerNext
<1>3. QED
  BY <1>1, <1>2, TypeCorrect, PTL DEF LedgerSpec

-----------------------------------------------------------------------------
(* Billing                                                                  *)

\* The strengthening of BillingTimeline: no period starts after the last
\* committed mutation.
StartedByNow ==
    \A i \in Ids : \A k \in 1..Len(billing[i]) : billing[i][k].startedAt <= stamp

BillingInv == BillingTimeline /\ StartedByNow

\* Only whether there is a row, its size and its deletion request matter.
LEMMA TimelineRow ==
    ASSUME NEW row, NEW new, NEW p, Timeline(row, p),
           row # NoRow, new # NoRow, new.size = row.size,
           new.deletionRequested = row.deletionRequested
    PROVE  Timeline(new, p)
  BY DEF Timeline

\* Closing ends the last period of an instance, at `now`, and no other.
LEMMA ClosedLast ==
    ASSUME TypeOK, BillingInv, NEW i \in Ids, NEW now \in Nat \ {0}, stamp <= now,
           NEW reason \in {"resized", "deleted"},
           rows[i] # NoRow, ~rows[i].deletionRequested
    PROVE  LET p == billing[i]
               q == Closed(i, now, reason)
               n == Len(billing[i])
           IN  /\ n \in Nat \ {0} /\ Len(q) = n /\ q \in Seq(Period)
               /\ \A k \in 1..(n - 1) : q[k] = p[k]
               /\ q[n].endedAt = now
               /\ q[n].startedAt = p[n].startedAt /\ q[n].size = p[n].size
               /\ p[n].startedAt <= now
<1> DEFINE p == billing[i]
           q == Closed(i, now, reason)
           n == Len(billing[i])
<1>1. p \in Seq(Period) /\ stamp \in Nat
  BY DEF TypeOK
<1>2. Timeline(rows[i], p)
  BY DEF BillingInv, BillingTimeline
<1>3. n \in Nat \ {0} /\ DOMAIN p = 1..n
  <2>1. p # <<>>
    BY <1>2 DEF Timeline
  <2>2. QED
    BY <1>1, <2>1
<1>4. Len(q) = n /\ q \in Seq(Period)
  BY ClosedType
<1>c. ASSUME NEW k \in DOMAIN p
      PROVE  q[k] = IF p[k].endedAt = Null
                    THEN [p[k] EXCEPT !.endedAt = now, !.endedReason = reason]
                    ELSE p[k]
  BY Zenon DEF Closed
<1>5. ASSUME NEW k \in 1..(n - 1)
      PROVE  q[k] = p[k]
  <2>1. k \in DOMAIN p /\ k \in 1..n /\ k # n
    BY <1>3
  <2>2. p[k].endedAt # Null
    BY <1>2, <2>1 DEF Timeline
  <2>3. QED
    BY <1>c, <2>1, <2>2
<1>6. p[n].endedAt = Null
  BY <1>2, <1>3 DEF Timeline
<1>7. q[n] = [p[n] EXCEPT !.endedAt = now, !.endedReason = reason]
  <2>1. n \in DOMAIN p
    BY <1>3
  <2>2. QED
    BY <1>c, <1>6, <2>1, Zenon
<1>8. p[n] \in Period
  BY <1>1, <1>3
<1>9. q[n].endedAt = now /\ q[n].startedAt = p[n].startedAt /\ q[n].size = p[n].size
  BY <1>7, <1>8 DEF Period
<1>10. p[n].startedAt <= now
  <2>1. p[n].startedAt <= stamp /\ p[n].startedAt \in Nat
    <3>1. n \in 1..Len(billing[i])
      BY <1>3
    <3>2. p[n].startedAt <= stamp
      BY <3>1, Zenon DEF BillingInv, StartedByNow
    <3>3. QED
      BY <1>8, <3>2 DEF Period, Time
  <2>2. QED
    BY <1>1, <2>1
<1>11. QED
  BY <1>3, <1>4, <1>5, <1>9, <1>10

\* The periods a plan writes are the timeline of the row it writes.
LEMMA PlanTimeline ==
    ASSUME TypeOK, BillingInv, NEW r \in Requests, NEW now \in Nat \ {0}, stamp <= now,
           NEW w \in Plan(r, now)
    PROVE  /\ Timeline(w.row, w.periods)
           /\ \A k \in 1..Len(w.periods) : w.periods[k].startedAt <= now
<1>1. w \in WriteType
  BY PlanType
<1>2. /\ w.id \in Ids /\ w.row \in Row /\ w.row # NoRow
      /\ billing[w.id] \in Seq(Period) /\ w.periods \in Seq(Period)
      /\ stamp \in Nat
  BY <1>1, LedgerAssumption DEF WriteType, TypeOK
<1>3. Timeline(rows[w.id], billing[w.id])
  BY <1>2 DEF BillingInv, BillingTimeline
<1>4. ASSUME NEW k \in 1..Len(billing[w.id])
      PROVE  billing[w.id][k].startedAt <= now
  <2>1. /\ billing[w.id][k].startedAt <= stamp
        /\ billing[w.id][k] \in Period
    BY <1>2 DEF BillingInv, StartedByNow
  <2>2. billing[w.id][k].startedAt \in Nat
    BY <2>1 DEF Period, Time
  <2>3. QED
    BY <1>2, <2>1, <2>2
<1>5. CASE Opens(r, now, w)
  <2>1. w.row.size = r.size /\ w.row.deletionRequested = FALSE
    BY <1>5 DEF Opens, NewRow
  <2>2. w.periods = <<OpenPeriod(r.size, now)>>
    BY <1>5 DEF Opens
  <2>3. /\ Len(w.periods) = 1 /\ w.periods # <<>>
        /\ w.periods[1].endedAt = Null /\ w.periods[1].size = r.size
        /\ w.periods[1].startedAt = now
    <3> DEFINE o == OpenPeriod(r.size, now)
    <3>1. Len(w.periods) = 1 /\ w.periods # <<>> /\ w.periods[1] = o
      BY <2>2
    <3>2. o.endedAt = Null /\ o.size = r.size /\ o.startedAt = now
      BY DEF OpenPeriod
    <3> HIDE DEF o
    <3>3. QED
      BY <3>1, <3>2
  <2>4. QED
    BY <1>2, <2>1, <2>3 DEF Timeline
<1>6. CASE Keeps(r, now, w)
  BY <1>2, <1>3, <1>4, <1>6, TimelineRow DEF Keeps
<1>7. CASE Resizes(r, now, w)
  <2> DEFINE p == billing[w.id]
             q == Closed(w.id, now, "resized")
             n == Len(billing[w.id])
             o == OpenPeriod(r.size, now)
  <2>1. /\ n \in Nat \ {0} /\ Len(q) = n /\ q \in Seq(Period)
        /\ \A k \in 1..(n - 1) : q[k] = p[k]
        /\ q[n].endedAt = now
        /\ q[n].startedAt = p[n].startedAt /\ q[n].size = p[n].size
        /\ p[n].startedAt <= now
    BY <1>2, <1>7, ClosedLast DEF Resizes
  <2>2. w.periods = Append(q, o)
    BY <1>7 DEF Resizes
  <2>3. /\ Len(w.periods) = n + 1
        /\ w.periods # <<>>
        /\ \A k \in 1..n : w.periods[k] = q[k]
        /\ w.periods[n + 1] = o
    BY <2>1, <2>2
  <2>4. o.endedAt = Null /\ o.startedAt = now /\ o.size = r.size
    BY DEF OpenPeriod
  <2>5. w.row.size = r.size /\ ~w.row.deletionRequested
    BY <1>7 DEF Resizes
  <2>6. ASSUME NEW k \in 1..(n + 1)
        PROVE  /\ w.periods[k].endedAt = Null <=> k = n + 1
               /\ w.periods[k].endedAt # Null =>
                     w.periods[k].startedAt <= w.periods[k].endedAt
               /\ k < n + 1 => w.periods[k].endedAt = w.periods[k + 1].startedAt
               /\ w.periods[k].startedAt <= now
    <3>1. CASE k = n + 1
      BY <2>1, <2>3, <2>4, <3>1 DEF Null
    <3>2. CASE k = n
      BY <2>1, <2>3, <2>4, <3>2 DEF Null
    <3>3. CASE k \in 1..(n - 1)
      <4>1. /\ w.periods[k] = p[k]
            /\ w.periods[k + 1].startedAt = p[k + 1].startedAt
        <5>1. k \in 1..n /\ k + 1 \in 1..n /\ (k + 1 = n \/ k + 1 \in 1..(n - 1))
          BY <2>1, <3>3
        <5>2. QED
          BY <2>1, <2>3, <3>3, <5>1
      <4>2. /\ p[k].endedAt # Null
            /\ p[k].startedAt <= p[k].endedAt
            /\ p[k].endedAt = p[k + 1].startedAt
        BY <1>3, <2>1, <3>3 DEF Timeline
      <4>3. QED
        BY <1>4, <2>1, <3>3, <4>1, <4>2
    <3>4. QED
      BY <2>1, <3>1, <3>2, <3>3
  <2>7. QED
    BY <1>2, <2>1, <2>3, <2>4, <2>5, <2>6 DEF Timeline
<1>8. CASE Deletes(r, now, w)
  <2> DEFINE p == billing[w.id]
             q == Closed(w.id, now, "deleted")
             n == Len(billing[w.id])
  <2>1. /\ n \in Nat \ {0} /\ Len(q) = n /\ q \in Seq(Period)
        /\ \A k \in 1..(n - 1) : q[k] = p[k]
        /\ q[n].endedAt = now
        /\ q[n].startedAt = p[n].startedAt /\ q[n].size = p[n].size
        /\ p[n].startedAt <= now
    BY <1>2, <1>8, ClosedLast DEF Deletes
  <2>2. /\ w.periods = q /\ w.row.deletionRequested
        /\ w.row.size = rows[w.id].size /\ p[n].size = rows[w.id].size
    <3>1. p # <<>>
      BY <1>2, <2>1
    <3>2. QED
      BY <1>3, <1>8, <3>1 DEF Deletes, Timeline
  <2>3. ASSUME NEW k \in 1..n
        PROVE  /\ q[k].endedAt # Null
               /\ q[k].startedAt <= q[k].endedAt
               /\ k < n => q[k].endedAt = q[k + 1].startedAt
               /\ q[k].startedAt <= now
    <3>1. CASE k = n
      BY <2>1, <3>1 DEF Null
    <3>2. CASE k \in 1..(n - 1)
      <4>1. /\ q[k] = p[k]
            /\ q[k + 1].startedAt = p[k + 1].startedAt
        BY <2>1, <3>2
      <4>2. /\ p[k].endedAt # Null
            /\ p[k].startedAt <= p[k].endedAt
            /\ p[k].endedAt = p[k + 1].startedAt
        BY <1>3, <2>1, <3>2 DEF Timeline
      <4>3. QED
        BY <1>4, <2>1, <3>2, <4>1, <4>2
    <3>3. QED
      BY <2>1, <3>1, <3>2
  <2>4. q # <<>>
    BY <2>1
  <2>5. QED
    BY <1>2, <2>1, <2>2, <2>3, <2>4 DEF Timeline
<1>9. QED
  BY <1>5, <1>6, <1>7, <1>8, PlanBilling

\* A step that writes neither billing periods nor what they depend on.
LEMMA BillingUntouched ==
    ASSUME BillingInv, UNCHANGED <<billing, stamp>>,
           \A i \in Ids : \/ rows'[i] = rows[i]
                          \/ /\ rows[i] # NoRow /\ rows'[i] # NoRow
                             /\ rows'[i].size = rows[i].size
                             /\ rows'[i].deletionRequested = rows[i].deletionRequested
    PROVE  BillingInv'
<1>1. ASSUME NEW i \in Ids
      PROVE  Timeline(rows'[i], billing'[i])
  <2>1. Timeline(rows[i], billing[i]) /\ billing'[i] = billing[i]
    BY DEF BillingInv, BillingTimeline
  <2>2. CASE rows'[i] = rows[i]
    BY <2>1, <2>2
  <2>3. CASE /\ rows[i] # NoRow /\ rows'[i] # NoRow
             /\ rows'[i].size = rows[i].size
             /\ rows'[i].deletionRequested = rows[i].deletionRequested
    BY <2>1, <2>3, TimelineRow
  <2>4. QED
    BY <2>2, <2>3
<1>2. BillingTimeline'
  BY <1>1 DEF BillingTimeline, Timeline
<1>3. StartedByNow'
  BY DEF BillingInv, StartedByNow
<1>4. QED
  BY <1>2, <1>3 DEF BillingInv

LEMMA MutateBilling ==
    ASSUME TypeOK, BillingInv,
           NEW r \in Requests, NEW now \in 1..clock, NEW w \in Plan(r, now),
           Mutate(r, now, w)
    PROVE  BillingInv'
<1>1. now \in Nat \ {0} /\ stamp \in Nat /\ stamp <= now /\ stamp' = now
  BY DEF TypeOK, Mutate
<1>2. w \in WriteType
  BY <1>1, PlanType
<1>3. w.id \in Ids
  BY <1>2 DEF WriteType
<1>4. /\ rows' = [rows EXCEPT ![w.id] = w.row]
      /\ billing' = [billing EXCEPT ![w.id] = w.periods]
      /\ DOMAIN rows = Ids /\ DOMAIN billing = Ids
  BY DEF Mutate, Apply, TypeOK
<1>5. /\ Timeline(w.row, w.periods)
      /\ \A k \in 1..Len(w.periods) : w.periods[k].startedAt <= now
  BY <1>1, PlanTimeline
<1>6. ASSUME NEW i \in Ids
      PROVE  /\ Timeline(rows'[i], billing'[i])
             /\ \A k \in 1..Len(billing'[i]) : billing'[i][k].startedAt <= now
  <2>1. CASE i = w.id
    BY <1>3, <1>4, <1>5, <2>1
  <2>2. CASE i # w.id
    <3>1. rows'[i] = rows[i] /\ billing'[i] = billing[i]
      BY <1>4, <2>2
    <3>2. Timeline(rows[i], billing[i])
      BY DEF BillingInv, BillingTimeline
    <3>3. ASSUME NEW k \in 1..Len(billing[i])
          PROVE  billing[i][k].startedAt <= now
      <4>1. billing[i] \in Seq(Period)
        BY DEF TypeOK
      <4>2. billing[i][k] \in Period
        BY <4>1
      <4>3. billing[i][k].startedAt \in Nat
        BY <4>2 DEF Period, Time
      <4>4. billing[i][k].startedAt <= stamp
        BY Zenon DEF BillingInv, StartedByNow
      <4>5. QED
        BY <1>1, <4>3, <4>4
    <3>4. QED
      BY <3>1, <3>2, <3>3
  <2>3. QED
    BY <2>1, <2>2
<1>7. BillingTimeline'
  BY <1>6 DEF BillingTimeline, Timeline
<1>8. StartedByNow'
  BY <1>1, <1>6 DEF StartedByNow
<1>9. QED
  BY <1>7, <1>8 DEF BillingInv

\* An observation changes neither the size a row asks for nor its deletion.
LEMMA ObservedBilling ==
    ASSUME NEW row \in Row, NEW status \in Status
    PROVE  /\ Observed(row, status).size = row.size
           /\ Observed(row, status).deletionRequested = row.deletionRequested
           /\ Observed(row, status) # NoRow
<1>1. row.applied \in Sizes \cup {Zero} /\ status.applied \in Sizes \cup {Zero}
  BY DEF Row, Status
<1>2. /\ Observed(row, status).size = row.size
      /\ Observed(row, status).deletionRequested = row.deletionRequested
  BY DEF Observed, Row
<1>3. /\ status.phase \in Phases /\ status.observedGeneration \in Nat
      /\ status.observedAt \in Time /\ status.appliedPasswordVersion \in Nat
  BY DEF Status
<1>4. Observed(row, status) \in Row
  BY <1>1, <1>3, Zenon DEF Observed, Row
<1>5. QED
  BY <1>2, <1>4, LedgerAssumption

LEMMA SyncBilling ==
    ASSUME TypeOK, BillingInv, SyncNext
    PROVE  BillingInv'
<1>1. UNCHANGED <<billing, stamp>>
  BY DEF SyncNext, ImportRead, ImportApply, CompleteDeletion
<1>2. ASSUME NEW i \in Ids
      PROVE  \/ rows'[i] = rows[i]
             \/ /\ rows[i] # NoRow /\ rows'[i] # NoRow
                /\ rows'[i].size = rows[i].size
                /\ rows'[i].deletionRequested = rows[i].deletionRequested
  <2>1. CASE \E j \in Ids : ImportRead(j)
    BY <2>1 DEF ImportRead
  <2>2. CASE \E j \in Ids : CompleteDeletion(j)
    <3>1. PICK j \in Ids : CompleteDeletion(j)
      BY <2>2
    <3>2. /\ rows[j] # NoRow /\ rows[j] \in Row /\ DOMAIN rows = Ids
          /\ rows' = [rows EXCEPT ![j] = [rows[j] EXCEPT !.deleted = TRUE]]
      BY <3>1 DEF CompleteDeletion, Active, TypeOK
    <3>3. [rows[j] EXCEPT !.deleted = TRUE] \in Row
      BY <3>2, Zenon DEF Row
    <3>4. /\ [rows[j] EXCEPT !.deleted = TRUE].size = rows[j].size
          /\ [rows[j] EXCEPT !.deleted = TRUE].deletionRequested = rows[j].deletionRequested
          /\ [rows[j] EXCEPT !.deleted = TRUE] # NoRow
      BY <3>2, <3>3, LedgerAssumption DEF Row
    <3>5. QED
      BY <3>2, <3>4
  <2>3. CASE \E o \in imported : ImportApply(o)
    <3>1. PICK o \in imported : ImportApply(o)
      BY <2>3
    <3>2. o.id \in Ids /\ o.status \in Status
      BY DEF TypeOK, Observation
    <3>3. CASE o.id \in Active /\ ValidObservation(rows[o.id], o.status)
      <4>1. /\ rows[o.id] \in Row /\ rows[o.id] # NoRow /\ DOMAIN rows = Ids
            /\ rows' = [rows EXCEPT ![o.id] = Observed(rows[o.id], o.status)]
        BY <3>1, <3>3 DEF ImportApply, Active, TypeOK
      <4>2. QED
        BY <3>2, <4>1, ObservedBilling
    <3>4. CASE ~(o.id \in Active /\ ValidObservation(rows[o.id], o.status))
      BY <3>1, <3>4 DEF ImportApply
    <3>5. QED
      BY <3>3, <3>4
  <2>4. QED
    BY <2>1, <2>2, <2>3 DEF SyncNext
<1>3. QED
  BY <1>1, <1>2, BillingUntouched

LEMMA BillingInvHolds == LedgerSpec => []BillingInv
<1>1. LedgerInit => BillingInv
  BY DEF LedgerInit, BillingInv, BillingTimeline, Timeline, StartedByNow
<1>2. TypeOK /\ BillingInv /\ [LedgerNext]_ledgerVars => BillingInv'
  <2> SUFFICES ASSUME TypeOK, BillingInv, [LedgerNext]_ledgerVars PROVE BillingInv'
    OBVIOUS
  <2>1. CASE MutationNext
    BY <2>1, MutateBilling DEF MutationNext
  <2>2. CASE LowerQuota \/ OperatorNext \/ Tick \/ UNCHANGED ledgerVars
    <3>1. UNCHANGED <<rows, billing, stamp>>
      BY <2>2 DEF LowerQuota, OperatorNext, Tick, ledgerVars, OperatorStep,
                  AcceptFirst, AcceptNext, Admit, ProvisioningTimeout, FinishRollout,
                  FinishCredentialRotation, Observe, ResourceGone
    <3>2. QED
      BY <3>1, BillingUntouched
  <2>3. CASE SyncNext
    BY <2>3, SyncBilling
  <2>4. QED
    BY <2>1, <2>2, <2>3 DEF LedgerNext
<1>3. QED
  BY <1>1, <1>2, TypeCorrect, PTL DEF LedgerSpec

\* Billing never has a gap or an overlap and never runs on after a deletion
\* request, for any number of instances and resizes.
THEOREM BillingTimelineHolds == LedgerSpec => []BillingTimeline
<1>1. BillingInv => BillingTimeline
  BY DEF BillingInv
<1>2. QED
  BY <1>1, BillingInvHolds, PTL

\* The closed periods of an instance survive every plan.
LEMMA PlanHistory ==
    ASSUME TypeOK, BillingInv, NEW r \in Requests, NEW now \in Nat \ {0}, stamp <= now,
           NEW w \in Plan(r, now), NEW k \in DOMAIN billing[w.id]
    PROVE  /\ k \in DOMAIN w.periods
           /\ billing[w.id][k].endedAt # Null => w.periods[k] = billing[w.id][k]
<1> DEFINE p == billing[w.id]
           n == Len(billing[w.id])
<1>1. w \in WriteType
  BY PlanType
<1>2. w.id \in Ids /\ p \in Seq(Period) /\ Timeline(rows[w.id], p)
  BY <1>1 DEF WriteType, TypeOK, BillingInv, BillingTimeline
<1>3. n \in Nat /\ k \in 1..n
  BY <1>2
<1>4. CASE Opens(r, now, w)
  BY <1>2, <1>3, <1>4 DEF Opens, Timeline
<1>5. CASE Keeps(r, now, w)
  BY <1>5 DEF Keeps
<1>6. ASSUME NEW reason \in {"resized", "deleted"},
             rows[w.id] # NoRow, ~rows[w.id].deletionRequested
      PROVE  LET q == Closed(w.id, now, reason)
             IN  /\ q \in Seq(Period) /\ k \in 1..Len(q) /\ Len(q) = n
                 /\ p[k].endedAt # Null => q[k] = p[k]
  <2>1. p[n].endedAt = Null
    BY <1>2, <1>3, <1>6 DEF Timeline
  <2>2. QED
    BY <1>2, <1>3, <1>6, <2>1, ClosedLast
<1>7. CASE Resizes(r, now, w)
  <2> DEFINE q == Closed(w.id, now, "resized")
  <2>1. /\ q \in Seq(Period) /\ k \in 1..Len(q) /\ Len(q) \in Nat
        /\ p[k].endedAt # Null => q[k] = p[k]
    BY <1>3, <1>6, <1>7 DEF Resizes
  <2>2. w.periods = Append(q, OpenPeriod(r.size, now))
    BY <1>7 DEF Resizes
  <2> HIDE DEF q
  <2>3. k \in DOMAIN w.periods /\ w.periods[k] = q[k]
    BY <2>1, <2>2
  <2>4. QED
    BY <2>1, <2>3
<1>8. CASE Deletes(r, now, w)
  <2>1. /\ w.periods = Closed(w.id, now, "deleted")
        /\ w.periods \in Seq(Period) /\ k \in 1..Len(w.periods)
        /\ p[k].endedAt # Null => w.periods[k] = p[k]
    BY <1>6, <1>8 DEF Deletes
  <2>2. QED
    BY <2>1
<1>9. QED
  BY <1>4, <1>5, <1>7, <1>8, PlanBilling

\* No step changes a closed billing period or drops one.
THEOREM BillingHistory == LedgerSpec => BillingHistoryKept
<1> DEFINE Kept == \A i \in Ids : \A k \in DOMAIN billing[i] :
                      /\ k \in DOMAIN billing'[i]
                      /\ billing[i][k].endedAt # Null => billing'[i][k] = billing[i][k]
<1>1. TypeOK /\ BillingInv /\ [LedgerNext]_ledgerVars => [Kept]_ledgerVars
  <2> SUFFICES ASSUME TypeOK, BillingInv, LedgerNext PROVE Kept
    OBVIOUS
  <2>1. CASE MutationNext
    <3>1. PICK r \in Requests, now \in 1..clock : \E w \in Plan(r, now) : Mutate(r, now, w)
      BY <2>1 DEF MutationNext
    <3>2. PICK w \in Plan(r, now) : Mutate(r, now, w)
      BY <3>1
    <3>3. now \in Nat \ {0} /\ stamp <= now
      BY <3>2 DEF TypeOK, Mutate
    <3>4. /\ billing' = [billing EXCEPT ![w.id] = w.periods]
          /\ DOMAIN billing = Ids
      BY <3>2 DEF Mutate, Apply, TypeOK
    <3>5. QED
      BY <3>2, <3>3, <3>4, PlanHistory
  <2>2. CASE LowerQuota \/ OperatorNext \/ Tick \/ SyncNext
    <3>1. UNCHANGED billing
      BY <2>2 DEF LowerQuota, OperatorNext, SyncNext, Tick, OperatorStep,
                  AcceptFirst, AcceptNext, Admit, ProvisioningTimeout, FinishRollout,
                  FinishCredentialRotation, Observe, ResourceGone,
                  ImportRead, ImportApply, CompleteDeletion
    <3>2. QED
      BY <3>1
  <2>3. QED
    BY <2>1, <2>2 DEF LedgerNext
<1>2. QED
  BY <1>1, TypeCorrect, BillingInvHolds, PTL DEF LedgerSpec, BillingHistoryKept

=============================================================================
