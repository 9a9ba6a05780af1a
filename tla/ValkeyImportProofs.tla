------------------------- MODULE ValkeyImportProofs -------------------------
(***************************************************************************)
(* What the rows of ValkeyLedger say of the resources, for every set of    *)
(* instances and requests, any number of pending observations, and any     *)
(* order in which they are written.                                        *)
(***************************************************************************)
EXTENDS ValkeyLedgerProofs

-----------------------------------------------------------------------------
(* The inductive invariant                                                  *)

\* What x - a row, or a status that was read and is not yet written - reports of
\* the resource i is of the configuration it names, and of no later one.
Report(i, x) ==
    /\ x.observedGeneration <= cr[i].status.observedGeneration
    /\ x.observedGeneration = cr[i].accepted.generation =>
          /\ x.applied = cr[i].accepted.size
          /\ x.appliedPasswordVersion = cr[i].accepted.passwordVersion
    /\ x.observedGeneration = cr[i].status.observedGeneration =>
          cr[i].status.applied \in {cr[i].accepted.size, x.applied, Zero}

\* A resource follows its row, and its reports follow the resource.
Running(i) ==
    /\ i \in Active
    /\ cr[i].accepted.generation \in 1..rows[i].desiredGeneration
    /\ cr[i].accepted.generation = rows[i].desiredGeneration =>
          cr[i].accepted = IntentOf(rows[i])
    /\ cr[i].status.observedGeneration <= cr[i].accepted.generation
    /\ cr[i].status.observedGeneration = cr[i].accepted.generation =>
          Settled(cr[i].accepted, cr[i].status)
    /\ Report(i, rows[i])
    /\ \A o \in imported : o.id = i => Report(i, o.status)

\* A row is at most one generation ahead of what was observed of it, and nothing
\* is reported of an instance that never ran.
RowFollowed(i) ==
    rows[i] # NoRow =>
        /\ rows[i].desiredGeneration \in Nat \ {0}
        /\ \/ rows[i].desiredGeneration = rows[i].observedGeneration
           \/ rows[i].desiredGeneration = rows[i].observedGeneration + 1
        /\ Alive(i) \/ rows[i].deletionRequested \/ rows[i].observedGeneration = 0

\* A pending observation is of an instance that runs, or is being deleted.
ReadFromLife(o) == rows[o.id] # NoRow /\ (Alive(o.id) \/ rows[o.id].deletionRequested)

ImportInv ==
    /\ \A o \in imported : ReadFromLife(o)
    /\ \A i \in Ids : RowFollowed(i)
    /\ \A i \in Ids : Alive(i) => Running(i)

-----------------------------------------------------------------------------
(* What a mutation does to a row                                            *)

\* What a row reports stays.
SameReport(row, new) ==
    /\ new.observedGeneration = row.observedGeneration
    /\ new.appliedPasswordVersion = row.appliedPasswordVersion
    /\ new.observedAt = row.observedAt
    /\ new.applied = row.applied
    /\ new.deleted = row.deleted

\* A new intent has a new generation, and the one before has been observed.
Asks(row, new) ==
    /\ SameReport(row, new)
    /\ \/ IntentOf(new) = IntentOf(row)
       \/ /\ row.desiredGeneration = row.observedGeneration
          /\ new.desiredGeneration = row.desiredGeneration + 1

\* Every plan creates a row or changes one that is not being deleted.
PlansRow(r, w) ==
    \/ rows[w.id] = NoRow /\ w.row = NewRow(r)
    \/ /\ rows[w.id] # NoRow /\ ~rows[w.id].deletionRequested
       /\ Asks(rows[w.id], w.row)

LEMMA RowAsks ==
    ASSUME NEW row \in Row, NEW r, NEW new,
           \/ new = row
           \/ new = [row EXCEPT !.name = r.name, !.window = r.window]
           \/ new = [row EXCEPT !.deletionRequested = TRUE]
           \/ /\ row.desiredGeneration = row.observedGeneration
              /\ \/ new = [row EXCEPT !.size = r.size, !.desiredGeneration = @ + 1]
                 \/ new = [row EXCEPT !.wl = r.wl, !.desiredGeneration = @ + 1]
                 \/ new = [row EXCEPT !.pw = r.pw, !.passwordVersion = @ + 1,
                                     !.desiredGeneration = @ + 1]
    PROVE  Asks(row, new)
<1>1. CASE new = row
  BY <1>1 DEF Asks, SameReport
<1>2. CASE new = [row EXCEPT !.name = r.name, !.window = r.window]
  BY <1>2 DEF Asks, SameReport, IntentOf, Row
<1>3. CASE new = [row EXCEPT !.deletionRequested = TRUE]
  BY <1>3 DEF Asks, SameReport, IntentOf, Row
<1>4. CASE /\ row.desiredGeneration = row.observedGeneration
           /\ new = [row EXCEPT !.size = r.size, !.desiredGeneration = @ + 1]
  BY <1>4 DEF Asks, SameReport, Row
<1>5. CASE /\ row.desiredGeneration = row.observedGeneration
           /\ new = [row EXCEPT !.wl = r.wl, !.desiredGeneration = @ + 1]
  BY <1>5 DEF Asks, SameReport, Row
<1>6. CASE /\ row.desiredGeneration = row.observedGeneration
           /\ new = [row EXCEPT !.pw = r.pw, !.passwordVersion = @ + 1,
                               !.desiredGeneration = @ + 1]
  BY <1>6 DEF Asks, SameReport, Row
<1> QED
  BY <1>1, <1>2, <1>3, <1>4, <1>5, <1>6

LEMMA PlanRow ==
    ASSUME TypeOK, NEW r \in Requests, NEW now \in Nat, NEW w \in Plan(r, now)
    PROVE  PlansRow(r, w)
<1>0. r \in Request /\ r.op \in Ops
  BY LedgerAssumption DEF Request
<1>1. ASSUME NEW i \in Ids, rows[i] # NoRow
      PROVE  rows[i] \in Row
  BY <1>1 DEF TypeOK
<1>2. CASE w \in Create(r, now)
  <2>1. PICK i \in {j \in Ids : rows[j] = NoRow} :
           w = Write(r, i, NewRow(r), <<OpenPeriod(r.size, now)>>, now, Audited(r, i, now))
    BY <1>2, Zenon DEF Create
  <2>2. w.id = i /\ w.row = NewRow(r)
    BY <2>1 DEF Write
  <2> QED
    BY <2>1, <2>2 DEF PlansRow
<1>3. Found(r) => rows[r.id] \in Row /\ rows[r.id] # NoRow
  BY <1>1 DEF Found
<1>4. CASE w \in Patch(r, now)
  <2>1. /\ Found(r) /\ ~rows[r.id].deletionRequested
        /\ w = Write(r, r.id, [rows[r.id] EXCEPT !.name = r.name, !.window = r.window],
                     billing[r.id], now, Audited(r, r.id, now))
    BY <1>4 DEF Patch
  <2>2. w.id = r.id /\ w.row = [rows[r.id] EXCEPT !.name = r.name, !.window = r.window]
    BY <2>1 DEF Write
  <2>3. Asks(rows[r.id], w.row)
    BY <1>3, <2>1, <2>2, RowAsks, Zenon
  <2> QED
    BY <1>3, <2>1, <2>2, <2>3 DEF PlansRow
<1>5. CASE w \in Resize(r, now)
  <2>1. Found(r) /\ ~rows[r.id].deletionRequested
    BY <1>5 DEF Resize
  <2>2. CASE rows[r.id].size = r.size
    BY <1>3, <1>5, <2>1, <2>2 DEF Resize, Write, PlansRow, Asks, SameReport
  <2>3. CASE rows[r.id].size # r.size
    <3>1. /\ EnsureReady(rows[r.id], now)
          /\ w = Write(r, r.id,
                       [rows[r.id] EXCEPT !.size = r.size, !.desiredGeneration = @ + 1],
                       Append(Closed(r.id, now, "resized"), OpenPeriod(r.size, now)),
                       now, Audited(r, r.id, now))
      BY <1>5, <2>1, <2>3 DEF Resize, ResizeChange
    <3>2. /\ w.id = r.id
          /\ w.row = [rows[r.id] EXCEPT !.size = r.size, !.desiredGeneration = @ + 1]
      BY <3>1 DEF Write
    <3>3. rows[r.id].desiredGeneration = rows[r.id].observedGeneration
      BY <3>1 DEF EnsureReady
    <3>4. Asks(rows[r.id], w.row)
      BY <1>3, <2>1, <3>2, <3>3, RowAsks, Zenon
    <3> QED
      BY <1>3, <2>1, <3>2, <3>4 DEF PlansRow
  <2> QED
    BY <2>2, <2>3
<1>6. CASE w \in UpdateWhitelist(r, now)
  <2>1. /\ Found(r) /\ ~rows[r.id].deletionRequested /\ EnsureReady(rows[r.id], now)
        /\ w = Write(r, r.id, [rows[r.id] EXCEPT !.wl = r.wl, !.desiredGeneration = @ + 1],
                     billing[r.id], now, Audited(r, r.id, now))
    BY <1>6 DEF UpdateWhitelist
  <2>2. w.id = r.id /\ w.row = [rows[r.id] EXCEPT !.wl = r.wl, !.desiredGeneration = @ + 1]
    BY <2>1 DEF Write
  <2>3. rows[r.id].desiredGeneration = rows[r.id].observedGeneration
    BY <2>1 DEF EnsureReady
  <2>4. Asks(rows[r.id], w.row)
    BY <1>3, <2>1, <2>2, <2>3, RowAsks, Zenon
  <2> QED
    BY <1>3, <2>1, <2>2, <2>4 DEF PlansRow
<1>7. CASE w \in RotatePassword(r, now)
  <2> DEFINE row == [rows[r.id] EXCEPT !.pw = r.pw, !.passwordVersion = @ + 1,
                                       !.desiredGeneration = @ + 1]
  <2>1. /\ Found(r) /\ ~rows[r.id].deletionRequested /\ EnsureReady(rows[r.id], now)
        /\ w = Write(r, r.id, row, billing[r.id], now, Audited(r, r.id, now))
    BY <1>7 DEF RotatePassword
  <2>2. w.id = r.id /\ w.row = row
    BY <2>1 DEF Write
  <2>3. rows[r.id].desiredGeneration = rows[r.id].observedGeneration
    BY <2>1 DEF EnsureReady
  <2>4. Asks(rows[r.id], w.row)
    BY <1>3, <2>1, <2>2, <2>3, RowAsks, Zenon
  <2> QED
    BY <1>3, <2>1, <2>2, <2>4 DEF PlansRow
<1>8. CASE w \in Delete(r, now)
  <2>1. /\ Found(r) /\ ~rows[r.id].deletionRequested
        /\ w = Write(r, r.id, [rows[r.id] EXCEPT !.deletionRequested = TRUE],
                     Closed(r.id, now, "deleted"), now, Audited(r, r.id, now))
    BY <1>8 DEF Delete
  <2>2. w.id = r.id /\ w.row = [rows[r.id] EXCEPT !.deletionRequested = TRUE]
    BY <2>1 DEF Write
  <2>3. Asks(rows[r.id], w.row)
    BY <1>3, <2>1, <2>2, RowAsks, Zenon
  <2> QED
    BY <1>3, <2>1, <2>2, <2>3 DEF PlansRow
<1> QED
  BY <1>0, <1>2, <1>4, <1>5, <1>6, <1>7, <1>8 DEF Plan, Ops

-----------------------------------------------------------------------------
(* Steps that change rows                                                   *)

LEMMA ObservedRow ==
    ASSUME NEW row \in Row, NEW status \in Status
    PROVE  LET new == Observed(row, status)
           IN  /\ IntentOf(new) = IntentOf(row)
               /\ new.desiredGeneration = row.desiredGeneration
               /\ new.deletionRequested = row.deletionRequested
               /\ new.deleted = row.deleted
               /\ new.observedGeneration = status.observedGeneration
               /\ new.appliedPasswordVersion = status.appliedPasswordVersion
               /\ new.observedAt = status.observedAt
               /\ new.applied = IF status.applied = Zero THEN row.applied ELSE status.applied
  BY DEF Observed, IntentOf, Row

\* The row of an instance is created, changed by a mutation, imported or deleted.
RowGoesOn(i) ==
    \/ rows'[i] = rows[i]
    \/ /\ rows[i] = NoRow /\ rows'[i] # NoRow
       /\ rows'[i].desiredGeneration = 1 /\ rows'[i].observedGeneration = 0
    \/ /\ rows[i] # NoRow /\ rows'[i] # NoRow
       /\ ~rows[i].deletionRequested
       /\ Asks(rows[i], rows'[i])
    \/ /\ i \in Active /\ rows'[i] # NoRow
       /\ \E o \in imported : /\ o.id = i
                              /\ ValidObservation(rows[i], o.status)
                              /\ rows'[i] = Observed(rows[i], o.status)
    \/ /\ rows[i] # NoRow /\ rows'[i] # NoRow
       /\ ~Alive(i) /\ rows[i].deletionRequested /\ rows'[i].deletionRequested
       /\ rows'[i].desiredGeneration = rows[i].desiredGeneration
       /\ rows'[i].observedGeneration = rows[i].observedGeneration

\* What a step that leaves the resources alone must keep of one instance.
LEMMA RowKept ==
    ASSUME TypeOK, TypeOK', ImportInv, UNCHANGED cr, NEW i \in Ids, RowGoesOn(i)
    PROVE  /\ RowFollowed(i)'
           /\ rows[i] # NoRow => /\ rows'[i] # NoRow
                                 /\ rows[i].deletionRequested => rows'[i].deletionRequested
           /\ Alive(i) => /\ i \in Active'
                          /\ rows'[i].desiredGeneration \in Nat
                          /\ cr[i].accepted.generation \in 1..rows'[i].desiredGeneration
                          /\ cr[i].accepted.generation = rows'[i].desiredGeneration =>
                                cr[i].accepted = IntentOf(rows'[i])
                          /\ Report(i, rows'[i])
<1> DEFINE row == rows[i]
           new == rows'[i]
           acc == cr[i].accepted
           status == cr[i].status
<1>1. /\ row # NoRow => row \in Row /\ row.desiredGeneration \in Nat /\ row.observedGeneration \in Nat
                        /\ row.passwordVersion \in Nat /\ row.deletionRequested \in BOOLEAN
      /\ new # NoRow => new \in Row /\ new.desiredGeneration \in Nat /\ new.observedGeneration \in Nat
                        /\ new.passwordVersion \in Nat /\ new.deletionRequested \in BOOLEAN
  BY DEF TypeOK, Row
<1>2. RowFollowed(i) /\ (Alive(i) => Running(i))
  BY DEF ImportInv
<1>3. Alive(i)' <=> Alive(i)
  BY DEF Alive
<1>4. Alive(i) => /\ row # NoRow /\ ~row.deleted /\ i \in Active
                  /\ acc.generation \in Nat /\ status.observedGeneration \in Nat
  BY <1>2 DEF Running, Active, TypeOK, Alive, Resource, Status, Intents
<1>5. CASE new = row
  BY <1>1, <1>2, <1>3, <1>4, <1>5 DEF RowFollowed, Running, Active, Report
<1>6. CASE /\ row = NoRow /\ new # NoRow
           /\ new.desiredGeneration = 1 /\ new.observedGeneration = 0
  BY <1>1, <1>2, <1>3, <1>4, <1>6 DEF RowFollowed
<1>7. CASE row # NoRow /\ new # NoRow /\ ~row.deletionRequested /\ Asks(row, new)
  <2>1. RowFollowed(i)'
    BY <1>1, <1>2, <1>3, <1>7 DEF RowFollowed, Asks, SameReport, IntentOf
  <2>2. ASSUME Alive(i)
        PROVE  /\ i \in Active'
               /\ acc.generation \in 1..new.desiredGeneration
               /\ acc.generation = new.desiredGeneration => acc = IntentOf(new)
               /\ Report(i, new)
    <3>1. Running(i) /\ row.observedGeneration <= status.observedGeneration
      BY <1>2, <2>2 DEF Running, Report
    <3>2. i \in Active'
      BY <1>4, <1>7, <2>2 DEF Active, Asks, SameReport
    <3>3. Report(i, new)
      BY <1>7, <3>1 DEF Running, Report, Asks, SameReport
    <3>4. /\ acc.generation \in 1..row.desiredGeneration
          /\ acc.generation = row.desiredGeneration => acc = IntentOf(row)
      BY <3>1 DEF Running
    <3>5. CASE IntentOf(new) = IntentOf(row)
      <4>1. new.desiredGeneration = row.desiredGeneration
        BY <3>5 DEF IntentOf
      <4> QED
        BY <3>2, <3>3, <3>4, <3>5, <4>1
    <3>6. CASE new.desiredGeneration = row.desiredGeneration + 1
      BY <1>1, <1>4, <1>7, <2>2, <3>2, <3>3, <3>4, <3>6
    <3> QED
      BY <1>7, <3>5, <3>6 DEF Asks
  <2> QED
    BY <1>1, <1>7, <2>1, <2>2
<1>8. CASE /\ i \in Active /\ new # NoRow
           /\ \E o \in imported : /\ o.id = i
                                  /\ ValidObservation(row, o.status)
                                  /\ new = Observed(row, o.status)
  <2>1. PICK o \in imported : /\ o.id = i
                              /\ ValidObservation(row, o.status)
                              /\ new = Observed(row, o.status)
    BY <1>8
  <2> DEFINE s == o.status
  <2>2. /\ s \in Status /\ s.observedGeneration \in Nat /\ row # NoRow /\ ~row.deleted
        /\ ~row.deletionRequested
    BY <1>8, <2>1 DEF TypeOK, Observation, Status, Active, ValidObservation
  <2>3. Alive(i)
    BY <2>1, <2>2 DEF ImportInv, ReadFromLife
  <2>4. Running(i) /\ Report(i, s) /\ Report(i, row)
    BY <1>2, <2>1, <2>3 DEF Running
  <2>5. /\ IntentOf(new) = IntentOf(row)
        /\ new.desiredGeneration = row.desiredGeneration
        /\ new.deletionRequested = row.deletionRequested
        /\ new.deleted = row.deleted
        /\ new.observedGeneration = s.observedGeneration
        /\ new.appliedPasswordVersion = s.appliedPasswordVersion
        /\ new.applied = IF s.applied = Zero THEN row.applied ELSE s.applied
    BY <1>1, <2>1, <2>2, ObservedRow
  <2>6. /\ s.observedGeneration >= row.observedGeneration
        /\ s.observedGeneration <= row.desiredGeneration
    BY <2>1 DEF ValidObservation
  <2>7. acc.size # Zero /\ acc.size \in Sizes
    BY <2>3, LedgerAssumption DEF TypeOK, Alive, Resource, Intents, Zero
  <2>8. Report(i, new)
    <3>1. /\ s.observedGeneration <= status.observedGeneration
          /\ s.observedGeneration = acc.generation =>
                /\ s.applied = acc.size
                /\ s.appliedPasswordVersion = acc.passwordVersion
          /\ s.observedGeneration = status.observedGeneration =>
                status.applied \in {acc.size, s.applied, Zero}
      BY <2>4 DEF Report
    <3> HIDE DEF acc, status, s, new, row
    <3>2. /\ new.observedGeneration <= status.observedGeneration
          /\ new.observedGeneration = acc.generation =>
                /\ new.applied = acc.size
                /\ new.appliedPasswordVersion = acc.passwordVersion
          /\ new.observedGeneration = status.observedGeneration =>
                status.applied \in {acc.size, new.applied, Zero}
      BY <2>5, <2>7, <3>1
    <3> QED
      BY <3>2 DEF Report, acc, status, new
  <2>9. RowFollowed(i)'
    BY <1>1, <1>2, <1>3, <1>8, <2>2, <2>3, <2>5, <2>6 DEF RowFollowed
  <2> QED
    BY <1>1, <1>4, <1>8, <2>2, <2>3, <2>4, <2>5, <2>8, <2>9 DEF Running, Active
<1>9. CASE /\ row # NoRow /\ new # NoRow
           /\ ~Alive(i) /\ row.deletionRequested /\ new.deletionRequested
           /\ new.desiredGeneration = row.desiredGeneration
           /\ new.observedGeneration = row.observedGeneration
  BY <1>1, <1>2, <1>3, <1>9 DEF RowFollowed
<1> QED
  BY <1>5, <1>6, <1>7, <1>8, <1>9 DEF RowGoesOn

LEMMA RowsGoOn ==
    ASSUME TypeOK, TypeOK', ImportInv, UNCHANGED cr, imported' \subseteq imported,
           \A i \in Ids : RowGoesOn(i)
    PROVE  ImportInv'
<1>1. \A i \in Ids : RowFollowed(i)'
  BY RowKept
<1>2. ASSUME NEW o \in imported' PROVE ReadFromLife(o)'
  <2>1. o \in imported /\ o.id \in Ids
    BY <1>2 DEF TypeOK, Observation
  <2> QED
    BY <2>1, RowKept DEF ImportInv, ReadFromLife, Alive
<1>3. ASSUME NEW i \in Ids, Alive(i)' PROVE Running(i)'
  <2>1. Alive(i) /\ Running(i)
    BY <1>3 DEF Alive, ImportInv
  <2> QED
    BY <2>1, RowKept DEF Running, Report
<1> QED
  BY <1>1, <1>2, <1>3 DEF ImportInv

LEMMA MutateImport ==
    ASSUME TypeOK, TypeOK', ImportInv, NEW r \in Requests, NEW now \in 1..clock,
           NEW w \in Plan(r, now), Mutate(r, now, w)
    PROVE  ImportInv'
<1>1. now \in Nat
  BY DEF TypeOK
<1>2. PlansRow(r, w) /\ w.id \in Ids /\ w.row \in Row
  BY <1>1, PlanRow, PlanType DEF WriteType
<1>3. rows' = [rows EXCEPT ![w.id] = w.row] /\ DOMAIN rows = Ids
  BY DEF Mutate, Apply, TypeOK
<1>4. NewRow(r).desiredGeneration = 1 /\ NewRow(r).observedGeneration = 0 /\ w.row # NoRow
  BY <1>2, LedgerAssumption DEF NewRow
<1>5. ASSUME NEW i \in Ids PROVE RowGoesOn(i)
  <2>1. CASE i = w.id
    BY <1>2, <1>3, <1>4, <2>1 DEF RowGoesOn, PlansRow
  <2>2. CASE i # w.id
    BY <1>3, <2>2 DEF RowGoesOn
  <2> QED
    BY <2>1, <2>2
<1> QED
  BY <1>5, RowsGoOn DEF Mutate

LEMMA CompleteDeletionImport ==
    ASSUME TypeOK, TypeOK', ImportInv, NEW i \in Ids, CompleteDeletion(i)
    PROVE  ImportInv'
<1> DEFINE new == [rows[i] EXCEPT !.deleted = TRUE]
<1>1. rows[i] \in Row /\ rows[i] # NoRow /\ DOMAIN rows = Ids
  BY DEF CompleteDeletion, Active, TypeOK
<1>2. /\ new.deletionRequested = rows[i].deletionRequested
      /\ new.desiredGeneration = rows[i].desiredGeneration
      /\ new.observedGeneration = rows[i].observedGeneration
  BY <1>1 DEF Row
<1>3. new # NoRow
  <2>1. new \in Row
    BY <1>1, Zenon DEF Row
  <2> QED
    BY <2>1, LedgerAssumption
<1>4. rows' = [rows EXCEPT ![i] = new] /\ ~Alive(i) /\ rows[i].deletionRequested
  BY DEF CompleteDeletion
<1> HIDE DEF new
<1>5. ASSUME NEW j \in Ids PROVE RowGoesOn(j)
  <2>1. CASE j = i
    BY <1>1, <1>2, <1>3, <1>4, <2>1 DEF RowGoesOn
  <2>2. CASE j # i
    BY <1>1, <1>4, <2>2 DEF RowGoesOn
  <2> QED
    BY <2>1, <2>2
<1> QED
  BY <1>5, RowsGoOn DEF CompleteDeletion

LEMMA ImportApplyImport ==
    ASSUME TypeOK, TypeOK', ImportInv, NEW o \in imported, ImportApply(o)
    PROVE  ImportInv'
<1>1. o.id \in Ids /\ DOMAIN rows = Ids
  BY DEF TypeOK, Observation
<1>2. CASE o.id \in Active /\ ValidObservation(rows[o.id], o.status)
  <2>1. rows' = [rows EXCEPT ![o.id] = Observed(rows[o.id], o.status)]
    BY <1>2 DEF ImportApply
  <2>2. rows[o.id] \in Row /\ o.status \in Status
    BY <1>2 DEF TypeOK, Active, Observation
  <2>3. rows'[o.id] = Observed(rows[o.id], o.status) /\ rows'[o.id] # NoRow
    BY <1>1, <2>1, <2>2, ObservedBilling
  <2>4. ASSUME NEW i \in Ids PROVE RowGoesOn(i)
    <3>1. CASE i = o.id
      BY <1>2, <2>3, <3>1 DEF RowGoesOn
    <3>2. CASE i # o.id
      BY <1>1, <2>1, <3>2 DEF RowGoesOn
    <3> QED
      BY <3>1, <3>2
  <2> QED
    BY <2>4, RowsGoOn DEF ImportApply
<1>3. CASE ~(o.id \in Active /\ ValidObservation(rows[o.id], o.status))
  <2>1. rows' = rows
    BY <1>3 DEF ImportApply
  <2> QED
    BY <2>1, RowsGoOn DEF ImportApply, RowGoesOn
<1> QED
  BY <1>2, <1>3

-----------------------------------------------------------------------------
(* Steps that change a resource, or read it                                 *)

\* The status of a resource moves within the configuration it has accepted.
LEMMA StatusMoves ==
    ASSUME TypeOK, TypeOK', ImportInv, UNCHANGED <<rows, imported>>,
           NEW i \in Ids, Alive(i), NEW s \in Status,
           cr' = [cr EXCEPT ![i].status = s],
           s.applied \in {cr[i].status.applied, cr[i].accepted.size},
           s.observedGeneration \in {cr[i].status.observedGeneration, cr[i].accepted.generation},
           s.observedGeneration = cr[i].accepted.generation => Settled(cr[i].accepted, s)
    PROVE  ImportInv'
<1> DEFINE acc == cr[i].accepted
           old == cr[i].status
<1>1. cr[i] \in Resource /\ DOMAIN cr = Ids
  BY DEF TypeOK, Alive
<1>2. cr'[i].accepted = acc /\ cr'[i].status = s /\ \A j \in Ids \ {i} : cr'[j] = cr[j]
  BY <1>1 DEF Resource
<1>3. Alive(i)' /\ \A j \in Ids : Alive(j)' <=> Alive(j)
  <2>1. cr'[i] # NoCR
    <3>1. [cr[i] EXCEPT !.status = s] \in Resource
      BY <1>1 DEF Resource
    <3>2. cr'[i] = [cr[i] EXCEPT !.status = s]
      BY <1>1
    <3> QED
      BY <3>1, <3>2, LedgerAssumption
  <2> QED
    BY <1>2, <2>1 DEF Alive
<1>4. /\ acc.generation \in Nat /\ old.observedGeneration \in Nat /\ s.observedGeneration \in Nat
      /\ Running(i) /\ rows[i] \in Row
  BY <1>1 DEF Resource, Intents, Status, ImportInv, Running, Active, TypeOK
<1>5. ASSUME NEW x, x.observedGeneration \in Nat, Report(i, x)
      PROVE  Report(i, x)'
  <2>1. old.observedGeneration <= acc.generation
    BY <1>4 DEF Running
  <2> QED
    BY <1>2, <1>4, <1>5, <2>1 DEF Report, Settled
<1>6. Running(i)'
  <2>1. rows[i].observedGeneration \in Nat /\ Report(i, rows[i])
    BY <1>4 DEF Row, Running
  <2>2. Report(i, rows[i])'
    BY <1>5, <2>1
  <2>3. ASSUME NEW o \in imported, o.id = i PROVE Report(i, o.status)'
    <3>1. o.status.observedGeneration \in Nat /\ Report(i, o.status)
      BY <1>4, <2>3 DEF TypeOK, Observation, Status, Running
    <3> QED
      BY <1>5, <3>1
  <2>4. /\ i \in Active'
        /\ cr'[i].accepted.generation \in 1..rows'[i].desiredGeneration
        /\ cr'[i].accepted.generation = rows'[i].desiredGeneration =>
              cr'[i].accepted = IntentOf(rows'[i])
        /\ cr'[i].status.observedGeneration <= cr'[i].accepted.generation
        /\ cr'[i].status.observedGeneration = cr'[i].accepted.generation =>
              Settled(cr'[i].accepted, cr'[i].status)
    BY <1>2, <1>4 DEF Running, Active
  <2> QED
    BY <2>2, <2>3, <2>4 DEF Running
<1>7. ASSUME NEW j \in Ids \ {i}, Alive(j)' PROVE Running(j)'
  BY <1>2, <1>3, <1>7 DEF ImportInv, Running, Report, Active
<1> QED
  BY <1>3, <1>6, <1>7 DEF ImportInv, RowFollowed, ReadFromLife, TypeOK, Observation

LEMMA OperationalFacts ==
    ASSUME NEW mode, NEW accepted \in Intents, NEW s \in Status,
           s.observedGeneration = accepted.generation => Settled(accepted, s),
           NEW new \in Operational(mode, accepted, s)
    PROVE  /\ new \in Status
           /\ new.applied = s.applied
           /\ new.observedGeneration \in {s.observedGeneration, accepted.generation}
           /\ new.observedGeneration = accepted.generation => Settled(accepted, new)
<1>1. new \in Status
  BY OperationalType
<1>2. \/ \E p \in Phases : new = [s EXCEPT !.phase = p]
      \/ /\ Settled(accepted, s)
         /\ \E p \in Phases : new = [s EXCEPT !.phase = p,
                                              !.observedGeneration = accepted.generation]
  BY DEF Operational, Phases
<1>3. CASE \E p \in Phases : new = [s EXCEPT !.phase = p]
  <2>1. PICK p \in Phases : new = [s EXCEPT !.phase = p]
    BY <1>3
  <2>2. /\ new.applied = s.applied /\ new.observedGeneration = s.observedGeneration
        /\ new.appliedPasswordVersion = s.appliedPasswordVersion
    BY <2>1 DEF Status
  <2> QED
    BY <1>1, <2>2 DEF Settled
<1>4. CASE /\ Settled(accepted, s)
           /\ \E p \in Phases : new = [s EXCEPT !.phase = p,
                                                !.observedGeneration = accepted.generation]
  <2>1. PICK p \in Phases : new = [s EXCEPT !.phase = p,
                                            !.observedGeneration = accepted.generation]
    BY <1>4
  <2>2. /\ new.applied = s.applied /\ new.observedGeneration = accepted.generation
        /\ new.appliedPasswordVersion = s.appliedPasswordVersion
    BY <2>1 DEF Status
  <2> QED
    BY <1>1, <1>4, <2>2 DEF Settled
<1> QED
  BY <1>2, <1>3, <1>4

LEMMA UpdateStatusImport ==
    ASSUME TypeOK, TypeOK', ImportInv, UNCHANGED <<rows, imported>>,
           NEW i \in Ids, Alive(i), NEW s \in Status, UpdateStatus(i, s),
           s.applied \in {cr[i].status.applied, cr[i].accepted.size},
           s.observedGeneration = cr[i].status.observedGeneration,
           Settled(cr[i].accepted, cr[i].status) => Settled(cr[i].accepted, s)
    PROVE  ImportInv'
<1> DEFINE acc == cr[i].accepted
<1>1. acc \in Intents
  BY DEF TypeOK, Alive, Resource
<1>2. s.observedGeneration = acc.generation => Settled(acc, s)
  BY DEF ImportInv, Running
<1>3. PICK new \in Operational(rows[i].mode, acc, s) : cr' = [cr EXCEPT ![i].status = new]
  BY DEF UpdateStatus
<1>4. /\ new \in Status
      /\ new.applied = s.applied
      /\ new.observedGeneration \in {s.observedGeneration, acc.generation}
      /\ new.observedGeneration = acc.generation => Settled(acc, new)
  BY <1>1, <1>2, <1>3, OperationalFacts
<1> QED
  BY <1>3, <1>4, StatusMoves

\* The first and the next generation a resource accepts.
LEMMA AcceptImport ==
    ASSUME TypeOK, TypeOK', ImportInv, NEW i \in Ids, AcceptFirst(i) \/ AcceptNext(i)
    PROVE  ImportInv'
<1> DEFINE row == rows[i]
<1>1. /\ i \in Active /\ row \in Row /\ row # NoRow /\ ~row.deletionRequested
      /\ UNCHANGED <<rows, imported>> /\ DOMAIN cr = Ids /\ RowFollowed(i)
  BY DEF AcceptFirst, AcceptNext, OperatorStep, Active, TypeOK, ImportInv
<1>2. IntentOf(row) \in Intents /\ row.desiredGeneration \in Nat /\ row.observedGeneration \in Nat
  BY <1>1 DEF IntentOf, Intents, Row
<1>3. /\ cr'[i] # NoCR
      /\ cr'[i].accepted = IntentOf(row)
      /\ cr'[i].status.observedGeneration \in Nat
      /\ cr'[i].status.observedGeneration < row.desiredGeneration
      /\ Report(i, row)'
      /\ \A o \in imported : o.id = i => Report(i, o.status)'
  <2>1. CASE AcceptFirst(i)
    <3> DEFINE s == [observedGeneration |-> 0, phase |-> "provisioning",
                     observedAt |-> Null, appliedPasswordVersion |-> 0, applied |-> Zero]
               new == [accepted |-> IntentOf(row), status |-> s]
    <3>1. cr' = [cr EXCEPT ![i] = new] /\ ~Alive(i)
      BY <2>1 DEF AcceptFirst
    <3>2. new \in Resource
      <4>1. s \in Status
        BY DEF Status, Phases, Time, Null
      <4> QED
        BY <1>2, <4>1 DEF Resource
    <3>3. cr'[i] = new /\ new # NoCR
      BY <1>1, <3>1, <3>2, LedgerAssumption
    <3>4. cr'[i].accepted = IntentOf(row) /\ cr'[i].status.observedGeneration = 0
          /\ cr'[i].status.applied = Zero
      BY <3>3
    <3>5. row.observedGeneration = 0 /\ row.desiredGeneration # 0
      BY <1>1, <3>1 DEF RowFollowed
    <3>6. \A o \in imported : o.id # i
      BY <1>1, <3>1 DEF ImportInv, ReadFromLife
    <3>7. Report(i, row)'
      BY <1>1, <3>4, <3>5 DEF Report, IntentOf
    <3> QED
      BY <1>2, <3>3, <3>4, <3>5, <3>6, <3>7
  <2>2. CASE AcceptNext(i)
    <3> DEFINE p == IF cr[i].status.phase = "unavailable" THEN cr[i].status.phase
                    ELSE "updating"
               old == cr[i]
               new == [cr[i] EXCEPT !.accepted = IntentOf(row), !.status.phase = p]
    <3>1. /\ old \in Resource /\ old.status \in Status /\ old.accepted \in Intents
          /\ Alive(i) /\ Running(i)
          /\ old.status.observedGeneration = old.accepted.generation
          /\ row.desiredGeneration > old.accepted.generation
          /\ Settled(old.accepted, old.status)
      BY <2>2 DEF AcceptNext, TypeOK, Alive, Resource, ImportInv
    <3>2. [old.status EXCEPT !.phase = p] \in Status
      BY <3>1 DEF Status, Phases
    <3>3. new \in Resource
      BY <1>2, <3>1, <3>2 DEF Resource
    <3>4. cr'[i] = new
      BY <1>1, <2>2 DEF AcceptNext
    <3>5. /\ new.accepted = IntentOf(row)
          /\ new.status.observedGeneration = old.status.observedGeneration
          /\ new.status.applied = old.status.applied
      BY <3>1 DEF Resource, Status
    <3>6. old.status.observedGeneration \in Nat
      BY <3>1 DEF Status
    <3>7. ASSUME NEW x, x.observedGeneration \in Nat, Report(i, x)
          PROVE  Report(i, x)'
      <4>1. IntentOf(row).generation = row.desiredGeneration
        BY DEF IntentOf
      <4>2. /\ x.observedGeneration <= old.status.observedGeneration
            /\ x.observedGeneration = old.status.observedGeneration => x.applied = old.status.applied
        BY <3>1, <3>7 DEF Report, Settled
      <4> HIDE DEF new, old
      <4> QED
        BY <1>2, <3>1, <3>4, <3>5, <3>6, <3>7, <4>1, <4>2 DEF Report
    <3>8. Report(i, row)'
      BY <1>1, <1>2, <3>1, <3>7 DEF Running
    <3>9. ASSUME NEW o \in imported, o.id = i PROVE Report(i, o.status)'
      BY <3>1, <3>7, <3>9 DEF Running, TypeOK, Observation, Status
    <3> HIDE DEF new, old
    <3> QED
      BY <1>2, <3>1, <3>3, <3>4, <3>5, <3>6, <3>8, <3>9, LedgerAssumption
  <2> QED
    BY <2>1, <2>2
<1>4. \A j \in Ids \ {i} : cr'[j] = cr[j]
  BY <1>1 DEF AcceptFirst, AcceptNext
<1>5. Running(i)'
  <2>1. IntentOf(row).generation = row.desiredGeneration /\ row.desiredGeneration # 0
    BY <1>1 DEF IntentOf, RowFollowed
  <2>2. i \in Active' /\ rows'[i] = row /\ imported' = imported
    BY <1>1 DEF Active
  <2> QED
    BY <1>2, <1>3, <2>1, <2>2 DEF Running
<1>6. ASSUME NEW j \in Ids \ {i} PROVE RowFollowed(j)' /\ (Alive(j)' => Running(j)')
  BY <1>1, <1>4, <1>6 DEF ImportInv, Running, Report, Active, Alive, RowFollowed
<1>7. RowFollowed(i)'
  BY <1>1, <1>3 DEF RowFollowed, Alive
<1>8. ASSUME NEW o \in imported' PROVE ReadFromLife(o)'
  BY <1>1, <1>3, <1>4, <1>8 DEF ImportInv, ReadFromLife, Alive, TypeOK, Observation
<1> QED
  BY <1>5, <1>6, <1>7, <1>8 DEF ImportInv

LEMMA ResourceGoneImport ==
    ASSUME TypeOK, TypeOK', ImportInv, NEW i \in Ids, ResourceGone(i)
    PROVE  ImportInv'
<1>1. /\ cr'[i] = NoCR /\ \A j \in Ids \ {i} : cr'[j] = cr[j]
      /\ rows[i].deletionRequested /\ UNCHANGED <<rows, imported>>
  BY DEF ResourceGone, OperatorStep, TypeOK
<1>2. ASSUME NEW j \in Ids PROVE RowFollowed(j)' /\ (Alive(j)' => Running(j)')
  BY <1>1, <1>2 DEF ImportInv, Running, Report, Active, Alive, RowFollowed
<1>3. ASSUME NEW o \in imported' PROVE ReadFromLife(o)'
  BY <1>1, <1>3 DEF ImportInv, ReadFromLife, Alive, TypeOK, Observation
<1> QED
  BY <1>2, <1>3 DEF ImportInv

LEMMA OperatorImport ==
    ASSUME TypeOK, TypeOK', ImportInv, OperatorNext
    PROVE  ImportInv'
<1>1. PICK i \in Ids : \/ AcceptFirst(i) \/ AcceptNext(i) \/ Admit(i)
                       \/ ProvisioningTimeout(i) \/ FinishRollout(i)
                       \/ FinishCredentialRotation(i) \/ Observe(i) \/ ResourceGone(i)
  BY DEF OperatorNext
<1> DEFINE acc == cr[i].accepted
           old == cr[i].status
<1>2. Alive(i) => old \in Status /\ acc \in Intents /\ cr[i] \in Resource /\ DOMAIN cr = Ids
  BY DEF TypeOK, Alive, Resource
<1>3. ASSUME Alive(i) PROVE old.observedGeneration = acc.generation => Settled(acc, old)
  BY <1>3 DEF ImportInv, Running
<1>4. UNCHANGED <<rows, imported>>
  BY <1>1 DEF AcceptFirst, AcceptNext, Admit, ProvisioningTimeout, FinishRollout,
              FinishCredentialRotation, Observe, ResourceGone, OperatorStep
<1>5. CASE Admit(i)
  <2> DEFINE s == [old EXCEPT !.applied = acc.size,
                              !.appliedPasswordVersion = acc.passwordVersion,
                              !.observedAt = clock]
  <2>1. Alive(i) /\ UpdateStatus(i, s)
    BY <1>5 DEF Admit
  <2>2. s \in Status
    BY <1>2, <2>1 DEF Status, Intents, Time, TypeOK
  <2>3. /\ s.applied = acc.size /\ s.appliedPasswordVersion = acc.passwordVersion
        /\ s.observedGeneration = old.observedGeneration
    BY <1>2, <2>1 DEF Status
  <2> HIDE DEF s
  <2> QED
    BY <1>4, <2>1, <2>2, <2>3, UpdateStatusImport DEF Settled
<1>6. CASE FinishRollout(i)
  <2> DEFINE s == [old EXCEPT !.applied = acc.size]
  <2>1. Alive(i) /\ UpdateStatus(i, s)
    BY <1>6 DEF FinishRollout
  <2>2. s \in Status
    BY <1>2, <2>1 DEF Status, Intents
  <2>3. /\ s.applied = acc.size /\ s.appliedPasswordVersion = old.appliedPasswordVersion
        /\ s.observedGeneration = old.observedGeneration
    BY <1>2, <2>1 DEF Status
  <2> HIDE DEF s
  <2> QED
    BY <1>4, <2>1, <2>2, <2>3, UpdateStatusImport DEF Settled
<1>7. CASE FinishCredentialRotation(i)
  <2> DEFINE s == [old EXCEPT !.appliedPasswordVersion = acc.passwordVersion]
  <2>1. Alive(i) /\ UpdateStatus(i, s)
    BY <1>7 DEF FinishCredentialRotation
  <2>2. s \in Status
    BY <1>2, <2>1 DEF Status, Intents
  <2>3. /\ s.applied = old.applied /\ s.appliedPasswordVersion = acc.passwordVersion
        /\ s.observedGeneration = old.observedGeneration
    BY <1>2, <2>1 DEF Status
  <2> HIDE DEF s
  <2> QED
    BY <1>4, <2>1, <2>2, <2>3, UpdateStatusImport DEF Settled
<1>8. CASE Observe(i)
  <2>1. PICK at \in {old.observedAt, clock} :
           IF old.applied = Zero
           THEN cr' = [cr EXCEPT ![i].status.observedAt = at]
           ELSE UpdateStatus(i, [old EXCEPT !.observedAt = at])
    BY <1>8 DEF Observe
  <2> DEFINE s == [old EXCEPT !.observedAt = at]
  <2>2. Alive(i) /\ at \in Time
    BY <1>2, <1>8, <2>1 DEF Observe, Status, Time, TypeOK
  <2>3. s \in Status
    BY <1>2, <2>2 DEF Status
  <2>4. /\ s.applied = old.applied /\ s.appliedPasswordVersion = old.appliedPasswordVersion
        /\ s.observedGeneration = old.observedGeneration
    BY <1>2, <2>2 DEF Status
  <2>5. cr' = [cr EXCEPT ![i].status = s] \/ UpdateStatus(i, s)
    BY <1>2, <2>1, <2>2
  <2> HIDE DEF s
  <2>6. CASE cr' = [cr EXCEPT ![i].status = s]
    BY <1>3, <1>4, <2>2, <2>3, <2>4, <2>6, StatusMoves DEF Settled
  <2>7. CASE UpdateStatus(i, s)
    BY <1>4, <2>2, <2>3, <2>4, <2>7, UpdateStatusImport DEF Settled
  <2> QED
    BY <2>5, <2>6, <2>7
<1>9. CASE ProvisioningTimeout(i)
  <2> DEFINE s == [old EXCEPT !.phase = "error"]
  <2>1. Alive(i) /\ cr' = [cr EXCEPT ![i].status = s]
    BY <1>2, <1>9 DEF ProvisioningTimeout
  <2>2. s \in Status
    BY <1>2, <2>1 DEF Status, Phases
  <2>3. /\ s.applied = old.applied /\ s.appliedPasswordVersion = old.appliedPasswordVersion
        /\ s.observedGeneration = old.observedGeneration
    BY <1>2, <2>1 DEF Status
  <2> HIDE DEF s
  <2> QED
    BY <1>3, <1>4, <2>1, <2>2, <2>3, StatusMoves DEF Settled
<1> QED
  BY <1>1, <1>5, <1>6, <1>7, <1>8, <1>9, AcceptImport, ResourceGoneImport

LEMMA ImportReadImport ==
    ASSUME TypeOK, TypeOK', ImportInv, NEW i \in Ids, ImportRead(i)
    PROVE  ImportInv'
<1> DEFINE new == [id |-> i, status |-> cr[i].status]
<1>1. /\ imported' = imported \cup {new} /\ UNCHANGED <<rows, cr>> /\ Alive(i)
      /\ i \in Active /\ cr[i] \in Resource /\ Running(i)
  BY DEF ImportRead, ImportInv, TypeOK, Alive
<1>2. Report(i, cr[i].status)
  BY <1>1 DEF Report, Running, Settled, Resource, Status
<1>3. ASSUME NEW j \in Ids PROVE RowFollowed(j)' /\ (Alive(j)' => Running(j)')
  <2>1. RowFollowed(j)'
    BY <1>1 DEF ImportInv, RowFollowed, Alive
  <2>2. ASSUME Alive(j)' PROVE Running(j)'
    <3>1. Running(j)
      BY <1>1, <2>2 DEF ImportInv, Alive
    <3>2. ASSUME NEW o \in imported', o.id = j PROVE Report(j, o.status)'
      BY <1>1, <1>2, <3>1, <3>2 DEF Running, Report
    <3> QED
      BY <1>1, <3>1, <3>2 DEF Running, Report, Active
  <2> QED
    BY <2>1, <2>2
<1>4. ASSUME NEW o \in imported' PROVE ReadFromLife(o)'
  BY <1>1, <1>4 DEF ImportInv, ReadFromLife, Alive, Active
<1> QED
  BY <1>3, <1>4 DEF ImportInv

-----------------------------------------------------------------------------
(* Theorems                                                                 *)

LEMMA ImportInvHolds == LedgerSpec => []ImportInv
<1>1. LedgerInit => ImportInv
  BY DEF LedgerInit, ImportInv, RowFollowed, Alive
<1>2. TypeOK /\ TypeOK' /\ ImportInv /\ [LedgerNext]_ledgerVars => ImportInv'
  <2> SUFFICES ASSUME TypeOK, TypeOK', ImportInv, [LedgerNext]_ledgerVars PROVE ImportInv'
    OBVIOUS
  <2>1. CASE MutationNext
    BY <2>1, MutateImport DEF MutationNext
  <2>2. CASE LowerQuota \/ Tick \/ UNCHANGED ledgerVars
    <3>1. UNCHANGED <<rows, cr, imported>>
      BY <2>2 DEF LowerQuota, Tick, ledgerVars
    <3> QED
      BY <3>1, RowsGoOn DEF RowGoesOn
  <2>3. CASE OperatorNext
    BY <2>3, OperatorImport
  <2>4. CASE SyncNext
    BY <2>4, ImportReadImport, CompleteDeletionImport, ImportApplyImport DEF SyncNext
  <2> QED
    BY <2>1, <2>2, <2>3, <2>4 DEF LedgerNext
<1> QED
  BY <1>1, <1>2, TypeCorrect, PTL DEF LedgerSpec

\* A row whose desired generation is observed tells the truth: what
\* ImportValkeyObservation has written of it, in whatever order observations were
\* read and arrived, is what the resource runs.
THEOREM ReadyMeansAppliedHolds == LedgerSpec => []ReadyMeansApplied
<1>1. TypeOK /\ ImportInv => ReadyMeansApplied
  <2> SUFFICES ASSUME TypeOK, ImportInv, NEW i \in Ids, Alive(i),
                      rows[i].desiredGeneration = rows[i].observedGeneration
               PROVE  /\ cr[i].accepted = IntentOf(rows[i])
                      /\ Settled(cr[i].accepted, cr[i].status)
                      /\ rows[i].applied = rows[i].size
                      /\ rows[i].appliedPasswordVersion = rows[i].passwordVersion
    BY DEF ReadyMeansApplied
  <2>1. Running(i) /\ Report(i, rows[i])
    BY DEF ImportInv, Running
  <2>2. /\ rows[i].observedGeneration \in Nat /\ rows[i].desiredGeneration \in Nat
        /\ cr[i].accepted.generation \in Nat /\ cr[i].status.observedGeneration \in Nat
    BY <2>1 DEF TypeOK, Running, Active, Row, Alive, Resource, Intents, Status
  <2>3. /\ cr[i].accepted.generation = rows[i].desiredGeneration
        /\ cr[i].status.observedGeneration = cr[i].accepted.generation
        /\ rows[i].observedGeneration = cr[i].accepted.generation
    BY <2>1, <2>2 DEF Running, Report
  <2> QED
    BY <2>1, <2>3 DEF Running, Report, IntentOf
<1> QED
  BY <1>1, TypeCorrect, ImportInvHolds, PTL

\* checkQuota counts enough: the reservation of a row covers what the operator
\* has accepted and what still runs, also while a smaller size is on its way.
THEOREM ReservationHolds == LedgerSpec => []ReservationCoversReality
<1>1. TypeOK /\ ImportInv => ReservationCoversReality
  <2> SUFFICES ASSUME TypeOK, ImportInv, NEW i \in Ids, Alive(i)
               PROVE  /\ i \in Active
                      /\ Covers(ReserveOf(i), Footprint(rows[i].mode, cr[i].status.applied))
                      /\ Covers(ReserveOf(i), Footprint(rows[i].mode, cr[i].accepted.size))
    BY DEF ReservationCoversReality
  <2> DEFINE row == rows[i]
             acc == cr[i].accepted
             s == cr[i].status
  <2>1. Running(i) /\ Report(i, row) /\ RowFollowed(i) /\ i \in Active
    BY DEF ImportInv, Running
  <2>2. /\ row.observedGeneration \in Nat /\ row.desiredGeneration \in Nat
        /\ acc.generation \in Nat /\ s.observedGeneration \in Nat
        /\ row.size \in Sizes /\ row.applied \in Sizes \cup {Zero}
    BY <2>1 DEF TypeOK, Running, Active, Row, Alive, Resource, Intents, Status
  <2>3. row # NoRow /\ row.observedGeneration <= s.observedGeneration
        /\ s.observedGeneration <= acc.generation /\ acc.generation <= row.desiredGeneration
    BY <2>1, <2>2 DEF Running, Report, Active
  <2>4. row.desiredGeneration \in {row.observedGeneration, row.observedGeneration + 1}
    BY <2>1, <2>3 DEF RowFollowed
  <2>5. acc.size \in {row.size, row.applied} /\ s.applied \in {row.size, row.applied, Zero}
    <3>1. CASE acc.generation = row.desiredGeneration
      <4>1. acc.size = row.size
        BY <2>1, <3>1 DEF Running, IntentOf
      <4>2. CASE s.observedGeneration = acc.generation
        BY <2>1, <4>1, <4>2 DEF Running, Settled
      <4>3. CASE s.observedGeneration # acc.generation
        <5>1. row.observedGeneration = s.observedGeneration
          BY <2>2, <2>3, <2>4, <3>1, <4>3
        <5> QED
          BY <2>1, <4>1, <5>1 DEF Report
      <4> QED
        BY <4>2, <4>3
    <3>2. CASE acc.generation # row.desiredGeneration
      <4>1. row.observedGeneration = acc.generation /\ s.observedGeneration = acc.generation
        BY <2>2, <2>3, <2>4, <3>2
      <4> QED
        BY <2>1, <4>1 DEF Running, Report, Settled
    <3> QED
      BY <3>1, <3>2
  <2>6. ASSUME NEW size \in {row.size, row.applied, Zero}
        PROVE  Covers(ReserveOf(i), Footprint(row.mode, size))
    <3>1. \A z \in {row.size, row.applied, Zero} : z.vcpu \in Nat /\ z.ram \in Nat
      BY <2>2, LedgerAssumption DEF Zero
    <3>2. Zero.vcpu = 0 /\ Zero.ram = 0
      BY DEF Zero
    <3>3. ProcessCount(row.mode) = 1 \/ ProcessCount(row.mode) = 3
      BY DEF ProcessCount
    <3>4. /\ Larger(row.size.vcpu, row.applied.vcpu) \in Nat
          /\ Larger(row.size.ram, row.applied.ram) \in Nat
          /\ Larger(row.size.vcpu, row.applied.vcpu) >= size.vcpu
          /\ Larger(row.size.ram, row.applied.ram) >= size.ram
      BY <3>1, <3>2 DEF Larger
    <3> QED
      BY <3>1, <3>3, <3>4 DEF Covers, ReserveOf, Reserve, Footprint
  <2> QED
    BY <2>1, <2>5, <2>6
<1> QED
  BY <1>1, TypeCorrect, ImportInvHolds, PTL

\* What a row reports never goes back, whatever order observations arrive in, and
\* after a deletion request only CompleteValkeyDeletion writes the row.
THEOREM ObservationOrderHolds == LedgerSpec => ObservationOrder
<1> DEFINE Forward ==
        \A i \in Active : rows'[i] # rows[i] =>
          /\ rows'[i].observedGeneration >= rows[i].observedGeneration
          /\ rows'[i].appliedPasswordVersion >= rows[i].appliedPasswordVersion
          /\ rows'[i].observedAt >= rows[i].observedAt
          /\ rows[i].deletionRequested => rows'[i] = [rows[i] EXCEPT !.deleted = TRUE]
<1>1. TypeOK /\ [LedgerNext]_ledgerVars => [Forward]_ledgerVars
  <2> SUFFICES ASSUME TypeOK, LedgerNext, NEW i \in Active, rows'[i] # rows[i]
               PROVE  /\ rows'[i].observedGeneration >= rows[i].observedGeneration
                      /\ rows'[i].appliedPasswordVersion >= rows[i].appliedPasswordVersion
                      /\ rows'[i].observedAt >= rows[i].observedAt
                      /\ rows[i].deletionRequested => rows'[i] = [rows[i] EXCEPT !.deleted = TRUE]
    OBVIOUS
  <2>1. /\ rows[i] \in Row /\ i \in Ids /\ DOMAIN rows = Ids /\ rows[i] # NoRow
        /\ rows[i].observedGeneration \in Nat /\ rows[i].appliedPasswordVersion \in Nat
        /\ rows[i].observedAt \in Nat
    BY DEF TypeOK, Active, Row, Time
  <2>2. CASE MutationNext
    <3>1. PICK r \in Requests, now \in 1..clock : \E w \in Plan(r, now) : Mutate(r, now, w)
      BY <2>2 DEF MutationNext
    <3>2. PICK w \in Plan(r, now) : Mutate(r, now, w)
      BY <3>1
    <3>3. now \in Nat /\ rows' = [rows EXCEPT ![w.id] = w.row]
      BY <3>2 DEF TypeOK, Mutate, Apply
    <3>4. i = w.id /\ rows'[i] = w.row
      BY <2>1, <3>3
    <3>5. ~rows[i].deletionRequested /\ SameReport(rows[i], rows'[i])
      BY <2>1, <3>3, <3>4, PlanRow DEF PlansRow, Asks
    <3> QED
      BY <2>1, <3>5 DEF SameReport
  <2>3. CASE \E j \in Ids : CompleteDeletion(j)
    <3>1. PICK j \in Ids : CompleteDeletion(j)
      BY <2>3
    <3>2. rows'[i] = [rows[i] EXCEPT !.deleted = TRUE]
      BY <2>1, <3>1 DEF CompleteDeletion
    <3>3. /\ rows'[i].observedGeneration = rows[i].observedGeneration
          /\ rows'[i].appliedPasswordVersion = rows[i].appliedPasswordVersion
          /\ rows'[i].observedAt = rows[i].observedAt
      BY <2>1, <3>2 DEF Row
    <3> QED
      BY <2>1, <3>2, <3>3
  <2>4. CASE \E o \in imported : ImportApply(o)
    <3>1. PICK o \in imported : ImportApply(o)
      BY <2>4
    <3>2. /\ o.id = i /\ ValidObservation(rows[i], o.status)
          /\ rows'[i] = Observed(rows[i], o.status)
      BY <2>1, <3>1 DEF ImportApply
    <3>3. o.status \in Status
      BY DEF TypeOK, Observation
    <3> QED
      BY <2>1, <3>2, <3>3, ObservedRow DEF ValidObservation
  <2>5. CASE UNCHANGED rows
    BY <2>5
  <2> QED
    BY <2>2, <2>3, <2>4, <2>5 DEF LedgerNext, LowerQuota, OperatorNext, SyncNext, Tick, ImportRead,
           OperatorStep, AcceptFirst, AcceptNext, Admit, ProvisioningTimeout, FinishRollout,
           FinishCredentialRotation, Observe, ResourceGone
<1> QED
  BY <1>1, TypeCorrect, PTL DEF LedgerSpec, ObservationOrder

=============================================================================
