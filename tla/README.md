# Formal model of the managed Valkey service

This directory holds TLA+ modules that model the control plane of the managed
Valkey service, the TLC configurations that check them on small instances, and
proofs that TLAPS checks for every value of the constants.  `PROJECT.json` maps
every definition to the lines it models and lists runs, mutants, theorems,
hazards and findings.

## 1. Inventory

| Component | State | Operations | Talks to | Module |
| --- | --- | --- | --- | --- |
| Mutations of the API (`api/internal/valkey`) | rows of `valkey_instances`, `billing_periods`, `idempotency_keys`, `audit_logs`, `user_quotas` | create, patch, resize, whitelist, rotate, delete | PostgreSQL, under one advisory lock | `ValkeyLedger`, `ValkeyApi` |
| Delivery loop (`sync/delivery.go`, `identity.go`) | none of its own; namespace, Secret and `ValkeyInstance` in Kubernetes, recovery reason in the row | create or update the resource of every row | Kubernetes, PostgreSQL | `ValkeySync` |
| Deletion loop (`sync/deletion.go`) | `deletion_stage`, namespace UID of the row | prepare and delete the namespace, complete the row | Kubernetes, PostgreSQL | `ValkeySync` |
| Import loop (`sync/import.go`) | observed columns of the row | read a status, validate, store | Kubernetes, PostgreSQL | `ValkeyLedger`, `ValkeySync` |
| Operator: contract and phase | `status.acceptedConfiguration`, `phase`, `observedGeneration` | accept a generation, confirm it, time out a creation | the resource | `ValkeyChange`, `ValkeyFailover`, `ValkeyLedger` |
| Operator: processes and admission | `status.nodes`, `previousProcesses`, `applied`, `initialized` | observe, admit, recover, prove a termination | Pods, Valkey, Nodes | `ValkeyObservation`, `ValkeyAdmission` |
| Operator: failover and fencing | `status.failover`, primary identity | fence, choose, promote, reconfigure | Pods, Valkey | `ValkeyFailover` |
| Operator: rollout | `status.rollout` | stop, replace, switch the primary, finish | Pods | `ValkeyChange` |
| Operator: credentials and rotation | `status.credentialRotation`, ACL and hashes of the Secret | rotate role by role, finish | Secret, Valkey | `ValkeyChange` |
| Operator: deletion | `status.deletion`, finalizer | remove network, disable access, stop, verify, finish | Pods, Valkey | `ValkeyAdmission` |
| Operator: network and Envoy | `status.network`, the shared Gateway, a cache in memory | list the instance in the Gateway, verify what Envoy runs | Gateway API, Envoy | `ValkeyNetwork` |
| Operator: metrics, lease | `status.metrics`; the lease | sample; start and stop | Valkey, Kubernetes | - |
| Authentication, rate limit, audit paging, platform health, web console | users, sessions, buckets | see `PROJECT.json` | - | - |

What is hard here: requests and loops compete for the same rows; a mutation is a
transaction of many statements that can fail at each; answers are lost and
retried under an idempotency key; an observation is read, delayed and written
later; the operator and the API meet only through a Kubernetes resource, so each
acts on a stale picture of the other; the operator knows the processes only from
what they and their Nodes answered in an earlier pass, its commands may take
effect after it has given them up, and five operations (failover, rollout,
rotation, recovery, deletion) take turns over many passes and restarts.

What makes each part correct is in section 3; the hazards behind the
properties are listed, each at its line, in `PROJECT.json`.

## 2. Modules

### The API

* `ValkeyLedger` - the tables of the API, every HTTP mutation as one step, the
  operator as far as the import loop sees it, and the import loop.
  `Plan(r, now)` is the set of writes a request may commit; the empty set is an
  error answer, a replayed answer or a no-op.  Each of `Create`, `Patch`,
  `Resize`, `UpdateWhitelist`, `RotatePassword` and `Delete` is a translation
  of the method of that name with its early returns in the guard.
  `AcceptFirst`, `AcceptNext`, `Admit`, `ProvisioningTimeout`, `FinishRollout`,
  `FinishCredentialRotation`, `Observe` and `ResourceGone` are the operator's
  status updates; `Operational` is `applyOperationalPhase`.  `ImportRead` and
  `ImportApply` are the two halves of an import with a delay in between, and
  `ValidObservation` is the ordering guard of the store.
* `ValkeyApi` - the same mutations as transactions: `Acquire` (advisory lock),
  `Read` (database clock and quota row), `Decide`/`Refuse`, `Commit`, `Rollback`.
  It extends `ValkeyLedger` and implements `LedgerSpec`; the mapping is the
  identity on the ledger's variables, with `quota` the quotas as the last
  mutation read them (the migration that lowers them takes no lock).
* `ValkeySync` - one instance, its row and its namespace, Secret and
  `ValkeyInstance`, with the delivery loop (`d`) and the import loop (`m`).
  Every Kubernetes call and every transaction is a step: `EnsureNamespace`,
  `ReadCR`, `EnsureSecret`, `UpdateSecret`, `CreateCR`, `UpdateCR` and the `Save...Uid`
  transactions for a delivery, `ReadDeletionNamespace` to `CompleteDeletion` for
  a deletion, `ImportBegin` to `ImportObservation` for an import.  `d.inst` is
  the copy of the row an attempt decides on and `d.cr`, `d.secret`, `d.ns` the
  copies of the objects; a write made with an older copy is a conflict.
  `Operator...` are the operator's writes of the same objects - `OperatorObserves`
  is the heartbeat, without which a report is not stored - and `Kubernetes` the
  garbage collector and the namespace controller.  `Interrupt` is a failed call,
  a lost answer or a restart: copies are forgotten, writes stay.  `Meddle` is a
  person with `kubectl`.  A write takes effect before its caller gives up, or
  not at all; names and labels match, so identities are UIDs.

### The operator of one instance

Each of these modules extends the one before it; `ValkeyOperator` is the
composition.

* `ValkeyProcess` - what the operator cannot control: processes, their Pods and
  Nodes, links, replication, and the administrative session of
  `operator/internal/valkey`.  A process is named by its ordinal and the
  incarnation of its Pod, because Pod UID, container ID, run ID and Node UID
  change together.  A session (`TakeControl`) kills the other administrative
  connections and then sends commands; a command whose answer is lost has taken
  effect, or has not, or waits in `late` and takes effect later unless a later
  session kills its connection.  A Pod no Node has room for (`Unplaced`) waits;
  once it is being deleted no scheduler looks at it again.  Data is a *history*: a
  promotion forks one, and `lineage` says of what; `served` is the history the
  application wrote to last.
* `ValkeyObservation` - `reconcileProcess` of one ordinal: what is observed,
  which threshold a series of errors has passed, proofs of termination, release
  of a stopped Pod, and the assignment of a first primary.
* `ValkeyFailover` - manual fencing, process recovery, the stages of a failover
  (`fencing`, `choosing`, `promoting`, `reconfiguring`) with the choice of a
  candidate and the declared loss of a cache, and `applyOperationalPhase`.
* `ValkeyChange` - acceptance of a configuration, ACL and hashes of the Secret,
  creation of Pods, password rotation, rolling replacement and full stop.
* `ValkeyAdmission` - upstreams of the replicas, labels, admission of replicas
  and of the application, pruning of the history of processes, deletion.
* `ValkeyOperator` - initial states, requests, restarts, and the order of a
  pass.  A pass observes every ordinal (`op.todo`, in any order: the code runs
  them in parallel) and then does the first thing that is due: `Acts` is the
  chain of `reconcile` with each step guarded by those before it.  Three steps go
  through several processes and pass over one whose answer is lost: closing them
  for a full stop and giving them a password note it in `op.skipped` until the pass
  ends (`GivesUp`), and disabling them for a deletion counts the ordinals
  down in `op.todo` (`DisablesOrdinal`).  `st` is the
  saved status, `cr` the resource and the Secret, `op` what the operator keeps in memory and
  loses in a `Restart`.
* `ValkeyCache` - the abstract specification: what an instance promises its
  application.  `OneCache` states that the operator implements it, with
  the writer and `served` and `lineage` of the processes as its variables.
* `MCValkeyOperator` - *scenes*: an instance (how many processes, whether it
  serves already) with what may fail and be asked for, and how often.  A run
  starts in each of its scenes.

Numbers are reduced to what decisions read: the replication offset only chooses
among replicas of one history, so any of these may be chosen; an elapsed
time is a threshold that any further observation may pass.

### The network

* `ValkeyNetwork` - the reconciles of several instances at the same time, the
  shared Gateway, the cache of Envoy snapshots (`EnvoySnapshotCache`) with the
  goroutine that refreshes it, and two Envoy processes.  A pass reads the Gateway
  and writes it back (`ReadGateway`, `UpdateGateway`), or takes snapshots from
  the cache (`EnvoySnapshots`) and checks them (`Verify`); each of these is a
  step, because another reconcile or the refresh may come in between.  What an
  instance asks for is one number that a fingerprint covers (`settings`) and one
  that it leaves out (`addr`, the address of the primary).  The two listeners of
  an instance are one.
* `MCValkeyNetwork` - its scenes.

### Proofs and checking

* `ValkeyLedgerProofs`, `ValkeyImportProofs`, `ValkeyApiProofs`, `ValkeySyncProofs`,
  `ValkeyOperatorProofs`, `ValkeyTargetProofs`, `ValkeyWriterProofs`,
  `ValkeyNetworkProofs` - the theorems.
* `MCValkeyLedger`, `MCValkeyApi` - request sets and values for TLC.

Operators introduced by "A bug:" are deliberately wrong variants of the
definition that follows them.  `PROJECT.json` names, for every checked property,
a variant that TLC finds to violate it.

## 3. Runs

| Run | Question | Bounds | States |
| --- | --- | --- | --- |
| `ledger` | billing, exactly-once and delayed observations of one instance through its life | 1 user, 1 instance, clock to 2 with a key lifetime of 1, 2 pending reads, 3 audit events | 308k |
| `ledger_quota` | two users and the cluster limit, `single` and `ha` | 2 users, 2 instances, 3 audit events | 121k |
| `api_race` | the transactional API implements the ledger | 2 workers, 2 instances, clock to 2, 3 audit events | 272k |
| `sync` | delivery, import and deletion under failures and a person who changes the cluster | 2 generations and passwords, 2 failures, or 1 and 1 change by hand, 4 UIDs | 942k |
| `operator_safety` | one writer, one cache, true proofs of a stop, passwords, deletion | 9 scenes of 1 to 3 processes, 1 to 3 failures, 2 or 3 incarnations | 404k |
| `operator_progress` | recovery, start, rotation, rollout and deletion end; nothing is lost on the way | 7 scenes of 2 or 3 processes, 1 failure | 103k |
| `network` | only what every Envoy process has loaded is confirmed; neighbours do not disturb | 4 scenes of 1 or 2 instances, 2 Envoy processes, 1 or 2 changes or failures | 608k |
| `whitelist_change` (violation) | a whitelist change takes effect | one change | - |
| `silent_failure` (violation) | a failed creation is reported | one creation | - |
| `recreated_resource` (violation) | a resource is never created twice | as `sync` | - |
| `operator_resumes` (violation) | a failure during a rotation holds it up only for a while | 1 crash | - |
| `operator_failover` (violation) | a failover whose new primary is lost ends with another one | 2 crashes | - |

Deadlock is not checked in any run: clients may stop sending, the bounds stop
the clock, the log and the failures, and a deleted row or resource is never
visited again.

**Ledger.** The bounds are the constants `MaxClock`, `MaxAudit`, `MaxReads`.  The
clock passes the key lifetime and the staleness limit; the audit bound allows a
creation with two changes, or with one and a deletion; two pending reads are enough to reorder
observations.  The deployed API imports an instance sequentially, so two pending
reads are more than it does: the run shows that the guard of the store, and not
the deployment, keeps the order.

**Sync.** `MaxFaults`, `MaxMeddling`, `MaxGeneration` and `MaxUid` bound `Interrupt`,
`Meddle`, `RequestChange` and the UIDs; a change by hand takes the place of a
failure.  One generation is followed by one change, with and without a
new password; a third would repeat the second.  Two failures interrupt a
creation and the retry, or the creation and the deletion.  However the loops are
interrupted and however their steps mix with the operator's, a person is called
only when a person has changed the cluster, and the flag that both loops write
means what their reasons say (`NoFalseAlarm`); the resource never
names a password that is not in the Secret (`SecretServesResource`); the row is
marked deleted only when nothing is left (`DeletedMeansGone`) and the namespace
goes last (`NamespaceLast`); a resource that is not the row's is left alone
(`OnlyOwnResource`); intents, deletions and losses reach their end (`IntentDelivered`,
`DeletionEnds`, `LossReported`).

**Operator, safety.** `OneFailure` is the deployed HA instance with any single
failure and a person who fences by hand; `Twice` has two failures in a row; `Late`
two processes and three lost commands or cut links, enough for a command to
arrive after the failover that gave it up; `Changing` a resize and a password
change one over the other with a lost command or a restart; `Crashing` one of them with
a crash; `Shrink` the full stop.  The others have a single process: in `Resized`
its Pod is removed by hand, in `Rotated` it cannot be reached, and in `Remade` its
Pod is removed and made again by hand, or finds no Node, beside a deletion.  Two
failures of different processes in a scene of two are as bad as three in one of
three.  Offsets, times and incarnations beyond the bound only repeat.  What holds:
at most one process executes writes (`OneWriter`), also while an old primary is
unreachable; whoever takes over continues the history the application wrote, or
the loss was declared first (`OneCache`); a recorded stop is a real one
(`ProofOfStop`); the primary Service leads to one process (`OneTarget`); an ordinal
runs one process (`SoleProcess`); a candidate that may have been promoted is kept
(`CandidateKept`); no connection with an old password outlives the rotation
(`OldPasswordGone`); a confirmed generation is applied (`ReportedMeansApplied`); a
released resource has no process (`DeletedMeansStopped`); operations name processes
the status still knows.  `OperationsNameTheKnown` also shows that two
branches of the code, for an operation whose process is forgotten and for a
failover beside a full stop, are never reached.

**Operator, progress.** One failure per scene, because two are known not to
recover (`operator_failover`), and a crash during a rotation or a resize is not
among them, because it is known to hold them up (`operator_resumes`); a Pod that
finds no Node is known to hold up a deletion (section 6), so it is only in
`operator_safety`.  `DataKept` and `OneAtATime` are checked here and not in the
scenes of `operator_safety`: more than one failure, or a crash in the middle of a
rolling replacement, may break them by design.

**Network.** `Alone`: settings change while processes stop or hang; `Moved`: the
primary moves, the operator restarts, objects cannot be read; `Crowd`: two
instances share the cache while a process hangs or the operator restarts;
`Joining`: one instance joins or leaves the Gateway of the other.  `Times` are the
captures that something still refers to, at most one per instance, the
cache and the remembered result.  `Undisturbed` leaves out the instance's own
changes, restarts of Envoy, and a list of processes that could not be read
again: the code stops the instance there on purpose.

## 4. Fairness

`LedgerFairness`, under which the two violations of the ledger are found, is weak
fairness of the operator's acceptance and finishing steps, of the import and of
the completion of a deletion: the controller requeues an instance until nothing
is left to do and both loops run on tickers.
Clients, the migration, the clock, the heartbeat and the provisioning deadline
have none.

`SyncFairness` is weak fairness of the delivery, of the import, of the operator
and of Kubernetes, each as a whole: `Runner` repeats both loops every second, the
operator's queue retries and the namespace controller finishes.  Users, failures
and people have none, and failures are finitely many.

`Fairness` of `ValkeyOperator` is weak for the observations with the ends of
passes, because the queue runs pass after pass; strong for `Acts`, because a pass
may end early, with a call that fails, but not for ever; strong for passing a
threshold, because the clock goes on; weak for the kubelet and for replication.
Machines need not come back and nobody has to fence or ask.

`NetworkFairness` is weak for the passes of each instance (several workers), for
the refresh (it has a timeout), for the interval, and for Envoy: its Pods come
back, answer, and get their configuration.

## 5. Theorems

`ValkeyLedgerProofs` proves, for all sets of users, instances, keys and requests
and with no bound on time or log (`MaxClock` and `MaxAudit` are arbitrary):

* `TypeCorrect`: the type invariant; `PlanType` is its main lemma.
* `ExactlyOnceHolds`: `ExactlyOnce` is not inductive - nothing in the log says
  that the key is still remembered.  `KeysRemember` adds that every keyed event
  has an entry at least as young as itself and no event is younger than the last
  commit; a plan then needs that entry to have expired.
* `BillingTimelineHolds`, `BillingHistory`: `BillingTimeline` needs
  `StartedByNow` (no period starts after the last commit), so that closing at
  `now` cannot end a period before it starts.  `PlanBilling` reduces the six
  mutations to four effects on the periods.

`ValkeyImportProofs` proves, for the same constants and any number of reads that are
pending at the same time and are written in any order:

* `ReadyMeansAppliedHolds`, `ReservationHolds` and `ObservationOrderHolds`.  A row's
  report was read some time ago and the resource has gone on since, so `ImportInv`
  says what a report, stored in the row or still pending, is worth: it is of the
  configuration it names and of no later one, and no size is in use that neither the
  report nor the accepted configuration has (`Report`).  A row is at most one
  generation ahead of what was observed of it (`RowFollowed`), the resource
  accepts no generation the row has not reached, and its own observation names
  the configuration it settled (`Running`).  A pending read is of an instance
  that has not ended unless its deletion was asked for (`ReadFromLife`).  Then it
  does not matter which pending read is written, or when.

`ValkeyApiProofs` proves for any number of workers:

* `ApiInvariant`: whoever has a transaction holds the lock, its time is not
  before the last commit, and its writes are still a plan of the current tables.
* `DecisionHolds` and `ApiImplementsLedger`: hence every commit is a step of the
  ledger, and every theorem about `LedgerSpec` holds of the API.

`ValkeySyncProofs` proves for any number of generations, passwords, UIDs, failures
and changes by hand:

* `SyncTypeCorrect`, `DeletedMeansGoneHolds`, `NamespaceLastHolds` and
  `OnlyOwnResourceHolds`, whatever a person does to the cluster.  What a loop
  is about to do follows from what it read some steps ago, so `SyncInv` says what a
  copy is worth at each step: `Present` that it has been read, `Bound` that a
  resource about to be written, deleted or believed is the one the row is bound
  to, `ObjectsFirst` that the stage the deletion goes by is still that of the
  row and that nothing lives in the cluster longer than its namespace, and
  `RowSound` that a row is deleted from its last stage only, with no delivery
  under way.
* `NoFalseAlarmHolds` and `SecretServesResourceHolds`: as long as nobody changes the
  cluster by hand, no reason for recovery is ever found.  `Untouched` is the
  history that makes the places that raise one unreachable: there has been one
  namespace and one resource, known by their UIDs to whoever has seen them
  (`OneNamespace`, `OneResource`); intents reach the resource in order
  (`InOrder`); the Secret has what the resource asks for and belongs to it
  (`SecretSound`); and the copies of a delivery, however late and whatever the
  import and the operator have done since, are older versions of the same row
  and of the same resource (`CopyOfRow`, `CopyOfResource`).

`ValkeyOperatorProofs` proves for instances of any size and any number of
incarnations, failures, requests and restarts:

* `OperatorTypeCorrect`: the type invariant, with one entry per process in the
  status.
* `ProofOfStopHolds`, `SoleProcessHolds`, `DeletedMeansStoppedHolds` and
  `OperationsNameTheKnownHolds` from one invariant, `OperatorInv`.  None of them is
  inductive: that a Pod is made only when the ordinal's processes have stopped
  rests on the entries of the status, which prunes them, so it must be shown that no
  process is forgotten while it runs (`Tracked`) and that no entry
  speaks of a process that never ran or of a stop that was none (`Faithful`).
  An ordinal runs its processes one by one (`Incarnations`) and the current entry is
  the latest (`Keyed`), so a new identity in the Pod of an ordinal proves the end
  of the one before.  An annotation that fences was set after the stop
  (`FenceSound`).  Pruning keeps what a failover, a rollout or the primary
  assignment names (`NamesKnown`), which needs the order of the operations
  (`Orderly`: no failover beside a full stop, none before the
  first start, a possible promotion only where a candidate is).  `Gone` is the end
  of a deletion.
* `CandidateKeptHolds`, an action property: every step of a failover, a rollout, a
  rotation, an observation or a deletion leads to a status that is good
  (`StatusOK`), keeps the candidate and forgets no running process.

`ValkeyTargetProofs` proves, on top of that, for the same instances:

* `OneTargetHolds`.  That one Pod at most is selected does not follow from the
  step that sets a label: it looks at its own ordinal only.  `TargetInv` says whom a
  label can be found on: the primary of the status, which has to be the source of
  a failover that is still fencing, and between the choice of a candidate and the
  new primary nobody - except a process that has stopped, whose Pod is never ready
  again (`StoppedForGood`).  Each place that moves the primary is a lemma:
  fencing goes on when the label is gone or the stop proven, a full stop when no Pod
  is left, a new first primary when the one before is proven stopped, and a resize
  hands over from the Pod that still runs the primary.

`ValkeyWriterProofs` proves, on top of `OperatorInv`, for the same instances:

* `OneWriterHolds`.  A process "serves" when the application is in it or may yet be
  let in by a command that was sent and not answered, and when it is a primary or
  may yet become one in the same way (`Opens`, `Leading`): the theorem needs that at
  most one process serves, late commands included (`OnlyOne`).  `WriterInv`
  adds what the operator relies on without asking again, about the entries it may
  still act on: those of ordinals this pass has observed, and none once the deletion
  has begun (`Ahead`).  `Strays`: a process
  other than the primary that still serves is an earlier one of its ordinal, and
  while it runs no generation is confirmed, no cache is taken for empty and no full
  stop begins.  `Trusts`: an entry that says "replica in good order" may be wrong,
  because a promotion was carried out after the process was asked; but then the
  process is the candidate, or the primary in a situation in which nobody acts
  against it (`Excused`).  `Promised`: only these two can have a promotion under way.
  `Handed`: from the end of fencing to the new primary the source stays closed with
  the accepted password, or stopped (`Secured`), and the candidate is closed before
  it is promoted.  `Sized`: a resize is not confirmed before it is through, and a
  smaller instance is never made process by process.  TLC checked `WriterInv` on
  the scenes of `operator_safety` before it was proved.  Steps that let nobody in
  and make no primary are alike (`CalmProcs`, `QuietWriter`); the
  handover (`HandoverWriter`, `PromotesWriter`) and the admission
  (`AdmissionWriter`) are what is left.  An instance with a single process has no
  replica to promote; there the process that is let in is the only one that runs.
* `OldPasswordGoneHolds` and `ReportedMeansAppliedHolds`, from one invariant,
  `ChangeInv`.  That a process has the present password, or the present size, is
  not kept by the steps alone: a command with an old password may be
  carried out after its session broke off, a process the rotation has never heard of
  may be running, and an earlier process of an ordinal may run on with
  its old size on a machine nobody reaches.  `Credentialed` says what holds
  of each of them: a process that is confirmed has the password in
  its connections and in every command that is still to come (`Fine`); one without
  an entry, or one that does not run, has nobody in it and nothing on the way that
  would let somebody in (`Unopened`).  So the rotation is over
  for every process when it is over for the entries (`RotationThrough`), and a
  process that gets its first entry later has to be admitted, with the present
  password.  `Fitted` says the same of the size: between two resizes a process that
  runs, or is about to, has it, or is an earlier one of its ordinal, and then its
  entry in the history, which has no proof of a stop, keeps the generation from being
  confirmed (`OldRunning`); and a resize is verified only when every ordinal has
  an entry about the process of its Pod (`CompositionFull`, `CompositionSized`).
  Every other step either leaves the two alone (`CarriedOn`: no process gets
  another password or size, no entry goes back to an earlier process) or is one of
  acceptance, rotation and the end of a resize (the lemmas named `...Change`).  TLC
  checked `ChangeInv` on the scenes of `operator_safety` and
  `operator_progress` before it was proved.

`ValkeyNetworkProofs` proves for any number of instances, Envoy processes and
captures:

* `NetworkTypeCorrect`: the type invariant.
* `ConfirmedHolds` and `OperationsHold`.  Neither is inductive: what is confirmed
  was read from a process some time ago, through a capture or through a result
  that another pass left.  `NetworkInv` says what each of these is worth:
  `RefreshTrue` that a snapshot is of the process the refresh began with unless
  that process has been replaced since, `CacheTrue` and `PassTrue` that a capture
  shows what the processes it names had loaded, `SameCapture` that the time of a
  capture identifies it, and `VerifiedTrue` that a remembered result is right for
  the capture it was made from.  The comparison of the processes before and after
  the refresh (`SameTargets`) is what turns `RefreshTrue` into `CacheTrue`.
* `UndisturbedHolds`, an action property.  That a pass ends as verified as it
  began cannot be seen from its last step: the pass decides from the Gateway and the
  snapshots it has read, and a neighbour or the refresh has gone on since.
  `CalmInv` carries the quiet time of the instance through every place its
  verification passes: the listener in the Gateway is still the one it asked for
  (`ListenersStay`), the refresh, the cache and the capture of a pass hold every
  Envoy process with these settings (`AllHave`), the cache is never older than
  what a pass has read (`SnapshotsAge`), two captures of the same time are the same
  (`SameSnapshots`), and a remembered result of the present settings is a
  success (`ResultRight`).  TLC checked `CalmInv` on the scenes of `network`
  before it was proved.

Assumptions on the constants are in `LedgerAssumption`, `ApiAssumption`,
`SyncAssumption`, `AbsentAssumption`, `ProcessAssumption`, `StatusAssumption` and
`NetworkAssumption`; TLC evaluates them in every run.  They say that the numbers
are numbers, that the value for "none" is no value of the data (no name of a
process, no entry, failover, rollout or rotation: the code has a nil pointer there),
and, in `LedgerAssumption`, what the catalog and the configuration guarantee.

Only model-checked: the sums of the quota (`QuotaRespected`; induction over sets
is out of the prover's reach); of the operator `OneCache`, the refinement of one
cache, which follows the forks of `lineage`, and `DataKept` and `OneAtATime`, which
hold only of the scenes of their run (one failure, or a change without a failure);
and liveness (fairness and ENABLED are out of reach).

## 6. Findings

* A whitelist change is accepted by the API and refused by the operator for ever
  (`whitelist_change`).
* A creation that times out before any process has answered is never reported
  (`silent_failure`).
* The Secret that should prove that a lost resource had been worked on is owned by
  that resource and collected with it; if the API stopped before it saved the UID,
  the resource is created again as a new one (`recreated_resource`).
* A primary crashes before a replica has the new password: the failover waits for
  that replica to have it, and the rotation, which alone gives it, waits for the
  failover (`operator_resumes`).  The same happens in the last stage of a resize:
  `rollout.go:56` ends the pass before what it waits for.
* The primary crashes, the candidate is promoted and dies before the application
  was let in.  It is now the source of a new failover with a history of its own;
  the replica that holds all the data has the former one and is never chosen
  (`operator_failover`).

Other departures and limits met while modelling, with no run of their own:

* When an instance is deleted whose Pod found no Node, the Pod keeps the operator's
  finalizer (`workload.go:313`) while nothing ever reports an end of its container,
  and the deletion waits at `deletion.go:319` until somebody takes the finalizer off
  (compare `openspec/specs/single-instance-lifecycle/spec.md:213-214`).
* The timeout of an empty instance follows `failover.go:414`, not the wording of
  `SYSTEM-DETAIL.md:1049-1052`; a deletion never reads the fencing annotation
  (`valkeyinstance_controller.go:127`, compare `SYSTEM-DETAIL.md:1161-1163`).
* If the primary is lost before its replicas were first seen synchronised, the
  operator waits for ever: there is no candidate and the instance is not empty.
* After a failover the application is let in before a replica follows, so a
  second failure loses data.
* A replacement Pod that dies before its first observation leaves
  `TERMINATION_PROOF_LOST` for ever; a Pod on a deleted Node that was never
  observed aborts every pass; a fenced old primary that is unreachable when the
  reconfiguration ends is not followed up.
* The `EMPTY_RECOVERY` reason, which a later decision reads, is overwritten by
  other reasons.
* A fingerprint leaves out the address of the primary, so within one interval a
  remembered verification counts after the primary has moved, or does not,
  depending on whether a neighbour's result has replaced it in the single slot;
  changed settings give `NETWORK_NOT_READY` until the next capture.

## 7. Plan

1. Proofs: `OneCache` of the operator, on top of `OperatorInv` and `WriterInv`.
2. A composition of `ValkeyNetwork` with the admission of the application, which
   waits for it; the operator's progress now assumes that the network allows.
3. Late writes in `ValkeySync` (a create that takes effect after its caller gave
   up), and a clock that steps back in the import.

## 8. Not modelled

* Wording of errors, DTOs, input validation, logging, HTTP decoding and
  configuration: they change no state.  Construction of Kubernetes objects
  (Services, policies, budgets, routes): it is declarative.  The web console.
* Authentication, rate limit, audit paging, metrics and platform health: read-only,
  or requests of one user that share no state with instances.
* The lease and the manager: losing the lease is a `Restart` with commands under
  way.  Lag of the informer caches is left out; conflicts are not.
* In the operator: Pods of another owner, the StatefulSet of an earlier version,
  images, replies of Valkey that are neither a transport error nor busy, the time
  of the heartbeat, and parsing of INFO.  The disabling stage of a deletion finds
  a sound Secret (`deletion.go:126-136` goes on without one when there is no
  process).  The provisioning deadline is in `ValkeyLedger` only.  Before its
  process has been seen a Pod is known by its finalizer alone, which nobody
  removes.
* In `ValkeySync` the annotations of the namespace (`identity.go:149`): no decision of
  the loops reads them.
* In the network: the comparison of a dump of Envoy field by field, dumps of
  unknown format, `VerifiedAt`, and the conditions of routes, policies and
  certificates, which are a check that may fail.
* The clock of PostgreSQL never steps back; the quotas are set once by the
  migration.
