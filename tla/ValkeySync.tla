----------------------------- MODULE ValkeySync -----------------------------
(***************************************************************************)
(* The two loops of api/internal/sync that keep one PostgreSQL row and its *)
(* Kubernetes objects together: delivery (which also deletes) and import.  *)
(* Every Kubernetes call and every database transaction is a step of its   *)
(* own, so the row and the objects may change between any two of them, and *)
(* the process may stop at any of them.                                    *)
(*                                                                         *)
(* A Get that answers NotFound and the Create after it are one step:       *)
(* nobody but the delivery loop creates these objects.  A resourceVersion  *)
(* is the whole object: a write made with an older copy is a conflict.     *)
(* Names and labels always match (a slug belongs to one row for ever), so  *)
(* the identity of an object is its UID.                                   *)
(***************************************************************************)
EXTENDS Integers, FiniteSets

CONSTANTS
    Absent,         \* no such object
    MaxGeneration,  \* bound: intents of the user; a change made by hand counts as one
    MaxUid,         \* bound: UIDs Kubernetes gives out
    MaxFaults,      \* bound: calls that fail, restarts of the process and changes by hand
    MaxMeddling     \* bound: changes made by hand in the cluster

ASSUME SyncAssumption ==
    /\ MaxGeneration \in Nat \ {0}
    /\ MaxUid \in Nat /\ MaxFaults \in Nat /\ MaxMeddling \in Nat
    /\ Absent \notin Nat

VARIABLES
    row,      \* the row of the instance in valkey_instances
    ns,       \* its Namespace,
    secret,   \* its Secret
    cr,       \* and its ValkeyInstance resource
    uid,      \* the last UID Kubernetes gave out
    served,   \* history: the operator has made credentials for the instance
    d,        \* the delivery of the instance: where it is and what it has read
    m,        \* the import of the instance
    faults,   \* how many calls have failed
    meddled   \* how many changes were made by hand

cluster == <<ns, secret, cr, uid, served>>
bounds == <<faults, meddled>>
syncVars == <<row, ns, secret, cr, uid, served, d, m, faults, meddled>>

Versions == 1..MaxGeneration
Uids == 0..MaxUid            \* 0 is NULL
Stages == {"none", "cr_prepared", "namespace_prepared"}
Reasons == {"none", "namespace_identity", "cr_identity", "secret_state", "cr_delivery",
            "deletion_namespace_identity", "deletion_cr_identity",
            "deletion_finalizer_missing", "namespace_missing", "cr_missing"}

\* applied_vcpu and applied_ram_gb are never there without observed_at.
Row == [generation: Versions, password: Versions, deletionRequested: BOOLEAN,
        deleted: BOOLEAN, stage: Stages, nsUid: Uids, crUid: Uids,
        observed: BOOLEAN, observedGeneration: {0} \cup Versions,
        appliedPassword: {0} \cup Versions, recovery: Reasons,
        operatorRecovery: BOOLEAN, isRecoveryRequired: BOOLEAN]

Namespace == [uid: Uids, terminating: BOOLEAN]

\* The app-password hashes and whether they are the user's; the operator's own
\* credentials, with which it also becomes the owner of the Secret.
Secret == [hash: [Versions -> {"none", "saved", "foreign"}], service: BOOLEAN, owner: Uids]

CR == [uid: Uids, generation: Versions, password: Versions, finalizer: BOOLEAN,
       deleting: BOOLEAN, accepted: {0} \cup Versions,
       acceptedPassword: {0} \cup Versions, initialized: BOOLEAN,
       observed: BOOLEAN, observedGeneration: {0} \cup Versions,
       appliedPassword: {0} \cup Versions, recovery: BOOLEAN]

DeliverySteps ==
    {"namespace", "bind_namespace", "cr", "bind_cr", "secret", "update_secret",
     "write_cr", "bind_written", "clear", "report"}
DeletionSteps ==
    {"del_namespace", "del_bind_namespace", "del_cr", "del_bind_cr", "prepare_cr",
     "fresh", "fresh_cr", "fresh_bind", "delete_cr", "finish", "complete",
     "cancel", "prepare_namespace", "delete_namespace"}
ImportSteps == {"namespace", "bind_namespace", "cr", "bind_cr", "store"}

Delivery == [pc: {"idle"} \cup DeliverySteps \cup DeletionSteps,
             inst: Row \cup {Absent}, ns: Namespace \cup {Absent},
             cr: CR \cup {Absent}, secret: Secret \cup {Absent}, reason: Reasons]
Import == [pc: {"idle"} \cup ImportSteps, inst: Row \cup {Absent},
           ns: Uids, cr: CR \cup {Absent}]

ASSUME AbsentAssumption == Absent \notin Row \cup Namespace \cup Secret \cup CR

NoDelivery == [pc |-> "idle", inst |-> Absent, ns |-> Absent, cr |-> Absent,
               secret |-> Absent, reason |-> "none"]
NoImport == [pc |-> "idle", inst |-> Absent, ns |-> 0, cr |-> Absent]

\* The row as CreateValkeyInstance leaves it; nothing in the cluster yet.
SyncInit ==
    /\ row = [generation |-> 1, password |-> 1, deletionRequested |-> FALSE,
              deleted |-> FALSE, stage |-> "none", nsUid |-> 0, crUid |-> 0,
              observed |-> FALSE, observedGeneration |-> 0, appliedPassword |-> 0,
              recovery |-> "none", operatorRecovery |-> FALSE, isRecoveryRequired |-> FALSE]
    /\ ns = Absent /\ secret = Absent /\ cr = Absent /\ uid = 0 /\ served = FALSE
    /\ d = NoDelivery /\ m = NoImport
    /\ faults = 0 /\ meddled = 0

-----------------------------------------------------------------------------
(* The transactions of api/internal/store/valkey_sync.go                     *)

\* A bug: the UID of the namespace counts as history too.
HistoryWithNamespace(inst) ==
    inst.nsUid # 0 \/ inst.crUid # 0 \/ inst.observed

CreationHasHistory(inst) ==
    inst.crUid # 0 \/ inst.observed \/ inst.observedGeneration > 0
        \/ inst.appliedPassword > 0

\* A UID is what the row knows, or the row knows none yet.
Known(saved, u) == saved \in {0, u}

\* The transaction fails on another UID and on a deleted row.
CanBindNamespace(u) == ~row.deleted /\ Known(row.nsUid, u)
BindNamespace(u) == row' = [row EXCEPT !.nsUid = u]

\* A bug: the last UID seen wins.
CanBindAnyCR(u) == ~row.deleted

CanBindCR(u) == ~row.deleted /\ Known(row.crUid, u)
BindCR(u) == row' = [row EXCEPT !.crUid = u]

SetSyncRecoveryReason(reason) ==
    row' = [row EXCEPT !.recovery = reason,
                       !.isRecoveryRequired = reason # "none" \/ row.operatorRecovery]

\* A bug: a stage is saved only once.
CanPrepareOnce(stage, nsUid, crUid) ==
    /\ ~row.deleted /\ row.deletionRequested
    /\ row.stage # stage

\* validateDeletionStage
CanPrepare(stage, nsUid, crUid) ==
    /\ ~row.deleted /\ row.deletionRequested
    /\ nsUid = 0 => stage = "namespace_prepared" /\ row.nsUid = 0
    /\ nsUid # 0 => Known(row.nsUid, nsUid)
    /\ row.stage = "namespace_prepared" => stage # "cr_prepared"
    /\ stage = "cr_prepared" => crUid # 0
    /\ crUid # 0 => Known(row.crUid, crUid)

Prepare(stage, nsUid, crUid) ==
    row' = IF row.stage = stage THEN row
           ELSE [row EXCEPT !.stage = stage,
                            !.nsUid = IF nsUid # 0 THEN nsUid ELSE @,
                            !.crUid = IF crUid # 0 THEN crUid ELSE @]

-----------------------------------------------------------------------------
(* Delivery of an intent                                                     *)

Step(pc) == d' = [d EXCEPT !.pc = pc]

\* The attempt ends: it is done, or an error that is only logged.  A conflict
\* starts it again at once, three times; the next pass of the loop does so too.
Stop == d' = NoDelivery

\* A bug: the error is logged and not saved.
FailQuietly(reason) == d' = NoDelivery

\* deliveryError: an error a person has to look at is saved with the row.
Fail(reason) == d' = [NoDelivery EXCEPT !.pc = "report", !.reason = reason]

Report ==
    /\ d.pc = "report"
    /\ IF row.deleted THEN UNCHANGED row ELSE SetSyncRecoveryReason(d.reason)
    /\ Stop
    /\ UNCHANGED <<cluster, m, bounds>>

\* FindValkeyInstanceForSync; everything below decides on this copy of the row.
Begin ==
    /\ d.pc = "idle"
    /\ ~row.deleted
    /\ d' = [d EXCEPT !.inst = row,
                      !.pc = IF row.deletionRequested THEN "del_namespace" ELSE "namespace"]
    /\ UNCHANGED <<row, cluster, m, bounds>>

NewNamespace == [uid |-> uid + 1, terminating |-> FALSE]

EnsureNamespace ==
    /\ d.pc = "namespace"
    /\ \/ /\ ns = Absent
          /\ d.inst.nsUid # 0 \/ CreationHasHistory(d.inst)
          /\ Fail("namespace_identity")
          /\ UNCHANGED <<ns, uid>>
       \/ /\ ns = Absent
          /\ d.inst.nsUid = 0 /\ ~CreationHasHistory(d.inst)
          /\ uid < MaxUid
          /\ uid' = uid + 1
          /\ ns' = NewNamespace
          /\ d' = [d EXCEPT !.pc = "bind_namespace", !.ns = NewNamespace]
       \/ /\ ns # Absent
          /\ IF Known(d.inst.nsUid, ns.uid) /\ ~ns.terminating
             THEN d' = [d EXCEPT !.pc = "bind_namespace", !.ns = ns]
             ELSE Fail("namespace_identity")
          /\ UNCHANGED <<ns, uid>>
    /\ UNCHANGED <<row, secret, cr, served, m, bounds>>

SaveNamespaceUid ==
    /\ d.pc = "bind_namespace"
    /\ IF CanBindNamespace(d.ns.uid)
       THEN BindNamespace(d.ns.uid) /\ Step("cr")
       ELSE UNCHANGED row /\ Fail("namespace_identity")
    /\ UNCHANGED <<cluster, m, bounds>>

ReadCR ==
    /\ d.pc = "cr"
    /\ \/ /\ cr = Absent
          /\ IF CreationHasHistory(d.inst) THEN Fail("cr_identity") ELSE Step("secret")
       \/ /\ cr # Absent
          /\ IF Known(d.inst.crUid, cr.uid)
             THEN d' = [d EXCEPT !.pc = "bind_cr", !.cr = cr]
             ELSE Fail("cr_identity")
    /\ UNCHANGED <<row, cluster, m, bounds>>

\* After readCR, and again after the resource is written.
SaveCRUid ==
    /\ d.pc \in {"bind_cr", "bind_written"}
    /\ IF CanBindCR(d.cr.uid)
       THEN /\ BindCR(d.cr.uid)
            /\ Step(IF d.pc = "bind_cr" THEN "secret" ELSE "clear")
       ELSE UNCHANGED row /\ Fail("cr_identity")
    /\ UNCHANGED <<cluster, m, bounds>>

NewSecret(inst) ==
    [hash |-> [v \in Versions |-> IF v = inst.password THEN "saved" ELSE "none"],
     service |-> FALSE, owner |-> 0]

\* What ensureSecret refuses to work with.  ParseAppPasswordHash sees a missing
\* hash, not one that is someone else's.
SecretUnusable ==
    \/ d.cr = Absent /\ secret.service
    \/ d.cr # Absent /\ d.cr.initialized /\ ~secret.service
    \/ d.cr # Absent /\ secret.hash[d.cr.password] = "none"
    \/ secret.hash[d.inst.password] = "foreign"

Writable == ns # Absent /\ ~ns.terminating  \* the namespace takes new objects

EnsureSecret ==
    /\ d.pc = "secret"
    /\ \/ /\ secret = Absent /\ d.cr # Absent
          /\ Fail("secret_state")
          /\ UNCHANGED secret
       \/ /\ secret = Absent /\ d.cr = Absent
          /\ IF Writable
             THEN /\ secret' = NewSecret(d.inst)
                  /\ d' = [d EXCEPT !.pc = "write_cr", !.secret = NewSecret(d.inst)]
             ELSE Stop /\ UNCHANGED secret
       \/ /\ secret # Absent
          /\ IF SecretUnusable
             THEN Fail("secret_state")
             ELSE d' = [d EXCEPT !.secret = secret,
                                 !.pc = IF secret.hash[d.inst.password] = "saved"
                                        THEN "write_cr" ELSE "update_secret"]
          /\ UNCHANGED secret
    /\ UNCHANGED <<row, ns, cr, uid, served, m, bounds>>

WithHash(s, v) == [s EXCEPT !.hash[v] = "saved"]

UpdateSecret ==
    /\ d.pc = "update_secret"
    /\ IF secret = d.secret
       THEN /\ secret' = WithHash(d.secret, d.inst.password)
            /\ d' = [d EXCEPT !.pc = "write_cr", !.secret = WithHash(d.secret, d.inst.password)]
       ELSE Stop /\ UNCHANGED secret
    /\ UNCHANGED <<row, ns, cr, uid, served, m, bounds>>

\* A bug: the generation of the first spec is left at its zero value.
NewUnversionedCR(inst) ==
    [uid |-> uid + 1, generation |-> 0, password |-> inst.password,
     finalizer |-> TRUE, deleting |-> FALSE, accepted |-> 0, acceptedPassword |-> 0,
     initialized |-> FALSE, observed |-> FALSE, observedGeneration |-> 0, appliedPassword |-> 0,
     recovery |-> FALSE]

NewCR(inst) ==
    [uid |-> uid + 1, generation |-> inst.generation, password |-> inst.password,
     finalizer |-> TRUE, deleting |-> FALSE, accepted |-> 0, acceptedPassword |-> 0,
     initialized |-> FALSE, observed |-> FALSE, observedGeneration |-> 0, appliedPassword |-> 0,
     recovery |-> FALSE]

\* Its guards (no history, no service credentials) were checked on the same
\* copies by readCR and ensureSecret.
CreateCR ==
    /\ d.pc = "write_cr" /\ d.cr = Absent
    /\ uid < MaxUid
    /\ IF Writable /\ cr = Absent
       THEN /\ uid' = uid + 1
            /\ cr' = NewCR(d.inst)
            /\ d' = [d EXCEPT !.pc = "bind_written", !.cr = NewCR(d.inst)]
       ELSE Stop /\ UNCHANGED <<cr, uid>>
    /\ UNCHANGED <<row, ns, secret, served, m, bounds>>

\* A bug: an intent with the same password counts as delivered.
DeliveredPassword(res, inst) == res.password = inst.password /\ res.finalizer

Delivered(res, inst) ==
    /\ res.generation = inst.generation
    /\ res.password = inst.password
    /\ res.finalizer

UpdatedCR(res, inst) ==
    [res EXCEPT !.generation = inst.generation, !.password = inst.password,
                !.finalizer = TRUE]

UpdateCR ==
    /\ d.pc = "write_cr" /\ d.cr # Absent
    /\ \/ /\ \/ d.cr.deleting
             \/ d.cr.generation > d.inst.generation
             \/ d.cr.password > d.inst.password
             \/ d.secret.hash[d.inst.password] = "none"
          /\ Fail("cr_delivery")
          /\ UNCHANGED cr
       \/ /\ ~d.cr.deleting
          /\ d.cr.generation <= d.inst.generation
          /\ d.cr.password <= d.inst.password
          /\ d.secret.hash[d.inst.password] # "none"
          /\ IF Delivered(d.cr, d.inst)
             THEN Step("bind_written") /\ UNCHANGED cr
             ELSE IF cr = d.cr
             THEN /\ cr' = UpdatedCR(d.cr, d.inst)
                  /\ d' = [d EXCEPT !.pc = "bind_written", !.cr = UpdatedCR(d.cr, d.inst)]
             ELSE Stop /\ UNCHANGED cr
    /\ UNCHANGED <<row, ns, secret, uid, served, m, bounds>>

ClearRecovery ==
    /\ d.pc = "clear"
    /\ IF row.deleted THEN UNCHANGED row ELSE SetSyncRecoveryReason("none")
    /\ Stop
    /\ UNCHANGED <<cluster, m, bounds>>

-----------------------------------------------------------------------------
(* Deletion, by the same loop                                                *)

\* A bug: a namespace that is being removed counts as removed.
ReadTerminatingNamespace ==
    /\ d.pc = "del_namespace"
    /\ IF ns = Absent \/ ns.terminating THEN Step("finish")
       ELSE IF Known(d.inst.nsUid, ns.uid)
       THEN d' = [d EXCEPT !.pc = "del_bind_namespace", !.ns = ns]
       ELSE Fail("deletion_namespace_identity")
    /\ UNCHANGED <<row, cluster, m, bounds>>

ReadDeletionNamespace ==
    /\ d.pc = "del_namespace"
    /\ IF ns = Absent THEN Step("finish")
       ELSE IF Known(d.inst.nsUid, ns.uid)
       THEN d' = [d EXCEPT !.pc = "del_bind_namespace", !.ns = ns]
       ELSE Fail("deletion_namespace_identity")
    /\ UNCHANGED <<row, cluster, m, bounds>>

SaveDeletionNamespaceUid ==
    /\ d.pc = "del_bind_namespace"
    /\ IF CanBindNamespace(d.ns.uid)
       THEN /\ BindNamespace(d.ns.uid)
            /\ Step(IF d.inst.stage = "namespace_prepared"
                    THEN "delete_namespace" ELSE "del_cr")
       ELSE UNCHANGED row /\ Fail("deletion_namespace_identity")
    /\ UNCHANGED <<cluster, m, bounds>>

WithoutCR == IF d.inst.stage = "cr_prepared" THEN "prepare_namespace" ELSE "cancel"

\* A bug: a resource that is being removed counts as removed.
ReadTerminatingCR ==
    /\ d.pc = "del_cr"
    /\ IF cr = Absent \/ cr.deleting THEN Step(WithoutCR)
       ELSE IF Known(d.inst.crUid, cr.uid)
       THEN d' = [d EXCEPT !.pc = "del_bind_cr", !.cr = cr]
       ELSE Fail("deletion_cr_identity")
    /\ UNCHANGED <<row, cluster, m, bounds>>

ReadDeletionCR ==
    /\ d.pc = "del_cr"
    /\ IF cr = Absent THEN Step(WithoutCR)
       ELSE IF Known(d.inst.crUid, cr.uid)
       THEN d' = [d EXCEPT !.pc = "del_bind_cr", !.cr = cr]
       ELSE Fail("deletion_cr_identity")
    /\ UNCHANGED <<row, cluster, m, bounds>>

\* Without the finalizer nothing would wait for the processes to stop.
SaveDeletionCRUid ==
    /\ d.pc = "del_bind_cr"
    /\ IF CanBindCR(d.cr.uid)
       THEN /\ BindCR(d.cr.uid)
            /\ IF d.cr.finalizer THEN Step("prepare_cr")
               ELSE Fail("deletion_finalizer_missing")
       ELSE UNCHANGED row /\ Fail("deletion_cr_identity")
    /\ UNCHANGED <<cluster, m, bounds>>

PrepareCRDeletion ==
    /\ d.pc = "prepare_cr"
    /\ IF CanPrepare("cr_prepared", d.ns.uid, d.cr.uid)
       THEN /\ Prepare("cr_prepared", d.ns.uid, d.cr.uid)
            /\ IF d.cr.deleting THEN Stop ELSE Step("fresh")
       ELSE UNCHANGED row /\ Stop
    /\ UNCHANGED <<cluster, m, bounds>>

\* The row and the resource are read again before the resource is deleted.
ReadFreshRow ==
    /\ d.pc = "fresh"
    /\ IF ~row.deleted /\ row.deletionRequested /\ row.stage = "cr_prepared"
       THEN d' = [d EXCEPT !.pc = "fresh_cr", !.inst = row, !.cr = Absent]
       ELSE Stop
    /\ UNCHANGED <<row, cluster, m, bounds>>

ReadFreshCR ==
    /\ d.pc = "fresh_cr"
    /\ IF cr # Absent /\ Known(d.inst.crUid, cr.uid)
       THEN d' = [d EXCEPT !.pc = "fresh_bind", !.cr = cr]
       ELSE Stop
    /\ UNCHANGED <<row, cluster, m, bounds>>

SaveFreshCRUid ==
    /\ d.pc = "fresh_bind"
    /\ IF CanBindCR(d.cr.uid)
       THEN /\ BindCR(d.cr.uid)
            /\ IF d.cr.deleting THEN Stop ELSE Step("delete_cr")
       ELSE UNCHANGED row /\ Stop
    /\ UNCHANGED <<cluster, m, bounds>>

\* What a DELETE does to a resource: with a finalizer it is only marked.
Removed(res) == IF res.finalizer THEN [res EXCEPT !.deleting = TRUE] ELSE Absent

\* With the UID and the resourceVersion as preconditions.
DeleteCR ==
    /\ d.pc = "delete_cr"
    /\ cr' = IF cr = d.cr THEN Removed(cr) ELSE cr
    /\ Stop
    /\ UNCHANGED <<row, ns, secret, uid, served, m, bounds>>

\* safeCanceledCreation: there was never anything to stop.
CancelCreation ==
    /\ d.pc = "cancel"
    /\ IF CreationHasHistory(d.inst) \/ (secret # Absent /\ secret.service)
       THEN Fail("cr_missing") ELSE Step("prepare_namespace")
    /\ UNCHANGED <<row, cluster, m, bounds>>

PrepareNamespaceDeletion ==
    /\ d.pc = "prepare_namespace"
    /\ IF CanPrepare("namespace_prepared", d.ns.uid, d.inst.crUid)
       THEN Prepare("namespace_prepared", d.ns.uid, d.inst.crUid) /\ Step("delete_namespace")
       ELSE UNCHANGED row /\ Stop
    /\ UNCHANGED <<cluster, m, bounds>>

\* The row read again here can have changed only by the hand of this loop.
DeletePreparedNamespace ==
    /\ d.pc = "delete_namespace"
    /\ ns' = IF /\ row.stage = "namespace_prepared"
                /\ Known(row.nsUid, d.ns.uid)
                /\ ns = d.ns
             THEN [ns EXCEPT !.terminating = TRUE] ELSE ns
    /\ Stop
    /\ UNCHANGED <<row, secret, cr, uid, served, m, bounds>>

FinishWithoutNamespace ==
    /\ d.pc = "finish"
    /\ \/ /\ d.inst.stage = "namespace_prepared"
          /\ Step("complete") /\ UNCHANGED row
       \/ /\ d.inst.stage = "none" /\ CreationHasHistory(d.inst)
          /\ Fail("namespace_missing") /\ UNCHANGED row
       \/ /\ d.inst.stage = "cr_prepared" \/ ~CreationHasHistory(d.inst)
          /\ d.inst.stage # "namespace_prepared"
          /\ IF CanPrepare("namespace_prepared", d.inst.nsUid, d.inst.crUid)
             THEN /\ Prepare("namespace_prepared", d.inst.nsUid, d.inst.crUid)
                  /\ Step("complete")
             ELSE UNCHANGED row /\ Stop
    /\ UNCHANGED <<cluster, m, bounds>>

CompleteDeletion ==
    /\ d.pc = "complete"
    /\ row' = IF row.deletionRequested /\ row.stage = "namespace_prepared"
              THEN [row EXCEPT !.deleted = TRUE] ELSE row
    /\ Stop
    /\ UNCHANGED <<cluster, m, bounds>>

Deliver ==
    \/ Begin \/ EnsureNamespace \/ SaveNamespaceUid \/ ReadCR \/ SaveCRUid
    \/ EnsureSecret \/ UpdateSecret \/ CreateCR \/ UpdateCR \/ ClearRecovery \/ Report

DeleteInstance ==
    \/ ReadDeletionNamespace \/ SaveDeletionNamespaceUid \/ ReadDeletionCR
    \/ SaveDeletionCRUid \/ PrepareCRDeletion \/ ReadFreshRow \/ ReadFreshCR
    \/ SaveFreshCRUid \/ DeleteCR \/ CancelCreation \/ PrepareNamespaceDeletion
    \/ DeletePreparedNamespace \/ FinishWithoutNamespace \/ CompleteDeletion

-----------------------------------------------------------------------------
(* Import                                                                    *)

ImportBegin ==
    /\ m.pc = "idle"
    /\ ~row.deleted /\ ~row.deletionRequested
    /\ m' = [m EXCEPT !.pc = "namespace", !.inst = row]
    /\ UNCHANGED <<row, cluster, d, bounds>>

ImportNamespace ==
    /\ m.pc = "namespace"
    /\ m' = IF ns # Absent /\ Known(m.inst.nsUid, ns.uid)
            THEN [m EXCEPT !.pc = "bind_namespace", !.ns = ns.uid] ELSE NoImport
    /\ UNCHANGED <<row, cluster, d, bounds>>

ImportSaveNamespaceUid ==
    /\ m.pc = "bind_namespace"
    /\ IF CanBindNamespace(m.ns)
       THEN BindNamespace(m.ns) /\ m' = [m EXCEPT !.pc = "cr"]
       ELSE UNCHANGED row /\ m' = NoImport
    /\ UNCHANGED <<cluster, d, bounds>>

\* From here on the import does not look at its copy of the row any more.
ImportCR ==
    /\ m.pc = "cr"
    /\ m' = IF cr # Absent /\ ~cr.deleting /\ Known(m.inst.crUid, cr.uid)
            THEN [m EXCEPT !.pc = "bind_cr", !.inst = Absent, !.cr = cr] ELSE NoImport
    /\ UNCHANGED <<row, cluster, d, bounds>>

\* A resource the operator has not reported on yet (observedAt) is not stored.
ImportSaveCRUid ==
    /\ m.pc = "bind_cr"
    /\ IF CanBindCR(m.cr.uid)
       THEN /\ BindCR(m.cr.uid)
            /\ m' = IF m.cr.observed
                    THEN [m EXCEPT !.pc = "store"] ELSE NoImport
       ELSE UNCHANGED row /\ m' = NoImport
    /\ UNCHANGED <<cluster, d, bounds>>

\* validateValkeyObservation
Acceptable(res) ==
    /\ ~row.deleted /\ ~row.deletionRequested
    /\ row.observedGeneration <= res.observedGeneration
    /\ row.appliedPassword <= res.appliedPassword
    /\ res.observedGeneration <= row.generation
    /\ res.appliedPassword <= row.password

\* A bug: the flag is the operator's alone.
ObservedForgetful(res) ==
    [row EXCEPT !.observed = TRUE, !.observedGeneration = res.observedGeneration,
                !.appliedPassword = res.appliedPassword,
                !.operatorRecovery = res.recovery, !.isRecoveryRequired = res.recovery]

Observed(res) ==
    [row EXCEPT !.observed = TRUE, !.observedGeneration = res.observedGeneration,
                !.appliedPassword = res.appliedPassword,
                !.operatorRecovery = res.recovery,
                !.isRecoveryRequired = row.recovery # "none" \/ res.recovery]

ImportObservation ==
    /\ m.pc = "store"
    /\ row' = IF Acceptable(m.cr) THEN Observed(m.cr) ELSE row
    /\ m' = NoImport
    /\ UNCHANGED <<cluster, d, bounds>>

ImportInstance ==
    \/ ImportBegin \/ ImportNamespace \/ ImportSaveNamespaceUid \/ ImportCR
    \/ ImportSaveCRUid \/ ImportObservation

-----------------------------------------------------------------------------
(* The rest of the system, as far as the loops see it                        *)

\* Mutations of the API: a change needs the row to be in step (EnsureReady); a
\* new password is a change too.
RequestChange ==
    /\ ~row.deletionRequested
    /\ row.observed /\ row.observedGeneration = row.generation
    /\ row.generation + meddled < MaxGeneration
    /\ \E v \in {row.password, row.password + 1} :
          row' = [row EXCEPT !.generation = @ + 1, !.password = v]
    /\ UNCHANGED <<cluster, d, m, bounds>>

RequestDeletion ==
    /\ ~row.deletionRequested
    /\ row' = [row EXCEPT !.deletionRequested = TRUE]
    /\ UNCHANGED <<cluster, d, m, bounds>>

\* The operator: each write of a reconciliation is a step.
Live == cr # Absent /\ ~cr.deleting

OperatorFinalizer ==
    /\ Live /\ ~cr.finalizer
    /\ cr' = [cr EXCEPT !.finalizer = TRUE]
    /\ UNCHANGED <<row, ns, secret, uid, served, d, m, bounds>>

\* The first intent, or the next one when the last has been carried out.
OperatorAccept ==
    /\ Live /\ cr.finalizer
    /\ cr.accepted < cr.generation
    /\ cr.accepted = cr.observedGeneration
    /\ cr' = [cr EXCEPT !.accepted = cr.generation, !.acceptedPassword = cr.password]
    /\ UNCHANGED <<row, ns, secret, uid, served, d, m, bounds>>

\* reconcileCredentials finds what it needs.
CredentialsSound ==
    /\ secret # Absent
    /\ secret.hash[cr.acceptedPassword] # "none"
    /\ cr.initialized => secret.service

OperatorWritesSecret ==
    /\ Live /\ cr.accepted > 0
    /\ CredentialsSound /\ ~secret.service
    /\ secret' = [secret EXCEPT !.service = TRUE, !.owner = cr.uid]
    /\ served' = TRUE
    /\ UNCHANGED <<row, ns, cr, uid, d, m, bounds>>

\* The status follows: ready, or waiting for a person.
OperatorReportsCredentials ==
    /\ Live /\ cr.accepted > 0
    /\ cr' = IF CredentialsSound
             THEN [cr EXCEPT !.initialized = @ \/ secret.service,
                             !.recovery = IF secret.service THEN FALSE ELSE @]
             ELSE [cr EXCEPT !.recovery = cr.initialized]
    /\ cr' # cr
    /\ UNCHANGED <<row, ns, secret, uid, served, d, m, bounds>>

\* A bug: the hash of the new version goes, not that of the previous one.
OperatorCleansNewHash ==
    /\ Live /\ cr.initialized /\ CredentialsSound
    /\ 0 < cr.appliedPassword /\ cr.appliedPassword < cr.acceptedPassword
    /\ secret' = [secret EXCEPT !.hash[cr.acceptedPassword] = "none"]
    /\ UNCHANGED <<row, ns, cr, uid, served, d, m, bounds>>

\* finishCredentialRotation removes the previous hash first.
OperatorCleansSecret ==
    /\ Live /\ cr.initialized /\ CredentialsSound
    /\ 0 < cr.appliedPassword /\ cr.appliedPassword < cr.acceptedPassword
    /\ secret.hash[cr.appliedPassword] # "none"
    /\ secret' = [secret EXCEPT !.hash[cr.appliedPassword] = "none"]
    /\ UNCHANGED <<row, ns, cr, uid, served, d, m, bounds>>

\* The heartbeat: a process runs and has answered; it is saved before the
\* process is admitted.
OperatorObserves ==
    /\ Live /\ cr.initialized /\ CredentialsSound /\ ~cr.observed
    /\ cr' = [cr EXCEPT !.observed = TRUE]
    /\ UNCHANGED <<row, ns, secret, uid, served, d, m, bounds>>

OperatorApplies ==
    /\ Live /\ cr.initialized /\ CredentialsSound /\ cr.observed
    /\ cr.observedGeneration < cr.accepted
    /\ cr.appliedPassword \notin {0, cr.acceptedPassword}
          => secret.hash[cr.appliedPassword] = "none"
    /\ cr' = [cr EXCEPT !.observedGeneration = cr.accepted,
                        !.appliedPassword = cr.acceptedPassword]
    /\ UNCHANGED <<row, ns, secret, uid, served, d, m, bounds>>

\* finishDeletion: every process is known to have stopped.
OperatorFinishes ==
    /\ cr # Absent /\ cr.deleting /\ cr.finalizer
    /\ cr' = Absent
    /\ UNCHANGED <<row, ns, secret, uid, served, d, m, bounds>>

Operator ==
    \/ OperatorFinalizer \/ OperatorAccept \/ OperatorWritesSecret
    \/ OperatorReportsCredentials \/ OperatorCleansSecret \/ OperatorObserves
    \/ OperatorApplies \/ OperatorFinishes

\* Kubernetes: the garbage collector, and the removal of a namespace with all
\* that is in it.
CollectSecret ==
    /\ secret # Absent /\ secret.owner # 0
    /\ ~(cr # Absent /\ cr.uid = secret.owner)
    /\ secret' = Absent
    /\ UNCHANGED <<row, ns, cr, uid, served, d, m, bounds>>

EmptyNamespace ==
    /\ ns # Absent /\ ns.terminating
    /\ \/ /\ secret # Absent
          /\ secret' = Absent
          /\ UNCHANGED cr
       \/ /\ Live
          /\ cr' = Removed(cr)
          /\ UNCHANGED secret
    /\ UNCHANGED <<row, ns, uid, served, d, m, bounds>>

RemoveNamespace ==
    /\ ns # Absent /\ ns.terminating /\ secret = Absent /\ cr = Absent
    /\ ns' = Absent
    /\ UNCHANGED <<row, secret, cr, uid, served, d, m, bounds>>

Kubernetes == CollectSecret \/ EmptyNamespace \/ RemoveNamespace

\* A call of either loop fails, its answer is lost, or the process restarts:
\* what the loop has read is forgotten, what it has written stays.
Interrupt ==
    /\ faults + meddled < MaxFaults
    /\ faults' = faults + 1
    /\ \/ d.pc # "idle" /\ d' = NoDelivery /\ UNCHANGED m
       \/ m.pc # "idle" /\ m' = NoImport /\ UNCHANGED d
    /\ UNCHANGED <<row, cluster, meddled>>

\* Somebody works on the cluster with other tools.
Meddle ==
    /\ meddled < MaxMeddling /\ faults + meddled < MaxFaults
    /\ row.generation + meddled < MaxGeneration
    /\ meddled' = meddled + 1
    /\ \/ /\ Live /\ cr' = Removed(cr)
          /\ UNCHANGED <<ns, secret>>
       \/ /\ cr # Absent /\ cr.finalizer
          /\ cr' = IF cr.deleting THEN Absent ELSE [cr EXCEPT !.finalizer = FALSE]
          /\ UNCHANGED <<ns, secret>>
       \/ /\ secret # Absent /\ secret' = Absent
          /\ UNCHANGED <<ns, cr>>
       \/ /\ secret # Absent
          /\ \E v \in Versions : secret.hash[v] = "saved"
                /\ secret' = [secret EXCEPT !.hash[v] = "foreign"]
          /\ UNCHANGED <<ns, cr>>
       \/ /\ ns # Absent /\ ~ns.terminating
          /\ ns' = [ns EXCEPT !.terminating = TRUE]
          /\ UNCHANGED <<secret, cr>>
    /\ UNCHANGED <<row, uid, served, d, m, faults>>

SyncNext ==
    \/ Deliver \/ DeleteInstance \/ ImportInstance
    \/ RequestChange \/ RequestDeletion
    \/ Operator \/ Kubernetes \/ Interrupt \/ Meddle

SyncSpec == SyncInit /\ [][SyncNext]_syncVars

\* The loops run for ever (Runner), the operator's work queue retries, and
\* Kubernetes finishes what it is asked.  Users, faults and people need not act.
SyncFairness ==
    /\ WF_syncVars(Deliver \/ DeleteInstance)
    /\ WF_syncVars(ImportInstance)
    /\ WF_syncVars(Operator)
    /\ WF_syncVars(Kubernetes)

FairSyncSpec == SyncSpec /\ SyncFairness

-----------------------------------------------------------------------------
(* Properties                                                                *)

\* The type of every variable, the copies both loops carry included.
SyncTypeOK ==
    /\ row \in Row
    /\ ns \in Namespace \cup {Absent}
    /\ secret \in Secret \cup {Absent}
    /\ cr \in CR \cup {Absent}
    /\ uid \in Uids
    /\ served \in BOOLEAN
    /\ d \in Delivery
    /\ m \in Import
    /\ faults \in 0..MaxFaults
    /\ meddled \in 0..MaxMeddling

\* Crashes, lost answers, retries and the races between the loops, the operator
\* and the user never raise "recovery required": a reason is saved only when
\* somebody has changed the cluster by hand.  The flag that both loops write is
\* always the disjunction of their reasons.
NoFalseAlarm ==
    /\ meddled = 0 => row.recovery = "none" /\ d.pc # "report"
    /\ row.isRecoveryRequired = (row.recovery # "none" \/ row.operatorRecovery)

\* The resource never asks for a password whose hash is not in the Secret
\* (ensureSecret comes before createCR and updateCR), and a concurrent write of
\* the two writers of the Secret never loses the operator's credentials.
SecretServesResource ==
    meddled = 0 /\ Live =>
        /\ secret # Absent
        /\ secret.hash[cr.password] = "saved"
        /\ cr.initialized => secret.service

\* deleted_at is written only when nothing of the instance is left in the
\* cluster, and nothing of it ever comes back.
DeletedMeansGone ==
    row.deleted => ns = Absent /\ secret = Absent /\ cr = Absent

\* The API asks for the removal of the namespace only when the resource is gone,
\* that is when the operator has seen every process stop.
NamespaceLast ==
    [][ns # Absent /\ ~ns.terminating /\ ns' # Absent /\ ns'.terminating /\ UNCHANGED meddled
         => cr = Absent]_syncVars

\* A resource that is not the one the row is bound to is never changed, deleted
\* or believed by the API, also when it has the right name and labels.
OnlyOwnResource ==
    [][/\ cr # Absent /\ cr' # cr /\ d' # d => cr.uid = row.crUid
       /\ row'.observedGeneration # row.observedGeneration
              \/ row'.operatorRecovery # row.operatorRecovery
          => m.cr.uid = row.crUid]_syncVars

\* The documents: a resource the operator has begun to work on is never created
\* again as a new one; its history is lost and a person has to decide.
NeverRecreated == [][cr = Absent /\ cr' # Absent => ~served]_syncVars

\* Every requested deletion ends: the row is marked deleted.
DeletionEnds == []<>(row.deletionRequested => row.deleted \/ meddled > 0)

\* Every intent reaches the resource and its result reaches the row, unless the
\* deletion of the instance is requested.
IntentDelivered ==
    []<>(row.observedGeneration = row.generation \/ row.deletionRequested \/ meddled > 0)

\* The loss of a resource the row is bound to is reported with the row.
LossReported ==
    []<>(row.crUid # 0 /\ cr = Absent /\ ~row.deletionRequested => row.recovery # "none")

=============================================================================
