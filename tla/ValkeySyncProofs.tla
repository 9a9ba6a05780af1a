-------------------------- MODULE ValkeySyncProofs --------------------------
(***************************************************************************)
(* For any number of generations, UIDs, failures and changes by hand: the  *)
(* safety properties of the two loops of ValkeySync.                       *)
(***************************************************************************)
EXTENDS ValkeySync, TLAPS

Delivering == d.pc \in DeliverySteps \ {"report"}

\* The copies a step works with have been read.
Present ==
    /\ d.pc \notin {"idle", "report"} => d.inst \in Row
    /\ d.pc \in {"bind_namespace", "del_bind_namespace", "prepare_cr", "prepare_namespace",
                 "delete_namespace", "del_cr", "del_bind_cr", "cancel"} => d.ns \in Namespace
    /\ d.pc \in {"bind_cr", "bind_written", "del_bind_cr", "prepare_cr", "fresh_bind", "delete_cr"}
          => d.cr \in CR
    /\ d.pc \in {"update_secret", "write_cr"} => d.secret \in Secret
    /\ d.pc \in {"idle", "report", "namespace", "bind_namespace", "cr"} => d.cr = Absent
    /\ m.pc \in {"namespace", "bind_namespace", "cr"} => m.inst \in Row
    /\ m.pc \in {"bind_cr", "store"} => m.cr \in CR

\* The row.
RowSound ==
    /\ row.password <= row.generation
    /\ row.stage # "none" => row.deletionRequested
    /\ row.deleted => row.stage = "namespace_prepared" /\ d.pc = "idle"
    /\ row.isRecoveryRequired = (row.recovery # "none" \/ row.operatorRecovery)

\* Objects live in the namespace, and go before it does.
ObjectsFirst ==
    /\ secret # Absent \/ cr # Absent => ns # Absent
    /\ row.deleted \/ d.pc \in {"finish", "complete"} => ns = Absent
    /\ row.stage = "namespace_prepared" \/ d.pc \in {"cancel", "prepare_namespace", "delete_namespace"}
          => cr = Absent
    /\ Delivering => row.stage = "none"
    /\ d.pc \in {"del_namespace", "del_bind_namespace"} => row.stage = d.inst.stage
    /\ d.pc = "del_cr" => row.stage = d.inst.stage /\ row.stage # "namespace_prepared"
    /\ d.pc = "cancel" => row.stage = "none"
    /\ d.pc \in {"fresh", "fresh_cr", "fresh_bind", "delete_cr"} => row.stage = "cr_prepared"

\* A copy of a resource that is written, deleted or believed is one of the
\* resource the row is bound to.
Bound ==
    /\ cr # Absent => cr.uid > 0
    /\ d.cr # Absent => d.cr.uid > 0
    /\ m.cr # Absent => m.cr.uid > 0
    /\ d.pc \in {"secret", "update_secret", "write_cr"} /\ d.cr # Absent => row.crUid = d.cr.uid
    /\ d.pc = "delete_cr" => row.crUid = d.cr.uid
    /\ m.pc = "store" => row.crUid = m.cr.uid

SyncInv == SyncTypeOK /\ Present /\ RowSound /\ ObjectsFirst /\ Bound

-----------------------------------------------------------------------------
(* As long as nobody changes the cluster by hand                            *)

\* There has been one namespace, and it stays until the deletion is prepared.
OneNamespace ==
    /\ ns # Absent => /\ Known(row.nsUid, ns.uid) /\ Known(m.ns, ns.uid)
                      /\ d.ns # Absent => d.ns.uid = ns.uid
                      /\ ns.terminating => row.stage = "namespace_prepared"
    /\ m.ns # 0 => Known(row.nsUid, m.ns)
    /\ d.ns # Absent => Known(row.nsUid, d.ns.uid) /\ Known(m.ns, d.ns.uid)
    /\ ns = Absent /\ row.stage # "namespace_prepared" => row.nsUid = 0 /\ d.ns = Absent /\ m.ns = 0

\* There has been one resource, and it stays until its deletion.
OneResource ==
    /\ cr # Absent => /\ Known(row.crUid, cr.uid)
                      /\ d.cr # Absent => d.cr.uid = cr.uid
                      /\ m.cr # Absent => m.cr.uid = cr.uid
                      /\ cr.finalizer
                      /\ cr.deleting => row.stage = "cr_prepared"
    /\ d.cr # Absent => /\ Known(row.crUid, d.cr.uid)
                        /\ m.cr # Absent => m.cr.uid = d.cr.uid
                        /\ d.cr.finalizer
                        /\ Delivering => ~d.cr.deleting
    /\ m.cr # Absent => Known(row.crUid, m.cr.uid)
    /\ cr = Absent /\ row.stage = "none" => ~CreationHasHistory(row) /\ d.cr = Absent /\ m.cr = Absent

\* Intents reach the resource in order, and the operator follows in order.
InOrder ==
    cr # Absent => /\ cr.generation <= row.generation /\ cr.password <= row.password
                   /\ cr.acceptedPassword <= cr.password
                   /\ cr.appliedPassword <= cr.acceptedPassword

\* The Secret has what the resource asks for; its owner is the resource.
SecretSound ==
    /\ cr # Absent => /\ secret # Absent /\ secret.hash[cr.password] = "saved"
                      /\ cr.initialized => secret.service
    /\ secret # Absent => /\ \A v \in Versions : secret.hash[v] # "foreign"
                          /\ secret.service => secret.owner # 0
                          /\ secret.owner # 0 => IF cr = Absent THEN row.stage # "none"
                                                                ELSE secret.owner = cr.uid

\* What a delivery or a deletion has read of the row is still true of it.
CopyOfRow ==
    d.pc # "idle" =>
        /\ d.inst.nsUid \in {0, row.nsUid} /\ d.inst.crUid \in {0, row.crUid}
        /\ CreationHasHistory(d.inst) => CreationHasHistory(row)
        /\ d.inst.generation <= row.generation /\ d.inst.password <= row.password
        /\ d.pc = "finish" => row.stage = d.inst.stage

\* The same of the resource and the Secret, during a delivery.
CopyOfResource ==
    /\ Delivering /\ cr # Absent =>
        /\ cr.generation <= d.inst.generation /\ cr.password <= d.inst.password
        /\ d.cr # Absent => /\ d.cr.generation = cr.generation /\ d.cr.password = cr.password
                            /\ d.cr.initialized => cr.initialized
    /\ d.pc \in {"secret", "update_secret", "write_cr"} /\ d.cr = Absent => cr = Absent
    /\ d.pc = "write_cr" => /\ d.secret.hash[d.inst.password] = "saved"
                            /\ secret # Absent /\ secret.hash[d.inst.password] = "saved"

NoReason == row.recovery = "none" /\ d.pc # "report"

Untouched ==
    /\ OneNamespace /\ OneResource /\ InOrder /\ SecretSound /\ CopyOfRow /\ CopyOfResource
    /\ NoReason

UntouchedInv == meddled = 0 => Untouched

-----------------------------------------------------------------------------
(* What the small steps of a loop do to their records                       *)

Pcs == {"idle"} \cup DeliverySteps \cup DeletionSteps

LEMMA NoDeliveryFacts ==
    /\ NoDelivery \in Delivery
    /\ NoDelivery.pc = "idle" /\ NoDelivery.inst = Absent /\ NoDelivery.ns = Absent
    /\ NoDelivery.cr = Absent /\ NoDelivery.secret = Absent
  BY DEF NoDelivery, Delivery, Reasons

LEMMA NoImportFacts ==
    /\ NoImport \in Import
    /\ NoImport.pc = "idle" /\ NoImport.inst = Absent /\ NoImport.ns = 0 /\ NoImport.cr = Absent
  BY SyncAssumption DEF NoImport, Import, Uids

LEMMA StepFacts ==
    ASSUME d \in Delivery, NEW pc \in Pcs, Step(pc)
    PROVE  /\ d' \in Delivery
           /\ d'.pc = pc /\ d'.inst = d.inst /\ d'.ns = d.ns /\ d'.cr = d.cr /\ d'.secret = d.secret
  BY DEF Step, Delivery, Pcs

LEMMA FailFacts ==
    ASSUME NEW reason \in Reasons, Fail(reason)
    PROVE  /\ d' \in Delivery
           /\ d'.pc = "report" /\ d'.inst = Absent /\ d'.ns = Absent
           /\ d'.cr = Absent /\ d'.secret = Absent
  BY NoDeliveryFacts DEF Fail, NoDelivery, Delivery, DeliverySteps

\* What the delivery loop reads or writes it takes along.
TakeNamespace(pc, x) == d' = [d EXCEPT !.pc = pc, !.ns = x]
TakeCR(pc, x) == d' = [d EXCEPT !.pc = pc, !.cr = x]
TakeSecret(pc, x) == d' = [d EXCEPT !.pc = pc, !.secret = x]

LEMMA TakeNamespaceFacts ==
    ASSUME d \in Delivery, NEW pc \in Pcs, NEW x \in Namespace \cup {Absent}, TakeNamespace(pc, x)
    PROVE  /\ d' \in Delivery
           /\ d'.pc = pc /\ d'.inst = d.inst /\ d'.ns = x /\ d'.cr = d.cr /\ d'.secret = d.secret
  BY DEF Delivery, Pcs, TakeNamespace

LEMMA TakeCRFacts ==
    ASSUME d \in Delivery, NEW pc \in Pcs, NEW x \in CR \cup {Absent}, TakeCR(pc, x)
    PROVE  /\ d' \in Delivery
           /\ d'.pc = pc /\ d'.inst = d.inst /\ d'.ns = d.ns /\ d'.cr = x /\ d'.secret = d.secret
  BY DEF Delivery, Pcs, TakeCR

LEMMA TakeSecretFacts ==
    ASSUME d \in Delivery, NEW pc \in Pcs, NEW x \in Secret \cup {Absent}, TakeSecret(pc, x)
    PROVE  /\ d' \in Delivery
           /\ d'.pc = pc /\ d'.inst = d.inst /\ d'.ns = d.ns /\ d'.cr = d.cr /\ d'.secret = x
  BY DEF Delivery, Pcs, TakeSecret

LEMMA BindNamespaceFacts ==
    ASSUME row \in Row, NEW u \in Uids, BindNamespace(u)
    PROVE  /\ row' \in Row /\ row'.nsUid = u
           /\ row'.generation = row.generation /\ row'.password = row.password
           /\ row'.deletionRequested = row.deletionRequested /\ row'.deleted = row.deleted
           /\ row'.stage = row.stage /\ row'.crUid = row.crUid /\ row'.observed = row.observed
           /\ row'.observedGeneration = row.observedGeneration
           /\ row'.appliedPassword = row.appliedPassword /\ row'.recovery = row.recovery
           /\ row'.operatorRecovery = row.operatorRecovery
           /\ row'.isRecoveryRequired = row.isRecoveryRequired
  BY DEF BindNamespace, Row

LEMMA BindCRFacts ==
    ASSUME row \in Row, NEW u \in Uids, BindCR(u)
    PROVE  /\ row' \in Row /\ row'.crUid = u
           /\ row'.generation = row.generation /\ row'.password = row.password
           /\ row'.deletionRequested = row.deletionRequested /\ row'.deleted = row.deleted
           /\ row'.stage = row.stage /\ row'.nsUid = row.nsUid /\ row'.observed = row.observed
           /\ row'.observedGeneration = row.observedGeneration
           /\ row'.appliedPassword = row.appliedPassword /\ row'.recovery = row.recovery
           /\ row'.operatorRecovery = row.operatorRecovery
           /\ row'.isRecoveryRequired = row.isRecoveryRequired
  BY DEF BindCR, Row

LEMMA SetReasonFacts ==
    ASSUME row \in Row, NEW reason \in Reasons, SetSyncRecoveryReason(reason)
    PROVE  /\ row' \in Row /\ row'.recovery = reason
           /\ row'.generation = row.generation /\ row'.password = row.password
           /\ row'.deletionRequested = row.deletionRequested /\ row'.deleted = row.deleted
           /\ row'.stage = row.stage /\ row'.nsUid = row.nsUid /\ row'.crUid = row.crUid
           /\ row'.observed = row.observed
           /\ row'.observedGeneration = row.observedGeneration
           /\ row'.appliedPassword = row.appliedPassword
           /\ row'.operatorRecovery = row.operatorRecovery
           /\ row'.isRecoveryRequired = (reason # "none" \/ row.operatorRecovery)
<1>1. row' = [row EXCEPT !.recovery = reason, !.isRecoveryRequired = reason # "none" \/ row.operatorRecovery]
  BY DEF SetSyncRecoveryReason
<1>2. (reason # "none" \/ row.operatorRecovery) \in BOOLEAN
  OBVIOUS
<1> QED
  BY <1>1, <1>2 DEF Row

LEMMA PrepareFacts ==
    ASSUME row \in Row, NEW stage \in Stages, NEW n \in Uids, NEW c \in Uids,
           Prepare(stage, n, c)
    PROVE  /\ row' \in Row /\ row'.stage = stage
           /\ row'.nsUid \in {row.nsUid, n} /\ row'.crUid \in {row.crUid, c}
           /\ row'.nsUid = 0 => row.nsUid = 0
           /\ row'.crUid = 0 => row.crUid = 0
           /\ row'.generation = row.generation /\ row'.password = row.password
           /\ row'.deletionRequested = row.deletionRequested /\ row'.deleted = row.deleted
           /\ row'.observed = row.observed
           /\ row'.observedGeneration = row.observedGeneration
           /\ row'.appliedPassword = row.appliedPassword /\ row'.recovery = row.recovery
           /\ row'.operatorRecovery = row.operatorRecovery
           /\ row'.isRecoveryRequired = row.isRecoveryRequired
<1>1. CASE row.stage = stage
  BY <1>1 DEF Prepare
<1>2. CASE row.stage # stage
  <2> DEFINE nn == IF n # 0 THEN n ELSE row.nsUid
             cc == IF c # 0 THEN c ELSE row.crUid
  <2>1. row' = [row EXCEPT !.stage = stage, !.nsUid = nn, !.crUid = cc]
    BY <1>2 DEF Prepare
  <2>2. nn \in Uids /\ cc \in Uids /\ (nn = 0 => row.nsUid = 0) /\ (cc = 0 => row.crUid = 0)
    BY DEF Row
  <2>3. nn \in {row.nsUid, n} /\ cc \in {row.crUid, c}
    OBVIOUS
  <2> HIDE DEF nn, cc
  <2> QED
    BY <2>1, <2>2, <2>3 DEF Row
<1> QED
  BY <1>1, <1>2

-----------------------------------------------------------------------------
(* The safety of every step, whatever has been done by hand                 *)

\* An attempt of the delivery loop ends.
Ended ==
    /\ d' \in Delivery /\ d'.pc \in {"idle", "report"}
    /\ d'.inst = Absent /\ d'.ns = Absent /\ d'.cr = Absent /\ d'.secret = Absent

LEMMA EndedFacts ==
    /\ Stop => Ended /\ d'.pc = "idle"
    /\ \A reason \in Reasons : Fail(reason) => Ended /\ d'.pc = "report"
  BY NoDeliveryFacts, FailFacts DEF Stop, Ended

LEMMA EndKeeps ==
    ASSUME SyncInv, Ended, ~row.deleted, UNCHANGED <<row, cluster, m, bounds>>
    PROVE  SyncInv'
<1>1. SyncTypeOK'
  BY DEF SyncInv, SyncTypeOK, Ended, cluster, bounds
<1>2. Present'
  BY DEF SyncInv, Present, Ended
<1>3. RowSound'
  BY DEF SyncInv, RowSound
<1>4. ObjectsFirst'
  BY DEF SyncInv, ObjectsFirst, Ended, cluster, Delivering, DeliverySteps
<1>5. Bound'
  BY DEF SyncInv, Bound, Ended, cluster
<1> QED
  BY <1>1, <1>2, <1>3, <1>4, <1>5 DEF SyncInv

LEMMA BeginStep == ASSUME SyncInv, Begin PROVE SyncInv'
<1>1. /\ d \in Delivery /\ row \in Row /\ row.deletionRequested \in BOOLEAN
  BY DEF SyncInv, SyncTypeOK, Row
<1> DEFINE pc == IF row.deletionRequested THEN "del_namespace" ELSE "namespace"
<1>2. /\ d' \in Delivery /\ d'.pc = pc
      /\ d'.inst = row /\ d'.ns = d.ns /\ d'.cr = d.cr /\ d'.secret = d.secret
  BY <1>1 DEF Begin, Delivery, DeliverySteps, DeletionSteps
<1>3. SyncTypeOK'
  BY <1>2 DEF SyncInv, SyncTypeOK, Begin, cluster, bounds
<1>4. Present'
  BY <1>1, <1>2 DEF SyncInv, Present, Begin
<1>5. RowSound'
  BY <1>1, <1>2 DEF SyncInv, RowSound, Begin
<1>6. ObjectsFirst'
  BY <1>1, <1>2 DEF SyncInv, ObjectsFirst, RowSound, Begin, cluster, Delivering, DeliverySteps
<1>7. Bound'
  BY <1>1, <1>2 DEF SyncInv, Bound, Begin, cluster
<1> QED
  BY <1>3, <1>4, <1>5, <1>6, <1>7 DEF SyncInv

LEMMA ReportStep == ASSUME SyncInv, Report PROVE SyncInv'
<1>1. Ended /\ d'.pc = "idle" /\ d.reason \in Reasons /\ row \in Row /\ ~row.deleted
  BY EndedFacts DEF Report, SyncInv, SyncTypeOK, Delivery, RowSound
<1>2. SetSyncRecoveryReason(d.reason)
  BY <1>1 DEF Report
<1>3. SyncTypeOK'
  BY <1>1, <1>2, SetReasonFacts DEF SyncInv, SyncTypeOK, Ended, Report, cluster, bounds
<1>4. Present'
  BY <1>1 DEF SyncInv, Present, Ended, Report
<1>5. RowSound'
  BY <1>1, <1>2, SetReasonFacts DEF SyncInv, RowSound
<1>6. ObjectsFirst'
  BY <1>1, <1>2, SetReasonFacts DEF SyncInv, ObjectsFirst, Ended, Report, cluster, Delivering, DeliverySteps
<1>7. Bound'
  BY <1>1, <1>2, SetReasonFacts DEF SyncInv, Bound, Ended, Report, cluster
<1> QED
  BY <1>3, <1>4, <1>5, <1>6, <1>7 DEF SyncInv

LEMMA EnsureNamespaceStep == ASSUME SyncInv, EnsureNamespace PROVE SyncInv'
<1>1. /\ d \in Delivery /\ row \in Row /\ ~row.deleted /\ d.pc = "namespace" /\ uid \in 0..MaxUid
  BY DEF EnsureNamespace, SyncInv, SyncTypeOK, RowSound, Uids
<1>2. CASE Fail("namespace_identity") /\ UNCHANGED <<ns, uid>>
  BY <1>1, <1>2, EndedFacts, EndKeeps DEF EnsureNamespace, Reasons, cluster
<1>3. CASE /\ TakeNamespace("bind_namespace", ns')
           /\ ns' \in Namespace /\ uid' \in Uids
  <2>1. /\ d' \in Delivery /\ d'.pc = "bind_namespace" /\ d'.inst = d.inst /\ d'.ns = ns'
        /\ d'.cr = d.cr /\ d'.secret = d.secret
    BY <1>1, <1>3, TakeNamespaceFacts DEF Pcs, DeliverySteps
  <2>2. SyncTypeOK'
    BY <1>3, <2>1 DEF SyncInv, SyncTypeOK, EnsureNamespace, bounds
  <2>3. Present' /\ RowSound'
    BY <1>1, <1>3, <2>1 DEF SyncInv, Present, RowSound, EnsureNamespace
  <2>4. ObjectsFirst'
    BY <1>1, <1>3, <2>1, AbsentAssumption DEF SyncInv, ObjectsFirst, EnsureNamespace, Delivering, DeliverySteps
  <2>5. Bound'
    BY <1>1, <2>1 DEF SyncInv, Bound, EnsureNamespace
  <2> QED
    BY <2>2, <2>3, <2>4, <2>5 DEF SyncInv
<1>4. CASE ns = Absent /\ d.inst.nsUid = 0 /\ ~CreationHasHistory(d.inst)
  <2>1. uid < MaxUid => NewNamespace \in Namespace /\ uid + 1 \in Uids
    BY <1>1, SyncAssumption DEF NewNamespace, Namespace, Uids
  <2> QED
    BY <1>2, <1>3, <1>4, <2>1 DEF EnsureNamespace, TakeNamespace
<1>5. CASE ns # Absent
  <2>1. ns \in Namespace /\ uid \in Uids
    BY <1>5 DEF SyncInv, SyncTypeOK
  <2>2. UNCHANGED <<ns, uid>>
    BY <1>5 DEF EnsureNamespace
  <2> QED
    BY <1>2, <1>3, <1>5, <2>1, <2>2 DEF EnsureNamespace, TakeNamespace
<1> QED
  BY <1>2, <1>4, <1>5 DEF EnsureNamespace

LEMMA SaveNamespaceUidStep == ASSUME SyncInv, SaveNamespaceUid PROVE SyncInv'
<1>1. /\ d \in Delivery /\ row \in Row /\ ~row.deleted /\ d.pc = "bind_namespace"
      /\ d.ns.uid \in Uids
  BY DEF SaveNamespaceUid, SyncInv, SyncTypeOK, RowSound, Present, Namespace
<1>2. CASE UNCHANGED row /\ Fail("namespace_identity")
  BY <1>1, <1>2, EndedFacts, EndKeeps DEF SaveNamespaceUid, Reasons, cluster
<1>3. CASE BindNamespace(d.ns.uid) /\ Step("cr")
  <2>1. d' \in Delivery /\ d'.pc = "cr" /\ d'.inst = d.inst /\ d'.cr = d.cr
    BY <1>1, <1>3, StepFacts DEF Pcs, DeliverySteps
  <2>2. SyncTypeOK'
    BY <1>1, <1>3, <2>1, BindNamespaceFacts DEF SyncInv, SyncTypeOK, SaveNamespaceUid, cluster, bounds
  <2>3. Present' /\ RowSound'
    BY <1>1, <1>3, <2>1, BindNamespaceFacts DEF SyncInv, Present, RowSound, SaveNamespaceUid
  <2>4. ObjectsFirst' /\ Bound'
    BY <1>1, <1>3, <2>1, BindNamespaceFacts
       DEF SyncInv, ObjectsFirst, Bound, SaveNamespaceUid, cluster, Delivering, DeliverySteps
  <2> QED
    BY <2>2, <2>3, <2>4 DEF SyncInv
<1> QED
  BY <1>2, <1>3 DEF SaveNamespaceUid

LEMMA ReadCRStep == ASSUME SyncInv, ReadCR PROVE SyncInv'
<1>1. /\ d \in Delivery /\ row \in Row /\ ~row.deleted /\ d.pc = "cr"
      /\ cr \in CR \cup {Absent}
  BY DEF ReadCR, SyncInv, SyncTypeOK, RowSound
<1>2. CASE Fail("cr_identity")
  BY <1>1, <1>2, EndedFacts, EndKeeps DEF ReadCR, Reasons
<1>3. CASE cr = Absent /\ Step("secret")
  <2>1. d' \in Delivery /\ d'.pc = "secret" /\ d'.inst = d.inst /\ d'.cr = d.cr
    BY <1>1, <1>3, StepFacts DEF Pcs, DeliverySteps
  <2>2. SyncTypeOK' /\ Present' /\ RowSound'
    BY <1>1, <2>1 DEF SyncInv, SyncTypeOK, Present, RowSound, ReadCR, cluster, bounds
  <2>3. ObjectsFirst' /\ Bound'
    BY <1>1, <1>3, <2>1
       DEF SyncInv, Present, ObjectsFirst, Bound, ReadCR, cluster, Delivering, DeliverySteps
  <2> QED
    BY <2>2, <2>3 DEF SyncInv
<1>4. CASE cr # Absent /\ TakeCR("bind_cr", cr)
  <2>1. d' \in Delivery /\ d'.pc = "bind_cr" /\ d'.inst = d.inst /\ d'.cr = cr
    BY <1>1, <1>4, TakeCRFacts DEF Pcs, DeliverySteps
  <2>2. SyncTypeOK' /\ Present' /\ RowSound'
    BY <1>1, <1>4, <2>1 DEF SyncInv, SyncTypeOK, Present, RowSound, ReadCR, cluster, bounds
  <2>3. ObjectsFirst' /\ Bound'
    BY <1>1, <1>4, <2>1 DEF SyncInv, ObjectsFirst, Bound, ReadCR, cluster, Delivering, DeliverySteps
  <2> QED
    BY <2>2, <2>3 DEF SyncInv
<1> QED
  BY <1>2, <1>3, <1>4 DEF ReadCR, TakeCR

LEMMA SaveCRUidStep == ASSUME SyncInv, SaveCRUid PROVE SyncInv'
<1>1. /\ d \in Delivery /\ row \in Row /\ ~row.deleted /\ d.pc \in {"bind_cr", "bind_written"}
      /\ d.cr.uid \in Uids
  BY DEF SaveCRUid, SyncInv, SyncTypeOK, RowSound, Present, CR
<1>2. CASE UNCHANGED row /\ Fail("cr_identity")
  BY <1>1, <1>2, EndedFacts, EndKeeps DEF SaveCRUid, Reasons
<1>3. CASE /\ CanBindCR(d.cr.uid) /\ BindCR(d.cr.uid)
           /\ Step(IF d.pc = "bind_cr" THEN "secret" ELSE "clear")
  <2> DEFINE pc == IF d.pc = "bind_cr" THEN "secret" ELSE "clear"
  <2>1. d' \in Delivery /\ d'.pc = pc /\ d'.inst = d.inst /\ d'.cr = d.cr
    BY <1>1, <1>3, StepFacts DEF Pcs, DeliverySteps
  <2>2. SyncTypeOK'
    BY <1>1, <1>3, <2>1, BindCRFacts DEF SyncInv, SyncTypeOK, SaveCRUid, cluster, bounds
  <2>3. Present' /\ RowSound'
    BY <1>1, <1>3, <2>1, BindCRFacts DEF SyncInv, Present, RowSound, SaveCRUid
  <2>4. ObjectsFirst'
    BY <1>1, <1>3, <2>1, BindCRFacts
       DEF SyncInv, ObjectsFirst, SaveCRUid, cluster, Delivering, DeliverySteps
  <2>5. m.pc = "store" => m.cr.uid > 0 /\ row.crUid = m.cr.uid
    BY AbsentAssumption DEF SyncInv, Present, Bound
  <2>6. row.crUid \in {0, d.cr.uid} /\ row'.crUid = d.cr.uid
    BY <1>1, <1>3, BindCRFacts DEF CanBindCR, Known
  <2>7. Bound'
    BY <1>1, <2>1, <2>5, <2>6 DEF SyncInv, Bound, SaveCRUid, cluster
  <2> QED
    BY <2>2, <2>3, <2>4, <2>7 DEF SyncInv
<1> QED
  BY <1>2, <1>3 DEF SaveCRUid

\* The two forms the Secret takes by the hand of the delivery loop.
LEMMA SecretForms ==
    /\ \A inst \in Row : NewSecret(inst) \in Secret
    /\ \A s \in Secret, v \in Versions : WithHash(s, v) \in Secret
  BY SyncAssumption DEF NewSecret, WithHash, Secret, Uids

LEMMA EnsureSecretStep == ASSUME SyncInv, EnsureSecret PROVE SyncInv'
<1>1. /\ d \in Delivery /\ row \in Row /\ ~row.deleted /\ d.pc = "secret" /\ d.inst \in Row
      /\ secret \in Secret \cup {Absent}
  BY DEF EnsureSecret, SyncInv, SyncTypeOK, RowSound, Present
<1>2. CASE UNCHANGED secret /\ (Stop \/ Fail("secret_state"))
  BY <1>1, <1>2, EndedFacts, EndKeeps DEF EnsureSecret, Reasons, cluster
<1>3. CASE /\ secret' \in Secret /\ \E pc \in {"write_cr", "update_secret"} : TakeSecret(pc, secret')
           /\ secret = Absent => Writable
  <2>0. PICK pc \in {"write_cr", "update_secret"} : TakeSecret(pc, secret')
    BY <1>3
  <2>1. d' \in Delivery /\ d'.pc = pc /\ d'.inst = d.inst /\ d'.cr = d.cr /\ d'.secret = secret'
    BY <1>1, <1>3, <2>0, TakeSecretFacts DEF Pcs, DeliverySteps
  <2>2. SyncTypeOK'
    BY <1>3, <2>1 DEF SyncInv, SyncTypeOK, EnsureSecret, bounds
  <2>3. Present' /\ RowSound'
    BY <1>1, <1>3, <2>0, <2>1 DEF SyncInv, Present, RowSound, EnsureSecret
  <2>4. ObjectsFirst'
    BY <1>1, <1>3, <2>0, <2>1
       DEF SyncInv, ObjectsFirst, EnsureSecret, Writable, Delivering, DeliverySteps
  <2>5. Bound'
    BY <1>1, <2>0, <2>1 DEF SyncInv, Bound, EnsureSecret
  <2> QED
    BY <2>2, <2>3, <2>4, <2>5 DEF SyncInv
<1> QED
  BY <1>1, <1>2, <1>3, SecretForms DEF EnsureSecret, TakeSecret

LEMMA UpdateSecretStep == ASSUME SyncInv, UpdateSecret PROVE SyncInv'
<1>1. /\ d \in Delivery /\ row \in Row /\ ~row.deleted /\ d.pc = "update_secret" /\ d.inst \in Row
      /\ d.secret \in Secret /\ d.inst.password \in Versions
  BY DEF UpdateSecret, SyncInv, SyncTypeOK, RowSound, Present, Row
<1>2. CASE UNCHANGED secret /\ Stop
  BY <1>1, <1>2, EndedFacts, EndKeeps DEF UpdateSecret, cluster
<1>3. CASE /\ secret = d.secret /\ secret' = WithHash(d.secret, d.inst.password)
           /\ TakeSecret("write_cr", WithHash(d.secret, d.inst.password))
  <2>0. secret' \in Secret /\ secret # Absent
    BY <1>1, <1>3, SecretForms, AbsentAssumption
  <2>1. d' \in Delivery /\ d'.pc = "write_cr" /\ d'.inst = d.inst /\ d'.cr = d.cr /\ d'.secret = secret'
    BY <1>1, <1>3, <2>0, TakeSecretFacts DEF Pcs, DeliverySteps
  <2>2. SyncTypeOK'
    BY <2>0, <2>1 DEF SyncInv, SyncTypeOK, UpdateSecret, bounds
  <2>3. Present' /\ RowSound'
    BY <1>1, <2>0, <2>1 DEF SyncInv, Present, RowSound, UpdateSecret
  <2>4. ObjectsFirst' /\ Bound'
    BY <1>1, <2>0, <2>1
       DEF SyncInv, ObjectsFirst, Bound, UpdateSecret, Delivering, DeliverySteps
  <2> QED
    BY <2>2, <2>3, <2>4 DEF SyncInv
<1> QED
  BY <1>2, <1>3 DEF UpdateSecret, TakeSecret

LEMMA NewCRFacts ==
    ASSUME NEW inst \in Row, uid \in Uids, uid < MaxUid
    PROVE  LET new == NewCR(inst)
           IN  /\ uid + 1 \in Uids /\ new \in CR /\ new.uid = uid + 1
               /\ new.generation = inst.generation /\ new.password = inst.password
               /\ new.finalizer = TRUE /\ new.deleting = FALSE /\ new.accepted = 0
               /\ new.acceptedPassword = 0 /\ new.initialized = FALSE /\ new.appliedPassword = 0
<1>1. uid + 1 \in Uids
  BY SyncAssumption DEF Uids
<1>2. inst.generation \in Versions /\ inst.password \in Versions
  BY DEF Row
<1> QED
  BY <1>1, <1>2 DEF NewCR, CR

LEMMA CreateCRStep == ASSUME SyncInv, CreateCR PROVE SyncInv'
<1>1. /\ d \in Delivery /\ row \in Row /\ ~row.deleted /\ d.pc = "write_cr" /\ d.inst \in Row
      /\ d.cr = Absent /\ uid \in Uids /\ uid < MaxUid
  BY DEF CreateCR, SyncInv, SyncTypeOK, RowSound, Present
<1>2. CASE UNCHANGED <<cr, uid>> /\ Stop
  BY <1>1, <1>2, EndedFacts, EndKeeps DEF CreateCR, cluster
<1>3. CASE /\ Writable /\ uid' = uid + 1 /\ cr' = NewCR(d.inst) /\ TakeCR("bind_written", NewCR(d.inst))
  <2>0. uid' \in Uids /\ cr' \in CR /\ cr'.uid > 0 /\ cr' # Absent
    <3>1. uid' \in Uids /\ cr' \in CR /\ cr'.uid = uid + 1
      BY <1>1, <1>3, NewCRFacts
    <3>2. uid + 1 > 0
      BY <1>1, SyncAssumption DEF Uids
    <3> QED
      BY <3>1, <3>2, AbsentAssumption
  <2>1. d' \in Delivery /\ d'.pc = "bind_written" /\ d'.inst = d.inst /\ d'.cr = cr'
    BY <1>1, <1>3, <2>0, TakeCRFacts DEF Pcs, DeliverySteps
  <2>2. SyncTypeOK'
    BY <2>0, <2>1 DEF SyncInv, SyncTypeOK, CreateCR, bounds
  <2>3. Present' /\ RowSound'
    BY <1>1, <2>0, <2>1 DEF SyncInv, Present, RowSound, CreateCR
  <2>4. ObjectsFirst' /\ Bound'
    BY <1>1, <1>3, <2>0, <2>1
       DEF SyncInv, ObjectsFirst, Bound, CreateCR, Writable, Delivering, DeliverySteps
  <2> QED
    BY <2>2, <2>3, <2>4 DEF SyncInv
<1> QED
  BY <1>2, <1>3 DEF CreateCR, TakeCR

LEMMA UpdatedCRFacts ==
    ASSUME NEW res \in CR, NEW inst \in Row
    PROVE  LET new == UpdatedCR(res, inst)
           IN  /\ new \in CR /\ new.uid = res.uid /\ new.generation = inst.generation
               /\ new.password = inst.password /\ new.finalizer = TRUE /\ new.deleting = res.deleting
               /\ new.accepted = res.accepted /\ new.acceptedPassword = res.acceptedPassword
               /\ new.initialized = res.initialized
               /\ new.appliedPassword = res.appliedPassword
  BY DEF UpdatedCR, CR, Row

LEMMA UpdateCRStep == ASSUME SyncInv, UpdateCR PROVE SyncInv'
<1>1. /\ d \in Delivery /\ row \in Row /\ ~row.deleted /\ d.pc = "write_cr" /\ d.inst \in Row
      /\ d.cr \in CR
  BY DEF UpdateCR, SyncInv, SyncTypeOK, RowSound, Present, Delivery
<1>2. CASE UNCHANGED cr /\ (Stop \/ Fail("cr_delivery"))
  BY <1>1, <1>2, EndedFacts, EndKeeps DEF UpdateCR, Reasons, cluster
<1>3. CASE UNCHANGED cr /\ Step("bind_written")
  <2>1. d' \in Delivery /\ d'.pc = "bind_written" /\ d'.inst = d.inst /\ d'.cr = d.cr
    BY <1>1, <1>3, StepFacts DEF Pcs, DeliverySteps
  <2>2. SyncTypeOK' /\ Present' /\ RowSound'
    BY <1>1, <1>3, <2>1 DEF SyncInv, SyncTypeOK, Present, RowSound, UpdateCR, bounds
  <2>3. ObjectsFirst' /\ Bound'
    BY <1>1, <1>3, <2>1
       DEF SyncInv, ObjectsFirst, Bound, UpdateCR, Delivering, DeliverySteps
  <2> QED
    BY <2>2, <2>3 DEF SyncInv
<1>4. CASE /\ cr = d.cr /\ cr' = UpdatedCR(d.cr, d.inst)
           /\ TakeCR("bind_written", UpdatedCR(d.cr, d.inst))
  <2>0. cr' \in CR /\ cr'.uid = cr.uid /\ cr' # Absent /\ cr # Absent
    BY <1>1, <1>4, UpdatedCRFacts, AbsentAssumption
  <2>1. d' \in Delivery /\ d'.pc = "bind_written" /\ d'.inst = d.inst /\ d'.cr = cr'
    BY <1>1, <1>4, <2>0, TakeCRFacts DEF Pcs, DeliverySteps
  <2>2. SyncTypeOK'
    BY <2>0, <2>1 DEF SyncInv, SyncTypeOK, UpdateCR, bounds
  <2>3. Present' /\ RowSound'
    BY <1>1, <2>0, <2>1 DEF SyncInv, Present, RowSound, UpdateCR
  <2>4. ObjectsFirst' /\ Bound'
    BY <1>1, <1>4, <2>0, <2>1
       DEF SyncInv, ObjectsFirst, Bound, UpdateCR, Delivering, DeliverySteps
  <2> QED
    BY <2>2, <2>3, <2>4 DEF SyncInv
<1> QED
  BY <1>2, <1>3, <1>4 DEF UpdateCR, TakeCR

LEMMA ClearRecoveryStep == ASSUME SyncInv, ClearRecovery PROVE SyncInv'
<1>1. Ended /\ d'.pc = "idle" /\ "none" \in Reasons /\ row \in Row /\ ~row.deleted
  BY EndedFacts DEF ClearRecovery, SyncInv, SyncTypeOK, RowSound, Reasons
<1>2. SetSyncRecoveryReason("none")
  BY <1>1 DEF ClearRecovery
<1>3. SyncTypeOK'
  BY <1>1, <1>2, SetReasonFacts DEF SyncInv, SyncTypeOK, Ended, ClearRecovery, cluster, bounds
<1>4. Present'
  BY <1>1 DEF SyncInv, Present, Ended, ClearRecovery
<1>5. RowSound'
  BY <1>1, <1>2, SetReasonFacts DEF SyncInv, RowSound
<1>6. ObjectsFirst' /\ Bound'
  BY <1>1, <1>2, SetReasonFacts
     DEF SyncInv, ObjectsFirst, Bound, Ended, ClearRecovery, cluster, Delivering, DeliverySteps
<1> QED
  BY <1>3, <1>4, <1>5, <1>6 DEF SyncInv

-----------------------------------------------------------------------------
(* Deletion                                                                  *)

LEMMA ReadDeletionNamespaceStep == ASSUME SyncInv, ReadDeletionNamespace PROVE SyncInv'
<1>1. /\ d \in Delivery /\ row \in Row /\ ~row.deleted /\ d.pc = "del_namespace"
      /\ ns \in Namespace \cup {Absent}
  BY DEF ReadDeletionNamespace, SyncInv, SyncTypeOK, RowSound
<1>2. CASE Fail("deletion_namespace_identity")
  BY <1>1, <1>2, EndedFacts, EndKeeps DEF ReadDeletionNamespace, Reasons
<1>3. CASE ns = Absent /\ Step("finish")
  <2>1. d' \in Delivery /\ d'.pc = "finish" /\ d'.inst = d.inst /\ d'.cr = d.cr
    BY <1>1, <1>3, StepFacts DEF Pcs, DeletionSteps
  <2>2. SyncTypeOK' /\ Present' /\ RowSound'
    BY <1>1, <2>1 DEF SyncInv, SyncTypeOK, Present, RowSound, ReadDeletionNamespace, cluster, bounds
  <2>3. ObjectsFirst' /\ Bound'
    BY <1>1, <1>3, <2>1
       DEF SyncInv, ObjectsFirst, Bound, ReadDeletionNamespace, cluster, Delivering, DeliverySteps
  <2> QED
    BY <2>2, <2>3 DEF SyncInv
<1>4. CASE ns # Absent /\ TakeNamespace("del_bind_namespace", ns)
  <2>1. /\ d' \in Delivery /\ d'.pc = "del_bind_namespace" /\ d'.inst = d.inst /\ d'.cr = d.cr
        /\ d'.ns = ns
    BY <1>1, <1>4, TakeNamespaceFacts DEF Pcs, DeletionSteps
  <2>2. SyncTypeOK' /\ Present' /\ RowSound'
    BY <1>1, <1>4, <2>1
       DEF SyncInv, SyncTypeOK, Present, RowSound, ReadDeletionNamespace, cluster, bounds
  <2>3. ObjectsFirst' /\ Bound'
    BY <1>1, <1>4, <2>1
       DEF SyncInv, ObjectsFirst, Bound, ReadDeletionNamespace, cluster, Delivering, DeliverySteps
  <2> QED
    BY <2>2, <2>3 DEF SyncInv
<1> QED
  BY <1>2, <1>3, <1>4 DEF ReadDeletionNamespace, TakeNamespace

LEMMA SaveDeletionNamespaceUidStep == ASSUME SyncInv, SaveDeletionNamespaceUid PROVE SyncInv'
<1>1. /\ d \in Delivery /\ row \in Row /\ ~row.deleted /\ d.pc = "del_bind_namespace"
      /\ d.ns.uid \in Uids
  BY DEF SaveDeletionNamespaceUid, SyncInv, SyncTypeOK, RowSound, Present, Namespace
<1>2. CASE UNCHANGED row /\ Fail("deletion_namespace_identity")
  BY <1>1, <1>2, EndedFacts, EndKeeps DEF SaveDeletionNamespaceUid, Reasons
<1> DEFINE pc == IF d.inst.stage = "namespace_prepared" THEN "delete_namespace" ELSE "del_cr"
<1>3. CASE BindNamespace(d.ns.uid) /\ Step(pc)
  <2>1. d' \in Delivery /\ d'.pc = pc /\ d'.inst = d.inst /\ d'.cr = d.cr /\ d'.ns = d.ns
    BY <1>1, <1>3, StepFacts DEF Pcs, DeletionSteps
  <2>2. SyncTypeOK'
    BY <1>1, <1>3, <2>1, BindNamespaceFacts
       DEF SyncInv, SyncTypeOK, SaveDeletionNamespaceUid, cluster, bounds
  <2>3. Present' /\ RowSound'
    BY <1>1, <1>3, <2>1, BindNamespaceFacts DEF SyncInv, Present, RowSound, SaveDeletionNamespaceUid
  <2>4. ObjectsFirst' /\ Bound'
    BY <1>1, <1>3, <2>1, BindNamespaceFacts
       DEF SyncInv, ObjectsFirst, Bound, SaveDeletionNamespaceUid, cluster, Delivering, DeliverySteps
  <2> QED
    BY <2>2, <2>3, <2>4 DEF SyncInv
<1> QED
  BY <1>2, <1>3 DEF SaveDeletionNamespaceUid

LEMMA ReadDeletionCRStep == ASSUME SyncInv, ReadDeletionCR PROVE SyncInv'
<1>1. /\ d \in Delivery /\ row \in Row /\ ~row.deleted /\ d.pc = "del_cr"
      /\ cr \in CR \cup {Absent} /\ WithoutCR \in {"cancel", "prepare_namespace"}
  BY DEF ReadDeletionCR, SyncInv, SyncTypeOK, RowSound, WithoutCR
<1>2. CASE Fail("deletion_cr_identity")
  BY <1>1, <1>2, EndedFacts, EndKeeps DEF ReadDeletionCR, Reasons
<1>3. CASE cr = Absent /\ Step(WithoutCR)
  <2>1. d' \in Delivery /\ d'.pc = WithoutCR /\ d'.inst = d.inst /\ d'.cr = d.cr /\ d'.ns = d.ns
    BY <1>1, <1>3, StepFacts DEF Pcs, DeletionSteps
  <2>2. SyncTypeOK' /\ Present' /\ RowSound'
    BY <1>1, <2>1 DEF SyncInv, SyncTypeOK, Present, RowSound, ReadDeletionCR, cluster, bounds
  <2>3. WithoutCR = "cancel" => row.stage = "none"
    BY <1>1 DEF WithoutCR, SyncInv, ObjectsFirst, Row, Stages
  <2>4. ObjectsFirst' /\ Bound'
    BY <1>1, <1>3, <2>1, <2>3
       DEF SyncInv, ObjectsFirst, Bound, ReadDeletionCR, cluster, Delivering, DeliverySteps
  <2> QED
    BY <2>2, <2>4 DEF SyncInv
<1>4. CASE cr # Absent /\ TakeCR("del_bind_cr", cr)
  <2>1. /\ d' \in Delivery /\ d'.pc = "del_bind_cr" /\ d'.inst = d.inst /\ d'.cr = cr
        /\ d'.ns = d.ns
    BY <1>1, <1>4, TakeCRFacts DEF Pcs, DeletionSteps
  <2>2. SyncTypeOK' /\ Present' /\ RowSound'
    BY <1>1, <1>4, <2>1 DEF SyncInv, SyncTypeOK, Present, RowSound, ReadDeletionCR, cluster, bounds
  <2>3. ObjectsFirst' /\ Bound'
    BY <1>1, <1>4, <2>1
       DEF SyncInv, ObjectsFirst, Bound, ReadDeletionCR, cluster, Delivering, DeliverySteps
  <2> QED
    BY <2>2, <2>3 DEF SyncInv
<1> QED
  BY <1>2, <1>3, <1>4 DEF ReadDeletionCR, TakeCR

\* Binding the resource one knows changes nothing for an import that stores.
LEMMA BoundForImport ==
    ASSUME SyncInv, NEW u \in Uids, CanBindCR(u), row'.crUid = u, UNCHANGED m
    PROVE  m'.pc = "store" => row'.crUid = m'.cr.uid
<1>1. m.pc = "store" => m.cr.uid > 0 /\ row.crUid = m.cr.uid
  BY AbsentAssumption DEF SyncInv, Present, Bound
<1> QED
  BY <1>1 DEF CanBindCR, Known

LEMMA SaveDeletionCRUidStep == ASSUME SyncInv, SaveDeletionCRUid PROVE SyncInv'
<1>1. /\ d \in Delivery /\ row \in Row /\ ~row.deleted /\ d.pc = "del_bind_cr"
      /\ d.cr.uid \in Uids
  BY DEF SaveDeletionCRUid, SyncInv, SyncTypeOK, RowSound, Present, CR
<1>2. CASE UNCHANGED row /\ Fail("deletion_cr_identity")
  BY <1>1, <1>2, EndedFacts, EndKeeps DEF SaveDeletionCRUid, Reasons
<1>3. CASE CanBindCR(d.cr.uid) /\ BindCR(d.cr.uid)
  <2>1. /\ d' \in Delivery /\ d'.pc \in {"prepare_cr", "report"}
        /\ d'.pc = "prepare_cr" => d'.inst = d.inst /\ d'.ns = d.ns /\ d'.cr = d.cr
        /\ d'.pc = "report" => d'.cr = Absent
    <3>1. CASE Step("prepare_cr")
      BY <1>1, <3>1, StepFacts DEF Pcs, DeletionSteps
    <3>2. CASE Fail("deletion_finalizer_missing")
      BY <3>2, FailFacts DEF Reasons
    <3> QED
      BY <1>3, <3>1, <3>2 DEF SaveDeletionCRUid
  <2>2. SyncTypeOK'
    BY <1>1, <1>3, <2>1, BindCRFacts DEF SyncInv, SyncTypeOK, SaveDeletionCRUid, cluster, bounds
  <2>3. Present' /\ RowSound'
    BY <1>1, <1>3, <2>1, BindCRFacts DEF SyncInv, Present, RowSound, SaveDeletionCRUid
  <2>4. ObjectsFirst'
    BY <1>1, <1>3, <2>1, BindCRFacts
       DEF SyncInv, ObjectsFirst, SaveDeletionCRUid, cluster, Delivering, DeliverySteps
  <2>5. row'.crUid = d.cr.uid
    BY <1>1, <1>3, BindCRFacts
  <2>6. m'.pc = "store" => row'.crUid = m'.cr.uid
    BY <1>1, <1>3, <2>5, BoundForImport DEF SaveDeletionCRUid
  <2>7. Bound'
    BY <1>1, <2>1, <2>6 DEF SyncInv, Bound, SaveDeletionCRUid, cluster
  <2> QED
    BY <2>2, <2>3, <2>4, <2>7 DEF SyncInv
<1> QED
  BY <1>2, <1>3 DEF SaveDeletionCRUid

LEMMA PrepareCRDeletionStep == ASSUME SyncInv, PrepareCRDeletion PROVE SyncInv'
<1>1. /\ d \in Delivery /\ row \in Row /\ ~row.deleted /\ d.pc = "prepare_cr"
      /\ d.ns.uid \in Uids /\ d.cr.uid \in Uids /\ "cr_prepared" \in Stages
  BY DEF PrepareCRDeletion, SyncInv, SyncTypeOK, RowSound, Present, CR, Namespace, Stages
<1>2. CASE UNCHANGED row /\ Stop
  BY <1>1, <1>2, EndedFacts, EndKeeps DEF PrepareCRDeletion
<1>3. CASE CanPrepare("cr_prepared", d.ns.uid, d.cr.uid) /\ Prepare("cr_prepared", d.ns.uid, d.cr.uid)
  <2>1. /\ d' \in Delivery /\ d'.pc \in {"fresh", "idle"}
        /\ d'.pc = "fresh" => d'.inst = d.inst /\ d'.cr = d.cr
        /\ d'.pc = "idle" => d'.cr = Absent
    <3>1. CASE Step("fresh")
      BY <1>1, <3>1, StepFacts DEF Pcs, DeletionSteps
    <3>2. CASE Stop
      BY <3>2, EndedFacts DEF Ended
    <3> QED
      BY <1>3, <3>1, <3>2 DEF PrepareCRDeletion
  <2>2. row.deletionRequested /\ row.stage # "namespace_prepared" /\ row.crUid \in {0, d.cr.uid}
    BY <1>3 DEF CanPrepare, Known, RowSound, SyncInv
  <2>3. SyncTypeOK'
    BY <1>1, <1>3, <2>1, PrepareFacts DEF SyncInv, SyncTypeOK, PrepareCRDeletion, cluster, bounds
  <2>4. Present' /\ RowSound'
    BY <1>1, <1>3, <2>1, <2>2, PrepareFacts DEF SyncInv, Present, RowSound, PrepareCRDeletion
  <2>5. ObjectsFirst'
    BY <1>1, <1>3, <2>1, <2>2, PrepareFacts
       DEF SyncInv, ObjectsFirst, PrepareCRDeletion, cluster, Delivering, DeliverySteps
  <2>6. m.pc = "store" => m.cr.uid > 0 /\ row.crUid = m.cr.uid
    BY AbsentAssumption DEF SyncInv, Present, Bound
  <2>7. row'.crUid \in {row.crUid, d.cr.uid}
    BY <1>1, <1>3, PrepareFacts
  <2>8. Bound'
    BY <1>1, <2>1, <2>2, <2>6, <2>7 DEF SyncInv, Bound, PrepareCRDeletion, cluster
  <2> QED
    BY <2>3, <2>4, <2>5, <2>8 DEF SyncInv
<1> QED
  BY <1>2, <1>3 DEF PrepareCRDeletion

LEMMA ReadFreshRowStep == ASSUME SyncInv, ReadFreshRow PROVE SyncInv'
<1>1. d \in Delivery /\ row \in Row /\ ~row.deleted /\ d.pc = "fresh"
  BY DEF ReadFreshRow, SyncInv, SyncTypeOK, RowSound
<1>2. CASE Stop
  BY <1>1, <1>2, EndedFacts, EndKeeps DEF ReadFreshRow
<1>3. CASE d' = [d EXCEPT !.pc = "fresh_cr", !.inst = row, !.cr = Absent]
  <2>1. d' \in Delivery /\ d'.pc = "fresh_cr" /\ d'.inst = row /\ d'.cr = Absent
    BY <1>1, <1>3 DEF Delivery, DeletionSteps
  <2>2. SyncTypeOK' /\ Present' /\ RowSound'
    BY <1>1, <2>1 DEF SyncInv, SyncTypeOK, Present, RowSound, ReadFreshRow, cluster, bounds
  <2>3. ObjectsFirst' /\ Bound'
    BY <1>1, <2>1 DEF SyncInv, ObjectsFirst, Bound, ReadFreshRow, cluster, Delivering, DeliverySteps
  <2> QED
    BY <2>2, <2>3 DEF SyncInv
<1> QED
  BY <1>2, <1>3 DEF ReadFreshRow

LEMMA ReadFreshCRStep == ASSUME SyncInv, ReadFreshCR PROVE SyncInv'
<1>1. /\ d \in Delivery /\ row \in Row /\ ~row.deleted /\ d.pc = "fresh_cr"
      /\ cr \in CR \cup {Absent}
  BY DEF ReadFreshCR, SyncInv, SyncTypeOK, RowSound
<1>2. CASE Stop
  BY <1>1, <1>2, EndedFacts, EndKeeps DEF ReadFreshCR
<1>3. CASE cr # Absent /\ TakeCR("fresh_bind", cr)
  <2>1. d' \in Delivery /\ d'.pc = "fresh_bind" /\ d'.inst = d.inst /\ d'.cr = cr
    BY <1>1, <1>3, TakeCRFacts DEF Pcs, DeletionSteps
  <2>2. SyncTypeOK' /\ Present' /\ RowSound'
    BY <1>1, <1>3, <2>1 DEF SyncInv, SyncTypeOK, Present, RowSound, ReadFreshCR, cluster, bounds
  <2>3. ObjectsFirst' /\ Bound'
    BY <1>1, <1>3, <2>1 DEF SyncInv, ObjectsFirst, Bound, ReadFreshCR, cluster, Delivering, DeliverySteps
  <2> QED
    BY <2>2, <2>3 DEF SyncInv
<1> QED
  BY <1>2, <1>3 DEF ReadFreshCR, TakeCR

LEMMA SaveFreshCRUidStep == ASSUME SyncInv, SaveFreshCRUid PROVE SyncInv'
<1>1. /\ d \in Delivery /\ row \in Row /\ ~row.deleted /\ d.pc = "fresh_bind"
      /\ d.cr.uid \in Uids
  BY DEF SaveFreshCRUid, SyncInv, SyncTypeOK, RowSound, Present, CR
<1>2. CASE UNCHANGED row /\ Stop
  BY <1>1, <1>2, EndedFacts, EndKeeps DEF SaveFreshCRUid
<1>3. CASE CanBindCR(d.cr.uid) /\ BindCR(d.cr.uid)
  <2>1. /\ d' \in Delivery /\ d'.pc \in {"delete_cr", "idle"}
        /\ d'.pc = "delete_cr" => d'.inst = d.inst /\ d'.cr = d.cr
        /\ d'.pc = "idle" => d'.cr = Absent
    <3>1. CASE Step("delete_cr")
      BY <1>1, <3>1, StepFacts DEF Pcs, DeletionSteps
    <3>2. CASE Stop
      BY <3>2, EndedFacts DEF Ended
    <3> QED
      BY <1>3, <3>1, <3>2 DEF SaveFreshCRUid
  <2>2. SyncTypeOK'
    BY <1>1, <1>3, <2>1, BindCRFacts DEF SyncInv, SyncTypeOK, SaveFreshCRUid, cluster, bounds
  <2>3. Present' /\ RowSound'
    BY <1>1, <1>3, <2>1, BindCRFacts DEF SyncInv, Present, RowSound, SaveFreshCRUid
  <2>4. ObjectsFirst'
    BY <1>1, <1>3, <2>1, BindCRFacts
       DEF SyncInv, ObjectsFirst, SaveFreshCRUid, cluster, Delivering, DeliverySteps
  <2>5. row'.crUid = d.cr.uid
    BY <1>1, <1>3, BindCRFacts
  <2>6. m'.pc = "store" => row'.crUid = m'.cr.uid
    BY <1>1, <1>3, <2>5, BoundForImport DEF SaveFreshCRUid
  <2>7. Bound'
    BY <1>1, <2>1, <2>5, <2>6 DEF SyncInv, Bound, SaveFreshCRUid, cluster
  <2> QED
    BY <2>2, <2>3, <2>4, <2>7 DEF SyncInv
<1> QED
  BY <1>2, <1>3 DEF SaveFreshCRUid

\* The resource changes but keeps its identity, or goes.
LEMMA ResourceKeeps ==
    ASSUME SyncInv, cr # Absent, cr' \in CR \cup {Absent}, cr' # Absent => cr'.uid = cr.uid,
           UNCHANGED <<row, ns, secret, uid, m, bounds>>, served' \in BOOLEAN,
           UNCHANGED d \/ Ended, UNCHANGED d \/ ~row.deleted
    PROVE  SyncInv'
<1>1. SyncTypeOK'
  BY DEF SyncInv, SyncTypeOK, Ended, bounds
<1>2. Present' /\ RowSound'
  BY DEF SyncInv, Present, RowSound, Ended
<1>3. ObjectsFirst' /\ Bound'
  BY DEF SyncInv, ObjectsFirst, Bound, Ended, Delivering, DeliverySteps
<1> QED
  BY <1>1, <1>2, <1>3 DEF SyncInv

LEMMA RemovedFacts ==
    ASSUME NEW res \in CR
    PROVE  /\ Removed(res) \in CR \cup {Absent}
           /\ res.finalizer => /\ Removed(res) \in CR /\ Removed(res).uid = res.uid
                               /\ Removed(res).deleting = TRUE /\ Removed(res).finalizer = TRUE
                               /\ Removed(res).generation = res.generation
                               /\ Removed(res).password = res.password
                               /\ Removed(res).acceptedPassword = res.acceptedPassword
                               /\ Removed(res).appliedPassword = res.appliedPassword
                               /\ Removed(res).initialized = res.initialized
           /\ ~res.finalizer => Removed(res) = Absent
           /\ Removed(res) # Absent => Removed(res).uid = res.uid
  BY DEF Removed, CR

LEMMA DeleteCRStep == ASSUME SyncInv, DeleteCR PROVE SyncInv'
<1>1. Ended /\ ~row.deleted /\ cr \in CR \cup {Absent} /\ d.cr \in CR /\ served \in BOOLEAN
  BY EndedFacts DEF DeleteCR, SyncInv, SyncTypeOK, RowSound, Present
<1>2. CASE cr = d.cr
  BY <1>1, <1>2, RemovedFacts, AbsentAssumption, ResourceKeeps DEF DeleteCR
<1>3. CASE cr # d.cr
  BY <1>1, <1>3, EndKeeps DEF DeleteCR, cluster
<1> QED
  BY <1>2, <1>3

LEMMA CancelCreationStep == ASSUME SyncInv, CancelCreation PROVE SyncInv'
<1>1. d \in Delivery /\ row \in Row /\ ~row.deleted /\ d.pc = "cancel"
  BY DEF CancelCreation, SyncInv, SyncTypeOK, RowSound
<1>2. CASE Fail("cr_missing")
  BY <1>1, <1>2, EndedFacts, EndKeeps DEF CancelCreation, Reasons
<1>3. CASE Step("prepare_namespace")
  <2>1. d' \in Delivery /\ d'.pc = "prepare_namespace" /\ d'.inst = d.inst /\ d'.cr = d.cr /\ d'.ns = d.ns
    BY <1>1, <1>3, StepFacts DEF Pcs, DeletionSteps
  <2>2. SyncTypeOK' /\ Present' /\ RowSound'
    BY <1>1, <2>1 DEF SyncInv, SyncTypeOK, Present, RowSound, CancelCreation, cluster, bounds
  <2>3. ObjectsFirst' /\ Bound'
    BY <1>1, <2>1 DEF SyncInv, ObjectsFirst, Bound, CancelCreation, cluster, Delivering, DeliverySteps
  <2> QED
    BY <2>2, <2>3 DEF SyncInv
<1> QED
  BY <1>2, <1>3 DEF CancelCreation

\* Preparing the deletion of the namespace, without a resource.
LEMMA PrepareKeeps ==
    ASSUME SyncInv, ~row.deleted, cr = Absent, NEW n \in Uids, NEW c \in Uids,
           CanPrepare("namespace_prepared", n, c), Prepare("namespace_prepared", n, c),
           d \in Delivery, d.pc \notin {"idle", "report"}, UNCHANGED <<cluster, m, bounds>>,
           NEW pc \in {"delete_namespace", "complete"}, Step(pc),
           pc = "complete" => ns = Absent, pc = "delete_namespace" => d.ns \in Namespace
    PROVE  SyncInv'
<1>1. row \in Row /\ row.deletionRequested /\ "namespace_prepared" \in Stages
  BY DEF SyncInv, SyncTypeOK, CanPrepare, Stages
<1>2. d' \in Delivery /\ d'.pc = pc /\ d'.inst = d.inst /\ d'.cr = d.cr /\ d'.ns = d.ns
  BY StepFacts DEF Pcs, DeletionSteps
<1>3. SyncTypeOK'
  BY <1>1, <1>2, PrepareFacts DEF SyncInv, SyncTypeOK, cluster, bounds
<1>4. Present' /\ RowSound'
  BY <1>1, <1>2, PrepareFacts DEF SyncInv, Present, RowSound
<1>5. ObjectsFirst'
  BY <1>1, <1>2, PrepareFacts DEF SyncInv, ObjectsFirst, cluster, Delivering, DeliverySteps
<1>6. m.pc = "store" => m.cr.uid > 0 /\ row.crUid = m.cr.uid
  BY AbsentAssumption DEF SyncInv, Present, Bound
<1>7. row'.crUid = row.crUid \/ (row.crUid \in {0, c} /\ row'.crUid = c /\ c # 0)
  <2>1. c # 0 => row.crUid \in {0, c}
    BY DEF CanPrepare, Known
  <2>2. c = 0 => row'.crUid = row.crUid
    BY <1>1, PrepareFacts
  <2>3. row'.crUid \in {row.crUid, c}
    BY <1>1, PrepareFacts
  <2> QED
    BY <2>1, <2>2, <2>3
<1>8. Bound'
  BY <1>2, <1>6, <1>7 DEF SyncInv, Bound, cluster
<1> QED
  BY <1>3, <1>4, <1>5, <1>8 DEF SyncInv

LEMMA PrepareNamespaceDeletionStep == ASSUME SyncInv, PrepareNamespaceDeletion PROVE SyncInv'
<1>1. /\ d \in Delivery /\ row \in Row /\ ~row.deleted /\ d.pc = "prepare_namespace" /\ cr = Absent
      /\ d.ns \in Namespace /\ d.ns.uid \in Uids /\ d.inst.crUid \in Uids
  BY DEF PrepareNamespaceDeletion, SyncInv, SyncTypeOK, RowSound, Present, ObjectsFirst, Namespace, Row
<1>2. CASE UNCHANGED row /\ Stop
  BY <1>1, <1>2, EndedFacts, EndKeeps DEF PrepareNamespaceDeletion
<1> QED
  BY <1>1, <1>2, PrepareKeeps DEF PrepareNamespaceDeletion

LEMMA FinishWithoutNamespaceStep == ASSUME SyncInv, FinishWithoutNamespace PROVE SyncInv'
<1>1. /\ d \in Delivery /\ row \in Row /\ ~row.deleted /\ d.pc = "finish" /\ ns = Absent /\ cr = Absent
      /\ d.inst.nsUid \in Uids /\ d.inst.crUid \in Uids
  BY DEF FinishWithoutNamespace, SyncInv, SyncTypeOK, RowSound, Present, ObjectsFirst, Row
<1>2. CASE UNCHANGED row /\ (Stop \/ Fail("namespace_missing"))
  BY <1>1, <1>2, EndedFacts, EndKeeps DEF FinishWithoutNamespace, Reasons
<1>3. CASE UNCHANGED row /\ Step("complete")
  <2>1. d' \in Delivery /\ d'.pc = "complete" /\ d'.inst = d.inst /\ d'.cr = d.cr /\ d'.ns = d.ns
    BY <1>1, <1>3, StepFacts DEF Pcs, DeletionSteps
  <2>2. SyncTypeOK' /\ Present' /\ RowSound'
    BY <1>1, <1>3, <2>1
       DEF SyncInv, SyncTypeOK, Present, RowSound, FinishWithoutNamespace, cluster, bounds
  <2>3. ObjectsFirst' /\ Bound'
    BY <1>1, <1>3, <2>1
       DEF SyncInv, ObjectsFirst, Bound, FinishWithoutNamespace, cluster, Delivering, DeliverySteps
  <2> QED
    BY <2>2, <2>3 DEF SyncInv
<1> QED
  BY <1>1, <1>2, <1>3, PrepareKeeps DEF FinishWithoutNamespace

LEMMA DeletePreparedNamespaceStep == ASSUME SyncInv, DeletePreparedNamespace PROVE SyncInv'
<1>1. Ended /\ ~row.deleted /\ ns \in Namespace \cup {Absent}
  BY EndedFacts DEF DeletePreparedNamespace, SyncInv, SyncTypeOK, RowSound
<1>2. CASE UNCHANGED ns
  BY <1>1, <1>2, EndKeeps DEF DeletePreparedNamespace, cluster
<1>3. CASE ns \in Namespace /\ ns' = [ns EXCEPT !.terminating = TRUE]
  <2>1. ns' \in Namespace /\ ns' # Absent /\ ns # Absent
    BY <1>3, AbsentAssumption DEF Namespace
  <2>2. SyncTypeOK' /\ Present' /\ RowSound'
    BY <1>1, <2>1
       DEF SyncInv, SyncTypeOK, Present, RowSound, Ended, DeletePreparedNamespace, bounds
  <2>3. ObjectsFirst' /\ Bound'
    BY <1>1, <2>1
       DEF SyncInv, ObjectsFirst, Bound, Ended, DeletePreparedNamespace, Delivering, DeliverySteps
  <2> QED
    BY <2>2, <2>3 DEF SyncInv
<1>4. ns = d.ns => ns \in Namespace
  BY DEF DeletePreparedNamespace, SyncInv, Present
<1> QED
  BY <1>1, <1>2, <1>3, <1>4 DEF DeletePreparedNamespace

LEMMA CompleteDeletionStep == ASSUME SyncInv, CompleteDeletion PROVE SyncInv'
<1>1. /\ Ended /\ d'.pc = "idle" /\ row \in Row /\ ~row.deleted /\ ns = Absent /\ d.pc = "complete"
  BY EndedFacts DEF CompleteDeletion, SyncInv, SyncTypeOK, RowSound, ObjectsFirst
<1>2. CASE UNCHANGED row
  BY <1>1, <1>2, EndKeeps DEF CompleteDeletion
<1>3. CASE row.deletionRequested /\ row.stage = "namespace_prepared" /\ row' = [row EXCEPT !.deleted = TRUE]
  <2>1. /\ row' \in Row /\ row'.deleted = TRUE
        /\ row'.generation = row.generation /\ row'.password = row.password
        /\ row'.deletionRequested = row.deletionRequested /\ row'.stage = row.stage
        /\ row'.crUid = row.crUid /\ row'.recovery = row.recovery
        /\ row'.operatorRecovery = row.operatorRecovery
        /\ row'.isRecoveryRequired = row.isRecoveryRequired
    BY <1>1, <1>3 DEF Row
  <2>2. SyncTypeOK' /\ Present'
    BY <1>1, <2>1 DEF SyncInv, SyncTypeOK, Present, Ended, CompleteDeletion, cluster, bounds
  <2>3. RowSound'
    BY <1>1, <1>3, <2>1 DEF SyncInv, RowSound
  <2>4. ObjectsFirst' /\ Bound'
    BY <1>1, <2>1
       DEF SyncInv, ObjectsFirst, Bound, Ended, CompleteDeletion, cluster, Delivering, DeliverySteps
  <2> QED
    BY <2>2, <2>3, <2>4 DEF SyncInv
<1> QED
  BY <1>2, <1>3 DEF CompleteDeletion

-----------------------------------------------------------------------------
(* Import, and the rest of the system                                        *)

\* An import reads and writes; the cluster and the delivery stay as they are.
LEMMA ImportKeeps ==
    ASSUME SyncInv, m' \in Import, UNCHANGED <<row, cluster, d, bounds>>,
           m'.pc \in {"namespace", "bind_namespace", "cr"} => m'.inst \in Row,
           m'.pc \in {"bind_cr", "store"} => m'.cr \in CR,
           m'.cr = Absent \/ m'.cr.uid > 0, m'.pc # "store"
    PROVE  SyncInv'
<1>1. SyncTypeOK' /\ Present' /\ RowSound'
  BY DEF SyncInv, SyncTypeOK, Present, RowSound, cluster, bounds
<1>2. ObjectsFirst' /\ Bound'
  BY DEF SyncInv, ObjectsFirst, Bound, cluster, Delivering
<1> QED
  BY <1>1, <1>2 DEF SyncInv

LEMMA ImportIdleKeeps ==
    ASSUME SyncInv, m' = NoImport, UNCHANGED <<row, cluster, d, bounds>>
    PROVE  SyncInv'
  BY NoImportFacts, ImportKeeps

LEMMA ImportBeginStep == ASSUME SyncInv, ImportBegin PROVE SyncInv'
<1>1. m \in Import /\ row \in Row /\ (m.cr = Absent \/ m.cr.uid > 0)
  BY DEF SyncInv, SyncTypeOK, Bound
<1>2. m' \in Import /\ m'.pc = "namespace" /\ m'.inst = row /\ m'.cr = m.cr
  BY <1>1 DEF ImportBegin, Import, ImportSteps
<1> QED
  BY <1>1, <1>2, ImportKeeps DEF ImportBegin

LEMMA ImportNamespaceStep == ASSUME SyncInv, ImportNamespace PROVE SyncInv'
<1>1. /\ m \in Import /\ m.inst \in Row /\ (m.cr = Absent \/ m.cr.uid > 0)
      /\ ns # Absent => ns.uid \in Uids
  BY DEF SyncInv, SyncTypeOK, Bound, Present, ImportNamespace, Namespace
<1>2. CASE ns # Absent /\ m' = [m EXCEPT !.pc = "bind_namespace", !.ns = ns.uid]
  <2>1. m' \in Import /\ m'.pc = "bind_namespace" /\ m'.inst = m.inst /\ m'.cr = m.cr
    BY <1>1, <1>2 DEF Import, ImportSteps
  <2> QED
    BY <1>1, <2>1, ImportKeeps DEF ImportNamespace
<1> QED
  BY <1>2, ImportIdleKeeps DEF ImportNamespace

LEMMA ImportCRStep == ASSUME SyncInv, ImportCR PROVE SyncInv'
<1>1. /\ m \in Import
      /\ cr # Absent => cr \in CR /\ cr.uid > 0
  BY DEF SyncInv, SyncTypeOK, Bound, Present, ImportCR
<1>2. CASE cr # Absent /\ m' = [m EXCEPT !.pc = "bind_cr", !.inst = Absent, !.cr = cr]
  <2>1. m' \in Import /\ m'.pc = "bind_cr" /\ m'.cr = cr
    BY <1>1, <1>2 DEF Import, ImportSteps
  <2> QED
    BY <1>1, <1>2, <2>1, ImportKeeps DEF ImportCR
<1> QED
  BY <1>2, ImportIdleKeeps DEF ImportCR

LEMMA ImportSaveNamespaceUidStep == ASSUME SyncInv, ImportSaveNamespaceUid PROVE SyncInv'
<1>1. /\ m \in Import /\ row \in Row /\ m.pc = "bind_namespace" /\ m.inst \in Row /\ m.ns \in Uids
      /\ d.pc = "idle" => d.cr = Absent
  BY DEF SyncInv, SyncTypeOK, Present, ImportSaveNamespaceUid, Import
<1>2. CASE UNCHANGED row /\ m' = NoImport
  BY <1>2, ImportIdleKeeps DEF ImportSaveNamespaceUid
<1>3. CASE BindNamespace(m.ns) /\ m' = [m EXCEPT !.pc = "cr"]
  <2>1. m' \in Import /\ m'.pc = "cr" /\ m'.inst = m.inst /\ m'.cr = m.cr
    BY <1>1, <1>3 DEF Import, ImportSteps
  <2>2. SyncTypeOK'
    BY <1>1, <1>3, <2>1, BindNamespaceFacts
       DEF SyncInv, SyncTypeOK, ImportSaveNamespaceUid, cluster, bounds
  <2>3. Present' /\ RowSound'
    BY <1>1, <1>3, <2>1, BindNamespaceFacts DEF SyncInv, Present, RowSound, ImportSaveNamespaceUid
  <2>4. ObjectsFirst' /\ Bound'
    BY <1>1, <1>3, <2>1, BindNamespaceFacts
       DEF SyncInv, ObjectsFirst, Bound, ImportSaveNamespaceUid, cluster, Delivering
  <2> QED
    BY <2>2, <2>3, <2>4 DEF SyncInv
<1> QED
  BY <1>2, <1>3 DEF ImportSaveNamespaceUid

LEMMA ImportSaveCRUidStep == ASSUME SyncInv, ImportSaveCRUid PROVE SyncInv'
<1>1. /\ m \in Import /\ row \in Row /\ m.pc = "bind_cr" /\ m.cr \in CR
      /\ m.cr.uid \in Uids /\ m.cr # Absent /\ m.cr.uid > 0
  BY AbsentAssumption DEF SyncInv, SyncTypeOK, Present, Bound, ImportSaveCRUid, CR
<1>2. CASE UNCHANGED row /\ m' = NoImport
  BY <1>2, ImportIdleKeeps DEF ImportSaveCRUid
<1>3. CASE CanBindCR(m.cr.uid) /\ BindCR(m.cr.uid)
  <2>1. /\ m' \in Import /\ m'.pc \in {"store", "idle"}
        /\ m'.pc = "store" => m'.cr = m.cr
        /\ m'.pc = "idle" => m'.cr = Absent
    <3>1. CASE m' = [m EXCEPT !.pc = "store"]
      BY <1>1, <3>1 DEF Import, ImportSteps
    <3>2. CASE m' = NoImport
      BY <3>2, NoImportFacts
    <3> QED
      BY <1>3, <3>1, <3>2 DEF ImportSaveCRUid
  <2>2. SyncTypeOK'
    BY <1>1, <1>3, <2>1, BindCRFacts DEF SyncInv, SyncTypeOK, ImportSaveCRUid, cluster, bounds
  <2>3. Present' /\ RowSound'
    BY <1>1, <1>3, <2>1, BindCRFacts DEF SyncInv, Present, RowSound, ImportSaveCRUid
  <2>4. ObjectsFirst'
    BY <1>1, <1>3, <2>1, BindCRFacts
       DEF SyncInv, ObjectsFirst, ImportSaveCRUid, cluster, Delivering
  <2>5. d.pc = "delete_cr" => d.cr # Absent
    BY AbsentAssumption DEF SyncInv, Present
  <2>6. row'.crUid = m.cr.uid /\ row.crUid \in {0, m.cr.uid}
    BY <1>1, <1>3, BindCRFacts DEF CanBindCR, Known
  <2>7. Bound'
    BY <1>1, <2>1, <2>5, <2>6 DEF SyncInv, Bound, ImportSaveCRUid, cluster
  <2> QED
    BY <2>2, <2>3, <2>4, <2>7 DEF SyncInv
<1> QED
  BY <1>2, <1>3 DEF ImportSaveCRUid

LEMMA ObservedFacts ==
    ASSUME row \in Row, NEW res \in CR
    PROVE  LET new == Observed(res)
           IN  /\ new \in Row /\ new.nsUid = row.nsUid /\ new.crUid = row.crUid
               /\ new.generation = row.generation /\ new.password = row.password
               /\ new.deletionRequested = row.deletionRequested /\ new.deleted = row.deleted
               /\ new.stage = row.stage /\ new.recovery = row.recovery
               /\ new.operatorRecovery = res.recovery
               /\ new.isRecoveryRequired = (row.recovery # "none" \/ res.recovery)
<1>1. /\ res.observedGeneration \in {0} \cup Versions /\ res.appliedPassword \in {0} \cup Versions
      /\ res.recovery \in BOOLEAN
  BY DEF CR
<1> DEFINE required == row.recovery # "none" \/ res.recovery
<1>2. required \in BOOLEAN
  OBVIOUS
<1>3. Observed(res) =
        [row EXCEPT !.observed = TRUE, !.observedGeneration = res.observedGeneration,
                    !.appliedPassword = res.appliedPassword,
                    !.operatorRecovery = res.recovery, !.isRecoveryRequired = required]
  BY DEF Observed
<1> HIDE DEF required
<1>4. /\ Observed(res) \in Row
      /\ Observed(res).isRecoveryRequired = required
      /\ Observed(res).operatorRecovery = res.recovery
  BY <1>1, <1>2, <1>3 DEF Row
<1>5. LET new == Observed(res)
      IN  /\ new.nsUid = row.nsUid /\ new.crUid = row.crUid
          /\ new.generation = row.generation /\ new.password = row.password
          /\ new.deletionRequested = row.deletionRequested /\ new.deleted = row.deleted
          /\ new.stage = row.stage /\ new.recovery = row.recovery
  BY <1>3 DEF Row
<1> QED
  BY <1>4, <1>5 DEF required

LEMMA ImportObservationStep == ASSUME SyncInv, ImportObservation PROVE SyncInv'
<1>1. row \in Row /\ m.cr \in CR /\ m' = NoImport
  BY DEF SyncInv, SyncTypeOK, Present, ImportObservation
<1>2. CASE UNCHANGED row
  BY <1>2, ImportIdleKeeps DEF ImportObservation
<1>3. CASE row' = Observed(m.cr)
  <2>1. SyncTypeOK'
    BY <1>1, <1>3, NoImportFacts, ObservedFacts
       DEF SyncInv, SyncTypeOK, ImportObservation, cluster, bounds
  <2>2. Present'
    BY <1>1, NoImportFacts DEF SyncInv, Present, ImportObservation
  <2>3. RowSound'
    BY <1>1, <1>3, ObservedFacts DEF SyncInv, RowSound, ImportObservation
  <2>4. ObjectsFirst'
    BY <1>1, <1>3, ObservedFacts
       DEF SyncInv, ObjectsFirst, ImportObservation, cluster, Delivering
  <2>5. Bound'
    BY <1>1, <1>3, NoImportFacts, ObservedFacts DEF SyncInv, Bound, ImportObservation, cluster
  <2> QED
    BY <2>1, <2>2, <2>3, <2>4, <2>5 DEF SyncInv
<1> QED
  BY <1>2, <1>3 DEF ImportObservation

LEMMA RequestStep == ASSUME SyncInv, RequestChange \/ RequestDeletion PROVE SyncInv'
<1>1. /\ row \in Row /\ row.generation \in Versions /\ row.password \in Versions
      /\ row.password <= row.generation /\ ~row.deletionRequested /\ row.stage = "none"
      /\ meddled \in Nat
  BY DEF SyncInv, SyncTypeOK, Row, RowSound, RequestChange, RequestDeletion
<1>2. /\ row' \in Row /\ row'.password <= row'.generation /\ row'.stage = "none"
      /\ row'.deleted = row.deleted /\ row'.crUid = row.crUid /\ row'.recovery = row.recovery
      /\ row'.operatorRecovery = row.operatorRecovery
      /\ row'.isRecoveryRequired = row.isRecoveryRequired
  <2>1. CASE RequestDeletion
    BY <1>1, <2>1 DEF RequestDeletion, Row
  <2>2. CASE RequestChange
    <3>1. PICK v \in {row.password, row.password + 1} :
             row' = [row EXCEPT !.generation = @ + 1, !.password = v]
      BY <2>2 DEF RequestChange
    <3>2. row.generation + 1 \in Versions /\ v \in Versions /\ v <= row.generation + 1
      BY <1>1, <2>2, SyncAssumption DEF RequestChange, Versions
    <3> QED
      BY <1>1, <3>1, <3>2 DEF Row
  <2> QED
    BY <2>1, <2>2
<1>3. UNCHANGED <<cluster, d, m, bounds>>
  BY DEF RequestChange, RequestDeletion
<1>4. SyncTypeOK' /\ Present'
  BY <1>2, <1>3 DEF SyncInv, SyncTypeOK, Present, cluster, bounds
<1>5. RowSound'
  BY <1>1, <1>2, <1>3 DEF SyncInv, RowSound
<1>6. ObjectsFirst' /\ Bound'
  BY <1>1, <1>2, <1>3 DEF SyncInv, ObjectsFirst, Bound, cluster, Delivering
<1> QED
  BY <1>4, <1>5, <1>6 DEF SyncInv

\* The Secret changes, or goes.
LEMMA SecretKeeps ==
    ASSUME SyncInv, secret # Absent, secret' \in Secret \cup {Absent},
           UNCHANGED <<row, ns, cr, uid, d, m, bounds>>, served' \in BOOLEAN
    PROVE  SyncInv'
<1>1. SyncTypeOK' /\ Present' /\ RowSound'
  BY DEF SyncInv, SyncTypeOK, Present, RowSound, bounds
<1>2. ObjectsFirst' /\ Bound'
  BY DEF SyncInv, ObjectsFirst, Bound, Delivering
<1> QED
  BY <1>1, <1>2 DEF SyncInv

\* What the operator makes of the resource and of the Secret.
LEMMA OperatorFacts ==
    ASSUME cr \in CR, Operator, cr' # cr
    PROVE  /\ cr' \in CR \cup {Absent}
           /\ cr' # Absent =>
                 /\ cr'.uid = cr.uid /\ cr'.generation = cr.generation /\ cr'.password = cr.password
                 /\ cr'.deleting = cr.deleting /\ cr'.finalizer \in {cr.finalizer, TRUE}
           /\ UNCHANGED <<row, ns, secret, uid, served, d, m, bounds>>
<1>1. CASE OperatorFinalizer
  BY <1>1 DEF OperatorFinalizer, CR
<1>2. CASE OperatorAccept
  BY <1>2 DEF OperatorAccept, CR
<1>3. CASE OperatorReportsCredentials
  <2>1. CASE CredentialsSound
    <3> DEFINE i == cr.initialized \/ secret.service
               r == IF secret.service THEN FALSE ELSE cr.recovery
    <3>1. i \in BOOLEAN /\ r \in BOOLEAN
      BY DEF CR
    <3>2. cr' = [cr EXCEPT !.initialized = i, !.recovery = r]
      BY <1>3, <2>1 DEF OperatorReportsCredentials
    <3>3. UNCHANGED <<row, ns, secret, uid, served, d, m, bounds>>
      BY <1>3 DEF OperatorReportsCredentials
    <3> HIDE DEF i, r
    <3> QED
      BY <3>1, <3>2, <3>3 DEF CR
  <2>2. CASE ~CredentialsSound
    BY <1>3, <2>2 DEF OperatorReportsCredentials, CR
  <2> QED
    BY <2>1, <2>2
<1>4. CASE OperatorApplies
  BY <1>4 DEF OperatorApplies, CR
<1>5. CASE OperatorObserves
  BY <1>5 DEF OperatorObserves, CR
<1>6. CASE OperatorFinishes
  BY <1>6 DEF OperatorFinishes
<1>7. CASE OperatorWritesSecret \/ OperatorCleansSecret
  BY <1>7 DEF OperatorWritesSecret, OperatorCleansSecret
<1> QED
  BY <1>1, <1>2, <1>3, <1>4, <1>5, <1>6, <1>7 DEF Operator

LEMMA OperatorSecretFacts ==
    ASSUME SyncInv, OperatorWritesSecret \/ OperatorCleansSecret
    PROVE  /\ secret \in Secret /\ secret # Absent /\ secret' \in Secret
           /\ UNCHANGED <<row, ns, cr, uid, d, m, bounds>> /\ served' \in BOOLEAN
<1>1. cr \in CR /\ cr.uid \in Uids /\ secret \in Secret \cup {Absent} /\ served \in BOOLEAN
  BY DEF SyncInv, SyncTypeOK, OperatorWritesSecret, OperatorCleansSecret, Live, CR
<1>2. secret # Absent
  BY DEF OperatorWritesSecret, OperatorCleansSecret, CredentialsSound
<1>3. secret' \in Secret
  <2>1. CASE secret' = [secret EXCEPT !.service = TRUE, !.owner = cr.uid]
    BY <1>1, <1>2, <2>1 DEF Secret
  <2>2. CASE secret' = [secret EXCEPT !.hash[cr.appliedPassword] = "none"]
    BY <1>1, <1>2, <2>2 DEF Secret
  <2> QED
    BY <2>1, <2>2 DEF OperatorWritesSecret, OperatorCleansSecret
<1> QED
  BY <1>1, <1>2, <1>3 DEF OperatorWritesSecret, OperatorCleansSecret

LEMMA OperatorStep == ASSUME SyncInv, Operator PROVE SyncInv'
<1>1. CASE OperatorWritesSecret \/ OperatorCleansSecret
  BY <1>1, OperatorSecretFacts, SecretKeeps
<1>2. CASE ~(OperatorWritesSecret \/ OperatorCleansSecret)
  <2>1. cr # Absent /\ cr \in CR /\ served \in BOOLEAN
    BY <1>2 DEF SyncInv, SyncTypeOK, Operator, OperatorFinalizer, OperatorAccept,
                OperatorReportsCredentials, OperatorObserves, OperatorApplies,
                OperatorFinishes, Live
  <2>2. cr' # cr \/ UNCHANGED cr
    OBVIOUS
  <2>3. UNCHANGED <<row, ns, secret, uid, served, d, m, bounds>>
    BY <1>2 DEF Operator, OperatorFinalizer, OperatorAccept,
                OperatorReportsCredentials, OperatorObserves, OperatorApplies,
                OperatorFinishes
  <2> QED
    BY <2>1, <2>2, <2>3, OperatorFacts, ResourceKeeps
<1> QED
  BY <1>1, <1>2

\* A namespace that nothing is left in may go.
LEMMA KubernetesStep == ASSUME SyncInv, Kubernetes PROVE SyncInv'
<1>1. served \in BOOLEAN /\ cr \in CR \cup {Absent}
  BY DEF SyncInv, SyncTypeOK
<1>2. CASE CollectSecret
  BY <1>1, <1>2, SecretKeeps DEF CollectSecret
<1>3. CASE EmptyNamespace
  <2>1. CASE secret # Absent /\ secret' = Absent /\ UNCHANGED cr
    BY <1>1, <1>3, <2>1, SecretKeeps DEF EmptyNamespace
  <2>2. CASE Live /\ cr' = Removed(cr) /\ UNCHANGED secret
    BY <1>1, <1>3, <2>2, RemovedFacts, ResourceKeeps DEF EmptyNamespace, Live
  <2> QED
    BY <1>3, <2>1, <2>2 DEF EmptyNamespace
<1>4. CASE RemoveNamespace
  <2>1. SyncTypeOK' /\ Present' /\ RowSound'
    BY <1>4 DEF RemoveNamespace, SyncInv, SyncTypeOK, Present, RowSound, bounds
  <2>2. ObjectsFirst' /\ Bound'
    BY <1>4 DEF RemoveNamespace, SyncInv, ObjectsFirst, Bound, Delivering
  <2> QED
    BY <2>1, <2>2 DEF SyncInv
<1> QED
  BY <1>2, <1>3, <1>4 DEF Kubernetes

LEMMA InterruptStep == ASSUME SyncInv, Interrupt PROVE SyncInv'
<1>1. faults' \in 0..MaxFaults
  BY SyncAssumption DEF Interrupt, SyncInv, SyncTypeOK
<1>2. CASE d.pc # "idle" /\ d' = NoDelivery /\ UNCHANGED m
  <2>1. Ended /\ ~row.deleted
    BY <1>2, NoDeliveryFacts DEF Ended, SyncInv, RowSound
  <2>2. SyncTypeOK'
    BY <1>1, <1>2, <2>1 DEF Interrupt, SyncInv, SyncTypeOK, Ended, cluster
  <2>3. Present' /\ RowSound'
    BY <1>2, <2>1 DEF Interrupt, SyncInv, Present, RowSound, Ended
  <2>4. ObjectsFirst' /\ Bound'
    BY <1>2, <2>1 DEF Interrupt, SyncInv, ObjectsFirst, Bound, Ended, cluster, Delivering, DeliverySteps
  <2> QED
    BY <2>2, <2>3, <2>4 DEF SyncInv
<1>3. CASE m' = NoImport /\ UNCHANGED d
  <2>1. SyncTypeOK'
    BY <1>1, <1>3, NoImportFacts DEF Interrupt, SyncInv, SyncTypeOK, cluster
  <2>2. Present' /\ RowSound'
    BY <1>3, NoImportFacts DEF Interrupt, SyncInv, Present, RowSound
  <2>3. ObjectsFirst' /\ Bound'
    BY <1>3, NoImportFacts DEF Interrupt, SyncInv, ObjectsFirst, Bound, cluster, Delivering
  <2> QED
    BY <2>1, <2>2, <2>3 DEF SyncInv
<1> QED
  BY <1>2, <1>3 DEF Interrupt

\* Changes by hand have the same forms as those of the operator.
LEMMA MeddleStep == ASSUME SyncInv, Meddle PROVE SyncInv'
<1>1. /\ cr \in CR \cup {Absent} /\ secret \in Secret \cup {Absent} /\ ns \in Namespace \cup {Absent}
      /\ meddled' \in 0..MaxMeddling /\ UNCHANGED <<row, uid, served, d, m, faults>>
  BY SyncAssumption DEF Meddle, SyncInv, SyncTypeOK
<1>2. /\ cr' \in CR \cup {Absent} /\ (cr' # Absent => cr # Absent /\ cr'.uid = cr.uid)
      /\ secret' \in Secret \cup {Absent} /\ (secret' # Absent => secret # Absent)
      /\ ns' \in Namespace \cup {Absent} /\ (ns' = Absent <=> ns = Absent)
  <2>1. CASE Live /\ cr' = Removed(cr) /\ UNCHANGED <<ns, secret>>
    BY <1>1, <2>1, RemovedFacts DEF Live
  <2>2. CASE /\ cr # Absent /\ UNCHANGED <<ns, secret>>
             /\ cr' = IF cr.deleting THEN Absent ELSE [cr EXCEPT !.finalizer = FALSE]
    BY <1>1, <2>2 DEF CR
  <2>3. CASE secret' = Absent /\ UNCHANGED <<ns, cr>>
    BY <1>1, <2>3
  <2>4. CASE /\ secret # Absent /\ UNCHANGED <<ns, cr>>
             /\ \E v \in Versions : secret' = [secret EXCEPT !.hash[v] = "foreign"]
    BY <1>1, <2>4 DEF Secret
  <2>5. CASE ns # Absent /\ ns' = [ns EXCEPT !.terminating = TRUE] /\ UNCHANGED <<secret, cr>>
    BY <1>1, <2>5, AbsentAssumption DEF Namespace
  <2> QED
    BY <2>1, <2>2, <2>3, <2>4, <2>5 DEF Meddle
<1>3. SyncTypeOK' /\ Present' /\ RowSound'
  BY <1>1, <1>2 DEF SyncInv, SyncTypeOK, Present, RowSound
<1>4. ObjectsFirst' /\ Bound'
  BY <1>1, <1>2 DEF SyncInv, ObjectsFirst, Bound, Delivering
<1> QED
  BY <1>3, <1>4 DEF SyncInv

LEMMA InitSyncInv == SyncInit => SyncInv
<1> SUFFICES ASSUME SyncInit PROVE SyncInv
  OBVIOUS
<1>0. /\ row \in Row /\ row.password = 1 /\ row.generation = 1 /\ row.stage = "none" /\ ~row.deleted
      /\ row.recovery = "none" /\ row.operatorRecovery = FALSE /\ row.isRecoveryRequired = FALSE
  <2>1. 1 \in Versions /\ 0 \in Uids /\ 0 \in {0} \cup Versions
    BY SyncAssumption DEF Versions, Uids
  <2> QED
    BY <2>1 DEF SyncInit, Row, Stages, Reasons
<1> DEFINE others == /\ ns = Absent /\ secret = Absent /\ cr = Absent /\ uid = 0 /\ served = FALSE
                     /\ d = NoDelivery /\ m = NoImport /\ faults = 0 /\ meddled = 0
<1>1. SyncTypeOK
  <2>1. others
    BY DEF SyncInit
  <2>2. 0 \in 0..MaxUid /\ 0 \in 0..MaxFaults /\ 0 \in 0..MaxMeddling
    BY SyncAssumption
  <2> QED
    BY <1>0, <2>1, <2>2, NoDeliveryFacts, NoImportFacts DEF SyncTypeOK, Uids
<1>2. Present
  BY NoDeliveryFacts, NoImportFacts DEF SyncInit, Present
<1>3. RowSound
  <2>1. row.isRecoveryRequired = (row.recovery # "none" \/ row.operatorRecovery)
    BY <1>0, Zenon
  <2> QED
    BY <1>0, <2>1 DEF RowSound
<1>4. ObjectsFirst /\ Bound
  BY <1>0, NoDeliveryFacts, NoImportFacts
     DEF SyncInit, ObjectsFirst, Bound, Delivering, DeliverySteps
<1> QED
  BY <1>1, <1>2, <1>3, <1>4 DEF SyncInv

LEMMA NextSyncInv == SyncInv /\ [SyncNext]_syncVars => SyncInv'
<1> SUFFICES ASSUME SyncInv, [SyncNext]_syncVars PROVE SyncInv'
  OBVIOUS
<1>1. CASE Deliver
  BY <1>1, BeginStep, EnsureNamespaceStep, SaveNamespaceUidStep, ReadCRStep, SaveCRUidStep,
     EnsureSecretStep, UpdateSecretStep, CreateCRStep, UpdateCRStep, ClearRecoveryStep, ReportStep
     DEF Deliver
<1>2. CASE DeleteInstance
  BY <1>2, ReadDeletionNamespaceStep, SaveDeletionNamespaceUidStep, ReadDeletionCRStep,
     SaveDeletionCRUidStep, PrepareCRDeletionStep, ReadFreshRowStep, ReadFreshCRStep,
     SaveFreshCRUidStep, DeleteCRStep, CancelCreationStep, PrepareNamespaceDeletionStep,
     DeletePreparedNamespaceStep, FinishWithoutNamespaceStep, CompleteDeletionStep
     DEF DeleteInstance
<1>3. CASE ImportInstance
  BY <1>3, ImportBeginStep, ImportNamespaceStep, ImportSaveNamespaceUidStep, ImportCRStep,
     ImportSaveCRUidStep, ImportObservationStep DEF ImportInstance
<1>4. CASE RequestChange \/ RequestDeletion
  BY <1>4, RequestStep
<1>5. CASE Operator \/ Kubernetes \/ Interrupt \/ Meddle
  BY <1>5, OperatorStep, KubernetesStep, InterruptStep, MeddleStep
<1>6. CASE UNCHANGED syncVars
  BY <1>6 DEF syncVars, SyncInv, SyncTypeOK, Present, RowSound, ObjectsFirst, Bound, Delivering
<1> QED
  BY <1>1, <1>2, <1>3, <1>4, <1>5, <1>6 DEF SyncNext

\* The row, the objects and the copies both loops hold have their types in every
\* reachable state.
THEOREM SyncTypeCorrect == SyncSpec => []SyncTypeOK
<1>1. SyncInv => SyncTypeOK
  BY DEF SyncInv
<1> QED
  BY <1>1, InitSyncInv, NextSyncInv, PTL DEF SyncSpec

\* A row is marked deleted only when nothing of the instance is left in the
\* cluster, and nothing comes back: the objects live in the namespace, the last
\* of them the namespace itself, and CompleteDeletion runs only without it.
THEOREM DeletedMeansGoneHolds == SyncSpec => []DeletedMeansGone
<1>1. SyncInv => DeletedMeansGone
  BY DEF SyncInv, ObjectsFirst, DeletedMeansGone
<1> QED
  BY <1>1, InitSyncInv, NextSyncInv, PTL DEF SyncSpec

\* The only steps that touch the namespace.
LEMMA NamespaceWriters ==
    ASSUME SyncNext, ns' # ns
    PROVE  EnsureNamespace \/ DeletePreparedNamespace \/ RemoveNamespace \/ Meddle
<1>1. CASE Deliver
  BY <1>1, Zenon
     DEF Deliver, Begin, SaveNamespaceUid, ReadCR, SaveCRUid, EnsureSecret, UpdateSecret, CreateCR,
         UpdateCR, ClearRecovery, Report, cluster
<1>2. CASE DeleteInstance
  BY <1>2, Zenon
     DEF DeleteInstance, ReadDeletionNamespace, SaveDeletionNamespaceUid, ReadDeletionCR,
         SaveDeletionCRUid, PrepareCRDeletion, ReadFreshRow, ReadFreshCR, SaveFreshCRUid, DeleteCR,
         CancelCreation, PrepareNamespaceDeletion, FinishWithoutNamespace, CompleteDeletion, cluster
<1>3. CASE ImportInstance \/ RequestChange \/ RequestDeletion
  BY <1>3, Zenon
     DEF ImportInstance, ImportBegin, ImportNamespace, ImportSaveNamespaceUid, ImportCR,
         ImportSaveCRUid, ImportObservation, RequestChange, RequestDeletion, cluster
<1>4. CASE Operator \/ Kubernetes \/ Interrupt
  BY <1>4, Zenon
     DEF Operator, OperatorFinalizer, OperatorAccept, OperatorWritesSecret,
         OperatorReportsCredentials, OperatorCleansSecret, OperatorObserves, OperatorApplies,
         OperatorFinishes,
         Kubernetes, CollectSecret, EmptyNamespace, Interrupt, cluster
<1> QED
  BY <1>1, <1>2, <1>3, <1>4 DEF SyncNext

\* The API asks for the removal of a namespace only when the resource in it is
\* gone, which is when the operator has seen every process stop: the stage that
\* allows it is saved only after a read that found no resource, and none is
\* created after that.
THEOREM NamespaceLastHolds == SyncSpec => NamespaceLast
<1> DEFINE Last == ns # Absent /\ ~ns.terminating /\ ns' # Absent /\ ns'.terminating /\ UNCHANGED meddled
                      => cr = Absent
<1>1. ASSUME SyncInv, [SyncNext]_syncVars PROVE [Last]_syncVars
  <2> SUFFICES ASSUME SyncNext, ns # Absent, ns' # ns, ns' # Absent, UNCHANGED meddled
               PROVE  cr = Absent
    BY <1>1 DEF syncVars
  <2>1. CASE EnsureNamespace
    BY <2>1 DEF EnsureNamespace
  <2>2. CASE DeletePreparedNamespace
    BY <1>1, <2>2 DEF DeletePreparedNamespace, SyncInv, ObjectsFirst
  <2>3. CASE RemoveNamespace
    BY <2>3 DEF RemoveNamespace
  <2>4. CASE Meddle
    BY <1>1, <2>4, SyncAssumption DEF Meddle, SyncInv, SyncTypeOK
  <2> QED
    BY <2>1, <2>2, <2>3, <2>4, NamespaceWriters
<1> QED
  BY <1>1, InitSyncInv, NextSyncInv, PTL DEF SyncSpec, NamespaceLast

\* The only steps of the API that touch an existing resource, and the only one
\* that stores what the operator reports.
LEMMA ResourceWriters ==
    ASSUME SyncNext, cr # Absent, cr' # cr, d' # d
    PROVE  UpdateCR \/ DeleteCR
<1>1. CASE Deliver
  BY <1>1, Zenon
     DEF Deliver, Begin, EnsureNamespace, SaveNamespaceUid, ReadCR, SaveCRUid, EnsureSecret,
         UpdateSecret, CreateCR, ClearRecovery, Report, cluster
<1>2. CASE DeleteInstance
  BY <1>2, Zenon
     DEF DeleteInstance, ReadDeletionNamespace, SaveDeletionNamespaceUid, ReadDeletionCR,
         SaveDeletionCRUid, PrepareCRDeletion, ReadFreshRow, ReadFreshCR, SaveFreshCRUid,
         CancelCreation, PrepareNamespaceDeletion, DeletePreparedNamespace, FinishWithoutNamespace,
         CompleteDeletion, cluster
<1>3. CASE ImportInstance \/ RequestChange \/ RequestDeletion
  BY <1>3, Zenon
     DEF ImportInstance, ImportBegin, ImportNamespace, ImportSaveNamespaceUid, ImportCR,
         ImportSaveCRUid, ImportObservation, RequestChange, RequestDeletion, cluster
<1>4. CASE Operator \/ Kubernetes \/ Interrupt \/ Meddle
  BY <1>4, Zenon
     DEF Operator, OperatorFinalizer, OperatorAccept, OperatorWritesSecret,
         OperatorReportsCredentials, OperatorCleansSecret, OperatorObserves, OperatorApplies,
         OperatorFinishes,
         Kubernetes, CollectSecret, EmptyNamespace, RemoveNamespace, Interrupt, Meddle, cluster
<1> QED
  BY <1>1, <1>2, <1>3, <1>4 DEF SyncNext

Reported(r) == <<r.observedGeneration, r.operatorRecovery>>

LEMMA ObservationWriters ==
    ASSUME SyncInv, SyncNext, Reported(row)' # Reported(row)
    PROVE  ImportObservation
<1>1. row \in Row
  BY DEF SyncInv, SyncTypeOK
<1>2. ASSUME NEW u \in Uids, BindNamespace(u) \/ BindCR(u) PROVE Reported(row)' = Reported(row)
  BY <1>1, <1>2, BindNamespaceFacts, BindCRFacts DEF Reported
<1>3. CASE UNCHANGED row
  BY <1>3 DEF Reported
<1>4. CASE Deliver
  <2>1. CASE SaveNamespaceUid
    BY <1>2, <1>3, <2>1 DEF SaveNamespaceUid, SyncInv, Present, Namespace
  <2>2. CASE SaveCRUid
    BY <1>2, <1>3, <2>2 DEF SaveCRUid, SyncInv, Present, CR
  <2>3. CASE ClearRecovery
    BY <1>1, <1>3, <2>3, SetReasonFacts DEF ClearRecovery, Reported, Reasons
  <2>4. CASE Report
    BY <1>1, <1>3, <2>4, SetReasonFacts DEF Report, Reported, SyncInv, SyncTypeOK, Delivery
  <2>5. CASE \/ Begin \/ EnsureNamespace \/ ReadCR \/ EnsureSecret \/ UpdateSecret \/ CreateCR
             \/ UpdateCR
    BY <1>3, <2>5, Zenon DEF Begin, EnsureNamespace, ReadCR, EnsureSecret, UpdateSecret, CreateCR,
                     UpdateCR
  <2> QED
    BY <1>4, <2>1, <2>2, <2>3, <2>4, <2>5 DEF Deliver
<1>5. CASE DeleteInstance
  <2>0. ASSUME NEW stage \in Stages, NEW n \in Uids, NEW c \in Uids, Prepare(stage, n, c)
        PROVE  Reported(row)' = Reported(row)
    BY <1>1, <2>0, PrepareFacts DEF Reported
  <2>1. CASE SaveDeletionNamespaceUid
    BY <1>2, <1>3, <2>1 DEF SaveDeletionNamespaceUid, SyncInv, Present, Namespace
  <2>2. CASE SaveDeletionCRUid \/ SaveFreshCRUid
    BY <1>2, <1>3, <2>2 DEF SaveDeletionCRUid, SaveFreshCRUid, SyncInv, Present, CR
  <2>3. CASE PrepareCRDeletion
    BY <1>3, <2>0, <2>3 DEF PrepareCRDeletion, SyncInv, Present, CR, Namespace, Stages
  <2>4. CASE PrepareNamespaceDeletion
    BY <1>3, <2>0, <2>4 DEF PrepareNamespaceDeletion, SyncInv, Present, Row, Namespace, Stages
  <2>5. CASE FinishWithoutNamespace
    BY <1>3, <2>0, <2>5 DEF FinishWithoutNamespace, SyncInv, Present, Row, Stages
  <2>6. CASE CompleteDeletion
    BY <1>1, <1>3, <2>6 DEF CompleteDeletion, Reported, Row
  <2>7. CASE \/ ReadDeletionNamespace \/ ReadDeletionCR \/ ReadFreshRow \/ ReadFreshCR
             \/ DeleteCR \/ CancelCreation \/ DeletePreparedNamespace
    BY <1>3, <2>7, Zenon DEF ReadDeletionNamespace, ReadDeletionCR, ReadFreshRow, ReadFreshCR,
                     DeleteCR, CancelCreation, DeletePreparedNamespace
  <2> QED
    BY <1>5, <2>1, <2>2, <2>3, <2>4, <2>5, <2>6, <2>7 DEF DeleteInstance
<1>6. CASE ImportInstance
  <2>1. CASE ImportSaveNamespaceUid
    BY <1>2, <1>3, <2>1 DEF ImportSaveNamespaceUid, SyncInv, SyncTypeOK, Import
  <2>2. CASE ImportSaveCRUid
    BY <1>2, <1>3, <2>2 DEF ImportSaveCRUid, SyncInv, Present, CR
  <2>3. CASE ImportBegin \/ ImportNamespace \/ ImportCR
    BY <1>3, <2>3, Zenon DEF ImportBegin, ImportNamespace, ImportCR
  <2> QED
    BY <1>6, <2>1, <2>2, <2>3 DEF ImportInstance
<1>7. CASE RequestChange \/ RequestDeletion
  BY <1>1, <1>7 DEF RequestChange, RequestDeletion, Reported, Row
<1>8. CASE Operator \/ Kubernetes \/ Interrupt \/ Meddle
  BY <1>3, <1>8, Zenon
     DEF Operator, OperatorFinalizer, OperatorAccept, OperatorWritesSecret,
         OperatorReportsCredentials, OperatorCleansSecret, OperatorObserves, OperatorApplies,
         OperatorFinishes,
         Kubernetes, CollectSecret, EmptyNamespace, RemoveNamespace, Interrupt, Meddle
<1> QED
  BY <1>4, <1>5, <1>6, <1>7, <1>8 DEF SyncNext

\* Whatever stands in the cluster under the right name, and whatever two steps
\* of a loop have in between: the API changes, deletes and believes only the
\* resource whose UID the row has.  The copy a write is made from is bound to
\* the row first, and a UID once bound never changes.
THEOREM OnlyOwnResourceHolds == SyncSpec => OnlyOwnResource
<1> DEFINE Own == /\ cr # Absent /\ cr' # cr /\ d' # d => cr.uid = row.crUid
                  /\ row'.observedGeneration # row.observedGeneration
                        \/ row'.operatorRecovery # row.operatorRecovery
                     => m.cr.uid = row.crUid
<1>1. ASSUME SyncInv, [SyncNext]_syncVars PROVE [Own]_syncVars
  <2> SUFFICES ASSUME SyncNext PROVE Own
    BY <1>1 DEF syncVars
  <2>1. ASSUME cr # Absent, cr' # cr, d' # d PROVE cr.uid = row.crUid
    <3>1. CASE UpdateCR
      BY <1>1, <2>1, <3>1 DEF UpdateCR, SyncInv, Bound
    <3>2. CASE DeleteCR
      BY <1>1, <2>1, <3>2 DEF DeleteCR, SyncInv, Bound
    <3> QED
      BY <2>1, <3>1, <3>2, ResourceWriters
  <2>2. ASSUME row'.observedGeneration # row.observedGeneration
                  \/ row'.operatorRecovery # row.operatorRecovery
        PROVE  m.cr.uid = row.crUid
    <3>1. ImportObservation
      BY <1>1, <2>2, ObservationWriters DEF Reported
    <3> QED
      BY <1>1, <3>1 DEF ImportObservation, SyncInv, Bound
  <2> QED
    BY <2>1, <2>2
<1> QED
  BY <1>1, InitSyncInv, NextSyncInv, PTL DEF SyncSpec, OnlyOwnResource

-----------------------------------------------------------------------------
(* The same steps as long as nobody changes the cluster by hand              *)

LEMMA EndUntouched ==
    ASSUME Untouched, Ended, d'.pc = "idle", UNCHANGED <<row, ns, secret, cr, m>>
    PROVE  Untouched'
<1>1. OneNamespace' /\ OneResource'
  BY DEF Untouched, OneNamespace, OneResource, Ended, Delivering, DeliverySteps, CreationHasHistory
<1>2. InOrder' /\ SecretSound'
  BY DEF Untouched, InOrder, SecretSound
<1>3. CopyOfRow' /\ CopyOfResource' /\ NoReason'
  BY DEF Untouched, CopyOfRow, CopyOfResource, NoReason, Delivering, DeliverySteps
<1> QED
  BY <1>1, <1>2, <1>3 DEF Untouched

LEMMA BeginUntouched == ASSUME SyncInv, Untouched, Begin PROVE Untouched'
<1>1. /\ d \in Delivery /\ row \in Row /\ row.deletionRequested \in BOOLEAN
      /\ d.cr = Absent
  BY DEF SyncInv, SyncTypeOK, Row, Begin, Present
<1> DEFINE pc == IF row.deletionRequested THEN "del_namespace" ELSE "namespace"
<1>2. /\ d'.pc = pc
      /\ d'.inst = row /\ d'.ns = d.ns /\ d'.cr = d.cr /\ d'.secret = d.secret
  BY <1>1 DEF Begin, Delivery, DeliverySteps, DeletionSteps
<1>3. row.nsUid \in Uids /\ row.crUid \in Uids /\ row.generation \in Nat /\ row.password \in Nat
  BY <1>1 DEF Row, Versions
<1>4. OneNamespace' /\ OneResource'
  BY <1>1, <1>2 DEF Untouched, OneNamespace, OneResource, Begin, cluster, CreationHasHistory
<1>5. InOrder' /\ SecretSound'
  BY <1>1, <1>2 DEF Untouched, InOrder, SecretSound, Begin, cluster
<1>6. CopyOfRow' /\ NoReason'
  BY <1>1, <1>2, <1>3
     DEF Untouched, CopyOfRow, NoReason, Begin, cluster, CreationHasHistory
<1>7. CopyOfResource'
  BY <1>1, <1>2 DEF Untouched, InOrder, CopyOfResource, Begin, cluster, Delivering, DeliverySteps
<1> QED
  BY <1>4, <1>5, <1>6, <1>7 DEF Untouched

\* Nothing is found missing or foreign.
LEMMA EnsureNamespaceUntouched == ASSUME SyncInv, Untouched, EnsureNamespace PROVE Untouched'
<1>1. /\ d \in Delivery /\ row \in Row /\ d.pc = "namespace" /\ d.inst \in Row
      /\ uid \in Uids /\ row.stage = "none" /\ d.cr = Absent
  BY DEF EnsureNamespace, SyncInv, SyncTypeOK, Present, ObjectsFirst, Delivering, DeliverySteps
<1>2. CASE ns = Absent
  <2>1. cr = Absent
    BY <1>2 DEF SyncInv, ObjectsFirst
  <2>2. ~CreationHasHistory(d.inst)
    BY <1>1, <2>1 DEF Untouched, OneResource, CopyOfRow
  <2>3. d.inst.nsUid = 0 /\ row.nsUid = 0
    BY <1>1, <1>2 DEF Untouched, OneNamespace, CopyOfRow
  <2>4. /\ uid < MaxUid /\ ns' = NewNamespace /\ TakeNamespace("bind_namespace", NewNamespace)
    BY <1>2, <2>2, <2>3 DEF EnsureNamespace, TakeNamespace
  <2>5. NewNamespace \in Namespace /\ ~NewNamespace.terminating
    BY <1>1, <2>4, SyncAssumption DEF NewNamespace, Namespace, Uids
  <2>6. /\ d'.pc = "bind_namespace" /\ d'.inst = d.inst /\ d'.ns = ns' /\ d'.cr = d.cr
        /\ ns' # Absent /\ ~ns'.terminating
    BY <1>1, <2>4, <2>5, TakeNamespaceFacts, AbsentAssumption DEF Pcs, DeliverySteps
  <2>7. OneNamespace'
    BY <1>1, <1>2, <2>3, <2>6 DEF Untouched, OneNamespace, EnsureNamespace, Known
  <2>8. OneResource' /\ InOrder' /\ SecretSound'
    BY <1>1, <2>1, <2>6
       DEF Untouched, OneResource, InOrder, SecretSound, EnsureNamespace, CreationHasHistory
  <2>9. CopyOfRow' /\ CopyOfResource' /\ NoReason'
    BY <1>1, <2>1, <2>6
       DEF Untouched, CopyOfRow, CopyOfResource, NoReason, EnsureNamespace, CreationHasHistory
  <2> QED
    BY <2>7, <2>8, <2>9 DEF Untouched
<1>3. CASE ns # Absent
  <2>1. ns \in Namespace /\ ~ns.terminating
    BY <1>1, <1>3 DEF Untouched, OneNamespace, SyncInv, SyncTypeOK, Namespace
  <2>2. Known(d.inst.nsUid, ns.uid)
    BY <1>1, <1>3 DEF Untouched, OneNamespace, CopyOfRow, Known
  <2>3. TakeNamespace("bind_namespace", ns) /\ UNCHANGED ns
    BY <1>3, <2>1, <2>2 DEF EnsureNamespace, TakeNamespace
  <2>4. d'.pc = "bind_namespace" /\ d'.inst = d.inst /\ d'.ns = ns' /\ d'.cr = d.cr
    BY <1>1, <2>1, <2>3, TakeNamespaceFacts DEF Pcs, DeliverySteps
  <2>5. OneNamespace'
    BY <1>1, <1>3, <2>3, <2>4 DEF Untouched, OneNamespace, EnsureNamespace
  <2>6. OneResource' /\ InOrder' /\ SecretSound'
    BY <1>1, <2>4
       DEF Untouched, OneResource, InOrder, SecretSound, EnsureNamespace, CreationHasHistory
  <2>7. CopyOfRow' /\ NoReason'
    BY <1>1, <2>4 DEF Untouched, CopyOfRow, NoReason, EnsureNamespace, CreationHasHistory
  <2>8. CopyOfResource'
    BY <1>1, <2>4
       DEF Untouched, CopyOfResource, EnsureNamespace, Delivering, DeliverySteps
  <2> QED
    BY <2>5, <2>6, <2>7, <2>8 DEF Untouched
<1> QED
  BY <1>2, <1>3

\* The row learns or knows the UID of the namespace that a loop has read.
LEMMA NamespaceBound ==
    ASSUME SyncInv, Untouched, NEW u \in Uids, BindNamespace(u), CanBindNamespace(u),
           UNCHANGED <<ns, secret, cr>>,
           \/ d.ns # Absent /\ u = d.ns.uid
           \/ u = m.ns,
           d'.ns = d.ns, d'.cr = d.cr, m'.ns = m.ns, m'.cr = m.cr,
           Delivering' => Delivering
    PROVE  OneNamespace' /\ OneResource' /\ InOrder' /\ SecretSound'
<1>1. row \in Row
  BY DEF SyncInv, SyncTypeOK
<1>2. OneNamespace'
  BY <1>1, BindNamespaceFacts DEF Untouched, OneNamespace, Known, CanBindNamespace
<1>3. OneResource' /\ InOrder' /\ SecretSound'
  BY <1>1, BindNamespaceFacts
     DEF Untouched, OneResource, InOrder, SecretSound, CreationHasHistory
<1> QED
  BY <1>2, <1>3

\* What the deliveries and deletions have read of the row stays true of it when
\* it learns a UID.
LEMMA BindKeepsCopy ==
    ASSUME SyncInv, Untouched, NEW u \in Uids,
           \/ BindNamespace(u) /\ CanBindNamespace(u)
           \/ BindCR(u) /\ CanBindCR(u) /\ u # 0
    PROVE  /\ row'.generation = row.generation /\ row'.password = row.password
           /\ row'.stage = row.stage /\ row'.recovery = row.recovery
           /\ row'.nsUid = row.nsUid \/ row.nsUid = 0
           /\ row'.crUid = row.crUid \/ row.crUid = 0
           /\ CreationHasHistory(row) => CreationHasHistory(row')
<1>1. row \in Row
  BY DEF SyncInv, SyncTypeOK
<1>2. CASE BindNamespace(u) /\ CanBindNamespace(u)
  BY <1>1, <1>2, BindNamespaceFacts DEF CanBindNamespace, Known, CreationHasHistory
<1>3. CASE BindCR(u) /\ CanBindCR(u) /\ u # 0
  BY <1>1, <1>3, BindCRFacts DEF CanBindCR, Known, CreationHasHistory
<1> QED
  BY <1>2, <1>3

LEMMA CopyKept ==
    ASSUME Untouched, d.pc # "idle", d'.inst = d.inst,
           d'.pc = "finish" => d.pc = "finish",
           row'.generation = row.generation, row'.password = row.password, row'.stage = row.stage,
           row'.nsUid = row.nsUid \/ row.nsUid = 0,
           row'.crUid = row.crUid \/ row.crUid = 0,
           CreationHasHistory(row) => CreationHasHistory(row')
    PROVE  CopyOfRow'
  BY DEF Untouched, CopyOfRow, CreationHasHistory

\* The same of the resource.
LEMMA ResourceBound ==
    ASSUME SyncInv, Untouched, NEW u \in Uids, u # 0, BindCR(u), CanBindCR(u),
           UNCHANGED <<ns, secret, cr>>,
           \/ d.cr # Absent /\ u = d.cr.uid
           \/ m.cr # Absent /\ u = m.cr.uid,
           d'.ns = d.ns, d'.cr = d.cr, m'.ns = m.ns, m'.cr = m.cr,
           Delivering' => Delivering
    PROVE  OneNamespace' /\ OneResource' /\ InOrder' /\ SecretSound'
<1>1. row \in Row
  BY DEF SyncInv, SyncTypeOK
<1>2. OneResource'
  BY <1>1, BindCRFacts DEF Untouched, OneResource, Known, CanBindCR, CreationHasHistory
<1>3. OneNamespace' /\ InOrder' /\ SecretSound'
  BY <1>1, BindCRFacts DEF Untouched, OneNamespace, InOrder, SecretSound
<1> QED
  BY <1>2, <1>3

LEMMA SaveNamespaceUidUntouched == ASSUME SyncInv, Untouched, SaveNamespaceUid PROVE Untouched'
<1>1. /\ d \in Delivery /\ row \in Row /\ ~row.deleted /\ d.pc = "bind_namespace"
      /\ d.ns.uid \in Uids /\ d.ns # Absent /\ d.cr = Absent
  BY AbsentAssumption DEF SaveNamespaceUid, SyncInv, SyncTypeOK, RowSound, Present, Namespace
<1>2. CanBindNamespace(d.ns.uid)
  BY <1>1 DEF Untouched, OneNamespace, CanBindNamespace
<1>3. BindNamespace(d.ns.uid) /\ Step("cr")
  BY <1>2 DEF SaveNamespaceUid
<1>4. d'.pc = "cr" /\ d'.inst = d.inst /\ d'.cr = d.cr /\ d'.ns = d.ns
  BY <1>1, <1>3, StepFacts DEF Pcs, DeliverySteps
<1>5. OneNamespace' /\ OneResource' /\ InOrder' /\ SecretSound'
  BY <1>1, <1>2, <1>3, <1>4, NamespaceBound DEF SaveNamespaceUid, cluster, Delivering, DeliverySteps
<1>6. CopyOfRow' /\ NoReason'
  BY <1>1, <1>2, <1>3, <1>4, BindKeepsCopy, CopyKept DEF Untouched, NoReason
<1>7. CopyOfResource'
  BY <1>1, <1>4
     DEF Untouched, CopyOfResource, SaveNamespaceUid, cluster, Delivering, DeliverySteps
<1> QED
  BY <1>5, <1>6, <1>7 DEF Untouched

LEMMA ReadCRUntouched == ASSUME SyncInv, Untouched, ReadCR PROVE Untouched'
<1>1. /\ d \in Delivery /\ row \in Row /\ d.pc = "cr" /\ d.inst \in Row
      /\ cr \in CR \cup {Absent} /\ row.stage = "none" /\ d.cr = Absent
      /\ UNCHANGED <<row, ns, secret, cr, m>>
  BY DEF ReadCR, SyncInv, SyncTypeOK, Present, ObjectsFirst, Delivering, DeliverySteps, cluster
<1>2. CASE cr = Absent
  <2>1. Step("secret")
    BY <1>1, <1>2 DEF ReadCR, Untouched, OneResource, CopyOfRow
  <2>2. d'.pc = "secret" /\ d'.inst = d.inst /\ d'.cr = d.cr /\ d'.ns = d.ns
    BY <1>1, <2>1, StepFacts DEF Pcs, DeliverySteps
  <2>3. OneNamespace' /\ OneResource' /\ InOrder' /\ SecretSound'
    BY <1>1, <1>2, <2>2
       DEF Untouched, OneNamespace, OneResource, InOrder, SecretSound, CreationHasHistory
  <2>4. CopyOfRow' /\ CopyOfResource' /\ NoReason'
    BY <1>1, <1>2, <2>2
       DEF Untouched, CopyOfRow, CopyOfResource, NoReason, CreationHasHistory
  <2> QED
    BY <2>3, <2>4 DEF Untouched
<1>3. CASE cr # Absent
  <2>1. Known(d.inst.crUid, cr.uid) /\ ~cr.deleting /\ cr \in CR
    BY <1>1, <1>3 DEF Untouched, OneResource, CopyOfRow, Known, CR
  <2>2. TakeCR("bind_cr", cr)
    BY <1>3, <2>1 DEF ReadCR, TakeCR
  <2>3. d'.pc = "bind_cr" /\ d'.inst = d.inst /\ d'.cr = cr /\ d'.ns = d.ns
    BY <1>1, <2>1, <2>2, TakeCRFacts DEF Pcs, DeliverySteps
  <2>4. OneNamespace' /\ OneResource' /\ InOrder' /\ SecretSound'
    BY <1>1, <1>3, <2>1, <2>3
       DEF Untouched, OneNamespace, OneResource, InOrder, SecretSound
  <2>5. CopyOfRow' /\ NoReason'
    BY <1>1, <2>3 DEF Untouched, CopyOfRow, NoReason, CreationHasHistory
  <2>6. CopyOfResource'
    BY <1>1, <1>3, <2>3
       DEF Untouched, CopyOfResource, Delivering, DeliverySteps
  <2> QED
    BY <2>4, <2>5, <2>6 DEF Untouched
<1> QED
  BY <1>2, <1>3

LEMMA SaveCRUidUntouched == ASSUME SyncInv, Untouched, SaveCRUid PROVE Untouched'
<1>1. /\ d \in Delivery /\ row \in Row /\ ~row.deleted /\ d.pc \in {"bind_cr", "bind_written"}
      /\ d.cr.uid \in Uids /\ d.cr # Absent /\ d.cr.uid # 0
  BY AbsentAssumption DEF SaveCRUid, SyncInv, SyncTypeOK, RowSound, Present, CR, Bound
<1>2. CanBindCR(d.cr.uid)
  BY <1>1 DEF Untouched, OneResource, CanBindCR
<1> DEFINE pc == IF d.pc = "bind_cr" THEN "secret" ELSE "clear"
<1>3. BindCR(d.cr.uid) /\ Step(pc)
  BY <1>2 DEF SaveCRUid
<1>4. d'.pc = pc /\ d'.inst = d.inst /\ d'.cr = d.cr /\ d'.ns = d.ns
  BY <1>1, <1>3, StepFacts DEF Pcs, DeliverySteps
<1>5. OneNamespace' /\ OneResource' /\ InOrder' /\ SecretSound'
  BY <1>1, <1>2, <1>3, <1>4, ResourceBound DEF SaveCRUid, cluster, Delivering, DeliverySteps
<1>6. CopyOfRow' /\ NoReason'
  BY <1>1, <1>2, <1>3, <1>4, BindKeepsCopy, CopyKept DEF Untouched, NoReason
<1>7. CopyOfResource'
  BY <1>1, <1>4
     DEF Untouched, CopyOfResource, SaveCRUid, cluster, Delivering, DeliverySteps
<1> QED
  BY <1>5, <1>6, <1>7 DEF Untouched

LEMMA SecretFormFacts ==
    /\ \A inst \in Row : /\ NewSecret(inst).hash[inst.password] = "saved"
                         /\ \A v \in Versions : NewSecret(inst).hash[v] # "foreign"
                         /\ NewSecret(inst).service = FALSE /\ NewSecret(inst).owner = 0
    /\ \A s \in Secret, v \in Versions :
          /\ WithHash(s, v).hash[v] = "saved"
          /\ \A w \in Versions : WithHash(s, v).hash[w] \in {s.hash[w], "saved"}
          /\ WithHash(s, v).service = s.service /\ WithHash(s, v).owner = s.owner
  BY DEF NewSecret, WithHash, Secret, Row

LEMMA EnsureSecretUntouched == ASSUME SyncInv, Untouched, EnsureSecret PROVE Untouched'
<1>1. /\ d \in Delivery /\ row \in Row /\ d.pc = "secret" /\ d.inst \in Row
      /\ secret \in Secret \cup {Absent} /\ row.stage = "none" /\ Delivering
      /\ d.inst.password \in Versions /\ cr \in CR \cup {Absent} /\ d.cr \in CR \cup {Absent}
  BY DEF EnsureSecret, SyncInv, SyncTypeOK, Present, ObjectsFirst, Delivering, DeliverySteps, Row,
         Delivery
<1>2. d.cr = Absent <=> cr = Absent
  BY <1>1 DEF Untouched, OneResource, CopyOfResource
<1>3. CASE Stop /\ UNCHANGED secret
  BY <1>3, EndedFacts, EndUntouched DEF EnsureSecret
<1>4. CASE secret = Absent /\ ~(Stop /\ UNCHANGED secret)
  <2>1. /\ cr = Absent /\ secret' = NewSecret(d.inst)
        /\ TakeSecret("write_cr", NewSecret(d.inst))
    BY <1>1, <1>2, <1>4 DEF EnsureSecret, Untouched, SecretSound, TakeSecret
  <2>2. /\ d'.pc = "write_cr" /\ d'.inst = d.inst /\ d'.cr = d.cr /\ d'.ns = d.ns
        /\ d'.secret = secret' /\ secret' # Absent
    BY <1>1, <2>1, TakeSecretFacts, SecretForms, AbsentAssumption DEF Pcs, DeliverySteps
  <2>3. OneNamespace' /\ OneResource' /\ InOrder'
    BY <1>1, <2>2
       DEF Untouched, OneNamespace, OneResource, InOrder, EnsureSecret, Delivering, DeliverySteps
  <2>4. SecretSound'
    BY <1>1, <2>1, SecretFormFacts DEF SecretSound, EnsureSecret
  <2>5. CopyOfRow' /\ NoReason'
    BY <1>1, <2>2 DEF Untouched, CopyOfRow, NoReason, EnsureSecret, CreationHasHistory
  <2>6. CopyOfResource'
    BY <1>1, <1>2, <2>1, <2>2, SecretFormFacts DEF CopyOfResource, EnsureSecret
  <2> QED
    BY <2>3, <2>4, <2>5, <2>6 DEF Untouched
<1>5. CASE secret # Absent
  <2>1. ~SecretUnusable
    <3>1. d.cr = Absent => ~secret.service
      BY <1>1, <1>2, <1>5 DEF Untouched, SecretSound
    <3>2. d.cr # Absent => d.cr.password = cr.password /\ (d.cr.initialized => cr.initialized)
      BY <1>1, <1>2 DEF Untouched, CopyOfResource
    <3>3. secret.hash[d.inst.password] # "foreign"
      BY <1>1, <1>5 DEF Untouched, SecretSound
    <3> QED
      BY <1>2, <3>1, <3>2, <3>3 DEF SecretUnusable, Untouched, SecretSound
  <2> DEFINE pc == IF secret.hash[d.inst.password] = "saved" THEN "write_cr" ELSE "update_secret"
  <2>2. UNCHANGED <<row, ns, secret, cr, m>> /\ TakeSecret(pc, secret) /\ secret \in Secret
    BY <1>1, <1>5, <2>1 DEF EnsureSecret, TakeSecret
  <2>3. /\ d'.pc = pc /\ d'.inst = d.inst /\ d'.cr = d.cr /\ d'.ns = d.ns
        /\ d'.secret = secret
    BY <1>1, <2>2, TakeSecretFacts DEF Pcs, DeliverySteps
  <2>4. OneNamespace' /\ OneResource' /\ InOrder' /\ SecretSound'
    BY <1>1, <2>2, <2>3
       DEF Untouched, OneNamespace, OneResource, InOrder, SecretSound, Delivering, DeliverySteps
  <2>5. CopyOfRow' /\ NoReason'
    BY <1>1, <2>2, <2>3 DEF Untouched, CopyOfRow, NoReason, CreationHasHistory
  <2>6. CopyOfResource'
    BY <1>1, <1>2, <1>5, <2>2, <2>3 DEF Untouched, CopyOfResource
  <2> QED
    BY <2>4, <2>5, <2>6 DEF Untouched
<1> QED
  BY <1>3, <1>4, <1>5

LEMMA UpdateSecretUntouched == ASSUME SyncInv, Untouched, UpdateSecret PROVE Untouched'
<1>1. /\ d \in Delivery /\ row \in Row /\ d.pc = "update_secret" /\ d.inst \in Row
      /\ d.secret \in Secret /\ row.stage = "none" /\ Delivering
      /\ d.inst.password \in Versions /\ cr \in CR \cup {Absent}
  BY DEF UpdateSecret, SyncInv, SyncTypeOK, Present, ObjectsFirst, Delivering, DeliverySteps, Row
<1>2. CASE Stop /\ UNCHANGED secret
  BY <1>2, EndedFacts, EndUntouched DEF UpdateSecret
<1>3. CASE secret = d.secret /\ ~(Stop /\ UNCHANGED secret)
  <2>1. /\ secret' = WithHash(secret, d.inst.password) /\ secret \in Secret /\ secret # Absent
        /\ TakeSecret("write_cr", secret')
    BY <1>1, <1>3, AbsentAssumption DEF UpdateSecret, TakeSecret
  <2>2. secret' \in Secret /\ secret' # Absent
    BY <1>1, <2>1, SecretForms, AbsentAssumption
  <2>3. /\ d'.pc = "write_cr" /\ d'.inst = d.inst /\ d'.cr = d.cr /\ d'.ns = d.ns
        /\ d'.secret = secret'
    BY <1>1, <2>1, <2>2, TakeSecretFacts DEF Pcs, DeliverySteps
  <2>4. OneNamespace' /\ OneResource' /\ InOrder'
    BY <1>1, <2>3
       DEF Untouched, OneNamespace, OneResource, InOrder, UpdateSecret, Delivering, DeliverySteps
  <2>5. cr # Absent => cr.password \in Versions
    BY <1>1 DEF CR
  <2>6. SecretSound'
    BY <1>1, <2>1, <2>2, <2>5, SecretFormFacts DEF Untouched, SecretSound, UpdateSecret
  <2>7. CopyOfRow' /\ NoReason'
    BY <1>1, <2>3 DEF Untouched, CopyOfRow, NoReason, UpdateSecret, CreationHasHistory
  <2>8. CopyOfResource'
    BY <1>1, <2>1, <2>2, <2>3, SecretFormFacts DEF Untouched, CopyOfResource, UpdateSecret
  <2> QED
    BY <2>4, <2>6, <2>7, <2>8 DEF Untouched
<1> QED
  BY <1>2, <1>3 DEF UpdateSecret

LEMMA CreateCRUntouched == ASSUME SyncInv, Untouched, CreateCR PROVE Untouched'
<1>1. /\ d \in Delivery /\ row \in Row /\ d.pc = "write_cr" /\ d.inst \in Row
      /\ d.cr = Absent /\ uid \in Uids /\ uid < MaxUid /\ row.stage = "none" /\ Delivering
      /\ row.crUid \in Uids
  BY DEF CreateCR, SyncInv, SyncTypeOK, Present, ObjectsFirst, Delivering, DeliverySteps, Row
<1>2. CASE Stop /\ UNCHANGED cr
  BY <1>2, EndedFacts, EndUntouched DEF CreateCR
<1>3. CASE ~(Stop /\ UNCHANGED cr)
  <2>1. cr = Absent /\ cr' = NewCR(d.inst) /\ TakeCR("bind_written", cr')
    BY <1>3 DEF CreateCR, TakeCR
  <2>2. /\ cr' \in CR /\ cr' # Absent /\ cr'.generation = d.inst.generation
        /\ cr'.password = d.inst.password /\ cr'.finalizer /\ ~cr'.deleting
        /\ cr'.acceptedPassword = 0 /\ cr'.appliedPassword = 0 /\ ~cr'.initialized
    BY <1>1, <2>1, NewCRFacts, AbsentAssumption
  <2>3. /\ d'.pc = "bind_written" /\ d'.inst = d.inst /\ d'.cr = cr' /\ d'.ns = d.ns
        /\ d'.secret = d.secret
    BY <1>1, <2>1, <2>2, TakeCRFacts DEF Pcs, DeliverySteps
  <2>4. row.crUid = 0 /\ m.cr = Absent /\ UNCHANGED <<row, ns, secret, m>>
    BY <1>1, <2>1 DEF Untouched, OneResource, CreationHasHistory, CreateCR
  <2>5. OneNamespace' /\ OneResource'
    BY <1>1, <2>2, <2>3, <2>4
       DEF Untouched, OneNamespace, OneResource, Known
  <2>6. /\ d.inst.generation <= row.generation /\ d.inst.password <= row.password
        /\ d.inst.password \in Nat
    BY <1>1 DEF Untouched, CopyOfRow, Row, Versions
  <2>7. InOrder'
    BY <2>2, <2>4, <2>6 DEF InOrder
  <2>8. SecretSound'
    <3>1. secret # Absent /\ secret.hash[cr'.password] = "saved"
      BY <1>1, <2>2 DEF Untouched, CopyOfResource
    <3> QED
      BY <1>1, <2>1, <2>2, <2>4, <3>1 DEF Untouched, SecretSound
  <2>9. CopyOfRow' /\ CopyOfResource' /\ NoReason'
    <3>1. CopyOfRow' /\ NoReason'
      BY <1>1, <2>3, <2>4 DEF Untouched, CopyOfRow, NoReason, CreationHasHistory
    <3>2. d.inst.generation \in Nat
      BY <1>1 DEF Row, Versions
    <3> QED
      BY <1>1, <2>2, <2>3, <2>6, <3>1, <3>2 DEF CopyOfResource
  <2> QED
    BY <2>5, <2>7, <2>8, <2>9 DEF Untouched
<1> QED
  BY <1>2, <1>3

LEMMA UpdateCRUntouched == ASSUME SyncInv, Untouched, UpdateCR PROVE Untouched'
<1>1. /\ d \in Delivery /\ row \in Row /\ d.pc = "write_cr" /\ d.inst \in Row
      /\ d.cr \in CR /\ d.cr # Absent /\ row.stage = "none" /\ Delivering
      /\ UNCHANGED <<row, ns, secret, m>>
  BY DEF UpdateCR, SyncInv, SyncTypeOK, Present, ObjectsFirst, Delivering, DeliverySteps, Delivery
<1>2. cr # Absent
  BY <1>1 DEF Untouched, OneResource
<1>3. CASE Stop /\ UNCHANGED cr
  BY <1>1, <1>3, EndedFacts, EndUntouched
<1>4. /\ ~d.cr.deleting /\ d.cr.generation <= d.inst.generation /\ d.cr.password <= d.inst.password
      /\ d.secret.hash[d.inst.password] # "none"
  BY <1>1, <1>2 DEF Untouched, OneResource, CopyOfResource
<1>5. ~(d.cr.generation > d.inst.generation) /\ ~(d.cr.password > d.inst.password)
  BY <1>1, <1>4 DEF CR, Row, Versions
<1>6. CASE Step("bind_written") /\ UNCHANGED cr
  <2>1. d'.pc = "bind_written" /\ d'.inst = d.inst /\ d'.cr = d.cr /\ d'.ns = d.ns
    BY <1>1, <1>6, StepFacts DEF Pcs, DeliverySteps
  <2>2. OneNamespace' /\ OneResource' /\ InOrder' /\ SecretSound'
    BY <1>1, <1>6, <2>1 DEF Untouched, OneNamespace, OneResource, InOrder, SecretSound, Delivering
  <2>3. CopyOfRow' /\ CopyOfResource' /\ NoReason'
    BY <1>1, <1>6, <2>1 DEF Untouched, CopyOfRow, CopyOfResource, NoReason
  <2> QED
    BY <2>2, <2>3 DEF Untouched
<1>7. CASE cr = d.cr /\ cr' = UpdatedCR(d.cr, d.inst) /\ TakeCR("bind_written", cr')
  <2>1. /\ cr' \in CR /\ cr' # Absent /\ cr'.uid = cr.uid /\ cr'.generation = d.inst.generation
        /\ cr'.password = d.inst.password /\ cr'.finalizer /\ cr'.deleting = cr.deleting
        /\ cr'.acceptedPassword = cr.acceptedPassword /\ cr'.appliedPassword = cr.appliedPassword
        /\ cr'.initialized = cr.initialized
    BY <1>1, <1>7, UpdatedCRFacts, AbsentAssumption
  <2>2. d'.pc = "bind_written" /\ d'.inst = d.inst /\ d'.cr = cr' /\ d'.ns = d.ns
    BY <1>1, <1>7, <2>1, TakeCRFacts DEF Pcs, DeliverySteps
  <2>3. OneNamespace' /\ OneResource'
    BY <1>1, <1>2, <1>4, <1>7, <2>1, <2>2 DEF Untouched, OneNamespace, OneResource, Delivering
  <2>4. /\ d.inst.generation <= row.generation /\ d.inst.password <= row.password
        /\ d.inst.password \in Nat /\ d.inst.generation \in Nat
        /\ cr.acceptedPassword \in Nat /\ cr.password \in Nat
    BY <1>1, <1>7 DEF Untouched, CopyOfRow, Row, CR, Versions
  <2>5. InOrder'
    BY <1>1, <1>2, <1>4, <1>7, <2>1, <2>4 DEF Untouched, InOrder
  <2>6. SecretSound'
    <3>1. secret # Absent /\ secret.hash[cr'.password] = "saved"
      BY <1>1, <2>1 DEF Untouched, CopyOfResource
    <3> QED
      BY <1>1, <1>2, <2>1, <3>1 DEF Untouched, SecretSound
  <2>7. CopyOfRow' /\ NoReason'
    BY <1>1, <2>2 DEF Untouched, CopyOfRow, NoReason
  <2>8. CopyOfResource'
    BY <1>1, <2>1, <2>2, <2>4 DEF CopyOfResource
  <2> QED
    BY <2>3, <2>5, <2>6, <2>7, <2>8 DEF Untouched
<1> QED
  BY <1>3, <1>4, <1>5, <1>6, <1>7 DEF UpdateCR, TakeCR

LEMMA ClearRecoveryUntouched == ASSUME SyncInv, Untouched, ClearRecovery PROVE Untouched'
<1>1. Ended /\ d'.pc = "idle" /\ "none" \in Reasons /\ row \in Row /\ ~row.deleted
      /\ UNCHANGED <<ns, secret, cr, m>>
  BY EndedFacts DEF ClearRecovery, SyncInv, SyncTypeOK, RowSound, Reasons, cluster
<1>2. SetSyncRecoveryReason("none")
  BY <1>1 DEF ClearRecovery
<1>3. OneNamespace'
  BY <1>1, <1>2, SetReasonFacts DEF Untouched, OneNamespace, Ended
<1>4. OneResource'
  BY <1>1, <1>2, SetReasonFacts
     DEF Untouched, OneResource, Ended, Delivering, DeliverySteps, CreationHasHistory
<1>5. InOrder' /\ SecretSound'
  BY <1>1, <1>2, SetReasonFacts DEF Untouched, InOrder, SecretSound
<1>6. CopyOfRow' /\ CopyOfResource' /\ NoReason'
  BY <1>1, <1>2, SetReasonFacts
     DEF Untouched, CopyOfRow, CopyOfResource, NoReason, Delivering, DeliverySteps
<1> QED
  BY <1>3, <1>4, <1>5, <1>6 DEF Untouched

\* A step of the deletion that only reads.
LEMMA DeletionReads ==
    ASSUME SyncInv, Untouched, d.pc \notin {"idle", "report"}, ~Delivering, NEW pc \in DeletionSteps,
           d'.pc = pc, d'.inst = d.inst, UNCHANGED <<row, ns, secret, cr, m>>,
           d'.ns = d.ns \/ (ns # Absent /\ d'.ns = ns), d'.cr = d.cr \/ (cr # Absent /\ d'.cr = cr),
           pc = "finish" => d.pc = "finish" \/ row.stage = d.inst.stage
    PROVE  Untouched'
<1>1. pc # "idle" /\ pc # "report" /\ ~Delivering'
  BY DEF DeletionSteps, Delivering, DeliverySteps
<1>2. OneNamespace'
  BY DEF Untouched, OneNamespace
<1>3. OneResource'
  BY <1>1 DEF Untouched, OneResource, CreationHasHistory
<1>4. InOrder' /\ SecretSound'
  BY DEF Untouched, InOrder, SecretSound
<1>5. CopyOfRow'
  BY DEF Untouched, CopyOfRow, CreationHasHistory
<1>6. CopyOfResource' /\ NoReason'
  BY <1>1 DEF Untouched, CopyOfResource, NoReason, DeletionSteps
<1> QED
  BY <1>2, <1>3, <1>4, <1>5, <1>6 DEF Untouched

LEMMA ReadDeletionNamespaceUntouched ==
    ASSUME SyncInv, Untouched, ReadDeletionNamespace PROVE Untouched'
<1>1. /\ d \in Delivery /\ d.pc = "del_namespace" /\ d.inst \in Row /\ ~Delivering
      /\ ns \in Namespace \cup {Absent} /\ row.stage = d.inst.stage
      /\ UNCHANGED <<row, ns, secret, cr, m>>
  BY DEF ReadDeletionNamespace, SyncInv, SyncTypeOK, Present, ObjectsFirst, cluster, Delivering,
         DeliverySteps
<1>2. CASE ns = Absent
  <2>1. d'.pc = "finish" /\ d'.inst = d.inst /\ d'.cr = d.cr /\ d'.ns = d.ns
    BY <1>1, <1>2, StepFacts DEF ReadDeletionNamespace, Pcs, DeletionSteps
  <2> QED
    BY <1>1, <2>1, DeletionReads DEF DeletionSteps
<1>3. CASE ns # Absent
  <2>1. Known(d.inst.nsUid, ns.uid)
    BY <1>1, <1>3 DEF Untouched, OneNamespace, CopyOfRow, Known
  <2>2. TakeNamespace("del_bind_namespace", ns) /\ ns \in Namespace
    BY <1>1, <1>3, <2>1 DEF ReadDeletionNamespace, TakeNamespace
  <2>3. d'.pc = "del_bind_namespace" /\ d'.inst = d.inst /\ d'.cr = d.cr /\ d'.ns = ns
    BY <1>1, <2>2, TakeNamespaceFacts DEF Pcs, DeletionSteps
  <2> QED
    BY <1>1, <1>3, <2>3, DeletionReads DEF DeletionSteps
<1> QED
  BY <1>2, <1>3

LEMMA SaveDeletionNamespaceUidUntouched ==
    ASSUME SyncInv, Untouched, SaveDeletionNamespaceUid PROVE Untouched'
<1>1. /\ d \in Delivery /\ row \in Row /\ ~row.deleted /\ d.pc = "del_bind_namespace"
      /\ d.ns.uid \in Uids /\ d.ns # Absent
  BY AbsentAssumption DEF SaveDeletionNamespaceUid, SyncInv, SyncTypeOK, RowSound, Present, Namespace
<1>2. CanBindNamespace(d.ns.uid)
  BY <1>1 DEF Untouched, OneNamespace, CanBindNamespace
<1> DEFINE pc == IF d.inst.stage = "namespace_prepared" THEN "delete_namespace" ELSE "del_cr"
<1>3. BindNamespace(d.ns.uid) /\ Step(pc)
  BY <1>2 DEF SaveDeletionNamespaceUid
<1>4. d'.pc = pc /\ d'.inst = d.inst /\ d'.cr = d.cr /\ d'.ns = d.ns
  BY <1>1, <1>3, StepFacts DEF Pcs, DeletionSteps
<1>5. ~Delivering'
  BY <1>4 DEF Delivering, DeliverySteps
<1>6. OneNamespace' /\ OneResource' /\ InOrder' /\ SecretSound'
  BY <1>1, <1>2, <1>3, <1>4, <1>5, NamespaceBound DEF SaveDeletionNamespaceUid, cluster
<1>7. CopyOfRow' /\ NoReason'
  BY <1>1, <1>2, <1>3, <1>4, BindKeepsCopy, CopyKept DEF Untouched, NoReason
<1>8. CopyOfResource'
  BY <1>4, <1>5 DEF CopyOfResource
<1> QED
  BY <1>6, <1>7, <1>8 DEF Untouched

LEMMA ReadDeletionCRUntouched == ASSUME SyncInv, Untouched, ReadDeletionCR PROVE Untouched'
<1>1. /\ d \in Delivery /\ d.pc = "del_cr" /\ d.inst \in Row /\ ~Delivering
      /\ cr \in CR \cup {Absent} /\ UNCHANGED <<row, ns, secret, cr, m>>
      /\ WithoutCR \in {"cancel", "prepare_namespace"}
  BY DEF ReadDeletionCR, SyncInv, SyncTypeOK, Present, cluster, Delivering, DeliverySteps, WithoutCR
<1>2. CASE cr = Absent
  <2>1. d'.pc = WithoutCR /\ d'.inst = d.inst /\ d'.cr = d.cr /\ d'.ns = d.ns
    BY <1>1, <1>2, StepFacts DEF ReadDeletionCR, Pcs, DeletionSteps
  <2> QED
    BY <1>1, <2>1, DeletionReads DEF DeletionSteps
<1>3. CASE cr # Absent
  <2>1. Known(d.inst.crUid, cr.uid)
    BY <1>1, <1>3 DEF Untouched, OneResource, CopyOfRow, Known
  <2>2. TakeCR("del_bind_cr", cr) /\ cr \in CR
    BY <1>1, <1>3, <2>1 DEF ReadDeletionCR, TakeCR
  <2>3. d'.pc = "del_bind_cr" /\ d'.inst = d.inst /\ d'.cr = cr /\ d'.ns = d.ns
    BY <1>1, <2>2, TakeCRFacts DEF Pcs, DeletionSteps
  <2> QED
    BY <1>1, <1>3, <2>3, DeletionReads DEF DeletionSteps
<1> QED
  BY <1>2, <1>3

LEMMA SaveDeletionCRUidUntouched == ASSUME SyncInv, Untouched, SaveDeletionCRUid PROVE Untouched'
<1>1. /\ d \in Delivery /\ row \in Row /\ ~row.deleted /\ d.pc = "del_bind_cr"
      /\ d.cr.uid \in Uids /\ d.cr # Absent /\ d.cr.uid # 0
  BY AbsentAssumption DEF SaveDeletionCRUid, SyncInv, SyncTypeOK, RowSound, Present, CR, Bound
<1>2. CanBindCR(d.cr.uid) /\ d.cr.finalizer
  BY <1>1 DEF Untouched, OneResource, CanBindCR
<1>3. BindCR(d.cr.uid) /\ Step("prepare_cr")
  BY <1>2 DEF SaveDeletionCRUid
<1>4. d'.pc = "prepare_cr" /\ d'.inst = d.inst /\ d'.cr = d.cr /\ d'.ns = d.ns
  BY <1>1, <1>3, StepFacts DEF Pcs, DeletionSteps
<1>5. ~Delivering'
  BY <1>4 DEF Delivering, DeliverySteps
<1>6. OneNamespace' /\ OneResource' /\ InOrder' /\ SecretSound'
  BY <1>1, <1>2, <1>3, <1>4, <1>5, ResourceBound DEF SaveDeletionCRUid, cluster
<1>7. CopyOfRow' /\ NoReason'
  BY <1>1, <1>2, <1>3, <1>4, BindKeepsCopy, CopyKept DEF Untouched, NoReason
<1>8. CopyOfResource'
  BY <1>4, <1>5 DEF CopyOfResource
<1> QED
  BY <1>6, <1>7, <1>8 DEF Untouched

LEMMA SaveFreshCRUidUntouched == ASSUME SyncInv, Untouched, SaveFreshCRUid PROVE Untouched'
<1>1. /\ d \in Delivery /\ row \in Row /\ ~row.deleted /\ d.pc = "fresh_bind"
      /\ d.cr.uid \in Uids /\ d.cr # Absent /\ d.cr.uid # 0
  BY AbsentAssumption DEF SaveFreshCRUid, SyncInv, SyncTypeOK, RowSound, Present, CR, Bound
<1>2. CanBindCR(d.cr.uid)
  BY <1>1 DEF Untouched, OneResource, CanBindCR
<1>3. BindCR(d.cr.uid) /\ (Stop \/ Step("delete_cr")) /\ UNCHANGED <<ns, secret, cr, m>>
  BY <1>2 DEF SaveFreshCRUid, cluster
<1>4. \/ d'.pc = "delete_cr" /\ d'.inst = d.inst /\ d'.cr = d.cr /\ d'.ns = d.ns
      \/ d'.pc = "idle" /\ d'.cr = Absent /\ d'.ns = Absent
  BY <1>1, <1>3, StepFacts, EndedFacts DEF Pcs, DeletionSteps, Ended
<1>5. ~Delivering'
  BY <1>4 DEF Delivering, DeliverySteps
<1>6. OneNamespace'
  BY <1>1, <1>2, <1>3, <1>4, BindCRFacts DEF Untouched, OneNamespace
<1>7. OneResource'
  BY <1>1, <1>2, <1>3, <1>4, <1>5, BindCRFacts
     DEF Untouched, OneResource, Known, CanBindCR, CreationHasHistory
<1>8. InOrder' /\ SecretSound'
  BY <1>1, <1>3, BindCRFacts DEF Untouched, InOrder, SecretSound
<1>9. CopyOfRow' /\ NoReason'
  BY <1>1, <1>2, <1>3, <1>4, BindKeepsCopy, CopyKept DEF Untouched, NoReason, CopyOfRow
<1>10. CopyOfResource'
  BY <1>4, <1>5 DEF CopyOfResource
<1> QED
  BY <1>6, <1>7, <1>8, <1>9, <1>10 DEF Untouched

LEMMA ReadFreshRowUntouched == ASSUME SyncInv, Untouched, ReadFreshRow PROVE Untouched'
<1>1. /\ d \in Delivery /\ row \in Row /\ d.pc = "fresh" /\ UNCHANGED <<row, ns, secret, cr, m>>
  BY DEF ReadFreshRow, SyncInv, SyncTypeOK, cluster
<1>2. CASE Stop
  BY <1>1, <1>2, EndedFacts, EndUntouched
<1>3. CASE d' = [d EXCEPT !.pc = "fresh_cr", !.inst = row, !.cr = Absent]
  <2>1. d'.pc = "fresh_cr" /\ d'.inst = row /\ d'.cr = Absent /\ d'.ns = d.ns
    BY <1>1, <1>3 DEF Delivery
  <2>2. ~Delivering' /\ row.generation \in Nat /\ row.password \in Nat
    BY <1>1, <2>1 DEF Delivering, DeliverySteps, Row, Versions
  <2>3. OneNamespace' /\ OneResource'
    BY <1>1, <2>1, <2>2 DEF Untouched, OneNamespace, OneResource, CreationHasHistory
  <2>4. InOrder' /\ SecretSound'
    BY <1>1 DEF Untouched, InOrder, SecretSound
  <2>5. CopyOfRow' /\ CopyOfResource' /\ NoReason'
    BY <1>1, <2>1, <2>2 DEF Untouched, CopyOfRow, CopyOfResource, NoReason, CreationHasHistory
  <2> QED
    BY <2>3, <2>4, <2>5 DEF Untouched
<1> QED
  BY <1>2, <1>3 DEF ReadFreshRow

LEMMA ReadFreshCRUntouched == ASSUME SyncInv, Untouched, ReadFreshCR PROVE Untouched'
<1>1. /\ d \in Delivery /\ d.pc = "fresh_cr" /\ UNCHANGED <<row, ns, secret, cr, m>>
      /\ cr \in CR \cup {Absent} /\ ~Delivering
  BY DEF ReadFreshCR, SyncInv, SyncTypeOK, cluster, Delivering, DeliverySteps
<1>2. CASE Stop
  BY <1>1, <1>2, EndedFacts, EndUntouched
<1>3. CASE cr # Absent /\ TakeCR("fresh_bind", cr)
  <2>1. d'.pc = "fresh_bind" /\ d'.inst = d.inst /\ d'.cr = cr /\ d'.ns = d.ns
    BY <1>1, <1>3, TakeCRFacts DEF Pcs, DeletionSteps
  <2> QED
    BY <1>1, <1>3, <2>1, DeletionReads DEF DeletionSteps
<1> QED
  BY <1>2, <1>3 DEF ReadFreshCR, TakeCR

\* The finalizer holds the resource back: it is only marked, and its deletion
\* has been prepared.
LEMMA DeleteCRUntouched == ASSUME SyncInv, Untouched, DeleteCR PROVE Untouched'
<1>1. /\ Ended /\ d'.pc = "idle" /\ cr \in CR \cup {Absent} /\ d.cr \in CR /\ d.cr # Absent
      /\ row.stage = "cr_prepared" /\ UNCHANGED <<row, ns, secret, m>>
  BY EndedFacts, AbsentAssumption DEF DeleteCR, SyncInv, SyncTypeOK, Present, ObjectsFirst
<1>2. CASE cr # d.cr
  BY <1>1, <1>2, EndUntouched DEF DeleteCR
<1>3. CASE cr = d.cr
  <2>1. /\ cr' \in CR /\ cr'.uid = cr.uid /\ cr'.deleting /\ cr'.finalizer
        /\ cr'.generation = cr.generation /\ cr'.password = cr.password
        /\ cr'.acceptedPassword = cr.acceptedPassword /\ cr'.appliedPassword = cr.appliedPassword
        /\ cr'.initialized = cr.initialized
    BY <1>1, <1>3, RemovedFacts DEF DeleteCR, Untouched, OneResource
  <2>2. cr' # Absent /\ ~Delivering'
    BY <1>1, <2>1, AbsentAssumption DEF Delivering, DeliverySteps
  <2>3. OneNamespace' /\ OneResource'
    BY <1>1, <1>3, <2>1, <2>2 DEF Untouched, OneNamespace, OneResource, Ended
  <2>4. InOrder' /\ SecretSound'
    BY <1>1, <1>3, <2>1, <2>2 DEF Untouched, InOrder, SecretSound
  <2>5. CopyOfRow' /\ CopyOfResource' /\ NoReason'
    BY <1>1, <2>2 DEF Untouched, CopyOfRow, CopyOfResource, NoReason
  <2> QED
    BY <2>3, <2>4, <2>5 DEF Untouched
<1> QED
  BY <1>2, <1>3

\* Without a resource the row has no history unless a deletion was prepared.
LEMMA CancelCreationUntouched == ASSUME SyncInv, Untouched, CancelCreation PROVE Untouched'
<1>1. /\ d \in Delivery /\ d.pc = "cancel" /\ UNCHANGED <<row, ns, secret, cr, m>>
      /\ cr = Absent /\ row.stage = "none" /\ ~Delivering
  BY DEF CancelCreation, SyncInv, SyncTypeOK, ObjectsFirst, cluster, Delivering, DeliverySteps
<1>2. ~CreationHasHistory(d.inst)
  BY <1>1 DEF Untouched, OneResource, CopyOfRow
<1>3. ~(secret # Absent /\ secret.service)
  BY <1>1 DEF Untouched, SecretSound
<1>4. d'.pc = "prepare_namespace" /\ d'.inst = d.inst /\ d'.cr = d.cr /\ d'.ns = d.ns
  BY <1>1, <1>2, <1>3, StepFacts DEF CancelCreation, Pcs, DeletionSteps
<1> QED
  BY <1>1, <1>4, DeletionReads DEF DeletionSteps

\* The row moves on to a stage of the deletion.
LEMMA PrepareUntouched ==
    ASSUME SyncInv, Untouched, NEW stage \in {"cr_prepared", "namespace_prepared"},
           NEW n \in Uids, NEW c \in Uids, CanPrepare(stage, n, c), Prepare(stage, n, c),
           stage = "namespace_prepared" => cr = Absent,
           n # 0 => (d.ns # Absent /\ n = d.ns.uid) \/ n = row.nsUid,
           c # 0 => (d.cr # Absent /\ c = d.cr.uid) \/ c = row.crUid,
           UNCHANGED <<ns, secret, cr, m>>, d.pc \notin {"idle", "report"},
           \/ d'.pc = "idle" /\ d'.ns = Absent /\ d'.cr = Absent
           \/ /\ d'.pc \in {"fresh", "delete_namespace", "complete"}
              /\ d'.inst = d.inst /\ d'.ns = d.ns /\ d'.cr = d.cr
    PROVE  Untouched'
<1>1. row \in Row /\ stage \in Stages /\ ~Delivering' /\ d'.pc # "finish"
  BY DEF SyncInv, SyncTypeOK, Stages, Delivering, DeliverySteps
<1>2. /\ row'.stage = stage /\ row'.generation = row.generation /\ row'.password = row.password
      /\ row'.recovery = row.recovery /\ row'.observed = row.observed
      /\ row'.observedGeneration = row.observedGeneration
      /\ row'.appliedPassword = row.appliedPassword
      /\ row'.nsUid = row.nsUid \/ (n # 0 /\ row'.nsUid = n)
      /\ row'.crUid = row.crUid \/ (c # 0 /\ row'.crUid = c)
  <2>1. row'.nsUid \in {row.nsUid, n} /\ (row'.nsUid = 0 => row.nsUid = 0)
    BY <1>1, PrepareFacts
  <2>2. row'.crUid \in {row.crUid, c} /\ (row'.crUid = 0 => row.crUid = 0)
    BY <1>1, PrepareFacts
  <2> QED
    BY <1>1, <2>1, <2>2, PrepareFacts
<1>3. (n # 0 => row.nsUid \in {0, n}) /\ (c # 0 => row.crUid \in {0, c})
  BY DEF CanPrepare, Known
<1>4. row'.nsUid = row.nsUid \/ (row.nsUid = 0 /\ d.ns # Absent /\ row'.nsUid = d.ns.uid)
  BY <1>2, <1>3
<1>5. row'.crUid = row.crUid \/ (row.crUid = 0 /\ d.cr # Absent /\ row'.crUid = d.cr.uid /\ c # 0)
  BY <1>2, <1>3
<1>6. row.stage # "namespace_prepared" \/ stage = "namespace_prepared"
  BY DEF CanPrepare
<1>7. OneNamespace'
  BY <1>2, <1>4, <1>6 DEF Untouched, OneNamespace, Known
<1>8. OneResource'
  <2>1. cr # Absent => stage = "cr_prepared"
    OBVIOUS
  <2> QED
    BY <1>1, <1>2, <1>5, <1>6, <2>1 DEF Untouched, OneResource, Known
<1>9. InOrder' /\ SecretSound'
  BY <1>2 DEF Untouched, InOrder, SecretSound
<1>10. CopyOfRow' /\ CopyOfResource' /\ NoReason'
  BY <1>1, <1>2, <1>4, <1>5 DEF Untouched, CopyOfRow, CopyOfResource, NoReason, CreationHasHistory
<1> QED
  BY <1>7, <1>8, <1>9, <1>10 DEF Untouched

LEMMA PrepareCRDeletionUntouched == ASSUME SyncInv, Untouched, PrepareCRDeletion PROVE Untouched'
<1>1. /\ d \in Delivery /\ d.pc = "prepare_cr" /\ d.ns \in Namespace /\ d.cr \in CR
      /\ d.ns.uid \in Uids /\ d.cr.uid \in Uids /\ d.ns # Absent /\ d.cr # Absent
      /\ UNCHANGED <<ns, secret, cr, m>>
  BY AbsentAssumption DEF PrepareCRDeletion, SyncInv, SyncTypeOK, Present, CR, Namespace, cluster
<1>2. CASE UNCHANGED row /\ Stop
  BY <1>1, <1>2, EndedFacts, EndUntouched
<1>3. CASE /\ CanPrepare("cr_prepared", d.ns.uid, d.cr.uid)
           /\ Prepare("cr_prepared", d.ns.uid, d.cr.uid) /\ (Stop \/ Step("fresh"))
  <2>1. \/ d'.pc = "idle" /\ d'.ns = Absent /\ d'.cr = Absent
        \/ d'.pc = "fresh" /\ d'.inst = d.inst /\ d'.ns = d.ns /\ d'.cr = d.cr
    BY <1>1, <1>3, StepFacts, EndedFacts DEF Pcs, DeletionSteps, Ended
  <2> QED
    BY <1>1, <1>3, <2>1, PrepareUntouched
<1> QED
  BY <1>2, <1>3 DEF PrepareCRDeletion

LEMMA PrepareNamespaceDeletionUntouched ==
    ASSUME SyncInv, Untouched, PrepareNamespaceDeletion PROVE Untouched'
<1>1. /\ d \in Delivery /\ d.pc = "prepare_namespace" /\ d.ns \in Namespace /\ cr = Absent
      /\ d.ns.uid \in Uids /\ d.inst.crUid \in Uids /\ d.ns # Absent
      /\ UNCHANGED <<ns, secret, cr, m>>
  BY AbsentAssumption
     DEF PrepareNamespaceDeletion, SyncInv, SyncTypeOK, Present, ObjectsFirst, Row, Namespace, cluster
<1>2. CASE UNCHANGED row /\ Stop
  BY <1>1, <1>2, EndedFacts, EndUntouched
<1>3. CASE /\ CanPrepare("namespace_prepared", d.ns.uid, d.inst.crUid)
           /\ Prepare("namespace_prepared", d.ns.uid, d.inst.crUid) /\ Step("delete_namespace")
  <2>1. d'.pc = "delete_namespace" /\ d'.inst = d.inst /\ d'.ns = d.ns /\ d'.cr = d.cr
    BY <1>1, <1>3, StepFacts DEF Pcs, DeletionSteps
  <2>2. d.inst.crUid # 0 => d.inst.crUid = row.crUid
    BY <1>1 DEF Untouched, CopyOfRow
  <2> QED
    BY <1>1, <1>3, <2>1, <2>2, PrepareUntouched
<1> QED
  BY <1>2, <1>3 DEF PrepareNamespaceDeletion

LEMMA FinishWithoutNamespaceUntouched ==
    ASSUME SyncInv, Untouched, FinishWithoutNamespace PROVE Untouched'
<1>1. /\ d \in Delivery /\ d.pc = "finish" /\ ns = Absent /\ cr = Absent
      /\ d.inst.nsUid \in Uids /\ d.inst.crUid \in Uids /\ ~Delivering
      /\ UNCHANGED <<ns, secret, cr, m>>
  BY DEF FinishWithoutNamespace, SyncInv, SyncTypeOK, Present, ObjectsFirst, Row, cluster,
         Delivering, DeliverySteps
<1>2. CASE UNCHANGED row /\ Stop
  BY <1>1, <1>2, EndedFacts, EndUntouched
<1>3. ~(d.inst.stage = "none" /\ CreationHasHistory(d.inst))
  BY <1>1 DEF Untouched, OneResource, CopyOfRow
<1>4. CASE UNCHANGED row /\ Step("complete")
  <2>1. d'.pc = "complete" /\ d'.inst = d.inst /\ d'.ns = d.ns /\ d'.cr = d.cr
    BY <1>1, <1>4, StepFacts DEF Pcs, DeletionSteps
  <2> QED
    BY <1>1, <1>4, <2>1, DeletionReads DEF DeletionSteps
<1>5. CASE /\ CanPrepare("namespace_prepared", d.inst.nsUid, d.inst.crUid)
           /\ Prepare("namespace_prepared", d.inst.nsUid, d.inst.crUid) /\ Step("complete")
  <2>1. d'.pc = "complete" /\ d'.inst = d.inst /\ d'.ns = d.ns /\ d'.cr = d.cr
    BY <1>1, <1>5, StepFacts DEF Pcs, DeletionSteps
  <2>2. /\ d.inst.nsUid # 0 => d.inst.nsUid = row.nsUid
        /\ d.inst.crUid # 0 => d.inst.crUid = row.crUid
    BY <1>1 DEF Untouched, CopyOfRow
  <2> QED
    BY <1>1, <1>5, <2>1, <2>2, PrepareUntouched
<1> QED
  BY <1>2, <1>3, <1>4, <1>5 DEF FinishWithoutNamespace

LEMMA DeletePreparedNamespaceUntouched ==
    ASSUME SyncInv, Untouched, DeletePreparedNamespace PROVE Untouched'
<1>1. Ended /\ d'.pc = "idle" /\ d.ns \in Namespace /\ UNCHANGED <<row, secret, cr, m>>
  BY EndedFacts DEF DeletePreparedNamespace, SyncInv, Present
<1>2. CASE UNCHANGED ns
  BY <1>1, <1>2, EndUntouched
<1>3. CASE row.stage = "namespace_prepared" /\ ns = d.ns /\ ns' = [ns EXCEPT !.terminating = TRUE]
  <2>1. ns' \in Namespace /\ ns'.uid = ns.uid /\ ns # Absent /\ ns' # Absent
    BY <1>1, <1>3, AbsentAssumption DEF Namespace
  <2>2. ~Delivering'
    BY <1>1 DEF Delivering, DeliverySteps
  <2>3. OneNamespace'
    BY <1>1, <1>3, <2>1 DEF Untouched, OneNamespace, Ended
  <2>4. OneResource' /\ InOrder' /\ SecretSound'
    BY <1>1, <1>3, <2>2 DEF Untouched, OneResource, InOrder, SecretSound, Ended
  <2>5. CopyOfRow' /\ CopyOfResource' /\ NoReason'
    BY <1>1, <2>2 DEF Untouched, CopyOfRow, CopyOfResource, NoReason
  <2> QED
    BY <2>3, <2>4, <2>5 DEF Untouched
<1> QED
  BY <1>2, <1>3 DEF DeletePreparedNamespace

LEMMA CompleteDeletionUntouched == ASSUME SyncInv, Untouched, CompleteDeletion PROVE Untouched'
<1>1. Ended /\ d'.pc = "idle" /\ row \in Row /\ UNCHANGED <<ns, secret, cr, m>>
  BY EndedFacts DEF CompleteDeletion, SyncInv, SyncTypeOK, cluster
<1>2. /\ row'.generation = row.generation /\ row'.password = row.password /\ row'.stage = row.stage
      /\ row'.nsUid = row.nsUid /\ row'.crUid = row.crUid /\ row'.recovery = row.recovery
      /\ row'.observed = row.observed /\ row'.observedGeneration = row.observedGeneration
      /\ row'.appliedPassword = row.appliedPassword
  BY <1>1 DEF CompleteDeletion, Row
<1>3. ~Delivering'
  BY <1>1 DEF Delivering, DeliverySteps
<1>4. OneNamespace' /\ OneResource'
  BY <1>1, <1>2, <1>3 DEF Untouched, OneNamespace, OneResource, Ended, CreationHasHistory
<1>5. InOrder' /\ SecretSound'
  BY <1>1, <1>2 DEF Untouched, InOrder, SecretSound
<1>6. CopyOfRow' /\ CopyOfResource' /\ NoReason'
  BY <1>1, <1>2, <1>3 DEF Untouched, CopyOfRow, CopyOfResource, NoReason
<1> QED
  BY <1>4, <1>5, <1>6 DEF Untouched

\* The import reads; what it has read is of the one namespace and the one
\* resource.
LEMMA ImportReads ==
    ASSUME Untouched, UNCHANGED <<row, ns, secret, cr, d>>,
           m'.ns = m.ns \/ m'.ns = 0 \/ (ns # Absent /\ m'.ns = ns.uid),
           m'.cr = m.cr \/ m'.cr = Absent \/ (cr # Absent /\ m'.cr = cr)
    PROVE  Untouched'
<1>1. OneNamespace'
  BY DEF Untouched, OneNamespace, Known
<1>2. OneResource'
  BY DEF Untouched, OneResource, Delivering, CreationHasHistory
<1>3. InOrder' /\ SecretSound' /\ CopyOfRow' /\ CopyOfResource' /\ NoReason'
  BY DEF Untouched, InOrder, SecretSound, CopyOfRow, CopyOfResource, NoReason, Delivering,
         CreationHasHistory
<1> QED
  BY <1>1, <1>2, <1>3 DEF Untouched

LEMMA ImportUntouched == ASSUME SyncInv, Untouched, ImportInstance PROVE Untouched'
<1>1. m \in Import /\ row \in Row
  BY DEF SyncInv, SyncTypeOK
<1>2. CASE ImportBegin \/ ImportNamespace \/ ImportCR
  <2>1. UNCHANGED <<row, ns, secret, cr, d>>
    BY <1>2 DEF ImportBegin, ImportNamespace, ImportCR, cluster
  <2>2. /\ m'.ns = m.ns \/ m'.ns = 0 \/ (ns # Absent /\ m'.ns = ns.uid)
        /\ m'.cr = m.cr \/ m'.cr = Absent \/ (cr # Absent /\ m'.cr = cr)
    <3>1. CASE m' = NoImport
      BY <3>1, NoImportFacts
    <3>2. CASE m' = [m EXCEPT !.pc = "namespace", !.inst = row]
      BY <1>1, <3>2 DEF Import
    <3>3. CASE ns # Absent /\ m' = [m EXCEPT !.pc = "bind_namespace", !.ns = ns.uid]
      BY <1>1, <3>3 DEF Import
    <3>4. CASE cr # Absent /\ m' = [m EXCEPT !.pc = "bind_cr", !.inst = Absent, !.cr = cr]
      BY <1>1, <3>4 DEF Import
    <3> QED
      BY <1>2, <3>1, <3>2, <3>3, <3>4 DEF ImportBegin, ImportNamespace, ImportCR
  <2> QED
    BY <2>1, <2>2, ImportReads
<1>3. CASE ImportSaveNamespaceUid
  <2>1. UNCHANGED <<ns, secret, cr, d>> /\ m.ns \in Uids /\ Delivering' = Delivering
    BY <1>1, <1>3 DEF ImportSaveNamespaceUid, cluster, Import, Delivering
  <2>2. CASE UNCHANGED row /\ m' = NoImport
    BY <2>1, <2>2, NoImportFacts, ImportReads
  <2>3. CASE CanBindNamespace(m.ns) /\ BindNamespace(m.ns) /\ m' = [m EXCEPT !.pc = "cr"]
    <3>1. m'.ns = m.ns /\ m'.cr = m.cr
      BY <1>1, <2>3 DEF Import
    <3>2. OneNamespace' /\ OneResource' /\ InOrder' /\ SecretSound'
      BY <2>1, <2>3, <3>1, NamespaceBound
    <3>3. CopyOfRow' /\ NoReason'
      BY <2>1, <2>3, BindKeepsCopy, CopyKept DEF Untouched, NoReason, CopyOfRow
    <3>4. CopyOfResource'
      BY <2>1 DEF Untouched, CopyOfResource
    <3> QED
      BY <3>2, <3>3, <3>4 DEF Untouched
  <2> QED
    BY <1>3, <2>2, <2>3 DEF ImportSaveNamespaceUid
<1>4. CASE ImportSaveCRUid
  <2>1. /\ UNCHANGED <<ns, secret, cr, d>> /\ Delivering' = Delivering
        /\ m.cr.uid \in Uids /\ m.cr # Absent /\ m.cr.uid # 0
    BY <1>4, AbsentAssumption DEF ImportSaveCRUid, cluster, SyncInv, Present, Bound, CR, Delivering
  <2>2. CASE UNCHANGED row /\ m' = NoImport
    BY <2>1, <2>2, NoImportFacts, ImportReads
  <2>3. CASE CanBindCR(m.cr.uid) /\ BindCR(m.cr.uid)
    <3>1. \/ m'.ns = m.ns /\ m'.cr = m.cr
          \/ m'.ns = 0 /\ m'.cr = Absent
      <4>1. CASE m' = [m EXCEPT !.pc = "store"]
        BY <1>1, <4>1 DEF Import
      <4>2. CASE m' = NoImport
        BY <4>2, NoImportFacts
      <4> QED
        BY <1>4, <2>3, <4>1, <4>2 DEF ImportSaveCRUid
    <3>2. OneNamespace'
      BY <1>1, <2>1, <2>3, <3>1, BindCRFacts DEF Untouched, OneNamespace, Known
    <3>3. OneResource'
      BY <1>1, <2>1, <2>3, <3>1, BindCRFacts
         DEF Untouched, OneResource, Known, CanBindCR, CreationHasHistory
    <3>4. InOrder' /\ SecretSound'
      BY <1>1, <2>1, <2>3, BindCRFacts DEF Untouched, InOrder, SecretSound
    <3>5. CopyOfRow' /\ NoReason'
      BY <2>1, <2>3, BindKeepsCopy, CopyKept DEF Untouched, NoReason, CopyOfRow
    <3>6. CopyOfResource'
      BY <2>1 DEF Untouched, CopyOfResource
    <3> QED
      BY <3>2, <3>3, <3>4, <3>5, <3>6 DEF Untouched
  <2> QED
    BY <1>4, <2>2, <2>3 DEF ImportSaveCRUid
<1>5. CASE ImportObservation
  <2>1. /\ UNCHANGED <<ns, secret, cr, d>> /\ m.cr \in CR /\ m.cr # Absent /\ m' = NoImport
        /\ m.cr.uid # 0 /\ row.crUid = m.cr.uid /\ Delivering' = Delivering
    BY <1>5, AbsentAssumption
       DEF ImportObservation, cluster, SyncInv, Present, Bound, Delivering
  <2>2. CASE UNCHANGED row
    BY <2>1, <2>2, NoImportFacts, ImportReads
  <2>3. CASE row' = Observed(m.cr)
    <3>1. /\ row'.generation = row.generation /\ row'.password = row.password
          /\ row'.stage = row.stage /\ row'.nsUid = row.nsUid /\ row'.crUid = row.crUid
          /\ row'.recovery = row.recovery
      BY <1>1, <2>1, <2>3, ObservedFacts
    <3>2. CreationHasHistory(row) /\ CreationHasHistory(row')
      BY <2>1, <3>1 DEF CreationHasHistory
    <3>3. OneNamespace' /\ InOrder' /\ SecretSound'
      BY <2>1, <3>1, NoImportFacts DEF Untouched, OneNamespace, InOrder, SecretSound, Known
    <3>4. OneResource'
      BY <2>1, <3>1, <3>2, NoImportFacts DEF Untouched, OneResource
    <3>5. CopyOfRow' /\ NoReason'
      BY <2>1, <3>1, <3>2 DEF Untouched, CopyOfRow, NoReason, CreationHasHistory
    <3>6. CopyOfResource'
      BY <2>1 DEF Untouched, CopyOfResource
    <3> QED
      BY <3>3, <3>4, <3>5, <3>6 DEF Untouched
  <2> QED
    BY <1>5, <2>2, <2>3 DEF ImportObservation
<1> QED
  BY <1>2, <1>3, <1>4, <1>5 DEF ImportInstance

LEMMA RequestUntouched ==
    ASSUME SyncInv, Untouched, RequestChange \/ RequestDeletion PROVE Untouched'
<1>1. /\ row \in Row /\ row.generation \in Nat /\ row.password \in Nat
      /\ UNCHANGED <<ns, secret, cr, d, m>> /\ Delivering' = Delivering
  BY DEF SyncInv, SyncTypeOK, Row, Versions, RequestChange, RequestDeletion, cluster, Delivering
<1>2. /\ row'.stage = row.stage /\ row'.nsUid = row.nsUid /\ row'.crUid = row.crUid
      /\ row'.recovery = row.recovery /\ row'.observed = row.observed
      /\ row'.observedGeneration = row.observedGeneration
      /\ row'.appliedPassword = row.appliedPassword
      /\ row'.generation \in {row.generation, row.generation + 1}
      /\ row'.password \in {row.password, row.password + 1}
  <2>1. CASE RequestDeletion
    BY <1>1, <2>1 DEF RequestDeletion, Row
  <2>2. CASE RequestChange
    BY <1>1, <2>2 DEF RequestChange, Row
  <2> QED
    BY <2>1, <2>2
<1>3. OneNamespace' /\ OneResource' /\ SecretSound' /\ CopyOfResource' /\ NoReason'
  BY <1>1, <1>2
     DEF Untouched, OneNamespace, OneResource, SecretSound, CopyOfResource, NoReason,
         CreationHasHistory
<1>4. InOrder'
  <2>1. cr # Absent => cr.generation \in Nat /\ cr.password \in Nat
    BY DEF SyncInv, SyncTypeOK, CR, Versions
  <2> QED
    BY <1>1, <1>2, <2>1 DEF Untouched, InOrder
<1>5. CopyOfRow'
  <2>1. d.pc \notin {"idle", "report"} => d.inst.generation \in Nat /\ d.inst.password \in Nat
    BY DEF SyncInv, Present, Row, Versions
  <2>2. d.pc # "report"
    BY DEF Untouched, NoReason
  <2> QED
    BY <1>1, <1>2, <2>1, <2>2 DEF Untouched, CopyOfRow, CreationHasHistory
<1> QED
  BY <1>3, <1>4, <1>5 DEF Untouched

\* The operator works on the resource it has.
LEMMA ResourceUntouched ==
    ASSUME SyncInv, Untouched, cr # Absent, cr' # Absent, UNCHANGED <<row, ns, secret, d, m>>,
           cr'.uid = cr.uid, cr'.generation = cr.generation, cr'.password = cr.password,
           cr'.deleting = cr.deleting, cr'.finalizer = cr.finalizer,
           cr'.acceptedPassword <= cr.password, cr'.appliedPassword <= cr'.acceptedPassword,
           cr.initialized => cr'.initialized, cr'.initialized => secret.service
    PROVE  Untouched'
<1>1. Delivering' = Delivering
  BY DEF Delivering
<1>2. OneNamespace' /\ OneResource'
  BY <1>1 DEF Untouched, OneNamespace, OneResource
<1>3. InOrder' /\ SecretSound'
  BY DEF Untouched, InOrder, SecretSound
<1>4. CopyOfRow' /\ CopyOfResource' /\ NoReason'
  BY <1>1 DEF Untouched, CopyOfRow, CopyOfResource, NoReason, CreationHasHistory
<1> QED
  BY <1>2, <1>3, <1>4 DEF Untouched

LEMMA OperatorUntouched == ASSUME SyncInv, Untouched, Operator PROVE Untouched'
<1>1. /\ cr # Absent /\ cr \in CR /\ cr.uid > 0 /\ secret # Absent /\ secret \in Secret
      /\ UNCHANGED <<row, ns, d, m>> /\ Delivering' = Delivering
  <2>1. cr # Absent /\ UNCHANGED <<row, ns, d, m>>
    BY DEF Operator, OperatorFinalizer, OperatorAccept, OperatorReportsCredentials, OperatorObserves,
           OperatorApplies, OperatorFinishes, OperatorWritesSecret, OperatorCleansSecret, Live
  <2> QED
    BY <2>1 DEF SyncInv, SyncTypeOK, Bound, Untouched, SecretSound, Delivering
<1>2. /\ cr.password \in Nat /\ cr.acceptedPassword \in Nat /\ cr.appliedPassword \in Nat
      /\ cr.initialized \in BOOLEAN /\ cr.recovery \in BOOLEAN
      /\ cr.password \in Versions /\ secret.service \in BOOLEAN
  BY <1>1 DEF CR, Versions, Secret
<1>3. /\ cr.acceptedPassword <= cr.password /\ cr.appliedPassword <= cr.acceptedPassword
      /\ cr.finalizer /\ (cr.initialized => secret.service)
  BY <1>1 DEF Untouched, InOrder, OneResource, SecretSound
<1>4. CASE OperatorFinalizer
  BY <1>3, <1>4 DEF OperatorFinalizer
<1>5. CASE OperatorAccept
  <2>1. cr' = [cr EXCEPT !.accepted = cr.generation, !.acceptedPassword = cr.password]
        /\ UNCHANGED secret
    BY <1>5 DEF OperatorAccept
  <2>2. /\ cr' \in CR /\ cr'.uid = cr.uid /\ cr'.generation = cr.generation
        /\ cr'.password = cr.password /\ cr'.deleting = cr.deleting /\ cr'.finalizer = cr.finalizer
        /\ cr'.acceptedPassword = cr.password /\ cr'.appliedPassword = cr.appliedPassword
        /\ cr'.initialized = cr.initialized
    BY <1>1, <2>1 DEF CR
  <2> QED
    BY <1>1, <1>2, <1>3, <2>1, <2>2, ResourceUntouched, AbsentAssumption
<1>6. CASE OperatorReportsCredentials
  <2>1. PICK i \in {cr.initialized, TRUE}, r \in BOOLEAN :
           /\ cr' = [cr EXCEPT !.initialized = i, !.recovery = r] /\ (i => secret.service)
           /\ UNCHANGED secret
    <3>1. CASE CredentialsSound
      <4> DEFINE i == cr.initialized \/ secret.service
                 r == IF secret.service THEN FALSE ELSE cr.recovery
      <4>1. i \in {cr.initialized, TRUE} /\ r \in BOOLEAN /\ (i => secret.service)
        BY <1>2, <1>3
      <4>2. cr' = [cr EXCEPT !.initialized = i, !.recovery = r] /\ UNCHANGED secret
        BY <1>6, <3>1 DEF OperatorReportsCredentials
      <4> HIDE DEF i, r
      <4> QED
        BY <4>1, <4>2, Zenon
    <3>2. CASE ~CredentialsSound
      <4>1. cr' = [cr EXCEPT !.recovery = cr.initialized] /\ UNCHANGED secret
        BY <1>6, <3>2 DEF OperatorReportsCredentials
      <4>2. [cr EXCEPT !.recovery = cr.initialized]
               = [cr EXCEPT !.initialized = cr.initialized, !.recovery = cr.initialized]
        BY <1>1 DEF CR
      <4> QED
        BY <1>2, <1>3, <4>1, <4>2, Zenon
    <3> QED
      BY <3>1, <3>2, Zenon
  <2>2. /\ cr' \in CR /\ cr'.uid = cr.uid /\ cr'.generation = cr.generation
        /\ cr'.password = cr.password /\ cr'.deleting = cr.deleting /\ cr'.finalizer = cr.finalizer
        /\ cr'.acceptedPassword = cr.acceptedPassword /\ cr'.appliedPassword = cr.appliedPassword
        /\ cr'.initialized = i
    BY <1>1, <1>2, <2>1 DEF CR
  <2> QED
    BY <1>1, <1>2, <1>3, <2>1, <2>2, ResourceUntouched, AbsentAssumption
<1>7. CASE OperatorApplies
  <2>1. cr' = [cr EXCEPT !.observedGeneration = cr.accepted, !.appliedPassword = cr.acceptedPassword]
        /\ UNCHANGED secret
    BY <1>7 DEF OperatorApplies
  <2>2. /\ cr' \in CR /\ cr'.uid = cr.uid /\ cr'.generation = cr.generation
        /\ cr'.password = cr.password /\ cr'.deleting = cr.deleting /\ cr'.finalizer = cr.finalizer
        /\ cr'.acceptedPassword = cr.acceptedPassword /\ cr'.appliedPassword = cr.acceptedPassword
        /\ cr'.initialized = cr.initialized
    BY <1>1, <2>1 DEF CR
  <2> QED
    BY <1>1, <1>2, <1>3, <2>1, <2>2, ResourceUntouched, AbsentAssumption
<1>8. CASE OperatorObserves
  <2>1. cr' = [cr EXCEPT !.observed = TRUE] /\ UNCHANGED secret
    BY <1>8 DEF OperatorObserves
  <2>2. /\ cr' \in CR /\ cr'.uid = cr.uid /\ cr'.generation = cr.generation
        /\ cr'.password = cr.password /\ cr'.deleting = cr.deleting /\ cr'.finalizer = cr.finalizer
        /\ cr'.acceptedPassword = cr.acceptedPassword /\ cr'.appliedPassword = cr.appliedPassword
        /\ cr'.initialized = cr.initialized
    BY <1>1, <2>1 DEF CR
  <2> QED
    BY <1>1, <1>2, <1>3, <2>1, <2>2, ResourceUntouched, AbsentAssumption
<1>9. CASE OperatorFinishes
  <2>1. cr' = Absent /\ UNCHANGED secret /\ row.stage = "cr_prepared" /\ ~Delivering
    BY <1>1, <1>9 DEF OperatorFinishes, Untouched, OneResource, SyncInv, ObjectsFirst
  <2>2. OneNamespace' /\ OneResource'
    BY <1>1, <2>1 DEF Untouched, OneNamespace, OneResource
  <2>3. InOrder' /\ SecretSound' /\ NoReason'
    BY <1>1, <2>1 DEF Untouched, InOrder, SecretSound, NoReason
  <2>4. CopyOfRow' /\ CopyOfResource'
    BY <1>1, <2>1 DEF Untouched, CopyOfRow, CopyOfResource, CreationHasHistory
  <2> QED
    BY <2>2, <2>3, <2>4 DEF Untouched
<1>10. CASE OperatorWritesSecret \/ OperatorCleansSecret
  <2>1. UNCHANGED cr /\ secret' # Absent
    BY <1>10, OperatorSecretFacts, AbsentAssumption DEF OperatorWritesSecret, OperatorCleansSecret
  <2>2. /\ secret'.hash[cr.password] = "saved"
        /\ \A v \in Versions : secret'.hash[v] # "foreign"
        /\ cr.initialized => secret'.service
        /\ secret'.service => secret'.owner # 0
        /\ secret'.owner # 0 => secret'.owner = cr.uid
        /\ Delivering /\ secret.hash[d.inst.password] = "saved"
              => secret'.hash[d.inst.password] = "saved"
    <3>1. /\ secret.hash[cr.password] = "saved" /\ (\A v \in Versions : secret.hash[v] # "foreign")
          /\ secret.owner # 0 => secret.owner = cr.uid
          /\ secret.service => secret.owner # 0
      BY <1>1 DEF Untouched, SecretSound
    <3>2. CASE OperatorWritesSecret
      <4>1. /\ secret'.hash = secret.hash /\ secret'.service = TRUE /\ secret'.owner = cr.uid
        BY <1>1, <3>2 DEF OperatorWritesSecret, Secret
      <4> QED
        BY <1>1, <3>1, <4>1
    <3>3. CASE OperatorCleansSecret
      <4>1. /\ secret'.hash = [secret.hash EXCEPT ![cr.appliedPassword] = "none"]
            /\ secret'.service = secret.service /\ secret'.owner = secret.owner
        BY <1>1, <3>3 DEF OperatorCleansSecret, Secret
      <4>2. cr.appliedPassword < cr.password
        BY <1>2, <1>3, <3>3 DEF OperatorCleansSecret
      <4>3. Delivering => cr.password <= d.inst.password /\ d.inst.password \in Versions
        BY <1>1 DEF Untouched, CopyOfResource, SyncInv, Present, Delivering, DeliverySteps, Row
      <4>4. secret.hash \in [Versions -> {"none", "saved", "foreign"}]
        BY <1>1 DEF Secret
      <4>5. Delivering => cr.appliedPassword # d.inst.password
        BY <1>2, <4>2, <4>3 DEF Versions
      <4>6. cr.appliedPassword # cr.password
        BY <1>2, <4>2
      <4> QED
        BY <1>2, <1>3, <3>1, <4>1, <4>3, <4>4, <4>5, <4>6
    <3> QED
      BY <1>10, <3>2, <3>3
  <2>3. OneNamespace' /\ OneResource' /\ InOrder'
    BY <1>1, <2>1 DEF Untouched, OneNamespace, OneResource, InOrder, CreationHasHistory
  <2>4. SecretSound'
    BY <1>1, <2>1, <2>2 DEF SecretSound
  <2>5. CopyOfRow' /\ NoReason'
    BY <1>1, <2>1 DEF Untouched, CopyOfRow, NoReason, CreationHasHistory
  <2>6. CopyOfResource'
    BY <1>1, <2>1, <2>2 DEF Untouched, CopyOfResource, Delivering, DeliverySteps
  <2> QED
    BY <2>3, <2>4, <2>5, <2>6 DEF Untouched
<1> QED
  BY <1>4, <1>5, <1>6, <1>7, <1>8, <1>9, <1>10 DEF Operator

\* Nothing is collected or emptied before the deletion of the instance.
LEMMA KubernetesUntouched == ASSUME SyncInv, Untouched, Kubernetes PROVE Untouched'
<1>1. UNCHANGED <<row, d, m>> /\ Delivering' = Delivering
  BY DEF Kubernetes, CollectSecret, EmptyNamespace, RemoveNamespace, Delivering
<1>2. /\ ns # Absent /\ ns.terminating => row.stage = "namespace_prepared" /\ cr = Absent
      /\ row.stage # "none" => ~Delivering
  BY DEF Untouched, OneNamespace, SyncInv, ObjectsFirst
<1>3. CASE secret # Absent /\ secret' = Absent /\ UNCHANGED <<ns, cr>> /\ cr = Absent /\ row.stage # "none"
  <2>1. OneNamespace' /\ OneResource' /\ InOrder'
    BY <1>1, <1>3 DEF Untouched, OneNamespace, OneResource, InOrder, CreationHasHistory
  <2>2. SecretSound' /\ CopyOfRow' /\ CopyOfResource' /\ NoReason'
    BY <1>1, <1>2, <1>3
       DEF Untouched, SecretSound, CopyOfRow, CopyOfResource, NoReason, CreationHasHistory,
           Delivering, DeliverySteps
  <2> QED
    BY <2>1, <2>2 DEF Untouched
<1>4. CASE RemoveNamespace
  <2>1. ns' = Absent /\ UNCHANGED <<secret, cr>> /\ row.stage = "namespace_prepared" /\ ~Delivering
    BY <1>2, <1>4 DEF RemoveNamespace
  <2>2. OneNamespace' /\ OneResource' /\ InOrder'
    BY <1>1, <2>1 DEF Untouched, OneNamespace, OneResource, InOrder
  <2>3. SecretSound' /\ CopyOfRow' /\ CopyOfResource' /\ NoReason'
    BY <1>1, <2>1
       DEF Untouched, SecretSound, CopyOfRow, CopyOfResource, NoReason, CreationHasHistory
  <2> QED
    BY <2>2, <2>3 DEF Untouched
<1>5. CASE CollectSecret
  BY <1>3, <1>5 DEF CollectSecret, Untouched, SecretSound
<1>6. CASE EmptyNamespace
  BY <1>2, <1>3, <1>6 DEF EmptyNamespace, Live
<1> QED
  BY <1>4, <1>5, <1>6 DEF Kubernetes

LEMMA InterruptUntouched == ASSUME SyncInv, Untouched, Interrupt PROVE Untouched'
<1>1. UNCHANGED <<row, ns, secret, cr>>
  BY DEF Interrupt, cluster
<1>2. CASE d' = NoDelivery /\ UNCHANGED m
  BY <1>1, <1>2, NoDeliveryFacts, EndUntouched DEF Ended
<1>3. CASE m' = NoImport /\ UNCHANGED d
  BY <1>1, <1>3, NoImportFacts, ImportReads
<1> QED
  BY <1>2, <1>3 DEF Interrupt


\* The row of an instance that was just created.
LEMMA InitUntouched == SyncInit => Untouched
<1> SUFFICES ASSUME SyncInit PROVE Untouched
  OBVIOUS
<1>1. /\ ns = Absent /\ secret = Absent /\ cr = Absent
      /\ d.pc = "idle" /\ d.ns = Absent /\ d.cr = Absent /\ m.ns = 0 /\ m.cr = Absent
      /\ row.stage = "none" /\ row.nsUid = 0 /\ row.crUid = 0 /\ row.observed = FALSE
      /\ row.observedGeneration = 0 /\ row.appliedPassword = 0 /\ row.recovery = "none"
  BY NoDeliveryFacts, NoImportFacts DEF SyncInit, NoImport
<1>2. ~CreationHasHistory(row)
  BY <1>1 DEF CreationHasHistory
<1>3. OneNamespace /\ OneResource
  BY <1>1, <1>2 DEF OneNamespace, OneResource
<1>4. InOrder /\ SecretSound /\ CopyOfRow /\ CopyOfResource /\ NoReason
  BY <1>1 DEF InOrder, SecretSound, CopyOfRow, CopyOfResource, NoReason, Delivering, DeliverySteps
<1> QED
  BY <1>3, <1>4 DEF Untouched

\* Only a person counts as a change by hand.
LEMMA MeddledOnlyByHand ==
    ASSUME SyncInv, [SyncNext]_syncVars, meddled' = 0
    PROVE  meddled = 0 /\ ~Meddle
<1>1. meddled \in Nat
  BY SyncAssumption DEF SyncInv, SyncTypeOK
<1>2. ~Meddle
  BY <1>1 DEF Meddle
<1>3. ASSUME Deliver PROVE meddled' = meddled
  BY <1>3, Zenon
     DEF Deliver, Begin, EnsureNamespace, SaveNamespaceUid, ReadCR, SaveCRUid, EnsureSecret,
         UpdateSecret, CreateCR, UpdateCR, ClearRecovery, Report, bounds
<1>4. ASSUME DeleteInstance PROVE meddled' = meddled
  BY <1>4, Zenon
     DEF DeleteInstance, ReadDeletionNamespace, SaveDeletionNamespaceUid, ReadDeletionCR,
         SaveDeletionCRUid, PrepareCRDeletion, ReadFreshRow, ReadFreshCR, SaveFreshCRUid, DeleteCR,
         CancelCreation, PrepareNamespaceDeletion, DeletePreparedNamespace, FinishWithoutNamespace,
         CompleteDeletion, bounds
<1>5. ASSUME ImportInstance \/ RequestChange \/ RequestDeletion PROVE meddled' = meddled
  BY <1>5, Zenon
     DEF ImportInstance, ImportBegin, ImportNamespace, ImportSaveNamespaceUid, ImportCR,
         ImportSaveCRUid, ImportObservation, RequestChange, RequestDeletion, bounds
<1>6. ASSUME Operator \/ Kubernetes \/ Interrupt PROVE meddled' = meddled
  BY <1>6, Zenon
     DEF Operator, OperatorFinalizer, OperatorAccept, OperatorWritesSecret,
         OperatorReportsCredentials, OperatorCleansSecret, OperatorObserves, OperatorApplies,
         OperatorFinishes,
         Kubernetes, CollectSecret, EmptyNamespace, RemoveNamespace, Interrupt, bounds
<1>7. ASSUME UNCHANGED syncVars PROVE meddled' = meddled
  BY <1>7 DEF syncVars
<1> QED
  BY <1>2, <1>3, <1>4, <1>5, <1>6, <1>7 DEF SyncNext

LEMMA NextUntouchedInv ==
    SyncInv /\ UntouchedInv /\ [SyncNext]_syncVars => UntouchedInv'
<1> SUFFICES ASSUME SyncInv, UntouchedInv, [SyncNext]_syncVars, meddled' = 0
             PROVE  Untouched'
  BY DEF UntouchedInv
<1>1. Untouched /\ ~Meddle
  BY MeddledOnlyByHand DEF UntouchedInv
<1>2. CASE Deliver
  <2>1. ~Report
    BY <1>1 DEF Report, Untouched, NoReason
  <2> QED
    BY <1>1, <1>2, <2>1, BeginUntouched, EnsureNamespaceUntouched, SaveNamespaceUidUntouched,
       ReadCRUntouched, SaveCRUidUntouched, EnsureSecretUntouched, UpdateSecretUntouched,
       CreateCRUntouched, UpdateCRUntouched, ClearRecoveryUntouched DEF Deliver
<1>3. CASE DeleteInstance
  BY <1>1, <1>3, ReadDeletionNamespaceUntouched, SaveDeletionNamespaceUidUntouched,
     ReadDeletionCRUntouched, SaveDeletionCRUidUntouched, PrepareCRDeletionUntouched,
     ReadFreshRowUntouched, ReadFreshCRUntouched, SaveFreshCRUidUntouched, DeleteCRUntouched,
     CancelCreationUntouched, PrepareNamespaceDeletionUntouched,
     DeletePreparedNamespaceUntouched, FinishWithoutNamespaceUntouched,
     CompleteDeletionUntouched DEF DeleteInstance
<1>4. CASE ImportInstance
  BY <1>1, <1>4, ImportUntouched
<1>5. CASE RequestChange \/ RequestDeletion
  BY <1>1, <1>5, RequestUntouched
<1>6. CASE Operator \/ Kubernetes \/ Interrupt
  BY <1>1, <1>6, OperatorUntouched, KubernetesUntouched, InterruptUntouched
<1>7. CASE UNCHANGED syncVars
  BY <1>1, <1>7
     DEF syncVars, Untouched, OneNamespace, OneResource, InOrder, SecretSound, CopyOfRow,
         CopyOfResource, NoReason, Delivering
<1> QED
  BY <1>1, <1>2, <1>3, <1>4, <1>5, <1>6, <1>7 DEF SyncNext

\* Crashes, lost answers, retries and the races of the two loops with each
\* other, with the operator and with the user never make deliveryError save a
\* reason: everything a step refuses to go on with is a trace of somebody's
\* hand in the cluster.  The flag of the row is the disjunction of both sources.
THEOREM NoFalseAlarmHolds == SyncSpec => []NoFalseAlarm
<1>1. SyncInit => UntouchedInv
  BY InitUntouched DEF UntouchedInv
<1>2. SyncInv /\ UntouchedInv => NoFalseAlarm
  BY DEF SyncInv, RowSound, UntouchedInv, Untouched, NoReason, NoFalseAlarm
<1> QED
  BY <1>1, <1>2, InitSyncInv, NextSyncInv, NextUntouchedInv, PTL DEF SyncSpec

\* ensureSecret runs before createCR and updateCR, and both writers of the
\* Secret write it with the resourceVersion they have read: the resource never
\* asks for a hash the Secret lacks and the operator's credentials are not lost.
THEOREM SecretServesResourceHolds == SyncSpec => []SecretServesResource
<1>1. SyncInit => UntouchedInv
  BY InitUntouched DEF UntouchedInv
<1>2. UntouchedInv => SecretServesResource
  BY DEF UntouchedInv, Untouched, SecretSound, SecretServesResource, Live
<1> QED
  BY <1>1, <1>2, InitSyncInv, NextSyncInv, NextUntouchedInv, PTL DEF SyncSpec

=============================================================================
