--------------------------- MODULE ValkeyOperator ---------------------------
(***************************************************************************)
(* The operator of one ValkeyInstance together with what it cannot         *)
(* control: processes, machines, links, applications and the requests that *)
(* reach the resource.                                                     *)
(***************************************************************************)
EXTENDS ValkeyAdmission

vars == <<proc, pod, lineage, served, scene, st, cr, op>>

InitialSize == 1

\* The status of an instance that has served, as the last pass left it.
Serving0(o) ==
    [NodeOf(<<o, 1>>) EXCEPT !.role = IF o = 0 THEN "primary" ELSE "replica",
        !.app = TRUE, !.pw = 1, !.ready = TRUE, !.hist = 1,
        !.up = IF o = 0 THEN Nil ELSE <<0, 1>>, !.link = o # 0, !.synced = o # 0]

Init ==
    /\ scene \in Scenes
    /\ served = IF scene.serving THEN 1 ELSE 0
    /\ lineage = IF scene.serving THEN <<0>> ELSE <<>>
    /\ proc = [p \in Procs |->
                 IF scene.serving /\ p[2] = 1
                 THEN [Blank EXCEPT !.run = "up", !.role = Serving0(p[1]).role,
                                    !.source = Serving0(p[1]).up, !.hist = 1, !.app = TRUE,
                                    !.clients = {1}, !.pw = 1, !.size = InitialSize]
                 ELSE Blank]
    /\ pod = [o \in Ordinals |->
                 IF scene.serving THEN [inc |-> 1, deleting |-> FALSE, label |-> Serving0(o).role]
                 ELSE NoPod]
    /\ st = [accepted |-> [size |-> InitialSize, pw |-> 1],
             applied |-> IF scene.serving THEN [size |-> InitialSize, pw |-> 1] ELSE [size |-> 0, pw |-> 0],
             initialized |-> scene.serving,
             nodes |-> [o \in Ordinals |-> IF scene.serving THEN Serving0(o) ELSE Nil],
             prev |-> {}, primary |-> IF scene.serving THEN <<0, 1>> ELSE Nil,
             failover |-> Nil, rollout |-> Nil, rotation |-> Nil, deletion |-> Nil,
             public |-> scene.serving, empty |-> FALSE, loss |-> "no", reported |-> scene.serving]
    /\ cr = [size |-> InitialSize, pw |-> 1, deleting |-> FALSE, fence |-> Nil, acl |-> 1,
             hashes |-> {1}, exists |-> TRUE, changes |-> 0]
    /\ op = [todo |-> Ordinals, err |-> FALSE, skipped |-> {}, counted |-> {},
             controlled |-> IF scene.serving THEN Ordinals \X {1} ELSE {}]

-----------------------------------------------------------------------------
(* Requests, and the operator's own life                                   *)

Request(kind) == kind \in scene.requests /\ cr.exists /\ ~cr.deleting /\ UNCHANGED <<machine, st, op>>

\* The size, or the password whose hash the caller puts into the Secret first.
RequestSize ==
    /\ Request("size") /\ cr.changes < scene.changes
    /\ \E s \in scene.sizes \ {cr.size} : cr' = [cr EXCEPT !.size = s, !.changes = @ + 1]

RequestPassword ==
    /\ Request("password") /\ cr.changes < scene.changes
    /\ cr' = [cr EXCEPT !.pw = @ + 1, !.hashes = @ \cup {cr.pw + 1}, !.changes = @ + 1]

RequestDeletion == Request("delete") /\ cr' = [cr EXCEPT !.deleting = TRUE]

\* Somebody has made sure that a process no longer runs, and says so.
RequestFencing ==
    /\ Request("fence") /\ cr.fence = Nil
    /\ \E n \in Nodes \cup st.prev : /\ ~n.term /\ proc[n.p].run = "down" /\ ~NodeReady(n.p)
                                     /\ cr' = [cr EXCEPT !.fence = n.p]

\* The pass ends with nothing done: a wait, a failed call, an error of an
\* ordinal, or a write refused because the resource is being deleted meanwhile.
\* The loop of disableAppForDeletion goes on whatever a process answers.
EndsPass ==
    /\ op.todo = {} \/ (cr.deleting /\ op.todo # Ordinals)
    /\ st.deletion # "disabling"
    /\ cr.exists /\ NextPass /\ UNCHANGED <<machine, st, cr>>

\* The operator stops, or loses its lease, and starts again: it keeps nothing.
Restart ==
    /\ Fails("restart") /\ cr.exists
    /\ op' = [todo |-> Ordinals, err |-> FALSE, skipped |-> {}, controlled |-> {}, counted |-> {}]
    /\ UNCHANGED <<proc, pod, data, st, cr>>

-----------------------------------------------------------------------------
(* The system                                                              *)

Observes == \E o \in Ordinals : ObservesProcess(o)

\* The steps of reconcile that change something, in the order of a pass.
Acts ==
    \/ ReconcileAcceptedConfiguration \/ ReconcileCredentials \/ ReconcileWorkload
    \/ AcceptsManualFencing \/ RemovesAnnotation \/ ReconcileProcessRecovery
    \/ ReconcileFailover \/ ReconcileCredentialRotation \/ ReconcileRollout
    \/ AssignsInitialPrimary \/ FollowsPrimary \/ ReconcilePodMetadata
    \/ AdmitsReplica \/ AdmitsApp \/ AdmissionPending \/ ReconcileProcessHistory
    \/ ReconcileDeletion

Outside == UNCHANGED <<st, cr, op>>

Kubelet ==
    \/ \E o \in Ordinals : KubeletStarts(o, cr.acl) /\ Outside
    \/ \E o \in Ordinals : KubeletStops(o) /\ Outside
Copies == \E p \in Procs : Synchronize(p) /\ Outside
Returns ==
    \/ \E p \in Procs : LinkReturns(p) /\ Outside
    \/ \E p \in Procs : Resume(p) /\ Outside
\* Before its process has been seen a Pod is known by its finalizer alone: that
\* nobody removes.
Failures ==
    \/ \E p \in Procs : LateCommand(p) /\ Outside
    \/ \E p \in Procs : Crash(p) /\ Outside
    \/ \E p \in Procs : Isolate(p) /\ Outside
    \/ \E p \in Procs : Cut(p) /\ Outside
    \/ \E p \in Procs : Hang(p) /\ Outside
    \/ \E p \in Procs : Busy(p) /\ Outside
    \/ \E p \in Procs : Unplaced(p) /\ Outside
    \/ \E p \in Procs : PowerOff(p) /\ Outside
    \/ \E p \in Procs : DeleteNode(p) /\ Outside
    \/ \E o \in Ordinals : ~cr.deleting /\ Known(CurrentProc(o)) # {} /\ RemovePod(o) /\ Outside
    \/ \E o \in Ordinals : ~cr.deleting /\ MakePod(o, TemplateSize) /\ Outside

User == RequestSize \/ RequestPassword \/ RequestDeletion \/ RequestFencing

Next ==
    \/ Observes \/ Acts \/ EndsPass \/ Restart
    \/ Kubelet \/ Copies \/ Returns \/ Failures \/ User

Spec == Init /\ [][Next]_vars

\* A series of errors goes on long enough to pass its next threshold.
ThresholdPasses ==
    \E o \in Ordinals :
        /\ ObservesProcess(o) /\ st.nodes[o] # Nil
        /\ st'.nodes[o].obs # st.nodes[o].obs /\ st'.nodes[o].obs \in {"stuck", "busylong"}

\* The work queue runs pass after pass and a call does not fail for ever; the
\* clock goes on; kubelets and replicas do their work.  Machines need not come
\* back, and nobody has to ask for anything.
Fairness ==
    /\ WF_vars(Observes \/ EndsPass)
    /\ SF_vars(Acts) /\ SF_vars(ThresholdPasses)
    /\ WF_vars(Kubelet \/ Copies)

FairSpec == Spec /\ Fairness

-----------------------------------------------------------------------------
(* Types                                                                   *)

NodeStatusOf(processes) ==
    [p: processes, role: {"none", "primary", "replica"}, app: BOOLEAN, pw: Nat, ready: BOOLEAN,
     obs: {"ok", "error", "failed", "stuck", "busy", "busylong"}, term: BOOLEAN,
     rec: {"none", "killing", "deleting", "deletingBusy", "waiting"},
     up: processes \cup {Nil}, link: BOOLEAN, synced: BOOLEAN, hist: Nat]
NodeStatus == NodeStatusOf(Procs)

FailoverStatusOf(processes) ==
    [reason: {"failure", "resize"}, stage: {"fencing", "choosing", "promoting", "reconfiguring"},
     source: processes, cand: processes \cup {Nil}, srcFenced: BOOLEAN, candFenced: BOOLEAN,
     mayBe: BOOLEAN, deadline: BOOLEAN, empty: BOOLEAN]
FailoverStatus == FailoverStatusOf(Procs)

RolloutStatusOf(processes) ==
    [stage: {"preparing", "stopping", "template", "starting", "replicas", "switching", "primary",
             "verifying"},
     p: processes \cup {Nil}, closed: BOOLEAN]
RolloutStatus == RolloutStatusOf(Procs)

RotationStatusOf(processes) ==
    [stage: {"preparing", "replicas", "primary", "cleaning"}, confirmed: SUBSET processes, old: Nat]
RotationStatus == RotationStatusOf(Procs)

DeletionStages == {"network", "disabling", "stopping", "verifying"}

Configuration == [size: Nat, pw: Nat]

Status ==
    [accepted: Configuration, applied: Configuration, initialized: BOOLEAN,
     nodes: [Ordinals -> NodeStatus \cup {Nil}], prev: SUBSET NodeStatus,
     primary: Procs \cup {Nil}, failover: FailoverStatus \cup {Nil},
     rollout: RolloutStatus \cup {Nil}, rotation: RotationStatus \cup {Nil},
     deletion: DeletionStages \cup {Nil}, public: BOOLEAN, empty: BOOLEAN,
     loss: {"no", "stopped", "timedout", "resize"}, reported: BOOLEAN]

ASSUME StatusAssumption ==
    Nil \notin NodeStatusOf(Nat \X Nat) \cup FailoverStatusOf(Nat \X Nat) \cup DeletionStages
             \cup RolloutStatusOf(Nat \X Nat) \cup RotationStatusOf(Nat \X Nat)

\* The status keeps one entry per process: the current ones under their
\* ordinal, earlier ones in a list keyed by identity (appendPreviousProcess,
\* setNodeStatus).
OperatorTypeOK ==
    /\ ProcessTypeOK
    /\ st \in Status
    /\ \A n \in Nodes : st.nodes[n.p[1]] = n
    /\ \A n \in st.prev : n \in Nodes \/ Known(n.p) = {n}
    /\ cr \in [size: Nat, pw: Nat, deleting: BOOLEAN, fence: Procs \cup {Nil}, acl: Nat,
               hashes: SUBSET Nat, exists: BOOLEAN, changes: 0..scene.changes]
    /\ op \in [todo: SUBSET Ordinals, err: BOOLEAN, skipped: SUBSET Procs,
               counted: SUBSET Procs, controlled: SUBSET Procs]

-----------------------------------------------------------------------------
(* Safety                                                                  *)

\* At most one process executes the application's writes: a failover promotes
\* and admitApp opens only what cannot meet a primary that is still open.
OneWriter == \A p, q \in Procs : Writable(p) /\ Writable(q) => p = q

\* A stop that saveContainerTermination, saveNodeDeletionTermination or a manual
\* fencing records is a real one.
ProofOfStop == \A n \in Nodes \cup st.prev : n.term => proc[n.p].run = "down"

Writer ==
    IF HA /\ \E p \in Procs : Writable(p) THEN CHOOSE p \in Procs : Writable(p) ELSE Nil

Cache == INSTANCE ValkeyCache WITH
    Processes <- Nat \X Nat, writer <- Writer,
    served <- IF HA THEN served ELSE 0, forks <- IF HA THEN lineage ELSE <<>>

\* An HA instance is one cache: chooseFailoverCandidate, the empty recovery and
\* a full stop hand over the data or declare its loss while nobody writes.
OneCache == Cache!CacheSpec

\* The labels of reconcilePodMetadata lead the primary Service to one process at
\* most.
OneTarget == Cardinality(ServiceTargets) <= 1

\* An ordinal runs one process: processCreationAllowed waits for the proof that
\* the one before has stopped (when nobody else makes Pods).
SoleProcess ==
    "remake" \notin scene.kinds => \A p, q \in Procs : Up(p) /\ Up(q) /\ p[1] = q[1] => p = q

\* While its promotion may have been carried out a candidate is not given up
\* (MayBePrimary of reconcileFailoverPromoting), unless it is proven stopped.
CandidateKept ==
    [][ st.failover # Nil /\ st.failover.mayBe =>
            \/ st'.failover # Nil /\ st'.failover.cand = st.failover.cand
            \/ st'.primary = st.failover.cand
            \/ proc[st.failover.cand].run = "down" ]_vars

\* Once finishCredentialRotation is through nobody is connected with an old
\* password.
OldPasswordGone ==
    st.initialized /\ st.rotation = Nil =>
        \A p \in Procs : Up(p) => proc[p].clients \subseteq {st.accepted.pw}

\* applyOperationalPhase confirms a generation only when what serves the
\* application has its size and its password.
ReportedMeansApplied ==
    st.reported => \A p \in Procs : Up(p) /\ proc[p].app =>
        proc[p].size = st.accepted.size /\ proc[p].pw = st.accepted.pw

\* finishDeletion lets the resource go when no process is left.
DeletedMeansStopped == ~cr.exists => \A p \in Procs : proc[p].run \in {"absent", "down"}

DataHeld == \E p \in Procs : Up(p) /\ served \in Cache!Continues(proc[p].hist)

\* reconcileRollingReplacement, and one failure of an HA instance, lose nothing:
\* what the application wrote to is held by a running process.
DataKept == served # 0 /\ ~cr.deleting => DataHeld

\* reconcileRollingReplacement has one process at a time out of service, and a
\* rotation none; the switch of the primary is the only exception.
OneAtATime ==
    (st.rollout # Nil \/ st.rotation # Nil) /\ st.failover = Nil =>
        Cardinality({p \in Procs : Up(p) /\ proc[p].app}) >= scene.count - 1

\* Whatever is in progress names processes the status still knows
\* (previousProcessRequired keeps them), and a full stop that owns the
\* availability has no failover beside it: the branches of reconcileFailover for
\* the opposite are not reached.
OperationsNameTheKnown ==
    /\ st.primary # Nil => Known(st.primary) # {}
    /\ st.failover # Nil =>
        /\ Known(st.failover.source) # {} /\ ~FullStopOwnsAvailability
        /\ st.failover.cand # Nil => Known(st.failover.cand) # {}
    /\ st.rollout # Nil /\ st.rollout.p # Nil => Known(st.rollout.p) # {}

-----------------------------------------------------------------------------
(* Liveness                                                                *)

\* The application gets a process to write to.
InService == \E p \in Procs : Writable(p) /\ ServiceTargets = {p}

\* After any one failure of a process, or of a call, failover, recovery and
\* admission lead back to service.
Recovers == []<>(InService \/ cr.deleting)

\* The last configuration asked for is accepted, carried out by the rotation and
\* the rollout, and confirmed.
ChangeApplied == []<>((st.reported /\ st.accepted = Wanted) \/ cr.deleting)

\* reconcileDeletion comes to its end.
DeletionFinishes == []<>(cr.deleting => ~cr.exists)

\* The specification of the recovery and the operations manual promise the
\* following; the code does not do it in every case (see the README).

\* A failure of the primary during a rotation, or in the last stage of a resize,
\* holds reconcileCredentialRotation or reconcileRollout up only for a while.
InterruptedByFailure ==
    /\ st.failover # Nil
    /\ st.rotation # Nil \/ (st.rollout # Nil /\ st.rollout.stage = "verifying")

OperationResumes == InterruptedByFailure ~> st.rotation = Nil /\ st.rollout = Nil

\* A failover whose new primary is lost goes back to reconcileFailoverChoosing
\* and ends with another one, as long as somebody holds the data.
FailoverEnds == st.failover # Nil ~> InService \/ ~DataHeld
=============================================================================
