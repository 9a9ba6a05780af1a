--------------------------- MODULE ValkeyAdmission ---------------------------
(***************************************************************************)
(* The end of a pass: the first primary of a fresh cache, the upstream of  *)
(* the replicas, and who may serve the application (topology.go,           *)
(* app_admission.go, process_termination.go); and the pass of an instance  *)
(* that is being deleted (deletion.go).                                    *)
(***************************************************************************)
EXTENDS ValkeyChange

-----------------------------------------------------------------------------
(* Topology                                                                *)

\* initialPrimaryReplacementSafe: the assigned process is proven stopped.
InitialPrimaryReplacementSafe ==
    st.primary[1] = 0 /\ \E q \in st.prev : q.p = st.primary /\ q.term

\* reconcileInitialPrimary: ordinal 0 becomes the primary of a fresh cache.
AssignsInitialPrimary ==
    /\ AfterRollout /\ HA /\ EmptyPrimaryAssignmentAllowed /\ st.nodes[0] # Nil
    /\ LET n == st.nodes[0] IN
        /\ ~n.term /\ n.obs = "ok" /\ ~n.app /\ PasswordOK(n)
        /\ IF st.primary # n.p
           THEN /\ st.primary # Nil => InitialPrimaryReplacementSafe
                /\ Saved([st EXCEPT !.primary = n.p])
           ELSE n.role = "replica" /\ Promotes(n.p, st)

\* The pass ends in reconcileInitialPrimary.
InitialPrimaryDue ==
    /\ HA /\ EmptyPrimaryAssignmentAllowed
    /\ \/ st.nodes[0] = Nil
       \/ LET n == st.nodes[0] IN ~( /\ ~n.term /\ n.obs = "ok" /\ ~n.app /\ PasswordOK(n)
                                     /\ st.primary = n.p /\ n.role = "primary" )

\* The primary that replicas can be pointed at.
FollowablePrimary ==
    \E n \in PrimaryNode : n.role = "primary" /\ ~n.term /\ n.obs = "ok" /\ CurrentPod(n.p)

\* reconcileReplicas: replicas with another upstream, and in a failover the
\* fenced old primary.
FencedSource(n) ==
    /\ st.failover # Nil /\ st.failover.stage = "reconfiguring"
    /\ st.failover.source = n.p /\ ~n.app

Misdirected ==
    {n \in Live : /\ n.p[1] # st.primary[1] /\ n.obs = "ok"
                  /\ n.role = "replica" \/ FencedSource(n)
                  /\ PasswordOK(n) /\ n.up # st.primary /\ CurrentPod(n.p)}

\* followProcess: a primary that serves the application is left alone.
FollowCommands(p) ==
    IF proc[p].role = "primary" /\ proc[p].app THEN <<>> ELSE <<Follow(st.primary)>>

FollowsPrimary ==
    /\ AfterRollout /\ HA /\ ~InitialPrimaryDue /\ FollowablePrimary
    /\ \E n \in Misdirected :
        /\ \A m \in Misdirected : n.p[1] <= m.p[1]
        /\ Commanded(n.p, FollowCommands(n.p), st) \/ BrokenOff(n.p, FollowCommands(n.p))

TopologyDue == HA /\ (InitialPrimaryDue \/ ~FollowablePrimary \/ Misdirected # {})

AfterTopology == AfterRollout /\ ~TopologyDue

-----------------------------------------------------------------------------
(* Labels and admission                                                    *)

ReconcilePodMetadata == AfterTopology /\ SetsPodMetadata

AfterMetadata == AfterTopology /\ \A o \in Ordinals : Labelled(o)

\* reconcileReplicaAdmission
AdmissibleReplicas ==
    IF /\ st.initialized /\ HA /\ st.primary # Nil /\ st.rotation = Nil
       /\ \E n \in PrimaryNode : n.role = "primary" /\ n.ready /\ CurrentPod(n.p)
    THEN {n \in Live : /\ n.p[1] # st.primary[1] /\ n.role = "replica" /\ n.ready /\ n.obs = "ok"
                       /\ n.link /\ n.synced /\ n.up = st.primary /\ ~(n.app /\ PasswordOK(n))
                       /\ IsPodOf(n.p) /\ ContainerRunning(n.p)}
    ELSE {}

AdmittedNode(s, p) == [s EXCEPT !.nodes[p[1]] = [@ EXCEPT !.app = TRUE, !.pw = s.accepted.pw]]

\* The state read after the change decides whether it is recorded.
AdmitsReplica ==
    /\ AfterMetadata
    /\ \E n \in AdmissibleReplicas :
        /\ \A m \in AdmissibleReplicas : n.p[1] <= m.p[1]
        /\ LET good == proc[n.p].role = "replica" /\ LinkUp(n.p) /\ proc[n.p].source = st.primary IN
           \/ Commanded(n.p, AppAccess(n.p, TRUE),
                        IF good THEN ApplyOperationalPhase(AdmittedNode(st, n.p)) ELSE st)
           \/ BrokenOff(n.p, AppAccess(n.p, TRUE))

AfterReplicaAdmission == AfterMetadata /\ AdmissibleReplicas = {}

\* admissionProcess: the primary, once nobody else can be one.
AdmissionProcess ==
    LET o == IF st.primary # Nil THEN st.primary[1] ELSE 0 IN
    {n \in Live : /\ ~Unterminated
                  /\ n.p[1] = o /\ (HA => st.primary # Nil)
                  /\ n.role = "primary" /\ n.ready
                  /\ IsPodOf(n.p) /\ ContainerRunning(n.p) /\ IsPrimary(n.p)
                  /\ pod[o].label = "primary"}

\* finishAppAdmission
Admitted(p) ==
    ApplyOperationalPhase(
        [AdmittedNode(st, p) EXCEPT !.initialized = TRUE, !.primary = p, !.public = TRUE,
                                    !.applied = IF st.initialized THEN @ ELSE st.accepted])

\* admissionPending
Pending == [st EXCEPT !.public = FALSE, !.empty = @ /\ ~st.initialized]

AdmitsApp ==
    /\ AfterReplicaAdmission
    /\ \E n \in AdmissionProcess :
        /\ ServiceTargets = {n.p}
        /\ IF n.app /\ PasswordOK(n) THEN Saved(Admitted(n.p))
           ELSE \/ Commanded(n.p, AppAccess(n.p, TRUE),
                             IF proc[n.p].role = "primary" THEN Admitted(n.p) ELSE Pending)
                \/ BrokenOff(n.p, AppAccess(n.p, TRUE))

AdmissionPending ==
    /\ AfterReplicaAdmission
    /\ \A n \in AdmissionProcess : ServiceTargets # {n.p}
    /\ Saved(Pending)

AfterAdmission ==
    /\ AfterReplicaAdmission
    /\ \E n \in AdmissionProcess : /\ ServiceTargets = {n.p} /\ n.app /\ PasswordOK(n)
                                   /\ Admitted(n.p) = st

\* A bug: only the primary keeps its entry.
RequiredByPrimary(q) == st.primary = q.p

\* reconcileProcessHistory: a proven stop is forgotten unless something in
\* progress still names the process.
Required(q) ==
    \/ st.primary = q.p
    \/ st.failover # Nil /\ q.p \in {st.failover.source, st.failover.cand}
    \/ st.rollout # Nil /\ st.rollout.p = q.p

ReconcileProcessHistory ==
    AfterAdmission /\ Saved([st EXCEPT !.prev = {q \in @ : ~q.term \/ Required(q)}])

-----------------------------------------------------------------------------
(* Deletion                                                                *)

InDeletion(stage) == PassStart /\ cr.deleting /\ st.deletion = stage

StartsDeletion ==
    InDeletion(Nil) /\ Saved([st EXCEPT !.deletion = "network", !.public = FALSE])

RemovesNetwork == InDeletion("network") /\ Saved([st EXCEPT !.deletion = "disabling"])

\* disableAppForDeletion goes through the ordinals: a label ends the pass, and a
\* process that does not answer, or whose answer is lost, is passed over.
Disabling == cr.exists /\ cr.deleting /\ st.deletion = "disabling"

DisablesOrdinal(o) ==
    LET p == CurrentProc(o) IN
    \/ /\ HasPod(o) /\ pod[o].label # "none"
       /\ pod' = [pod EXCEPT ![o].label = "none"]
       /\ UNCHANGED <<proc, data, scene>> /\ NextPass
    \/ /\ HasPod(o) /\ pod[o].label = "none" /\ ContainerRunning(p) /\ Reachable(p)
       /\ \/ Session(p, AppAccess(p, FALSE)) /\ UNCHANGED scene
          \/ Interrupted(p, AppAccess(p, FALSE))
       /\ op' = Done(o) /\ UNCHANGED pod
    \/ /\ HasPod(o) => pod[o].label = "none" /\ ~(ContainerRunning(p) /\ Reachable(p))
       /\ op' = Done(o) /\ UNCHANGED machine

DisablesApp ==
    /\ Disabling
    /\ \E o \in op.todo : (\A i \in op.todo : o <= i) /\ DisablesOrdinal(o)
    /\ UNCHANGED <<st, cr>>

AppDisabled == Disabling /\ op.todo = {} /\ Saved([st EXCEPT !.deletion = "stopping"])

RequestsDeletionOfPods ==
    /\ InDeletion("stopping")
    /\ IF StoppablePods # {}
       THEN pod' = [pod EXCEPT ![First(StoppablePods)].deleting = TRUE] /\ UNCHANGED st
       ELSE st' = [st EXCEPT !.deletion = "verifying"] /\ UNCHANGED pod
    /\ UNCHANGED <<proc, data, scene, cr>> /\ NextPass

\* verifyDeletion goes through the ordinals and stops at the first that is not
\* settled.
Settled(o) == ~HasPod(o) /\ (st.nodes[o] # Nil => st.nodes[o].term)

VerifiesOrdinal(o) ==
    LET n == st.nodes[o]
        matches == n # Nil /\ HasPod(o) /\ n.p = CurrentProc(o)
    IN /\ CASE HasPod(o) /\ ContainerTerminated(CurrentProc(o)) ->
                  IF matches /\ n.term THEN ReleaseTerminatedPod(o) /\ UNCHANGED st
                  ELSE st' = SaveContainerTermination(o) /\ UNCHANGED pod
            [] HasPod(o) /\ ~ContainerTerminated(CurrentProc(o)) /\ matches /\ n.term ->
                  ReleaseTerminatedPod(o) /\ UNCHANGED st
            [] n # Nil /\ ~n.term /\ ~NodeExists(n.p)
                  /\ (HasPod(o) => matches /\ ~ContainerTerminated(CurrentProc(o))) ->
                  st' = SaveNodeDeletion(n) /\ UNCHANGED pod
            [] OTHER -> FALSE
       /\ UNCHANGED <<proc, data, scene, cr>> /\ NextPass

VerifiesDeletion ==
    /\ InDeletion("verifying")
    /\ \E o \in Ordinals : /\ ~Settled(o) /\ \A i \in 0 .. o - 1 : Settled(i)
                           /\ VerifiesOrdinal(o)

\* A process of the history: only the deletion of its Node proves its stop here.
VerifiesPrevious ==
    /\ InDeletion("verifying") /\ \A o \in Ordinals : Settled(o)
    /\ \E q \in st.prev : /\ ~q.term /\ ~NodeExists(q.p)
                          /\ Saved([st EXCEPT !.prev = (@ \ {q}) \cup {Stopped(q)}])

\* A bug: the history of processes is not looked at.
FinishesDeletionEarly ==
    /\ InDeletion("verifying") /\ \A o \in Ordinals : Settled(o)
    /\ cr' = [cr EXCEPT !.exists = FALSE]
    /\ UNCHANGED <<machine, st, op>>

FinishesDeletion ==
    /\ InDeletion("verifying") /\ \A o \in Ordinals : Settled(o)
    /\ ~Unterminated
    /\ cr' = [cr EXCEPT !.exists = FALSE]
    /\ UNCHANGED <<machine, st, op>>

ReconcileDeletion ==
    \/ StartsDeletion \/ RemovesNetwork \/ DisablesApp \/ AppDisabled
    \/ RequestsDeletionOfPods \/ VerifiesDeletion \/ VerifiesPrevious \/ FinishesDeletion
=============================================================================
