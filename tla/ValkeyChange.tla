---------------------------- MODULE ValkeyChange ----------------------------
(***************************************************************************)
(* How an accepted configuration reaches the processes: acceptance, the    *)
(* credentials Secret, the Pods, the rotation of the password and the      *)
(* resize (valkeyinstance_controller.go, credentials.go, workload.go,      *)
(* credential_rotation.go, rollout.go).  The first three run at the start  *)
(* of a pass, the other two behind the failover.                           *)
(***************************************************************************)
EXTENDS ValkeyFailover

PassStart == op.todo = Ordinals /\ cr.exists

-----------------------------------------------------------------------------
(* The start of a pass                                                     *)

Wanted == [size |-> cr.size, pw |-> cr.pw]

\* reconcileAcceptedConfiguration: one configuration at a time.
AcceptDue == Wanted # st.accepted /\ st.reported /\ Idle

ReconcileAcceptedConfiguration ==
    /\ PassStart /\ ~cr.deleting /\ AcceptDue
    /\ Saved([st EXCEPT
                !.accepted = Wanted, !.reported = FALSE,
                !.rollout = IF cr.size = st.accepted.size THEN Nil
                            ELSE [stage |-> "preparing", p |-> Nil, closed |-> FALSE],
                !.rotation = IF cr.pw = st.accepted.pw THEN Nil
                             ELSE [stage |-> "preparing", confirmed |-> {}, old |-> st.accepted.pw]])

CredentialsDue == cr.acl # st.accepted.pw

\* validACLBeforeRotation: the ACL in the Secret is the one the rotation leaves.
ValidACLBeforeRotation ==
    st.rotation # Nil /\ cr.acl = st.rotation.old /\ st.rotation.old \in cr.hashes

ReconcileCredentials ==
    /\ PassStart /\ ~cr.deleting /\ ~AcceptDue
    /\ CredentialsDue /\ ValidACLBeforeRotation
    /\ cr' = [cr EXCEPT !.acl = st.accepted.pw]
    /\ UNCHANGED <<machine, st>> /\ NextPass

\* rolloutWorkloadProcessCount is zero
WorkloadStopped ==
    /\ RolloutRequiresFullStop
    /\ \/ st.rollout.stage = "stopping" /\ st.rollout.closed
       \/ st.rollout.stage = "template"

\* rolloutWorkloadInstance: until the template is updated Pods keep the size
\* that is applied.
TemplateSize ==
    IF st.rollout # Nil /\ st.rollout.stage \in {"preparing", "stopping"}
    THEN st.applied.size ELSE st.accepted.size

\* A bug: a Pod that is gone is taken for a process that has stopped.
ProcessCreationAllowedUnproven(o) == TRUE

ProcessCreationAllowed(o) ==
    /\ \A q \in st.prev : q.p[1] = o => q.term
    /\ st.nodes[o] # Nil => st.nodes[o].term

MissingPods == {o \in Ordinals : ~HasPod(o) /\ ProcessCreationAllowed(o) /\ Used(o) < scene.incs}
StoppablePods == {o \in Ordinals : HasPod(o) /\ ~pod[o].deleting}

WorkloadDue == IF WorkloadStopped THEN StoppablePods # {} ELSE MissingPods # {}

First(S) == CHOOSE o \in S : \A i \in S : o <= i

ReconcileWorkload ==
    /\ PassStart /\ ~cr.deleting /\ ~AcceptDue /\ ~CredentialsDue /\ WorkloadDue
    /\ IF WorkloadStopped
       THEN pod' = [pod EXCEPT ![First(StoppablePods)].deleting = TRUE] /\ UNCHANGED proc
       ELSE /\ pod' = [o \in Ordinals |-> IF o \in MissingPods
                                          THEN [NoPod EXCEPT !.inc = Used(o) + 1] ELSE pod[o]]
            /\ proc' = [p \in Procs |-> IF p[1] \in MissingPods /\ p[2] = Used(p[1]) + 1
                                        THEN [Blank EXCEPT !.run = "starting", !.size = TemplateSize]
                                        ELSE proc[p]]
    /\ UNCHANGED <<data, scene, st, cr>> /\ NextPass

\* reconcileProcess, one ordinal at a time.
ObservesProcess(o) ==
    /\ o \in op.todo /\ ~cr.deleting /\ st.deletion = Nil /\ cr.exists
    /\ op.todo = Ordinals => ~AcceptDue /\ ~CredentialsDue /\ ~WorkloadDue
    /\ ReconcileProcessOrdinal(o)

-----------------------------------------------------------------------------
(* Rotation of the password                                                *)

RotationDue == st.rotation # Nil /\ st.failover = Nil
InRotation(stage) == AfterFailover /\ RotationDue /\ st.rotation.stage = stage
ToStage(stage) == [st EXCEPT !.rotation.stage = stage, !.empty = FALSE]

RotationProcesses(primary) ==
    {n \in Nodes \cup st.prev : (st.primary # Nil /\ IsPrimary(n.p)) <=> primary}

\* A bug: a process of which no new answer is known counts as done.
UnconfirmedLenient(primary) ==
    {n \in RotationProcesses(primary) : ~n.term /\ n.obs = "ok" /\ n.p \notin st.rotation.confirmed}

\* Processes whose new password is not confirmed.
Unconfirmed(primary) ==
    {n \in RotationProcesses(primary) : ~n.term /\ n.p \notin st.rotation.confirmed}

Rotatable(primary) ==
    {n \in Unconfirmed(primary) : /\ n.obs = "ok" /\ CurrentPod(n.p) /\ Reachable(n.p)
                                  /\ n.p \notin op.skipped}

\* A bug: connections that logged in with the old password stay open.
RotateCommandsLenient == <<RotateAppPassword(st.accepted.pw)>>

\* rotateProcessPassword
RotateCommands == <<RotateAppPassword(st.accepted.pw), KillAppClients>>

RotatesPassword(primary) ==
    \E n \in Rotatable(primary) :
        /\ \A m \in Rotatable(primary) : n.p[1] <= m.p[1]
        /\ \/ /\ proc[n.p].app = n.app
              /\ Commanded(n.p, RotateCommands,
                    [st EXCEPT !.rotation.confirmed = @ \cup {n.p},
                               !.nodes = [o \in Ordinals |->
                                   IF @[o] = n THEN [n EXCEPT !.pw = st.accepted.pw] ELSE @[o]]])
           \/ GivesUp(n.p, RotateCommands, proc[n.p].app # n.app)

PreparesRotation == InRotation("preparing") /\ Saved(ToStage("replicas"))

\* Replicas first; one that cannot be reached does not hold up the primary.
RotatesReplicas ==
    /\ InRotation("replicas")
    /\ IF Rotatable(FALSE) # {} THEN RotatesPassword(FALSE)
       ELSE ~(Unconfirmed(FALSE) # {} /\ Unconfirmed(TRUE) = {}) /\ Saved(ToStage("primary"))

RotatesPrimary ==
    /\ InRotation("primary")
    /\ IF Rotatable(TRUE) # {} THEN RotatesPassword(TRUE)
       ELSE /\ Unconfirmed(TRUE) = {}
            /\ Saved(ToStage(IF Unconfirmed(FALSE) # {} THEN "replicas" ELSE "cleaning"))

\* finishCredentialRotation: the old hash leaves the Secret in a pass of its own.
CleansSecret ==
    /\ InRotation("cleaning") /\ st.rotation.old \in cr.hashes
    /\ cr' = [cr EXCEPT !.hashes = @ \ {st.rotation.old}]
    /\ UNCHANGED <<machine, st>> /\ NextPass

\* A bug: the password that is in force is not recorded.
FinishesRotationUnapplied ==
    /\ InRotation("cleaning") /\ st.rotation.old \notin cr.hashes
    /\ Saved(ApplyOperationalPhase([st EXCEPT !.rotation = Nil]))

FinishesRotation ==
    /\ InRotation("cleaning") /\ st.rotation.old \notin cr.hashes
    /\ Saved(ApplyOperationalPhase([st EXCEPT !.applied.pw = st.accepted.pw, !.rotation = Nil]))

ReconcileCredentialRotation ==
    PreparesRotation \/ RotatesReplicas \/ RotatesPrimary \/ CleansSecret \/ FinishesRotation

AfterRotation == AfterFailover /\ ~RotationDue

-----------------------------------------------------------------------------
(* Resize                                                                  *)

InRollout(stage) ==
    AfterRotation /\ st.rollout # Nil /\ st.failover = Nil /\ st.rollout.stage = stage

Advance(stage) == [st EXCEPT !.rollout.stage = stage, !.rollout.p = Nil, !.empty = FALSE]

RolloutPodMatches(n) == CurrentPod(n.p) /\ proc[n.p].size = st.accepted.size

\* A bug: a process that answers is taken for one that serves.
ServingAnswers(n) == ~n.term /\ n.obs = "ok"

\* rolloutProcessReady, without and with the template of the Pod.
Serving(n) ==
    /\ ~n.term /\ n.obs = "ok" /\ n.ready /\ n.app /\ PasswordOK(n)
    /\ n.role = "replica" => n.link /\ n.synced
RolloutProcessReady(n) == Serving(n) /\ RolloutPodMatches(n)

CompositionReady ==
    /\ st.initialized /\ PrimaryPubliclyReady(st) /\ Cardinality(Nodes) = scene.count
    /\ \A n \in Nodes : RolloutProcessReady(n)
    /\ HA => Cardinality(ReadyReplicas) = scene.count - 1

PreparesRollout ==
    InRollout("preparing") /\ Saved(Advance(IF RolloutRequiresFullStop THEN "stopping" ELSE "template"))

\* closeAllProcessesForRollout: the first process with a label or open access.
Unclosed ==
    {n \in Live : \/ ~LabelGone(n.p)
                  \/ /\ n.obs = "ok" /\ (n.app \/ ~PasswordOK(n))
                     /\ CurrentPod(n.p) => Reachable(n.p) /\ n.p \notin op.skipped}

ClosesProcesses ==
    /\ InRollout("stopping") /\ ~st.rollout.closed
    /\ IF Unclosed = {} THEN Saved([st EXCEPT !.rollout.closed = TRUE])
       ELSE \E n \in Unclosed :
            /\ \A m \in Unclosed : n.p[1] <= m.p[1]
            /\ IF ~LabelGone(n.p) THEN RemovesRoleLabel(n.p)
               ELSE CurrentPod(n.p) /\ ( \/ Commanded(n.p, AppAccess(n.p, FALSE), st)
                                         \/ GivesUp(n.p, AppAccess(n.p, FALSE), FALSE) )

\* A bug: a process that does not answer is taken for a stopped one.
AllRolloutProcessesStoppedSilent == \A n \in Nodes \cup st.prev : Failed(n)

AllRolloutProcessesStopped ==
    (\A n \in Nodes \cup st.prev : n.term) /\ (\A o \in Ordinals : ~HasPod(o))

StopsProcesses ==
    /\ InRollout("stopping") /\ st.rollout.closed /\ AllRolloutProcessesStopped
    /\ SavedLoss([st EXCEPT !.rollout.stage = "template", !.primary = Nil, !.public = FALSE,
                            !.loss = "resize"])

UpdatesTemplate ==
    InRollout("template") /\ Saved(Advance(IF RolloutRequiresFullStop THEN "starting" ELSE "replicas"))

\* reconcileRollingReplacement: one process at a time is closed, deleted and
\* waited for; the primary's turn comes after the switch.
OthersThanPrimary == {n \in Nodes : st.primary = Nil \/ n.p[1] # st.primary[1]}

NotReplaced == {n \in OthersThanPrimary : n.term \/ ~RolloutProcessReady(n)}
NextToReplace == {n \in NotReplaced : \A m \in NotReplaced : n.p[1] <= m.p[1]}

Replaces(old) ==
    \/ ~old.term /\ RemovesRoleLabel(old.p)
    \/ /\ ~old.term /\ LabelGone(old.p) /\ (old.app \/ ~PasswordOK(old))
       /\ Fences(old.p, st)
    \/ /\ ~old.term /\ LabelGone(old.p) /\ ~old.app /\ PasswordOK(old)
       /\ CurrentPod(old.p) /\ ~pod[old.p[1]].deleting /\ ~cr.deleting
       /\ pod' = [pod EXCEPT ![old.p[1]].deleting = TRUE]
       /\ UNCHANGED <<proc, data, scene, st, cr>> /\ NextPass
    \/ /\ old.term
       /\ \E n \in Nodes : n.p[1] = old.p[1] /\ n.p # old.p /\ RolloutProcessReady(n)
       /\ Saved([st EXCEPT !.rollout.p = Nil])

RollingReplacement(stage, next) ==
    /\ InRollout(stage)
    /\ IF st.rollout.p # Nil THEN \E old \in Known(st.rollout.p) : Replaces(old)
       ELSE IF NotReplaced = {} THEN Saved(Advance(next))
       ELSE \E n \in NextToReplace : /\ ~n.term /\ CurrentPod(n.p) /\ ~RolloutPodMatches(n)
                                     /\ Saved([st EXCEPT !.rollout.p = n.p])

\* A bug: the pass ends with every wait.
RollingYieldsNever == FALSE

\* The replacement of a process is under way and later steps of the pass may
\* help it along.
RollingYields ==
    IF st.rollout.p # Nil
    THEN \E old \in Known(st.rollout.p) :
            IF old.term THEN \A n \in Nodes : n.p[1] = old.p[1] =>
                                    n.p = old.p \/ (~RolloutProcessReady(n) /\ (Serving(n) => CurrentPod(n.p)))
            ELSE LabelGone(old.p) /\ ~old.app /\ PasswordOK(old) /\ CurrentPod(old.p) /\ pod[old.p[1]].deleting
    ELSE \E n \in NextToReplace : ~n.term /\ RolloutPodMatches(n)

\* One process whose Pod cannot be read holds the choice up.
SwitchesPrimary ==
    /\ InRollout("switching") /\ st.primary # Nil
    /\ LET primary == st.nodes[st.primary[1]] IN
        /\ primary # Nil /\ CurrentPod(primary.p)
        /\ IF RolloutPodMatches(primary) THEN Saved(Advance("primary"))
           ELSE /\ \A n \in Nodes : Serving(n) => CurrentPod(n.p)
                /\ \E n \in Candidates(primary, {m \in Nodes : RolloutProcessReady(m)}) :
                    Saved([st EXCEPT !.failover = Failover("resize", primary.p, n.p), !.empty = FALSE])

StartsRollout == InRollout("starting") /\ CompositionReady /\ Saved(Advance("verifying"))

VerifiesRollout ==
    /\ InRollout("verifying") /\ CompositionReady
    /\ IF \E o \in Ordinals : ~Labelled(o) THEN SetsPodMetadata
       ELSE Saved(ApplyOperationalPhase([st EXCEPT !.applied.size = st.accepted.size, !.rollout = Nil]))

ReconcileRollout ==
    \/ PreparesRollout \/ ClosesProcesses \/ StopsProcesses \/ UpdatesTemplate
    \/ RollingReplacement("replicas", "switching") \/ SwitchesPrimary
    \/ RollingReplacement("primary", "verifying") \/ StartsRollout \/ VerifiesRollout

RolloutDue ==
    /\ st.rollout # Nil /\ st.failover = Nil
    /\ CASE st.rollout.stage = "starting" -> CompositionReady
         [] st.rollout.stage \in {"replicas", "primary"} -> ~RollingYields
         [] OTHER -> TRUE

AfterRollout == AfterRotation /\ ~RolloutDue
=============================================================================
