--------------------------- MODULE ValkeyFailover ---------------------------
(***************************************************************************)
(* The acting half of a pass: manual fencing, recovery of a stuck process, *)
(* failover, the topology of the replicas, Pod labels and the admission of *)
(* the application (manual_fencing.go, process_recovery.go, failover.go,   *)
(* topology.go, app_admission.go, availability.go).                        *)
(*                                                                         *)
(* Each step returns a result that ends the pass, or nothing and the next  *)
(* step runs.  XDue says that step X ends the pass, a wait included;       *)
(* AfterX, that the pass goes on behind it.                                *)
(***************************************************************************)
EXTENDS ValkeyObservation

Acting == op.todo = {} /\ ~op.err /\ st.deletion = Nil

\* A step that has given a process up is still under way: the steps before it
\* are over.
Undivided == op.skipped = {}

TransportFailure(n) == n.obs \in {"failed", "stuck"}
Failed(n) == n.term \/ TransportFailure(n)

-----------------------------------------------------------------------------
(* What a status says about the service                                    *)

PrimaryPubliclyReady(s) ==
    /\ s.public /\ s.primary # Nil
    /\ LET n == s.nodes[s.primary[1]] IN
        /\ n # Nil
        /\ n.role = "primary" /\ ~n.term /\ n.obs = "ok" /\ n.ready /\ n.app /\ n.pw = s.accepted.pw

\* A bug: whatever is served is taken for what was asked for.
ApplyOperationalPhaseHasty(s) ==
    [s EXCEPT !.empty = FALSE,
              !.reported = @ \/ (PrimaryPubliclyReady(s) /\ \A q \in s.prev : q.term)]

\* applyOperationalPhase, of which only the confirmation of the accepted
\* configuration (ObservedGeneration) is ever read; a degraded instance
\* confirms it too.
ApplyOperationalPhase(s) ==
    [s EXCEPT !.empty = FALSE,
              !.reported = @ \/ ( /\ PrimaryPubliclyReady(s) /\ \A q \in s.prev : q.term
                                 /\ s.failover = Nil /\ s.rollout = Nil /\ s.rotation = Nil
                                 /\ s.applied = s.accepted )]

\* readyReplicaCount
ReadyReplicas ==
    {n \in Live : n.role = "replica" /\ n.obs = "ok" /\ n.ready /\ n.app /\ PasswordOK(n)
                  /\ n.link /\ n.synced}

\* currentProcessRoleLabel
RoleLabel(o) ==
    LET n == st.nodes[o] IN
    IF n = Nil \/ Unterminated \/ proc[CurrentProc(o)].run = "starting" THEN "none"
    ELSE IF n.term \/ n.p # CurrentProc(o) THEN "none"
    ELSE IF n.role = "primary" /\ IsPrimary(n.p) THEN "primary"
    ELSE IF HA /\ n \in ReadyReplicas THEN "replica" ELSE "none"

Labelled(o) == HasPod(o) => pod[o].label = RoleLabel(o)

\* reconcilePodMetadata: the first Pod whose label is wrong.
SetsPodMetadata ==
    /\ \E o \in Ordinals :
        /\ ~Labelled(o) /\ \A i \in 0 .. o - 1 : Labelled(i)
        /\ pod' = [pod EXCEPT ![o].label = RoleLabel(o)]
    /\ UNCHANGED <<proc, data, scene, st, cr>> /\ NextPass

-----------------------------------------------------------------------------
(* Manual fencing: the annotation names a process that somebody has stopped *)

FencedNode == {n \in Nodes \cup st.prev : n.p = cr.fence}

ManualFencingExpected(n) ==
    \/ n.rec # "none"
    \/ st.failover # Nil /\ n.p \in {st.failover.source, st.failover.cand}
    \/ st.rollout # Nil /\ st.rollout.p = n.p
    \/ \E q \in st.prev : q.p = n.p /\ ~q.term

ManualFencingDue == \E n \in FencedNode : n.term \/ ManualFencingExpected(n)

AcceptsManualFencing ==
    /\ Acting /\ Undivided
    /\ \E n \in FencedNode :
        /\ ~n.term /\ ManualFencingExpected(n) /\ ~NodeReady(n.p)
        /\ st' = [st EXCEPT
                    !.nodes = [o \in Ordinals |-> IF @[o] # Nil /\ @[o].p = n.p THEN Stopped(@[o])
                                                                                 ELSE @[o]],
                    !.prev = {IF q.p = n.p THEN Stopped(q) ELSE q : q \in @}]
    /\ UNCHANGED <<machine, cr>> /\ NextPass

RemovesAnnotation ==
    /\ Acting /\ Undivided /\ \E n \in FencedNode : n.term
    /\ cr' = [cr EXCEPT !.fence = Nil]
    /\ UNCHANGED <<machine, st>> /\ NextPass

AfterManualFencing == Acting /\ ~ManualFencingDue

-----------------------------------------------------------------------------
(* Recovery of a process that is busy or does not answer                   *)

EligibleForDeletion(n) ==
    CurrentPod(n.p) /\ NodeReady(n.p) /\ (PodReady(n.p) => pod[n.p[1]].deleting)

\* processRecoveryCanceledByResponse: a process that was silent is busy after all.
RecoveryCanceled(n) == n.rec = "deleting" /\ n.obs \in {"busy", "busylong"}

\* The stage the next step of a recovery leads to; "pending": it waits.
RecoverySteps(n) ==
    CASE n.term -> {}
      [] ~n.term /\ n.rec = "none" ->
            IF n.obs = "busylong" THEN {"killing"}
            ELSE IF n.obs = "stuck" /\ EligibleForDeletion(n) THEN {"deleting"} ELSE {}
      [] ~n.term /\ n.rec = "killing" ->
            IF n.obs = "stuck" THEN {"deletingBusy"}
            ELSE IF ~CurrentPod(n.p) \/ ~Up(n.p) \/ proc[n.p].link # "ok" \/ proc[n.p].state = "hung"
            THEN {"pending"}
            ELSE IF proc[n.p].state = "busy" THEN {"none", "deletingBusy"} ELSE {"none"}
      [] ~n.term /\ n.rec \in {"deleting", "deletingBusy"} ->
            IF RecoveryCanceled(n) \/ ~EligibleForDeletion(n) THEN {"none"} ELSE {"waiting"}
      [] OTHER -> {"pending"}

RecoveryDue == \E n \in Nodes : RecoverySteps(n) \notin {{}, {"pending"}}
RecoveryPending == \E n \in Nodes : RecoverySteps(n) = {"pending"}

\* The first ordinal that has something to do.
RecoveryOrdinal(o) ==
    /\ st.nodes[o] # Nil /\ RecoverySteps(st.nodes[o]) \notin {{}, {"pending"}}
    /\ \A i \in 0 .. o - 1 : st.nodes[i] # Nil => RecoverySteps(st.nodes[i]) \in {{}, {"pending"}}

\* The deletion of the Pod comes before the status that records it, which may
\* not be saved any more.
ReconcileProcessRecovery ==
    /\ AfterManualFencing /\ Undivided
    /\ \E o \in Ordinals : RecoveryOrdinal(o) /\ \E stage \in RecoverySteps(st.nodes[o]) :
        LET n == st.nodes[o]
            killed == n.rec = "killing" /\ stage = "none"
            unsaved == IF stage = "waiting" /\ ~pod[o].deleting THEN {n.rec} ELSE {}
        IN /\ \E rec \in {stage} \cup unsaved : st' = [st EXCEPT !.nodes[o].rec = rec]
           /\ proc' = [proc EXCEPT ![n.p].state = IF killed THEN "ok" ELSE @]
           /\ pod' = [pod EXCEPT ![o].deleting = @ \/ stage = "waiting"]
    /\ UNCHANGED <<data, scene, cr>> /\ NextPass

AfterRecovery == AfterManualFencing /\ ~RecoveryDue

-----------------------------------------------------------------------------
(* Failover                                                                *)

Failover(reason, source, cand) ==
    [reason |-> reason, stage |-> "fencing", source |-> source, cand |-> cand,
     srcFenced |-> FALSE, candFenced |-> FALSE, mayBe |-> FALSE, deadline |-> FALSE, empty |-> FALSE]

FullStopOwnsAvailability == RolloutRequiresFullStop /\ st.rollout.stage \in {"stopping", "template"}

\* failoverPrimaryProcess
FailoverPrimary == Known(st.primary)

\* A current process that has never held anything.
EmptyNode(n) ==
    n.obs = "ok" /\ n.role = "replica" /\ ~n.app /\ PasswordOK(n) /\ ~n.synced /\ n.hist = 0

EmptyRecoverySafe ==
    /\ st.initialized /\ HA /\ st.primary # Nil
    /\ Cardinality(Nodes) = scene.count /\ Cardinality(st.prev) >= scene.count /\ ~Unterminated
    /\ \E n \in FailoverPrimary : n.term
    /\ \A n \in Nodes : /\ ~n.term /\ EmptyNode(n)
                        /\ \E q \in st.prev : q.p[1] = n.p[1] /\ q.term /\ q.p # n.p

EmptyRecoveryWaitingSafe ==
    /\ st.failover # Nil /\ st.failover.reason = "failure" /\ Nodes # {}
    /\ \A n \in Live : EmptyNode(n)
    /\ \A q \in st.prev : \/ q.term
                          \/ q.p = st.failover.source /\ st.failover.srcFenced
                          \/ q.p = st.failover.cand /\ st.failover.candFenced

EmptyRecovery(loss) ==
    [st EXCEPT !.failover = Nil, !.primary = Nil, !.empty = TRUE, !.loss = loss]

\* A bug: any replica will do.
CandidatesAny(source, nodes) ==
    {n \in nodes : n.p[1] # source.p[1] /\ n.role = "replica" /\ ~n.term /\ n.obs = "ok"}

\* chooseFailoverCandidate; offsets decide among equal histories, so any of them
\* may be the one.
Candidates(source, nodes) ==
    {n \in nodes : /\ n.p[1] # source.p[1] /\ n.role = "replica" /\ ~n.term /\ n.obs = "ok"
                   /\ n.synced /\ n.hist = source.hist}

ReconfigurationReady ==
    /\ PrimaryPubliclyReady(st) /\ PrimaryNode # {} /\ CurrentPod(st.primary)
    /\ \A n \in Live : (n.p[1] # st.primary[1] /\ n.obs = "ok") =>
            n.role = "replica" /\ n.link /\ n.up = st.primary /\ PasswordOK(n)

FailoverDue ==
    IF FullStopOwnsAvailability THEN st.failover # Nil
    ELSE /\ HA /\ st.initialized
         /\ IF st.failover = Nil
            THEN IF st.primary = Nil THEN ~EmptyPrimaryAssignmentAllowed
                 ELSE FailoverPrimary = {} \/ \E n \in FailoverPrimary : Failed(n)
            ELSE \/ st.failover.stage # "reconfiguring"
                 \/ FailoverPrimary = {} \/ \E n \in FailoverPrimary : Failed(n)
                 \/ ReconfigurationReady

InFailover(stage) ==
    AfterRecovery /\ Undivided /\ ~FullStopOwnsAvailability /\ st.failover # Nil /\ st.failover.stage = stage

\* A full stop that meets a failover drops it, and an unknown primary is another
\* way into an empty recovery: neither can happen (OperationsNameTheKnown), so
\* neither is an action.
StartsFailureFailover ==
    /\ AfterRecovery /\ Undivided /\ ~FullStopOwnsAvailability /\ HA /\ st.initialized /\ st.failover = Nil
    /\ st.primary # Nil
    /\ \E n \in FailoverPrimary :
        Failed(n) /\ Saved([st EXCEPT !.failover = Failover("failure", n.p, Nil), !.empty = FALSE])

RemovesRoleLabel(p) ==
    /\ CurrentPod(p) /\ pod[p[1]].label # "none"
    /\ pod' = [pod EXCEPT ![p[1]].label = "none"]
    /\ UNCHANGED <<proc, data, scene, st, cr>> /\ NextPass
LabelGone(p) == ~(CurrentPod(p) /\ pod[p[1]].label # "none")

\* fenceProcess and the status that records it.
Fences(p, status) ==
    CurrentPod(p) /\ (Commanded(p, AppAccess(p, FALSE), status) \/ BrokenOff(p, AppAccess(p, FALSE)))

\* A bug: an old primary that does not answer is taken for a stopped one.
ReconcileFailoverFencingUnproven ==
    /\ InFailover("fencing")
    /\ \E n \in Known(st.failover.source) :
        \/ ~n.term /\ RemovesRoleLabel(n.p)
        \/ /\ ~n.term /\ LabelGone(n.p) /\ ~st.failover.srcFenced
           /\ Fences(n.p, [st EXCEPT !.failover.srcFenced = TRUE])
        \/ /\ n.term \/ (LabelGone(n.p) /\ (st.failover.srcFenced \/ TransportFailure(n)))
           /\ Saved([st EXCEPT !.failover.stage = "choosing"])

\* A bug: the Service goes on leading to the old primary.
ReconcileFailoverFencingLabelled ==
    /\ InFailover("fencing")
    /\ \E n \in Known(st.failover.source) :
        \/ /\ ~n.term /\ ~st.failover.srcFenced
           /\ Fences(n.p, [st EXCEPT !.failover.srcFenced = TRUE])
        \/ /\ n.term \/ st.failover.srcFenced
           /\ Saved([st EXCEPT !.failover.stage = "choosing"])

\* A bug: an old primary that has stopped still has to be fenced.
ReconcileFailoverFencingStrict ==
    /\ InFailover("fencing")
    /\ \E n \in Known(st.failover.source) :
        \/ ~n.term /\ RemovesRoleLabel(n.p)
        \/ /\ LabelGone(n.p) /\ ~st.failover.srcFenced
           /\ Fences(n.p, [st EXCEPT !.failover.srcFenced = TRUE])
        \/ /\ LabelGone(n.p) /\ st.failover.srcFenced
           /\ Saved([st EXCEPT !.failover.stage = "choosing"])

ReconcileFailoverFencing ==
    /\ InFailover("fencing")
    /\ \E n \in Known(st.failover.source) :
        \/ ~n.term /\ RemovesRoleLabel(n.p)
        \/ /\ ~n.term /\ LabelGone(n.p) /\ ~st.failover.srcFenced
           /\ Fences(n.p, [st EXCEPT !.failover.srcFenced = TRUE])
        \/ /\ n.term \/ (LabelGone(n.p) /\ st.failover.srcFenced)
           /\ Saved([st EXCEPT !.failover.stage = "choosing"])

NoCandidate(f) ==
    [f EXCEPT !.stage = "choosing", !.cand = Nil, !.candFenced = FALSE, !.mayBe = FALSE,
              !.deadline = FALSE]

ChoosesCandidate ==
    /\ InFailover("choosing") /\ st.failover.cand = Nil
    /\ \E source \in Known(st.failover.source) : \E n \in Candidates(source, Nodes) :
        Saved([st EXCEPT !.failover = [@ EXCEPT !.cand = n.p, !.empty = FALSE, !.deadline = TRUE]])

\* Without a candidate the cache may start empty: at once when every process
\* that held data is proven stopped, after a while when those that remain are
\* fenced and empty.
WithoutCandidate ==
    /\ InFailover("choosing") /\ st.failover.cand = Nil
    /\ \E source \in Known(st.failover.source) : Candidates(source, Nodes) = {}
    /\ IF EmptyRecoverySafe THEN SavedLoss(EmptyRecovery("stopped"))
       ELSE IF ~EmptyRecoveryWaitingSafe THEN Saved([st EXCEPT !.failover.empty = FALSE])
       ELSE \/ Saved([st EXCEPT !.failover.empty = TRUE])
            \/ st.failover.empty /\ SavedLoss(EmptyRecovery("timedout"))

PreparesCandidate ==
    /\ InFailover("choosing") /\ st.failover.cand # Nil
    /\ IF ~st.failover.deadline
       THEN Known(st.failover.source) # {} /\ Saved([st EXCEPT !.failover.deadline = TRUE])
       ELSE \E n \in Known(st.failover.cand) :
            IF n.term THEN Saved([st EXCEPT !.failover = NoCandidate(@)])
            ELSE IF ~st.failover.candFenced THEN Fences(n.p, [st EXCEPT !.failover.candFenced = TRUE])
            ELSE Saved([st EXCEPT !.failover.stage = "promoting"])

\* promoteProcess: whoever is a primary already stays one.
PromoteCommands(p) == IF proc[p].role = "replica" THEN <<Promote>> ELSE <<>>
Promotes(p, status) ==
    CurrentPod(p) /\ (Commanded(p, PromoteCommands(p), status) \/ BrokenOff(p, PromoteCommands(p)))

\* A bug: a candidate that stops answering is given up although it may already
\* be a primary.
ReconcileFailoverPromotingImpatient ==
    /\ InFailover("promoting")
    /\ \E n \in Known(st.failover.cand) :
        IF n.term \/ TransportFailure(n) THEN Saved([st EXCEPT !.failover = NoCandidate(@)])
        ELSE IF n.role = "primary"
        THEN Saved([st EXCEPT !.primary = n.p, !.failover.stage = "reconfiguring"])
        ELSE /\ n.role = "replica" /\ ~n.app /\ PasswordOK(n)
             /\ IF ~st.failover.mayBe THEN Saved([st EXCEPT !.failover.mayBe = TRUE])
                ELSE Promotes(n.p, st)

ReconcileFailoverPromoting ==
    /\ InFailover("promoting")
    /\ \E n \in Known(st.failover.cand) :
        IF n.term THEN Saved([st EXCEPT !.failover = NoCandidate(@)])
        ELSE IF n.role = "primary"
        THEN Saved([st EXCEPT !.primary = n.p, !.failover.stage = "reconfiguring"])
        ELSE /\ n.role = "replica" /\ ~n.app /\ PasswordOK(n)
             /\ IF ~st.failover.mayBe THEN Saved([st EXCEPT !.failover.mayBe = TRUE])
                ELSE Promotes(n.p, st)

ReconcileFailoverReconfiguring ==
    /\ InFailover("reconfiguring")
    /\ \E n \in FailoverPrimary :
        IF Failed(n) THEN Saved([st EXCEPT !.failover = [Failover("failure", n.p, Nil) EXCEPT
                                                            !.empty = st.failover.empty]])
        ELSE ReconfigurationReady /\ Saved(ApplyOperationalPhase([st EXCEPT !.failover = Nil]))

ReconcileFailover ==
    \/ StartsFailureFailover \/ ReconcileFailoverFencing \/ ChoosesCandidate \/ WithoutCandidate
    \/ PreparesCandidate \/ ReconcileFailoverPromoting \/ ReconcileFailoverReconfiguring

AfterFailover ==
    AfterRecovery /\ ~FailoverDue /\ (st.failover = Nil => ~RecoveryPending)
=============================================================================
