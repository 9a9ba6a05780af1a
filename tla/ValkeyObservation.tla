------------------------- MODULE ValkeyObservation -------------------------
(***************************************************************************)
(* The status of a ValkeyInstance, and how a pass of the operator brings   *)
(* it up to date: the observation of every process, the series of          *)
(* observation errors, and the proofs that a process has stopped           *)
(* (process_observation.go, process_health.go, process_termination.go).    *)
(*                                                                         *)
(* A pass reads the configuration, observes every ordinal (in parallel     *)
(* goroutines, so in any order), and then acts once: whatever changes      *)
(* something ends the pass and asks for the next one.  The status has one  *)
(* writer, the operator.                                                   *)
(***************************************************************************)
EXTENDS ValkeyProcess

VARIABLES
    st,         \* ValkeyInstance.Status
    cr,         \* the rest of the ValkeyInstance, and its Secret
    op          \* the operator's own memory: how far its pass is, what it has seen

machine == <<proc, pod, data, scene>>

\* A NodeStatus.  obs is Observation with the thresholds it has reached ("ok":
\* none); rec is Recovery; role "none": stopped before it was ever observed.
NodeOf(p) ==
    [p |-> p, role |-> "none", app |-> FALSE, pw |-> 0, ready |-> FALSE, obs |-> "ok",
     term |-> FALSE, rec |-> "none", up |-> Nil, link |-> FALSE, synced |-> FALSE, hist |-> 0]

Nodes == {st.nodes[o] : o \in {i \in Ordinals : st.nodes[i] # Nil}}
Live == {n \in Nodes : ~n.term}

\* knownProcess: the entries, at most one, of a process.
Known(p) == {n \in Nodes \cup st.prev : n.p = p}

Unterminated == \E n \in st.prev : ~n.term

\* primaryIdentityMatches.  A single instance may not have its primary yet.
IsPrimary(p) == st.primary = p \/ (~HA /\ st.primary = Nil)

PrimaryNode == {n \in Nodes : n.p = st.primary}

\* The password the accepted configuration asks for.
PasswordOK(n) == n.pw = st.accepted.pw

\* A bug: growing stops everything, and shrinking does not.
RolloutRequiresFullStopSwapped == st.rollout # Nil /\ (HA => st.accepted.size > st.applied.size)

RolloutRequiresFullStop == st.rollout # Nil /\ (HA => st.accepted.size < st.applied.size)

\* A bug: an assignment that has been saved is taken for one that was carried out.
EmptyPrimaryAssignmentAllowedOnce == ~st.initialized /\ st.primary = Nil

\* A fresh cache may get a primary: at first, after a full stop, or when the
\* marker of an empty recovery says so.
EmptyPrimaryAssignmentAllowed ==
    \/ ~st.initialized
    \/ /\ \A n \in PrimaryNode : n.term \/ n.role # "primary"
       /\ IF RolloutRequiresFullStop /\ st.rollout.stage \in {"starting", "verifying"}
          THEN st.primary = Nil \/ \E n \in PrimaryNode : ~n.term
          ELSE st.empty /\ st.loss = "stopped"

\* currentProcessPod: the Pod still runs the process, on the Node it ran on.
CurrentPod(p) == IsPodOf(p) /\ ContainerRunning(p) /\ NodeExists(p)

-----------------------------------------------------------------------------
(* Sessions, as the steps of a pass use them                               *)

\* updateAppAccess; the access asked for may be there already.
AppAccess(p, enabled) ==
    LET v == st.accepted.pw
        right == proc[p].pw = v
    IN IF ~enabled
       THEN IF ~proc[p].app /\ right THEN <<KillAppClients>>
                                     ELSE <<SetAppUser(FALSE, v), KillAppClients>>
       ELSE IF proc[p].app /\ right THEN <<>>
       ELSE IF right THEN <<SetAppUser(TRUE, v)>>
       ELSE <<SetAppUser(FALSE, v), KillAppClients, SetAppUser(TRUE, v)>>

NextPass == op' = [op EXCEPT !.todo = Ordinals, !.err = FALSE, !.skipped = {}]

\* A step of the pass: commands in a session that get their answers, and the
\* status they lead to ...
Commanded(p, cmds, status) ==
    /\ Reachable(p) /\ Session(p, cmds)
    /\ st' = status /\ UNCHANGED <<pod, scene, cr>> /\ NextPass

\* ... or break off, which leaves the status as it was.
BrokenOff(p, cmds) ==
    /\ Reachable(p) /\ Interrupted(p, cmds)
    /\ UNCHANGED <<pod, st, cr>> /\ NextPass

\* A step that goes through several processes gives this one up for the pass,
\* because its answer was lost or shows another access than the status, and
\* goes on with the next.
GivesUp(p, cmds, answered) ==
    /\ Reachable(p)
    /\ Interrupted(p, cmds) \/ (answered /\ Session(p, cmds) /\ UNCHANGED scene)
    /\ op' = [op EXCEPT !.skipped = @ \cup {p}]
    /\ UNCHANGED <<pod, st, cr>>

\* A step that only saves a status.
Saved(status) == status # st /\ st' = status /\ UNCHANGED <<machine, cr>> /\ NextPass

\* ... one that declares the loss of the cache.
SavedLoss(status) ==
    /\ status # st /\ st' = status /\ served' = 0
    /\ UNCHANGED <<proc, pod, lineage, scene, cr>> /\ NextPass

-----------------------------------------------------------------------------
(* Observation of one ordinal                                              *)

\* A bug: an answer goes to the entry of the first ordinal.
WithNodeFirst(s, n) == [s EXCEPT !.nodes[0] = n]

WithNode(s, n) == [s EXCEPT !.nodes[n.p[1]] = n]

AffectsPrimary(o) == st.primary = Nil \/ st.primary[1] = o

\* The reason of the phase is overwritten; only EMPTY_RECOVERY is ever read.
Idle == st.failover = Nil /\ st.rollout = Nil /\ st.rotation = Nil
LosesMarker(s, cond) == [s EXCEPT !.empty = @ /\ ~cond]

ProcessUnavailable(o) ==
    LET s == IF st.nodes[o] = Nil THEN st ELSE [st EXCEPT !.nodes[o].ready = FALSE]
    IN LosesMarker(s, AffectsPrimary(o))

Stopped(n) == [n EXCEPT !.ready = FALSE, !.term = TRUE]

SaveNodeDeletion(n) ==
    LosesMarker(WithNode(st, Stopped(n)), AffectsPrimary(n.p[1]) \/ (HA /\ Idle))

\* saveContainerTermination, once the node's own entry is settled.
SaveContainerTermination(o) ==
    LET p == CurrentProc(o)
        n == st.nodes[o]
        same == n # Nil /\ n.p = p
        kept == IF n = Nil \/ same \/ st.deletion = Nil THEN st.prev ELSE st.prev \cup {n}
    IN LosesMarker([WithNode(st, IF same THEN Stopped(n) ELSE Stopped(NodeOf(p)))
                        EXCEPT !.prev = {IF q.p = p THEN Stopped(q) ELSE q : q \in kept}],
                   AffectsPrimary(o))

TerminationProofLost == [st EXCEPT !.empty = FALSE]

\* A bug: the finalizer stays on a Pod whose process is proven stopped.
ReleaseTerminatedPodHalf(o) == pod' = [pod EXCEPT ![o].deleting = TRUE]

\* releaseTerminatedPod: delete the Pod, in a later pass drop its finalizer.
ReleaseTerminatedPod(o) ==
    pod' = [pod EXCEPT ![o] = IF @.deleting THEN NoPod ELSE [@ EXCEPT !.deleting = TRUE]]

\* The series of errors of a process goes on, unless the last one was seen
\* before the operator started.  Thresholds pass with time.
NextObs(n, kind) ==
    LET before == IF n.p \in op.counted THEN n.obs ELSE "ok"
    IN CASE kind = "transport" /\ before = "error" -> {"error", "failed", "stuck"}
         [] kind = "transport" /\ before = "failed" -> {"failed", "stuck"}
         [] kind = "transport" /\ before = "stuck" -> {"stuck"}
         [] kind = "busy" /\ before = "busy" -> {"busy", "busylong"}
         [] kind = "busy" /\ before = "busylong" -> {"busylong"}
         [] OTHER -> {IF kind = "busy" THEN "busy" ELSE "error"}

\* recordProcessObservationError
ObservationError(o, p, kind, obs) ==
    LET n == st.nodes[o]
        known == n # Nil /\ n.p = p
        confirmed == kind # "transport" \/ (known /\ obs \in {"failed", "stuck"})
        s == IF known THEN [st EXCEPT !.nodes[o].ready = PodReady(p), !.nodes[o].obs = obs]
             ELSE st
    IN LosesMarker(s, (AffectsPrimary(o) /\ confirmed) \/ (HA /\ Idle))

\* mergeObservedReplication: SyncedAt stays while history and upstream do.
MergedSync(n, p) ==
    \/ n # Nil /\ n.synced /\ n.hist = proc[p].hist /\ n.up = proc[p].source
    \/ proc[p].role = "replica" /\ LinkUp(p)

\* retainedProcessRecovery: a process that answers again keeps only a recovery
\* that has asked for its deletion.
RetainedRecovery(n, p) ==
    IF n = Nil \/ n.p # p THEN "none"
    ELSE IF n.rec = "waiting" THEN "waiting"
    ELSE IF pod[p[1]].deleting /\ n.rec \in {"deleting", "deletingBusy"} THEN "waiting"
    ELSE IF pod[p[1]].deleting THEN n.rec ELSE "none"

Observed(o, p) ==
    LET n == st.nodes[o] IN
    [p |-> p, role |-> proc[p].role, app |-> proc[p].app,
     pw |-> IF proc[p].pw = st.accepted.pw THEN st.accepted.pw ELSE 0,
     ready |-> PodReady(p), obs |-> "ok", term |-> FALSE, rec |-> RetainedRecovery(n, p),
     up |-> proc[p].source, link |-> proc[p].role = "replica" /\ LinkUp(p),
     synced |-> MergedSync(n, p), hist |-> proc[p].hist]

\* A bug: a process whose Pod is gone is taken for a stopped one.
IdentityChangedStopped(o, p) ==
    LET n == st.nodes[o] IN
    [WithNode(st, Observed(o, p)) EXCEPT !.prev = {q \in @ : q.p # n.p} \cup {Stopped(n)},
                                         !.primary = IF ~HA THEN p ELSE @]

\* The ordinal runs another process: the old one goes to the history, with the
\* deletion of its Node as a proof of its stop if there is one.
IdentityChanged(o, p) ==
    LET n == st.nodes[o]
        old == [n EXCEPT !.term = @ \/ ~NodeExists(n.p)]
        s == [WithNode(st, Observed(o, p)) EXCEPT
                 !.prev = {q \in @ : q.p # n.p} \cup {old},
                 !.primary = IF ~HA /\ n.term THEN p ELSE @]
    IN LosesMarker(s, \E q \in s.prev : ~q.term)

RecordProcess(o, p) == LosesMarker(WithNode(st, Observed(o, p)), Unterminated)

\* The answer of a process that must not serve anybody is not recorded before
\* its access is closed.
MustClose(p) ==
    /\ EmptyPrimaryAssignmentAllowed \/ Unterminated
    /\ proc[p].app \/ proc[p].pw # st.accepted.pw

Seen(o, p) == [op EXCEPT !.todo = @ \ {o}, !.counted = @ \cup {p}]
Done(o) == [op EXCEPT !.todo = @ \ {o}]

\* reconcileProcessOrdinal, in the order of its checks.
WithoutProcess(o) ==
    LET n == st.nodes[o]
        p == CurrentProc(o)
        matches == n # Nil /\ n.p = p
        gone == n # Nil /\ ~n.term /\ ~NodeExists(n.p)
    IN /\ CASE ~HasPod(o) ->
                  /\ st' = IF gone THEN SaveNodeDeletion(n) ELSE ProcessUnavailable(o)
                  /\ UNCHANGED pod
            [] HasPod(o) /\ ContainerTerminated(p) ->
                  IF matches /\ n.term THEN ReleaseTerminatedPod(o) /\ UNCHANGED st
                  ELSE /\ st' = IF n # Nil /\ ~matches /\ st.deletion = Nil
                                THEN TerminationProofLost ELSE SaveContainerTermination(o)
                       /\ UNCHANGED pod
            [] HasPod(o) /\ ContainerRunning(p) /\ matches /\ n.term ->
                  ReleaseTerminatedPod(o) /\ UNCHANGED st
            [] HasPod(o) /\ ~ContainerTerminated(p) /\ ~ContainerRunning(p) ->
                  st' = ProcessUnavailable(o) /\ UNCHANGED pod
            [] HasPod(o) /\ ContainerRunning(p) /\ ~NodeExists(p) /\ ~(matches /\ n.term) ->
                  /\ st' = IF matches THEN SaveNodeDeletion(n) ELSE st
                  /\ UNCHANGED pod
            [] OTHER -> FALSE
       /\ op' = [Done(o) EXCEPT !.err = @ \/ (HasPod(o) /\ ContainerRunning(p)
                                              /\ ~NodeExists(p) /\ ~matches)]
       /\ UNCHANGED <<proc, data, scene, cr>>

\* The Pod of the ordinal runs a process that can be asked.
Inspectable(o) ==
    /\ HasPod(o) /\ CurrentPod(CurrentProc(o))
    /\ st.nodes[o] # Nil => ~(st.nodes[o].p = CurrentProc(o) /\ st.nodes[o].term)

WithAnswer(o) ==
    LET n == st.nodes[o]
        p == CurrentProc(o)
        changed == n # Nil /\ n.p # p
        taken == IF p \in op.controlled THEN proc[p] ELSE TakeControl(proc[p])
    IN /\ Inspectable(o) /\ Reachable(p)
       /\ changed \/ ~MustClose(p)
       /\ st' = IF changed THEN IdentityChanged(o, p) ELSE RecordProcess(o, p)
       /\ proc' = [proc EXCEPT ![p] = taken]
       /\ op' = [Done(o) EXCEPT !.controlled = @ \cup {p}]
       /\ UNCHANGED <<pod, data, scene, cr>>

ClosesAccess(o) ==
    LET p == CurrentProc(o) IN
    /\ Inspectable(o) /\ Reachable(p)
    /\ st.nodes[o] # Nil => st.nodes[o].p = p
    /\ MustClose(p)
    /\ \/ /\ Session(p, AppAccess(p, FALSE))
          /\ op' = Done(o) /\ UNCHANGED scene
       \/ /\ Interrupted(p, AppAccess(p, FALSE))
          /\ op' = [Done(o) EXCEPT !.err = TRUE]
    /\ UNCHANGED <<pod, st, cr>>

WithoutAnswer(o) ==
    LET p == CurrentProc(o)
        kind == IF Up(p) /\ proc[p].link = "ok" /\ proc[p].state = "busy" THEN "busy" ELSE "transport"
    IN /\ Inspectable(o) /\ ~Reachable(p)
       /\ \E obs \in IF p \in {n.p : n \in Nodes} THEN NextObs(st.nodes[o], kind) ELSE {"error"} :
              st' = ObservationError(o, p, kind, obs)
       /\ op' = Seen(o, p)
       /\ UNCHANGED <<machine, cr>>

ReconcileProcessOrdinal(o) ==
    WithoutProcess(o) \/ WithAnswer(o) \/ ClosesAccess(o) \/ WithoutAnswer(o)
=============================================================================
