------------------------- MODULE ValkeyTargetProofs -------------------------
(***************************************************************************)
(* For any instance and anything that may happen to it: the labels of      *)
(* reconcilePodMetadata lead the primary Service to one process at most.   *)
(***************************************************************************)
EXTENDS ValkeyOperatorProofs

-----------------------------------------------------------------------------
(* The inductive invariant                                                  *)

\* The Service selects the Pod of the process.
Leads(p) == IsPodOf(p) /\ pod[p[1]].label = "primary"

\* The process the label may be left on: the primary.  Once a failover has
\* started it has to be its source, and from the choice of a candidate until the
\* new primary is known nobody may have it.
MayLead(s, p) ==
    /\ p = s.primary
    /\ s.failover # Nil => \/ s.failover.stage = "reconfiguring"
                           \/ s.failover.stage = "fencing" /\ p = s.failover.source

\* A process that has stopped may keep the label: its Pod is not ready.
TargetInv == HA => \A p \in Procs : Leads(p) => MayLead(st, p) \/ proc[p].run = "down"

\* What a step has to establish, of the processes as they were before it.
TargetNext == HA => \A p \in Procs : Leads(p)' => MayLead(st', p) \/ proc[p].run = "down"

LEMMA TargetGoesOn == ASSUME Steady, TargetNext PROVE TargetInv'
  BY KeptSets DEF Steady, StoppedForGood, TargetNext, TargetInv

-----------------------------------------------------------------------------
(* Steps that leave the primary, the failover and the labels alone          *)

SameAim(s) == HA => s.primary = st.primary /\ s.failover = st.failover
LabelsKept == \A p \in Procs : Leads(p)' => Leads(p)
Quiet == SameAim(st') /\ LabelsKept

LEMMA QuietStep == ASSUME TargetInv, Quiet PROVE TargetNext
  BY DEF TargetInv, TargetNext, Quiet, SameAim, LabelsKept, MayLead

LEMMA SamePods == ASSUME UNCHANGED pod PROVE LabelsKept
  BY DEF LabelsKept, Leads, IsPodOf

LEMMA OtherPod ==
    ASSUME OperatorInv, NEW o, NEW r, pod' = [pod EXCEPT ![o] = r],
           r.label = "primary" => r.label = pod[o].label /\ r.inc = pod[o].inc
    PROVE  LabelsKept
<1> SUFFICES ASSUME NEW p \in Procs, Leads(p)' PROVE Leads(p)
  BY DEF LabelsKept
<1>1. p[1] \in Ordinals /\ pod \in [Ordinals -> Pod]
  BY ProcsAreNamed, StInv
<1> QED
  BY <1>1 DEF Leads, IsPodOf

LEMMA DeletedPodKept ==
    ASSUME OperatorInv, NEW o, NEW b, pod' = [pod EXCEPT ![o].deleting = b]
    PROVE  LabelsKept
<1>1. CASE o \in Ordinals
  <2> DEFINE q == pod[o]
             r == [q EXCEPT !.deleting = b]
  <2>1. r.label = pod[o].label /\ r.inc = pod[o].inc
    BY <1>1, StInv DEF Pod
  <2>2. pod' = [pod EXCEPT ![o] = r]
    OBVIOUS
  <2> HIDE DEF r
  <2> QED
    BY <2>1, <2>2, OtherPod
<1>2. CASE o \notin Ordinals
  <2>1. pod' = pod
    BY <1>2, StInv
  <2> QED
    BY <2>1, SamePods
<1> QED
  BY <1>1, <1>2

LEMMA UnlabelledPod ==
    ASSUME OperatorInv, NEW o, pod' = [pod EXCEPT ![o].label = "none"] PROVE LabelsKept
<1>1. CASE o \in Ordinals
  <2> DEFINE q == pod[o]
             r == [q EXCEPT !.label = "none"]
  <2>1. r.label = "none"
    BY <1>1, StInv DEF Pod
  <2>2. pod' = [pod EXCEPT ![o] = r]
    OBVIOUS
  <2> HIDE DEF r
  <2> QED
    BY <2>1, <2>2, OtherPod
<1>2. CASE o \notin Ordinals
  <2>1. pod' = pod
    BY <1>2, StInv
  <2> QED
    BY <2>1, SamePods
<1> QED
  BY <1>1, <1>2

LEMMA RemovedPod ==
    ASSUME OperatorInv, NEW o, pod' = [pod EXCEPT ![o] = NoPod] PROVE LabelsKept
  BY OtherPod DEF NoPod

LEMMA ReleasedPodKept ==
    ASSUME OperatorInv, NEW o \in Ordinals, ReleaseTerminatedPod(o) PROVE LabelsKept
<1>1. \/ pod' = [pod EXCEPT ![o] = NoPod]
      \/ pod' = [pod EXCEPT ![o].deleting = TRUE]
  BY DEF ReleaseTerminatedPod
<1> QED
  BY <1>1, RemovedPod, DeletedPodKept

LEMMA SameStatus == ASSUME UNCHANGED st PROVE SameAim(st')
  BY DEF SameAim

LEMMA OutsideQuiet ==
    ASSUME OperatorInv, EndsPass \/ Restart \/ Kubelet \/ Copies \/ Returns \/ User
    PROVE  Quiet
<1>1. UNCHANGED <<pod, st>>
  BY DEF EndsPass, Restart, Kubelet, Copies, Returns, User, Outside, machine, RequestSize,
     RequestPassword, RequestDeletion, RequestFencing, Request, KubeletStarts, KubeletStops,
     Synchronize, LinkReturns, Resume, Changes
<1> QED
  BY <1>1, SamePods, SameStatus DEF Quiet

LEMMA FailuresQuiet == ASSUME OperatorInv, Failures PROVE Quiet
<1>1. UNCHANGED st
  BY DEF Failures, Outside
<1>2. \/ UNCHANGED pod
      \/ \E o \in Ordinals : RemovePod(o)
      \/ \E o \in Ordinals : MakePod(o, TemplateSize)
  BY DEF Failures, LateCommand, Crash, Isolate, Cut, Hang, Busy, Unplaced, PowerOff,
         DeleteNode, Fault, Changes
<1>3. ASSUME NEW o \in Ordinals, RemovePod(o) PROVE LabelsKept
  BY <1>3, RemovedPod DEF RemovePod
<1>4. ASSUME NEW o \in Ordinals, MakePod(o, TemplateSize) PROVE LabelsKept
  <2> DEFINE r == [NoPod EXCEPT !.inc = Used(o) + 1]
  <2>1. r.label = "none"
    BY DEF NoPod
  <2>2. pod' = [pod EXCEPT ![o] = r]
    BY <1>4, Zenon DEF MakePod, NewPod
  <2> HIDE DEF r
  <2> QED
    BY <2>1, <2>2, OtherPod
<1> QED
  BY <1>1, <1>2, <1>3, <1>4, SamePods, SameStatus DEF Quiet

LEMMA MarkerAim ==
    ASSUME NEW s \in Status, NEW cond, SameAim(s) PROVE SameAim(LosesMarker(s, cond))
  BY DEF SameAim, LosesMarker, Status

LEMMA NodeAim == ASSUME OperatorInv, NEW n PROVE SameAim(WithNode(st, n))
  BY StInv DEF SameAim, WithNode, Status

LEMMA PhaseAim ==
    ASSUME NEW s \in Status, SameAim(s) PROVE SameAim(ApplyOperationalPhase(s))
  BY DEF SameAim, ApplyOperationalPhase, Status

LEMMA WithoutProcessQuiet ==
    ASSUME OperatorInv, NEW o \in Ordinals, WithoutProcess(o) PROVE Quiet
<1> DEFINE n == st.nodes[o]
<1>1. \/ \E m : st' = SaveNodeDeletion(m) /\ UNCHANGED pod
      \/ st' = ProcessUnavailable(o) /\ UNCHANGED pod
      \/ ReleaseTerminatedPod(o) /\ UNCHANGED st
      \/ st' = TerminationProofLost /\ UNCHANGED pod
      \/ st' = SaveContainerTermination(o) /\ UNCHANGED pod
      \/ st' = st /\ UNCHANGED pod
  BY DEF WithoutProcess
<1>2. ASSUME NEW m PROVE SameAim(SaveNodeDeletion(m))
  BY StInv DEF SaveNodeDeletion, WithNode, LosesMarker, SameAim, Status
<1>3. SameAim(ProcessUnavailable(o))
  BY StInv DEF ProcessUnavailable, LosesMarker, SameAim, Status
<1>4. SameAim(TerminationProofLost)
  BY StInv DEF TerminationProofLost, SameAim, Status
<1>5. SameAim(SaveContainerTermination(o))
  BY StInv DEF SaveContainerTermination, WithNode, LosesMarker, SameAim, Status
<1> QED
  BY <1>1, <1>2, <1>3, <1>4, <1>5, SamePods, SameStatus, ReleasedPodKept DEF Quiet

LEMMA WithAnswerQuiet == ASSUME OperatorInv, NEW o \in Ordinals, WithAnswer(o) PROVE Quiet
<1> DEFINE p == CurrentProc(o)
<1>1. UNCHANGED pod /\ (st' = IdentityChanged(o, p) \/ st' = RecordProcess(o, p))
  BY DEF WithAnswer
<1>2. SameAim(IdentityChanged(o, p))
  BY StInv DEF IdentityChanged, WithNode, LosesMarker, SameAim, Status
<1>3. SameAim(RecordProcess(o, p))
  BY StInv DEF RecordProcess, WithNode, LosesMarker, SameAim, Status
<1> QED
  BY <1>1, <1>2, <1>3, SamePods DEF Quiet

LEMMA ObservesQuiet == ASSUME OperatorInv, Observes PROVE Quiet
<1>1. ASSUME NEW o \in Ordinals, ClosesAccess(o) PROVE Quiet
  BY <1>1, SamePods, SameStatus DEF ClosesAccess, Quiet
<1>2. ASSUME NEW o \in Ordinals, WithoutAnswer(o) PROVE Quiet
  <2>1. PICK p, kind, obs : st' = ObservationError(o, p, kind, obs)
    BY <1>2, Zenon DEF WithoutAnswer
  <2>2. SameAim(ObservationError(o, p, kind, obs))
    BY StInv DEF ObservationError, LosesMarker, SameAim, Status
  <2>3. UNCHANGED pod
    BY <1>2 DEF WithoutAnswer, machine
  <2> QED
    BY <2>1, <2>2, <2>3, SamePods DEF Quiet
<1> QED
  BY <1>1, <1>2, WithoutProcessQuiet, WithAnswerQuiet
     DEF Observes, ObservesProcess, ReconcileProcessOrdinal

LEMMA StartQuiet ==
    ASSUME OperatorInv, ReconcileAcceptedConfiguration \/ ReconcileCredentials \/ ReconcileWorkload
    PROVE  Quiet
<1>1. CASE ReconcileAcceptedConfiguration
  <2>1. UNCHANGED pod /\ SameAim(st')
    BY <1>1, StInv DEF ReconcileAcceptedConfiguration, Saved, machine, SameAim, Status
  <2> QED
    BY <2>1, SamePods DEF Quiet
<1>2. CASE ReconcileCredentials
  BY <1>2, SamePods, SameStatus DEF ReconcileCredentials, machine, Quiet
<1>3. CASE ReconcileWorkload
  <2>1. UNCHANGED st
    BY <1>3 DEF ReconcileWorkload
  <2>2. CASE WorkloadStopped
    <3>1. pod' = [pod EXCEPT ![First(StoppablePods)].deleting = TRUE]
      BY <1>3, <2>2, Zenon DEF ReconcileWorkload
    <3> QED
      BY <2>1, <3>1, DeletedPodKept, SameStatus DEF Quiet
  <2>3. CASE ~WorkloadStopped
    <3>1. pod' = [o \in Ordinals |-> IF o \in MissingPods
                                     THEN [NoPod EXCEPT !.inc = Used(o) + 1] ELSE pod[o]]
      BY <1>3, <2>3, Zenon DEF ReconcileWorkload
    <3>2. ASSUME NEW p \in Procs, Leads(p)' PROVE Leads(p)
      BY <3>1, <3>2, ProcsAreNamed, StInv DEF Leads, IsPodOf, NoPod
    <3> QED
      BY <2>1, <3>2, SameStatus DEF Quiet, LabelsKept
  <2> QED
    BY <2>2, <2>3
<1> QED
  BY <1>1, <1>2, <1>3

LEMMA RecoveryQuiet ==
    ASSUME OperatorInv, AcceptsManualFencing \/ RemovesAnnotation \/ ReconcileProcessRecovery
    PROVE  Quiet
<1>1. CASE AcceptsManualFencing
  <2>1. UNCHANGED pod
    BY <1>1 DEF AcceptsManualFencing, machine
  <2>2. PICK n \in FencedNode :
            st' = [st EXCEPT
                    !.nodes = [o \in Ordinals |-> IF @[o] # Nil /\ @[o].p = n.p THEN Stopped(@[o])
                                                                                 ELSE @[o]],
                    !.prev = {IF q.p = n.p THEN Stopped(q) ELSE q : q \in @}]
    BY <1>1, Zenon DEF AcceptsManualFencing
  <2>3. SameAim(st')
    BY <2>2, StInv DEF SameAim, Status
  <2> QED
    BY <2>1, <2>3, SamePods DEF Quiet
<1>2. CASE RemovesAnnotation
  BY <1>2, SamePods, SameStatus DEF RemovesAnnotation, machine, Quiet
<1>3. CASE ReconcileProcessRecovery
  <2>1. PICK o, stage, rec :
          /\ st' = [st EXCEPT !.nodes[o].rec = rec]
          /\ pod' = [pod EXCEPT ![o].deleting = @ \/ stage = "waiting"]
    BY <1>3, Zenon DEF ReconcileProcessRecovery
  <2>2. SameAim(st')
    BY <2>1, StInv DEF SameAim, Status
  <2> DEFINE b == pod[o].deleting \/ stage = "waiting"
  <2>3. pod' = [pod EXCEPT ![o].deleting = b]
    BY <2>1
  <2> HIDE DEF b
  <2>4. LabelsKept
    BY <2>3, DeletedPodKept
  <2> QED
    BY <2>2, <2>4 DEF Quiet
<1> QED
  BY <1>1, <1>2, <1>3

\* A step that only talks to a process and saves a status.
LEMMA SavedQuiet ==
    ASSUME OperatorInv, NEW s, SameAim(s), NEW p, NEW cmds,
           \/ Saved(s) \/ SavedLoss(s) \/ Commanded(p, cmds, s) \/ BrokenOff(p, cmds)
           \/ \E answered : GivesUp(p, cmds, answered)
    PROVE  Quiet
<1>1. UNCHANGED pod /\ (st' = s \/ UNCHANGED st)
  BY DEF Saved, SavedLoss, Commanded, BrokenOff, GivesUp, machine
<1> QED
  BY <1>1, SamePods, SameStatus DEF Quiet

LEMMA FencesQuiet ==
    ASSUME OperatorInv, NEW s, SameAim(s), NEW p, Fences(p, s) PROVE Quiet
  BY SavedQuiet DEF Fences

LEMMA UnlabelledQuiet == ASSUME OperatorInv, NEW p \in Procs, RemovesRoleLabel(p) PROVE Quiet
<1>1. p[1] \in Ordinals
  BY ProcsAreNamed, StInv
<1> QED
  BY <1>1, UnlabelledPod, SameStatus DEF RemovesRoleLabel, Quiet

LEMMA RotationQuiet == ASSUME OperatorInv, ReconcileCredentialRotation PROVE Quiet
<1>1. ASSUME NEW stage, Saved(ToStage(stage)) PROVE Quiet
  <2>1. SameAim(ToStage(stage))
    BY StInv DEF ToStage, SameAim, Status
  <2> QED
    BY <1>1, <2>1, SavedQuiet
<1>2. ASSUME NEW primary, RotatesPassword(primary) PROVE Quiet
  <2> DEFINE Rotated(n) == [st EXCEPT !.rotation.confirmed = @ \cup {n.p},
                                      !.nodes = [o \in Ordinals |->
                                        IF @[o] = n THEN [n EXCEPT !.pw = st.accepted.pw] ELSE @[o]]]
  <2>1. PICK n : \/ Commanded(n.p, RotateCommands, Rotated(n))
                 \/ GivesUp(n.p, RotateCommands, proc[n.p].app # n.app)
    BY <1>2, Zenon DEF RotatesPassword
  <2> DEFINE s == Rotated(n)
  <2>2. SameAim(s)
    BY StInv DEF SameAim, Status
  <2> QED
    BY <2>1, <2>2, SavedQuiet, Zenon
<1>3. CASE CleansSecret
  BY <1>3, SamePods, SameStatus DEF CleansSecret, machine, Quiet
<1>4. CASE FinishesRotation
  <2> DEFINE s == [st EXCEPT !.applied.pw = st.accepted.pw, !.rotation = Nil]
  <2>1. SameAim(ApplyOperationalPhase(s))
    BY StInv DEF ApplyOperationalPhase, SameAim, Status
  <2>2. Saved(ApplyOperationalPhase(s))
    BY <1>4, Zenon DEF FinishesRotation
  <2> QED
    BY <2>1, <2>2, SavedQuiet
<1> QED
  BY <1>1, <1>2, <1>3, <1>4
     DEF ReconcileCredentialRotation, PreparesRotation, RotatesReplicas, RotatesPrimary

LEMMA AdvanceQuiet == ASSUME OperatorInv, NEW stage, Saved(Advance(stage)) PROVE Quiet
<1>1. SameAim(Advance(stage))
  BY StInv DEF Advance, SameAim, Status
<1> QED
  BY <1>1, SavedQuiet

LEMMA ClosesProcessesQuiet == ASSUME OperatorInv, ClosesProcesses PROVE Quiet
<1>1. \/ Saved([st EXCEPT !.rollout.closed = TRUE])
      \/ \E n \in Unclosed : \/ RemovesRoleLabel(n.p)
                            \/ Commanded(n.p, AppAccess(n.p, FALSE), st)
                            \/ GivesUp(n.p, AppAccess(n.p, FALSE), FALSE)
  BY Zenon DEF ClosesProcesses
<1>2. \A n \in Unclosed : n.p \in Procs
  BY EntriesInv DEF Unclosed, Live
<1>3. SameAim([st EXCEPT !.rollout.closed = TRUE]) /\ SameAim(st)
  BY StInv DEF SameAim, Status
<1> QED
  BY <1>1, <1>2, <1>3, SavedQuiet, UnlabelledQuiet

LEMMA RollingReplacementQuiet ==
    ASSUME OperatorInv, NEW stage, NEW next, RollingReplacement(stage, next) PROVE Quiet
<1>1. \/ \E old \in Known(st.rollout.p) : Replaces(old)
      \/ Saved(Advance(next))
      \/ \E n : Saved([st EXCEPT !.rollout.p = n.p])
  BY Zenon DEF RollingReplacement
<1>2. ASSUME NEW p PROVE SameAim([st EXCEPT !.rollout.p = p])
  BY StInv DEF SameAim, Status
<1>3. ASSUME NEW old \in Known(st.rollout.p), Replaces(old) PROVE Quiet
  <2>1. old.p \in Procs
    BY KnownFacts
  <2>2. \/ RemovesRoleLabel(old.p)
        \/ Fences(old.p, st)
        \/ pod' = [pod EXCEPT ![old.p[1]].deleting = TRUE] /\ UNCHANGED st
        \/ Saved([st EXCEPT !.rollout.p = Nil])
    BY <1>3, Zenon DEF Replaces
  <2>3. SameAim(st)
    BY DEF SameAim
  <2> QED
    BY <1>2, <2>1, <2>2, <2>3, SavedQuiet, FencesQuiet, UnlabelledQuiet, DeletedPodKept, SameStatus
       DEF Quiet
<1> QED
  BY <1>1, <1>2, <1>3, AdvanceQuiet, SavedQuiet

LEMMA FollowsPrimaryQuiet == ASSUME OperatorInv, FollowsPrimary PROVE Quiet
<1>1. SameAim(st)
  BY DEF SameAim
<1> QED
  BY <1>1, SavedQuiet DEF FollowsPrimary

LEMMA AdmittedNodeAim ==
    ASSUME OperatorInv, NEW p
    PROVE  AdmittedNode(st, p).primary = st.primary /\ AdmittedNode(st, p).failover = st.failover
  BY StInv DEF AdmittedNode, Status

LEMMA AdmissionQuiet ==
    ASSUME OperatorInv, AdmitsReplica \/ AdmitsApp \/ AdmissionPending \/ ReconcileProcessHistory
    PROVE  Quiet
<1>1. SameAim(st)
  BY DEF SameAim
<1>2. SameAim(Pending)
  BY StInv DEF Pending, SameAim, Status
<1>3. CASE AdmitsReplica
  <2>1. PICK n \in AdmissibleReplicas :
          LET good == proc[n.p].role = "replica" /\ LinkUp(n.p) /\ proc[n.p].source = st.primary IN
           \/ Commanded(n.p, AppAccess(n.p, TRUE),
                        IF good THEN ApplyOperationalPhase(AdmittedNode(st, n.p)) ELSE st)
           \/ BrokenOff(n.p, AppAccess(n.p, TRUE))
    BY <1>3, Zenon DEF AdmitsReplica
  <2>2. SameAim(ApplyOperationalPhase(AdmittedNode(st, n.p)))
    BY StInv DEF ApplyOperationalPhase, AdmittedNode, SameAim, Status
  <2> QED
    BY <1>1, <2>1, <2>2, SavedQuiet
<1>4. CASE AdmitsApp
  <2>1. PICK n \in AdmissionProcess :
          \/ Saved(Admitted(n.p))
          \/ Commanded(n.p, AppAccess(n.p, TRUE), Admitted(n.p))
          \/ Commanded(n.p, AppAccess(n.p, TRUE), Pending)
          \/ BrokenOff(n.p, AppAccess(n.p, TRUE))
    BY <1>4 DEF AdmitsApp
  <2>2. HA => st.primary = n.p
    BY DEF AdmissionProcess, IsPrimary
  <2>3. SameAim(Admitted(n.p))
    BY <2>2, StInv DEF Admitted, ApplyOperationalPhase, AdmittedNode, SameAim, Status
  <2> QED
    BY <1>2, <2>1, <2>3, SavedQuiet
<1>5. CASE AdmissionPending
  BY <1>2, <1>5, SavedQuiet DEF AdmissionPending
<1>6. CASE ReconcileProcessHistory
  <2> DEFINE s == [st EXCEPT !.prev = {q \in @ : ~q.term \/ Required(q)}]
  <2>1. SameAim(s)
    BY StInv DEF SameAim, Status
  <2>2. Saved(s)
    BY <1>6, Zenon DEF ReconcileProcessHistory
  <2> HIDE DEF s
  <2> QED
    BY <2>1, <2>2, SavedQuiet
<1> QED
  BY <1>3, <1>4, <1>5, <1>6

LEMMA DeletionQuiet == ASSUME OperatorInv, ReconcileDeletion PROVE Quiet
<1>1. ASSUME NEW d
      PROVE  SameAim([st EXCEPT !.deletion = d]) /\ SameAim([st EXCEPT !.deletion = d, !.public = FALSE])
  BY StInv DEF SameAim, Status
<1>2. CASE StartsDeletion \/ RemovesNetwork \/ AppDisabled
  BY <1>1, <1>2, SavedQuiet DEF StartsDeletion, RemovesNetwork, AppDisabled
<1>3. CASE DisablesApp
  <2>1. UNCHANGED st /\ (UNCHANGED pod \/ \E o : pod' = [pod EXCEPT ![o].label = "none"])
    BY <1>3 DEF DisablesApp, DisablesOrdinal, machine
  <2> QED
    BY <2>1, SamePods, SameStatus, UnlabelledPod DEF Quiet
<1>4. CASE RequestsDeletionOfPods
  <2>1. \/ pod' = [pod EXCEPT ![First(StoppablePods)].deleting = TRUE] /\ UNCHANGED st
        \/ st' = [st EXCEPT !.deletion = "verifying"] /\ UNCHANGED pod
    BY <1>4, Zenon DEF RequestsDeletionOfPods
  <2> QED
    BY <1>1, <2>1, SamePods, SameStatus, DeletedPodKept DEF Quiet
<1>5. CASE VerifiesDeletion
  <2>1. PICK o \in Ordinals :
          \/ ReleaseTerminatedPod(o) /\ UNCHANGED st
          \/ st' = SaveContainerTermination(o) /\ UNCHANGED pod
          \/ \E m : st' = SaveNodeDeletion(m) /\ UNCHANGED pod
    BY <1>5 DEF VerifiesDeletion, VerifiesOrdinal
  <2>2. ASSUME NEW m PROVE SameAim(SaveNodeDeletion(m))
    BY StInv DEF SaveNodeDeletion, WithNode, LosesMarker, SameAim, Status
  <2>3. SameAim(SaveContainerTermination(o))
    BY StInv DEF SaveContainerTermination, WithNode, LosesMarker, SameAim, Status
  <2> QED
    BY <2>1, <2>2, <2>3, SamePods, SameStatus, ReleasedPodKept DEF Quiet
<1>6. CASE VerifiesPrevious
  <2>1. PICK q : Saved([st EXCEPT !.prev = (@ \ {q}) \cup {Stopped(q)}])
    BY <1>6, Zenon DEF VerifiesPrevious
  <2>2. SameAim([st EXCEPT !.prev = (@ \ {q}) \cup {Stopped(q)}])
    BY StInv DEF SameAim, Status
  <2> QED
    BY <2>1, <2>2, SavedQuiet
<1>7. CASE FinishesDeletion
  BY <1>7, SamePods, SameStatus DEF FinishesDeletion, machine, Quiet
<1> QED
  BY <1>2, <1>3, <1>4, <1>5, <1>6, <1>7 DEF ReconcileDeletion

-----------------------------------------------------------------------------
(* Steps that give the label, or say who may have it                        *)

\* The steps behind the failover run when there is none, or its new primary has
\* been found.
LEMMA BehindFailover ==
    ASSUME OperatorInv, AfterFailover
    PROVE  st.failover = Nil \/ st.failover.stage = "reconfiguring"
  BY FailoverInv DEF AfterFailover, FailoverDue, GoodFailover

\* The label of a primary is given to the primary of the status only.
LEMMA MetadataTarget ==
    ASSUME OperatorInv, TargetInv, SetsPodMetadata,
           st.failover = Nil \/ st.failover.stage = "reconfiguring"
    PROVE  TargetNext
<1> SUFFICES ASSUME HA, NEW p \in Procs, Leads(p)'
             PROVE  MayLead(st', p) \/ proc[p].run = "down"
  BY DEF TargetNext
<1>1. UNCHANGED st
  BY DEF SetsPodMetadata
<1>2. PICK o \in Ordinals : pod' = [pod EXCEPT ![o].label = RoleLabel(o)]
  BY Zenon DEF SetsPodMetadata
<1> DEFINE label == RoleLabel(o)
<1>3. /\ p[1] \in Ordinals /\ p = <<p[1], p[2]>> /\ pod'[p[1]].inc = pod[p[1]].inc
      /\ pod'[p[1]].label = IF p[1] = o THEN label ELSE pod[p[1]].label
  <2> HIDE DEF label
  <2>1. p[1] \in Ordinals /\ p = <<p[1], p[2]>>
    BY ProcsAreNamed, StInv
  <2>2. pod' = [pod EXCEPT ![o].label = label]
    BY <1>2 DEF label
  <2> QED
    BY <2>1, <2>2, StInv DEF Pod
<1>4. CASE p[1] = o
  <2>1. label = "primary" /\ IsPodOf(p)
    BY <1>3, <1>4 DEF Leads, IsPodOf
  <2>2. st.nodes[o].p = CurrentProc(o) /\ IsPrimary(st.nodes[o].p)
    BY <2>1 DEF RoleLabel
  <2>3. p = CurrentProc(o)
    BY <1>3, <1>4, <2>1 DEF IsPodOf, CurrentProc
  <2>4. p = st.primary
    BY <2>2, <2>3 DEF IsPrimary
  <2> QED
    BY <1>1, <2>4 DEF MayLead
<1>5. CASE p[1] # o
  BY <1>1, <1>3, <1>5 DEF Leads, IsPodOf, TargetInv
<1> QED
  BY <1>4, <1>5

LEMMA ReconcilePodMetadataTarget ==
    ASSUME OperatorInv, TargetInv, ReconcilePodMetadata PROVE TargetNext
  BY BehindFailover, MetadataTarget
     DEF ReconcilePodMetadata, AfterTopology, AfterRollout, AfterRotation

\* A failover starts: its source is the process that may have the label.
LEMMA StartedFailover ==
    ASSUME OperatorInv, TargetInv, st.failover = Nil \/ st.failover.stage = "reconfiguring",
           NEW source, \A p \in Procs : Leads(p) /\ p = st.primary => p = source,
           UNCHANGED pod, st'.primary = st.primary,
           st'.failover.stage = "fencing", st'.failover.source = source
    PROVE  TargetNext
  BY SamePods DEF TargetNext, TargetInv, LabelsKept, MayLead

LEMMA FailoverFields ==
    ASSUME OperatorInv, NEW f, NEW s, \/ s = [st EXCEPT !.failover = f]
                                      \/ s = [st EXCEPT !.failover = f, !.empty = FALSE]
    PROVE  s.failover = f /\ s.primary = st.primary
  BY StInv DEF Status

LEMMA StartsFailureFailoverTarget ==
    ASSUME OperatorInv, TargetInv, StartsFailureFailover PROVE TargetNext
<1>1. PICK n \in FailoverPrimary :
          Saved([st EXCEPT !.failover = Failover("failure", n.p, Nil), !.empty = FALSE])
  BY Zenon DEF StartsFailureFailover
<1>2. n.p = st.primary /\ st.failover = Nil
  BY DEF FailoverPrimary, Known, StartsFailureFailover
<1> DEFINE f == Failover("failure", n.p, Nil)
<1>3. f.stage = "fencing" /\ f.source = st.primary
  BY <1>2 DEF Failover
<1>4. st' = [st EXCEPT !.failover = f, !.empty = FALSE] /\ UNCHANGED pod
  BY <1>1 DEF Saved, machine
<1> HIDE DEF f
<1>5. st'.failover = f /\ st'.primary = st.primary
  BY <1>4, FailoverFields
<1> QED
  BY <1>2, <1>3, <1>4, <1>5, StartedFailover

\* The new primary fails too.
LEMMA ReconfiguringTarget ==
    ASSUME OperatorInv, TargetInv, ReconcileFailoverReconfiguring PROVE TargetNext
<1>1. st.failover # Nil /\ st.failover.stage = "reconfiguring"
  BY DEF ReconcileFailoverReconfiguring, InFailover
<1>2. PICK n \in FailoverPrimary :
        \/ Saved([st EXCEPT !.failover = [Failover("failure", n.p, Nil) EXCEPT
                                                            !.empty = st.failover.empty]])
        \/ Saved(ApplyOperationalPhase([st EXCEPT !.failover = Nil]))
  BY Zenon DEF ReconcileFailoverReconfiguring
<1>3. n.p = st.primary
  BY DEF FailoverPrimary, Known
<1>4. UNCHANGED pod
  BY <1>2 DEF Saved, machine
<1>5. CASE Saved([st EXCEPT !.failover = [Failover("failure", n.p, Nil) EXCEPT
                                                            !.empty = st.failover.empty]])
  <2> DEFINE e == st.failover.empty
             f == [Failover("failure", n.p, Nil) EXCEPT !.empty = e]
  <2>1. st' = [st EXCEPT !.failover = f]
    BY <1>5 DEF Saved
  <2> HIDE DEF e
  <2>2. f.stage = "fencing" /\ f.source = st.primary
    BY <1>3 DEF Failover
  <2> HIDE DEF f
  <2>3. st'.failover = f /\ st'.primary = st.primary
    BY <2>1, FailoverFields
  <2> QED
    BY <1>1, <1>4, <2>2, <2>3, StartedFailover
<1>6. CASE Saved(ApplyOperationalPhase([st EXCEPT !.failover = Nil]))
  <2>1. st'.failover = Nil /\ st'.primary = st.primary
    BY <1>6, StInv DEF Saved, ApplyOperationalPhase, Status
  <2> QED
    BY <1>1, <1>4, <2>1, SamePods DEF TargetNext, TargetInv, LabelsKept, MayLead
<1> QED
  BY <1>2, <1>5, <1>6

\* A resize hands over from the process in the ordinal of the primary: its Pod
\* still runs it, so it is the one that has the label.
LEMMA SwitchesPrimaryTarget == ASSUME OperatorInv, TargetInv, SwitchesPrimary PROVE TargetNext
<1> DEFINE primary == st.nodes[st.primary[1]]
<1>1. /\ st.failover = Nil /\ st.primary # Nil /\ primary # Nil /\ IsPodOf(primary.p)
  BY Zenon DEF SwitchesPrimary, InRollout, CurrentPod
<1>2. CASE Saved(Advance("primary"))
  BY <1>2, AdvanceQuiet, QuietStep
<1>3. CASE \E n : Saved([st EXCEPT !.failover = Failover("resize", primary.p, n.p), !.empty = FALSE])
  <2>1. PICK n : Saved([st EXCEPT !.failover = Failover("resize", primary.p, n.p), !.empty = FALSE])
    BY <1>3
  <2> DEFINE source == primary.p
             f == Failover("resize", source, n.p)
  <2>2. f.stage = "fencing" /\ f.source = source
    BY DEF Failover
  <2>3. st' = [st EXCEPT !.failover = f, !.empty = FALSE] /\ UNCHANGED pod
    BY <2>1 DEF Saved, machine
  <2> HIDE DEF f
  <2>4. st'.failover = f /\ st'.primary = st.primary
    BY <2>3, FailoverFields
  <2>5. ASSUME NEW p \in Procs, Leads(p), p = st.primary PROVE p = source
    <3>1. source \in Procs /\ source[1] = p[1]
      BY <1>1, <2>5, EntriesInv, FailoverInv, ProcsAreNamed, StInv
    <3>2. p = <<p[1], p[2]>> /\ source = <<source[1], source[2]>>
      BY <3>1, ProcsAreNamed, StInv
    <3> HIDE DEF source
    <3>3. IsPodOf(source)
      BY <1>1 DEF source
    <3> QED
      BY <2>5, <3>1, <3>2, <3>3 DEF Leads, IsPodOf
  <2> HIDE DEF source
  <2> QED
    BY <1>1, <2>2, <2>3, <2>4, <2>5, StartedFailover
<1> QED
  BY <1>2, <1>3, Zenon DEF SwitchesPrimary

-----------------------------------------------------------------------------
(* Steps while nobody has the label                                         *)

Unled == HA => \A p \in Procs : Leads(p) => proc[p].run = "down"

\* Whoever becomes the primary then, only processes that have stopped have it.
LEMMA UnledStep == ASSUME Unled, LabelsKept PROVE TargetNext
  BY DEF Unled, LabelsKept, TargetNext

LEMMA UnledFailover ==
    ASSUME TargetInv, st.failover # Nil, st.failover.stage \in {"choosing", "promoting"} PROVE Unled
  BY DEF TargetInv, MayLead, Unled

\* reconcileFailoverFencing goes on when the source is proven stopped, or has
\* lost its label.
LEMMA FencingTarget == ASSUME OperatorInv, TargetInv, ReconcileFailoverFencing PROVE TargetNext
<1>1. st.failover # Nil /\ st.failover.stage = "fencing"
  BY DEF ReconcileFailoverFencing, InFailover
<1>2. PICK n \in Known(st.failover.source) :
        \/ ~n.term /\ RemovesRoleLabel(n.p)
        \/ /\ ~n.term /\ LabelGone(n.p) /\ ~st.failover.srcFenced
           /\ Fences(n.p, [st EXCEPT !.failover.srcFenced = TRUE])
        \/ /\ n.term \/ (LabelGone(n.p) /\ st.failover.srcFenced)
           /\ Saved([st EXCEPT !.failover.stage = "choosing"])
  BY Zenon DEF ReconcileFailoverFencing
<1>3. /\ n.p = st.failover.source /\ n.p \in Procs /\ proc[n.p].run \in {"up", "down"}
      /\ n.term => proc[n.p].run = "down"
  BY KnownFacts, EntriesInv
<1>4. CASE RemovesRoleLabel(n.p)
  BY <1>3, <1>4, UnlabelledQuiet, QuietStep
<1>5. CASE Fences(n.p, [st EXCEPT !.failover.srcFenced = TRUE])
  <2> DEFINE o == st.failover
             f == [o EXCEPT !.srcFenced = TRUE]
             s == [st EXCEPT !.failover = f]
  <2>1. UNCHANGED pod /\ (st' = s \/ UNCHANGED st)
    BY <1>5 DEF Fences, Commanded, BrokenOff
  <2>2. o \in FailoverStatus
    BY <1>1, FailoverInv
  <2>3. f.stage = o.stage /\ f.source = o.source
    BY <2>2 DEF FailoverStatus, FailoverStatusOf
  <2> HIDE DEF f
  <2>4. s.failover = f /\ s.primary = st.primary
    BY FailoverFields
  <2>5. CASE st' = s
    <3> HIDE DEF s
    <3>1. \A p : MayLead(st, p) => MayLead(st', p)
      BY <1>1, <2>3, <2>4, <2>5 DEF MayLead
    <3> QED
      BY <2>1, <3>1, SamePods DEF TargetNext, TargetInv, LabelsKept
  <2>6. CASE UNCHANGED st
    BY <2>1, <2>6, SamePods, SameStatus, QuietStep DEF Quiet
  <2> QED
    BY <2>1, <2>5, <2>6
<1>6. CASE /\ n.term \/ (LabelGone(n.p) /\ st.failover.srcFenced)
           /\ Saved([st EXCEPT !.failover.stage = "choosing"])
  <2>1. ASSUME HA, NEW p \in Procs, Leads(p), proc[p].run # "down" PROVE FALSE
    <3>1. p = n.p
      BY <1>1, <1>3, <2>1 DEF TargetInv, MayLead
    <3>2. LabelGone(p) /\ Up(p)
      BY <1>3, <1>6, <2>1, <3>1 DEF Up
    <3>3. CurrentPod(p)
      BY <2>1, <3>2 DEF CurrentPod, ContainerRunning, NodeExists, Leads, OperatorInv, Tracked
    <3> QED
      BY <2>1, <3>2, <3>3 DEF LabelGone, Leads
  <2>2. Unled
    BY <2>1 DEF Unled
  <2>3. LabelsKept
    BY <1>6, SamePods DEF Saved, machine
  <2> QED
    BY <2>2, <2>3, UnledStep
<1> QED
  BY <1>2, <1>4, <1>5, <1>6

LEMMA FailoverTarget == ASSUME OperatorInv, TargetInv, ReconcileFailover PROVE TargetNext
<1>1. CASE ChoosesCandidate \/ WithoutCandidate \/ PreparesCandidate \/ ReconcileFailoverPromoting
  <2>1. Unled
    BY <1>1, UnledFailover
       DEF ChoosesCandidate, WithoutCandidate, PreparesCandidate, ReconcileFailoverPromoting, InFailover
  <2>2. UNCHANGED pod
    BY <1>1, Zenon
       DEF ChoosesCandidate, WithoutCandidate, PreparesCandidate, ReconcileFailoverPromoting,
           Saved, SavedLoss, Fences, Promotes, Commanded, BrokenOff, machine
  <2> QED
    BY <2>1, <2>2, SamePods, UnledStep
<1> QED
  BY <1>1, StartsFailureFailoverTarget, FencingTarget, ReconfiguringTarget DEF ReconcileFailover

\* A full stop forgets the primary when no Pod is left.
LEMMA StopsProcessesTarget == ASSUME OperatorInv, TargetInv, StopsProcesses PROVE TargetNext
<1>1. \A o \in Ordinals : ~HasPod(o)
  BY DEF StopsProcesses, AllRolloutProcessesStopped
<1>2. Unled
  <2> SUFFICES ASSUME NEW p \in Procs, IsPodOf(p) PROVE FALSE
    BY DEF Unled, Leads
  <2>1. p[1] \in Ordinals /\ p[2] \in 1..scene.incs /\ scene.incs \in Nat
    BY ProcsAreNamed, StInv DEF Scene
  <2> QED
    BY <1>1, <2>1 DEF HasPod, IsPodOf
<1>3. LabelsKept
  BY SamePods DEF StopsProcesses, SavedLoss
<1> QED
  BY <1>2, <1>3, UnledStep

LEMMA RolloutTarget == ASSUME OperatorInv, TargetInv, ReconcileRollout PROVE TargetNext
<1>1. CASE PreparesRollout \/ UpdatesTemplate \/ StartsRollout
  BY <1>1, AdvanceQuiet, QuietStep DEF PreparesRollout, UpdatesTemplate, StartsRollout
<1>2. CASE VerifiesRollout
  <2> DEFINE s == [st EXCEPT !.applied.size = st.accepted.size, !.rollout = Nil]
  <2>1. st.failover = Nil /\ (SetsPodMetadata \/ Saved(ApplyOperationalPhase(s)))
    BY <1>2, Zenon DEF VerifiesRollout, InRollout
  <2>2. SameAim(ApplyOperationalPhase(s))
    BY StInv DEF ApplyOperationalPhase, SameAim, Status
  <2> HIDE DEF s
  <2> QED
    BY <2>1, <2>2, SavedQuiet, QuietStep, MetadataTarget
<1>3. CASE RollingReplacement("replicas", "switching") \/ RollingReplacement("primary", "verifying")
  BY <1>3, RollingReplacementQuiet, QuietStep
<1> QED
  BY <1>1, <1>2, <1>3, ClosesProcessesQuiet, QuietStep, StopsProcessesTarget, SwitchesPrimaryTarget
     DEF ReconcileRollout

\* Another process is assigned only when the one before it is proven stopped.
LEMMA AssignsInitialPrimaryTarget ==
    ASSUME OperatorInv, TargetInv, AssignsInitialPrimary PROVE TargetNext
<1> DEFINE n == st.nodes[0]
<1>1. /\ AfterRollout
      /\ \/ Promotes(n.p, st)
         \/ /\ st.primary # Nil => InitialPrimaryReplacementSafe
            /\ UNCHANGED pod
  BY Zenon DEF AssignsInitialPrimary, Saved, machine
<1>2. CASE Promotes(n.p, st)
  BY <1>2, SavedQuiet, QuietStep DEF Promotes, SameAim
<1>3. CASE /\ st.primary # Nil => InitialPrimaryReplacementSafe
           /\ UNCHANGED pod
  <2>1. ASSUME HA, NEW p \in Procs, Leads(p), proc[p].run # "down" PROVE FALSE
    <3>1. p = st.primary /\ st.primary # Nil
      BY <2>1, ProcsAreNamed, StInv DEF TargetInv, MayLead
    <3>2. PICK q \in st.prev : q.p = st.primary /\ q.term
      BY <1>3, <3>1 DEF InitialPrimaryReplacementSafe
    <3> QED
      BY <2>1, <3>1, <3>2, EntriesInv
  <2>2. Unled
    BY <2>1 DEF Unled
  <2> QED
    BY <1>3, <2>2, SamePods, UnledStep
<1> QED
  BY <1>1, <1>2, <1>3

-----------------------------------------------------------------------------
(* Every step                                                               *)

LEMMA NextTarget == ASSUME OperatorInv, TargetInv, Next PROVE TargetNext
<1>1. CASE Acts
  BY <1>1, StartQuiet, RecoveryQuiet, FailoverTarget, RotationQuiet, RolloutTarget,
     AssignsInitialPrimaryTarget, FollowsPrimaryQuiet, ReconcilePodMetadataTarget, AdmissionQuiet,
     DeletionQuiet, QuietStep DEF Acts
<1> QED
  BY <1>1, ObservesQuiet, OutsideQuiet, FailuresQuiet, QuietStep DEF Next

LEMMA TargetNextInv == OperatorInv /\ TargetInv /\ [Next]_vars => TargetInv'
<1> SUFFICES ASSUME OperatorInv, TargetInv, [Next]_vars PROVE TargetInv'
  OBVIOUS
<1>1. CASE Next
  BY <1>1, NextStep, NextTarget, TargetGoesOn
<1>2. CASE UNCHANGED vars
  <2>1. Quiet
    BY <1>2, SamePods, SameStatus DEF vars, Quiet
  <2> QED
    BY <1>2, <2>1, StutteringStep, QuietStep, TargetGoesOn
<1> QED
  BY <1>1, <1>2

LEMMA InitTarget == Init => TargetInv
<1> SUFFICES ASSUME Init, HA, NEW p \in Procs, Leads(p) PROVE MayLead(st, p)
  BY DEF TargetInv
<1>1. st.failover = Nil /\ st.primary = IF scene.serving THEN <<0, 1>> ELSE Nil
  BY DEF Init
<1>2. OperatorInv
  BY InitInv
<1>3. p[1] \in Ordinals /\ p[2] \in 1..scene.incs /\ scene.incs \in Nat /\ p = <<p[1], p[2]>>
  BY <1>2, ProcsAreNamed, StInv DEF Scene
<1>4. pod[p[1]] = IF scene.serving
                  THEN [inc |-> 1, deleting |-> FALSE, label |-> Serving0(p[1]).role] ELSE NoPod
  BY <1>3 DEF Init
<1>5. scene.serving
  BY <1>3, <1>4 DEF Leads, IsPodOf, NoPod
<1>6. p[2] = 1 /\ Serving0(p[1]).role = "primary"
  BY <1>4, <1>5 DEF Leads, IsPodOf
<1>7. Serving0(p[1]).role = IF p[1] = 0 THEN "primary" ELSE "replica"
  BY DEF Serving0, NodeOf
<1> QED
  BY <1>1, <1>3, <1>5, <1>6, <1>7 DEF MayLead

-----------------------------------------------------------------------------
(* Theorem                                                                  *)

\* Whatever fails and whoever becomes the primary, the labels of
\* reconcilePodMetadata select one running process at most: the label leaves the
\* old primary, or the old primary has stopped, before anybody else gets it.
THEOREM OneTargetHolds == Spec => []OneTarget
<1>1. OperatorInv /\ TargetInv => OneTarget
  <2> SUFFICES ASSUME OperatorInv, TargetInv PROVE Cardinality(ServiceTargets) <= 1
    BY DEF OneTarget
  <2>1. ASSUME NEW p \in ServiceTargets, NEW q \in ServiceTargets PROVE p = q
    <3>1. /\ p \in Procs /\ Leads(p) /\ proc[p].run = "up"
          /\ q \in Procs /\ Leads(q) /\ proc[q].run = "up"
      BY DEF ServiceTargets, Leads, PodReady, Up
    <3>2. CASE HA
      BY <3>1, <3>2 DEF TargetInv, MayLead
    <3>3. CASE ~HA
      <4>1. /\ scene.count \in Nat \ {0} /\ p[1] \in Ordinals /\ q[1] \in Ordinals
            /\ p = <<p[1], p[2]>> /\ q = <<q[1], q[2]>>
        BY <3>1, ProcsAreNamed, StInv DEF Scene
      <4>2. p[1] = q[1]
        BY <3>3, <4>1 DEF HA, Ordinals
      <4> QED
        BY <3>1, <4>1, <4>2 DEF Leads, IsPodOf
    <3> QED
      BY <3>2, <3>3
  <2>2. CASE ServiceTargets = {}
    <3>1. Cardinality(ServiceTargets) = 0
      BY <2>2, FS_EmptySet
    <3> QED
      BY <3>1
  <2>3. CASE ServiceTargets # {}
    <3>1. PICK p \in ServiceTargets : TRUE
      BY <2>3
    <3>2. ServiceTargets = {p}
      BY <2>1, <3>1
    <3>3. Cardinality(ServiceTargets) = 1
      BY <3>2, FS_Singleton, Zenon
    <3> QED
      BY <3>3
  <2> QED
    BY <2>2, <2>3
<1> QED
  BY <1>1, InitInv, NextInv, InitTarget, TargetNextInv, PTL DEF Spec
=============================================================================
