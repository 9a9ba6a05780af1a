---------------------------- MODULE ValkeyNetwork ----------------------------
(***************************************************************************)
(* The network of the instances: the listeners they share in one Gateway,  *)
(* and the check that every Envoy process runs with an instance's settings *)
(* before the operator lets the application in.  The reconciles of several *)
(* instances (MaxConcurrentReconciles), one background refresh of the      *)
(* snapshots and the cache they share run at the same time.                *)
(*                                                                         *)
(* The settings (certificate, idle timeout: what networkFingerprint covers *)
(* and can change) are a number; so is the address of a primary, which a   *)
(* snapshot shows and a fingerprint leaves out.  The times of captures are *)
(* only compared for equality, and one that nobody holds is used again.    *)
(***************************************************************************)
EXTENDS Integers, FiniteSets

CONSTANTS
    Instances, Pods,   \* of Valkey, and of Envoy (expectedProcesses)
    Settings,          \* the settings there may be
    Times,             \* when snapshots are captured
    Nil,
    Scenes             \* what may happen in a run

Kinds == {"settings", "move", "delete", "stop", "mute", "check", "restart"}

\* The instances there are, those that serve already, and how much may change
\* or fail.
Scene == [instances: SUBSET Instances, serving: SUBSET Instances, kinds: SUBSET Kinds,
          changes: Nat]

\* What an instance asks of Envoy.
Asked == [settings: Settings, addr: Nat \ {0}]

ASSUME NetworkAssumption ==
    /\ Pods # {}
    /\ Settings \subseteq Nat \ {0} /\ 1 \in Settings
    /\ Nil \notin Times \cup Settings /\ Nil \notin Asked
    /\ \A s \in Scenes : s \in Scene

VARIABLES
    scene,      \* one of Scenes, chosen at the beginning
    settings,   \* what the shared policies and the certificate ask for
    addr,       \* the address of each instance's primary
    gateway,    \* the Gateway: listeners, generation, generation of its conditions
    deleting,   \* instances whose deletion was requested
    envoy,      \* the Envoy processes: identity, whether they run and answer, configuration
    had,        \* every <<process, instance, settings>> that was ever loaded
    cache,      \* EnvoySnapshotCache
    refresh,    \* the goroutine of refreshEnvoySnapshots, or Nil
    pass,       \* the reconcile of each instance
    net         \* status.network, and whether the last pass was allowed to go on

world == <<scene, settings, addr, gateway, deleting, envoy, had>>
networkVars == <<world, cache, refresh, pass, net>>

\* A restarted process differs in its container or its Pod.
Target(p) == <<p, envoy[p].id>>

\* envoyTargets: the processes whose containers run.
EnvoyTargets == {Target(p) : p \in {q \in Pods : envoy[q].up}}

Nothing == [i \in Instances |-> Nil]

EmptyCache == [procs |-> {}, snapshots |-> Nil, at |-> Nil, failure |-> "no", due |-> TRUE,
               verified |-> Nil]

\* Something changes or fails.
Changes(kind) ==
    /\ kind \in scene.kinds /\ scene.changes > 0
    /\ scene' = [scene EXCEPT !.changes = @ - 1]

IdlePass == [pc |-> "idle", gen |-> 0, listeners |-> {}, expected |-> Nil, procs |-> {},
             snapshots |-> Nil, at |-> Nil]

-----------------------------------------------------------------------------
(* Listeners of the shared Gateway                                          *)

\* The Gateway is not as it should be, and will be written.
ReadGateway(i) ==
    /\ pass[i].pc = "idle"
    /\ (i \in gateway.listeners) = (i \in deleting)
    /\ pass' = [pass EXCEPT ![i] =
          [IdlePass EXCEPT
              !.pc = "update", !.gen = gateway.gen,
              !.listeners = IF i \in deleting THEN gateway.listeners \ {i} ELSE gateway.listeners \cup {i}]]
    /\ UNCHANGED <<world, cache, refresh, net>>

\* A bug: the whole object is written, whoever has changed it meanwhile.
UpdateGatewayBlindly(i) ==
    /\ pass[i].pc = "update"
    /\ gateway' = [gateway EXCEPT !.gen = @ + 1, !.listeners = pass[i].listeners]
    /\ pass' = [pass EXCEPT ![i] = IdlePass]
    /\ UNCHANGED <<scene, settings, addr, deleting, envoy, had, cache, refresh, net>>

\* The copy that was read is written back with the own listener put in, or taken
\* out of it; on a conflict it is read again.
UpdateGateway(i) ==
    /\ pass[i].pc = "update"
    /\ IF pass[i].gen = gateway.gen
       THEN gateway' = [gateway EXCEPT !.gen = @ + 1, !.listeners = pass[i].listeners]
       ELSE UNCHANGED gateway
    /\ pass' = [pass EXCEPT ![i] = IdlePass]
    /\ UNCHANGED <<scene, settings, addr, deleting, envoy, had, cache, refresh, net>>

-----------------------------------------------------------------------------
(* The check of a pass                                                      *)

\* inspectNetworkPrerequisites and envoyTargets: what the instance's objects ask
\* for, and the processes of Envoy.
Expected(i) == [settings |-> settings, addr |-> addr[i]]

Confirmed(i) == net[i].verified = settings

\* A bug: they matter always.
MayVerifyCurrent(i) == gateway.seen = gateway.gen

\* Conditions of an earlier generation of the Gateway matter to an instance only
\* as long as its own settings have not been verified.
MayVerify(i) == gateway.seen = gateway.gen \/ Confirmed(i)

\* A bug: it holds for whatever processes there are.
ReusableElsewhere(i) == Confirmed(i)

\* The confirmation of earlier holds for the same settings and processes.
Reusable(i) == Confirmed(i) /\ net[i].procs = EnvoyTargets

\* The pass goes on to the admission of the application and the phase that follows
\* from the processes, or ends here; NETWORK_NOT_READY is the phase of a pass that
\* is known to wait for Envoy.
Ends(i, allowed, waits) ==
    /\ net' = [net EXCEPT ![i].allowed = allowed,
                          ![i].lost = waits \/ (@ /\ ~allowed)]
    /\ pass' = [pass EXCEPT ![i] = IdlePass]

\* A bug: as many snapshots as processes are enough.
CacheMatchesCount == Cardinality(cache.procs) = Cardinality(EnvoyTargets)

\* Snapshots are kept for the processes they were taken from.
CacheMatches == cache.procs = EnvoyTargets

\* beginRefresh: one at a time, whoever asks for it.
BeginsRefresh ==
    IF (CacheMatches => cache.due) /\ refresh = Nil
    THEN refresh' = [procs |-> EnvoyTargets, snapshots |-> [p \in Pods |-> Nil]]
    ELSE UNCHANGED refresh

CompositionKnown == \A p \in Pods : envoy[p].up

Reconciles(i) == pass[i].pc = "idle" /\ i \in gateway.listeners /\ i \notin deleting

\* Something the settings follow from, or a process of Envoy, cannot be read.
CheckFails(i) ==
    /\ Changes("check")
    /\ Reconciles(i)
    /\ \E waits \in BOOLEAN : Ends(i, FALSE, waits)
    /\ UNCHANGED <<settings, addr, gateway, deleting, envoy, had, cache, refresh>>

\* verifyEnvoy as far as envoySnapshots: cached snapshots of the same processes
\* are used while they are renewed, unless the last renewal has failed; without
\* them an earlier confirmation counts, if the reason is that Envoy could not be
\* read, or not yet.
EnvoySnapshots(i) ==
    /\ Reconciles(i)
    /\ \/ ~MayVerify(i) /\ Ends(i, FALSE, TRUE) /\ UNCHANGED refresh
       \/ MayVerify(i) /\ ~CompositionKnown /\ Ends(i, FALSE, FALSE) /\ UNCHANGED refresh
       \/ /\ MayVerify(i) /\ CompositionKnown
          /\ BeginsRefresh
          /\ \/ /\ CacheMatches /\ cache.failure = "no"
                /\ pass' = [pass EXCEPT ![i] =
                      [IdlePass EXCEPT !.pc = "verify", !.expected = Expected(i),
                          !.procs = EnvoyTargets,
                          !.snapshots = cache.snapshots, !.at = cache.at]]
                /\ UNCHANGED net
             \/ /\ CacheMatches => cache.failure = "unavailable"
                /\ Ends(i, Reusable(i), FALSE)
             \/ /\ CacheMatches /\ cache.failure = "changed"
                /\ Ends(i, FALSE, FALSE)
    /\ UNCHANGED <<world, cache>>

Fingerprint(i) == <<i, pass[i].expected.settings>>

\* loadVerification: a result for the same settings and the same snapshots.
Remembered(i) ==
    /\ cache.verified # Nil
    /\ cache.verified.for = Fingerprint(i) /\ cache.verified.at = pass[i].at

\* A bug: one process is enough.
EnvoyVerifiedOnce(i) ==
    IF Remembered(i) THEN cache.verified.ok
    ELSE \E p \in Pods : pass[i].snapshots[p][i] = pass[i].expected

\* validateEnvoySnapshot of every snapshot, or what an earlier pass found.
EnvoyVerified(i) ==
    IF Remembered(i) THEN cache.verified.ok
    ELSE \A p \in Pods : pass[i].snapshots[p][i] = pass[i].expected

\* The result is kept for the snapshots it was made from and written to the
\* status; only a verification replaces an earlier one.
Verify(i) ==
    /\ pass[i].pc = "verify"
    /\ cache' = [cache EXCEPT !.verified =
                    [for |-> Fingerprint(i), at |-> pass[i].at, ok |-> EnvoyVerified(i)]]
    /\ \/ /\ EnvoyVerified(i)
          /\ net' = [net EXCEPT ![i] = [verified |-> pass[i].expected.settings,
                                        procs |-> pass[i].procs, allowed |-> TRUE, lost |-> FALSE]]
          /\ pass' = [pass EXCEPT ![i] = IdlePass]
       \/ ~EnvoyVerified(i) /\ Ends(i, FALSE, TRUE)
    /\ UNCHANGED <<world, refresh>>

-----------------------------------------------------------------------------
(* The background refresh                                                   *)

\* Each process is read on its own, through its Pod.
ReadEnvoySnapshot(p) ==
    /\ refresh # Nil /\ refresh.snapshots[p] = Nil
    /\ envoy[p].up /\ envoy[p].answers
    /\ refresh' = [refresh EXCEPT !.snapshots[p] = envoy[p].conf]
    /\ UNCHANGED <<world, cache, pass, net>>

\* A bug: the failure is not recorded when the processes have changed, and the
\* refresh counts as under way.
FailedRefreshIgnored(reason) ==
    IF cache.procs = refresh.procs
    THEN /\ cache' = [cache EXCEPT !.failure = reason, !.due = FALSE]
         /\ refresh' = Nil
    ELSE UNCHANGED <<cache, refresh>>

\* finishRefresh with a failure: snapshots of the same processes stay.
FailedRefresh(reason) ==
    /\ cache' = [(IF cache.procs = refresh.procs THEN cache ELSE EmptyCache) EXCEPT
                     !.procs = refresh.procs, !.failure = reason, !.due = FALSE]
    /\ refresh' = Nil

\* A process does not answer within NetworkVerifyTimeout.
RefreshTimesOut ==
    /\ refresh # Nil
    /\ \E p \in Pods : refresh.snapshots[p] = Nil /\ ~(envoy[p].up /\ envoy[p].answers)
    /\ FailedRefresh("unavailable")
    /\ UNCHANGED <<world, pass, net>>

TimesHeld == {cache.at} \cup {pass[i].at : i \in Instances}
             \cup (IF cache.verified = Nil THEN {} ELSE {cache.verified.at})

Captured(t) ==
    [procs |-> refresh.procs, snapshots |-> refresh.snapshots, at |-> t, failure |-> "no",
     due |-> FALSE, verified |-> Nil]

\* The processes must still be the same when all have been read.
SameTargets == EnvoyTargets = refresh.procs

\* A bug: the first answer ends the refresh.
SomeRead == \E p \in Pods : refresh.snapshots[p] # Nil

AllRead == \A p \in Pods : refresh.snapshots[p] # Nil

\* Neither does the composition count as known if it cannot be read again.
RefreshEnvoySnapshots ==
    /\ refresh # Nil
    /\ AllRead
    /\ \/ /\ SameTargets
          /\ Times \ TimesHeld # {}
          /\ cache' = Captured(CHOOSE t \in Times : t \notin TimesHeld)
          /\ refresh' = Nil
          /\ UNCHANGED scene
       \/ ~SameTargets /\ FailedRefresh("changed") /\ UNCHANGED scene
       \/ Changes("check") /\ FailedRefresh("changed")
    /\ UNCHANGED <<settings, addr, gateway, deleting, envoy, had, pass, net>>

\* NetworkVerifyInterval is over.
IntervalPasses ==
    /\ ~cache.due
    /\ cache' = [cache EXCEPT !.due = TRUE]
    /\ UNCHANGED <<world, refresh, pass, net>>

-----------------------------------------------------------------------------
(* Outside                                                                  *)

Inside == <<cache, refresh, pass, net>>

\* Envoy Gateway sets the conditions of the listeners.
Programs ==
    /\ gateway.seen # gateway.gen
    /\ gateway' = [gateway EXCEPT !.seen = gateway.gen]
    /\ UNCHANGED <<scene, settings, addr, deleting, envoy, had, Inside>>

\* Envoy gets the configuration of an instance; that it loses the one of a deleted
\* instance is left out.
Loads(p, i) ==
    LET conf == [settings |-> settings, addr |-> addr[i]]
    IN  /\ i \in gateway.listeners
        /\ envoy[p].up /\ envoy[p].conf[i] # conf
        /\ envoy' = [envoy EXCEPT ![p].conf[i] = conf]
        /\ had' = had \cup {<<Target(p), i, settings>>}
        /\ UNCHANGED <<scene, settings, addr, gateway, deleting, Inside>>

Starts(p) ==
    /\ ~envoy[p].up
    /\ envoy' = [envoy EXCEPT ![p] = [id |-> @.id + 1, up |-> TRUE, answers |-> TRUE,
                                      conf |-> Nothing]]
    /\ UNCHANGED <<scene, settings, addr, gateway, deleting, had, Inside>>

Answers(p) ==
    /\ envoy[p].up /\ ~envoy[p].answers
    /\ envoy' = [envoy EXCEPT ![p].answers = TRUE]
    /\ UNCHANGED <<scene, settings, addr, gateway, deleting, had, Inside>>

StopsEnvoy(p) ==
    /\ Changes("stop")
    /\ envoy[p].up
    /\ envoy' = [envoy EXCEPT ![p].up = FALSE]
    /\ UNCHANGED <<settings, addr, gateway, deleting, had, Inside>>

StopsAnswering(p) ==
    /\ Changes("mute")
    /\ envoy[p].up /\ envoy[p].answers
    /\ envoy' = [envoy EXCEPT ![p].answers = FALSE]
    /\ UNCHANGED <<settings, addr, gateway, deleting, had, Inside>>

ChangeSettings(s) ==
    /\ Changes("settings")
    /\ s # settings
    /\ settings' = s
    /\ UNCHANGED <<addr, gateway, deleting, envoy, had, Inside>>

\* A failover moves the primary of i.
MovePrimary(i) ==
    /\ Changes("move")
    /\ addr' = [addr EXCEPT ![i] = @ + 1]
    /\ UNCHANGED <<settings, gateway, deleting, envoy, had, Inside>>

RequestDeletion(i) ==
    /\ Changes("delete")
    /\ i \notin deleting
    /\ deleting' = deleting \cup {i}
    /\ UNCHANGED <<settings, addr, gateway, envoy, had, Inside>>

\* The operator restarts: the cache and every pass are gone, the status is not.
Restart ==
    /\ Changes("restart")
    /\ cache' = EmptyCache /\ refresh' = Nil /\ pass' = [i \in Instances |-> IdlePass]
    /\ UNCHANGED <<settings, addr, gateway, deleting, envoy, had, net>>

-----------------------------------------------------------------------------

\* The operator starts, beside Envoy processes that serve some instances.
NetworkInit ==
    /\ scene \in Scenes
    /\ settings = 1 /\ addr = [i \in Instances |-> 1] /\ deleting = {}
    /\ gateway = [listeners |-> scene.serving, gen |-> 1, seen |-> 1]
    /\ envoy = [p \in Pods |-> [id |-> 1, up |-> TRUE, answers |-> TRUE,
          conf |-> [i \in Instances |->
                       IF i \in scene.serving THEN [settings |-> 1, addr |-> 1] ELSE Nil]]]
    /\ had = {<<<<p, 1>>, i, 1>> : p \in Pods, i \in scene.serving}
    /\ cache = EmptyCache /\ refresh = Nil
    /\ pass = [i \in Instances |-> IdlePass]
    /\ net = [i \in Instances |->
                 [verified |-> Nil, procs |-> {}, allowed |-> FALSE, lost |-> FALSE]]

ReconcilesNetwork(i) ==
    /\ i \in scene.instances
    /\ ReadGateway(i) \/ UpdateGateway(i) \/ EnvoySnapshots(i) \/ Verify(i)

Refreshes == RefreshTimesOut \/ RefreshEnvoySnapshots \/ \E p \in Pods : ReadEnvoySnapshot(p)

Settles == Programs \/ \E p \in Pods : Starts(p) \/ Answers(p) \/ \E i \in Instances : Loads(p, i)

NetworkNext ==
    \/ \E i \in scene.instances :
          ReconcilesNetwork(i) \/ CheckFails(i) \/ MovePrimary(i) \/ RequestDeletion(i)
    \/ Refreshes \/ IntervalPasses \/ Settles
    \/ \E p \in Pods : StopsEnvoy(p) \/ StopsAnswering(p)
    \/ \E s \in Settings : ChangeSettings(s)
    \/ Restart

NetworkSpec == NetworkInit /\ [][NetworkNext]_networkVars

\* Workers serve every instance, the refresh has a timeout, the interval passes;
\* Envoy and its Pods come back, and get their configuration.
NetworkFairness ==
    /\ \A i \in Instances : WF_networkVars(ReconcilesNetwork(i))
    /\ WF_networkVars(Refreshes) /\ WF_networkVars(IntervalPasses) /\ WF_networkVars(Settles)

FairNetworkSpec == NetworkSpec /\ NetworkFairness

-----------------------------------------------------------------------------

Processes == Pods \X (Nat \ {0})
Loaded == [Instances -> Asked \cup {Nil}]
Snapshots == [Pods -> Loaded]

Gateway == [listeners: SUBSET Instances, gen: Nat, seen: Nat]
Envoy == [id: Nat \ {0}, up: BOOLEAN, answers: BOOLEAN, conf: Loaded]
Verification == [for: Instances \X Settings, at: Times, ok: BOOLEAN]
Cache == [procs: SUBSET Processes, snapshots: Snapshots \cup {Nil}, at: Times \cup {Nil},
          failure: {"no", "unavailable", "changed"}, due: BOOLEAN,
          verified: Verification \cup {Nil}]
Refresh == [procs: SUBSET Processes, snapshots: [Pods -> Loaded \cup {Nil}]]
Pass == [pc: {"idle", "update", "verify"}, gen: Nat, listeners: SUBSET Instances,
         expected: Asked \cup {Nil}, procs: SUBSET Processes,
         snapshots: Snapshots \cup {Nil}, at: Times \cup {Nil}]
Net == [verified: Settings \cup {Nil}, procs: SUBSET Processes, allowed: BOOLEAN, lost: BOOLEAN]

NetworkTypeOK ==
    /\ scene \in Scene
    /\ settings \in Settings /\ addr \in [Instances -> Nat \ {0}]
    /\ gateway \in Gateway /\ deleting \in SUBSET Instances
    /\ envoy \in [Pods -> Envoy]
    /\ had \in SUBSET (Processes \X Instances \X Settings)
    /\ cache \in Cache /\ refresh \in Refresh \cup {Nil}
    /\ pass \in [Instances -> Pass] /\ net \in [Instances -> Net]

-----------------------------------------------------------------------------
(* Safety                                                                    *)

\* What applyNetworkVerification writes down is true: each process it names has
\* run with the settings it was verified for.
ConfirmedMeansLoaded ==
    \A i \in Instances : net[i].verified # Nil =>
        \A process \in net[i].procs : <<process, i, net[i].verified>> \in had

\* A pass of i ends with a result.
Checks(i) == (EnvoySnapshots(i) \/ Verify(i)) /\ pass'[i].pc = "idle"

\* networkVerificationAllowsOperations lets a pass go on to admit the application
\* only if every process of Envoy it has found has had the settings it read.
OperationsWaitForEnvoy ==
    [][ \A i \in Instances :
          Checks(i) /\ net'[i].allowed =>
              IF pass[i].pc = "verify"
              THEN \A process \in pass[i].procs : <<process, i, pass[i].expected.settings>> \in had
              ELSE \A p \in Pods : <<Target(p), i, settings>> \in had ]_networkVars

\* Nothing of i has changed, nor a process of Envoy, and the list of them was read.
Calm(i) ==
    /\ "settings" \notin scene.kinds /\ addr[i] = 1 /\ cache.failure # "changed"
    /\ \A p \in Pods : envoy[p].id = 1 /\ envoy[p].up

\* An instance that was verified goes on without a break, and keeps its listener,
\* whatever its neighbours do with the Gateway (RetryOnConflict), and whether Envoy
\* can be read or not.
Undisturbed ==
    [][ \A i \in Instances :
          Calm(i) /\ net[i].verified # Nil =>
              /\ Checks(i) => net'[i].allowed /\ ~net'[i].lost
              /\ i \in gateway.listeners \ deleting => i \in gateway'.listeners ]_networkVars

-----------------------------------------------------------------------------
(* Liveness                                                                  *)

Serves(i) == net[i].allowed /\ ~net[i].lost /\ Reusable(i)

\* Once changes and failures are over every instance is verified for what it asks
\* for in the present processes, and the listeners of deleted ones are gone.
NetworkConverges ==
    []<>(\A i \in scene.instances :
            IF i \in deleting THEN i \notin gateway.listeners ELSE Serves(i))
=============================================================================
