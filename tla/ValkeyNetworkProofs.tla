------------------------- MODULE ValkeyNetworkProofs -------------------------
(***************************************************************************)
(* For any number of instances and Envoy processes: what the status says   *)
(* Envoy has loaded, it has loaded, and no operation is allowed before;    *)
(* and a verified instance goes on undisturbed.                            *)
(***************************************************************************)
EXTENDS ValkeyNetwork, TLAPS

\* What a snapshot shows the process has loaded.
Shown(snapshot, process) ==
    \A i \in Instances : snapshot[i] # Nil => <<process, i, snapshot[i].settings>> \in had

EnvoyTrue == \A p \in Pods : Shown(envoy[p].conf, Target(p))

\* What a refresh has read is of the process it began with, unless that one has
\* been replaced since.
RefreshTrue ==
    refresh # Nil =>
        \A p \in Pods, k \in Nat : <<p, k>> \in refresh.procs =>
            /\ k <= envoy[p].id
            /\ refresh.snapshots[p] # Nil /\ k = envoy[p].id =>
                  Shown(refresh.snapshots[p], <<p, k>>)

\* A capture: snapshots of the processes it names.
Capture(snapshots, procs, at) ==
    /\ at \in Times /\ snapshots \in Snapshots
    /\ \A p \in Pods, k \in Nat : <<p, k>> \in procs => Shown(snapshots[p], <<p, k>>)

CacheTrue ==
    /\ cache.at # Nil => Capture(cache.snapshots, cache.procs, cache.at)
    /\ cache.failure = "no" /\ cache.procs # {} => cache.at # Nil

PassTrue ==
    \A i \in Instances : pass[i].pc = "verify" =>
        /\ pass[i].expected \in Asked
        /\ Capture(pass[i].snapshots, pass[i].procs, pass[i].at)

\* The time of a capture identifies it.
SameCapture ==
    \A i \in Instances : pass[i].pc = "verify" =>
        /\ cache.at = pass[i].at => cache.procs = pass[i].procs
        /\ \A j \in Instances : pass[j].pc = "verify" /\ pass[j].at = pass[i].at =>
              pass[j].procs = pass[i].procs

\* Every process has loaded what a fingerprint names.
Serve(procs, fingerprint) ==
    \A process \in procs : <<process, fingerprint[1], fingerprint[2]>> \in had

\* A remembered result is right for the capture it was made from.
VerifiedTrue ==
    cache.verified # Nil /\ cache.verified.ok =>
        /\ cache.at = cache.verified.at => Serve(cache.procs, cache.verified.for)
        /\ \A i \in Instances : pass[i].pc = "verify" /\ pass[i].at = cache.verified.at =>
              Serve(pass[i].procs, cache.verified.for)

NetworkInv ==
    /\ NetworkTypeOK /\ EnvoyTrue /\ RefreshTrue /\ CacheTrue /\ PassTrue
    /\ SameCapture /\ VerifiedTrue /\ ConfirmedMeansLoaded

-----------------------------------------------------------------------------
(* Steps that leave most of it alone                                        *)

\* A step outside the operator: processes only get newer and load more.
LEMMA OutsideKeeps ==
    ASSUME NetworkInv, UNCHANGED Inside, NetworkTypeOK', EnvoyTrue', had \subseteq had',
           \A p \in Pods : envoy'[p].id = envoy[p].id \/ envoy'[p].id > envoy[p].id
    PROVE  NetworkInv'
<1>0. UNCHANGED <<cache, refresh, pass, net>>
  BY DEF Inside
<1>1. \A p \in Pods : envoy[p].id \in Nat /\ envoy'[p].id \in Nat
  BY DEF NetworkInv, NetworkTypeOK, Envoy
<1>2. RefreshTrue'
  <2> SUFFICES ASSUME refresh # Nil, NEW p \in Pods, NEW k \in Nat, <<p, k>> \in refresh.procs
               PROVE  /\ k <= envoy'[p].id
                      /\ refresh.snapshots[p] # Nil /\ k = envoy'[p].id =>
                            Shown(refresh.snapshots[p], <<p, k>>)'
    BY <1>0 DEF RefreshTrue
  <2>1. /\ k <= envoy[p].id
        /\ refresh.snapshots[p] # Nil /\ k = envoy[p].id => Shown(refresh.snapshots[p], <<p, k>>)
    BY DEF NetworkInv, RefreshTrue
  <2>2. k <= envoy'[p].id /\ (k = envoy'[p].id => k = envoy[p].id)
    BY <1>1, <2>1
  <2> QED
    BY <1>0, <2>1, <2>2 DEF Shown
<1>3. CacheTrue' /\ PassTrue'
  BY <1>0 DEF NetworkInv, CacheTrue, PassTrue, Capture, Shown
<1>4. SameCapture' /\ VerifiedTrue' /\ ConfirmedMeansLoaded'
  BY <1>0 DEF NetworkInv, SameCapture, VerifiedTrue, Serve, ConfirmedMeansLoaded
<1> QED
  BY <1>2, <1>3, <1>4 DEF NetworkInv

\* A pass ends, or begins to write the Gateway; nothing is confirmed.
LEMMA PassKeeps ==
    ASSUME NetworkInv, UNCHANGED <<envoy, had, cache, refresh>>, NetworkTypeOK',
           \A i \in Instances : pass'[i] = pass[i] \/ pass'[i].pc # "verify",
           \A i \in Instances : /\ net'[i].verified = net[i].verified
                                /\ net'[i].procs = net[i].procs
    PROVE  NetworkInv'
<1>1. EnvoyTrue' /\ RefreshTrue' /\ CacheTrue'
  BY DEF NetworkInv, EnvoyTrue, RefreshTrue, CacheTrue, Capture, Shown, Target
<1>2. PassTrue'
  BY DEF NetworkInv, PassTrue, Capture, Shown
<1>3. SameCapture' /\ VerifiedTrue' /\ ConfirmedMeansLoaded'
  BY DEF NetworkInv, SameCapture, VerifiedTrue, Serve, ConfirmedMeansLoaded
<1> QED
  BY <1>1, <1>2, <1>3 DEF NetworkInv

-----------------------------------------------------------------------------
(* The steps of the operator                                                *)

LEMMA IdlePassType == IdlePass \in Pass /\ IdlePass.pc = "idle"
  BY DEF IdlePass, Pass

\* A pass that ends confirms nothing, whatever it allows.
LEMMA EndsType ==
    ASSUME NetworkTypeOK, NEW i \in Instances, NEW allowed \in BOOLEAN, NEW waits \in BOOLEAN,
           Ends(i, allowed, waits)
    PROVE  /\ pass' \in [Instances -> Pass] /\ net' \in [Instances -> Net]
           /\ \A j \in Instances : /\ pass'[j] = pass[j] \/ pass'[j].pc # "verify"
                                   /\ net'[j].verified = net[j].verified
                                   /\ net'[j].procs = net[j].procs
<1>1. pass \in [Instances -> Pass] /\ net \in [Instances -> Net]
  BY DEF NetworkTypeOK
<1>2. pass' = [pass EXCEPT ![i] = IdlePass]
  BY DEF Ends
<1>3. PICK lost \in BOOLEAN : net' = [net EXCEPT ![i] = [@ EXCEPT !.allowed = allowed, !.lost = lost]]
  <2>1. net[i].lost \in BOOLEAN
    BY <1>1 DEF Net
  <2> QED
    BY <1>1, <2>1 DEF Ends, Net
<1>4. [net[i] EXCEPT !.allowed = allowed, !.lost = lost] \in Net
  BY <1>1 DEF Net
<1>5. /\ [net[i] EXCEPT !.allowed = allowed, !.lost = lost].verified = net[i].verified
      /\ [net[i] EXCEPT !.allowed = allowed, !.lost = lost].procs = net[i].procs
  BY <1>1 DEF Net
<1> QED
  BY <1>1, <1>2, <1>3, <1>4, <1>5, IdlePassType

LEMMA ReadGatewayStep ==
    ASSUME NetworkInv, NEW i \in Instances, ReadGateway(i)
    PROVE  NetworkInv'
<1> DEFINE read == [IdlePass EXCEPT
        !.pc = "update", !.gen = gateway.gen,
        !.listeners = IF i \in deleting THEN gateway.listeners \ {i} ELSE gateway.listeners \cup {i}]
<1>1. pass \in [Instances -> Pass] /\ gateway \in Gateway
  BY DEF NetworkInv, NetworkTypeOK
<1>2. read \in Pass /\ read.pc = "update"
  BY <1>1 DEF IdlePass, Pass, Gateway
<1>3. pass' = [pass EXCEPT ![i] = read]
  BY DEF ReadGateway
<1>4. pass' \in [Instances -> Pass] /\ \A j \in Instances : pass'[j] = pass[j] \/ pass'[j].pc # "verify"
  BY <1>1, <1>2, <1>3
<1>5. NetworkTypeOK'
  BY <1>4 DEF NetworkInv, NetworkTypeOK, ReadGateway, world
<1> QED
  BY <1>4, <1>5, PassKeeps DEF ReadGateway, world

LEMMA UpdateGatewayStep ==
    ASSUME NetworkInv, NEW i \in Instances, UpdateGateway(i)
    PROVE  NetworkInv'
<1>1. pass \in [Instances -> Pass] /\ gateway \in Gateway /\ pass[i] \in Pass
  BY DEF NetworkInv, NetworkTypeOK
<1>2. gateway' \in Gateway
  <2>1. CASE pass[i].gen = gateway.gen
    <3>1. gateway' = [gateway EXCEPT !.gen = @ + 1, !.listeners = pass[i].listeners]
      BY <2>1 DEF UpdateGateway
    <3>2. gateway.gen + 1 \in Nat /\ pass[i].listeners \in SUBSET Instances
      BY <1>1 DEF Gateway, Pass
    <3> QED
      BY <1>1, <3>1, <3>2, Zenon DEF Gateway
  <2>2. CASE pass[i].gen # gateway.gen
    BY <1>1, <2>2 DEF UpdateGateway
  <2> QED
    BY <2>1, <2>2
<1>3. pass' \in [Instances -> Pass] /\ \A j \in Instances : pass'[j] = pass[j] \/ pass'[j].pc # "verify"
  BY <1>1, IdlePassType DEF UpdateGateway
<1>4. NetworkTypeOK'
  BY <1>2, <1>3 DEF NetworkInv, NetworkTypeOK, UpdateGateway
<1> QED
  BY <1>3, <1>4, PassKeeps DEF UpdateGateway

LEMMA CheckFailsStep ==
    ASSUME NetworkInv, NEW i \in Instances, CheckFails(i)
    PROVE  NetworkInv'
<1>1. scene' \in Scene
  BY DEF NetworkInv, NetworkTypeOK, CheckFails, Changes, Scene
<1>2. PICK waits \in BOOLEAN : Ends(i, FALSE, waits)
  BY DEF CheckFails
<1>3. /\ pass' \in [Instances -> Pass] /\ net' \in [Instances -> Net]
      /\ \A j \in Instances : /\ pass'[j] = pass[j] \/ pass'[j].pc # "verify"
                              /\ net'[j].verified = net[j].verified
                              /\ net'[j].procs = net[j].procs
  BY <1>2, EndsType DEF NetworkInv
<1>4. NetworkTypeOK'
  BY <1>1, <1>3 DEF NetworkInv, NetworkTypeOK, CheckFails
<1> QED
  BY <1>3, <1>4, PassKeeps DEF CheckFails

\* A refresh begins with the processes there are, and has read nothing.
LEMMA RefreshBegins ==
    ASSUME NetworkInv, BeginsRefresh, UNCHANGED <<envoy, had>>
    PROVE  RefreshTrue' /\ refresh' \in Refresh \cup {Nil}
<1>1. CASE refresh' = refresh
  BY <1>1 DEF NetworkInv, NetworkTypeOK, RefreshTrue, Shown
<1>2. CASE refresh' = [procs |-> EnvoyTargets, snapshots |-> [p \in Pods |-> Nil]]
  <2>1. \A p \in Pods, k \in Nat : <<p, k>> \in EnvoyTargets => k = envoy[p].id
    BY DEF EnvoyTargets, Target
  <2>2. \A p \in Pods : envoy[p].id \in Nat \ {0}
    BY DEF NetworkInv, NetworkTypeOK, Envoy
  <2>3. EnvoyTargets \in SUBSET Processes
    BY <2>2 DEF EnvoyTargets, Target, Processes
  <2>4. refresh'.procs = EnvoyTargets /\ \A p \in Pods : refresh'.snapshots[p] = Nil
    BY <1>2
  <2>5. RefreshTrue'
    BY <2>1, <2>2, <2>4 DEF RefreshTrue
  <2>6. refresh' \in Refresh
    BY <1>2, <2>3 DEF Refresh
  <2> QED
    BY <2>5, <2>6
<1> QED
  BY <1>1, <1>2 DEF BeginsRefresh

LEMMA EnvoySnapshotsStep ==
    ASSUME NetworkInv, NEW i \in Instances, EnvoySnapshots(i)
    PROVE  NetworkInv'
<1>1. UNCHANGED <<scene, settings, addr, gateway, deleting, envoy, had, cache>>
  BY DEF EnvoySnapshots, world
<1>2. RefreshTrue' /\ refresh' \in Refresh \cup {Nil}
  <2>1. refresh' = refresh => RefreshTrue' /\ refresh' \in Refresh \cup {Nil}
    BY <1>1 DEF NetworkInv, NetworkTypeOK, RefreshTrue, Shown
  <2> QED
    BY <1>1, <2>1, RefreshBegins DEF EnvoySnapshots
<1>3. EnvoyTrue' /\ CacheTrue'
  BY <1>1 DEF NetworkInv, EnvoyTrue, CacheTrue, Capture, Shown, Target
<1>4. CASE \E allowed, waits \in BOOLEAN : Ends(i, allowed, waits)
  <2>1. /\ pass' \in [Instances -> Pass] /\ net' \in [Instances -> Net]
        /\ \A j \in Instances : /\ pass'[j] = pass[j] \/ pass'[j].pc # "verify"
                                /\ net'[j].verified = net[j].verified
                                /\ net'[j].procs = net[j].procs
    BY <1>4, EndsType DEF NetworkInv
  <2>2. NetworkTypeOK'
    BY <1>1, <1>2, <2>1 DEF NetworkInv, NetworkTypeOK
  <2>3. PassTrue' /\ SameCapture' /\ VerifiedTrue' /\ ConfirmedMeansLoaded'
    BY <1>1, <2>1 DEF NetworkInv, PassTrue, Capture, Shown, SameCapture, VerifiedTrue, Serve,
                      ConfirmedMeansLoaded
  <2> QED
    BY <1>2, <1>3, <2>2, <2>3 DEF NetworkInv
<1>5. CASE /\ CompositionKnown /\ CacheMatches /\ cache.failure = "no"
           /\ pass' = [pass EXCEPT ![i] =
                 [IdlePass EXCEPT !.pc = "verify", !.expected = Expected(i), !.procs = EnvoyTargets,
                                  !.snapshots = cache.snapshots, !.at = cache.at]]
           /\ UNCHANGED net
  <2>1. PICK p \in Pods : TRUE
    BY NetworkAssumption
  <2>2. Target(p) \in EnvoyTargets
    BY <1>5 DEF CompositionKnown, EnvoyTargets
  <2>3. Capture(cache.snapshots, cache.procs, cache.at) /\ cache.procs = EnvoyTargets
    BY <1>5, <2>2 DEF NetworkInv, CacheTrue, CacheMatches
  <2>4. Expected(i) \in Asked
    BY DEF NetworkInv, NetworkTypeOK, Expected, Asked
  <2>5. cache.procs \in SUBSET Processes
    BY DEF NetworkInv, NetworkTypeOK, Cache
  <2>6. /\ pass'[i].pc = "verify" /\ pass'[i].expected = Expected(i)
        /\ pass'[i].procs = cache.procs /\ pass'[i].snapshots = cache.snapshots
        /\ pass'[i].at = cache.at
        /\ \A j \in Instances \ {i} : pass'[j] = pass[j]
    <3>1. pass \in [Instances -> Pass]
      BY DEF NetworkInv, NetworkTypeOK
    <3> QED
      BY <1>5, <2>3, <3>1 DEF IdlePass
  <2>7. pass' \in [Instances -> Pass]
    <3>1. pass \in [Instances -> Pass]
      BY DEF NetworkInv, NetworkTypeOK
    <3>2. [IdlePass EXCEPT !.pc = "verify", !.expected = Expected(i), !.procs = EnvoyTargets,
                           !.snapshots = cache.snapshots, !.at = cache.at] \in Pass
      BY <2>3, <2>4, <2>5 DEF IdlePass, Pass, Capture
    <3> QED
      BY <1>5, <3>1, <3>2
  <2>8. NetworkTypeOK'
    BY <1>1, <1>2, <1>5, <2>7 DEF NetworkInv, NetworkTypeOK
  <2>9. PassTrue'
    BY <1>1, <2>3, <2>4, <2>6 DEF NetworkInv, PassTrue, Capture, Shown
  <2>10. SameCapture' /\ VerifiedTrue' /\ ConfirmedMeansLoaded'
    BY <1>1, <1>5, <2>6 DEF NetworkInv, SameCapture, VerifiedTrue, Serve, ConfirmedMeansLoaded
  <2> QED
    BY <1>2, <1>3, <2>8, <2>9, <2>10 DEF NetworkInv
<1> QED
  BY <1>4, <1>5 DEF EnvoySnapshots, Reusable, Confirmed

\* What a pass that verifies finds in its snapshots has been loaded.
LEMMA VerifiedServes ==
    ASSUME NetworkInv, NEW i \in Instances, pass[i].pc = "verify", EnvoyVerified(i)
    PROVE  Serve(pass[i].procs, Fingerprint(i))
<1>1. Fingerprint(i)[1] = i /\ Fingerprint(i)[2] = pass[i].expected.settings
  BY DEF Fingerprint
<1>2. CASE Remembered(i)
  BY <1>2 DEF EnvoyVerified, Remembered, NetworkInv, VerifiedTrue
<1>3. CASE ~Remembered(i)
  <2> SUFFICES ASSUME NEW process \in pass[i].procs
               PROVE  <<process, i, pass[i].expected.settings>> \in had
    BY <1>1 DEF Serve
  <2>1. PICK p \in Pods, k \in Nat : process = <<p, k>>
    BY DEF NetworkInv, NetworkTypeOK, Pass, Processes
  <2>2. Shown(pass[i].snapshots[p], process)
    BY <2>1 DEF NetworkInv, PassTrue, Capture
  <2>3. pass[i].snapshots[p][i] = pass[i].expected /\ pass[i].expected # Nil
    BY <1>3, NetworkAssumption DEF EnvoyVerified, NetworkInv, PassTrue
  <2> QED
    BY <2>2, <2>3 DEF Shown
<1> QED
  BY <1>2, <1>3

LEMMA VerifyStep ==
    ASSUME NetworkInv, NEW i \in Instances, Verify(i)
    PROVE  NetworkInv'
<1>1. /\ UNCHANGED <<scene, settings, addr, gateway, deleting, envoy, had, refresh>>
      /\ pass[i].pc = "verify"
      /\ cache' = [cache EXCEPT !.verified =
                      [for |-> Fingerprint(i), at |-> pass[i].at, ok |-> EnvoyVerified(i)]]
  BY DEF Verify, world
<1>2. /\ pass[i].at \in Times /\ pass[i].expected.settings \in Settings
      /\ pass[i].procs \in SUBSET Processes
  BY <1>1 DEF NetworkInv, NetworkTypeOK, PassTrue, Capture, Asked, Pass
<1>3. EnvoyVerified(i) \in BOOLEAN
  <2>1. CASE Remembered(i)
    BY <2>1 DEF EnvoyVerified, Remembered, NetworkInv, NetworkTypeOK, Cache, Verification
  <2>2. CASE ~Remembered(i)
    BY <2>2 DEF EnvoyVerified
  <2> QED
    BY <2>1, <2>2
<1>4. /\ cache' \in Cache
      /\ cache'.procs = cache.procs /\ cache'.snapshots = cache.snapshots /\ cache'.at = cache.at
      /\ cache'.failure = cache.failure
      /\ cache'.verified.for = Fingerprint(i) /\ cache'.verified.at = pass[i].at
      /\ cache'.verified.ok = EnvoyVerified(i)
  <2>1. cache \in Cache
    BY DEF NetworkInv, NetworkTypeOK
  <2>2. [for |-> Fingerprint(i), at |-> pass[i].at, ok |-> EnvoyVerified(i)]
           \in Verification
    BY <1>2, <1>3 DEF Fingerprint, Verification
  <2> QED
    BY <1>1, <2>1, <2>2 DEF Cache
<1>5. /\ pass' \in [Instances -> Pass]
      /\ \A j \in Instances : pass'[j] = pass[j] \/ pass'[j].pc # "verify"
  <2>1. pass \in [Instances -> Pass] /\ pass' = [pass EXCEPT ![i] = IdlePass]
    BY DEF NetworkInv, NetworkTypeOK, Verify, Ends
  <2> QED
    BY <2>1, IdlePassType
<1>6. net' \in [Instances -> Net] /\ ConfirmedMeansLoaded'
  <2>1. CASE EnvoyVerified(i)
    <3>1. net' = [net EXCEPT ![i] = [verified |-> pass[i].expected.settings, procs |-> pass[i].procs,
                                    allowed |-> TRUE, lost |-> FALSE]]
      BY <2>1 DEF Verify
    <3>2. net \in [Instances -> Net]
      BY DEF NetworkInv, NetworkTypeOK
    <3>3. net' \in [Instances -> Net]
      BY <1>2, <3>1, <3>2 DEF Net
    <3>4. Serve(pass[i].procs, Fingerprint(i))
      BY <1>1, <2>1, VerifiedServes
    <3>5. \A process \in pass[i].procs : <<process, i, pass[i].expected.settings>> \in had
      BY <3>4 DEF Serve, Fingerprint
    <3>6. ConfirmedMeansLoaded'
      BY <1>1, <3>1, <3>2, <3>5 DEF NetworkInv, ConfirmedMeansLoaded
    <3> QED
      BY <3>3, <3>6
  <2>2. CASE ~EnvoyVerified(i)
    <3>1. Ends(i, FALSE, TRUE)
      BY <2>2 DEF Verify
    <3>2. /\ net' \in [Instances -> Net]
          /\ \A j \in Instances : /\ net'[j].verified = net[j].verified
                                  /\ net'[j].procs = net[j].procs
      BY <3>1, EndsType DEF NetworkInv
    <3> QED
      BY <1>1, <3>2 DEF NetworkInv, ConfirmedMeansLoaded
  <2> QED
    BY <2>1, <2>2
<1>7. NetworkTypeOK'
  BY <1>1, <1>4, <1>5, <1>6 DEF NetworkInv, NetworkTypeOK
<1>8. EnvoyTrue' /\ RefreshTrue' /\ CacheTrue' /\ PassTrue'
  BY <1>1, <1>4, <1>5 DEF NetworkInv, EnvoyTrue, RefreshTrue, CacheTrue, PassTrue, Capture, Shown,
                          Target
<1>9. SameCapture'
  BY <1>4, <1>5 DEF NetworkInv, SameCapture
<1>10. VerifiedTrue'
  <2> SUFFICES ASSUME EnvoyVerified(i)
               PROVE  /\ cache.at = pass[i].at => Serve(cache.procs, Fingerprint(i))
                      /\ \A j \in Instances : pass[j].pc = "verify" /\ pass[j].at = pass[i].at =>
                            Serve(pass[j].procs, Fingerprint(i))
    BY <1>1, <1>4, <1>5 DEF VerifiedTrue, Serve
  <2>1. Serve(pass[i].procs, Fingerprint(i))
    BY <1>1, VerifiedServes
  <2> QED
    BY <1>1, <2>1 DEF NetworkInv, SameCapture
<1> QED
  BY <1>6, <1>7, <1>8, <1>9, <1>10 DEF NetworkInv

-----------------------------------------------------------------------------
(* The steps of the refresh                                                 *)

LEMMA ReadEnvoySnapshotStep ==
    ASSUME NetworkInv, NEW q \in Pods, ReadEnvoySnapshot(q)
    PROVE  NetworkInv'
<1>1. /\ UNCHANGED <<scene, settings, addr, gateway, deleting, envoy, had, cache, pass, net>>
      /\ refresh # Nil
      /\ refresh' = [refresh EXCEPT !.snapshots[q] = envoy[q].conf]
  BY DEF ReadEnvoySnapshot, world
<1>2. refresh \in Refresh /\ envoy[q].conf \in Loaded
  BY <1>1 DEF NetworkInv, NetworkTypeOK, Envoy
<1>3. /\ refresh' \in Refresh /\ refresh'.procs = refresh.procs
      /\ refresh'.snapshots = [refresh.snapshots EXCEPT ![q] = envoy[q].conf]
  <2>1. [refresh.snapshots EXCEPT ![q] = envoy[q].conf] \in [Pods -> Loaded \cup {Nil}]
    BY <1>2 DEF Refresh
  <2> QED
    BY <1>1, <1>2, <2>1 DEF Refresh
<1>4. NetworkTypeOK'
  BY <1>1, <1>3 DEF NetworkInv, NetworkTypeOK
<1>5. RefreshTrue'
  <2> SUFFICES ASSUME NEW p \in Pods, NEW k \in Nat, <<p, k>> \in refresh.procs
               PROVE  /\ k <= envoy[p].id
                      /\ refresh'.snapshots[p] # Nil /\ k = envoy[p].id =>
                            Shown(refresh'.snapshots[p], <<p, k>>)
    BY <1>1, <1>3 DEF RefreshTrue, Shown
  <2>1. /\ k <= envoy[p].id
        /\ refresh.snapshots[p] # Nil /\ k = envoy[p].id => Shown(refresh.snapshots[p], <<p, k>>)
    BY <1>1 DEF NetworkInv, RefreshTrue
  <2>2. CASE p = q
    <3>1. refresh'.snapshots[p] = envoy[p].conf
      BY <1>2, <1>3, <2>2 DEF Refresh
    <3>2. k = envoy[p].id => Shown(envoy[p].conf, <<p, k>>)
      BY DEF NetworkInv, EnvoyTrue, Target
    <3> QED
      BY <2>1, <3>1, <3>2
  <2>3. CASE p # q
    <3>1. refresh'.snapshots[p] = refresh.snapshots[p]
      BY <1>2, <1>3, <2>3 DEF Refresh
    <3> QED
      BY <2>1, <3>1
  <2> QED
    BY <2>2, <2>3
<1>6. EnvoyTrue' /\ CacheTrue' /\ PassTrue'
  BY <1>1 DEF NetworkInv, EnvoyTrue, CacheTrue, PassTrue, Capture, Shown, Target
<1>7. SameCapture' /\ VerifiedTrue' /\ ConfirmedMeansLoaded'
  BY <1>1 DEF NetworkInv, SameCapture, VerifiedTrue, Serve, ConfirmedMeansLoaded
<1> QED
  BY <1>4, <1>5, <1>6, <1>7 DEF NetworkInv

\* The cache changes when a refresh ends, an interval is over or the operator
\* restarts; what it holds is of one capture, or nothing.
LEMMA CacheKeeps ==
    ASSUME NetworkInv, UNCHANGED <<envoy, had, net>>, NetworkTypeOK', CacheTrue', RefreshTrue',
           \A i \in Instances : pass'[i] = pass[i] \/ pass'[i].pc # "verify",
           \/ cache'.at = Nil
           \/ cache'.at = cache.at /\ cache'.procs = cache.procs
           \/ \A i \in Instances : cache'.at # pass[i].at,
           \/ cache'.verified = Nil
           \/ /\ cache'.verified = cache.verified
              /\ cache'.at = cache.at /\ cache'.procs = cache.procs
    PROVE  NetworkInv'
<1>1. EnvoyTrue' /\ PassTrue' /\ ConfirmedMeansLoaded'
  BY DEF NetworkInv, EnvoyTrue, PassTrue, Capture, Shown, Target, ConfirmedMeansLoaded
<1>2. \A i \in Instances : pass[i].pc = "verify" => pass[i].at # Nil
  BY NetworkAssumption DEF NetworkInv, PassTrue, Capture
<1>3. SameCapture'
  BY <1>2 DEF NetworkInv, SameCapture
<1>4. VerifiedTrue'
  BY DEF NetworkInv, VerifiedTrue, Serve
<1> QED
  BY <1>1, <1>3, <1>4 DEF NetworkInv

LEMMA EmptyCacheType ==
    /\ EmptyCache \in Cache
    /\ EmptyCache.procs = {} /\ EmptyCache.at = Nil /\ EmptyCache.verified = Nil
  BY DEF EmptyCache, Cache

LEMMA FailedRefreshStep ==
    ASSUME NetworkInv, refresh # Nil, NEW reason \in {"unavailable", "changed"},
           FailedRefresh(reason), scene' \in Scene,
           UNCHANGED <<settings, addr, gateway, deleting, envoy, had, pass, net>>
    PROVE  NetworkInv'
<1> DEFINE kept == IF cache.procs = refresh.procs THEN cache ELSE EmptyCache
<1>1. kept \in Cache /\ refresh.procs \in SUBSET Processes
  BY EmptyCacheType DEF NetworkInv, NetworkTypeOK, Refresh
<1>2. /\ cache' = [kept EXCEPT !.procs = refresh.procs, !.failure = reason, !.due = FALSE]
      /\ refresh' = Nil
  BY DEF FailedRefresh
<1>3. /\ cache' \in Cache
      /\ cache'.procs = refresh.procs /\ cache'.failure = reason
      /\ cache'.at = kept.at /\ cache'.snapshots = kept.snapshots
      /\ cache'.verified = kept.verified
  <2> HIDE DEF kept
  <2> QED
    BY <1>1, <1>2 DEF Cache
<1>4. \/ cache'.at = Nil /\ cache'.verified = Nil
      \/ /\ cache'.at = cache.at /\ cache'.procs = cache.procs
         /\ cache'.snapshots = cache.snapshots /\ cache'.verified = cache.verified
  BY <1>3, EmptyCacheType
<1>5. NetworkTypeOK'
  BY <1>2, <1>3 DEF NetworkInv, NetworkTypeOK
<1>6. CacheTrue' /\ RefreshTrue'
  BY <1>2, <1>3, <1>4 DEF NetworkInv, CacheTrue, RefreshTrue, Capture, Shown
<1> QED
  BY <1>4, <1>5, <1>6, CacheKeeps

\* Every process was read while it was the one there is.
LEMMA CapturedStep ==
    ASSUME NetworkInv, refresh # Nil, AllRead, SameTargets, NEW t \in Times, t \notin TimesHeld,
           cache' = Captured(t), refresh' = Nil,
           UNCHANGED <<scene, settings, addr, gateway, deleting, envoy, had, pass, net>>
    PROVE  NetworkInv'
<1>1. refresh \in Refresh
  BY DEF NetworkInv, NetworkTypeOK
<1>2. refresh.snapshots \in Snapshots
  BY <1>1 DEF Refresh, Snapshots, AllRead
<1>3. /\ cache'.procs = refresh.procs /\ cache'.snapshots = refresh.snapshots
      /\ cache'.at = t /\ cache'.verified = Nil
  BY DEF Captured
<1>4. cache' \in Cache
  BY <1>1, <1>2 DEF Captured, Cache, Refresh
<1>5. NetworkTypeOK'
  BY <1>4 DEF NetworkInv, NetworkTypeOK
<1>6. \A p \in Pods, k \in Nat : <<p, k>> \in refresh.procs => Shown(refresh.snapshots[p], <<p, k>>)
  <2> SUFFICES ASSUME NEW p \in Pods, NEW k \in Nat, <<p, k>> \in refresh.procs
               PROVE  Shown(refresh.snapshots[p], <<p, k>>)
    OBVIOUS
  <2>1. k = envoy[p].id
    BY DEF SameTargets, EnvoyTargets, Target
  <2> QED
    BY <2>1 DEF NetworkInv, RefreshTrue, AllRead
<1>7. CacheTrue'
  <2>1. Capture(cache.snapshots, cache.procs, cache.at)'
    BY <1>2, <1>3, <1>6 DEF Capture, Shown
  <2> QED
    BY <1>3, <2>1, NetworkAssumption DEF CacheTrue
<1>8. \A i \in Instances : cache'.at # pass[i].at
  BY <1>3 DEF TimesHeld
<1> QED
  BY <1>3, <1>5, <1>7, <1>8, CacheKeeps DEF RefreshTrue

LEMMA RefreshesStep ==
    ASSUME NetworkInv, Refreshes
    PROVE  NetworkInv'
<1>1. CASE RefreshTimesOut
  <2>1. scene' \in Scene
    BY <1>1 DEF RefreshTimesOut, world, NetworkInv, NetworkTypeOK
  <2> QED
    BY <1>1, <2>1, FailedRefreshStep DEF RefreshTimesOut, world
<1>2. CASE RefreshEnvoySnapshots
  <2>1. CASE /\ SameTargets /\ Times \ TimesHeld # {} /\ UNCHANGED scene /\ refresh' = Nil
             /\ cache' = Captured(CHOOSE t \in Times : t \notin TimesHeld)
    BY <1>2, <2>1, CapturedStep DEF RefreshEnvoySnapshots
  <2>2. CASE FailedRefresh("changed") /\ (UNCHANGED scene \/ Changes("check"))
    <3>1. scene' \in Scene
      BY <2>2 DEF NetworkInv, NetworkTypeOK, Changes, Scene
    <3> QED
      BY <1>2, <2>2, <3>1, FailedRefreshStep DEF RefreshEnvoySnapshots
  <2> QED
    BY <1>2, <2>1, <2>2 DEF RefreshEnvoySnapshots
<1> QED
  BY <1>1, <1>2, ReadEnvoySnapshotStep DEF Refreshes

LEMMA IntervalPassesStep ==
    ASSUME NetworkInv, IntervalPasses
    PROVE  NetworkInv'
<1>1. /\ cache' = [cache EXCEPT !.due = TRUE]
      /\ UNCHANGED <<scene, settings, addr, gateway, deleting, envoy, had, refresh, pass, net>>
  BY DEF IntervalPasses, world
<1>2. /\ cache' \in Cache
      /\ cache'.procs = cache.procs /\ cache'.snapshots = cache.snapshots /\ cache'.at = cache.at
      /\ cache'.failure = cache.failure /\ cache'.verified = cache.verified
  <2>1. cache \in Cache
    BY DEF NetworkInv, NetworkTypeOK
  <2> QED
    BY <1>1, <2>1 DEF Cache
<1>3. NetworkTypeOK'
  BY <1>1, <1>2 DEF NetworkInv, NetworkTypeOK
<1>4. CacheTrue' /\ RefreshTrue'
  BY <1>1, <1>2 DEF NetworkInv, CacheTrue, RefreshTrue, Capture, Shown
<1> QED
  BY <1>1, <1>2, <1>3, <1>4, CacheKeeps

LEMMA RestartStep ==
    ASSUME NetworkInv, Restart
    PROVE  NetworkInv'
<1>1. /\ cache' = EmptyCache /\ refresh' = Nil /\ pass' = [i \in Instances |-> IdlePass]
      /\ UNCHANGED <<settings, addr, gateway, deleting, envoy, had, net>>
  BY DEF Restart
<1>2. scene' \in Scene
  BY DEF NetworkInv, NetworkTypeOK, Restart, Changes, Scene
<1>3. pass' \in [Instances -> Pass] /\ \A i \in Instances : pass'[i].pc # "verify"
  BY <1>1, IdlePassType
<1>4. NetworkTypeOK'
  BY <1>1, <1>2, <1>3, EmptyCacheType DEF NetworkInv, NetworkTypeOK
<1>5. CacheTrue' /\ RefreshTrue'
  BY <1>1, EmptyCacheType DEF CacheTrue, RefreshTrue
<1> QED
  BY <1>1, <1>3, <1>4, <1>5, EmptyCacheType, CacheKeeps

-----------------------------------------------------------------------------
(* The steps outside                                                        *)

\* What Envoy runs with is left alone.
LEMMA EnvoyStays ==
    ASSUME NetworkInv, UNCHANGED <<envoy, had, Inside>>, NetworkTypeOK'
    PROVE  NetworkInv'
<1>1. EnvoyTrue'
  BY DEF NetworkInv, EnvoyTrue, Shown, Target
<1> QED
  BY <1>1, OutsideKeeps

\* One process is stopped, replaced or silent, or answers again.
LEMMA ProcessStep ==
    ASSUME NetworkInv, NEW p \in Pods, NEW process \in Envoy, envoy' = [envoy EXCEPT ![p] = process],
           \/ process.id = envoy[p].id /\ process.conf = envoy[p].conf
           \/ process.id > envoy[p].id /\ process.conf = Nothing,
           UNCHANGED <<settings, addr, gateway, deleting, had, Inside>>, scene' \in Scene
    PROVE  NetworkInv'
<1>1. envoy \in [Pods -> Envoy]
  BY DEF NetworkInv, NetworkTypeOK
<1>2. envoy' \in [Pods -> Envoy] /\ envoy'[p] = process /\ \A q \in Pods \ {p} : envoy'[q] = envoy[q]
  BY <1>1
<1>3. NetworkTypeOK'
  BY <1>2 DEF NetworkInv, NetworkTypeOK, Inside
<1>4. EnvoyTrue'
  BY <1>2 DEF NetworkInv, EnvoyTrue, Shown, Target, Nothing
<1> QED
  BY <1>2, <1>3, <1>4, OutsideKeeps

LEMMA LoadsStep ==
    ASSUME NetworkInv, NEW p \in Pods, NEW i \in Instances, Loads(p, i)
    PROVE  NetworkInv'
<1> DEFINE conf == [settings |-> settings, addr |-> addr[i]]
<1>1. /\ envoy' = [envoy EXCEPT ![p].conf[i] = conf]
      /\ had' = had \cup {<<Target(p), i, settings>>}
      /\ UNCHANGED <<scene, settings, addr, gateway, deleting, Inside>>
  BY DEF Loads
<1>2. envoy \in [Pods -> Envoy] /\ envoy[p] \in Envoy /\ envoy[p].conf \in Loaded /\ settings \in Settings
  BY DEF NetworkInv, NetworkTypeOK, Envoy
<1>3. conf \in Asked
  BY DEF NetworkInv, NetworkTypeOK, Asked
<1>4. [envoy[p].conf EXCEPT ![i] = conf] \in Loaded
  BY <1>2, <1>3 DEF Loaded
<1>5. /\ envoy' \in [Pods -> Envoy]
      /\ envoy'[p].conf = [envoy[p].conf EXCEPT ![i] = conf]
      /\ \A q \in Pods : envoy'[q].id = envoy[q].id
      /\ \A q \in Pods \ {p} : envoy'[q] = envoy[q]
  <2> HIDE DEF conf
  <2>1. envoy' = [envoy EXCEPT ![p] = [envoy[p] EXCEPT !.conf = [envoy[p].conf EXCEPT ![i] = conf]]]
    BY <1>1, <1>2
  <2>2. [envoy[p] EXCEPT !.conf = [envoy[p].conf EXCEPT ![i] = conf]] \in Envoy
    BY <1>2, <1>4 DEF Envoy
  <2>3. /\ [envoy[p] EXCEPT !.conf = [envoy[p].conf EXCEPT ![i] = conf]].id = envoy[p].id
        /\ [envoy[p] EXCEPT !.conf = [envoy[p].conf EXCEPT ![i] = conf]].conf
              = [envoy[p].conf EXCEPT ![i] = conf]
    BY <1>2 DEF Envoy
  <2> QED
    BY <1>2, <2>1, <2>2, <2>3
<1>6. NetworkTypeOK'
  <2>1. Target(p) \in Processes
    BY <1>2 DEF Target, Processes, Envoy
  <2> QED
    BY <1>1, <1>2, <1>5, <2>1 DEF NetworkInv, NetworkTypeOK, Inside
<1>7. EnvoyTrue'
  <2> SUFFICES ASSUME NEW q \in Pods, NEW j \in Instances, envoy'[q].conf[j] # Nil
               PROVE  <<<<q, envoy[q].id>>, j, envoy'[q].conf[j].settings>> \in had'
    BY <1>5 DEF EnvoyTrue, Shown, Target
  <2>1. CASE q = p /\ j = i
    <3>1. envoy'[q].conf[j].settings = settings
      BY <1>2, <1>5, <2>1 DEF Loaded
    <3> QED
      BY <1>1, <2>1, <3>1 DEF Target
  <2>2. CASE ~(q = p /\ j = i)
    <3>1. envoy'[q].conf[j] = envoy[q].conf[j]
      BY <1>2, <1>5, <2>2 DEF Loaded
    <3> QED
      BY <1>1, <3>1 DEF NetworkInv, EnvoyTrue, Shown, Target
  <2> QED
    BY <2>1, <2>2
<1> QED
  BY <1>1, <1>5, <1>6, <1>7, OutsideKeeps

LEMMA SettlesStep ==
    ASSUME NetworkInv, Settles
    PROVE  NetworkInv'
<1>1. CASE Programs
  <2>1. gateway' \in Gateway
    <3>1. gateway \in Gateway /\ gateway' = [gateway EXCEPT !.seen = gateway.gen]
      BY <1>1 DEF Programs, NetworkInv, NetworkTypeOK
    <3> QED
      BY <3>1 DEF Gateway
  <2>2. NetworkTypeOK'
    BY <1>1, <2>1 DEF Programs, NetworkInv, NetworkTypeOK, Inside
  <2> QED
    BY <1>1, <2>2, EnvoyStays DEF Programs
<1>2. ASSUME NEW p \in Pods, Starts(p) PROVE NetworkInv'
  <2> DEFINE process == [id |-> envoy[p].id + 1, up |-> TRUE, answers |-> TRUE, conf |-> Nothing]
  <2>1. envoy[p].id \in Nat \ {0} /\ scene \in Scene
    BY DEF NetworkInv, NetworkTypeOK, Envoy
  <2>2. process \in Envoy /\ process.id > envoy[p].id /\ process.conf = Nothing
    BY <2>1 DEF Envoy, Loaded, Nothing
  <2> QED
    BY <1>2, <2>1, <2>2, ProcessStep DEF Starts
<1>3. ASSUME NEW p \in Pods, Answers(p) PROVE NetworkInv'
  <2>1. envoy[p] \in Envoy /\ scene \in Scene
    BY DEF NetworkInv, NetworkTypeOK
  <2>2. /\ [envoy[p] EXCEPT !.answers = TRUE] \in Envoy
        /\ [envoy[p] EXCEPT !.answers = TRUE].id = envoy[p].id
        /\ [envoy[p] EXCEPT !.answers = TRUE].conf = envoy[p].conf
    BY <2>1 DEF Envoy
  <2> QED
    BY <1>3, <2>1, <2>2, ProcessStep DEF Answers
<1> QED
  BY <1>1, <1>2, <1>3, LoadsStep DEF Settles

LEMMA ChangesScene ==
    ASSUME NetworkInv, NEW kind, Changes(kind)
    PROVE  scene' \in Scene
  BY DEF NetworkInv, NetworkTypeOK, Changes, Scene

LEMMA FailsStep ==
    ASSUME NetworkInv, NEW p \in Pods, StopsEnvoy(p) \/ StopsAnswering(p)
    PROVE  NetworkInv'
<1>1. envoy[p] \in Envoy
  BY DEF NetworkInv, NetworkTypeOK
<1>2. scene' \in Scene
  BY ChangesScene DEF StopsEnvoy, StopsAnswering
<1>3. CASE StopsEnvoy(p)
  <2>1. /\ [envoy[p] EXCEPT !.up = FALSE] \in Envoy
        /\ [envoy[p] EXCEPT !.up = FALSE].id = envoy[p].id
        /\ [envoy[p] EXCEPT !.up = FALSE].conf = envoy[p].conf
    BY <1>1 DEF Envoy
  <2> QED
    BY <1>2, <1>3, <2>1, ProcessStep DEF StopsEnvoy
<1>4. CASE StopsAnswering(p)
  <2>1. /\ [envoy[p] EXCEPT !.answers = FALSE] \in Envoy
        /\ [envoy[p] EXCEPT !.answers = FALSE].id = envoy[p].id
        /\ [envoy[p] EXCEPT !.answers = FALSE].conf = envoy[p].conf
    BY <1>1 DEF Envoy
  <2> QED
    BY <1>2, <1>4, <2>1, ProcessStep DEF StopsAnswering
<1> QED
  BY <1>3, <1>4

LEMMA ChangesStep ==
    ASSUME NetworkInv,
           \/ \E s \in Settings : ChangeSettings(s)
           \/ \E i \in Instances : MovePrimary(i) \/ RequestDeletion(i)
    PROVE  NetworkInv'
<1>1. scene' \in Scene
  BY ChangesScene DEF ChangeSettings, MovePrimary, RequestDeletion
<1>2. CASE \E s \in Settings : ChangeSettings(s)
  BY <1>1, <1>2, EnvoyStays DEF ChangeSettings, Inside, NetworkInv, NetworkTypeOK
<1>3. ASSUME NEW i \in Instances, MovePrimary(i) PROVE NetworkInv'
  <2>1. addr' \in [Instances -> Nat \ {0}]
    <3>1. addr \in [Instances -> Nat \ {0}] /\ addr' = [addr EXCEPT ![i] = addr[i] + 1]
      BY <1>3 DEF MovePrimary, NetworkInv, NetworkTypeOK
    <3> QED
      BY <3>1
  <2>2. NetworkTypeOK'
    BY <1>1, <1>3, <2>1 DEF MovePrimary, NetworkInv, NetworkTypeOK, Inside
  <2> QED
    BY <1>3, <2>2, EnvoyStays DEF MovePrimary
<1>4. ASSUME NEW i \in Instances, RequestDeletion(i) PROVE NetworkInv'
  BY <1>1, <1>4, EnvoyStays DEF RequestDeletion, Inside, NetworkInv, NetworkTypeOK
<1> QED
  BY <1>2, <1>3, <1>4

-----------------------------------------------------------------------------
(* The theorems                                                             *)

LEMMA InitInv == NetworkInit => NetworkInv
<1> SUFFICES ASSUME NetworkInit PROVE NetworkInv
  OBVIOUS
<1>1. scene \in Scene /\ scene.serving \in SUBSET Instances /\ 1 \in Settings
  BY NetworkAssumption DEF NetworkInit, Scene
<1>2. [settings |-> 1, addr |-> 1] \in Asked
  BY <1>1 DEF Asked
<1>3. /\ envoy \in [Pods -> Envoy]
      /\ \A p \in Pods : envoy[p].id = 1 /\ envoy[p].conf =
            [i \in Instances |-> IF i \in scene.serving THEN [settings |-> 1, addr |-> 1] ELSE Nil]
  BY <1>2 DEF NetworkInit, Envoy, Loaded
<1>4. had \in SUBSET (Processes \X Instances \X Settings)
  BY <1>1 DEF NetworkInit, Processes
<1>5. gateway \in Gateway
  BY <1>1 DEF NetworkInit, Gateway
<1>6. net \in [Instances -> Net] /\ \A i \in Instances : net[i].verified = Nil
  BY DEF NetworkInit, Net
<1>7. NetworkTypeOK
  <2>1. settings \in Settings /\ addr \in [Instances -> Nat \ {0}] /\ deleting \in SUBSET Instances
    BY <1>1 DEF NetworkInit
  <2>2. cache \in Cache /\ refresh \in Refresh \cup {Nil} /\ pass \in [Instances -> Pass]
    BY EmptyCacheType, IdlePassType DEF NetworkInit
  <2> QED
    BY <1>1, <1>3, <1>4, <1>5, <1>6, <2>1, <2>2 DEF NetworkTypeOK
<1>8. EnvoyTrue
  BY <1>3 DEF NetworkInit, EnvoyTrue, Shown, Target
<1>9. RefreshTrue /\ CacheTrue /\ PassTrue /\ SameCapture /\ VerifiedTrue
  BY EmptyCacheType, IdlePassType DEF NetworkInit, RefreshTrue, CacheTrue, PassTrue, SameCapture,
                                      VerifiedTrue
<1> QED
  BY <1>6, <1>7, <1>8, <1>9 DEF NetworkInv, ConfirmedMeansLoaded

LEMMA StutterInv ==
    ASSUME NetworkInv, UNCHANGED networkVars
    PROVE  NetworkInv'
<1>1. NetworkTypeOK'
  BY DEF NetworkInv, NetworkTypeOK, networkVars, world
<1> QED
  BY <1>1, EnvoyStays DEF networkVars, world, Inside

LEMMA NextInv == NetworkInv /\ [NetworkNext]_networkVars => NetworkInv'
<1> SUFFICES ASSUME NetworkInv, [NetworkNext]_networkVars PROVE NetworkInv'
  OBVIOUS
<1>1. scene.instances \subseteq Instances
  BY DEF NetworkInv, NetworkTypeOK, Scene
<1>2. ASSUME NEW i \in Instances, ReconcilesNetwork(i) PROVE NetworkInv'
  BY <1>2, ReadGatewayStep, UpdateGatewayStep, EnvoySnapshotsStep, VerifyStep DEF ReconcilesNetwork
<1> QED
  BY <1>1, <1>2, CheckFailsStep, ChangesStep, RefreshesStep, IntervalPassesStep, SettlesStep,
     FailsStep, RestartStep, StutterInv DEF NetworkNext

LEMMA NetworkInvariant == NetworkSpec => []NetworkInv
  BY InitInv, NextInv, PTL DEF NetworkSpec

\* Every state has the types NetworkTypeOK gives.
THEOREM NetworkTypeCorrect == NetworkSpec => []NetworkTypeOK
<1>1. NetworkInv => NetworkTypeOK
  BY DEF NetworkInv
<1> QED
  BY <1>1, NetworkInvariant, PTL

\* What applyNetworkVerification writes into the status is true of every process
\* it names, whatever was remembered, renewed or replaced meanwhile.
THEOREM ConfirmedHolds == NetworkSpec => []ConfirmedMeansLoaded
<1>1. NetworkInv => ConfirmedMeansLoaded
  BY DEF NetworkInv
<1> QED
  BY <1>1, NetworkInvariant, PTL

\* networkVerificationAllowsOperations allows nothing before Envoy has loaded what
\* the pass has read.
LEMMA AllowedMeansLoaded ==
    ASSUME NetworkInv, NEW i \in Instances, Checks(i), net'[i].allowed
    PROVE  IF pass[i].pc = "verify"
           THEN \A process \in pass[i].procs : <<process, i, pass[i].expected.settings>> \in had
           ELSE \A p \in Pods : <<Target(p), i, settings>> \in had
<1>1. \A allowed, waits : Ends(i, allowed, waits) => net'[i].allowed = allowed
  BY DEF NetworkInv, NetworkTypeOK, Net, Ends
<1>2. CASE Verify(i)
  <2>1. EnvoyVerified(i) /\ pass[i].pc = "verify"
    BY <1>1, <1>2 DEF Verify
  <2>2. Serve(pass[i].procs, Fingerprint(i))
    BY <2>1, VerifiedServes
  <2> QED
    BY <2>1, <2>2 DEF Serve, Fingerprint
<1>3. CASE EnvoySnapshots(i)
  <2>1. pass[i].pc = "idle" /\ pass'[i].pc = "idle"
    BY <1>3 DEF EnvoySnapshots, Reconciles, Checks
  <2>2. Reusable(i) /\ CompositionKnown
    <3>1. ~(pass' = [pass EXCEPT ![i] =
               [IdlePass EXCEPT !.pc = "verify", !.expected = Expected(i), !.procs = EnvoyTargets,
                                !.snapshots = cache.snapshots, !.at = cache.at]])
      <4>1. [IdlePass EXCEPT !.pc = "verify", !.expected = Expected(i), !.procs = EnvoyTargets,
                             !.snapshots = cache.snapshots, !.at = cache.at].pc = "verify"
        BY DEF IdlePass
      <4>2. pass \in [Instances -> Pass]
        BY DEF NetworkInv, NetworkTypeOK
      <4> QED
        BY <2>1, <4>1, <4>2
    <3> QED
      BY <1>1, <1>3, <3>1 DEF EnvoySnapshots
  <2>3. net[i].verified # Nil
    BY <2>2, NetworkAssumption DEF NetworkInv, NetworkTypeOK, Reusable, Confirmed
  <2>4. \A p \in Pods : Target(p) \in net[i].procs
    BY <2>2 DEF Reusable, CompositionKnown, EnvoyTargets
  <2> QED
    BY <2>1, <2>2, <2>3, <2>4 DEF NetworkInv, ConfirmedMeansLoaded, Reusable, Confirmed
<1> QED
  BY <1>2, <1>3 DEF Checks

\* The application is not admitted before Envoy runs with the settings a pass has
\* read: the action property of the run, for every number of processes.
THEOREM OperationsHold == NetworkSpec => OperationsWaitForEnvoy
<1>1. NetworkInv =>
        \A i \in Instances :
          Checks(i) /\ net'[i].allowed =>
              IF pass[i].pc = "verify"
              THEN \A process \in pass[i].procs : <<process, i, pass[i].expected.settings>> \in had
              ELSE \A p \in Pods : <<Target(p), i, settings>> \in had
  BY AllowedMeansLoaded
<1> QED
  BY <1>1, NetworkInvariant, PTL DEF OperationsWaitForEnvoy
-----------------------------------------------------------------------------
(* A verified instance goes on undisturbed                                  *)

\* What an instance asks for that has neither moved nor changed.
AtFirst == [settings |-> 1, addr |-> 1]

Still(i) == "settings" \notin scene.kinds /\ addr[i] = 1

SettingsStay == "settings" \notin scene.kinds => settings = 1

PassStays == \A i \in Instances : Still(i) /\ pass[i].pc = "verify" => pass[i].expected = AtFirst

\* A copy of the Gateway that may still be written has every listener that stays.
ListenersStay ==
    \A j \in Instances : pass[j].pc = "update" =>
        /\ pass[j].gen <= gateway.gen
        /\ pass[j].gen = gateway.gen => gateway.listeners \ deleting \subseteq pass[j].listeners

\* One process at least of every Pod, and none that is still to come.
Composed(procs) ==
    /\ \A p \in Pods : \E k \in Nat : <<p, k>> \in procs
    /\ \A p \in Pods, k \in Nat : <<p, k>> \in procs => k <= envoy[p].id

ProcsKnown ==
    \A i \in Instances :
        /\ net[i].verified # Nil => Composed(net[i].procs)
        /\ pass[i].pc = "verify" => Composed(pass[i].procs)

\* From the youngest to the oldest: the process itself, what the refresh has read,
\* the cache, and the snapshots of a pass.
EnvoyHas(i, p) == envoy[p].conf[i] = AtFirst
RefreshHas(i, p) ==
    /\ EnvoyHas(i, p)
    /\ refresh # Nil => refresh.snapshots[p] = Nil \/ refresh.snapshots[p][i] = AtFirst
CacheHas(i, p) == RefreshHas(i, p) /\ (cache.at # Nil => cache.snapshots[p][i] = AtFirst)
PassHas(i, p) == CacheHas(i, p) /\ (pass[i].pc = "verify" => pass[i].snapshots[p][i] = AtFirst)

\* What an older snapshot of a process shows the younger ones show too.
SnapshotsAge ==
    \A i \in Instances, p \in Pods : Still(i) /\ envoy[p].id = 1 =>
        /\ refresh # Nil /\ refresh.snapshots[p] # Nil /\ refresh.snapshots[p][i] = AtFirst =>
              EnvoyHas(i, p)
        /\ cache.at # Nil /\ cache.snapshots[p][i] = AtFirst => RefreshHas(i, p)
        /\ pass[i].pc = "verify" /\ pass[i].snapshots[p][i] = AtFirst => CacheHas(i, p)
        /\ net[i].verified # Nil => PassHas(i, p) /\ net[i].verified = 1

AllHave(snapshots, i) == \A p \in Pods : snapshots[p][i] = AtFirst

\* A remembered result, good or bad, is the one the snapshots give.
ResultRight ==
    cache.verified # Nil => \A i \in Instances : cache.verified.for[1] = i /\ Still(i) =>
        /\ cache.at = cache.verified.at => (cache.verified.ok <=> AllHave(cache.snapshots, i))
        /\ pass[i].pc = "verify" /\ pass[i].at = cache.verified.at =>
              (cache.verified.ok <=> AllHave(pass[i].snapshots, i))

SameSnapshots ==
    \A i \in Instances : pass[i].pc = "verify" /\ pass[i].at = cache.at =>
        pass[i].snapshots = cache.snapshots

CalmInv ==
    /\ SettingsStay /\ PassStays /\ ListenersStay /\ ProcsKnown
    /\ SnapshotsAge /\ ResultRight /\ SameSnapshots

\* A step outside the operator: nothing an instance that stays has is lost while
\* its process is the same.
LEMMA CalmOutside ==
    ASSUME NetworkInv, CalmInv, UNCHANGED Inside, NetworkTypeOK', scene'.kinds = scene.kinds,
           SettingsStay',
           \A i \in Instances : addr'[i] = 1 => addr[i] = 1,
           gateway'.gen = gateway.gen, gateway'.listeners = gateway.listeners,
           deleting \subseteq deleting',
           \A p \in Pods : envoy'[p].id = envoy[p].id \/ envoy'[p].id > envoy[p].id,
           \A i \in Instances, p \in Pods :
              Still(i) /\ envoy'[p].id = envoy[p].id /\ EnvoyHas(i, p) => EnvoyHas(i, p)'
    PROVE  CalmInv'
<1>0. UNCHANGED <<cache, refresh, pass, net>>
  BY DEF Inside
<1>1. \A p \in Pods : envoy[p].id \in Nat \ {0} /\ envoy'[p].id \in Nat \ {0}
  BY DEF NetworkInv, NetworkTypeOK, Envoy
<1>2. \A i \in Instances : Still(i)' => Still(i)
  BY DEF Still
<1>3. PassStays' /\ SameSnapshots'
  BY <1>0, <1>2 DEF CalmInv, PassStays, SameSnapshots
<1>4. ListenersStay'
  BY <1>0 DEF CalmInv, ListenersStay
<1>5. ProcsKnown'
  <2>1. ASSUME NEW procs, Composed(procs) PROVE Composed(procs)'
    <3>1. ASSUME NEW p \in Pods, NEW k \in Nat, <<p, k>> \in procs PROVE k <= envoy'[p].id
      <4>1. k <= envoy[p].id
        BY <2>1, <3>1 DEF Composed
      <4> QED
        BY <1>1, <4>1
    <3> QED
      BY <2>1, <3>1 DEF Composed
  <2> QED
    BY <1>0, <2>1 DEF CalmInv, ProcsKnown
<1>6. SnapshotsAge'
  <2>1. \A p \in Pods : envoy'[p].id = 1 => envoy[p].id = 1 /\ envoy'[p].id = envoy[p].id
    BY <1>1
  <2> QED
    BY <1>0, <1>2, <2>1 DEF CalmInv, SnapshotsAge, PassHas, CacheHas, RefreshHas
<1>7. ResultRight'
  BY <1>0, <1>2 DEF CalmInv, ResultRight, AllHave
<1> QED
  BY <1>3, <1>4, <1>5, <1>6, <1>7 DEF CalmInv

\* The passes go on or end, and a refresh may begin: nothing is confirmed, nothing
\* is read.
LEMMA CalmPasses ==
    ASSUME NetworkInv, CalmInv, UNCHANGED <<settings, addr, deleting, envoy, cache>>,
           scene'.kinds = scene.kinds, ListenersStay',
           refresh' = refresh \/ \A p \in Pods : refresh'.snapshots[p] = Nil,
           \A i \in Instances : pass'[i] = pass[i] \/ pass'[i].pc # "verify",
           \A i \in Instances : /\ net'[i].verified = net[i].verified
                                /\ net'[i].procs = net[i].procs
    PROVE  CalmInv'
<1>1. SettingsStay' /\ PassStays' /\ SameSnapshots'
  BY DEF CalmInv, SettingsStay, PassStays, SameSnapshots, Still
<1>2. ProcsKnown'
  BY DEF CalmInv, ProcsKnown, Composed
<1>3. SnapshotsAge'
  BY DEF CalmInv, SnapshotsAge, PassHas, CacheHas, RefreshHas, EnvoyHas, Still
<1>4. ResultRight'
  BY DEF CalmInv, ResultRight, AllHave, Still
<1> QED
  BY <1>1, <1>2, <1>3, <1>4 DEF CalmInv

LEMMA ReadGatewayCalm ==
    ASSUME NetworkInv, CalmInv, NEW i \in Instances, ReadGateway(i)
    PROVE  CalmInv'
<1> DEFINE read == [IdlePass EXCEPT
        !.pc = "update", !.gen = gateway.gen,
        !.listeners = IF i \in deleting THEN gateway.listeners \ {i} ELSE gateway.listeners \cup {i}]
<1>1. pass \in [Instances -> Pass] /\ gateway \in Gateway
  BY DEF NetworkInv, NetworkTypeOK
<1>2. /\ read.pc = "update" /\ read.gen = gateway.gen
      /\ gateway.listeners \ deleting \subseteq read.listeners
  BY <1>1 DEF IdlePass
<1>3. pass' = [pass EXCEPT ![i] = read] /\ UNCHANGED <<world, cache, refresh, net>>
  BY DEF ReadGateway
<1>4. \A j \in Instances : pass'[j] = IF j = i THEN read ELSE pass[j]
  BY <1>1, <1>3
<1> HIDE DEF read
<1>5. gateway.gen \in Nat
  BY <1>1 DEF Gateway
<1>6. ListenersStay'
  BY <1>2, <1>3, <1>4, <1>5 DEF CalmInv, ListenersStay, world
<1> QED
  BY <1>2, <1>3, <1>4, <1>6, CalmPasses DEF world

LEMMA UpdateGatewayCalm ==
    ASSUME NetworkInv, CalmInv, NEW i \in Instances, UpdateGateway(i)
    PROVE  CalmInv'
<1>1. pass \in [Instances -> Pass] /\ gateway \in Gateway
  BY DEF NetworkInv, NetworkTypeOK
<1>2. \A j \in Instances : pass'[j] = IF j = i THEN IdlePass ELSE pass[j]
  BY <1>1 DEF UpdateGateway
<1>3. \A j \in Instances : pass[j].gen \in Nat
  BY <1>1 DEF Pass
<1>4. gateway.gen \in Nat
  BY <1>1 DEF Gateway
<1>5. ListenersStay'
  <2>1. CASE pass[i].gen = gateway.gen
    <3>1. gateway'.gen = gateway.gen + 1
      BY <1>1, <2>1 DEF UpdateGateway, Gateway
    <3>2. \A j \in Instances : pass[j].pc = "update" => pass[j].gen <= gateway.gen
      BY DEF CalmInv, ListenersStay
    <3> QED
      BY <1>2, <1>3, <1>4, <3>1, <3>2, IdlePassType DEF ListenersStay
  <2>2. CASE pass[i].gen # gateway.gen
    BY <1>2, <2>2, IdlePassType DEF UpdateGateway, CalmInv, ListenersStay
  <2> QED
    BY <2>1, <2>2
<1> QED
  BY <1>2, <1>5, IdlePassType, CalmPasses DEF UpdateGateway

LEMMA CheckFailsCalm ==
    ASSUME NetworkInv, CalmInv, NEW i \in Instances, CheckFails(i)
    PROVE  CalmInv'
<1>1. scene'.kinds = scene.kinds
  BY DEF CheckFails, Changes, NetworkInv, NetworkTypeOK, Scene
<1>2. PICK waits \in BOOLEAN : Ends(i, FALSE, waits)
  BY DEF CheckFails
<1>3. \A j \in Instances : /\ pass'[j] = pass[j] \/ pass'[j].pc # "verify"
                           /\ net'[j].verified = net[j].verified
                           /\ net'[j].procs = net[j].procs
  BY <1>2, EndsType DEF NetworkInv
<1>4. \A j \in Instances : pass'[j] = pass[j] \/ pass'[j].pc = "idle"
  BY <1>2, IdlePassType DEF Ends, NetworkInv, NetworkTypeOK
<1>5. ListenersStay'
  BY <1>4 DEF CheckFails, CalmInv, ListenersStay
<1> QED
  BY <1>1, <1>3, <1>5, CalmPasses DEF CheckFails

\* A pass that verifies takes the snapshots of the cache, and the processes there
\* are.
LEMMA EnvoySnapshotsCalm ==
    ASSUME NetworkInv, CalmInv, NEW i \in Instances, EnvoySnapshots(i)
    PROVE  CalmInv'
<1>1. UNCHANGED <<scene, settings, addr, gateway, deleting, envoy, cache>>
  BY DEF EnvoySnapshots, world
<1>2. refresh' = refresh \/ \A p \in Pods : refresh'.snapshots[p] = Nil
  <2>1. BeginsRefresh =>
           \/ refresh' = refresh
           \/ refresh' = [procs |-> EnvoyTargets, snapshots |-> [p \in Pods |-> Nil]]
    BY Zenon DEF BeginsRefresh
  <2>2. BeginsRefresh => refresh' = refresh \/ \A p \in Pods : refresh'.snapshots[p] = Nil
    BY <2>1
  <2> QED
    BY <2>2 DEF EnvoySnapshots
<1>3. CASE \E allowed, waits \in BOOLEAN : Ends(i, allowed, waits)
  <2>1. \A j \in Instances : /\ pass'[j] = pass[j] \/ pass'[j].pc # "verify"
                             /\ net'[j].verified = net[j].verified
                             /\ net'[j].procs = net[j].procs
    BY <1>3, EndsType DEF NetworkInv
  <2>2. \A j \in Instances : pass'[j] = pass[j] \/ pass'[j].pc = "idle"
    BY <1>3, IdlePassType DEF Ends, NetworkInv, NetworkTypeOK
  <2>3. ListenersStay'
    BY <1>1, <2>2 DEF CalmInv, ListenersStay
  <2> QED
    BY <1>1, <1>2, <2>1, <2>3, CalmPasses
<1>4. CASE /\ CompositionKnown /\ CacheMatches /\ cache.failure = "no"
           /\ pass' = [pass EXCEPT ![i] =
                 [IdlePass EXCEPT !.pc = "verify", !.expected = Expected(i), !.procs = EnvoyTargets,
                                  !.snapshots = cache.snapshots, !.at = cache.at]]
           /\ UNCHANGED net
  <2>1. PICK p \in Pods : TRUE
    BY NetworkAssumption
  <2>2. Target(p) \in EnvoyTargets
    BY <1>4 DEF CompositionKnown, EnvoyTargets
  <2>3. Capture(cache.snapshots, cache.procs, cache.at) /\ cache.procs = EnvoyTargets
    BY <1>4, <2>2 DEF NetworkInv, CacheTrue, CacheMatches
  <2>4. cache.at # Nil
    BY <2>3, NetworkAssumption DEF Capture
  <2>5. /\ pass'[i].pc = "verify" /\ pass'[i].expected = Expected(i)
        /\ pass'[i].procs = EnvoyTargets /\ pass'[i].snapshots = cache.snapshots
        /\ pass'[i].at = cache.at
        /\ \A j \in Instances \ {i} : pass'[j] = pass[j]
    <3>1. pass \in [Instances -> Pass]
      BY DEF NetworkInv, NetworkTypeOK
    <3> QED
      BY <1>4, <3>1 DEF IdlePass
  <2>6. Composed(EnvoyTargets)
    <3>1. \A q \in Pods : envoy[q].id \in Nat /\ <<q, envoy[q].id>> \in EnvoyTargets
      BY <1>4 DEF CompositionKnown, EnvoyTargets, Target, NetworkInv, NetworkTypeOK, Envoy
    <3>2. \A q \in Pods, k \in Nat : <<q, k>> \in EnvoyTargets => k = envoy[q].id
      BY DEF EnvoyTargets, Target
    <3>3. \A q \in Pods, k \in Nat : <<q, k>> \in EnvoyTargets => k <= envoy[q].id
      BY <3>1, <3>2
    <3> QED
      BY <3>1, <3>3 DEF Composed
  <2>7. SettingsStay' /\ ListenersStay' /\ SameSnapshots'
    BY <1>1, <2>5 DEF CalmInv, SettingsStay, ListenersStay, SameSnapshots
  <2>8. PassStays'
    <3>1. Still(i) => Expected(i) = AtFirst
      BY DEF Still, Expected, AtFirst, CalmInv, SettingsStay
    <3> QED
      BY <1>1, <2>5, <3>1 DEF CalmInv, PassStays, Still
  <2>9. ProcsKnown'
    BY <1>1, <1>4, <2>5, <2>6 DEF CalmInv, ProcsKnown, Composed
  <2>10. SnapshotsAge'
    BY <1>1, <1>2, <1>4, <2>4, <2>5
       DEF CalmInv, SnapshotsAge, PassHas, CacheHas, RefreshHas, EnvoyHas, Still
  <2>11. ResultRight'
    BY <1>1, <2>5 DEF CalmInv, ResultRight, AllHave, Still
  <2> QED
    BY <2>7, <2>8, <2>9, <2>10, <2>11 DEF CalmInv
<1> QED
  BY <1>3, <1>4 DEF EnvoySnapshots, Reusable, Confirmed

\* What EnvoyVerified says of an instance that stays is what its snapshots show.
LEMMA VerifiedRight ==
    ASSUME NetworkInv, CalmInv, NEW i \in Instances, pass[i].pc = "verify", Still(i)
    PROVE  EnvoyVerified(i) <=> AllHave(pass[i].snapshots, i)
<1>1. CASE Remembered(i)
  <2>1. cache.verified.for[1] = i
    BY <1>1 DEF Remembered, Fingerprint
  <2> QED
    BY <1>1, <2>1 DEF EnvoyVerified, Remembered, CalmInv, ResultRight
<1>2. CASE ~Remembered(i)
  BY <1>2 DEF EnvoyVerified, CalmInv, PassStays, AllHave
<1> QED
  BY <1>1, <1>2

LEMMA VerifyCalm ==
    ASSUME NetworkInv, CalmInv, NEW i \in Instances, Verify(i)
    PROVE  CalmInv'
<1>1. /\ UNCHANGED <<scene, settings, addr, gateway, deleting, envoy, had, refresh>>
      /\ pass[i].pc = "verify"
      /\ cache' = [cache EXCEPT !.verified =
                      [for |-> Fingerprint(i), at |-> pass[i].at, ok |-> EnvoyVerified(i)]]
  BY DEF Verify, world
<1>2. /\ cache'.snapshots = cache.snapshots /\ cache'.at = cache.at
      /\ cache'.verified.for[1] = i /\ cache'.verified.at = pass[i].at
      /\ cache'.verified.ok = EnvoyVerified(i)
  BY <1>1 DEF NetworkInv, NetworkTypeOK, Cache, Fingerprint
<1>3. \A j \in Instances : pass'[j] = IF j = i THEN IdlePass ELSE pass[j]
  BY DEF NetworkInv, NetworkTypeOK, Verify, Ends
<1>4. SettingsStay' /\ PassStays' /\ ListenersStay' /\ SameSnapshots'
  BY <1>1, <1>2, <1>3, IdlePassType
     DEF CalmInv, SettingsStay, PassStays, ListenersStay, SameSnapshots, Still
<1>5. ResultRight'
  BY <1>1, <1>2, <1>3, IdlePassType, VerifiedRight
     DEF CalmInv, ResultRight, SameSnapshots, AllHave, Still
<1>6. ProcsKnown' /\ SnapshotsAge'
  <2>1. CASE EnvoyVerified(i)
    <3>1. net' = [net EXCEPT ![i] = [verified |-> pass[i].expected.settings, procs |-> pass[i].procs,
                                    allowed |-> TRUE, lost |-> FALSE]]
      BY <2>1 DEF Verify
    <3>2. /\ net'[i].verified = pass[i].expected.settings /\ net'[i].procs = pass[i].procs
          /\ \A j \in Instances \ {i} : net'[j] = net[j]
      BY <3>1 DEF NetworkInv, NetworkTypeOK
    <3>3. ProcsKnown'
      BY <1>1, <1>3, <3>2, IdlePassType DEF CalmInv, ProcsKnown, Composed
    <3>4. Still(i) => pass[i].expected.settings = 1 /\ AllHave(pass[i].snapshots, i)
      BY <1>1, <2>1, VerifiedRight DEF CalmInv, PassStays, AtFirst
    <3>5. Still(i) => \A p \in Pods : envoy[p].id = 1 => CacheHas(i, p)
      BY <1>1, <3>4 DEF CalmInv, SnapshotsAge, AllHave
    <3>6. SnapshotsAge'
      BY <1>1, <1>2, <1>3, <3>2, <3>4, <3>5, IdlePassType
         DEF CalmInv, SnapshotsAge, PassHas, CacheHas, RefreshHas, EnvoyHas, Still
    <3> QED
      BY <3>3, <3>6
  <2>2. CASE ~EnvoyVerified(i)
    <3>1. Ends(i, FALSE, TRUE)
      BY <2>2 DEF Verify
    <3>2. \A j \in Instances : /\ net'[j].verified = net[j].verified
                               /\ net'[j].procs = net[j].procs
      BY <3>1, EndsType DEF NetworkInv
    <3>3. ProcsKnown'
      BY <1>1, <1>3, <3>2, IdlePassType DEF CalmInv, ProcsKnown, Composed
    <3>4. SnapshotsAge'
      BY <1>1, <1>2, <1>3, <3>2, IdlePassType
         DEF CalmInv, SnapshotsAge, PassHas, CacheHas, RefreshHas, EnvoyHas, Still
    <3> QED
      BY <3>3, <3>4
  <2> QED
    BY <2>1, <2>2
<1> QED
  BY <1>4, <1>5, <1>6 DEF CalmInv

-----------------------------------------------------------------------------

LEMMA ReadEnvoySnapshotCalm ==
    ASSUME NetworkInv, CalmInv, NEW q \in Pods, ReadEnvoySnapshot(q)
    PROVE  CalmInv'
<1>1. /\ UNCHANGED <<scene, settings, addr, gateway, deleting, envoy, had, cache, pass, net>>
      /\ refresh # Nil
      /\ refresh' = [refresh EXCEPT !.snapshots[q] = envoy[q].conf]
  BY DEF ReadEnvoySnapshot, world
<1>2. refresh \in Refresh
  BY <1>1 DEF NetworkInv, NetworkTypeOK
<1>3. \A p \in Pods : refresh'.snapshots[p] = IF p = q THEN envoy[q].conf ELSE refresh.snapshots[p]
  BY <1>1, <1>2 DEF Refresh
<1>4. SettingsStay' /\ PassStays' /\ ListenersStay' /\ SameSnapshots'
  BY <1>1 DEF CalmInv, SettingsStay, PassStays, ListenersStay, SameSnapshots, Still
<1>5. ResultRight' /\ ProcsKnown'
  BY <1>1 DEF CalmInv, ResultRight, AllHave, Still, ProcsKnown, Composed
<1>6. SnapshotsAge'
  <2> SUFFICES ASSUME NEW i \in Instances, NEW p \in Pods, Still(i), envoy[p].id = 1
               PROVE  /\ refresh' # Nil /\ refresh'.snapshots[p] # Nil
                            /\ refresh'.snapshots[p][i] = AtFirst => EnvoyHas(i, p)'
                      /\ cache.at # Nil /\ cache.snapshots[p][i] = AtFirst => RefreshHas(i, p)'
                      /\ pass[i].pc = "verify" /\ pass[i].snapshots[p][i] = AtFirst =>
                            CacheHas(i, p)'
                      /\ net[i].verified # Nil => PassHas(i, p)' /\ net[i].verified = 1
    BY <1>1 DEF SnapshotsAge, Still
  <2>1. EnvoyHas(i, p)' = EnvoyHas(i, p)
    BY <1>1 DEF EnvoyHas
  <2>2. RefreshHas(i, p) => RefreshHas(i, p)'
    BY <1>1, <1>3 DEF RefreshHas, EnvoyHas
  <2> QED
    BY <1>1, <1>3, <2>1, <2>2 DEF CalmInv, SnapshotsAge, PassHas, CacheHas, EnvoyHas
<1> QED
  BY <1>4, <1>5, <1>6 DEF CalmInv

\* The refresh ends, an interval is over or the operator restarts: the cache has
\* what it had, what the refresh has read, or nothing.
LEMMA CalmCache ==
    ASSUME NetworkInv, CalmInv, UNCHANGED <<settings, addr, gateway, deleting, envoy, net>>,
           scene'.kinds = scene.kinds,
           refresh' = refresh \/ refresh' = Nil,
           \A i \in Instances : pass'[i] = pass[i] \/ pass'[i].pc = "idle",
           \/ cache'.at = Nil
           \/ cache'.at = cache.at /\ cache'.snapshots = cache.snapshots
           \/ /\ \A i \in Instances : cache'.at # pass[i].at
              /\ cache'.snapshots = refresh.snapshots /\ refresh # Nil /\ AllRead
              /\ refresh' = Nil,
           \/ cache'.verified = Nil
           \/ /\ cache'.verified = cache.verified
              /\ cache'.at = cache.at /\ cache'.snapshots = cache.snapshots
    PROVE  CalmInv'
<1>1. SettingsStay' /\ PassStays' /\ ListenersStay'
  BY DEF CalmInv, SettingsStay, PassStays, ListenersStay, Still
<1>2. ProcsKnown'
  BY DEF CalmInv, ProcsKnown, Composed
<1>3. SameSnapshots'
  BY NetworkAssumption DEF CalmInv, SameSnapshots, NetworkInv, PassTrue, Capture
<1>4. ResultRight'
  BY DEF CalmInv, ResultRight, AllHave, Still
<1>5. SnapshotsAge'
  BY DEF CalmInv, SnapshotsAge, PassHas, CacheHas, RefreshHas, EnvoyHas, Still, AllRead
<1> QED
  BY <1>1, <1>2, <1>3, <1>4, <1>5 DEF CalmInv

LEMMA FailedRefreshCalm ==
    ASSUME NetworkInv, CalmInv, refresh # Nil, NEW reason \in {"unavailable", "changed"},
           FailedRefresh(reason), scene'.kinds = scene.kinds,
           UNCHANGED <<settings, addr, gateway, deleting, envoy, had, pass, net>>
    PROVE  CalmInv'
<1> DEFINE kept == IF cache.procs = refresh.procs THEN cache ELSE EmptyCache
<1>1. kept \in Cache
  BY EmptyCacheType DEF NetworkInv, NetworkTypeOK
<1>2. /\ cache' = [kept EXCEPT !.procs = refresh.procs, !.failure = reason, !.due = FALSE]
      /\ refresh' = Nil
  BY DEF FailedRefresh
<1>3. /\ cache'.at = kept.at /\ cache'.snapshots = kept.snapshots
      /\ cache'.verified = kept.verified
  <2> HIDE DEF kept
  <2> QED
    BY <1>1, <1>2 DEF Cache
<1>4. \/ cache'.at = Nil /\ cache'.verified = Nil
      \/ /\ cache'.at = cache.at /\ cache'.snapshots = cache.snapshots
         /\ cache'.verified = cache.verified
  BY <1>3, EmptyCacheType
<1> QED
  BY <1>2, <1>4, CalmCache

LEMMA RefreshesCalm ==
    ASSUME NetworkInv, CalmInv, Refreshes
    PROVE  CalmInv'
<1>1. CASE RefreshTimesOut
  BY <1>1, FailedRefreshCalm DEF RefreshTimesOut, world
<1>2. CASE RefreshEnvoySnapshots
  <2>1. CASE /\ Times \ TimesHeld # {} /\ UNCHANGED scene /\ refresh' = Nil
             /\ cache' = Captured(CHOOSE t \in Times : t \notin TimesHeld)
    <3>1. PICK t \in Times : t \notin TimesHeld /\ cache' = Captured(t)
      BY <2>1
    <3>2. /\ cache'.at = t /\ cache'.snapshots = refresh.snapshots /\ cache'.verified = Nil
      BY <3>1 DEF Captured
    <3>3. \A i \in Instances : cache'.at # pass[i].at
      BY <3>1, <3>2 DEF TimesHeld
    <3> QED
      BY <1>2, <2>1, <3>2, <3>3, CalmCache DEF RefreshEnvoySnapshots
  <2>2. CASE FailedRefresh("changed") /\ (UNCHANGED scene \/ Changes("check"))
    <3>1. scene'.kinds = scene.kinds
      BY <2>2 DEF NetworkInv, NetworkTypeOK, Changes, Scene
    <3> QED
      BY <1>2, <2>2, <3>1, FailedRefreshCalm DEF RefreshEnvoySnapshots
  <2> QED
    BY <1>2, <2>1, <2>2 DEF RefreshEnvoySnapshots
<1> QED
  BY <1>1, <1>2, ReadEnvoySnapshotCalm DEF Refreshes

LEMMA IntervalPassesCalm ==
    ASSUME NetworkInv, CalmInv, IntervalPasses
    PROVE  CalmInv'
<1>1. /\ cache'.snapshots = cache.snapshots /\ cache'.at = cache.at
      /\ cache'.verified = cache.verified
  BY DEF IntervalPasses, NetworkInv, NetworkTypeOK, Cache
<1> QED
  BY <1>1, CalmCache DEF IntervalPasses, world

LEMMA RestartCalm ==
    ASSUME NetworkInv, CalmInv, Restart
    PROVE  CalmInv'
<1>1. scene'.kinds = scene.kinds
  BY DEF Restart, Changes, NetworkInv, NetworkTypeOK, Scene
<1>2. \A i \in Instances : pass'[i].pc = "idle"
  BY IdlePassType DEF Restart
<1> QED
  BY <1>1, <1>2, EmptyCacheType, CalmCache DEF Restart

-----------------------------------------------------------------------------

LEMMA SettlesCalm ==
    ASSUME NetworkInv, CalmInv, Settles
    PROVE  CalmInv'
<1>0. NetworkTypeOK' /\ \A p \in Pods : envoy[p].id \in Nat
  BY SettlesStep DEF NetworkInv, NetworkTypeOK, Envoy
<1>1. CASE Programs
  <2>1. gateway'.gen = gateway.gen /\ gateway'.listeners = gateway.listeners
    BY <1>1 DEF Programs, NetworkInv, NetworkTypeOK, Gateway
  <2>2. SettingsStay'
    BY <1>1 DEF Programs, CalmInv, SettingsStay
  <2> QED
    BY <1>0, <1>1, <2>1, <2>2, CalmOutside DEF Programs, EnvoyHas
<1>2. ASSUME NEW p \in Pods, Starts(p) PROVE CalmInv'
  <2>1. \A q \in Pods : IF q = p THEN envoy'[q].id = envoy[q].id + 1 ELSE envoy'[q] = envoy[q]
    BY <1>2 DEF Starts, NetworkInv, NetworkTypeOK
  <2>2. SettingsStay'
    BY <1>2 DEF Starts, CalmInv, SettingsStay
  <2> QED
    BY <1>0, <1>2, <2>1, <2>2, CalmOutside DEF Starts, EnvoyHas
<1>3. ASSUME NEW p \in Pods, Answers(p) PROVE CalmInv'
  <2>1. \A q \in Pods : envoy'[q].id = envoy[q].id /\ envoy'[q].conf = envoy[q].conf
    BY <1>3 DEF Answers, NetworkInv, NetworkTypeOK, Envoy
  <2>2. SettingsStay'
    BY <1>3 DEF Answers, CalmInv, SettingsStay
  <2> QED
    BY <1>0, <1>3, <2>1, <2>2, CalmOutside DEF Answers, EnvoyHas
<1>4. ASSUME NEW p \in Pods, NEW i \in Instances, Loads(p, i) PROVE CalmInv'
  <2> DEFINE conf == [settings |-> settings, addr |-> addr[i]]
  <2>1. envoy \in [Pods -> Envoy] /\ envoy[p] \in Envoy /\ envoy[p].conf \in Loaded
    BY DEF NetworkInv, NetworkTypeOK, Envoy
  <2>2. envoy' = [envoy EXCEPT ![p] = [envoy[p] EXCEPT !.conf = [envoy[p].conf EXCEPT ![i] = conf]]]
    BY <1>4, <2>1 DEF Loads
  <2>3. Still(i) => conf = AtFirst
    BY DEF Still, AtFirst, CalmInv, SettingsStay
  <2> HIDE DEF conf
  <2>4. /\ \A q \in Pods : envoy'[q].id = envoy[q].id
        /\ \A q \in Pods \ {p} : envoy'[q] = envoy[q]
        /\ envoy'[p].conf = [envoy[p].conf EXCEPT ![i] = conf]
    BY <2>1, <2>2 DEF Envoy
  <2>5. \A j \in Instances, q \in Pods : Still(j) /\ EnvoyHas(j, q) => EnvoyHas(j, q)'
    BY <2>1, <2>3, <2>4 DEF EnvoyHas, Loaded
  <2>6. SettingsStay'
    BY <1>4 DEF Loads, CalmInv, SettingsStay
  <2> QED
    BY <1>0, <1>4, <2>4, <2>5, <2>6, CalmOutside DEF Loads
<1> QED
  BY <1>1, <1>2, <1>3, <1>4 DEF Settles

LEMMA ChangesKinds ==
    ASSUME NetworkInv, NEW kind, Changes(kind)
    PROVE  scene'.kinds = scene.kinds /\ kind \in scene.kinds
  BY DEF NetworkInv, NetworkTypeOK, Changes, Scene

LEMMA FailsCalm ==
    ASSUME NetworkInv, CalmInv, NEW p \in Pods, StopsEnvoy(p) \/ StopsAnswering(p)
    PROVE  CalmInv'
<1>1. scene'.kinds = scene.kinds
  BY ChangesKinds DEF StopsEnvoy, StopsAnswering
<1>2. NetworkTypeOK'
  BY FailsStep DEF NetworkInv
<1>3. \A q \in Pods : envoy'[q].id = envoy[q].id /\ envoy'[q].conf = envoy[q].conf
  BY DEF StopsEnvoy, StopsAnswering, NetworkInv, NetworkTypeOK, Envoy
<1>4. SettingsStay'
  BY <1>1 DEF StopsEnvoy, StopsAnswering, CalmInv, SettingsStay
<1> QED
  BY <1>1, <1>2, <1>3, <1>4, CalmOutside DEF StopsEnvoy, StopsAnswering, EnvoyHas

LEMMA ChangesCalm ==
    ASSUME NetworkInv, CalmInv,
           \/ \E s \in Settings : ChangeSettings(s)
           \/ \E i \in Instances : MovePrimary(i) \/ RequestDeletion(i)
    PROVE  CalmInv'
<1>1. scene'.kinds = scene.kinds
  BY ChangesKinds DEF ChangeSettings, MovePrimary, RequestDeletion
<1>2. NetworkTypeOK'
  BY ChangesStep DEF NetworkInv
<1>3. SettingsStay'
  BY <1>1, ChangesKinds DEF ChangeSettings, MovePrimary, RequestDeletion, CalmInv, SettingsStay
<1>4. \A i \in Instances : addr'[i] = 1 => addr[i] = 1
  <2>1. ASSUME NEW i \in Instances, MovePrimary(i)
        PROVE  \A j \in Instances : addr'[j] = IF j = i THEN addr[j] + 1 ELSE addr[j]
    BY <2>1 DEF MovePrimary, NetworkInv, NetworkTypeOK
  <2>2. addr \in [Instances -> Nat \ {0}]
    BY DEF NetworkInv, NetworkTypeOK
  <2> QED
    BY <2>1, <2>2 DEF ChangeSettings, RequestDeletion
<1>5. /\ UNCHANGED <<gateway, envoy, Inside>>
      /\ deleting \subseteq deleting'
  BY DEF ChangeSettings, MovePrimary, RequestDeletion
<1> QED
  BY <1>1, <1>2, <1>3, <1>4, <1>5, CalmOutside DEF EnvoyHas

LEMMA InitCalm == NetworkInit => CalmInv
<1> SUFFICES ASSUME NetworkInit PROVE CalmInv
  OBVIOUS
<1>1. /\ \A i \in Instances : pass[i].pc = "idle" /\ net[i].verified = Nil
      /\ settings = 1 /\ cache.at = Nil /\ cache.verified = Nil /\ refresh = Nil
  BY IdlePassType, EmptyCacheType DEF NetworkInit
<1> QED
  BY <1>1 DEF CalmInv, SettingsStay, PassStays, ListenersStay, ProcsKnown, SnapshotsAge, ResultRight,
              SameSnapshots

LEMMA StutterCalm ==
    ASSUME NetworkInv, CalmInv, UNCHANGED networkVars
    PROVE  CalmInv'
<1>1. NetworkTypeOK'
  BY DEF NetworkInv, NetworkTypeOK, networkVars, world
<1>2. SettingsStay'
  BY DEF CalmInv, SettingsStay, networkVars, world
<1> QED
  BY <1>1, <1>2, CalmOutside DEF networkVars, world, Inside, EnvoyHas

LEMMA NextCalm == NetworkInv /\ CalmInv /\ [NetworkNext]_networkVars => CalmInv'
<1> SUFFICES ASSUME NetworkInv, CalmInv, [NetworkNext]_networkVars PROVE CalmInv'
  OBVIOUS
<1>1. scene.instances \subseteq Instances
  BY DEF NetworkInv, NetworkTypeOK, Scene
<1>2. ASSUME NEW i \in Instances, ReconcilesNetwork(i) PROVE CalmInv'
  BY <1>2, ReadGatewayCalm, UpdateGatewayCalm, EnvoySnapshotsCalm, VerifyCalm DEF ReconcilesNetwork
<1> QED
  BY <1>1, <1>2, CheckFailsCalm, ChangesCalm, RefreshesCalm, IntervalPassesCalm, SettlesCalm,
     FailsCalm, RestartCalm, StutterCalm DEF NetworkNext

\* In a calm the processes that were verified are the ones there are.
LEMMA CalmReusable ==
    ASSUME NetworkInv, CalmInv, NEW i \in Instances, Calm(i), net[i].verified # Nil
    PROVE  Reusable(i)
<1>1. Confirmed(i)
  <2>1. PICK p \in Pods : TRUE
    BY NetworkAssumption
  <2> QED
    BY <2>1 DEF CalmInv, SnapshotsAge, SettingsStay, Calm, Still, Confirmed
<1>2. net[i].procs = EnvoyTargets
  <2>1. Composed(net[i].procs) /\ net[i].procs \subseteq Processes
    BY DEF CalmInv, ProcsKnown, NetworkInv, NetworkTypeOK, Net
  <2>2. EnvoyTargets = {<<p, 1>> : p \in Pods}
    BY DEF EnvoyTargets, Target, Calm
  <2>3. \A p \in Pods, k \in Nat : <<p, k>> \in net[i].procs => k = 1
    BY <2>1 DEF Composed, Calm, Processes
  <2>4. \A p \in Pods : <<p, 1>> \in net[i].procs
    BY <2>1, <2>3 DEF Composed
  <2>5. \A process \in net[i].procs : \E p \in Pods : process = <<p, 1>>
    BY <2>1, <2>3 DEF Processes
  <2> QED
    BY <2>2, <2>4, <2>5
<1> QED
  BY <1>1, <1>2 DEF Reusable

LEMMA CalmChecks ==
    ASSUME NetworkInv, CalmInv, NEW i \in Instances, Calm(i), net[i].verified # Nil, Checks(i)
    PROVE  net'[i].allowed /\ ~net'[i].lost
<1>0. Still(i) /\ Reusable(i)
  BY CalmReusable DEF Calm, Still
<1>1. CASE Verify(i)
  <2>1. pass[i].pc = "verify"
    BY <1>1 DEF Verify
  <2>2. AllHave(pass[i].snapshots, i)
    BY <1>0, <2>1 DEF CalmInv, SnapshotsAge, PassHas, AllHave, Calm
  <2>3. EnvoyVerified(i)
    BY <1>0, <2>1, <2>2, VerifiedRight
  <2> QED
    BY <1>1, <2>3 DEF Verify, NetworkInv, NetworkTypeOK
<1>2. CASE EnvoySnapshots(i)
  <2>1. Ends(i, TRUE, FALSE)
    <3>1. MayVerify(i) /\ CompositionKnown /\ cache.failure # "changed"
      BY <1>0 DEF MayVerify, Reusable, Calm, CompositionKnown
    <3>2. ~(pass' = [pass EXCEPT ![i] =
               [IdlePass EXCEPT !.pc = "verify", !.expected = Expected(i), !.procs = EnvoyTargets,
                                !.snapshots = cache.snapshots, !.at = cache.at]])
      <4>1. [IdlePass EXCEPT !.pc = "verify", !.expected = Expected(i), !.procs = EnvoyTargets,
                             !.snapshots = cache.snapshots, !.at = cache.at].pc = "verify"
        BY DEF IdlePass
      <4>2. pass \in [Instances -> Pass] /\ pass'[i].pc = "idle"
        BY DEF NetworkInv, NetworkTypeOK, Checks
      <4> QED
        BY <4>1, <4>2
    <3>3. Ends(i, Reusable(i), FALSE)
      BY <1>2, <3>1, <3>2 DEF EnvoySnapshots
    <3> QED
      BY <1>0, <3>3, Zenon DEF Reusable
  <2>2. net'[i].allowed = TRUE /\ net'[i].lost = (FALSE \/ (net[i].lost /\ ~TRUE))
    BY <2>1 DEF Ends, NetworkInv, NetworkTypeOK, Net
  <2> QED
    BY <2>2
<1> QED
  BY <1>1, <1>2 DEF Checks

\* A listener only goes with its own instance, whoever writes the Gateway.
LEMMA ListenerStays ==
    ASSUME NetworkInv, CalmInv, [NetworkNext]_networkVars,
           NEW i \in gateway.listeners \ deleting
    PROVE  i \in gateway'.listeners
<1>1. CASE \E j \in Instances : UpdateGateway(j)
  <2>1. PICK j \in Instances : UpdateGateway(j)
    BY <1>1
  <2>2. CASE pass[j].gen = gateway.gen
    <3>1. gateway'.listeners = pass[j].listeners
      BY <2>1, <2>2 DEF UpdateGateway, NetworkInv, NetworkTypeOK, Gateway
    <3> QED
      BY <2>1, <2>2, <3>1 DEF UpdateGateway, CalmInv, ListenersStay
  <2>3. CASE pass[j].gen # gateway.gen
    BY <2>1, <2>3 DEF UpdateGateway
  <2> QED
    BY <2>2, <2>3
<1>2. CASE ~\E j \in Instances : UpdateGateway(j)
  <2>1. gateway'.listeners = gateway.listeners
    <3>1. scene.instances \subseteq Instances
      BY DEF NetworkInv, NetworkTypeOK, Scene
    <3>2. Programs => gateway'.listeners = gateway.listeners
      BY DEF Programs, NetworkInv, NetworkTypeOK, Gateway
    <3> QED
      BY <1>2, <3>1, <3>2
         DEF NetworkNext, networkVars, world, ReconcilesNetwork, ReadGateway, EnvoySnapshots, Verify,
             CheckFails, MovePrimary, RequestDeletion, Refreshes, RefreshTimesOut,
             RefreshEnvoySnapshots, ReadEnvoySnapshot, IntervalPasses, Settles, Starts, Answers,
             Loads, StopsEnvoy, StopsAnswering, ChangeSettings, Restart
  <2> QED
    BY <2>1
<1> QED
  BY <1>1, <1>2

\* Once verified, an instance nothing has changed for is allowed by every pass and
\* keeps its listener: the action property of the run, for any number of instances
\* that share the Gateway, the refresh and its cache.
THEOREM UndisturbedHolds == NetworkSpec => Undisturbed
<1>1. NetworkInv /\ CalmInv /\ [NetworkNext]_networkVars =>
        \A i \in Instances :
          Calm(i) /\ net[i].verified # Nil =>
              /\ Checks(i) => net'[i].allowed /\ ~net'[i].lost
              /\ i \in gateway.listeners \ deleting => i \in gateway'.listeners
  BY CalmChecks, ListenerStays
<1>2. NetworkSpec => []CalmInv
  BY InitCalm, NextCalm, NetworkInvariant, PTL DEF NetworkSpec
<1> QED
  BY <1>1, <1>2, NetworkInvariant, PTL DEF NetworkSpec, Undisturbed
=============================================================================
