------------------------ MODULE ValkeyOperatorProofs ------------------------
(***************************************************************************)
(* For any instance and anything that may happen to it: what the operator  *)
(* of ValkeyOperator records about processes is true.                      *)
(***************************************************************************)
EXTENDS ValkeyOperator, FiniteSetTheorems, TLAPS

-----------------------------------------------------------------------------
(* The inductive invariant                                                  *)

Resource ==
    [size: Nat, pw: Nat, deleting: BOOLEAN, fence: Procs \cup {Nil}, acl: Nat,
     hashes: SUBSET Nat, exists: BOOLEAN, changes: 0..scene.changes]

Memory ==
    [todo: SUBSET Ordinals, err: BOOLEAN, skipped: SUBSET Procs, counted: SUBSET Procs,
     controlled: SUBSET Procs]

\* A Pod runs the last process of its ordinal, and processes come one by one.
Incarnations ==
    \A o \in Ordinals : \E k \in 0..scene.incs :
        /\ \A i \in 1..scene.incs : proc[<<o, i>>].run # "absent" <=> i <= k
        /\ pod[o].inc \in {0, k}

Alive(p) == proc[p].run \in {"starting", "up"}

\* The entries of a status.
Entries(s) == {s.nodes[o] : o \in {i \in Ordinals : s.nodes[i] # Nil}} \cup s.prev

Knows(s, p) == \E n \in Entries(s) : n.p = p

\* A process that is not in the Pod of its ordinal has an entry: it can be
\* asked for, or proven to have stopped.
Tracked ==
    /\ \A p \in Procs : proc[p].run = "starting" => IsPodOf(p)
    /\ \A p \in Procs : Up(p) => IsPodOf(p) \/ Knows(st, p)
    /\ \A p \in Procs : proc[p].link = "deleted" => proc[p].run = "down"
    /\ "remake" \notin scene.kinds =>
          \A p, q \in Procs : Alive(p) /\ Alive(q) /\ p[1] = q[1] => p = q

\* The annotation was set for a process that had stopped.
FenceSound == cr.fence # Nil => proc[cr.fence].run = "down"

\* Nothing is left when the resource is gone.
Gone ==
    ~cr.exists => cr.deleting /\ (\A o \in Ordinals : ~HasPod(o)) /\ (\A p \in Procs : ~Alive(p))

\* One entry per process; the current one of an ordinal is its latest.
Keyed(s) ==
    /\ \A o \in Ordinals : s.nodes[o] # Nil => s.nodes[o].p[1] = o
    /\ \A q \in s.prev : s.nodes[q.p[1]] # Nil /\ q.p[2] < s.nodes[q.p[1]].p[2]
    /\ \A q, r \in s.prev : q.p = r.p => q = r

\* An entry is about a process that has run, and what it says of its stop is so.
Faithful(s) ==
    \A n \in Entries(s) : /\ proc[n.p].run \in {"up", "down"}
                          /\ n.term => proc[n.p].run = "down"

\* Whatever is in progress names a process the status knows.
NamesKnown(s) ==
    /\ s.primary # Nil => Knows(s, s.primary)
    /\ s.failover # Nil => /\ Knows(s, s.failover.source)
                           /\ s.failover.cand # Nil => Knows(s, s.failover.cand)
    /\ s.rollout # Nil /\ s.rollout.p # Nil => Knows(s, s.rollout.p)

\* How the operations go together.
Orderly(s) ==
    /\ s.public \/ s.reported \/ s.rollout # Nil => s.initialized
    /\ s.rollout # Nil /\ s.rollout.stage \in {"replicas", "switching", "primary"} => HA
    /\ s.failover # Nil =>
        /\ HA /\ s.initialized
        /\ s.rollout # Nil /\ s.rollout.stage \in {"stopping", "template"}
              => s.accepted.size >= s.applied.size
        /\ s.failover.mayBe => s.failover.stage \in {"promoting", "reconfiguring"}
                               /\ s.failover.cand # Nil
        /\ s.failover.stage = "reconfiguring" => s.failover.cand # Nil
                                                 /\ s.primary = s.failover.cand

StatusOK(s) == s \in Status /\ Keyed(s) /\ Faithful(s) /\ NamesKnown(s) /\ Orderly(s)

Types == ProcessTypeOK /\ cr \in Resource /\ op \in Memory

OperatorInv ==
    Types /\ StatusOK(st) /\ Incarnations /\ Tracked /\ FenceSound /\ Gone

-----------------------------------------------------------------------------
(* Processes and sessions                                                   *)

LEMMA ProcsAreNamed ==
    ASSUME scene \in Scene
    PROVE  /\ Nil \notin Procs /\ Ordinals \subseteq Nat /\ 0 \in Ordinals
           /\ Procs \subseteq Nat \X Nat
           /\ \A p \in Procs : p[1] \in Ordinals /\ p[2] \in 1..scene.incs /\ p = <<p[1], p[2]>>
           /\ \A o \in Ordinals, i \in 1..scene.incs : <<o, i>> \in Procs
<1>1. scene.count \in Nat \ {0} /\ scene.incs \in Nat \ {0}
  BY DEF Scene
<1>2. Ordinals \subseteq Nat /\ 0 \in Ordinals /\ 1..scene.incs \subseteq Nat
  BY <1>1 DEF Ordinals
<1>3. Procs \subseteq Nat \X Nat
  BY <1>2 DEF Procs
<1> QED
  BY <1>2, <1>3, ProcessAssumption DEF Procs

\* What a command leaves alone.
Same(r, s) == r.run = s.run /\ r.link = s.link /\ r.state = s.state /\ r.size = s.size

LEMMA DoFacts ==
    ASSUME NEW r \in Process, NEW c \in Commands, NEW n \in Nat, r.hist <= n
    PROVE  Do(r, c, n) \in Process /\ Same(Do(r, c, n), r) /\ Do(r, c, n).hist <= n
<1>1. CASE c \in {"on", "off", "password"} \X Nat
  <2>1. c[1] \in {"on", "off", "password"} /\ c[2] \in Nat
    BY <1>1
  <2> QED
    BY <2>1 DEF Do, Process, Same
<1>2. CASE c \in {"follow"} \X Procs
  <2>1. c[1] = "follow" /\ c[2] \in Procs
    BY <1>2
  <2> QED
    BY <2>1 DEF Do, Process, Same
<1>3. CASE c = <<"kill", 0>>
  <2>1. c[1] = "kill"
    BY <1>3
  <2> QED
    BY <2>1 DEF Do, Process, Same
<1>4. CASE c = <<"promote", 0>>
  <2>1. c[1] = "promote"
    BY <1>4
  <2>2. CASE r.role = "replica"
    <3> DEFINE s == [r EXCEPT !.role = "primary", !.source = Nil, !.hist = n]
    <3>1. Do(r, c, n) = s
      BY <2>1, <2>2 DEF Do
    <3>2. s \in Process
      BY DEF Process
    <3>3. Same(s, r) /\ s.hist <= n
      BY DEF Process, Same
    <3> HIDE DEF s
    <3> QED
      BY <3>1, <3>2, <3>3
  <2>3. CASE r.role = "primary"
    <3>1. Do(r, c, n) = r
      BY <2>1, <2>3 DEF Do
    <3> QED
      BY <3>1 DEF Same
  <2> QED
    BY <2>2, <2>3 DEF Process
<1> QED
  BY <1>1, <1>2, <1>3, <1>4 DEF Commands

LEMMA DoAllFacts ==
    ASSUME NEW r \in Process, NEW cmds \in Seq(Commands), lineage \in Seq(Nat),
           r.hist <= Len(lineage) + 1
    PROVE  LET s == DoAll(r, cmds)
           IN  s \in Process /\ Same(s, r) /\ s.hist <= Len(lineage) + 1
<1> DEFINE n == Len(lineage) + 1
           After(s, k) == IF k > Len(cmds) THEN s ELSE Do(s, cmds[k], n)
           Good(s) == s \in Process /\ Same(s, r) /\ s.hist <= n
<1>1. ASSUME NEW s, Good(s), NEW k \in 1..3 PROVE Good(After(s, k))
  <2>1. n \in Nat
    OBVIOUS
  <2>2. CASE k > Len(cmds)
    BY <1>1, <2>2
  <2>3. CASE ~(k > Len(cmds))
    <3>1. cmds[k] \in Commands
      BY <2>3
    <3> HIDE DEF n
    <3>2. After(s, k) = Do(s, cmds[k], n)
      BY <2>3
    <3>3. Do(s, cmds[k], n) \in Process /\ Same(Do(s, cmds[k], n), s) /\ Do(s, cmds[k], n).hist <= n
      BY <1>1, <2>1, <3>1, DoFacts
    <3> QED
      BY <1>1, <3>2, <3>3 DEF Same
  <2> QED
    BY <2>2, <2>3
<1>2. Good(r)
  BY DEF Same
<1>3. DoAll(r, cmds) = After(After(After(r, 1), 2), 3)
  BY DEF DoAll
<1> HIDE DEF After, Good
<1>4. Good(After(After(After(r, 1), 2), 3))
  BY <1>1, <1>2
<1> QED
  BY <1>3, <1>4 DEF Good

\* A step leaves the instance as it is; only failures are used up.
SceneKept ==
    /\ scene' \in Scene
    /\ scene'.count = scene.count /\ scene'.incs = scene.incs
    /\ scene'.kinds = scene.kinds /\ scene'.changes = scene.changes

LEMMA SceneFacts ==
    ASSUME scene \in Scene, UNCHANGED scene \/ \E kind \in Kinds : Fails(kind)
    PROVE  SceneKept
<1>1. CASE UNCHANGED scene
  BY <1>1 DEF SceneKept
<1>2. CASE scene.faults > 0 /\ scene' = [scene EXCEPT !.faults = @ - 1]
  BY <1>2 DEF Scene, SceneKept
<1> QED
  BY <1>1, <1>2 DEF Fails

LEMMA KeptSets ==
    ASSUME SceneKept
    PROVE  /\ Ordinals' = Ordinals /\ Procs' = Procs /\ HA' = HA
           /\ Process' = Process /\ Pod' = Pod /\ Status' = Status
           /\ Resource' = Resource /\ Memory' = Memory
<1>1. Ordinals' = Ordinals /\ Procs' = Procs /\ HA' = HA
  BY DEF SceneKept, Ordinals, Procs, HA
<1>2. Process' = Process
  BY <1>1 DEF Process, Commands
<1>3. Pod' = Pod /\ Resource' = Resource /\ Memory' = Memory
  BY <1>1 DEF SceneKept, Pod, Resource, Memory
<1>4. NodeStatus' = NodeStatus /\ FailoverStatus' = FailoverStatus
      /\ RolloutStatus' = RolloutStatus /\ RotationStatus' = RotationStatus
  BY <1>1 DEF NodeStatus, NodeStatusOf, FailoverStatus, FailoverStatusOf, RolloutStatus,
              RolloutStatusOf, RotationStatus, RotationStatusOf
<1> QED
  BY <1>1, <1>2, <1>3, <1>4 DEF Status

\* Processes stop, and those that are starting come up; Pods stay.
ProcsGoOn ==
    \A p \in Procs :
        /\ \/ proc'[p].run = proc[p].run
           \/ proc[p].run = "up" /\ proc'[p].run = "down"
           \/ proc[p].run = "starting" /\ proc'[p].run \in {"up", "down"}
        /\ proc'[p].link = "deleted" => proc'[p].run = "down"

PodsStay == \A o \in Ordinals : pod'[o].inc = pod[o].inc

MachineGoesOn == ProcessTypeOK' /\ SceneKept /\ ProcsGoOn /\ PodsStay

LEMMA MachineStays == ASSUME Types, Tracked, UNCHANGED machine PROVE MachineGoesOn
<1>1. SceneKept
  BY SceneFacts DEF Types, ProcessTypeOK, machine
<1>2. ProcessTypeOK'
  BY <1>1, KeptSets DEF Types, ProcessTypeOK, machine, data, SceneKept
<1> QED
  BY <1>1, <1>2 DEF MachineGoesOn, ProcsGoOn, PodsStay, machine, Tracked

\* One process is changed.
LEMMA ProcessChanges ==
    ASSUME Types, Tracked, SceneKept, pod' \in [Ordinals -> Pod],
           NEW p \in Procs, NEW r \in Process, proc' = [proc EXCEPT ![p] = r],
           \/ r.run = proc[p].run
           \/ proc[p].run = "up" /\ r.run = "down"
           \/ proc[p].run = "starting" /\ r.run \in {"up", "down"},
           r.link = "deleted" => r.run = "down",
           lineage' \in Seq(Nat), Len(lineage) <= Len(lineage'), r.hist <= Len(lineage'),
           served' \in 0 .. Len(lineage')
    PROVE  ProcessTypeOK' /\ ProcsGoOn
<1>1. proc \in [Procs -> Process] /\ lineage \in Seq(Nat)
  BY DEF Types, ProcessTypeOK
<1>2. proc' \in [Procs -> Process] /\ proc'[p] = r /\ \A q \in Procs \ {p} : proc'[q] = proc[q]
  BY <1>1
<1>3. \A q \in Procs : proc'[q].hist <= Len(lineage')
  <2> SUFFICES ASSUME NEW q \in Procs, q # p PROVE proc'[q].hist <= Len(lineage')
    BY <1>2
  <2>1. proc'[q] = proc[q] /\ proc[q] \in Process /\ proc[q].hist <= Len(lineage)
    BY <1>1, <1>2 DEF Types, ProcessTypeOK
  <2> QED
    BY <1>1, <2>1 DEF Process
<1>4. ProcessTypeOK'
  BY <1>2, <1>3, KeptSets DEF ProcessTypeOK, SceneKept
<1>5. ProcsGoOn
  <2> SUFFICES ASSUME NEW q \in Procs
               PROVE  /\ \/ proc'[q].run = proc[q].run
                         \/ proc[q].run = "up" /\ proc'[q].run = "down"
                         \/ proc[q].run = "starting" /\ proc'[q].run \in {"up", "down"}
                      /\ proc'[q].link = "deleted" => proc'[q].run = "down"
    BY DEF ProcsGoOn
  <2>1. CASE q = p
    BY <1>2, <2>1
  <2>2. CASE q # p
    BY <1>2, <2>2 DEF Tracked
  <2> QED
    BY <2>1, <2>2
<1> QED
  BY <1>4, <1>5

LEMMA ProcessGoesOn ==
    ASSUME Types, Tracked, SceneKept, pod' \in [Ordinals -> Pod], PodsStay,
           NEW p \in Procs, NEW r \in Process, proc' = [proc EXCEPT ![p] = r],
           \/ r.run = proc[p].run
           \/ proc[p].run = "up" /\ r.run = "down"
           \/ proc[p].run = "starting" /\ r.run \in {"up", "down"},
           r.link = "deleted" => r.run = "down",
           lineage' \in Seq(Nat), Len(lineage) <= Len(lineage'), r.hist <= Len(lineage'),
           served' \in 0 .. Len(lineage')
    PROVE  MachineGoesOn
<1>1. ProcessTypeOK' /\ ProcsGoOn
  BY ProcessChanges
<1> QED
  BY <1>1 DEF MachineGoesOn

LEMMA BecomesGoesOn ==
    ASSUME Types, Tracked, SceneKept, pod' \in [Ordinals -> Pod], PodsStay,
           NEW p \in Procs, NEW r \in Process, Becomes(p, r),
           r.run = proc[p].run, r.link = proc[p].link, r.hist <= Len(lineage) + 1
    PROVE  MachineGoesOn
<1>1. /\ proc \in [Procs -> Process] /\ lineage \in Seq(Nat) /\ Len(lineage) \in Nat
      /\ served \in 0 .. Len(lineage) /\ proc[p].hist \in Nat /\ r.hist \in Nat
  BY DEF Types, ProcessTypeOK, Process
<1>2. /\ lineage' \in Seq(Nat) /\ Len(lineage) <= Len(lineage') /\ r.hist <= Len(lineage')
      /\ Len(lineage') \in Nat
  BY <1>1 DEF Becomes
<1>3. served' \in 0 .. Len(lineage')
  BY <1>1, <1>2 DEF Becomes
<1> QED
  BY <1>2, <1>3, ProcessGoesOn DEF Becomes, Tracked

LEMMA TakeControlFacts ==
    ASSUME NEW r \in Process, NEW late \in SUBSET Commands
    PROVE  LET s == [r EXCEPT !.late = late]
           IN  s \in Process /\ Same(s, r) /\ s.hist = r.hist
  BY DEF Process, Same

LEMMA SessionGoesOn ==
    ASSUME Types, Tracked, NEW p \in Procs, NEW cmds \in Seq(Commands), UNCHANGED pod,
           (Session(p, cmds) /\ UNCHANGED scene) \/ Interrupted(p, cmds)
    PROVE  MachineGoesOn
<1>1. /\ proc \in [Procs -> Process] /\ lineage \in Seq(Nat) /\ Len(lineage) \in Nat
      /\ scene \in Scene /\ pod' \in [Ordinals -> Pod] /\ PodsStay
      /\ proc[p] \in Process /\ proc[p].hist <= Len(lineage) /\ proc[p].hist \in Nat
  BY DEF Types, ProcessTypeOK, Process, PodsStay
<1>2. SceneKept
  BY <1>1, SceneFacts DEF Interrupted, Kinds
<1> DEFINE t == TakeControl(proc[p])
<1>3. t \in Process /\ Same(t, proc[p]) /\ t.hist <= Len(lineage) + 1
  <2> DEFINE q == proc[p]
             none == {}
             l == Len(lineage)
  <2>1. q \in Process /\ none \in SUBSET Commands /\ l \in Nat /\ q.hist \in Nat /\ q.hist <= l
    BY <1>1
  <2>2. t = [q EXCEPT !.late = none]
    BY DEF TakeControl
  <2> HIDE DEF q, none, l, t
  <2>3. t \in Process /\ Same(t, q) /\ t.hist = q.hist
    BY <2>1, <2>2, TakeControlFacts
  <2>4. t.hist <= l + 1
    BY <2>1, <2>3
  <2> QED
    BY <2>3, <2>4 DEF q, l
<1> HIDE DEF t
<1>4. ASSUME NEW k \in 0 .. Len(cmds)
      PROVE  SubSeq(cmds, 1, k) \in Seq(Commands)
             /\ (IF k < Len(cmds) THEN {cmds[k + 1]} ELSE {}) \in SUBSET Commands
  <2>1. SubSeq(cmds, 1, k) \in Seq(Commands)
    OBVIOUS
  <2>2. ASSUME k < Len(cmds) PROVE cmds[k + 1] \in Commands
    BY <2>2
  <2> QED
    BY <2>1, <2>2
<1>5. CASE Session(p, cmds)
  <2> DEFINE r == DoAll(t, cmds)
  <2>1. r \in Process /\ Same(r, t) /\ r.hist <= Len(lineage) + 1
    BY <1>1, <1>3, DoAllFacts
  <2>2. Becomes(p, r)
    BY <1>5 DEF Session, t
  <2> HIDE DEF r
  <2> QED
    BY <1>1, <1>2, <1>3, <2>1, <2>2, BecomesGoesOn DEF Same
<1>6. CASE Interrupted(p, cmds)
  <2>1. PICK k \in 0 .. Len(cmds) :
            Becomes(p, [DoAll(t, SubSeq(cmds, 1, k)) EXCEPT
                            !.late = IF k < Len(cmds) THEN {cmds[k + 1]} ELSE {}])
    BY <1>6, Zenon DEF Interrupted, t
  <2> DEFINE s == DoAll(t, SubSeq(cmds, 1, k))
             late == IF k < Len(cmds) THEN {cmds[k + 1]} ELSE {}
             r == [s EXCEPT !.late = late]
  <2>2. SubSeq(cmds, 1, k) \in Seq(Commands) /\ late \in SUBSET Commands
    BY <1>4
  <2>3. s \in Process /\ Same(s, t) /\ s.hist <= Len(lineage) + 1
    BY <1>1, <1>3, <2>2, DoAllFacts
  <2>4. Becomes(p, r)
    BY <2>1
  <2> HIDE DEF s, late
  <2>5. r \in Process /\ Same(r, s) /\ r.hist = s.hist
    BY <2>2, <2>3, TakeControlFacts
  <2> HIDE DEF r
  <2> QED
    BY <1>1, <1>2, <1>3, <2>3, <2>4, <2>5, BecomesGoesOn DEF Same
<1> QED
  BY <1>5, <1>6

LEMMA LateCommandGoesOn ==
    ASSUME Types, Tracked, NEW p \in Procs, LateCommand(p)
    PROVE  MachineGoesOn
<1>1. /\ proc \in [Procs -> Process] /\ lineage \in Seq(Nat) /\ Len(lineage) \in Nat
      /\ scene \in Scene /\ pod' \in [Ordinals -> Pod] /\ PodsStay
      /\ proc[p] \in Process /\ proc[p].hist <= Len(lineage) /\ proc[p].hist \in Nat
      /\ proc[p].late \in SUBSET Commands
  BY DEF Types, ProcessTypeOK, Process, PodsStay, LateCommand
<1>2. SceneKept
  BY <1>1, SceneFacts DEF LateCommand
<1>3. PICK c \in proc[p].late :
          Becomes(p, [Do(proc[p], c, Len(lineage) + 1) EXCEPT !.late = @ \ {c}])
  BY Zenon DEF LateCommand
<1> DEFINE s == Do(proc[p], c, Len(lineage) + 1)
           r == [s EXCEPT !.late = s.late \ {c}]
<1>4. s \in Process /\ Same(s, proc[p]) /\ s.hist <= Len(lineage) + 1
  BY <1>1, <1>3, DoFacts
<1>5. Becomes(p, r)
  BY <1>3
<1> HIDE DEF s
<1>6. s.late \ {c} \in SUBSET Commands
  BY <1>4 DEF Process
<1>7. r \in Process /\ Same(r, s) /\ r.hist = s.hist
  BY <1>4, <1>6, TakeControlFacts
<1> HIDE DEF r
<1> QED
  BY <1>1, <1>2, <1>4, <1>5, <1>7, BecomesGoesOn DEF Same

-----------------------------------------------------------------------------
(* What every step has to show                                              *)

\* While a promotion may have been carried out its candidate is kept.
KeepsCandidate(s) ==
    st.failover # Nil /\ st.failover.mayBe =>
        \/ s.failover # Nil /\ s.failover.cand = st.failover.cand
        \/ s.primary = st.failover.cand
        \/ proc[st.failover.cand].run = "down"

\* A status that may be saved.
GoodStatus(s) ==
    /\ StatusOK(s) /\ KeepsCandidate(s)
    /\ \A p \in Procs : Up(p) /\ Knows(st, p) => Knows(s, p)

ResourceGoesOn ==
    /\ cr' \in Resource
    /\ cr.deleting => cr'.deleting
    /\ cr'.exists = cr.exists
    /\ cr'.fence # Nil => proc[cr'.fence].run = "down"

LEMMA EntryFacts ==
    ASSUME Types, NEW s \in Status
    PROVE  /\ Entries(s) \subseteq NodeStatus
           /\ \A n \in Entries(s) : n \in NodeStatus /\ n.p \in Procs /\ n # Nil
           /\ \A o \in Ordinals : s.nodes[o] # Nil => s.nodes[o] \in Entries(s)
           /\ s.prev \subseteq Entries(s)
<1>1. /\ s.prev \subseteq NodeStatus
      /\ \A o \in Ordinals : s.nodes[o] # Nil => s.nodes[o] \in NodeStatus
  BY DEF Status
<1>2. Entries(s) \subseteq NodeStatus
  BY <1>1 DEF Entries
<1>3. NodeStatus \subseteq NodeStatusOf(Nat \X Nat)
  BY ProcsAreNamed DEF NodeStatus, NodeStatusOf, Types, ProcessTypeOK
<1>4. \A n \in NodeStatus : n.p \in Procs /\ n # Nil
  BY <1>3, StatusAssumption DEF NodeStatus, NodeStatusOf
<1> QED
  BY <1>2, <1>4 DEF Entries

\* The status of a step is as good for the processes after it.
LEMMA StatusGoesOn ==
    ASSUME Types, MachineGoesOn, StatusOK(st')
    PROVE  StatusOK(st)'
<1>1. st' \in Status /\ Keyed(st') /\ Faithful(st') /\ NamesKnown(st') /\ Orderly(st')
  BY DEF StatusOK
<1>2. Ordinals' = Ordinals /\ HA' = HA /\ Status' = Status
  BY KeptSets DEF MachineGoesOn
<1>3. Entries(st)' = Entries(st')
  BY <1>2 DEF Entries
<1>4. Keyed(st)' /\ NamesKnown(st)' /\ Orderly(st)'
  BY <1>1, <1>2, <1>3 DEF Keyed, NamesKnown, Orderly, Knows
<1>5. Faithful(st)'
  <2> SUFFICES ASSUME NEW n \in Entries(st')
               PROVE  /\ proc'[n.p].run \in {"up", "down"}
                      /\ n.term => proc'[n.p].run = "down"
    BY <1>3 DEF Faithful
  <2>1. n.p \in Procs
    BY <1>1, EntryFacts
  <2>2. proc[n.p].run \in {"up", "down"} /\ (n.term => proc[n.p].run = "down")
    BY <1>1 DEF Faithful
  <2> QED
    BY <2>1, <2>2 DEF MachineGoesOn, ProcsGoOn
<1> QED
  BY <1>1, <1>2, <1>4, <1>5 DEF StatusOK

\* A process that has stopped never runs again.
StoppedForGood == \A p \in Procs : proc[p].run = "down" => proc'[p].run = "down"

\* What every step does.
Steady == OperatorInv' /\ KeepsCandidate(st') /\ SceneKept /\ StoppedForGood

LEMMA StepKeepsInv ==
    ASSUME OperatorInv, MachineGoesOn, GoodStatus(st'), ResourceGoesOn, op' \in Memory
    PROVE  Steady
<1>1. Ordinals' = Ordinals /\ Procs' = Procs /\ Resource' = Resource /\ Memory' = Memory
  BY KeptSets DEF MachineGoesOn
<1>2. Types'
  BY <1>1 DEF Types, MachineGoesOn, ResourceGoesOn
<1>3. StatusOK(st)'
  BY StatusGoesOn DEF GoodStatus, OperatorInv
<1>4. /\ scene'.incs = scene.incs /\ scene'.kinds = scene.kinds
      /\ \A o \in Ordinals : pod'[o].inc = pod[o].inc
      /\ \A p \in Procs : p[1] \in Ordinals /\ p[2] \in 1..scene.incs /\ p = <<p[1], p[2]>>
      /\ \A o \in Ordinals, i \in 1..scene.incs : <<o, i>> \in Procs
  BY ProcsAreNamed DEF MachineGoesOn, SceneKept, PodsStay, OperatorInv, Types, ProcessTypeOK
<1>5. Incarnations'
  <2> SUFFICES ASSUME NEW o \in Ordinals
               PROVE  \E k \in 0..scene.incs :
                        /\ \A i \in 1..scene.incs : proc'[<<o, i>>].run # "absent" <=> i <= k
                        /\ pod'[o].inc \in {0, k}
    BY <1>1, <1>4 DEF Incarnations
  <2>1. PICK k \in 0..scene.incs :
            /\ \A i \in 1..scene.incs : proc[<<o, i>>].run # "absent" <=> i <= k
            /\ pod[o].inc \in {0, k}
    BY DEF OperatorInv, Incarnations
  <2>2. \A i \in 1..scene.incs : proc'[<<o, i>>].run # "absent" <=> proc[<<o, i>>].run # "absent"
    BY <1>4 DEF MachineGoesOn, ProcsGoOn
  <2> QED
    BY <1>4, <2>1, <2>2
<1>6. Entries(st)' = Entries(st')
  BY <1>1 DEF Entries
<1>7. Tracked'
  <2>1. \A p \in Procs : IsPodOf(p)' = IsPodOf(p)
    BY <1>4 DEF IsPodOf
  <2>2. \A p \in Procs : Alive(p)' => Alive(p)
    BY DEF MachineGoesOn, ProcsGoOn, Alive
  <2>3. \A p \in Procs : proc'[p].run = "starting" => IsPodOf(p)
    BY DEF MachineGoesOn, ProcsGoOn, OperatorInv, Tracked
  <2>4. ASSUME NEW p \in Procs, proc'[p].run = "up" PROVE IsPodOf(p) \/ Knows(st', p)
    <3>1. CASE proc[p].run = "starting"
      BY <3>1 DEF OperatorInv, Tracked
    <3>2. CASE proc[p].run = "up"
      BY <3>2 DEF OperatorInv, Tracked, GoodStatus, Up
    <3> QED
      BY <2>4, <3>1, <3>2 DEF MachineGoesOn, ProcsGoOn
  <2>5. \A p \in Procs : proc'[p].link = "deleted" => proc'[p].run = "down"
    BY DEF MachineGoesOn, ProcsGoOn
  <2>6. "remake" \notin scene.kinds =>
          \A p, q \in Procs : Alive(p)' /\ Alive(q)' /\ p[1] = q[1] => p = q
    BY <2>2 DEF OperatorInv, Tracked
  <2> QED
    BY <1>1, <1>4, <1>6, <2>1, <2>3, <2>4, <2>5, <2>6 DEF Tracked, Knows, Up
<1>8. FenceSound'
  <2>1. cr'.fence # Nil => cr'.fence \in Procs
    BY DEF ResourceGoesOn, Resource
  <2> QED
    BY <2>1 DEF FenceSound, ResourceGoesOn, MachineGoesOn, ProcsGoOn
<1>9. Gone'
  BY <1>1, <1>4 DEF OperatorInv, Gone, ResourceGoesOn, MachineGoesOn, ProcsGoOn, HasPod, Alive
<1>10. KeepsCandidate(st') /\ SceneKept /\ StoppedForGood
  BY DEF GoodStatus, MachineGoesOn, ProcsGoOn, StoppedForGood
<1> QED
  BY <1>2, <1>3, <1>5, <1>7, <1>8, <1>9, <1>10 DEF OperatorInv, Steady

\* Steps that do not touch what the status says about processes.
LEMMA SameEntries ==
    ASSUME OperatorInv, NEW s \in Status, s.nodes = st.nodes, s.prev = st.prev,
           NamesKnown(s), Orderly(s), KeepsCandidate(s)
    PROVE  GoodStatus(s)
<1>1. Entries(s) = Entries(st)
  BY DEF Entries
<1>2. Keyed(s) /\ Faithful(s)
  BY <1>1 DEF OperatorInv, StatusOK, Keyed, Faithful
<1> QED
  BY <1>1, <1>2 DEF GoodStatus, StatusOK, Knows

\* The status stays.
LEMMA StatusStays == ASSUME OperatorInv PROVE GoodStatus(st)
  BY DEF OperatorInv, GoodStatus, KeepsCandidate

LEMMA ResourceStays == ASSUME OperatorInv, UNCHANGED cr PROVE ResourceGoesOn
  BY DEF OperatorInv, Types, ResourceGoesOn, FenceSound

LEMMA NextPassFacts == ASSUME OperatorInv, NextPass PROVE op' \in Memory
  BY DEF OperatorInv, Types, NextPass, Memory

\* The kinds of step a pass has.
LEMMA SavedStep ==
    ASSUME OperatorInv, NEW s, GoodStatus(s), Saved(s)
    PROVE  Steady
<1>1. MachineGoesOn
  BY MachineStays DEF Saved, OperatorInv
<1> QED
  BY <1>1, StepKeepsInv, ResourceStays, NextPassFacts DEF Saved, GoodStatus

LEMMA SavedLossStep ==
    ASSUME OperatorInv, NEW s, GoodStatus(s), SavedLoss(s)
    PROVE  Steady
<1>1. SceneKept
  BY SceneFacts DEF SavedLoss, OperatorInv, Types, ProcessTypeOK
<1>2. ProcessTypeOK'
  BY <1>1, KeptSets DEF SavedLoss, OperatorInv, Types, ProcessTypeOK, SceneKept
<1>3. MachineGoesOn
  BY <1>1, <1>2 DEF MachineGoesOn, ProcsGoOn, PodsStay, SavedLoss, OperatorInv, Tracked
<1> QED
  BY <1>3, StepKeepsInv, ResourceStays, NextPassFacts DEF SavedLoss, GoodStatus

LEMMA CommandedStep ==
    ASSUME OperatorInv, NEW p \in Procs, NEW cmds \in Seq(Commands), NEW s, GoodStatus(s),
           Commanded(p, cmds, s)
    PROVE  Steady
<1>1. MachineGoesOn
  BY SessionGoesOn DEF Commanded, OperatorInv
<1> QED
  BY <1>1, StepKeepsInv, ResourceStays, NextPassFacts DEF Commanded, GoodStatus

LEMMA BrokenOffStep ==
    ASSUME OperatorInv, NEW p \in Procs, NEW cmds \in Seq(Commands), BrokenOff(p, cmds)
    PROVE  Steady
<1>1. MachineGoesOn
  BY SessionGoesOn DEF BrokenOff, OperatorInv
<1> QED
  BY <1>1, StepKeepsInv, StatusStays, ResourceStays, NextPassFacts DEF BrokenOff, GoodStatus

LEMMA GivesUpFacts ==
    ASSUME OperatorInv, NEW p \in Procs, NEW cmds \in Seq(Commands), NEW answered,
           GivesUp(p, cmds, answered)
    PROVE  MachineGoesOn /\ op' \in Memory /\ UNCHANGED <<st, cr>>
<1>1. MachineGoesOn
  BY SessionGoesOn DEF GivesUp, OperatorInv
<1>2. op' \in Memory
  <2> DEFINE skipped == op.skipped \cup {p}
  <2>1. op' = [op EXCEPT !.skipped = skipped] /\ op \in Memory
    BY DEF GivesUp, OperatorInv, Types
  <2>2. skipped \in SUBSET Procs
    BY <2>1 DEF Memory
  <2> HIDE DEF skipped
  <2> QED
    BY <2>1, <2>2 DEF Memory
<1> QED
  BY <1>1, <1>2 DEF GivesUp

LEMMA GivesUpStep ==
    ASSUME OperatorInv, NEW p \in Procs, NEW cmds \in Seq(Commands), NEW answered,
           GivesUp(p, cmds, answered)
    PROVE  Steady
  BY GivesUpFacts, StepKeepsInv, StatusStays, ResourceStays DEF GoodStatus

\* A label or the deletion of a Pod.
LEMMA PodStep ==
    ASSUME OperatorInv, NEW s, GoodStatus(s), st' = s, UNCHANGED <<proc, data, scene, cr>>,
           op' \in Memory, pod' \in [Ordinals -> Pod], PodsStay
    PROVE  Steady
<1>1. SceneKept
  BY SceneFacts DEF OperatorInv, Types, ProcessTypeOK
<1>2. ProcessTypeOK'
  BY <1>1, KeptSets DEF OperatorInv, Types, ProcessTypeOK, SceneKept, data
<1>3. MachineGoesOn
  BY <1>1, <1>2 DEF MachineGoesOn, ProcsGoOn, PodsStay, OperatorInv, Tracked
<1> QED
  BY <1>3, StepKeepsInv, ResourceStays DEF GoodStatus

-----------------------------------------------------------------------------
(* Commands, and statuses that differ little                                *)

LEMMA AppAccessFacts ==
    ASSUME OperatorInv, NEW p \in Procs, NEW enabled \in BOOLEAN
    PROVE  AppAccess(p, enabled) \in Seq(Commands)
<1>1. st.accepted.pw \in Nat
  BY DEF OperatorInv, StatusOK, Status, Configuration
<1> DEFINE v == st.accepted.pw
<1>2. /\ SetAppUser(TRUE, v) \in Commands /\ SetAppUser(FALSE, v) \in Commands
      /\ KillAppClients \in Commands
  BY <1>1 DEF SetAppUser, KillAppClients, Commands
<1> HIDE DEF v
<1> DEFINE on == SetAppUser(TRUE, v)
           off == SetAppUser(FALSE, v)
           kill == KillAppClients
<1>3. AppAccess(p, enabled) \in
          {<<>>, <<kill>>, <<off, kill>>, <<on>>, <<off, kill, on>>}
  BY DEF AppAccess, v
<1>4. on \in Commands /\ off \in Commands /\ kill \in Commands
  BY <1>2 DEF on, off, kill
<1> HIDE DEF on, off, kill
<1>5. <<>> \in Seq(Commands) /\ <<on>> \in Seq(Commands) /\ <<kill>> \in Seq(Commands)
  BY <1>4
<1>6. <<off, kill>> \in Seq(Commands)
  BY <1>4
<1>7. <<off, kill, on>> \in Seq(Commands)
  BY <1>4
<1> QED
  BY <1>3, <1>5, <1>6, <1>7, Zenon

\* The fields the invariant does not look at.
Alike(s, t) ==
    /\ s.nodes = t.nodes /\ s.prev = t.prev /\ s.primary = t.primary
    /\ s.failover = t.failover /\ s.rollout = t.rollout /\ s.initialized = t.initialized
    /\ s.accepted.size = t.accepted.size /\ s.applied.size = t.applied.size

LEMMA AlikeFacts ==
    ASSUME OperatorInv, NEW s, NEW t \in Status, GoodStatus(s), Alike(t, s),
           t.public \/ t.reported => s.initialized
    PROVE  GoodStatus(t)
<1>1. Entries(t) = Entries(s)
  BY DEF Entries, Alike
<1>2. Keyed(t) /\ Faithful(t) /\ KeepsCandidate(t)
  BY <1>1 DEF GoodStatus, StatusOK, Keyed, Faithful, KeepsCandidate, Alike
<1>3. NamesKnown(t)
  BY <1>1 DEF GoodStatus, StatusOK, NamesKnown, Alike, Knows
<1>4. Orderly(t)
  BY DEF GoodStatus, StatusOK, Orderly, Alike
<1> QED
  BY <1>1, <1>2, <1>3, <1>4 DEF GoodStatus, StatusOK, Knows

LEMMA ApplyOperationalPhaseFacts ==
    ASSUME OperatorInv, NEW s, GoodStatus(s)
    PROVE  GoodStatus(ApplyOperationalPhase(s))
<1> DEFINE ready == PrimaryPubliclyReady(s) /\ (\A q \in s.prev : q.term)
                    /\ s.failover = Nil /\ s.rollout = Nil /\ s.rotation = Nil
                    /\ s.applied = s.accepted
           reported == s.reported \/ ready
           t == [s EXCEPT !.empty = FALSE, !.reported = reported]
<1>1. s \in Status /\ s.reported \in BOOLEAN /\ (s.public \/ s.reported => s.initialized)
  BY DEF GoodStatus, StatusOK, Orderly, Status
<1>2. reported \in BOOLEAN
  BY Zenon
<1>3. reported => s.initialized
  BY <1>1 DEF PrimaryPubliclyReady
<1>4. ApplyOperationalPhase(s) = t
  BY Zenon DEF ApplyOperationalPhase
<1> HIDE DEF reported
<1>5. t \in Status /\ Alike(t, s) /\ t.public = s.public /\ t.reported = reported
  BY <1>1, <1>2 DEF Status, Alike
<1> HIDE DEF t
<1> QED
  BY <1>1, <1>3, <1>4, <1>5, AlikeFacts

\* A flag of the status.
LEMMA EmptyFacts ==
    ASSUME NEW s \in Status, NEW b \in BOOLEAN
    PROVE  LET t == [s EXCEPT !.empty = b]
           IN  t \in Status /\ Alike(t, s) /\ t.public = s.public /\ t.reported = s.reported
  BY DEF Status, Alike

-----------------------------------------------------------------------------
(* The start of a pass                                                      *)

LEMMA StInv ==
    ASSUME OperatorInv
    PROVE  /\ st \in Status /\ cr \in Resource /\ op \in Memory /\ scene \in Scene
           /\ st.nodes \in [Ordinals -> NodeStatus \cup {Nil}] /\ st.prev \subseteq NodeStatus
           /\ st.accepted \in Configuration /\ st.applied \in Configuration
           /\ st.accepted.size \in Nat /\ st.accepted.pw \in Nat
           /\ proc \in [Procs -> Process] /\ pod \in [Ordinals -> Pod]
           /\ GoodStatus(st) /\ NamesKnown(st) /\ Orderly(st) /\ KeepsCandidate(st)
  BY StatusStays
     DEF OperatorInv, Types, ProcessTypeOK, StatusOK, Status, Configuration, GoodStatus

LEMMA AcceptedConfigurationStep ==
    ASSUME OperatorInv, ReconcileAcceptedConfiguration PROVE Steady
<1> DEFINE rollout == IF cr.size = st.accepted.size THEN Nil
                      ELSE [stage |-> "preparing", p |-> Nil, closed |-> FALSE]
           rotation == IF cr.pw = st.accepted.pw THEN Nil
                       ELSE [stage |-> "preparing", confirmed |-> {}, old |-> st.accepted.pw]
           s == [st EXCEPT !.accepted = Wanted, !.reported = FALSE, !.rollout = rollout,
                           !.rotation = rotation]
<1>1. Saved(s) /\ st.reported /\ st.failover = Nil
  BY DEF ReconcileAcceptedConfiguration, AcceptDue, Idle
<1>2. Wanted \in Configuration /\ rollout \in RolloutStatus \cup {Nil}
      /\ rotation \in RotationStatus \cup {Nil}
  BY StInv DEF Wanted, Configuration, Resource, RolloutStatus, RolloutStatusOf, RotationStatus,
               RotationStatusOf
<1>3. rollout # Nil => rollout.stage = "preparing" /\ rollout.p = Nil
  OBVIOUS
<1> HIDE DEF rollout, rotation
<1> DEFINE wanted == Wanted
           q == st
<1>a. q \in Status /\ q.failover = Nil /\ wanted \in Configuration
  BY <1>1, <1>2, StInv
<1>b. s = [q EXCEPT !.accepted = wanted, !.reported = FALSE, !.rollout = rollout,
                     !.rotation = rotation]
  OBVIOUS
<1> HIDE DEF wanted, q, s
<1> DEFINE t == [q EXCEPT !.accepted = wanted, !.reported = FALSE]
<1>c. s \in Status
  <2>1. t \in Status
    BY <1>a DEF Status
  <2>2. s = [t EXCEPT !.rollout = rollout, !.rotation = rotation]
    BY <1>b
  <2> HIDE DEF t
  <2> QED
    BY <1>2, <2>1, <2>2 DEF Status
<1>4. /\ s.nodes = st.nodes /\ s.prev = st.prev /\ s.primary = st.primary
      /\ s.failover = Nil /\ s.rollout = rollout /\ s.initialized = st.initialized
      /\ s.public = st.public /\ s.reported = FALSE
  BY <1>a, <1>b DEF Status, q
<1>5. Entries(s) = Entries(st)
  BY <1>4 DEF Entries
<1>6. NamesKnown(s) /\ Orderly(s) /\ KeepsCandidate(s)
  BY <1>1, <1>3, <1>4, <1>5, StInv DEF NamesKnown, Orderly, KeepsCandidate, Knows
<1> QED
  BY <1>1, <1>4, <1>6, <1>c, SameEntries, SavedStep DEF Steady

\* The rest of the resource.
LEMMA ResourceStep ==
    ASSUME OperatorInv, ResourceGoesOn, UNCHANGED <<machine, st>>, op' \in Memory
    PROVE  Steady
<1>1. MachineGoesOn
  BY MachineStays DEF OperatorInv
<1> QED
  BY <1>1, StepKeepsInv, StInv DEF Steady

LEMMA CredentialsStep == ASSUME OperatorInv, ReconcileCredentials PROVE Steady
<1>1. cr' = [cr EXCEPT !.acl = st.accepted.pw] /\ UNCHANGED <<machine, st>> /\ op' \in Memory
  BY NextPassFacts DEF ReconcileCredentials
<1>2. ResourceGoesOn
  BY <1>1, StInv DEF Resource, ResourceGoesOn, OperatorInv, FenceSound
<1> QED
  BY <1>1, <1>2, ResourceStep


-----------------------------------------------------------------------------
(* How the entries of a status change                                       *)

LEMMA EntriesInv ==
    ASSUME OperatorInv
    PROVE  /\ Entries(st) = Nodes \cup st.prev
           /\ \A n \in Entries(st) : n \in NodeStatus /\ n.p \in Procs /\ n # Nil
           /\ \A n \in Entries(st) : /\ proc[n.p].run \in {"up", "down"}
                                     /\ n.term => proc[n.p].run = "down"
           /\ \A o \in Ordinals : st.nodes[o] # Nil =>
                  st.nodes[o] \in Entries(st) /\ st.nodes[o].p[1] = o
           /\ \A q \in st.prev : /\ q \in Entries(st) /\ st.nodes[q.p[1]] # Nil
                                 /\ q.p[2] < st.nodes[q.p[1]].p[2]
           /\ \A q, r \in st.prev : q.p = r.p => q = r
           /\ \A n \in Nodes : n \in Entries(st) /\ n.p[1] \in Ordinals /\ st.nodes[n.p[1]] = n
<1>1. st \in Status /\ Keyed(st) /\ Faithful(st) /\ Types /\ scene \in Scene
  BY DEF OperatorInv, StatusOK, Types, ProcessTypeOK
<1>2. Entries(st) = Nodes \cup st.prev
  BY DEF Entries, Nodes
<1>3. \A n \in Entries(st) : n \in NodeStatus /\ n.p \in Procs /\ n # Nil
  BY <1>1, EntryFacts
<1>4. \A o \in Ordinals : st.nodes[o] # Nil => st.nodes[o] \in Entries(st) /\ st.nodes[o].p[1] = o
  BY <1>1, EntryFacts DEF Keyed
<1>5. \A q \in st.prev : q \in Entries(st) /\ st.nodes[q.p[1]] # Nil
                         /\ q.p[2] < st.nodes[q.p[1]].p[2]
  BY <1>1, <1>2 DEF Keyed
<1>6. \A n \in Nodes : n \in Entries(st) /\ n.p[1] \in Ordinals /\ st.nodes[n.p[1]] = n
  BY <1>2, <1>4 DEF Nodes
<1> QED
  BY <1>1, <1>2, <1>3, <1>4, <1>5, <1>6 DEF Keyed, Faithful

LEMMA KnownFacts ==
    ASSUME OperatorInv, NEW p
    PROVE  /\ Known(p) # {} <=> Knows(st, p)
           /\ \A n \in Known(p) : n \in Entries(st) /\ n.p = p /\ n \in NodeStatus /\ p \in Procs
  BY EntriesInv DEF Known, Knows

\* The entries are about the same processes, and report only stops that are real.
Renewed(s) ==
    /\ \A o \in Ordinals :
        IF st.nodes[o] = Nil THEN s.nodes[o] = Nil
        ELSE /\ s.nodes[o] # Nil /\ s.nodes[o].p = st.nodes[o].p
             /\ s.nodes[o].term => proc[s.nodes[o].p].run = "down"
    /\ \A q \in s.prev : /\ q.term => proc[q.p].run = "down"
                         /\ \E r \in st.prev : r.p = q.p
    /\ \A r \in st.prev : \E q \in s.prev : q.p = r.p
    /\ \A q, r \in s.prev : q.p = r.p => q = r

LEMMA RenewedFacts ==
    ASSUME OperatorInv, NEW s, Renewed(s)
    PROVE  Keyed(s) /\ Faithful(s) /\ (\A p : Knows(s, p) <=> Knows(st, p))
<1>1. Keyed(s)
  <2>1. \A o \in Ordinals : s.nodes[o] # Nil => s.nodes[o].p[1] = o
    BY EntriesInv DEF Renewed
  <2>2. ASSUME NEW q \in s.prev
        PROVE  s.nodes[q.p[1]] # Nil /\ q.p[2] < s.nodes[q.p[1]].p[2]
    <3>1. PICK r \in st.prev : r.p = q.p
      BY DEF Renewed
    <3>2. r.p[1] \in Ordinals /\ st.nodes[r.p[1]] # Nil /\ r.p[2] < st.nodes[r.p[1]].p[2]
      BY EntriesInv, ProcsAreNamed, StInv
    <3> QED
      BY <3>1, <3>2 DEF Renewed
  <2> QED
    BY <2>1, <2>2 DEF Keyed, Renewed
<1>2. ASSUME NEW n \in Entries(s)
      PROVE  /\ proc[n.p].run \in {"up", "down"} /\ (n.term => proc[n.p].run = "down")
             /\ \E m \in Entries(st) : m.p = n.p
  <2>1. CASE n \in s.prev
    BY <2>1, EntriesInv DEF Renewed
  <2>2. CASE \E o \in Ordinals : s.nodes[o] # Nil /\ n = s.nodes[o]
    BY <2>2, EntriesInv DEF Renewed
  <2> QED
    BY <2>1, <2>2 DEF Entries
<1>3. ASSUME NEW n \in Entries(st) PROVE \E m \in Entries(s) : m.p = n.p
  <2>1. CASE n \in st.prev
    BY <2>1 DEF Renewed, Entries
  <2>2. CASE \E o \in Ordinals : st.nodes[o] # Nil /\ n = st.nodes[o]
    BY <2>2 DEF Renewed, Entries
  <2> QED
    BY <2>1, <2>2 DEF Entries
<1> QED
  BY <1>1, <1>2, <1>3 DEF Faithful, Knows

\* What the operations of a status say stays.
SameOperations(s) ==
    /\ s.primary = st.primary /\ s.failover = st.failover /\ s.rollout = st.rollout
    /\ s.initialized = st.initialized /\ (s.public \/ s.reported => s.initialized)
    /\ s.accepted.size = st.accepted.size /\ s.applied.size = st.applied.size

LEMMA SameOperationsFacts ==
    ASSUME OperatorInv, NEW s \in Status, SameOperations(s), Keyed(s), Faithful(s),
           \A p : Knows(st, p) => Knows(s, p)
    PROVE  GoodStatus(s)
<1>1. NamesKnown(s)
  BY StInv DEF NamesKnown, SameOperations
<1>2. Orderly(s) /\ KeepsCandidate(s)
  BY StInv DEF Orderly, SameOperations, KeepsCandidate
<1> QED
  BY <1>1, <1>2 DEF GoodStatus, StatusOK

LEMMA RenewedStatus ==
    ASSUME OperatorInv, NEW s \in Status, Renewed(s), SameOperations(s)
    PROVE  GoodStatus(s)
  BY RenewedFacts, SameOperationsFacts

\* One entry is written again.
LEMMA RewrittenEntry ==
    ASSUME OperatorInv, NEW o \in Ordinals, st.nodes[o] # Nil, NEW n \in NodeStatus,
           n.p = st.nodes[o].p, n.term => proc[n.p].run = "down",
           NEW s, s.nodes = [st.nodes EXCEPT ![o] = n], s.prev = st.prev
    PROVE  Renewed(s)
<1>1. n # Nil
  BY EntryFacts, StInv, ProcsAreNamed, StatusAssumption DEF NodeStatus, NodeStatusOf
<1>2. s.nodes[o] = n /\ \A i \in Ordinals \ {o} : s.nodes[i] = st.nodes[i]
  BY StInv
<1>3. \A i \in Ordinals : st.nodes[i] # Nil /\ st.nodes[i].term => proc[st.nodes[i].p].run = "down"
  BY EntriesInv
<1>4. \A q \in st.prev : q.term => proc[q.p].run = "down"
  BY EntriesInv
<1> QED
  BY <1>1, <1>2, <1>3, <1>4, EntriesInv DEF Renewed

\* A process that comes after another one in its ordinal.
LEMMA LaterProcess ==
    ASSUME OperatorInv, NEW o \in Ordinals, HasPod(o)
    PROVE  /\ CurrentProc(o) \in Procs /\ CurrentProc(o)[1] = o /\ CurrentProc(o)[2] = pod[o].inc
           /\ proc[CurrentProc(o)].run # "absent"
           /\ \A p \in Procs : p[1] = o /\ proc[p].run # "absent" /\ p # CurrentProc(o) =>
                  p[2] < pod[o].inc
<1>1. scene.incs \in Nat /\ pod[o].inc \in 1..scene.incs
  BY StInv DEF Scene, Pod, HasPod
<1>2. PICK k \in 0..scene.incs : /\ \A i \in 1..scene.incs : proc[<<o, i>>].run # "absent" <=> i <= k
                                 /\ pod[o].inc \in {0, k}
  BY DEF OperatorInv, Incarnations
<1>3. pod[o].inc = k
  BY <1>1, <1>2
<1>4. CurrentProc(o) = <<o, k>> /\ CurrentProc(o) \in Procs /\ proc[<<o, k>>].run # "absent"
  BY <1>1, <1>2, <1>3, ProcsAreNamed, StInv DEF CurrentProc
<1>5. \A p \in Procs : p[1] = o /\ proc[p].run # "absent" /\ p # <<o, k>> => p[2] < k
  BY <1>1, <1>2, ProcsAreNamed, StInv
<1> QED
  BY <1>3, <1>4, <1>5

\* The entry of an ordinal is now about the process of its Pod.
LEMMA SucceedingEntry ==
    ASSUME OperatorInv, NEW o \in Ordinals, HasPod(o), NEW n \in NodeStatus, n.p = CurrentProc(o),
           proc[n.p].run \in {"up", "down"}, n.term => proc[n.p].run = "down",
           NEW s, s.nodes = [st.nodes EXCEPT ![o] = n],
           \/ (st.nodes[o] = Nil \/ st.nodes[o].p = n.p) /\ s.prev = st.prev
           \/ /\ st.nodes[o] # Nil /\ st.nodes[o].p # n.p
              /\ \E m \in NodeStatus : /\ m.p = st.nodes[o].p /\ s.prev = st.prev \cup {m}
                                       /\ m.term => proc[m.p].run = "down"
    PROVE  Keyed(s) /\ Faithful(s) /\ (\A p : Knows(st, p) => Knows(s, p)) /\ Knows(s, n.p)
<1>1. n # Nil
  BY EntryFacts, StInv, ProcsAreNamed, StatusAssumption DEF NodeStatus, NodeStatusOf
<1>2. s.nodes[o] = n /\ \A i \in Ordinals \ {o} : s.nodes[i] = st.nodes[i]
  BY StInv
<1>3. /\ n.p \in Procs /\ n.p[1] = o
      /\ \A p \in Procs : p[1] = o /\ proc[p].run # "absent" /\ p # n.p => p[2] < n.p[2]
  BY LaterProcess
<1>4. Knows(s, n.p)
  BY <1>1, <1>2 DEF Knows, Entries
<1>5. \A p \in Procs : p[1] \in Ordinals /\ p[2] \in Nat
  BY ProcsAreNamed, StInv
<1>6. ASSUME NEW q \in st.prev PROVE s.nodes[q.p[1]] # Nil /\ q.p[2] < s.nodes[q.p[1]].p[2]
  <2>1. /\ q.p \in Procs /\ st.nodes[q.p[1]] # Nil /\ q.p[2] < st.nodes[q.p[1]].p[2]
        /\ st.nodes[q.p[1]].p \in Procs /\ st.nodes[q.p[1]].p[1] = q.p[1]
        /\ proc[st.nodes[q.p[1]].p].run # "absent" /\ q.p[1] \in Ordinals
    BY <1>5, EntriesInv
  <2>2. CASE q.p[1] # o
    BY <1>2, <2>1, <2>2
  <2>3. CASE q.p[1] = o
    <3>1. st.nodes[o].p = n.p \/ st.nodes[o].p[2] < n.p[2]
      BY <1>3, <2>1, <2>3
    <3> QED
      BY <1>1, <1>2, <1>3, <1>5, <2>1, <2>3, <3>1
  <2> QED
    BY <2>2, <2>3
<1>7. CASE (st.nodes[o] = Nil \/ st.nodes[o].p = n.p) /\ s.prev = st.prev
  <2>1. Keyed(s)
    BY <1>2, <1>3, <1>6, <1>7, EntriesInv DEF Keyed
  <2>2. \A m \in Entries(s) : m = n \/ m \in Entries(st)
    BY <1>2, <1>7 DEF Entries
  <2>3. \A m \in Entries(st) : m \in Entries(s) \/ m = st.nodes[o]
    BY <1>2, <1>7 DEF Entries
  <2>4. Faithful(s)
    BY <2>2, EntriesInv DEF Faithful
  <2>5. ASSUME NEW p, Knows(st, p) PROVE Knows(s, p)
    BY <1>4, <1>7, <2>3, <2>5, EntriesInv DEF Knows
  <2> QED
    BY <1>4, <2>1, <2>4, <2>5
<1>8. CASE /\ st.nodes[o] # Nil /\ st.nodes[o].p # n.p
           /\ \E m \in NodeStatus : /\ m.p = st.nodes[o].p /\ s.prev = st.prev \cup {m}
                                    /\ m.term => proc[m.p].run = "down"
  <2>1. PICK m \in NodeStatus : /\ m.p = st.nodes[o].p /\ s.prev = st.prev \cup {m}
                                /\ m.term => proc[m.p].run = "down"
    BY <1>8
  <2>2. /\ m.p \in Procs /\ m.p[1] = o /\ proc[m.p].run \in {"up", "down"}
        /\ m.p[2] < n.p[2]
    BY <1>3, <1>8, <2>1, EntriesInv
  <2>3. \A q \in st.prev : q.p # m.p
    BY <1>5, <2>1, <2>2, EntriesInv
  <2>4. Keyed(s)
    <3>1. \A i \in Ordinals : s.nodes[i] # Nil => s.nodes[i].p[1] = i
      BY <1>2, <1>3, EntriesInv
    <3>2. s.nodes[m.p[1]] # Nil /\ m.p[2] < s.nodes[m.p[1]].p[2]
      BY <1>1, <1>2, <2>2
    <3>3. \A q, r \in s.prev : q.p = r.p => q = r
      BY <2>1, <2>3, EntriesInv
    <3> QED
      BY <1>6, <2>1, <3>1, <3>2, <3>3 DEF Keyed
  <2>5. \A x \in Entries(s) : x \in {n, m} \/ x \in Entries(st)
    BY <1>2, <2>1 DEF Entries
  <2>6. \A x \in Entries(st) : x \in Entries(s) \/ x = st.nodes[o]
    BY <1>2, <2>1 DEF Entries
  <2>7. m \in Entries(s)
    BY <2>1 DEF Entries
  <2>8. Faithful(s)
    BY <2>1, <2>2, <2>5, EntriesInv DEF Faithful
  <2>9. ASSUME NEW p, Knows(st, p) PROVE Knows(s, p)
    BY <2>1, <2>6, <2>7, <2>9 DEF Knows
  <2> QED
    BY <1>4, <2>4, <2>8, <2>9
<1> QED
  BY <1>7, <1>8

-----------------------------------------------------------------------------
(* Pods come and go                                                         *)

LEMMA UsedFacts ==
    ASSUME OperatorInv, NEW o \in Ordinals
    PROVE  /\ Used(o) \in 0..scene.incs
           /\ \A i \in 1..scene.incs : proc[<<o, i>>].run # "absent" <=> i <= Used(o)
           /\ pod[o].inc \in {0, Used(o)}
<1>1. scene.incs \in Nat
  BY StInv DEF Scene
<1>2. PICK k \in 0..scene.incs : /\ \A i \in 1..scene.incs : proc[<<o, i>>].run # "absent" <=> i <= k
                                 /\ pod[o].inc \in {0, k}
  BY DEF OperatorInv, Incarnations
<1>3. {i \in 1..scene.incs : proc[<<o, i>>].run # "absent"} = 1..k
  BY <1>1, <1>2
<1>4. Cardinality(1..k) = k
  BY <1>1, <1>2, FS_Interval
<1> QED
  BY <1>2, <1>3, <1>4 DEF Used

\* A Pod goes whose process has an entry.
LEMMA VanishedPod ==
    ASSUME OperatorInv, NEW o \in Ordinals, HasPod(o), Knows(st, CurrentProc(o)),
           pod' = [pod EXCEPT ![o] = NoPod], SceneKept, ProcessTypeOK', ProcsGoOn,
           UNCHANGED <<st, cr>>, op' \in Memory
    PROVE  Steady
<1>1. Ordinals' = Ordinals /\ Procs' = Procs /\ Resource' = Resource /\ Memory' = Memory
      /\ HA' = HA /\ Status' = Status
  BY KeptSets
<1>2. Types'
  BY <1>1, StInv DEF Types
<1>3. StatusOK(st)'
  <2>1. Faithful(st)'
    BY <1>1, EntriesInv DEF Faithful, ProcsGoOn, Entries
  <2> QED
    BY <1>1, <2>1 DEF OperatorInv, StatusOK, Keyed, NamesKnown, Orderly, Knows, Entries
<1>4. /\ scene'.incs = scene.incs /\ scene'.kinds = scene.kinds
      /\ pod'[o].inc = 0 /\ \A i \in Ordinals \ {o} : pod'[i] = pod[i]
      /\ \A p \in Procs : p[1] \in Ordinals /\ p[2] \in 1..scene.incs /\ p = <<p[1], p[2]>>
      /\ \A i \in Ordinals, j \in 1..scene.incs : <<i, j>> \in Procs
  BY ProcsAreNamed, StInv DEF SceneKept, NoPod
<1>5. Incarnations'
  <2> SUFFICES ASSUME NEW i \in Ordinals
               PROVE  \E k \in 0..scene.incs :
                          /\ \A j \in 1..scene.incs : proc'[<<i, j>>].run # "absent" <=> j <= k
                          /\ pod'[i].inc \in {0, k}
    BY <1>1, <1>4 DEF Incarnations
  <2>1. PICK k \in 0..scene.incs :
            /\ \A j \in 1..scene.incs : proc[<<i, j>>].run # "absent" <=> j <= k
            /\ pod[i].inc \in {0, k}
    BY DEF OperatorInv, Incarnations
  <2>2. \A j \in 1..scene.incs : proc'[<<i, j>>].run # "absent" <=> j <= k
    BY <1>4, <2>1 DEF ProcsGoOn
  <2> QED
    BY <1>4, <2>1, <2>2
<1>6. proc[CurrentProc(o)].run # "starting" /\ CurrentProc(o) \in Procs
  BY EntriesInv DEF Knows
<1>7. \A p \in Procs : IsPodOf(p) => IsPodOf(p)' \/ p = CurrentProc(o)
  BY <1>4, LaterProcess DEF IsPodOf, CurrentProc
<1>8. Tracked'
  <2>1. \A p \in Procs : proc'[p].run = "starting" => IsPodOf(p)'
    BY <1>6, <1>7 DEF ProcsGoOn, OperatorInv, Tracked
  <2>2. ASSUME NEW p \in Procs, proc'[p].run = "up" PROVE IsPodOf(p)' \/ Knows(st', p)
    <3>1. CASE p = CurrentProc(o)
      BY <3>1 DEF Knows
    <3>2. CASE p # CurrentProc(o) /\ proc[p].run = "starting"
      BY <1>7, <3>2 DEF OperatorInv, Tracked
    <3>3. CASE p # CurrentProc(o) /\ proc[p].run = "up"
      BY <1>7, <3>3 DEF OperatorInv, Tracked, Up, Knows
    <3> QED
      BY <2>2, <3>1, <3>2, <3>3 DEF ProcsGoOn
  <2>3. \A p \in Procs : Alive(p)' => Alive(p)
    BY DEF ProcsGoOn, Alive
  <2>4. "remake" \notin scene.kinds =>
          \A p, q \in Procs : Alive(p)' /\ Alive(q)' /\ p[1] = q[1] => p = q
    BY <2>3 DEF OperatorInv, Tracked
  <2>5. Entries(st)' = Entries(st')
    BY <1>1 DEF Entries
  <2> QED
    BY <1>1, <1>4, <2>1, <2>2, <2>4, <2>5 DEF Tracked, Knows, Up, ProcsGoOn
<1>9. FenceSound'
  BY StInv DEF OperatorInv, FenceSound, ProcsGoOn, Resource
<1>10. Gone'
  BY <1>1, <1>4 DEF OperatorInv, Gone, ProcsGoOn, HasPod, Alive
<1>11. KeepsCandidate(st') /\ StoppedForGood
  BY StInv DEF ProcsGoOn, StoppedForGood
<1> QED
  BY <1>2, <1>3, <1>5, <1>8, <1>9, <1>10, <1>11 DEF OperatorInv, Steady

\* releaseTerminatedPod is called for a process whose entry says that it stopped.
LEMMA ReleasedPod ==
    ASSUME OperatorInv, NEW o \in Ordinals, HasPod(o), st.nodes[o] # Nil,
           st.nodes[o].p = CurrentProc(o), ReleaseTerminatedPod(o),
           UNCHANGED <<proc, data, scene, st, cr>>, op' \in Memory
    PROVE  Steady
<1>1. CASE pod[o].deleting
  <2>1. pod' = [pod EXCEPT ![o] = NoPod]
    BY <1>1 DEF ReleaseTerminatedPod
  <2>2. SceneKept
    BY SceneFacts, StInv
  <2>3. pod' \in [Ordinals -> Pod]
    BY <2>1, StInv DEF Pod, NoPod, Scene
  <2>4. ProcessTypeOK'
    BY <2>2, <2>3, KeptSets DEF OperatorInv, Types, ProcessTypeOK, SceneKept, data
  <2>5. ProcsGoOn
    BY DEF ProcsGoOn, OperatorInv, Tracked
  <2>6. Knows(st, CurrentProc(o))
    BY EntriesInv DEF Knows
  <2> QED
    BY <2>1, <2>2, <2>4, <2>5, <2>6, VanishedPod
<1>2. CASE ~pod[o].deleting
  <2>1. pod' = [pod EXCEPT ![o] = [pod[o] EXCEPT !.deleting = TRUE]]
    BY <1>2 DEF ReleaseTerminatedPod
  <2> DEFINE q == pod[o]
             r == [q EXCEPT !.deleting = TRUE]
  <2>2. q \in Pod
    BY StInv
  <2>3. pod' = [pod EXCEPT ![o] = r]
    BY <2>1
  <2> HIDE DEF q
  <2>4. r \in Pod /\ r.inc = q.inc
    BY <2>2 DEF Pod
  <2> HIDE DEF r
  <2>5. pod' \in [Ordinals -> Pod] /\ PodsStay
    BY <2>3, <2>4, StInv DEF PodsStay, q
  <2> QED
    BY <2>5, PodStep, StInv DEF Steady
<1> QED
  BY <1>1, <1>2

\* New Pods: with no process of the ordinal left, unless somebody else makes them.
LEMMA NewPods ==
    ASSUME OperatorInv, NEW S \in SUBSET Ordinals, cr.exists,
           NEW new \in Process, new.run = "starting", new.link = "ok", new.hist = 0,
           \A o \in S : ~HasPod(o) /\ Used(o) < scene.incs,
           "remake" \notin scene.kinds => \A o \in S : ProcessCreationAllowed(o),
           pod' \in [Ordinals -> Pod],
           \A o \in Ordinals : o \notin S => pod'[o] = pod[o],
           \A o \in S : pod'[o].inc = Used(o) + 1,
           proc' \in [Procs -> Process],
           \A p \in Procs : proc'[p] = IF p[1] \in S /\ p[2] = Used(p[1]) + 1 THEN new ELSE proc[p],
           UNCHANGED <<data, scene, st, cr>>, op' \in Memory
    PROVE  Steady
<1> DEFINE Made(p) == p[1] \in S /\ p[2] = Used(p[1]) + 1
<1>2. /\ SceneKept
      /\ Ordinals' = Ordinals /\ Procs' = Procs /\ Resource' = Resource /\ Memory' = Memory
      /\ HA' = HA /\ Status' = Status /\ Process' = Process /\ Pod' = Pod
  BY SceneFacts, KeptSets, StInv
<1>3. /\ \A p \in Procs : p[1] \in Ordinals /\ p[2] \in 1..scene.incs /\ p = <<p[1], p[2]>>
      /\ \A i \in Ordinals, j \in 1..scene.incs : <<i, j>> \in Procs
      /\ scene.incs \in Nat
  BY ProcsAreNamed, StInv DEF Scene
<1>4. \A p \in Procs : proc'[p] = IF Made(p) THEN new ELSE proc[p]
  OBVIOUS
<1>5. \A p \in Procs : Made(p) => proc[p].run = "absent"
  BY <1>3, UsedFacts
<1>6. /\ \A o \in Ordinals : o \notin S => pod'[o] = pod[o]
      /\ \A o \in S : pod[o].inc = 0 /\ pod'[o].inc = Used(o) + 1
  BY UsedFacts DEF HasPod
<1>7. ProcessTypeOK'
  <2>1. Len(lineage) \in Nat /\ lineage' = lineage
    BY DEF OperatorInv, Types, ProcessTypeOK, data
  <2>2. \A p \in Procs : proc[p].hist <= Len(lineage)
    BY DEF OperatorInv, Types, ProcessTypeOK
  <2>3. \A p \in Procs : proc'[p].hist <= Len(lineage')
    BY <1>4, <2>1, <2>2
  <2> QED
    BY <1>2, <2>3 DEF OperatorInv, Types, ProcessTypeOK, data
<1>8. Types'
  BY <1>2, <1>7, StInv DEF Types
<1>9. \A p \in Procs : proc[p].run # "absent" => proc'[p] = proc[p]
  BY <1>4, <1>5
<1>10. StatusOK(st)'
  <2>1. Faithful(st)'
    BY <1>2, <1>9, EntriesInv DEF Faithful, Entries
  <2> QED
    BY <1>2, <2>1 DEF OperatorInv, StatusOK, Keyed, NamesKnown, Orderly, Knows, Entries
<1>11. Incarnations'
  <2> SUFFICES ASSUME NEW o \in Ordinals
               PROVE  \E k \in 0..scene.incs :
                          /\ \A i \in 1..scene.incs : proc'[<<o, i>>].run # "absent" <=> i <= k
                          /\ pod'[o].inc \in {0, k}
    BY <1>2 DEF Incarnations, SceneKept
  <2>1. /\ Used(o) \in 0..scene.incs /\ pod[o].inc \in {0, Used(o)}
        /\ \A i \in 1..scene.incs : proc[<<o, i>>].run # "absent" <=> i <= Used(o)
    BY UsedFacts
  <2>2. CASE o \in S
    <3>1. Used(o) + 1 \in 0..scene.incs
      BY <1>3, <2>1, <2>2
    <3>2. \A i \in 1..scene.incs : Made(<<o, i>>) <=> i = Used(o) + 1
      BY <2>2
    <3>3. \A i \in 1..scene.incs : proc'[<<o, i>>].run # "absent" <=> i <= Used(o) + 1
      BY <1>3, <1>4, <2>1, <3>2
    <3> QED
      BY <1>6, <2>2, <3>1, <3>3
  <2>3. CASE o \notin S
    <3>1. \A i \in 1..scene.incs : proc'[<<o, i>>] = proc[<<o, i>>]
      BY <1>3, <1>4, <2>3
    <3> QED
      BY <1>6, <2>1, <2>3, <3>1
  <2> QED
    BY <2>2, <2>3
<1>12. Tracked'
  <2>1. \A p \in Procs : IsPodOf(p) => IsPodOf(p)' \/ proc[p].run = "absent"
    BY <1>3, <1>6 DEF IsPodOf
  <2>2. \A p \in Procs : Made(p) => IsPodOf(p)'
    BY <1>6 DEF IsPodOf
  <2>3. \A p \in Procs : proc'[p].run = "starting" => IsPodOf(p)'
    BY <1>4, <2>1, <2>2 DEF OperatorInv, Tracked
  <2>4. Entries(st)' = Entries(st)
    BY <1>2 DEF Entries
  <2>5. \A p \in Procs : proc'[p].run = "up" => IsPodOf(p)' \/ Knows(st, p)
    BY <1>4, <2>1 DEF OperatorInv, Tracked, Up
  <2>6. \A p \in Procs : proc'[p].link = "deleted" => proc'[p].run = "down"
    BY <1>4 DEF OperatorInv, Tracked
  <2>7. ASSUME "remake" \notin scene.kinds, NEW p \in Procs, NEW q \in Procs, Made(p), Alive(q)
        PROVE  p[1] # q[1]
    <3> SUFFICES ASSUME p[1] = q[1] PROVE FALSE
      OBVIOUS
    <3>1. ~HasPod(q[1]) /\ ProcessCreationAllowed(q[1]) /\ q[1] \in Ordinals
      BY <2>7
    <3>2. q[2] # 0 /\ ~IsPodOf(q)
      BY <1>3, <3>1 DEF HasPod, IsPodOf
    <3>3. proc[q].run = "up" /\ Knows(st, q)
      BY <2>7, <3>2 DEF Alive, OperatorInv, Tracked, Up
    <3>4. PICK n \in Entries(st) : n.p = q
      BY <3>3 DEF Knows
    <3>5. n.term
      BY <3>1, <3>4, EntriesInv DEF ProcessCreationAllowed
    <3> QED
      BY <3>3, <3>4, <3>5, EntriesInv
  <2>8. ASSUME NEW p \in Procs, NEW q \in Procs, Made(p), Made(q), p[1] = q[1] PROVE p = q
    BY <1>3, <2>8
  <2>9. \A p \in Procs : Alive(p)' => Made(p) \/ Alive(p)
    BY <1>4 DEF Alive
  <2>10. "remake" \notin scene.kinds =>
          \A p, q \in Procs : Alive(p)' /\ Alive(q)' /\ p[1] = q[1] => p = q
    <3> SUFFICES ASSUME "remake" \notin scene.kinds, NEW p \in Procs, NEW q \in Procs,
                        Alive(p)', Alive(q)', p[1] = q[1]
                 PROVE  p = q
      OBVIOUS
    <3> HIDE DEF Made
    <3> QED
      BY <2>7, <2>8, <2>9 DEF OperatorInv, Tracked
  <2> QED
    BY <1>2, <2>3, <2>4, <2>5, <2>6, <2>10 DEF Tracked, Knows, Up, SceneKept
<1>13. FenceSound'
  BY <1>9, StInv DEF OperatorInv, FenceSound, Resource
<1>14. Gone'
  BY DEF Gone
<1>15. KeepsCandidate(st') /\ SceneKept /\ StoppedForGood
  BY <1>2, <1>9, StInv DEF StoppedForGood
<1> QED
  BY <1>8, <1>10, <1>11, <1>12, <1>13, <1>14, <1>15 DEF OperatorInv, Steady

-----------------------------------------------------------------------------
(* Pods, manual fencing and recovery                                        *)

\* The forms a step of a pass has.
LEMMA ActingStep ==
    ASSUME OperatorInv, MachineGoesOn, GoodStatus(st'), UNCHANGED cr, op' \in Memory
    PROVE  Steady
  BY StepKeepsInv, ResourceStays DEF GoodStatus, Steady

LEMMA WritingStep ==
    ASSUME OperatorInv, GoodStatus(st'), UNCHANGED <<machine, cr>>, op' \in Memory
    PROVE  Steady
  BY ActingStep, MachineStays DEF OperatorInv

LEMMA FlaggedPod ==
    ASSUME OperatorInv, NEW o, NEW b \in BOOLEAN, pod' = [pod EXCEPT ![o].deleting = b]
    PROVE  pod' \in [Ordinals -> Pod] /\ PodsStay
<1>1. \A i \in Ordinals : pod[i] \in Pod
  BY StInv
<1> DEFINE q == pod[o]
           r == [q EXCEPT !.deleting = b]
<1>2. pod' = [pod EXCEPT ![o] = r]
  OBVIOUS
<1>3. o \in Ordinals => r \in Pod /\ r.inc = pod[o].inc
  BY <1>1 DEF Pod
<1> HIDE DEF q, r
<1> QED
  BY <1>1, <1>2, <1>3, StInv DEF PodsStay

LEMMA LabelledPod ==
    ASSUME OperatorInv, NEW o, NEW label \in {"none", "primary", "replica"},
           pod' = [pod EXCEPT ![o].label = label]
    PROVE  pod' \in [Ordinals -> Pod] /\ PodsStay
<1>1. \A i \in Ordinals : pod[i] \in Pod
  BY StInv
<1> DEFINE q == pod[o]
           r == [q EXCEPT !.label = label]
<1>2. pod' = [pod EXCEPT ![o] = r]
  OBVIOUS
<1>3. o \in Ordinals => r \in Pod /\ r.inc = pod[o].inc
  BY <1>1 DEF Pod
<1> HIDE DEF q, r
<1> QED
  BY <1>1, <1>2, <1>3, StInv DEF PodsStay

\* What NewPod and ReconcileWorkload make.
FreshPod(i) == [NoPod EXCEPT !.inc = i]
FreshProcess(size) == [Blank EXCEPT !.run = "starting", !.size = size]

LEMMA FreshFacts ==
    ASSUME OperatorInv, NEW i \in 1..scene.incs, NEW size \in Nat
    PROVE  /\ FreshPod(i) \in Pod /\ FreshPod(i).inc = i
           /\ FreshProcess(size) \in Process /\ FreshProcess(size).run = "starting"
           /\ FreshProcess(size).link = "ok" /\ FreshProcess(size).hist = 0
<1>1. FreshPod(i) \in Pod /\ FreshPod(i).inc = i
  <2>1. scene.incs \in Nat
    BY StInv DEF Scene
  <2>2. i \in 0..scene.incs
    BY <2>1
  <2> QED
    BY <2>2 DEF FreshPod, NoPod, Pod
<1>2. /\ FreshProcess(size) \in Process /\ FreshProcess(size).run = "starting"
      /\ FreshProcess(size).link = "ok" /\ FreshProcess(size).hist = 0
  BY DEF FreshProcess, Blank, Process
<1> QED
  BY <1>1, <1>2

LEMMA WorkloadStep == ASSUME OperatorInv, ReconcileWorkload PROVE Steady
<1>1. cr.exists /\ op' \in Memory /\ UNCHANGED <<data, scene, st, cr>>
  BY NextPassFacts DEF ReconcileWorkload, PassStart
<1>2. CASE WorkloadStopped
  <2>1. pod' = [pod EXCEPT ![First(StoppablePods)].deleting = TRUE] /\ UNCHANGED proc
    BY <1>2 DEF ReconcileWorkload
  <2>2. pod' \in [Ordinals -> Pod] /\ PodsStay
    BY <2>1, FlaggedPod
  <2> QED
    BY <1>1, <2>1, <2>2, PodStep, StInv DEF Steady
<1>3. CASE ~WorkloadStopped
  <2> DEFINE size == TemplateSize
             new == FreshProcess(size)
  <2>1. size \in Nat
    BY StInv DEF TemplateSize, Configuration
  <2>2. pod' = [o \in Ordinals |-> IF o \in MissingPods THEN FreshPod(Used(o) + 1) ELSE pod[o]]
    BY <1>3, Zenon DEF ReconcileWorkload, FreshPod
  <2>3. proc' = [p \in Procs |-> IF p[1] \in MissingPods /\ p[2] = Used(p[1]) + 1
                                 THEN new ELSE proc[p]]
    BY <1>3, Zenon DEF ReconcileWorkload, FreshProcess
  <2> HIDE DEF size
  <2>4. /\ MissingPods \in SUBSET Ordinals
        /\ \A o \in MissingPods : ~HasPod(o) /\ Used(o) < scene.incs /\ ProcessCreationAllowed(o)
    BY DEF MissingPods
  <2>5. \A o \in MissingPods : Used(o) + 1 \in 1..scene.incs
    BY <2>4, UsedFacts, StInv DEF Scene
  <2>6. \A o \in MissingPods : FreshPod(Used(o) + 1) \in Pod /\ FreshPod(Used(o) + 1).inc = Used(o) + 1
    BY <2>1, <2>5, FreshFacts
  <2>7. new \in Process /\ new.run = "starting" /\ new.link = "ok" /\ new.hist = 0
    <3>1. 1 \in 1..scene.incs
      BY StInv DEF Scene
    <3> QED
      BY <2>1, <3>1, FreshFacts
  <2> HIDE DEF new
  <2>8. /\ pod' \in [Ordinals -> Pod]
        /\ \A o \in Ordinals : o \notin MissingPods => pod'[o] = pod[o]
        /\ \A o \in MissingPods : pod'[o].inc = Used(o) + 1
    BY <2>2, <2>4, <2>6, StInv
  <2>9. /\ proc' \in [Procs -> Process]
        /\ \A p \in Procs : proc'[p] = IF p[1] \in MissingPods /\ p[2] = Used(p[1]) + 1
                                       THEN new ELSE proc[p]
    BY <2>3, <2>7, StInv
  <2> QED
    BY <1>1, <2>4, <2>7, <2>8, <2>9, NewPods
<1> QED
  BY <1>2, <1>3

LEMMA StoppedFacts ==
    ASSUME NEW n \in NodeStatus
    PROVE  Stopped(n) \in NodeStatus /\ Stopped(n).p = n.p /\ Stopped(n).term
  BY DEF Stopped, NodeStatus, NodeStatusOf

LEMMA AcceptsManualFencingStep == ASSUME OperatorInv, AcceptsManualFencing PROVE Steady
<1>1. PICK n \in FencedNode :
        st' = [st EXCEPT
                    !.nodes = [o \in Ordinals |-> IF @[o] # Nil /\ @[o].p = n.p THEN Stopped(@[o])
                                                                                 ELSE @[o]],
                    !.prev = {IF q.p = n.p THEN Stopped(q) ELSE q : q \in @}]
  BY Zenon DEF AcceptsManualFencing
<1>2. UNCHANGED <<machine, cr>> /\ op' \in Memory
  BY NextPassFacts DEF AcceptsManualFencing
<1> DEFINE fenced == n.p
           Now(m) == IF m.p = fenced THEN Stopped(m) ELSE m
           nodes == [o \in Ordinals |-> IF st.nodes[o] # Nil THEN Now(st.nodes[o]) ELSE Nil]
           prev == {Now(q) : q \in st.prev}
<1>3. fenced \in Procs /\ proc[fenced].run = "down"
  BY EntriesInv, ProcsAreNamed, StInv DEF FencedNode, OperatorInv, FenceSound
<1> DEFINE nodes1 == [o \in Ordinals |-> IF st.nodes[o] # Nil /\ st.nodes[o].p = n.p
                                         THEN Stopped(st.nodes[o]) ELSE st.nodes[o]]
<1>4. nodes1 = nodes
  OBVIOUS
<1>5. st' = [st EXCEPT !.nodes = nodes1, !.prev = prev]
  BY <1>1
<1>6. st' = [st EXCEPT !.nodes = nodes, !.prev = prev]
  BY <1>4, <1>5
<1>7. \A m \in Entries(st) : /\ Now(m) \in NodeStatus /\ Now(m).p = m.p
                             /\ Now(m).term => proc[m.p].run = "down"
  BY <1>3, EntriesInv, StoppedFacts
<1> HIDE DEF Now, fenced
<1>8. /\ nodes \in [Ordinals -> NodeStatus \cup {Nil}]
      /\ \A o \in Ordinals : IF st.nodes[o] = Nil THEN nodes[o] = Nil
                             ELSE /\ nodes[o] # Nil /\ nodes[o].p = st.nodes[o].p
                                  /\ nodes[o].term => proc[nodes[o].p].run = "down"
  <2>1. \A m \in NodeStatus : m # Nil
    BY StInv, EntryFacts, ProcsAreNamed, StatusAssumption DEF NodeStatus, NodeStatusOf
  <2> QED
    BY <1>7, <2>1, EntriesInv
<1>9. /\ prev \in SUBSET NodeStatus
      /\ \A q \in prev : (q.term => proc[q.p].run = "down") /\ \E r \in st.prev : r.p = q.p
      /\ \A r \in st.prev : \E q \in prev : q.p = r.p
  BY <1>7, EntriesInv
<1>10. \A q, r \in prev : q.p = r.p => q = r
  BY <1>7, EntriesInv
<1> HIDE DEF nodes, prev, nodes1
<1>11. st' \in Status /\ st'.nodes = nodes /\ st'.prev = prev
  BY <1>6, <1>8, <1>9, StInv DEF Status
<1>12. Renewed(st')
  BY <1>8, <1>9, <1>10, <1>11 DEF Renewed
<1>13. SameOperations(st')
  BY <1>6, StInv DEF SameOperations, Orderly, Status
<1> QED
  BY <1>2, <1>11, <1>12, <1>13, RenewedStatus, WritingStep

LEMMA RemovesAnnotationStep == ASSUME OperatorInv, RemovesAnnotation PROVE Steady
<1>1. cr' = [cr EXCEPT !.fence = Nil] /\ UNCHANGED <<machine, st>> /\ op' \in Memory
  BY NextPassFacts DEF RemovesAnnotation
<1>2. ResourceGoesOn
  BY <1>1, StInv DEF Resource, ResourceGoesOn
<1> QED
  BY <1>1, <1>2, ResourceStep

-----------------------------------------------------------------------------
(* Recovery                                                                 *)

\* A status with one entry written again, and nothing else.
LEMMA EntryStatus ==
    ASSUME OperatorInv, NEW o \in Ordinals, st.nodes[o] # Nil, NEW n \in NodeStatus,
           n.p = st.nodes[o].p, n.term => proc[n.p].run = "down"
    PROVE  LET s == [st EXCEPT !.nodes[o] = n]
           IN  /\ GoodStatus(s) /\ s \in Status /\ s.nodes = [st.nodes EXCEPT ![o] = n]
               /\ s.prev = st.prev /\ SameOperations(s)
<1> DEFINE nodes == [st.nodes EXCEPT ![o] = n]
           s == [st EXCEPT !.nodes = nodes]
<1>1. nodes \in [Ordinals -> NodeStatus \cup {Nil}]
  BY StInv
<1> HIDE DEF nodes
<1>2. s \in Status /\ s.nodes = nodes /\ s.prev = st.prev
  BY <1>1, StInv DEF Status
<1>3. SameOperations(s)
  BY StInv DEF SameOperations, Orderly, Status
<1> HIDE DEF s
<1>4. Renewed(s)
  BY <1>2, RewrittenEntry DEF nodes
<1>5. GoodStatus(s)
  BY <1>2, <1>3, <1>4, RenewedStatus
<1> QED
  BY <1>2, <1>3, <1>5 DEF s, nodes

LEMMA ProcessRecoveryStep == ASSUME OperatorInv, ReconcileProcessRecovery PROVE Steady
<1>1. PICK o \in Ordinals : RecoveryOrdinal(o) /\ \E stage \in RecoverySteps(st.nodes[o]) :
        LET n == st.nodes[o]
            killed == n.rec = "killing" /\ stage = "none"
            unsaved == IF stage = "waiting" /\ ~pod[o].deleting THEN {n.rec} ELSE {}
        IN /\ \E rec \in {stage} \cup unsaved : st' = [st EXCEPT !.nodes[o].rec = rec]
           /\ proc' = [proc EXCEPT ![n.p].state = IF killed THEN "ok" ELSE @]
           /\ pod' = [pod EXCEPT ![o].deleting = @ \/ stage = "waiting"]
  BY Zenon DEF ReconcileProcessRecovery
<1> DEFINE n == st.nodes[o]
<1>2. n # Nil /\ n \in NodeStatus /\ n.p \in Procs /\ RecoverySteps(n) \notin {{}, {"pending"}}
      /\ (n.term => proc[n.p].run = "down")
  BY <1>1, EntriesInv DEF RecoveryOrdinal
<1>3. PICK stage \in RecoverySteps(n) :
        LET killed == n.rec = "killing" /\ stage = "none"
        IN /\ \E rec \in {stage, n.rec} : st' = [st EXCEPT !.nodes[o].rec = rec]
           /\ proc' = [proc EXCEPT ![n.p].state = IF killed THEN "ok" ELSE @]
           /\ pod' = [pod EXCEPT ![o].deleting = @ \/ stage = "waiting"]
  BY <1>1
<1>4. UNCHANGED <<data, scene, cr>> /\ op' \in Memory
  BY NextPassFacts DEF ReconcileProcessRecovery
<1> DEFINE Stages == {"none", "killing", "deleting", "deletingBusy", "waiting"}
<1>5. stage \in Stages /\ n.rec \in Stages
  BY <1>2, <1>3 DEF RecoverySteps, NodeStatus, NodeStatusOf
<1>6. PICK rec \in Stages : st' = [st EXCEPT !.nodes[o].rec = rec]
  BY <1>3, <1>5
<1> DEFINE m == [n EXCEPT !.rec = rec]
<1>7. m \in NodeStatus /\ m.p = n.p /\ m.term = n.term
  BY <1>2, <1>6 DEF NodeStatus, NodeStatusOf
<1>8. GoodStatus(st')
  <2>1. st' = [st EXCEPT !.nodes[o] = m]
    BY <1>6
  <2> HIDE DEF m
  <2> QED
    BY <1>2, <1>7, <2>1, EntryStatus
<1> DEFINE state == IF n.rec = "killing" /\ stage = "none" THEN "ok" ELSE proc[n.p].state
           q == proc[n.p]
           r == [q EXCEPT !.state = state]
<1>9. proc' = [proc EXCEPT ![n.p] = r]
  BY <1>3
<1>10. q \in Process /\ q.hist <= Len(lineage)
  BY <1>2, StInv DEF OperatorInv, Types, ProcessTypeOK
<1>11. state \in {"ok", "busy", "hung"}
  BY <1>10 DEF Process
<1> HIDE DEF state
<1>12. r \in Process /\ r.run = q.run /\ r.link = q.link /\ r.hist = q.hist
  BY <1>10, <1>11, Zenon DEF Process
<1> DEFINE flag == pod[o].deleting \/ stage = "waiting"
<1>13. flag \in BOOLEAN
  BY Zenon
<1>14. pod' = [pod EXCEPT ![o].deleting = flag]
  BY <1>3
<1> HIDE DEF flag
<1>15. pod' \in [Ordinals -> Pod] /\ PodsStay
  BY <1>13, <1>14, FlaggedPod
<1>16. SceneKept
  BY <1>4, SceneFacts, StInv
<1>17. MachineGoesOn
  <2>1. r.link = "deleted" => r.run = "down"
    BY <1>2, <1>12 DEF OperatorInv, Tracked
  <2>2. lineage' \in Seq(Nat) /\ Len(lineage) <= Len(lineage') /\ served' \in 0 .. Len(lineage')
    BY <1>4 DEF data, OperatorInv, Types, ProcessTypeOK
  <2>3. r.hist <= Len(lineage') /\ r.run = proc[n.p].run
    BY <1>4, <1>10, <1>12 DEF data
  <2> HIDE DEF r, n
  <2> QED
    BY <1>2, <1>9, <1>12, <1>15, <1>16, <2>1, <2>2, <2>3, ProcessGoesOn DEF OperatorInv
<1> QED
  BY <1>4, <1>8, <1>17, ActingStep

-----------------------------------------------------------------------------
(* Failover                                                                 *)

LEMMA OneCommand == ASSUME NEW c \in Commands PROVE <<>> \in Seq(Commands) /\ <<c>> \in Seq(Commands)
  OBVIOUS

LEMMA PromoteCommandsFacts == ASSUME NEW p PROVE PromoteCommands(p) \in Seq(Commands)
<1>1. Promote \in Commands
  BY DEF Promote, Commands
<1> QED
  BY <1>1, OneCommand DEF PromoteCommands

LEMMA FencesStep ==
    ASSUME OperatorInv, NEW p \in Procs, NEW s, GoodStatus(s), Fences(p, s) PROVE Steady
<1>1. AppAccess(p, FALSE) \in Seq(Commands)
  BY AppAccessFacts
<1> QED
  BY <1>1, CommandedStep, BrokenOffStep DEF Fences, Steady

LEMMA PromotesStep ==
    ASSUME OperatorInv, NEW p \in Procs, NEW s, GoodStatus(s), Promotes(p, s) PROVE Steady
<1>1. PromoteCommands(p) \in Seq(Commands)
  BY PromoteCommandsFacts
<1> QED
  BY <1>1, CommandedStep, BrokenOffStep DEF Promotes, Steady

LEMMA RemovesRoleLabelStep == ASSUME OperatorInv, NEW p, RemovesRoleLabel(p) PROVE Steady
<1>1. pod' = [pod EXCEPT ![p[1]].label = "none"] /\ UNCHANGED <<proc, data, scene, st, cr>>
      /\ op' \in Memory
  BY NextPassFacts DEF RemovesRoleLabel
<1>2. pod' \in [Ordinals -> Pod] /\ PodsStay
  BY <1>1, LabelledPod
<1> QED
  BY <1>1, <1>2, PodStep, StInv DEF Steady

\* A status that differs from the present one in the failover and the primary.
KeepsRest(s) ==
    /\ s.nodes = st.nodes /\ s.prev = st.prev /\ s.rollout = st.rollout
    /\ s.initialized = st.initialized /\ (s.public \/ s.reported => s.initialized)
    /\ s.accepted = st.accepted /\ s.applied = st.applied

GoodFailover(f, primary) ==
    /\ Knows(st, f.source) /\ (f.cand # Nil => Knows(st, f.cand))
    /\ HA /\ st.initialized
    /\ st.rollout # Nil /\ st.rollout.stage \in {"stopping", "template"}
          => st.accepted.size >= st.applied.size
    /\ f.mayBe => f.stage \in {"promoting", "reconfiguring"} /\ f.cand # Nil
    /\ f.stage = "reconfiguring" => f.cand # Nil /\ primary = f.cand

LEMMA FailoverStep ==
    ASSUME OperatorInv, NEW s \in Status, KeepsRest(s),
           s.primary # Nil => Knows(st, s.primary),
           s.failover # Nil => GoodFailover(s.failover, s.primary),
           KeepsCandidate(s)
    PROVE  GoodStatus(s)
<1>1. Entries(s) = Entries(st)
  BY DEF Entries, KeepsRest
<1>2. NamesKnown(s)
  BY <1>1, StInv DEF NamesKnown, KeepsRest, GoodFailover, Knows
<1>3. Orderly(s)
  BY StInv DEF Orderly, KeepsRest, GoodFailover
<1> QED
  BY <1>2, <1>3, SameEntries DEF KeepsRest

LEMMA FailoverInv ==
    ASSUME OperatorInv
    PROVE  /\ st.failover # Nil =>
                st.failover \in FailoverStatus /\ GoodFailover(st.failover, st.primary)
           /\ st.primary # Nil => st.primary \in Procs /\ Knows(st, st.primary)
           /\ st.public \/ st.reported => st.initialized
           /\ ~FullStopOwnsAvailability /\ HA /\ st.rollout # Nil
                 /\ st.rollout.stage \in {"stopping", "template"}
                    => st.accepted.size >= st.applied.size
<1>1. /\ st.failover # Nil =>
            st.failover \in FailoverStatus /\ GoodFailover(st.failover, st.primary)
      /\ st.primary # Nil => st.primary \in Procs /\ Knows(st, st.primary)
      /\ st.public \/ st.reported => st.initialized
  BY StInv DEF Status, NamesKnown, Orderly, GoodFailover
<1>2. ~FullStopOwnsAvailability /\ HA /\ st.rollout # Nil
                 /\ st.rollout.stage \in {"stopping", "template"}
                    => st.accepted.size >= st.applied.size
  BY StInv DEF FullStopOwnsAvailability, RolloutRequiresFullStop, Configuration
<1> QED
  BY <1>1, <1>2

\* A failover starts.
LEMMA FailoverFacts ==
    ASSUME OperatorInv, NEW reason \in {"failure", "resize"}, NEW source \in Procs,
           NEW cand \in Procs \cup {Nil}, Knows(st, source), cand # Nil => Knows(st, cand),
           HA, st.initialized,
           st.rollout # Nil /\ st.rollout.stage \in {"stopping", "template"}
              => st.accepted.size >= st.applied.size,
           NEW e \in BOOLEAN
    PROVE  /\ Failover(reason, source, cand) \in FailoverStatus
           /\ GoodFailover(Failover(reason, source, cand), st.primary)
           /\ [Failover(reason, source, cand) EXCEPT !.empty = e] \in FailoverStatus
           /\ GoodFailover([Failover(reason, source, cand) EXCEPT !.empty = e], st.primary)
<1> DEFINE g == Failover(reason, source, cand)
           f == [Failover(reason, source, cand) EXCEPT !.empty = e]
<1>0. /\ g \in FailoverStatus /\ g.source = source /\ g.cand = cand /\ g.mayBe = FALSE
      /\ g.stage = "fencing"
  BY DEF Failover, FailoverStatus, FailoverStatusOf
<1>1. /\ f \in FailoverStatus /\ f.source = source /\ f.cand = cand /\ f.mayBe = FALSE
      /\ f.stage = "fencing"
  BY DEF Failover, FailoverStatus, FailoverStatusOf
<1> HIDE DEF f, g
<1>2. GoodFailover(f, st.primary) /\ GoodFailover(g, st.primary)
  BY <1>0, <1>1 DEF GoodFailover
<1> QED
  BY <1>0, <1>1, <1>2 DEF f, g

WithFailover(f, e) == [st EXCEPT !.failover = f, !.empty = e]

LEMMA FailoverStatusFacts ==
    ASSUME OperatorInv, NEW f \in FailoverStatus \cup {Nil}, NEW e \in BOOLEAN,
           f # Nil => GoodFailover(f, st.primary)
    PROVE  /\ WithFailover(f, e) \in Status /\ KeepsRest(WithFailover(f, e))
           /\ WithFailover(f, e).primary = st.primary /\ WithFailover(f, e).failover = f
           /\ KeepsCandidate(WithFailover(f, e)) => GoodStatus(WithFailover(f, e))
<1> DEFINE s == WithFailover(f, e)
<1>1. s \in Status /\ s.primary = st.primary /\ s.failover = f
  BY StInv DEF Status, WithFailover
<1>2. KeepsRest(s)
  BY FailoverInv, StInv DEF KeepsRest, Status, WithFailover
<1> HIDE DEF s
<1>3. KeepsCandidate(s) => GoodStatus(s)
  BY <1>1, <1>2, FailoverStep, FailoverInv
<1> QED
  BY <1>1, <1>2, <1>3 DEF s

LEMMA StartsFailureFailoverStep == ASSUME OperatorInv, StartsFailureFailover PROVE Steady
<1>1. PICK n \in FailoverPrimary :
          Saved([st EXCEPT !.failover = Failover("failure", n.p, Nil), !.empty = FALSE])
  BY Zenon DEF StartsFailureFailover
<1>2. HA /\ st.initialized /\ st.failover = Nil /\ ~FullStopOwnsAvailability
  BY DEF StartsFailureFailover
<1>3. n.p \in Procs /\ Knows(st, n.p)
  BY KnownFacts DEF FailoverPrimary
<1> DEFINE source == n.p
           f == Failover("failure", source, Nil)
           s == WithFailover(f, FALSE)
<1>5. Saved(s)
  BY <1>1 DEF WithFailover
<1> HIDE DEF source
<1>6. f \in FailoverStatus /\ GoodFailover(f, st.primary)
  BY <1>2, <1>3, FailoverFacts, FailoverInv DEF source
<1> HIDE DEF f
<1>7. KeepsCandidate(s)
  BY <1>2 DEF KeepsCandidate
<1> HIDE DEF s
<1>8. GoodStatus(s)
  BY <1>6, <1>7, FailoverStatusFacts DEF s
<1> QED
  BY <1>5, <1>8, SavedStep DEF Steady

\* The failover under way changes: what it names it goes on naming, or drops.
LEMMA FailoverGoesOn ==
    ASSUME OperatorInv, st.failover # Nil, NEW f \in FailoverStatus,
           GoodFailover(f, st.primary),
           st.failover.mayBe => st.primary = st.failover.cand
                                \/ proc[st.failover.cand].run = "down"
    PROVE  GoodStatus([st EXCEPT !.failover = f])
<1> DEFINE s == [st EXCEPT !.failover = f]
           e == st.empty
           t == WithFailover(f, e)
<1>1. e \in BOOLEAN
  BY StInv DEF Status
<1>2. s = t
  BY StInv DEF Status, WithFailover
<1> HIDE DEF e
<1>3. t.primary = st.primary /\ (KeepsCandidate(t) => GoodStatus(t))
  BY <1>1, FailoverStatusFacts
<1> HIDE DEF t
<1>4. KeepsCandidate(t)
  BY <1>3 DEF KeepsCandidate
<1> QED
  BY <1>2, <1>3, <1>4

LEMMA FencingStep == ASSUME OperatorInv, ReconcileFailoverFencing PROVE Steady
<1> DEFINE o == st.failover
<1>1. st.failover # Nil /\ o.stage = "fencing" /\ o \in FailoverStatus /\ GoodFailover(o, st.primary)
      /\ ~o.mayBe
  BY FailoverInv DEF ReconcileFailoverFencing, InFailover, GoodFailover, FailoverStatus, FailoverStatusOf
<1> DEFINE f == [o EXCEPT !.srcFenced = TRUE]
           g == [o EXCEPT !.stage = "choosing"]
<1>2. PICK n \in Known(st.failover.source) :
        \/ ~n.term /\ RemovesRoleLabel(n.p)
        \/ /\ ~n.term /\ LabelGone(n.p) /\ ~st.failover.srcFenced
           /\ Fences(n.p, [st EXCEPT !.failover.srcFenced = TRUE])
        \/ /\ n.term \/ (LabelGone(n.p) /\ st.failover.srcFenced)
           /\ Saved([st EXCEPT !.failover.stage = "choosing"])
  BY Zenon DEF ReconcileFailoverFencing
<1>3. n.p \in Procs
  BY KnownFacts
<1>4. \/ RemovesRoleLabel(n.p)
      \/ Fences(n.p, [st EXCEPT !.failover = f])
      \/ Saved([st EXCEPT !.failover = g])
  BY <1>2
<1> HIDE DEF o
<1>5. f \in FailoverStatus /\ g \in FailoverStatus
  BY <1>1 DEF FailoverStatus, FailoverStatusOf
<1>6. GoodFailover(f, st.primary)
  BY <1>1 DEF GoodFailover, FailoverStatus, FailoverStatusOf
<1>7. GoodFailover(g, st.primary)
  BY <1>1 DEF GoodFailover, FailoverStatus, FailoverStatusOf
<1> HIDE DEF f, g
<1>8. GoodStatus([st EXCEPT !.failover = f]) /\ GoodStatus([st EXCEPT !.failover = g])
  BY <1>1, <1>5, <1>6, <1>7, FailoverGoesOn DEF o
<1> QED
  BY <1>3, <1>4, <1>8, RemovesRoleLabelStep, FencesStep, SavedStep DEF Steady

LEMMA ChoosesCandidateStep == ASSUME OperatorInv, ChoosesCandidate PROVE Steady
<1> DEFINE o == st.failover
<1>1. st.failover # Nil /\ o.stage = "choosing" /\ o \in FailoverStatus /\ GoodFailover(o, st.primary)
      /\ ~o.mayBe
  BY FailoverInv DEF ChoosesCandidate, InFailover, GoodFailover, FailoverStatus, FailoverStatusOf
<1>2. PICK n \in Nodes : Saved([st EXCEPT !.failover = [@ EXCEPT !.cand = n.p, !.empty = FALSE,
                                                                !.deadline = TRUE]])
  BY Zenon DEF ChoosesCandidate, Candidates
<1> DEFINE p == n.p
           f == [o EXCEPT !.cand = p, !.empty = FALSE, !.deadline = TRUE]
<1>3. p \in Procs /\ Knows(st, p)
  BY EntriesInv DEF Knows
<1>4. Saved([st EXCEPT !.failover = f])
  BY <1>2
<1> HIDE DEF o, p
<1>5. f \in FailoverStatus
  BY <1>1, <1>3 DEF FailoverStatus, FailoverStatusOf
<1>6. GoodFailover(f, st.primary)
  BY <1>1, <1>3 DEF GoodFailover, FailoverStatus, FailoverStatusOf
<1> HIDE DEF f
<1>7. GoodStatus([st EXCEPT !.failover = f])
  BY <1>1, <1>5, <1>6, FailoverGoesOn DEF o
<1> QED
  BY <1>4, <1>7, SavedStep DEF Steady

LEMMA EmptyRecoveryFacts ==
    ASSUME OperatorInv, st.failover # Nil => ~st.failover.mayBe,
           NEW loss \in {"stopped", "timedout"}
    PROVE  GoodStatus(EmptyRecovery(loss))
<1> DEFINE s == EmptyRecovery(loss)
<1>1. s \in Status /\ s.primary = Nil /\ s.failover = Nil
  BY StInv DEF Status, EmptyRecovery
<1>2. KeepsRest(s)
  BY FailoverInv, StInv DEF KeepsRest, Status, EmptyRecovery
<1> HIDE DEF s
<1>3. KeepsCandidate(s)
  BY DEF KeepsCandidate
<1>4. GoodStatus(s)
  BY <1>1, <1>2, <1>3, FailoverStep
<1> QED
  BY <1>4 DEF s

LEMMA WithoutCandidateStep == ASSUME OperatorInv, WithoutCandidate PROVE Steady
<1> DEFINE o == st.failover
<1>1. st.failover # Nil /\ o.stage = "choosing" /\ o \in FailoverStatus /\ GoodFailover(o, st.primary)
      /\ ~o.mayBe
  BY FailoverInv DEF WithoutCandidate, InFailover, GoodFailover, FailoverStatus, FailoverStatusOf
<1> DEFINE f == [o EXCEPT !.empty = FALSE]
           g == [o EXCEPT !.empty = TRUE]
<1>2. \/ SavedLoss(EmptyRecovery("stopped"))
      \/ SavedLoss(EmptyRecovery("timedout"))
      \/ Saved([st EXCEPT !.failover = f])
      \/ Saved([st EXCEPT !.failover = g])
  BY DEF WithoutCandidate
<1>3. GoodStatus(EmptyRecovery("stopped")) /\ GoodStatus(EmptyRecovery("timedout"))
  BY <1>1, EmptyRecoveryFacts
<1> HIDE DEF o
<1>5. f \in FailoverStatus /\ g \in FailoverStatus
  BY <1>1 DEF FailoverStatus, FailoverStatusOf
<1>6. GoodFailover(f, st.primary) /\ GoodFailover(g, st.primary)
  BY <1>1 DEF GoodFailover, FailoverStatus, FailoverStatusOf
<1> HIDE DEF f, g
<1>7. GoodStatus([st EXCEPT !.failover = f]) /\ GoodStatus([st EXCEPT !.failover = g])
  BY <1>1, <1>5, <1>6, FailoverGoesOn DEF o
<1> QED
  BY <1>2, <1>3, <1>7, SavedStep, SavedLossStep DEF Steady

LEMMA NoCandidateFacts ==
    ASSUME OperatorInv, st.failover # Nil,
           st.failover.mayBe => st.primary = st.failover.cand
                                \/ proc[st.failover.cand].run = "down"
    PROVE  GoodStatus([st EXCEPT !.failover = NoCandidate(@)])
<1> DEFINE o == st.failover
           f == NoCandidate(o)
<1>1. o \in FailoverStatus /\ GoodFailover(o, st.primary)
  BY FailoverInv
<1> HIDE DEF o
<1>2. f \in FailoverStatus /\ f.source = o.source /\ f.cand = Nil /\ f.mayBe = FALSE
      /\ f.stage = "choosing"
  BY <1>1 DEF FailoverStatus, FailoverStatusOf, NoCandidate
<1> HIDE DEF f
<1>3. GoodFailover(f, st.primary)
  BY <1>1, <1>2 DEF GoodFailover
<1>4. GoodStatus([st EXCEPT !.failover = f])
  BY <1>2, <1>3, FailoverGoesOn
<1> QED
  BY <1>4 DEF f, o

LEMMA PreparesCandidateStep == ASSUME OperatorInv, PreparesCandidate PROVE Steady
<1> DEFINE o == st.failover
<1>1. st.failover # Nil /\ o.stage = "choosing" /\ o \in FailoverStatus /\ GoodFailover(o, st.primary)
      /\ ~o.mayBe /\ o.cand # Nil
  BY FailoverInv DEF PreparesCandidate, InFailover, GoodFailover, FailoverStatus, FailoverStatusOf
<1> DEFINE f == [o EXCEPT !.deadline = TRUE]
           g == [o EXCEPT !.candFenced = TRUE]
           h == [o EXCEPT !.stage = "promoting"]
<1>2. \/ Saved([st EXCEPT !.failover = f])
      \/ \E n \in Known(st.failover.cand) :
            \/ Saved([st EXCEPT !.failover = NoCandidate(@)])
            \/ Fences(n.p, [st EXCEPT !.failover = g])
            \/ Saved([st EXCEPT !.failover = h])
  BY DEF PreparesCandidate
<1>3. \A n \in Known(st.failover.cand) : n.p \in Procs
  BY KnownFacts
<1>4. GoodStatus([st EXCEPT !.failover = NoCandidate(@)])
  BY <1>1, NoCandidateFacts
<1> HIDE DEF o
<1>5. f \in FailoverStatus /\ g \in FailoverStatus /\ h \in FailoverStatus
  BY <1>1 DEF FailoverStatus, FailoverStatusOf
<1>6. GoodFailover(f, st.primary) /\ GoodFailover(g, st.primary)
  BY <1>1 DEF GoodFailover, FailoverStatus, FailoverStatusOf
<1>7. GoodFailover(h, st.primary)
  BY <1>1 DEF GoodFailover, FailoverStatus, FailoverStatusOf
<1> HIDE DEF f, g, h
<1>8. GoodStatus([st EXCEPT !.failover = f]) /\ GoodStatus([st EXCEPT !.failover = g])
      /\ GoodStatus([st EXCEPT !.failover = h])
  BY <1>1, <1>5, <1>6, <1>7, FailoverGoesOn DEF o
<1>9. CASE Saved([st EXCEPT !.failover = f])
  BY <1>8, <1>9, SavedStep DEF Steady
<1>10. ASSUME NEW n \in Known(st.failover.cand),
            \/ Saved([st EXCEPT !.failover = NoCandidate(@)])
            \/ Fences(n.p, [st EXCEPT !.failover = g])
            \/ Saved([st EXCEPT !.failover = h])
       PROVE Steady
  <2>1. CASE Saved([st EXCEPT !.failover = NoCandidate(@)])
    BY <1>4, <2>1, SavedStep DEF Steady
  <2>2. CASE Fences(n.p, [st EXCEPT !.failover = g])
    BY <1>3, <1>8, <2>2, FencesStep
  <2>3. CASE Saved([st EXCEPT !.failover = h])
    BY <1>8, <2>3, SavedStep DEF Steady
  <2> QED
    BY <1>10, <2>1, <2>2, <2>3
<1> QED
  BY <1>2, <1>9, <1>10, Zenon

LEMMA PromotingStep == ASSUME OperatorInv, ReconcileFailoverPromoting PROVE Steady
<1> DEFINE o == st.failover
<1>1. st.failover # Nil /\ o.stage = "promoting" /\ o \in FailoverStatus /\ GoodFailover(o, st.primary)
  BY FailoverInv DEF ReconcileFailoverPromoting, InFailover
<1> DEFINE f == [o EXCEPT !.mayBe = TRUE]
           g == [o EXCEPT !.stage = "reconfiguring"]
<1>2. PICK n \in Known(st.failover.cand) :
        IF n.term THEN Saved([st EXCEPT !.failover = NoCandidate(@)])
        ELSE IF n.role = "primary"
        THEN Saved([st EXCEPT !.primary = n.p, !.failover.stage = "reconfiguring"])
        ELSE /\ n.role = "replica" /\ ~n.app /\ PasswordOK(n)
             /\ IF ~st.failover.mayBe THEN Saved([st EXCEPT !.failover.mayBe = TRUE])
                ELSE Promotes(n.p, st)
  BY Zenon DEF ReconcileFailoverPromoting
<1> DEFINE p == n.p
           s == [st EXCEPT !.primary = p, !.failover = g]
<1>3. p \in Procs /\ p = o.cand /\ Knows(st, p) /\ (n.term => proc[p].run = "down")
  BY KnownFacts, EntriesInv DEF Knows
<1>4. \/ n.term /\ Saved([st EXCEPT !.failover = NoCandidate(@)])
      \/ Saved(s)
      \/ ~o.mayBe /\ Saved([st EXCEPT !.failover = f])
      \/ Promotes(p, st)
  BY <1>2
<1>5. n.term => GoodStatus([st EXCEPT !.failover = NoCandidate(@)])
  BY <1>1, <1>3, NoCandidateFacts
<1> HIDE DEF o, p
<1>6. f \in FailoverStatus /\ g \in FailoverStatus
  BY <1>1 DEF FailoverStatus, FailoverStatusOf
<1>7. p # Nil
  BY <1>3, ProcsAreNamed, StInv
<1>8. GoodFailover(f, st.primary)
  BY <1>1, <1>3, <1>7 DEF GoodFailover, FailoverStatus, FailoverStatusOf
<1>9. GoodFailover(g, p)
  BY <1>1, <1>3, <1>7 DEF GoodFailover, FailoverStatus, FailoverStatusOf
<1> HIDE DEF f, g
<1>10. ~o.mayBe => GoodStatus([st EXCEPT !.failover = f])
  BY <1>1, <1>6, <1>8, FailoverGoesOn DEF o
<1>11. s \in Status /\ s.primary = p /\ s.failover = g
  BY <1>3, <1>6, StInv DEF Status
<1>12. KeepsRest(s)
  BY FailoverInv, StInv DEF KeepsRest, Status
<1> HIDE DEF s
<1>13. KeepsCandidate(s)
  BY <1>3, <1>11 DEF KeepsCandidate, o
<1>14. GoodStatus(s)
  BY <1>3, <1>9, <1>11, <1>12, <1>13, FailoverStep
<1> QED
  BY <1>3, <1>4, <1>5, <1>10, <1>14, SavedStep, PromotesStep, StInv DEF Steady

LEMMA ReconfiguringStep == ASSUME OperatorInv, ReconcileFailoverReconfiguring PROVE Steady
<1> DEFINE o == st.failover
<1>1. st.failover # Nil /\ o.stage = "reconfiguring" /\ o \in FailoverStatus
      /\ GoodFailover(o, st.primary) /\ st.primary = o.cand
  BY FailoverInv DEF ReconcileFailoverReconfiguring, InFailover, GoodFailover
<1>2. PICK n \in FailoverPrimary :
        IF Failed(n) THEN Saved([st EXCEPT !.failover = [Failover("failure", n.p, Nil) EXCEPT
                                                            !.empty = st.failover.empty]])
        ELSE ReconfigurationReady /\ Saved(ApplyOperationalPhase([st EXCEPT !.failover = Nil]))
  BY Zenon DEF ReconcileFailoverReconfiguring
<1> DEFINE p == n.p
           e == st.failover.empty
           f == [Failover("failure", p, Nil) EXCEPT !.empty = e]
           s == [st EXCEPT !.failover = Nil]
<1>3. p \in Procs /\ Knows(st, p)
  BY KnownFacts DEF FailoverPrimary
<1>4. Saved([st EXCEPT !.failover = f]) \/ Saved(ApplyOperationalPhase(s))
  BY <1>2
<1>5. e \in BOOLEAN
  BY <1>1 DEF FailoverStatus, FailoverStatusOf
<1>6. s \in Status /\ s.primary = st.primary /\ s.failover = Nil
  BY StInv DEF Status
<1>7. KeepsRest(s)
  BY FailoverInv, StInv DEF KeepsRest, Status
<1> HIDE DEF p, e, s
<1>8. f \in FailoverStatus /\ GoodFailover(f, st.primary)
  BY <1>1, <1>3, <1>5, FailoverFacts DEF GoodFailover
<1> HIDE DEF f
<1>9. GoodStatus([st EXCEPT !.failover = f])
  BY <1>1, <1>8, FailoverGoesOn
<1>10. KeepsCandidate(s)
  BY <1>1, <1>6 DEF KeepsCandidate
<1>11. GoodStatus(s)
  BY <1>6, <1>7, <1>10, FailoverStep, FailoverInv
<1>12. GoodStatus(ApplyOperationalPhase(s))
  BY <1>11, ApplyOperationalPhaseFacts
<1> QED
  BY <1>4, <1>9, <1>12, SavedStep DEF Steady

LEMMA FailoverSteps == ASSUME OperatorInv, ReconcileFailover PROVE Steady
  BY StartsFailureFailoverStep, FencingStep, ChoosesCandidateStep, WithoutCandidateStep,
     PreparesCandidateStep, PromotingStep, ReconfiguringStep DEF ReconcileFailover

-----------------------------------------------------------------------------
(* Rotation of the password                                                 *)

\* Statuses that differ in the fields the invariant does not look at.
LEMMA AlikeStatus ==
    ASSUME OperatorInv, NEW s \in Status, Alike(s, st),
           s.public => st.public \/ st.initialized, s.reported => st.reported \/ st.initialized
    PROVE  GoodStatus(s)
  BY AlikeFacts, FailoverInv, StInv

LEMMA ToStageFacts ==
    ASSUME OperatorInv, st.rotation # Nil,
           NEW stage \in {"replicas", "primary", "cleaning"}
    PROVE  GoodStatus(ToStage(stage))
<1> DEFINE r == st.rotation
           q == [r EXCEPT !.stage = stage]
           s == [st EXCEPT !.rotation = q, !.empty = FALSE]
<1>1. r \in RotationStatus
  BY StInv DEF Status
<1>2. ToStage(stage) = s
  BY DEF ToStage
<1> HIDE DEF r
<1>3. q \in RotationStatus
  BY <1>1 DEF RotationStatus, RotationStatusOf
<1> HIDE DEF q
<1>4. s \in Status /\ Alike(s, st) /\ s.public = st.public /\ s.reported = st.reported
  BY <1>3, StInv DEF Status, Alike
<1> HIDE DEF s
<1> QED
  BY <1>2, <1>4, AlikeStatus

LEMMA RotationSavedStep ==
    ASSUME OperatorInv, st.rotation # Nil, NEW stage \in {"replicas", "primary", "cleaning"},
           Saved(ToStage(stage))
    PROVE  Steady
  BY ToStageFacts, SavedStep DEF Steady

LEMMA RotatesPasswordStep ==
    ASSUME OperatorInv, st.rotation # Nil, NEW primary, RotatesPassword(primary) PROVE Steady
<1> DEFINE rotated(n) ==
        [st EXCEPT !.rotation.confirmed = @ \cup {n.p},
                   !.nodes = [o \in Ordinals |->
                        IF @[o] = n THEN [n EXCEPT !.pw = st.accepted.pw] ELSE @[o]]]
<1>1. PICK n \in Rotatable(primary) :
          \/ Commanded(n.p, RotateCommands, rotated(n))
          \/ GivesUp(n.p, RotateCommands, proc[n.p].app # n.app)
  BY Zenon DEF RotatesPassword
<1>2. n \in Entries(st) /\ n \in NodeStatus /\ n.p \in Procs /\ (n.term => proc[n.p].run = "down")
      /\ n # Nil
  BY EntriesInv DEF Rotatable, Unconfirmed, RotationProcesses
<1>3. RotateCommands \in Seq(Commands)
  <2> DEFINE v == st.accepted.pw
             a == RotateAppPassword(v)
             k == KillAppClients
  <2>1. v \in Nat
    BY StInv
  <2> HIDE DEF v
  <2>2. a \in Commands /\ k \in Commands
    BY <2>1 DEF RotateAppPassword, KillAppClients, Commands
  <2>3. RotateCommands = <<a, k>>
    BY DEF RotateCommands, v
  <2> HIDE DEF a, k
  <2> QED
    BY <2>2, <2>3
<1> DEFINE r == st.rotation
           pw == st.accepted.pw
           m == [n EXCEPT !.pw = pw]
           p == n.p
           confirmed == r.confirmed \cup {p}
           q == [r EXCEPT !.confirmed = confirmed]
           nodes == [o \in Ordinals |-> IF st.nodes[o] = n THEN m ELSE st.nodes[o]]
           s == [st EXCEPT !.rotation = q, !.nodes = nodes]
<1>4. r \in RotationStatus /\ pw \in Nat
  BY StInv DEF Status
<1>5. rotated(n) = s
  BY Zenon
<1>6. m \in NodeStatus /\ m.p = n.p /\ m.term = n.term
  BY <1>2, <1>4 DEF NodeStatus, NodeStatusOf
<1> HIDE DEF r, pw, m
<1>7. q \in RotationStatus
  <2>1. confirmed \in SUBSET Procs
    BY <1>2, <1>4 DEF RotationStatus, RotationStatusOf
  <2> HIDE DEF confirmed
  <2> QED
    BY <1>4, <2>1 DEF RotationStatus, RotationStatusOf
<1>8. m # Nil
  BY <1>6, StInv, EntryFacts, ProcsAreNamed, StatusAssumption DEF NodeStatus, NodeStatusOf
<1>9. /\ nodes \in [Ordinals -> NodeStatus \cup {Nil}]
      /\ \A o \in Ordinals : nodes[o] = IF st.nodes[o] = n THEN m ELSE st.nodes[o]
  BY <1>6, StInv
<1> HIDE DEF q, nodes, rotated
<1>10. /\ s \in Status /\ s.nodes = nodes /\ s.prev = st.prev
  BY <1>7, <1>9, StInv DEF Status
<1>11. SameOperations(s)
  BY FailoverInv, StInv DEF SameOperations, Status
<1> HIDE DEF s
<1>12. Renewed(s)
  BY <1>2, <1>6, <1>8, <1>9, <1>10, EntriesInv DEF Renewed
<1>13. GoodStatus(s)
  BY <1>10, <1>11, <1>12, RenewedStatus
<1>14. Commanded(n.p, RotateCommands, s) \/ \E answered : GivesUp(n.p, RotateCommands, answered)
  BY <1>1, <1>5
<1> QED
  BY <1>2, <1>3, <1>13, <1>14, CommandedStep, GivesUpStep DEF Steady

LEMMA CleansSecretStep == ASSUME OperatorInv, CleansSecret PROVE Steady
<1> DEFINE hashes == cr.hashes \ {st.rotation.old}
<1>1. cr' = [cr EXCEPT !.hashes = hashes] /\ UNCHANGED <<machine, st>> /\ op' \in Memory
  BY NextPassFacts DEF CleansSecret
<1>2. hashes \in SUBSET Nat
  BY StInv DEF Resource
<1> HIDE DEF hashes
<1>3. ResourceGoesOn
  BY <1>1, <1>2, StInv DEF Resource, ResourceGoesOn, OperatorInv, FenceSound
<1> QED
  BY <1>1, <1>3, ResourceStep

LEMMA FinishesRotationStep == ASSUME OperatorInv, FinishesRotation PROVE Steady
<1> DEFINE pw == st.accepted.pw
           a == st.applied
           applied == [a EXCEPT !.pw = pw]
           s == [st EXCEPT !.applied = applied, !.rotation = Nil]
<1>1. Saved(ApplyOperationalPhase(s))
  BY DEF FinishesRotation
<1>2. a \in Configuration /\ pw \in Nat
  BY StInv
<1> HIDE DEF a, pw
<1>3. applied \in Configuration /\ applied.size = a.size
  BY <1>2 DEF Configuration
<1> HIDE DEF applied
<1>4. s \in Status /\ Alike(s, st) /\ s.public = st.public /\ s.reported = st.reported
  BY <1>3, StInv DEF Status, Alike, a
<1> HIDE DEF s
<1>5. GoodStatus(ApplyOperationalPhase(s))
  BY <1>4, AlikeStatus, ApplyOperationalPhaseFacts
<1> QED
  BY <1>1, <1>5, SavedStep DEF Steady

LEMMA RotationSteps == ASSUME OperatorInv, ReconcileCredentialRotation PROVE Steady
<1>1. st.rotation # Nil
  BY DEF ReconcileCredentialRotation, PreparesRotation, RotatesReplicas, RotatesPrimary,
         CleansSecret, FinishesRotation, InRotation, RotationDue
<1>2. CASE PreparesRotation
  BY <1>1, <1>2, RotationSavedStep DEF PreparesRotation
<1>3. CASE RotatesReplicas
  <2>1. RotatesPassword(FALSE) \/ Saved(ToStage("primary"))
    BY <1>3 DEF RotatesReplicas
  <2> QED
    BY <1>1, <2>1, RotatesPasswordStep, RotationSavedStep
<1>4. CASE RotatesPrimary
  <2>1. RotatesPassword(TRUE) \/ Saved(ToStage("replicas")) \/ Saved(ToStage("cleaning"))
    BY <1>4 DEF RotatesPrimary
  <2> QED
    BY <1>1, <2>1, RotatesPasswordStep, RotationSavedStep
<1> QED
  BY <1>2, <1>3, <1>4, CleansSecretStep, FinishesRotationStep DEF ReconcileCredentialRotation

-----------------------------------------------------------------------------
(* Resize                                                                   *)

LEMMA SetsPodMetadataStep == ASSUME OperatorInv, SetsPodMetadata PROVE Steady
<1>1. PICK o \in Ordinals : pod' = [pod EXCEPT ![o].label = RoleLabel(o)]
  BY Zenon DEF SetsPodMetadata
<1>2. UNCHANGED <<proc, data, scene, st, cr>> /\ op' \in Memory
  BY NextPassFacts DEF SetsPodMetadata
<1> DEFINE label == RoleLabel(o)
<1>3. label \in {"none", "primary", "replica"}
  BY DEF RoleLabel
<1>4. pod' = [pod EXCEPT ![o].label = label]
  BY <1>1
<1> HIDE DEF label
<1>5. pod' \in [Ordinals -> Pod] /\ PodsStay
  BY <1>3, <1>4, LabelledPod
<1> QED
  BY <1>2, <1>5, PodStep, StInv DEF Steady

LEMMA RolloutInv ==
    ASSUME OperatorInv, st.rollout # Nil
    PROVE  /\ st.rollout \in RolloutStatus /\ st.initialized
           /\ st.rollout.p # Nil => Knows(st, st.rollout.p)
           /\ st.rollout.stage \in {"replicas", "switching", "primary"} => HA
  BY StInv DEF Status, NamesKnown, Orderly

\* The rollout changes while there is no failover.
LEMMA RolloutStep ==
    ASSUME OperatorInv, st.failover = Nil, NEW s \in Status,
           s.nodes = st.nodes, s.prev = st.prev, s.failover = Nil,
           s.primary \in {st.primary, Nil}, s.initialized = st.initialized,
           s.public \/ s.reported => s.initialized,
           s.rollout # Nil =>
              /\ st.initialized /\ (s.rollout.p # Nil => Knows(st, s.rollout.p))
              /\ s.rollout.stage \in {"replicas", "switching", "primary"} => HA
    PROVE  GoodStatus(s)
<1>1. Entries(s) = Entries(st)
  BY DEF Entries
<1>2. NamesKnown(s)
  BY <1>1, StInv DEF NamesKnown, Knows
<1>3. Orderly(s) /\ KeepsCandidate(s)
  BY DEF Orderly, KeepsCandidate
<1> QED
  BY <1>2, <1>3, SameEntries

\* The statuses that steps of a rollout save.
Rolled(s, r) ==
    \/ s = [st EXCEPT !.rollout = r]
    \/ s = [st EXCEPT !.rollout = r, !.empty = FALSE]
    \/ s = [st EXCEPT !.rollout = r, !.primary = Nil, !.public = FALSE, !.loss = "resize"]

LEMMA RolloutFieldStep ==
    ASSUME OperatorInv, st.failover = Nil, st.rollout # Nil, NEW r \in RolloutStatus,
           r.p # Nil => Knows(st, r.p),
           r.stage \in {"replicas", "switching", "primary"} => HA,
           NEW s, Rolled(s, r)
    PROVE  GoodStatus(s)
<1>1. s \in Status /\ s.nodes = st.nodes /\ s.prev = st.prev /\ s.failover = st.failover
      /\ s.primary \in {st.primary, Nil} /\ s.initialized = st.initialized /\ s.rollout = r
      /\ (s.public => st.public) /\ s.reported = st.reported
  <2>1. CASE s = [st EXCEPT !.rollout = r]
    BY <2>1, StInv DEF Status
  <2>2. CASE s = [st EXCEPT !.rollout = r, !.empty = FALSE]
    BY <2>2, StInv DEF Status
  <2>3. CASE s = [st EXCEPT !.rollout = r, !.primary = Nil, !.public = FALSE, !.loss = "resize"]
    <3> DEFINE t == [st EXCEPT !.rollout = r, !.primary = Nil]
    <3>1. /\ t \in Status /\ t.nodes = st.nodes /\ t.prev = st.prev /\ t.failover = st.failover
          /\ t.primary = Nil /\ t.initialized = st.initialized /\ t.rollout = r
          /\ t.reported = st.reported
      BY StInv DEF Status
    <3>2. s = [t EXCEPT !.public = FALSE, !.loss = "resize"]
      BY <2>3
    <3> HIDE DEF t
    <3> QED
      BY <3>1, <3>2 DEF Status
  <2> QED
    BY <2>1, <2>2, <2>3 DEF Rolled
<1> QED
  BY <1>1, RolloutInv, FailoverInv, RolloutStep

LEMMA AdvanceFacts ==
    ASSUME OperatorInv, st.failover = Nil, st.rollout # Nil,
           NEW stage \in {"stopping", "template", "starting", "replicas", "switching", "primary",
                          "verifying"},
           stage \in {"replicas", "switching", "primary"} => HA
    PROVE  GoodStatus(Advance(stage))
<1> DEFINE q == st.rollout
           r == [q EXCEPT !.stage = stage, !.p = Nil]
<1>1. q \in RolloutStatus
  BY RolloutInv
<1>2. Advance(stage) = [st EXCEPT !.rollout = r, !.empty = FALSE]
  BY DEF Advance
<1> HIDE DEF q
<1>3. r \in RolloutStatus /\ r.stage = stage /\ r.p = Nil
  BY <1>1 DEF RolloutStatus, RolloutStatusOf
<1> HIDE DEF r
<1> QED
  <2>1. Rolled(Advance(stage), r)
    BY <1>2 DEF Rolled
  <2> QED
    BY <1>3, <2>1, RolloutFieldStep

LEMMA PreparesRolloutStep == ASSUME OperatorInv, PreparesRollout PROVE Steady
<1>1. st.failover = Nil /\ st.rollout # Nil
  BY DEF PreparesRollout, InRollout
<1>2. Saved(Advance("stopping")) \/ Saved(Advance("template"))
  BY DEF PreparesRollout
<1> QED
  BY <1>1, <1>2, AdvanceFacts, SavedStep DEF Steady

LEMMA ClosesProcessesStep == ASSUME OperatorInv, ClosesProcesses PROVE Steady
<1>1. st.failover = Nil /\ st.rollout # Nil /\ st.rollout.stage = "stopping"
  BY DEF ClosesProcesses, InRollout
<1> DEFINE q == st.rollout
           r == [q EXCEPT !.closed = TRUE]
<1>2. \/ Saved([st EXCEPT !.rollout = r])
      \/ \E n \in Unclosed : \/ RemovesRoleLabel(n.p)
                            \/ Commanded(n.p, AppAccess(n.p, FALSE), st)
                            \/ GivesUp(n.p, AppAccess(n.p, FALSE), FALSE)
  BY DEF ClosesProcesses
<1>3. q \in RolloutStatus /\ (q.p # Nil => Knows(st, q.p)) /\ q.stage = "stopping"
  BY <1>1, RolloutInv
<1> HIDE DEF q
<1>4. r \in RolloutStatus /\ r.stage = q.stage /\ r.p = q.p
  BY <1>3 DEF RolloutStatus, RolloutStatusOf
<1> HIDE DEF r
<1>5. GoodStatus([st EXCEPT !.rollout = r])
  <2>1. Rolled([st EXCEPT !.rollout = r], r)
    BY DEF Rolled
  <2> QED
    BY <1>1, <1>3, <1>4, <2>1, RolloutFieldStep
<1>6. \A n \in Unclosed : n.p \in Procs
  BY EntriesInv DEF Unclosed, Live
<1>7. CASE Saved([st EXCEPT !.rollout = r])
  BY <1>5, <1>7, SavedStep DEF Steady
<1>8. CASE \E n \in Unclosed : \/ RemovesRoleLabel(n.p)
                               \/ Commanded(n.p, AppAccess(n.p, FALSE), st)
                               \/ GivesUp(n.p, AppAccess(n.p, FALSE), FALSE)
  BY <1>6, <1>8, AppAccessFacts, CommandedStep, GivesUpStep, RemovesRoleLabelStep, StInv DEF Steady
<1> QED
  BY <1>2, <1>7, <1>8

LEMMA StopsProcessesStep == ASSUME OperatorInv, StopsProcesses PROVE Steady
<1>1. st.failover = Nil /\ st.rollout # Nil /\ st.rollout.stage = "stopping"
  BY DEF StopsProcesses, InRollout
<1> DEFINE q == st.rollout
           r == [q EXCEPT !.stage = "template"]
           s == [st EXCEPT !.rollout = r, !.primary = Nil, !.public = FALSE, !.loss = "resize"]
<1>2. SavedLoss(s)
  BY DEF StopsProcesses
<1>3. q \in RolloutStatus /\ (q.p # Nil => Knows(st, q.p))
  BY <1>1, RolloutInv
<1> HIDE DEF q
<1>4. r \in RolloutStatus /\ r.stage = "template" /\ r.p = q.p
  BY <1>3 DEF RolloutStatus, RolloutStatusOf
<1> HIDE DEF r
<1>5. GoodStatus(s)
  <2>1. Rolled(s, r)
    BY DEF Rolled
  <2> QED
    BY <1>1, <1>3, <1>4, <2>1, RolloutFieldStep
<1> QED
  BY <1>2, <1>5, SavedLossStep DEF Steady

LEMMA UpdatesTemplateStep == ASSUME OperatorInv, UpdatesTemplate PROVE Steady
<1>1. st.failover = Nil /\ st.rollout # Nil
  BY DEF UpdatesTemplate, InRollout
<1>2. Saved(Advance("starting")) \/ (HA /\ Saved(Advance("replicas")))
  BY <1>1 DEF UpdatesTemplate, RolloutRequiresFullStop
<1> QED
  BY <1>1, <1>2, AdvanceFacts, SavedStep DEF Steady

LEMMA RolloutProcessFacts ==
    ASSUME OperatorInv, st.failover = Nil, st.rollout # Nil,
           NEW p \in Procs \cup {Nil}, p # Nil => Knows(st, p)
    PROVE  GoodStatus([st EXCEPT !.rollout.p = p])
<1> DEFINE q == st.rollout
           r == [q EXCEPT !.p = p]
<1>1. q \in RolloutStatus /\ (q.stage \in {"replicas", "switching", "primary"} => HA)
  BY RolloutInv
<1> HIDE DEF q
<1>2. r \in RolloutStatus /\ r.stage = q.stage /\ r.p = p
  BY <1>1 DEF RolloutStatus, RolloutStatusOf
<1> HIDE DEF r
<1>3. GoodStatus([st EXCEPT !.rollout = r])
  <2>1. Rolled([st EXCEPT !.rollout = r], r)
    BY DEF Rolled
  <2> QED
    BY <1>1, <1>2, <2>1, RolloutFieldStep
<1> QED
  BY <1>3 DEF r, q

LEMMA DeletesPodStep ==
    ASSUME OperatorInv, NEW o, pod' = [pod EXCEPT ![o].deleting = TRUE],
           UNCHANGED <<proc, data, scene, st, cr>>, op' \in Memory
    PROVE  Steady
<1>1. pod' \in [Ordinals -> Pod] /\ PodsStay
  BY FlaggedPod
<1> QED
  BY <1>1, PodStep, StInv DEF Steady

LEMMA ReplacesStep ==
    ASSUME OperatorInv, st.failover = Nil, st.rollout # Nil, NEW old \in Known(st.rollout.p),
           Replaces(old)
    PROVE  Steady
<1>1. old.p \in Procs
  BY KnownFacts
<1> DEFINE p == old.p
<1>2. \/ RemovesRoleLabel(p)
      \/ Fences(p, st)
      \/ pod' = [pod EXCEPT ![p[1]].deleting = TRUE] /\ UNCHANGED <<proc, data, scene, st, cr>>
         /\ NextPass
      \/ Saved([st EXCEPT !.rollout.p = Nil])
  BY DEF Replaces
<1> HIDE DEF p
<1>3. GoodStatus([st EXCEPT !.rollout.p = Nil])
  BY RolloutProcessFacts
<1>4. CASE RemovesRoleLabel(p)
  BY <1>4, RemovesRoleLabelStep
<1>5. CASE Fences(p, st)
  BY <1>1, <1>5, FencesStep, StInv DEF p
<1>6. CASE pod' = [pod EXCEPT ![p[1]].deleting = TRUE] /\ UNCHANGED <<proc, data, scene, st, cr>>
           /\ NextPass
  BY <1>6, DeletesPodStep, NextPassFacts
<1>7. CASE Saved([st EXCEPT !.rollout.p = Nil])
  BY <1>3, <1>7, SavedStep DEF Steady
<1> QED
  BY <1>2, <1>4, <1>5, <1>6, <1>7

LEMMA RollingReplacementStep ==
    ASSUME OperatorInv, NEW stage \in {"replicas", "primary"}, NEW next \in {"switching", "verifying"},
           RollingReplacement(stage, next)
    PROVE  Steady
<1>1. st.failover = Nil /\ st.rollout # Nil /\ HA
  BY RolloutInv DEF RollingReplacement, InRollout
<1>2. \/ \E old \in Known(st.rollout.p) : Replaces(old)
      \/ Saved(Advance(next))
      \/ \E n \in NextToReplace : Saved([st EXCEPT !.rollout.p = n.p])
  BY DEF RollingReplacement
<1>3. CASE \E old \in Known(st.rollout.p) : Replaces(old)
  BY <1>1, <1>3, ReplacesStep
<1>4. CASE Saved(Advance(next))
  BY <1>1, <1>4, AdvanceFacts, SavedStep DEF Steady
<1>5. CASE \E n \in NextToReplace : Saved([st EXCEPT !.rollout.p = n.p])
  <2>1. PICK n \in NextToReplace : Saved([st EXCEPT !.rollout.p = n.p])
    BY <1>5, Zenon
  <2> DEFINE p == n.p
  <2>2. p \in Procs /\ Knows(st, p)
    BY EntriesInv DEF NextToReplace, NotReplaced, OthersThanPrimary, Knows
  <2>3. Saved([st EXCEPT !.rollout.p = p])
    BY <2>1
  <2> HIDE DEF p
  <2>4. GoodStatus([st EXCEPT !.rollout.p = p])
    BY <1>1, <2>2, RolloutProcessFacts
  <2> QED
    BY <2>3, <2>4, SavedStep DEF Steady
<1> QED
  BY <1>2, <1>3, <1>4, <1>5

LEMMA SwitchesPrimaryStep == ASSUME OperatorInv, SwitchesPrimary PROVE Steady
<1> DEFINE primary == st.nodes[st.primary[1]]
<1>1. /\ st.failover = Nil /\ st.rollout # Nil /\ st.rollout.stage = "switching"
      /\ st.primary # Nil /\ primary # Nil
  BY Zenon DEF SwitchesPrimary, InRollout
<1>2. HA /\ st.initialized
  BY <1>1, RolloutInv
<1>3. CASE RolloutPodMatches(primary)
  <2>1. Saved(Advance("primary"))
    BY <1>3, Zenon DEF SwitchesPrimary
  <2> QED
    BY <1>1, <1>2, <2>1, AdvanceFacts, SavedStep DEF Steady
<1>4. CASE ~RolloutPodMatches(primary)
  <2>0. PICK n \in Candidates(primary, {m \in Nodes : RolloutProcessReady(m)}) :
            Saved([st EXCEPT !.failover = Failover("resize", primary.p, n.p), !.empty = FALSE])
    BY <1>4, Zenon DEF SwitchesPrimary
  <2> DEFINE source == primary.p
             cand == n.p
             f == Failover("resize", source, cand)
             s == WithFailover(f, FALSE)
  <2>1. source \in Procs /\ Knows(st, source)
    BY <1>1, FailoverInv, EntriesInv, ProcsAreNamed, StInv DEF Knows
  <2>2. cand \in Procs /\ Knows(st, cand)
    BY EntriesInv DEF Candidates, Knows
  <2>3. Saved(s)
    BY <2>0 DEF WithFailover
  <2> HIDE DEF source, cand, primary
  <2>4. f \in FailoverStatus /\ GoodFailover(f, st.primary)
    BY <1>1, <1>2, <2>1, <2>2, FailoverFacts
  <2> HIDE DEF f
  <2>5. KeepsCandidate(s)
    BY <1>1 DEF KeepsCandidate
  <2> HIDE DEF s
  <2>6. GoodStatus(s)
    BY <2>4, <2>5, FailoverStatusFacts DEF s
  <2> QED
    BY <2>3, <2>6, SavedStep DEF Steady
<1> QED
  BY <1>3, <1>4

LEMMA StartsRolloutStep == ASSUME OperatorInv, StartsRollout PROVE Steady
<1>1. st.failover = Nil /\ st.rollout # Nil /\ Saved(Advance("verifying"))
  BY DEF StartsRollout, InRollout
<1> QED
  BY <1>1, AdvanceFacts, SavedStep DEF Steady

LEMMA VerifiesRolloutStep == ASSUME OperatorInv, VerifiesRollout PROVE Steady
<1> DEFINE size == st.accepted.size
           a == st.applied
           applied == [a EXCEPT !.size = size]
           s == [st EXCEPT !.applied = applied, !.rollout = Nil]
<1>1. st.failover = Nil /\ (SetsPodMetadata \/ Saved(ApplyOperationalPhase(s)))
  BY DEF VerifiesRollout, InRollout
<1>2. a \in Configuration /\ size \in Nat
  BY StInv
<1> HIDE DEF a, size
<1>3. applied \in Configuration
  BY <1>2 DEF Configuration
<1> HIDE DEF applied
<1>4. s \in Status /\ s.nodes = st.nodes /\ s.prev = st.prev /\ s.failover = st.failover
      /\ s.primary = st.primary /\ s.initialized = st.initialized /\ s.rollout = Nil
      /\ s.public = st.public /\ s.reported = st.reported
  BY <1>3, StInv DEF Status
<1> HIDE DEF s
<1>5. GoodStatus(ApplyOperationalPhase(s))
  BY <1>1, <1>4, FailoverInv, RolloutStep, ApplyOperationalPhaseFacts
<1> QED
  BY <1>1, <1>5, SetsPodMetadataStep, SavedStep DEF Steady

LEMMA RolloutSteps == ASSUME OperatorInv, ReconcileRollout PROVE Steady
<1>1. RollingReplacement("replicas", "switching") => Steady
  BY RollingReplacementStep
<1>2. RollingReplacement("primary", "verifying") => Steady
  BY RollingReplacementStep
<1> QED
  BY <1>1, <1>2, PreparesRolloutStep, ClosesProcessesStep, StopsProcessesStep, UpdatesTemplateStep,
     SwitchesPrimaryStep, StartsRolloutStep, VerifiesRolloutStep DEF ReconcileRollout

-----------------------------------------------------------------------------
(* Topology and admission                                                   *)

LEMMA AssignsInitialPrimaryStep == ASSUME OperatorInv, AssignsInitialPrimary PROVE Steady
<1> DEFINE n == st.nodes[0]
           p == n.p
           s == [st EXCEPT !.primary = p]
<1>1. n # Nil /\ AfterRollout /\ HA
      /\ IF st.primary # n.p
         THEN /\ st.primary # Nil => InitialPrimaryReplacementSafe
              /\ Saved([st EXCEPT !.primary = n.p])
         ELSE n.role = "replica" /\ Promotes(n.p, st)
  BY DEF AssignsInitialPrimary
<1>2. p \in Procs /\ Knows(st, p)
  BY <1>1, EntriesInv, ProcsAreNamed, StInv DEF Knows
<1>3. CASE st.primary # p
  <2>1. Saved(s) /\ (st.primary # Nil => InitialPrimaryReplacementSafe)
    BY <1>1, <1>3
  <2>2. st.failover = Nil
    <3> SUFFICES ASSUME st.failover # Nil PROVE FALSE
      OBVIOUS
    <3>1. ~FailoverDue
      BY <1>1 DEF AfterRollout, AfterRotation, AfterFailover
    <3>2. GoodFailover(st.failover, st.primary)
      BY FailoverInv
    <3>3. /\ st.failover.stage = "reconfiguring"
          /\ \A m \in FailoverPrimary : ~Failed(m)
      BY <3>1, <3>2 DEF FailoverDue, GoodFailover
    <3>4. st.primary # Nil
      BY <3>2, <3>3 DEF GoodFailover
    <3>5. PICK q \in st.prev : q.p = st.primary /\ q.term
      BY <2>1, <3>4 DEF InitialPrimaryReplacementSafe
    <3> QED
      BY <3>3, <3>5 DEF FailoverPrimary, Known, Failed
  <2> HIDE DEF n, p
  <2>3. s \in Status /\ s.primary = p /\ s.failover = Nil
    BY <1>2, <2>2, StInv DEF Status
  <2>4. KeepsRest(s)
    BY FailoverInv, StInv DEF KeepsRest, Status
  <2> HIDE DEF s
  <2>5. KeepsCandidate(s)
    BY <2>2 DEF KeepsCandidate
  <2>6. GoodStatus(s)
    BY <1>2, <2>3, <2>4, <2>5, FailoverStep
  <2> QED
    BY <2>1, <2>6, SavedStep DEF Steady
<1>4. CASE st.primary = p
  BY <1>1, <1>2, <1>4, PromotesStep, StInv
<1> QED
  BY <1>3, <1>4

LEMMA FollowsPrimaryStep == ASSUME OperatorInv, FollowsPrimary PROVE Steady
<1>1. st.primary \in Procs
  <2>1. PICK n \in PrimaryNode : TRUE
    BY DEF FollowsPrimary, FollowablePrimary
  <2> QED
    BY <2>1, EntriesInv DEF PrimaryNode
<1>2. PICK n \in Misdirected :
          Commanded(n.p, FollowCommands(n.p), st) \/ BrokenOff(n.p, FollowCommands(n.p))
  BY DEF FollowsPrimary
<1>3. n.p \in Procs
  BY EntriesInv DEF Misdirected, Live
<1>4. FollowCommands(n.p) \in Seq(Commands)
  <2> DEFINE q == st.primary
             c == Follow(q)
  <2>1. q \in Procs
    BY <1>1
  <2>2. FollowCommands(n.p) = <<>> \/ FollowCommands(n.p) = <<c>>
    BY DEF FollowCommands
  <2> HIDE DEF q
  <2>3. c \in Commands
    BY <2>1 DEF Follow, Commands
  <2> HIDE DEF c
  <2> QED
    BY <2>2, <2>3, OneCommand
<1> QED
  BY <1>2, <1>3, <1>4, StInv, CommandedStep, BrokenOffStep DEF Steady

LEMMA AdmittedNodeFacts ==
    ASSUME OperatorInv, NEW n \in Nodes
    PROVE  LET s == AdmittedNode(st, n.p)
           IN  /\ GoodStatus(s) /\ s \in Status /\ s.prev = st.prev /\ SameOperations(s)
               /\ s.public = st.public /\ s.reported = st.reported
               /\ s.accepted = st.accepted /\ s.applied = st.applied
<1> DEFINE o == n.p[1]
           pw == st.accepted.pw
           m == [n EXCEPT !.app = TRUE, !.pw = pw]
           s == [st EXCEPT !.nodes[o] = m]
<1>1. /\ o \in Ordinals /\ st.nodes[o] = n /\ n # Nil /\ n \in NodeStatus /\ pw \in Nat
      /\ n.term => proc[n.p].run = "down"
  BY EntriesInv, StInv
<1>2. AdmittedNode(st, n.p) = s
  BY <1>1, Zenon DEF AdmittedNode
<1> HIDE DEF o, pw
<1>3. m \in NodeStatus /\ m.p = n.p /\ m.term = n.term
  BY <1>1 DEF NodeStatus, NodeStatusOf
<1> HIDE DEF m
<1>4. GoodStatus(s) /\ s \in Status /\ s.prev = st.prev /\ SameOperations(s)
  BY <1>1, <1>3, EntryStatus
<1>5. /\ s.public = st.public /\ s.reported = st.reported
      /\ s.accepted = st.accepted /\ s.applied = st.applied
  BY StInv DEF Status
<1> QED
  BY <1>2, <1>4, <1>5

LEMMA AccessStep ==
    ASSUME OperatorInv, NEW p \in Procs, NEW s, GoodStatus(s),
           Commanded(p, AppAccess(p, TRUE), s) \/ BrokenOff(p, AppAccess(p, TRUE))
    PROVE  Steady
<1>1. AppAccess(p, TRUE) \in Seq(Commands)
  BY AppAccessFacts
<1> QED
  BY <1>1, CommandedStep, BrokenOffStep DEF Steady

LEMMA AdmitsReplicaStep == ASSUME OperatorInv, AdmitsReplica PROVE Steady
<1>1. PICK n \in AdmissibleReplicas :
        \E good \in BOOLEAN :
           \/ Commanded(n.p, AppAccess(n.p, TRUE),
                        IF good THEN ApplyOperationalPhase(AdmittedNode(st, n.p)) ELSE st)
           \/ BrokenOff(n.p, AppAccess(n.p, TRUE))
  BY Zenon DEF AdmitsReplica
<1>2. n \in Nodes
  BY DEF AdmissibleReplicas, Live
<1>3. n.p \in Procs
  BY <1>2, EntriesInv
<1>4. GoodStatus(ApplyOperationalPhase(AdmittedNode(st, n.p)))
  BY <1>2, AdmittedNodeFacts, ApplyOperationalPhaseFacts
<1>5. \/ Commanded(n.p, AppAccess(n.p, TRUE), ApplyOperationalPhase(AdmittedNode(st, n.p)))
      \/ Commanded(n.p, AppAccess(n.p, TRUE), st)
      \/ BrokenOff(n.p, AppAccess(n.p, TRUE))
  BY <1>1
<1> QED
  BY <1>3, <1>4, <1>5, StInv, AccessStep

LEMMA PendingFacts == ASSUME OperatorInv PROVE GoodStatus(Pending)
<1> DEFINE e == st.empty /\ ~st.initialized
           s == [st EXCEPT !.public = FALSE, !.empty = e]
<1>1. e \in BOOLEAN
  BY Zenon
<1>2. Pending = s
  BY DEF Pending
<1> HIDE DEF e
<1>3. s \in Status /\ Alike(s, st) /\ s.public = FALSE /\ s.reported = st.reported
  BY <1>1, StInv DEF Status, Alike
<1> HIDE DEF s
<1> QED
  BY <1>2, <1>3, AlikeStatus

LEMMA AdmittedFacts ==
    ASSUME OperatorInv, NEW n \in AdmissionProcess PROVE GoodStatus(Admitted(n.p))
<1>1. /\ n \in Nodes /\ n.p \in Procs /\ Knows(st, n.p)
      /\ HA => st.primary = n.p
      /\ st.primary # Nil => st.primary = n.p
  <2>1. n \in Nodes /\ (HA => st.primary # Nil) /\ IsPrimary(n.p)
    BY DEF AdmissionProcess, Live
  <2>2. st.primary = n.p \/ (~HA /\ st.primary = Nil)
    BY <2>1 DEF IsPrimary
  <2> QED
    BY <2>1, <2>2, EntriesInv DEF Knows
<1> DEFINE p == n.p
           t == AdmittedNode(st, n.p)
           applied == IF st.initialized THEN t.applied ELSE st.accepted
           u == [t EXCEPT !.initialized = TRUE, !.primary = p]
           s == [u EXCEPT !.public = TRUE, !.applied = applied]
<1>2. Admitted(n.p) = ApplyOperationalPhase(s)
  BY DEF Admitted
<1>3. /\ GoodStatus(t) /\ t \in Status /\ t.prev = st.prev /\ SameOperations(t)
      /\ t.accepted = st.accepted /\ t.applied = st.applied
  BY <1>1, AdmittedNodeFacts
<1> HIDE DEF t
<1>4. /\ applied \in Configuration
      /\ st.initialized => applied = st.applied
  BY <1>3, StInv
<1> HIDE DEF applied
<1>5. u \in Status /\ u.initialized /\ u.primary = p /\ u.nodes = t.nodes /\ u.prev = t.prev
      /\ u.failover = t.failover /\ u.rollout = t.rollout /\ u.accepted = t.accepted
  BY <1>1, <1>3 DEF Status
<1> HIDE DEF u
<1>6. s \in Status /\ s.initialized /\ s.primary = p /\ s.nodes = t.nodes /\ s.prev = t.prev
      /\ s.failover = t.failover /\ s.rollout = t.rollout /\ s.accepted = t.accepted
      /\ s.applied = applied
  BY <1>4, <1>5 DEF Status
<1> HIDE DEF s
<1>7. Entries(s) = Entries(t)
  BY <1>6 DEF Entries
<1>8. \A q : Knows(s, q) <=> Knows(t, q)
  BY <1>7 DEF Knows
<1>9. Keyed(s) /\ Faithful(s)
  BY <1>3, <1>6, <1>7 DEF GoodStatus, StatusOK, Keyed, Faithful
<1>10. NamesKnown(s)
  <2>1. \A q \in Procs : Knows(st, q) /\ q = p => Knows(t, q)
    <3>1. Renewed(t)
      <4> DEFINE o == n.p[1]
                 pw == st.accepted.pw
                 m == [n EXCEPT !.app = TRUE, !.pw = pw]
      <4>1. /\ o \in Ordinals /\ st.nodes[o] = n /\ n # Nil /\ n \in NodeStatus /\ pw \in Nat
            /\ n.term => proc[n.p].run = "down"
        BY <1>1, EntriesInv, StInv
      <4>2. t = [st EXCEPT !.nodes[o] = m]
        BY <4>1, Zenon DEF AdmittedNode, t
      <4> HIDE DEF o, pw
      <4>3. m \in NodeStatus /\ m.p = n.p /\ m.term = n.term
        BY <4>1 DEF NodeStatus, NodeStatusOf
      <4> HIDE DEF m
      <4>4. t.nodes = [st.nodes EXCEPT ![o] = m]
        BY <4>1, <4>2, <4>3, EntryStatus
      <4> QED
        BY <1>3, <4>1, <4>3, <4>4, RewrittenEntry
    <3> QED
      BY <3>1, RenewedFacts
  <2>2. Knows(t, p)
    BY <1>1, <2>1
  <2> QED
    BY <1>3, <1>6, <1>8, <2>2 DEF NamesKnown, GoodStatus, StatusOK
<1>11. st.failover # Nil => HA /\ st.initialized
  BY FailoverInv DEF GoodFailover
<1>12. Orderly(s)
  BY <1>1, <1>3, <1>4, <1>6, <1>11, StInv DEF Orderly, SameOperations
<1>13. KeepsCandidate(s)
  BY <1>3, <1>6 DEF KeepsCandidate, SameOperations
<1>14. GoodStatus(s)
  BY <1>3, <1>6, <1>8, <1>9, <1>10, <1>12, <1>13 DEF GoodStatus, StatusOK
<1> QED
  BY <1>2, <1>14, ApplyOperationalPhaseFacts

LEMMA AdmitsAppStep == ASSUME OperatorInv, AdmitsApp PROVE Steady
<1>1. PICK n \in AdmissionProcess :
        \/ Saved(Admitted(n.p))
        \/ Commanded(n.p, AppAccess(n.p, TRUE), Admitted(n.p))
        \/ Commanded(n.p, AppAccess(n.p, TRUE), Pending)
        \/ BrokenOff(n.p, AppAccess(n.p, TRUE))
  BY DEF AdmitsApp
<1>2. n.p \in Procs
  BY EntriesInv DEF AdmissionProcess, Live
<1>3. GoodStatus(Admitted(n.p)) /\ GoodStatus(Pending) /\ GoodStatus(st)
  BY AdmittedFacts, PendingFacts, StInv
<1> QED
  BY <1>1, <1>2, <1>3, AccessStep, SavedStep DEF Steady

LEMMA AdmissionPendingStep == ASSUME OperatorInv, AdmissionPending PROVE Steady
  BY PendingFacts, SavedStep DEF AdmissionPending, Steady

LEMMA ProcessHistoryStep == ASSUME OperatorInv, ReconcileProcessHistory PROVE Steady
<1> DEFINE prev == {q \in st.prev : ~q.term \/ Required(q)}
           s == [st EXCEPT !.prev = prev]
<1>1. Saved(s)
  BY DEF ReconcileProcessHistory
<1>2. prev \in SUBSET NodeStatus /\ prev \subseteq st.prev
  BY StInv
<1>3. \A q \in st.prev : q \in prev \/ (q.term /\ ~Required(q))
  OBVIOUS
<1> HIDE DEF prev
<1>4. s \in Status /\ s.nodes = st.nodes /\ s.prev = prev
  BY <1>2, StInv DEF Status
<1>5. SameOperations(s)
  BY FailoverInv, StInv DEF SameOperations, Status
<1> HIDE DEF s
<1>6. Entries(s) \subseteq Entries(st)
  BY <1>2, <1>4 DEF Entries
<1>7. \A n \in Entries(st) : n \in Entries(s) \/ (n \in st.prev /\ n.term /\ ~Required(n))
  BY <1>3, <1>4 DEF Entries
<1>8. Keyed(s) /\ Faithful(s)
  BY <1>2, <1>4, <1>6, EntriesInv DEF Keyed, Faithful
<1>9. NamesKnown(s)
  <2>1. \A p : Knows(st, p) => Knows(s, p) \/ \E n \in st.prev : n.p = p /\ ~Required(n)
    BY <1>7 DEF Knows
  <2> QED
    BY <1>5, <2>1, StInv DEF NamesKnown, SameOperations, Required
<1>10. Orderly(s) /\ KeepsCandidate(s)
  BY <1>5, StInv DEF Orderly, SameOperations, KeepsCandidate
<1>11. \A p \in Procs : Up(p) /\ Knows(st, p) => Knows(s, p)
  BY <1>7, EntriesInv DEF Knows, Up
<1>12. GoodStatus(s)
  BY <1>4, <1>8, <1>9, <1>10, <1>11 DEF GoodStatus, StatusOK
<1> QED
  BY <1>1, <1>12, SavedStep DEF Steady

-----------------------------------------------------------------------------
(* Observation                                                              *)

LEMMA LosesMarkerFacts ==
    ASSUME OperatorInv, NEW s, GoodStatus(s), NEW cond PROVE GoodStatus(LosesMarker(s, cond))
<1> DEFINE e == s.empty /\ ~cond
           t == [s EXCEPT !.empty = e]
<1>1. e \in BOOLEAN
  BY Zenon
<1>2. LosesMarker(s, cond) = t
  BY DEF LosesMarker
<1> HIDE DEF e
<1>3. s \in Status /\ (s.public \/ s.reported => s.initialized)
  BY DEF GoodStatus, StatusOK, Orderly
<1>4. t \in Status /\ Alike(t, s) /\ t.public = s.public /\ t.reported = s.reported
  BY <1>1, <1>3, EmptyFacts
<1> HIDE DEF t
<1> QED
  BY <1>2, <1>3, <1>4, AlikeFacts

LEMMA ProcessUnavailableFacts ==
    ASSUME OperatorInv, NEW o \in Ordinals PROVE GoodStatus(ProcessUnavailable(o))
<1> DEFINE s == IF st.nodes[o] = Nil THEN st ELSE [st EXCEPT !.nodes[o].ready = FALSE]
           n == st.nodes[o]
           m == [n EXCEPT !.ready = FALSE]
<1>1. ProcessUnavailable(o) = LosesMarker(s, AffectsPrimary(o))
  BY DEF ProcessUnavailable
<1>2. CASE n = Nil
  <2>1. s = st
    BY <1>2
  <2> HIDE DEF s
  <2> QED
    BY <1>1, <2>1, StInv, LosesMarkerFacts
<1>3. CASE n # Nil
  <2>1. s = [st EXCEPT !.nodes[o] = m]
    BY <1>3
  <2>2. n \in NodeStatus /\ (n.term => proc[n.p].run = "down")
    BY <1>3, EntriesInv
  <2>3. m \in NodeStatus /\ m.p = n.p /\ m.term = n.term
    BY <2>2 DEF NodeStatus, NodeStatusOf
  <2> HIDE DEF m, s
  <2>4. GoodStatus(s)
    BY <1>3, <2>1, <2>2, <2>3, EntryStatus
  <2> QED
    BY <1>1, <2>4, LosesMarkerFacts
<1> QED
  BY <1>2, <1>3

\* The entry of an ordinal says that the process has stopped.
LEMMA StoppedEntry ==
    ASSUME OperatorInv, NEW o \in Ordinals, st.nodes[o] # Nil, proc[st.nodes[o].p].run = "down"
    PROVE  GoodStatus(WithNode(st, Stopped(st.nodes[o])))
<1> DEFINE n == st.nodes[o]
           m == Stopped(n)
<1>1. n \in NodeStatus /\ n.p[1] = o
  BY EntriesInv
<1>2. m \in NodeStatus /\ m.p = n.p
  BY <1>1, StoppedFacts
<1>3. WithNode(st, m) = [st EXCEPT !.nodes[o] = m]
  BY <1>1, <1>2 DEF WithNode
<1> HIDE DEF m
<1>4. GoodStatus([st EXCEPT !.nodes[o] = m])
  BY <1>2, EntryStatus
<1> QED
  BY <1>3, <1>4 DEF m

LEMMA SaveNodeDeletionFacts ==
    ASSUME OperatorInv, NEW o \in Ordinals, st.nodes[o] # Nil, ~NodeExists(st.nodes[o].p)
    PROVE  GoodStatus(SaveNodeDeletion(st.nodes[o]))
<1>1. proc[st.nodes[o].p].run = "down"
  BY EntriesInv DEF NodeExists, OperatorInv, Tracked
<1> QED
  BY <1>1, StoppedEntry, LosesMarkerFacts DEF SaveNodeDeletion

LEMMA NodeOfFacts ==
    ASSUME NEW p \in Procs PROVE NodeOf(p) \in NodeStatus /\ NodeOf(p).p = p
  BY DEF NodeOf, NodeStatus, NodeStatusOf

LEMMA SaveContainerTerminationFacts ==
    ASSUME OperatorInv, NEW o \in Ordinals, HasPod(o), ContainerTerminated(CurrentProc(o)),
           \/ st.nodes[o] = Nil
           \/ st.nodes[o].p = CurrentProc(o)
           \/ st.deletion # Nil
    PROVE  GoodStatus(SaveContainerTermination(o))
<1> DEFINE p == CurrentProc(o)
           n == st.nodes[o]
           same == n # Nil /\ n.p = p
           x == IF same THEN Stopped(n) ELSE Stopped(NodeOf(p))
           kept == IF n = Nil \/ same \/ st.deletion = Nil THEN st.prev ELSE st.prev \cup {n}
           marked == {IF q.p = p THEN Stopped(q) ELSE q : q \in kept}
           t == WithNode(st, x)
           s == [t EXCEPT !.prev = marked]
<1>1. SaveContainerTermination(o) = LosesMarker(s, AffectsPrimary(o))
  BY DEF SaveContainerTermination
<1>2. /\ p \in Procs /\ p[1] = o /\ proc[p].run = "down"
      /\ \A q \in Procs : q[1] = o /\ proc[q].run # "absent" /\ q # p => q[2] < p[2]
  BY LaterProcess DEF ContainerTerminated
<1>3. x \in NodeStatus /\ x.p = p
  <2>1. CASE same
    BY <2>1, EntriesInv, StoppedFacts
  <2>2. CASE ~same
    BY <1>2, <2>2, NodeOfFacts, StoppedFacts
  <2> QED
    BY <2>1, <2>2
<1>4. \/ (n = Nil \/ n.p = p) /\ kept = st.prev
      \/ n # Nil /\ n.p # p /\ kept = st.prev \cup {n}
  OBVIOUS
<1>5. n # Nil => n \in NodeStatus /\ n.p \in Procs /\ n.p[1] = o /\ proc[n.p].run # "absent"
                 /\ (n.term => proc[n.p].run = "down")
  BY EntriesInv
<1>6. \A q \in kept : q.p # p /\ q \in NodeStatus
  <2>1. ASSUME NEW q \in st.prev PROVE q.p # p /\ q \in NodeStatus
    <3>1. /\ q \in NodeStatus /\ q.p \in Procs /\ st.nodes[q.p[1]] # Nil
          /\ q.p[2] < st.nodes[q.p[1]].p[2]
      BY EntriesInv
    <3>2. \A r \in Procs : r[2] \in Nat
      BY ProcsAreNamed, StInv DEF Scene
    <3> QED
      BY <1>2, <1>5, <3>1, <3>2
  <2> QED
    BY <1>4, <1>5, <2>1
<1> HIDE DEF kept, x
<1>7. marked = kept
  BY <1>6
<1> DEFINE nodes == [st.nodes EXCEPT ![o] = x]
<1>8. t = [st EXCEPT !.nodes = nodes]
  BY <1>2, <1>3 DEF WithNode
<1>9. nodes \in [Ordinals -> NodeStatus \cup {Nil}]
  BY <1>3, StInv
<1>10. kept \in SUBSET NodeStatus
  BY <1>6
<1> HIDE DEF marked, nodes, t
<1>11. t \in Status /\ t.nodes = nodes /\ SameOperations(t)
  BY <1>8, <1>9, StInv, FailoverInv DEF Status, SameOperations
<1>12. s \in Status /\ s.nodes = nodes /\ s.prev = kept
  BY <1>7, <1>10, <1>11 DEF Status
<1>13. SameOperations(s)
  BY <1>11 DEF Status, SameOperations
<1> HIDE DEF s
<1>14. \/ (st.nodes[o] = Nil \/ st.nodes[o].p = x.p) /\ s.prev = st.prev
       \/ /\ st.nodes[o] # Nil /\ st.nodes[o].p # x.p
          /\ \E m \in NodeStatus : /\ m.p = st.nodes[o].p /\ s.prev = st.prev \cup {m}
                                   /\ m.term => proc[m.p].run = "down"
  BY <1>3, <1>4, <1>5, <1>12
<1>15. s.nodes = [st.nodes EXCEPT ![o] = x]
  BY <1>12 DEF nodes
<1>16. Keyed(s) /\ Faithful(s) /\ (\A q : Knows(st, q) => Knows(s, q))
  <2> HIDE DEF n, p
  <2> QED
    BY <1>2, <1>3, <1>14, <1>15, SucceedingEntry DEF p
<1>17. GoodStatus(s)
  BY <1>12, <1>13, <1>16, SameOperationsFacts
<1> QED
  BY <1>1, <1>17, LosesMarkerFacts

LEMMA TerminationProofLostFacts == ASSUME OperatorInv PROVE GoodStatus(TerminationProofLost)
<1> DEFINE s == [st EXCEPT !.empty = FALSE]
<1>1. TerminationProofLost = s
  BY DEF TerminationProofLost
<1>2. s \in Status /\ Alike(s, st) /\ s.public = st.public /\ s.reported = st.reported
  BY StInv, EmptyFacts
<1> HIDE DEF s
<1> QED
  BY <1>1, <1>2, AlikeStatus

\* The pass has seen an ordinal.
LEMMA DoneFacts ==
    ASSUME OperatorInv, NEW o, NEW err \in BOOLEAN, NEW p \in Procs
    PROVE  /\ Done(o) \in Memory /\ Seen(o, p) \in Memory
           /\ [Done(o) EXCEPT !.err = err] \in Memory
           /\ [Done(o) EXCEPT !.controlled = @ \cup {p}] \in Memory
<1> DEFINE todo == op.todo \ {o}
           counted == op.counted \cup {p}
           controlled == op.controlled \cup {p}
           q == [op EXCEPT !.todo = todo]
<1>1. op \in Memory /\ todo \in SUBSET Ordinals /\ counted \in SUBSET Procs
      /\ controlled \in SUBSET Procs
  BY StInv DEF Memory
<1> HIDE DEF todo, counted
<1>2. q \in Memory /\ q.controlled = op.controlled
  BY <1>1 DEF Memory
<1>3. [op EXCEPT !.todo = todo, !.counted = counted] \in Memory
  BY <1>1 DEF Memory
<1>4. Done(o) = q
  BY DEF Done, todo
<1> HIDE DEF q
<1>5. [q EXCEPT !.err = err] \in Memory
  BY <1>2 DEF Memory
<1>6. [Done(o) EXCEPT !.controlled = @ \cup {p}] = [q EXCEPT !.controlled = controlled]
  BY <1>2, <1>4
<1> HIDE DEF controlled
<1>7. [q EXCEPT !.controlled = controlled] \in Memory
  BY <1>1, <1>2 DEF Memory
<1> QED
  BY <1>2, <1>3, <1>4, <1>5, <1>6, <1>7 DEF Seen, todo, counted

LEMMA SomeProcess == ASSUME OperatorInv PROVE \E p \in Procs : TRUE
<1>1. 1 \in 1..scene.incs
  BY StInv DEF Scene
<1>2. <<0, 1>> \in Procs
  BY <1>1, ProcsAreNamed, StInv
<1> QED
  BY <1>2

\* What WithoutProcess and VerifiesOrdinal have in common.
LEMMA StatusOnlyStep ==
    ASSUME OperatorInv, NEW s, GoodStatus(s), st' = s, UNCHANGED pod,
           UNCHANGED <<proc, data, scene, cr>>, op' \in Memory
    PROVE  Steady
  BY WritingStep DEF machine

LEMMA WithoutProcessStep ==
    ASSUME OperatorInv, NEW o \in Ordinals, WithoutProcess(o) PROVE Steady
<1> DEFINE n == st.nodes[o]
           p == CurrentProc(o)
           matches == n # Nil /\ n.p = p
           gone == n # Nil /\ ~n.term /\ ~NodeExists(n.p)
           err == op.err \/ (HasPod(o) /\ ContainerRunning(p) /\ ~NodeExists(p) /\ ~matches)
<1>1. UNCHANGED <<proc, data, scene, cr>>
  BY DEF WithoutProcess
<1>2. op' \in Memory
  <2>1. op' = [Done(o) EXCEPT !.err = err]
    BY Zenon DEF WithoutProcess, Done
  <2>2. err \in BOOLEAN
    BY Zenon
  <2>3. PICK q \in Procs : TRUE
    BY SomeProcess
  <2> HIDE DEF err
  <2> QED
    BY <2>1, <2>2, <2>3, DoneFacts
<1>3. \/ gone /\ st' = SaveNodeDeletion(n) /\ UNCHANGED pod
      \/ st' = ProcessUnavailable(o) /\ UNCHANGED pod
      \/ HasPod(o) /\ matches /\ ReleaseTerminatedPod(o) /\ UNCHANGED st
      \/ st' = TerminationProofLost /\ UNCHANGED pod
      \/ /\ HasPod(o) /\ ContainerTerminated(p) /\ (n = Nil \/ matches \/ st.deletion # Nil)
         /\ st' = SaveContainerTermination(o) /\ UNCHANGED pod
      \/ /\ matches /\ ~NodeExists(p) /\ st' = SaveNodeDeletion(n) /\ UNCHANGED pod
      \/ st' = st /\ UNCHANGED pod
  BY DEF WithoutProcess
<1>4. CASE gone /\ st' = SaveNodeDeletion(n) /\ UNCHANGED pod
  BY <1>1, <1>2, <1>4, SaveNodeDeletionFacts, StatusOnlyStep
<1>5. CASE st' = ProcessUnavailable(o) /\ UNCHANGED pod
  BY <1>1, <1>2, <1>5, ProcessUnavailableFacts, StatusOnlyStep
<1>6. CASE HasPod(o) /\ matches /\ ReleaseTerminatedPod(o) /\ UNCHANGED st
  BY <1>1, <1>2, <1>6, ReleasedPod
<1>7. CASE st' = TerminationProofLost /\ UNCHANGED pod
  BY <1>1, <1>2, <1>7, TerminationProofLostFacts, StatusOnlyStep
<1>8. CASE /\ HasPod(o) /\ ContainerTerminated(p) /\ (n = Nil \/ matches \/ st.deletion # Nil)
           /\ st' = SaveContainerTermination(o) /\ UNCHANGED pod
  BY <1>1, <1>2, <1>8, SaveContainerTerminationFacts, StatusOnlyStep
<1>9. CASE matches /\ ~NodeExists(p) /\ st' = SaveNodeDeletion(n) /\ UNCHANGED pod
  BY <1>1, <1>2, <1>9, SaveNodeDeletionFacts, StatusOnlyStep
<1>10. CASE st' = st /\ UNCHANGED pod
  BY <1>1, <1>2, <1>10, StInv, StatusOnlyStep
<1> QED
  BY <1>3, <1>4, <1>5, <1>6, <1>7, <1>8, <1>9, <1>10

LEMMA ObservedFacts ==
    ASSUME OperatorInv, NEW o \in Ordinals, NEW p \in Procs
    PROVE  Observed(o, p) \in NodeStatus /\ Observed(o, p).p = p /\ ~Observed(o, p).term
<1> DEFINE q == proc[p]
           pw == IF proc[p].pw = st.accepted.pw THEN st.accepted.pw ELSE 0
           ready == PodReady(p)
           rec == RetainedRecovery(st.nodes[o], p)
           link == proc[p].role = "replica" /\ LinkUp(p)
           synced == MergedSync(st.nodes[o], p)
           n == [p |-> p, role |-> q.role, app |-> q.app, pw |-> pw, ready |-> ready, obs |-> "ok",
                 term |-> FALSE, rec |-> rec, up |-> q.source, link |-> link, synced |-> synced,
                 hist |-> q.hist]
<1>1. Observed(o, p) = n
  BY DEF Observed
<1>2. q \in Process /\ pw \in Nat
  BY StInv
<1>3. ready \in BOOLEAN
  BY Zenon DEF PodReady
<1>4. link \in BOOLEAN
  BY Zenon
<1>5. synced \in BOOLEAN
  BY Zenon DEF MergedSync
<1>6. rec \in {"none", "killing", "deleting", "deletingBusy", "waiting"}
  <2>1. st.nodes[o] # Nil => st.nodes[o].rec \in {"none", "killing", "deleting", "deletingBusy", "waiting"}
    BY EntriesInv DEF NodeStatus, NodeStatusOf
  <2> QED
    BY <2>1 DEF RetainedRecovery
<1>7. /\ q.role \in {"none", "primary", "replica"} /\ q.app \in BOOLEAN
      /\ q.source \in Procs \cup {Nil} /\ q.hist \in Nat
  BY <1>2 DEF Process
<1> HIDE DEF q, pw, ready, rec, link, synced
<1>8. n \in NodeStatus /\ n.p = p /\ n.term = FALSE
  BY <1>2, <1>3, <1>4, <1>5, <1>6, <1>7 DEF NodeStatus, NodeStatusOf
<1> QED
  BY <1>1, <1>8

\* An answer is recorded.
LEMMA RecordProcessFacts ==
    ASSUME OperatorInv, NEW o \in Ordinals, HasPod(o), Up(CurrentProc(o)),
           st.nodes[o] = Nil \/ st.nodes[o].p = CurrentProc(o)
    PROVE  GoodStatus(RecordProcess(o, CurrentProc(o)))
<1> DEFINE p == CurrentProc(o)
           x == Observed(o, p)
           s == WithNode(st, x)
           nodes == [st.nodes EXCEPT ![o] = x]
<1>1. p \in Procs /\ p[1] = o
  BY LaterProcess
<1>2. x \in NodeStatus /\ x.p = p /\ ~x.term
  BY <1>1, ObservedFacts
<1>3. RecordProcess(o, p) = LosesMarker(s, Unterminated)
  BY DEF RecordProcess
<1>4. s = [st EXCEPT !.nodes = nodes]
  BY <1>1, <1>2 DEF WithNode
<1> HIDE DEF x
<1>5. nodes \in [Ordinals -> NodeStatus \cup {Nil}]
  BY <1>2, StInv
<1> HIDE DEF nodes, s
<1>6. s \in Status /\ s.nodes = nodes /\ s.prev = st.prev
  BY <1>4, <1>5, StInv DEF Status
<1>7. SameOperations(s)
  BY <1>4, FailoverInv, StInv DEF SameOperations, Status
<1>8. s.nodes = [st.nodes EXCEPT ![o] = x] /\ proc[x.p].run = "up"
  BY <1>2, <1>6 DEF nodes, Up
<1>9. Keyed(s) /\ Faithful(s) /\ (\A q : Knows(st, q) => Knows(s, q))
  <2> HIDE DEF p
  <2> QED
    BY <1>2, <1>6, <1>8, SucceedingEntry DEF p
<1>10. GoodStatus(s)
  BY <1>6, <1>7, <1>9, SameOperationsFacts
<1> QED
  BY <1>3, <1>10, LosesMarkerFacts DEF p

LEMMA IdentityChangedFacts ==
    ASSUME OperatorInv, NEW o \in Ordinals, HasPod(o), Up(CurrentProc(o)),
           st.nodes[o] # Nil, st.nodes[o].p # CurrentProc(o)
    PROVE  GoodStatus(IdentityChanged(o, CurrentProc(o)))
<1> DEFINE p == CurrentProc(o)
           n == st.nodes[o]
           term == n.term \/ ~NodeExists(n.p)
           old == [n EXCEPT !.term = term]
           x == Observed(o, p)
           nodes == [st.nodes EXCEPT ![o] = x]
           kept == {q \in st.prev : q.p # n.p}
           prev == kept \cup {old}
           primary == IF ~HA /\ n.term THEN p ELSE st.primary
           t == WithNode(st, x)
           s == [t EXCEPT !.prev = prev, !.primary = primary]
<1>1. p \in Procs /\ p[1] = o
  BY LaterProcess
<1>2. x \in NodeStatus /\ x.p = p /\ ~x.term
  BY <1>1, ObservedFacts
<1>3. t = [st EXCEPT !.nodes = nodes]
  BY <1>1, <1>2 DEF WithNode
<1>4. s = [WithNode(st, Observed(o, p)) EXCEPT !.prev = {q \in @ : q.p # n.p} \cup {old},
                                               !.primary = IF ~HA /\ n.term THEN p ELSE @]
  <2>1. t.prev = st.prev /\ t.primary = st.primary
    BY <1>3, StInv DEF Status
  <2>2. [t EXCEPT !.prev = {q \in @ : q.p # n.p} \cup {old},
                  !.primary = IF ~HA /\ n.term THEN p ELSE @]
        = [t EXCEPT !.prev = {q \in t.prev : q.p # n.p} \cup {old},
                    !.primary = IF ~HA /\ n.term THEN p ELSE t.primary]
    <3> HIDE DEF t, old, n, p
    <3> QED
      OBVIOUS
  <2> QED
    BY <2>1, <2>2
<1>5. IdentityChanged(o, p) = LosesMarker(s, \E q \in s.prev : ~q.term)
  BY <1>4, Zenon DEF IdentityChanged
<1>6. /\ n \in NodeStatus /\ n.p \in Procs /\ term \in BOOLEAN
      /\ term => proc[n.p].run = "down"
  <2>1. n \in NodeStatus /\ n.p \in Procs /\ (n.term => proc[n.p].run = "down")
    BY EntriesInv
  <2>2. ~NodeExists(n.p) => proc[n.p].run = "down"
    BY <2>1 DEF NodeExists, OperatorInv, Tracked
  <2>3. term \in BOOLEAN
    BY Zenon
  <2> QED
    BY <2>1, <2>2, <2>3
<1>7. kept = st.prev
  <2>1. \A q \in st.prev : q.p # n.p
    <3>1. \A q \in st.prev : q.p \in Procs /\ q.p[2] < st.nodes[q.p[1]].p[2]
      BY EntriesInv
    <3>2. n.p[1] = o /\ n.p[2] \in Nat
      BY <1>6, EntriesInv, ProcsAreNamed, StInv DEF Scene
    <3> QED
      BY <3>1, <3>2
  <2> QED
    BY <2>1
<1> HIDE DEF term
<1>8. old \in NodeStatus /\ old.p = n.p /\ (old.term => proc[old.p].run = "down")
  BY <1>6 DEF NodeStatus, NodeStatusOf
<1> HIDE DEF old, kept, x
<1>9. nodes \in [Ordinals -> NodeStatus \cup {Nil}] /\ prev \in SUBSET NodeStatus
      /\ primary \in Procs \cup {Nil}
  <2>1. st.primary \in Procs \cup {Nil}
    BY StInv DEF Status
  <2> QED
    BY <1>1, <1>2, <1>7, <1>8, <2>1, StInv
<1>10. (HA => primary = st.primary) /\ (primary = st.primary \/ primary = p)
  OBVIOUS
<1> HIDE DEF nodes, primary, t
<1>11. t \in Status /\ t.nodes = nodes /\ SameOperations(t)
  BY <1>3, <1>9, StInv, FailoverInv DEF Status, SameOperations
<1>12. prev = st.prev \cup {old}
  BY <1>7
<1> HIDE DEF prev
<1>13. /\ s \in Status /\ s.nodes = nodes /\ s.prev = prev /\ s.primary = primary
       /\ s.failover = t.failover /\ s.rollout = t.rollout /\ s.initialized = t.initialized
       /\ s.public = t.public /\ s.reported = t.reported
       /\ s.accepted = t.accepted /\ s.applied = t.applied
  BY <1>9, <1>11 DEF Status
<1> HIDE DEF s
<1>14. /\ s.nodes = [st.nodes EXCEPT ![o] = x] /\ s.prev = st.prev \cup {old}
       /\ proc[x.p].run = "up"
  BY <1>2, <1>12, <1>13 DEF nodes, Up
<1>15. Keyed(s) /\ Faithful(s) /\ (\A q : Knows(st, q) => Knows(s, q)) /\ Knows(s, x.p)
  <2> HIDE DEF p
  <2>1. \E m \in NodeStatus : /\ m.p = st.nodes[o].p /\ s.prev = st.prev \cup {m}
                              /\ m.term => proc[m.p].run = "down"
    BY <1>8, <1>14
  <2> QED
    BY <1>2, <1>14, <2>1, SucceedingEntry DEF p
<1> HIDE DEF n, p
<1>16. NamesKnown(s)
  BY <1>2, <1>10, <1>11, <1>13, <1>15, StInv DEF NamesKnown, SameOperations
<1>17. st.failover # Nil => HA
  BY FailoverInv DEF GoodFailover
<1>18. Orderly(s)
  BY <1>10, <1>11, <1>13, <1>17, StInv DEF Orderly, SameOperations
<1>19. KeepsCandidate(s)
  BY <1>11, <1>13 DEF KeepsCandidate, SameOperations
<1>20. GoodStatus(s)
  BY <1>13, <1>15, <1>16, <1>18, <1>19 DEF GoodStatus, StatusOK
<1> QED
  BY <1>5, <1>20, LosesMarkerFacts DEF p

LEMMA TakenFacts ==
    ASSUME NEW r \in Process
    PROVE  LET s == TakeControl(r)
           IN  s \in Process /\ s.run = r.run /\ s.link = r.link /\ s.hist = r.hist
  BY DEF TakeControl, Process

LEMMA WithAnswerStep == ASSUME OperatorInv, NEW o \in Ordinals, WithAnswer(o) PROVE Steady
<1> DEFINE p == CurrentProc(o)
           n == st.nodes[o]
           changed == n # Nil /\ n.p # p
           taken == IF p \in op.controlled THEN proc[p] ELSE TakeControl(proc[p])
<1>1. /\ HasPod(o) /\ Up(p)
      /\ st' = IF changed THEN IdentityChanged(o, p) ELSE RecordProcess(o, p)
      /\ proc' = [proc EXCEPT ![p] = taken]
      /\ op' = [Done(o) EXCEPT !.controlled = @ \cup {p}]
      /\ UNCHANGED <<pod, data, scene, cr>>
  BY Zenon DEF WithAnswer, Inspectable, Reachable
<1>2. p \in Procs
  BY <1>1, LaterProcess
<1>3. op' \in Memory
  <2> HIDE DEF p
  <2>1. FALSE \in BOOLEAN
    OBVIOUS
  <2> QED
    BY <1>1, <1>2, <2>1, DoneFacts
<1>4. GoodStatus(st')
  BY <1>1, IdentityChangedFacts, RecordProcessFacts
<1>5. /\ taken \in Process /\ taken.run = proc[p].run /\ taken.link = proc[p].link
      /\ taken.hist = proc[p].hist
  <2> DEFINE q == proc[p]
  <2>1. q \in Process
    BY <1>2, StInv
  <2>2. taken = q \/ taken = TakeControl(q)
    OBVIOUS
  <2> HIDE DEF q, taken
  <2>3. /\ TakeControl(q) \in Process /\ TakeControl(q).run = q.run
        /\ TakeControl(q).link = q.link /\ TakeControl(q).hist = q.hist
    BY <2>1, TakenFacts
  <2>4. /\ taken \in Process /\ taken.run = q.run /\ taken.link = q.link /\ taken.hist = q.hist
    BY <2>1, <2>2, <2>3
  <2> QED
    BY <2>4 DEF q
<1> HIDE DEF taken
<1>6. MachineGoesOn
  <2>1. SceneKept
    BY <1>1, SceneFacts, StInv
  <2>2. lineage' \in Seq(Nat) /\ Len(lineage) <= Len(lineage') /\ served' \in 0 .. Len(lineage')
        /\ taken.hist <= Len(lineage')
    BY <1>1, <1>2, <1>5 DEF data, OperatorInv, Types, ProcessTypeOK
  <2>3. pod' \in [Ordinals -> Pod] /\ PodsStay
    BY <1>1, StInv DEF PodsStay
  <2>4. taken.link = "deleted" => taken.run = "down"
    BY <1>2, <1>5 DEF OperatorInv, Tracked
  <2> HIDE DEF p
  <2> QED
    BY <1>1, <1>2, <1>5, <2>1, <2>2, <2>3, <2>4, ProcessGoesOn DEF OperatorInv
<1> QED
  BY <1>1, <1>3, <1>4, <1>6, ActingStep

LEMMA ClosesAccessStep == ASSUME OperatorInv, NEW o \in Ordinals, ClosesAccess(o) PROVE Steady
<1> DEFINE p == CurrentProc(o)
<1>1. /\ HasPod(o) /\ UNCHANGED <<pod, st, cr>>
      /\ \/ Session(p, AppAccess(p, FALSE)) /\ op' = Done(o) /\ UNCHANGED scene
         \/ Interrupted(p, AppAccess(p, FALSE)) /\ op' = [Done(o) EXCEPT !.err = TRUE]
  BY DEF ClosesAccess, Inspectable
<1>2. p \in Procs /\ AppAccess(p, FALSE) \in Seq(Commands)
  BY <1>1, LaterProcess, AppAccessFacts
<1> HIDE DEF p
<1>3. MachineGoesOn
  BY <1>1, <1>2, SessionGoesOn DEF OperatorInv
<1>4. op' \in Memory
  BY <1>1, <1>2, DoneFacts
<1> QED
  BY <1>1, <1>3, <1>4, ActingStep, StInv

LEMMA NextObsFacts ==
    ASSUME NEW n, NEW kind
    PROVE  NextObs(n, kind) \subseteq {"error", "failed", "stuck", "busy", "busylong"}
  BY DEF NextObs

\* Two fields of one entry.
Reseen(s, o, a, b) == [s EXCEPT !.nodes[o].ready = a, !.nodes[o].obs = b]
SeenAgain(n, a, b) == [n EXCEPT !.ready = a, !.obs = b]

LEMMA RewrittenTwice ==
    ASSUME NEW s \in Status, NEW o \in Ordinals, NEW a, NEW b
    PROVE  Reseen(s, o, a, b) = [s EXCEPT !.nodes[o] = SeenAgain(s.nodes[o], a, b)]
<1> DEFINE first == [s.nodes[o] EXCEPT !.ready = a]
           both == [first EXCEPT !.obs = b]
           nodes == [s.nodes EXCEPT ![o] = first]
           t == [s EXCEPT !.nodes = nodes]
<1>1. s.nodes \in [Ordinals -> NodeStatus \cup {Nil}]
  BY DEF Status
<1>2. t.nodes = nodes
  <2> HIDE DEF nodes
  <2> QED
    BY DEF Status
<1>3. nodes[o] = first
  <2> HIDE DEF first
  <2> QED
    BY <1>1
<1>4. [nodes EXCEPT ![o] = both] = [s.nodes EXCEPT ![o] = both]
  <2> HIDE DEF first, both
  <2> QED
    BY <1>1
<1>5. ASSUME NEW m PROVE [t EXCEPT !.nodes = m] = [s EXCEPT !.nodes = m]
  <2> HIDE DEF nodes
  <2> QED
    BY DEF Status
<1>6. Reseen(s, o, a, b)
      = [t EXCEPT !.nodes = [t.nodes EXCEPT ![o] = [t.nodes[o] EXCEPT !.obs = b]]]
  BY DEF Reseen
<1> HIDE DEF t, nodes, first
<1>7. [t EXCEPT !.nodes = [t.nodes EXCEPT ![o] = [t.nodes[o] EXCEPT !.obs = b]]]
      = [t EXCEPT !.nodes = [s.nodes EXCEPT ![o] = both]]
  BY <1>2, <1>3, <1>4, Zenon
<1> HIDE DEF both
<1> QED
  BY <1>5, <1>6, <1>7, Zenon DEF SeenAgain, both, first

LEMMA ObservationErrorFacts ==
    ASSUME OperatorInv, NEW o \in Ordinals, NEW p \in Procs, NEW kind,
           NEW obs \in {"error", "failed", "stuck", "busy", "busylong"}
    PROVE  GoodStatus(ObservationError(o, p, kind, obs))
<1> DEFINE n == st.nodes[o]
           known == n # Nil /\ n.p = p
           ready == PodReady(p)
           m == [n EXCEPT !.ready = ready, !.obs = obs]
           s == IF known THEN [st EXCEPT !.nodes[o].ready = PodReady(p), !.nodes[o].obs = obs] ELSE st
           cond == (AffectsPrimary(o) /\ (kind # "transport" \/ (known /\ obs \in {"failed", "stuck"})))
                   \/ (HA /\ Idle)
<1>1. ObservationError(o, p, kind, obs) = LosesMarker(s, cond)
  BY Zenon DEF ObservationError
<1>2. CASE ~known
  <2>1. s = st
    BY <1>2
  <2> HIDE DEF s, cond
  <2> QED
    BY <1>1, <2>1, StInv, LosesMarkerFacts
<1>3. CASE known
  <2>1. ready \in BOOLEAN
    BY Zenon DEF PodReady
  <2> HIDE DEF ready
  <2>2. n \in NodeStatus /\ (n.term => proc[n.p].run = "down")
    BY <1>3, EntriesInv
  <2>3. m \in NodeStatus /\ m.p = n.p /\ m.term = n.term
    BY <2>1, <2>2 DEF NodeStatus, NodeStatusOf
  <2>4. s = [st EXCEPT !.nodes[o] = m]
    <3>1. s = Reseen(st, o, ready, obs) /\ m = SeenAgain(n, ready, obs)
      BY <1>3 DEF ready, Reseen, SeenAgain
    <3>2. st \in Status
      BY StInv
    <3>3. Reseen(st, o, ready, obs) = [st EXCEPT !.nodes[o] = SeenAgain(st.nodes[o], ready, obs)]
      BY <3>2, RewrittenTwice
    <3> HIDE DEF s, m
    <3> QED
      BY <3>1, <3>3, Zenon
  <2> HIDE DEF m, s, cond
  <2>5. GoodStatus(s)
    BY <1>3, <2>2, <2>3, <2>4, EntryStatus
  <2> QED
    BY <1>1, <2>5, LosesMarkerFacts
<1> QED
  BY <1>2, <1>3

LEMMA WithoutAnswerStep == ASSUME OperatorInv, NEW o \in Ordinals, WithoutAnswer(o) PROVE Steady
<1> DEFINE p == CurrentProc(o)
           kind == IF Up(p) /\ proc[p].link = "ok" /\ proc[p].state = "busy" THEN "busy" ELSE "transport"
<1>1. /\ HasPod(o) /\ op' = Seen(o, p) /\ UNCHANGED <<machine, cr>>
      /\ \E obs \in IF p \in {n.p : n \in Nodes} THEN NextObs(st.nodes[o], kind) ELSE {"error"} :
            st' = ObservationError(o, p, kind, obs)
  BY Zenon DEF WithoutAnswer, Inspectable
<1>2. p \in Procs
  BY <1>1, LaterProcess
<1> HIDE DEF p, kind
<1>3. \E obs \in {"error", "failed", "stuck", "busy", "busylong"} :
          st' = ObservationError(o, p, kind, obs)
  BY <1>1, NextObsFacts
<1>4. GoodStatus(st')
  BY <1>2, <1>3, ObservationErrorFacts
<1>5. op' \in Memory
  <2>1. FALSE \in BOOLEAN
    OBVIOUS
  <2> QED
    BY <1>1, <1>2, <2>1, DoneFacts
<1> QED
  BY <1>1, <1>4, <1>5, WritingStep

LEMMA ObservesStep == ASSUME OperatorInv, Observes PROVE Steady
  BY WithoutProcessStep, WithAnswerStep, ClosesAccessStep, WithoutAnswerStep
     DEF Observes, ObservesProcess, ReconcileProcessOrdinal

-----------------------------------------------------------------------------
(* Deletion                                                                 *)

\* The deletion moves to another stage.
Deleting(s, d) ==
    s = [st EXCEPT !.deletion = d] \/ s = [st EXCEPT !.deletion = d, !.public = FALSE]

LEMMA DeletionStage ==
    ASSUME OperatorInv, NEW d \in DeletionStages, NEW s, Deleting(s, d)
    PROVE  GoodStatus(s)
<1>1. s \in Status /\ Alike(s, st) /\ (s.public => st.public) /\ s.reported = st.reported
  <2>1. CASE s = [st EXCEPT !.deletion = d]
    BY <2>1, StInv DEF Status, Alike
  <2>2. CASE s = [st EXCEPT !.deletion = d, !.public = FALSE]
    BY <2>2, StInv DEF Status, Alike
  <2> QED
    BY <2>1, <2>2 DEF Deleting
<1> QED
  BY <1>1, AlikeStatus

LEMMA StartsDeletionStep == ASSUME OperatorInv, StartsDeletion PROVE Steady
<1> DEFINE s == [st EXCEPT !.deletion = "network", !.public = FALSE]
<1>1. Saved(s)
  BY DEF StartsDeletion
<1>2. Deleting(s, "network") /\ "network" \in DeletionStages
  BY DEF Deleting, DeletionStages
<1> HIDE DEF s
<1>3. GoodStatus(s)
  BY <1>2, DeletionStage
<1> QED
  BY <1>1, <1>3, SavedStep DEF Steady

LEMMA RemovesNetworkStep == ASSUME OperatorInv, RemovesNetwork PROVE Steady
<1> DEFINE s == [st EXCEPT !.deletion = "disabling"]
<1>1. Saved(s)
  BY DEF RemovesNetwork
<1>2. Deleting(s, "disabling") /\ "disabling" \in DeletionStages
  BY DEF Deleting, DeletionStages
<1> HIDE DEF s
<1>3. GoodStatus(s)
  BY <1>2, DeletionStage
<1> QED
  BY <1>1, <1>3, SavedStep DEF Steady

LEMMA DoneMemory == ASSUME OperatorInv, NEW o PROVE Done(o) \in Memory
<1> DEFINE todo == op.todo \ {o}
<1>1. op \in Memory /\ Done(o) = [op EXCEPT !.todo = todo]
  BY StInv DEF Done
<1>2. todo \in SUBSET Ordinals
  BY <1>1 DEF Memory
<1> HIDE DEF todo
<1> QED
  BY <1>1, <1>2 DEF Memory

LEMMA DisablesAppStep == ASSUME OperatorInv, DisablesApp PROVE Steady
<1>1. PICK o \in op.todo : DisablesOrdinal(o)
  BY DEF DisablesApp
<1>2. UNCHANGED <<st, cr>> /\ o \in Ordinals
  BY <1>1, StInv DEF DisablesApp, Memory
<1> DEFINE p == CurrentProc(o)
<1>3. CASE /\ pod' = [pod EXCEPT ![o].label = "none"]
           /\ UNCHANGED <<proc, data, scene>> /\ NextPass
  BY <1>2, <1>3, LabelledPod, NextPassFacts, PodStep, StInv DEF Steady
<1>4. CASE /\ HasPod(o)
           /\ (Session(p, AppAccess(p, FALSE)) /\ UNCHANGED scene)
              \/ Interrupted(p, AppAccess(p, FALSE))
           /\ op' = Done(o) /\ UNCHANGED pod
  <2>1. p \in Procs
    BY <1>2, <1>4, LaterProcess
  <2>2. MachineGoesOn
    BY <1>4, <2>1, AppAccessFacts, SessionGoesOn DEF OperatorInv
  <2> QED
    BY <1>2, <1>4, <2>2, DoneMemory, StInv, ActingStep
<1>5. CASE op' = Done(o) /\ UNCHANGED machine
  BY <1>2, <1>5, DoneMemory, StInv, WritingStep
<1> QED
  BY <1>1, <1>3, <1>4, <1>5 DEF DisablesOrdinal

LEMMA AppDisabledStep == ASSUME OperatorInv, AppDisabled PROVE Steady
<1> DEFINE s == [st EXCEPT !.deletion = "stopping"]
<1>1. Saved(s)
  BY DEF AppDisabled
<1>2. Deleting(s, "stopping") /\ "stopping" \in DeletionStages
  BY DEF Deleting, DeletionStages
<1> HIDE DEF s
<1>3. GoodStatus(s)
  BY <1>2, DeletionStage
<1> QED
  BY <1>1, <1>3, SavedStep DEF Steady

LEMMA RequestsDeletionOfPodsStep == ASSUME OperatorInv, RequestsDeletionOfPods PROVE Steady
<1>1. UNCHANGED <<proc, data, scene, cr>> /\ op' \in Memory
  BY NextPassFacts DEF RequestsDeletionOfPods
<1>2. CASE pod' = [pod EXCEPT ![First(StoppablePods)].deleting = TRUE] /\ UNCHANGED st
  <2> DEFINE o == First(StoppablePods)
  <2>1. pod' = [pod EXCEPT ![o].deleting = TRUE]
    BY <1>2
  <2> HIDE DEF o
  <2> QED
    BY <1>1, <1>2, <2>1, DeletesPodStep
<1>3. CASE st' = [st EXCEPT !.deletion = "verifying"] /\ UNCHANGED pod
  <2>1. GoodStatus(st')
    <3>1. Deleting(st', "verifying") /\ "verifying" \in DeletionStages
      BY <1>3 DEF Deleting, DeletionStages
    <3> QED
      BY <3>1, DeletionStage
  <2> QED
    BY <1>1, <1>3, <2>1, StatusOnlyStep
<1> QED
  BY <1>2, <1>3 DEF RequestsDeletionOfPods

LEMMA VerifiesDeletionStep == ASSUME OperatorInv, VerifiesDeletion PROVE Steady
<1>1. PICK o \in Ordinals : VerifiesOrdinal(o)
  BY Zenon DEF VerifiesDeletion
<1> DEFINE n == st.nodes[o]
           p == CurrentProc(o)
           matches == n # Nil /\ HasPod(o) /\ n.p = p
<1>2. st.deletion # Nil
  BY StatusAssumption DEF VerifiesDeletion, InDeletion, DeletionStages
<1>3. UNCHANGED <<proc, data, scene, cr>> /\ op' \in Memory
  BY <1>1, NextPassFacts DEF VerifiesOrdinal
<1>4. \/ matches /\ ReleaseTerminatedPod(o) /\ UNCHANGED st
      \/ /\ HasPod(o) /\ ContainerTerminated(p)
         /\ st' = SaveContainerTermination(o) /\ UNCHANGED pod
      \/ n # Nil /\ ~NodeExists(n.p) /\ st' = SaveNodeDeletion(n) /\ UNCHANGED pod
  BY <1>1 DEF VerifiesOrdinal
<1>5. CASE matches /\ ReleaseTerminatedPod(o) /\ UNCHANGED st
  BY <1>3, <1>5, ReleasedPod
<1>6. CASE /\ HasPod(o) /\ ContainerTerminated(p)
           /\ st' = SaveContainerTermination(o) /\ UNCHANGED pod
  BY <1>2, <1>3, <1>6, SaveContainerTerminationFacts, StatusOnlyStep
<1>7. CASE n # Nil /\ ~NodeExists(n.p) /\ st' = SaveNodeDeletion(n) /\ UNCHANGED pod
  BY <1>3, <1>7, SaveNodeDeletionFacts, StatusOnlyStep
<1> QED
  BY <1>4, <1>5, <1>6, <1>7

\* An earlier process is taken for stopped when its Node is deleted.
LEMMA VerifiesPreviousStep == ASSUME OperatorInv, VerifiesPrevious PROVE Steady
<1>1. PICK q \in st.prev :
          ~NodeExists(q.p) /\ Saved([st EXCEPT !.prev = (st.prev \ {q}) \cup {Stopped(q)}])
  BY DEF VerifiesPrevious
<1> DEFINE prev == (st.prev \ {q}) \cup {Stopped(q)}
           s == [st EXCEPT !.prev = prev]
<1>2. q \in NodeStatus /\ q.p \in Procs /\ \A r \in st.prev : r.p = q.p => r = q
  BY EntriesInv
<1>3. proc[q.p].run = "down"
  BY <1>1, <1>2 DEF NodeExists, OperatorInv, Tracked
<1> DEFINE m == Stopped(q)
<1>4. m \in NodeStatus /\ m.p = q.p
  BY <1>2, StoppedFacts
<1>5. prev = (st.prev \ {q}) \cup {m}
  OBVIOUS
<1> HIDE DEF m, prev
<1>6. /\ prev \in SUBSET NodeStatus
      /\ \A r \in prev : (r.term => proc[r.p].run = "down") /\ \E t \in st.prev : t.p = r.p
      /\ \A t \in st.prev : \E r \in prev : r.p = t.p
      /\ \A r, t \in prev : r.p = t.p => r = t
  BY <1>2, <1>3, <1>4, <1>5, EntriesInv
<1>7. s \in Status /\ s.nodes = st.nodes /\ s.prev = prev
  BY <1>6, StInv DEF Status
<1>8. SameOperations(s)
  BY StInv, FailoverInv DEF SameOperations, Status
<1>9. Saved(s)
  BY <1>1 DEF prev
<1> HIDE DEF s
<1>10. Renewed(s)
  BY <1>6, <1>7, EntriesInv DEF Renewed
<1> QED
  BY <1>7, <1>8, <1>9, <1>10, RenewedStatus, SavedStep DEF Steady

\* The resource goes when nothing is left that could still run.
LEMMA FinishesDeletionStep == ASSUME OperatorInv, FinishesDeletion PROVE Steady
<1>1. /\ cr.deleting /\ (\A o \in Ordinals : Settled(o)) /\ (\A q \in st.prev : q.term)
      /\ cr' = [cr EXCEPT !.exists = FALSE] /\ UNCHANGED <<machine, st, op>>
  BY DEF FinishesDeletion, InDeletion, Unterminated
<1>2. \A o \in Ordinals : ~HasPod(o)
  BY <1>1 DEF Settled
<1>3. ASSUME NEW p \in Procs, Alive(p) PROVE FALSE
  <2>1. p[1] \in Ordinals /\ p[2] # 0
    BY ProcsAreNamed, StInv DEF Scene
  <2>2. ~IsPodOf(p)
    BY <1>2, <2>1 DEF IsPodOf, HasPod
  <2>3. PICK n \in Entries(st) : n.p = p
    BY <1>3, <2>2 DEF OperatorInv, Tracked, Alive, Up, Knows
  <2>4. n.term
    <3>1. CASE n \in st.prev
      BY <1>1, <3>1
    <3>2. CASE \E o \in Ordinals : st.nodes[o] # Nil /\ n = st.nodes[o]
      BY <1>1, <3>2 DEF Settled
    <3> QED
      BY <3>1, <3>2 DEF Entries
  <2> QED
    BY <1>3, <2>3, <2>4, EntriesInv DEF Alive
<1>4. MachineGoesOn
  BY <1>1, MachineStays DEF OperatorInv
<1>5. Ordinals' = Ordinals /\ Procs' = Procs /\ Resource' = Resource /\ Memory' = Memory
      /\ scene' = scene /\ proc' = proc /\ pod' = pod
  BY <1>1, <1>4, KeptSets DEF MachineGoesOn, machine
<1>6. /\ cr' \in Resource /\ cr'.deleting = cr.deleting /\ cr'.fence = cr.fence
      /\ cr'.exists = FALSE
  BY <1>1, StInv DEF Resource
<1>7. Types'
  BY <1>1, <1>4, <1>5, <1>6, StInv DEF Types, MachineGoesOn
<1>8. StatusOK(st)'
  BY <1>1, <1>4, StatusGoesOn DEF OperatorInv
<1>9. Incarnations' /\ Tracked'
  BY <1>1, <1>5
     DEF OperatorInv, Incarnations, Tracked, IsPodOf, Up, Alive, Knows, Entries
<1>10. FenceSound'
  BY <1>5, <1>6 DEF OperatorInv, FenceSound
<1>11. Gone'
  BY <1>1, <1>2, <1>3, <1>5, <1>6 DEF Gone, HasPod, Alive
<1>12. KeepsCandidate(st') /\ SceneKept /\ StoppedForGood
  BY <1>1, <1>4, <1>5, StInv DEF MachineGoesOn, StoppedForGood
<1> QED
  BY <1>7, <1>8, <1>9, <1>10, <1>11, <1>12 DEF OperatorInv, Steady

LEMMA DeletionSteps == ASSUME OperatorInv, ReconcileDeletion PROVE Steady
  BY StartsDeletionStep, RemovesNetworkStep, DisablesAppStep, AppDisabledStep,
     RequestsDeletionOfPodsStep, VerifiesDeletionStep, VerifiesPreviousStep, FinishesDeletionStep DEF ReconcileDeletion

LEMMA ActsStep == ASSUME OperatorInv, Acts PROVE Steady
  BY AcceptedConfigurationStep, CredentialsStep, WorkloadStep, AcceptsManualFencingStep,
     RemovesAnnotationStep, ProcessRecoveryStep, FailoverSteps, RotationSteps, RolloutSteps,
     AssignsInitialPrimaryStep, FollowsPrimaryStep, SetsPodMetadataStep, AdmitsReplicaStep,
     AdmitsAppStep, AdmissionPendingStep, ProcessHistoryStep, DeletionSteps
     DEF Acts, ReconcilePodMetadata

-----------------------------------------------------------------------------
(* The operator's own life, and requests                                    *)

LEMMA EndsPassStep == ASSUME OperatorInv, EndsPass PROVE Steady
<1>1. UNCHANGED <<machine, st, cr>> /\ op' \in Memory
  BY NextPassFacts DEF EndsPass
<1> QED
  BY <1>1, ResourceStays, ResourceStep

LEMMA RestartStep == ASSUME OperatorInv, Restart PROVE Steady
<1>1. UNCHANGED <<proc, pod, data, st, cr>> /\ op' \in Memory
  BY DEF Restart, Memory
<1>2. SceneKept
  BY SceneFacts, StInv DEF Restart, Kinds
<1>3. ProcessTypeOK'
  BY <1>1, <1>2, KeptSets DEF OperatorInv, Types, ProcessTypeOK, SceneKept, data
<1>4. MachineGoesOn
  BY <1>1, <1>2, <1>3 DEF MachineGoesOn, ProcsGoOn, PodsStay, OperatorInv, Tracked
<1> QED
  BY <1>1, <1>4, ActingStep, StInv

LEMMA UserStep == ASSUME OperatorInv, User PROVE Steady
<1>1. /\ UNCHANGED <<machine, st, op>> /\ cr \in Resource /\ scene.sizes \subseteq Nat
      /\ scene.changes \in Nat
  <2>1. UNCHANGED <<machine, st, op>>
    BY Zenon DEF User, RequestSize, RequestPassword, RequestDeletion, RequestFencing, Request
  <2> QED
    BY <2>1, StInv DEF Scene
<1>2. ResourceGoesOn
  <2>1. CASE RequestSize
    <3>1. PICK s \in scene.sizes : cr' = [cr EXCEPT !.size = s, !.changes = @ + 1]
      BY <2>1, Zenon DEF RequestSize
    <3>2. cr.changes < scene.changes
      BY <2>1, Zenon DEF RequestSize
    <3> DEFINE changes == cr.changes + 1
    <3>3. cr' = [cr EXCEPT !.size = s, !.changes = changes]
      BY <3>1
    <3>4. s \in Nat /\ changes \in 0..scene.changes
      BY <1>1, <3>2 DEF Resource
    <3> HIDE DEF changes
    <3> QED
      BY <1>1, <3>3, <3>4 DEF ResourceGoesOn, Resource, OperatorInv, FenceSound
  <2>2. CASE RequestPassword
    <3> DEFINE pw == cr.pw + 1
               hashes == cr.hashes \cup {cr.pw + 1}
               changes == cr.changes + 1
    <3>1. cr' = [cr EXCEPT !.pw = pw, !.hashes = hashes, !.changes = changes]
      BY <2>2 DEF RequestPassword
    <3>2. pw \in Nat /\ hashes \in SUBSET Nat /\ changes \in 0..scene.changes
      BY <1>1, <2>2 DEF RequestPassword, Resource
    <3> HIDE DEF pw, hashes, changes
    <3> QED
      BY <1>1, <3>1, <3>2 DEF ResourceGoesOn, Resource, OperatorInv, FenceSound
  <2>3. CASE RequestDeletion
    <3>1. cr' = [cr EXCEPT !.deleting = TRUE]
      BY <2>3 DEF RequestDeletion
    <3> QED
      BY <1>1, <3>1 DEF ResourceGoesOn, Resource, OperatorInv, FenceSound
  <2>4. CASE RequestFencing
    <3>1. PICK n \in Nodes \cup st.prev : proc[n.p].run = "down" /\ cr' = [cr EXCEPT !.fence = n.p]
      BY <2>4 DEF RequestFencing
    <3> DEFINE p == n.p
    <3>2. p \in Procs /\ proc[p].run = "down" /\ cr' = [cr EXCEPT !.fence = p]
      BY <3>1, EntriesInv
    <3> HIDE DEF p
    <3> QED
      BY <1>1, <3>2 DEF ResourceGoesOn, Resource
  <2> QED
    BY <2>1, <2>2, <2>3, <2>4 DEF User
<1>3. op' \in Memory
  BY <1>1, StInv
<1> QED
  BY <1>1, <1>2, <1>3, ResourceStep

-----------------------------------------------------------------------------
(* Machines                                                                 *)

LEMMA OutsideStep == ASSUME OperatorInv, MachineGoesOn, Outside PROVE Steady
  BY ActingStep, StInv DEF Outside

\* A process changes; its history is one there has been.
LEMMA OutsideProcess ==
    ASSUME OperatorInv, Outside, UNCHANGED <<pod, data>>, SceneKept,
           NEW p \in Procs, NEW r \in Process, proc' = [proc EXCEPT ![p] = r],
           \/ r.run = proc[p].run
           \/ proc[p].run \in {"starting", "up"} /\ r.run = "down",
           r.link = "deleted" => r.run = "down", r.hist <= Len(lineage)
    PROVE  Steady
<1>1. pod' \in [Ordinals -> Pod] /\ PodsStay
  BY StInv DEF PodsStay
<1>2. /\ lineage' \in Seq(Nat) /\ Len(lineage) <= Len(lineage') /\ r.hist <= Len(lineage')
      /\ served' \in 0 .. Len(lineage')
  BY DEF data, OperatorInv, Types, ProcessTypeOK
<1>3. MachineGoesOn
  BY <1>1, <1>2, ProcessGoesOn DEF OperatorInv
<1> QED
  BY <1>3, OutsideStep

LEMMA ProcFacts ==
    ASSUME OperatorInv, NEW p \in Procs
    PROVE  /\ proc[p] \in Process /\ proc[p].hist <= Len(lineage) /\ proc[p].hist \in Nat
           /\ Len(lineage) \in Nat /\ (proc[p].link = "deleted" => proc[p].run = "down")
  BY DEF OperatorInv, Types, ProcessTypeOK, Process, Tracked

LEMMA DownFacts ==
    ASSUME NEW r \in Process
    PROVE  Down(r) \in Process /\ Down(r).run = "down" /\ Down(r).hist = 0
  BY DEF Down, Blank, Process

LEMMA DeletedFacts ==
    ASSUME NEW r \in Process
    PROVE  LET s == [Down(r) EXCEPT !.link = "deleted"]
           IN  s \in Process /\ s.run = "down" /\ s.hist = 0
<1> DEFINE d == Down(r)
<1>1. d \in Process /\ d.run = "down" /\ d.hist = 0
  BY DownFacts
<1> HIDE DEF d
<1>2. LET s == [d EXCEPT !.link = "deleted"]
      IN  s \in Process /\ s.run = "down" /\ s.hist = 0
  BY <1>1 DEF Process
<1> QED
  BY <1>2 DEF d

\* What the network and the scheduler change of a process.
Touched(s, r) ==
    \/ \E link \in {"ok", "cut", "lost"} : s = [r EXCEPT !.link = link]
    \/ \E state \in {"ok", "hung", "busy"} : s = [r EXCEPT !.state = state]

LEMMA TouchedFacts ==
    ASSUME NEW r \in Process, NEW s, Touched(s, r)
    PROVE  /\ s \in Process /\ s.run = r.run /\ s.hist = r.hist
           /\ s.link = "deleted" => r.link = "deleted"
<1>1. CASE \E link \in {"ok", "cut", "lost"} : s = [r EXCEPT !.link = link]
  BY <1>1 DEF Process
<1>2. CASE \E state \in {"ok", "hung", "busy"} : s = [r EXCEPT !.state = state]
  BY <1>2 DEF Process
<1> QED
  BY <1>1, <1>2 DEF Touched

LEMMA TouchedProcess ==
    ASSUME OperatorInv, Outside, UNCHANGED <<pod, data>>, SceneKept,
           NEW p \in Procs, NEW r, Touched(r, proc[p]), proc' = [proc EXCEPT ![p] = r]
    PROVE  Steady
<1>1. /\ r \in Process /\ r.run = proc[p].run /\ r.hist = proc[p].hist
      /\ r.link = "deleted" => proc[p].link = "deleted"
  BY ProcFacts, TouchedFacts
<1> QED
  BY <1>1, ProcFacts, OutsideProcess

LEMMA KubeletStartsStep ==
    ASSUME OperatorInv, NEW o \in Ordinals, KubeletStarts(o, cr.acl), Outside PROVE Steady
<1> DEFINE p == CurrentProc(o)
           role == IF HA THEN "replica" ELSE "primary"
           hist == IF HA THEN 0 ELSE Len(lineage) + 1
           acl == cr.acl
<1>1. /\ HasPod(o) /\ proc[p].run = "starting" /\ UNCHANGED <<served, pod, scene>>
      /\ proc' = [proc EXCEPT ![p].run = "up", ![p].pw = acl, ![p].role = role, ![p].hist = hist]
      /\ lineage' = IF HA THEN lineage ELSE Append(lineage, 0)
  BY Zenon DEF KubeletStarts
<1>2. p \in Procs
  BY <1>1, LaterProcess
<1>3. /\ role \in {"primary", "replica"} /\ acl \in Nat /\ hist \in Nat
      /\ lineage' \in Seq(Nat) /\ Len(lineage) <= Len(lineage') /\ hist <= Len(lineage')
      /\ served' \in 0 .. Len(lineage')
  <2>1. lineage \in Seq(Nat) /\ served \in 0 .. Len(lineage) /\ acl \in Nat
    BY StInv DEF OperatorInv, Types, ProcessTypeOK, Resource
  <2>2. CASE HA
    BY <1>1, <2>1, <2>2
  <2>3. CASE ~HA
    BY <1>1, <2>1, <2>3
  <2> QED
    BY <2>2, <2>3
<1> HIDE DEF role, hist, acl, p
<1> DEFINE q == proc[p]
           r == [q EXCEPT !.run = "up", !.pw = acl, !.role = role, !.hist = hist]
<1>4. proc' = [proc EXCEPT ![p] = r]
  <2> DEFINE a == [q EXCEPT !.run = "up"]
             b == [a EXCEPT !.pw = acl]
             c == [b EXCEPT !.role = role]
             d == [c EXCEPT !.hist = hist]
             f1 == [proc EXCEPT ![p] = a]
             f2 == [f1 EXCEPT ![p] = b]
             f3 == [f2 EXCEPT ![p] = c]
             f4 == [f3 EXCEPT ![p] = d]
  <2>1. proc \in [Procs -> Process]
    BY StInv
  <2>2. f1[p] = a /\ f2[p] = b /\ f3[p] = c /\ f4 = [proc EXCEPT ![p] = d]
    <3> HIDE DEF a, b, c, d
    <3> QED
      BY <1>2, <2>1
  <2>3. proc' = [f3 EXCEPT ![p] = [f3[p] EXCEPT !.hist = hist]]
    <3>1. proc' = [[f1 EXCEPT ![p] = [f1[p] EXCEPT !.pw = acl]] EXCEPT
                      ![p].role = role, ![p].hist = hist]
      BY <1>1
    <3> HIDE DEF f1, a
    <3>2. proc' = [f2 EXCEPT ![p].role = role, ![p].hist = hist]
      BY <2>2, <3>1
    <3>3. proc' = [[f2 EXCEPT ![p] = [f2[p] EXCEPT !.role = role]] EXCEPT ![p].hist = hist]
      BY <3>2
    <3> HIDE DEF f2, b
    <3> QED
      BY <2>2, <3>3
  <2>4. d = r
    OBVIOUS
  <2> HIDE DEF f1, f2, f3, a, b
  <2> QED
    BY <2>2, <2>3, <2>4
<1>5. q \in Process /\ q.link # "deleted" /\ q.run = "starting"
  BY <1>1, <1>2, ProcFacts
<1> HIDE DEF q
<1>6. r \in Process /\ r.run = "up" /\ r.link = q.link /\ r.hist = hist
  BY <1>3, <1>5 DEF Process
<1> HIDE DEF r
<1>7. SceneKept /\ pod' \in [Ordinals -> Pod] /\ PodsStay
  BY <1>1, SceneFacts, StInv DEF PodsStay
<1>8. MachineGoesOn
  BY <1>2, <1>3, <1>4, <1>5, <1>6, <1>7, ProcessGoesOn DEF OperatorInv, q
<1> QED
  BY <1>8, OutsideStep

LEMMA KubeletStopsStep ==
    ASSUME OperatorInv, NEW o \in Ordinals, KubeletStops(o), Outside PROVE Steady
<1> DEFINE p == CurrentProc(o)
           r == Down(proc[p])
<1>1. /\ HasPod(o) /\ proc[p].run \in {"starting", "up"}
      /\ proc' = [proc EXCEPT ![p] = r] /\ UNCHANGED <<pod, data, scene>>
  BY DEF KubeletStops
<1>2. p \in Procs
  BY <1>1, LaterProcess
<1> HIDE DEF p
<1>3. r \in Process /\ r.run = "down" /\ r.hist = 0 /\ 0 <= Len(lineage)
  BY <1>2, ProcFacts, DownFacts
<1> HIDE DEF r
<1>4. SceneKept
  BY <1>1, SceneFacts, StInv
<1> QED
  BY <1>1, <1>2, <1>3, <1>4, OutsideProcess

LEMMA SynchronizeStep ==
    ASSUME OperatorInv, NEW p \in Procs, Synchronize(p), Outside PROVE Steady
<1>1. PICK q \in Upstreams(p) : CanCopy(p, q) /\ proc' = [proc EXCEPT ![p].hist = proc[q].hist]
  BY Zenon DEF Synchronize
<1>2. UNCHANGED <<pod, data, scene>>
  BY DEF Synchronize
<1>3. q \in Procs
  <2>1. proc[p].source \in Procs \cup {Nil}
    BY ProcFacts DEF Process
  <2> QED
    BY <1>1, <2>1 DEF Upstreams, ServiceTargets
<1> DEFINE hist == proc[q].hist
           s == proc[p]
           r == [s EXCEPT !.hist = hist]
<1>4. proc' = [proc EXCEPT ![p] = r]
  BY <1>1
<1>5. hist \in Nat /\ hist <= Len(lineage)
  BY <1>3, ProcFacts
<1>6. s \in Process /\ (s.link = "deleted" => s.run = "down")
  BY ProcFacts
<1> HIDE DEF s, hist
<1>7. r \in Process /\ r.run = s.run /\ r.link = s.link /\ r.hist = hist
  BY <1>5, <1>6 DEF Process
<1> HIDE DEF r
<1>8. SceneKept
  BY <1>2, SceneFacts, StInv
<1> QED
  BY <1>2, <1>4, <1>5, <1>6, <1>7, <1>8, OutsideProcess DEF s

LEMMA ReturnsStep ==
    ASSUME OperatorInv, NEW p \in Procs, LinkReturns(p) \/ Resume(p), Outside PROVE Steady
<1>1. UNCHANGED <<pod, data, scene>>
  BY Zenon DEF LinkReturns, Resume, Changes
<1>2. \E r : Touched(r, proc[p]) /\ proc' = [proc EXCEPT ![p] = r]
  <2>1. CASE LinkReturns(p)
    <3> DEFINE r == [proc[p] EXCEPT !.link = "ok"]
    <3>1. proc' = [proc EXCEPT ![p] = r]
      BY <2>1 DEF LinkReturns, Changes
    <3>2. Touched(r, proc[p])
      BY DEF Touched
    <3> HIDE DEF r
    <3> QED
      BY <3>1, <3>2
  <2>2. CASE Resume(p)
    <3> DEFINE r == [proc[p] EXCEPT !.state = "ok"]
    <3>1. proc' = [proc EXCEPT ![p] = r]
      BY <2>2 DEF Resume, Changes
    <3>2. Touched(r, proc[p])
      BY DEF Touched
    <3> HIDE DEF r
    <3> QED
      BY <3>1, <3>2
  <2> QED
    BY <2>1, <2>2
<1>3. SceneKept
  BY <1>1, SceneFacts, StInv
<1> QED
  BY <1>1, <1>2, <1>3, TouchedProcess

\* Failures of the machines and the links.
LEMMA TouchingFaultStep ==
    ASSUME OperatorInv, NEW p \in Procs, Outside,
           Isolate(p) \/ Cut(p) \/ Hang(p) \/ Busy(p) \/ Unplaced(p)
    PROVE  Steady
<1>1. \E kind \in Kinds : \E r : Touched(r, proc[p]) /\ Fault(kind, p, r)
  <2>1. ASSUME NEW link \in {"lost", "cut"} PROVE Touched([proc[p] EXCEPT !.link = link], proc[p])
    BY DEF Touched
  <2>2. ASSUME NEW state \in {"hung", "busy"} PROVE Touched([proc[p] EXCEPT !.state = state], proc[p])
    BY DEF Touched
  <2>3. /\ {"isolate", "cut", "hang", "busy", "unplaced"} \subseteq Kinds
        /\ "lost" \in {"lost", "cut"} /\ "cut" \in {"lost", "cut"}
        /\ "hung" \in {"hung", "busy"} /\ "busy" \in {"hung", "busy"}
    BY DEF Kinds
  <2> QED
    BY <2>1, <2>2, <2>3, Zenon DEF Isolate, Cut, Hang, Busy, Unplaced
<1>2. PICK r : Touched(r, proc[p]) /\ \E kind \in Kinds : Fault(kind, p, r)
  BY <1>1
<1>3. SceneKept /\ proc' = [proc EXCEPT ![p] = r] /\ UNCHANGED <<pod, data>>
  BY <1>2, SceneFacts, StInv DEF Fault
<1> QED
  BY <1>2, <1>3, TouchedProcess

LEMMA StoppingStep ==
    ASSUME OperatorInv, NEW p \in Procs, Crash(p) \/ PowerOff(p) \/ DeleteNode(p), Outside
    PROVE  Steady
<1>1. Len(lineage) \in Nat /\ proc[p] \in Process
  BY ProcFacts
<1>2. \E r \in Process : /\ r.run = "down" /\ r.hist = 0 /\ proc' = [proc EXCEPT ![p] = r]
  BY <1>1, DownFacts, DeletedFacts, Zenon DEF Crash, PowerOff, DeleteNode, Changes, Fault
<1>3. PICK r \in Process : r.run = "down" /\ r.hist = 0 /\ proc' = [proc EXCEPT ![p] = r]
  BY <1>2, Zenon
<1>4. SceneKept /\ UNCHANGED <<pod, data>>
  <2>1. "crash" \in Kinds
    BY DEF Kinds
  <2>2. (\E kind \in Kinds : Fails(kind)) \/ UNCHANGED scene
    BY <2>1, Zenon DEF Crash, PowerOff, DeleteNode, Changes, Fault
  <2>3. UNCHANGED <<pod, data>>
    BY Zenon DEF Crash, PowerOff, DeleteNode, Changes, Fault
  <2> QED
    BY <2>2, <2>3, SceneFacts, StInv
<1>5. proc[p].run \in {"up", "down"}
  BY DEF Crash, PowerOff, DeleteNode, Up
<1>6. /\ r.run = proc[p].run \/ (proc[p].run = "up" /\ r.run = "down")
      /\ r.hist <= Len(lineage)
  BY <1>1, <1>3, <1>5
<1> QED
  BY <1>3, <1>4, <1>6, OutsideProcess

\* Somebody else removes a Pod, or makes one.
LEMMA RemovePodStep ==
    ASSUME OperatorInv, NEW o \in Ordinals, Known(CurrentProc(o)) # {}, RemovePod(o), Outside
    PROVE  Steady
<1> DEFINE p == CurrentProc(o)
           r == IF NodeReady(p) THEN Down(proc[p]) ELSE proc[p]
<1>1. /\ HasPod(o) /\ Fails("replace") /\ pod' = [pod EXCEPT ![o] = NoPod] /\ UNCHANGED data
      /\ proc' = [proc EXCEPT ![p] = r] /\ proc[p].run \in {"up", "down"}
  BY DEF RemovePod
<1>2. p \in Procs /\ Knows(st, p)
  BY <1>1, LaterProcess, KnownFacts
<1>3. /\ r \in Process /\ r.run \in {"down", proc[p].run} /\ r.hist <= Len(lineage)
      /\ r.link = "deleted" => r.run = "down"
  <2>1. 0 <= Len(lineage)
    BY <1>2, ProcFacts
  <2>2. Down(proc[p]) \in Process /\ Down(proc[p]).run = "down" /\ Down(proc[p]).hist = 0
    BY <1>2, ProcFacts, DownFacts
  <2> HIDE DEF p
  <2> QED
    BY <1>2, <2>1, <2>2, ProcFacts
<1>4. SceneKept
  BY <1>1, SceneFacts, StInv DEF Kinds
<1>5. pod' \in [Ordinals -> Pod]
  BY <1>1, StInv DEF Pod, NoPod, Scene
<1>6. /\ lineage' \in Seq(Nat) /\ Len(lineage) <= Len(lineage') /\ r.hist <= Len(lineage')
      /\ served' \in 0 .. Len(lineage')
  BY <1>1, <1>3 DEF data, OperatorInv, Types, ProcessTypeOK
<1> HIDE DEF p, r
<1>7. \/ r.run = proc[p].run
      \/ proc[p].run = "up" /\ r.run = "down"
  BY <1>1, <1>3
<1>8. ProcessTypeOK' /\ ProcsGoOn
  BY <1>1, <1>2, <1>3, <1>4, <1>5, <1>6, <1>7, ProcessChanges DEF OperatorInv
<1>9. UNCHANGED <<st, cr>> /\ op' \in Memory
  BY StInv DEF Outside
<1> QED
  BY <1>1, <1>2, <1>4, <1>8, <1>9, VanishedPod DEF p

LEMMA MakePodStep ==
    ASSUME OperatorInv, NEW o \in Ordinals, ~cr.deleting, MakePod(o, TemplateSize), Outside
    PROVE  Steady
<1> DEFINE i == Used(o) + 1
           size == TemplateSize
           new == FreshProcess(size)
           S == {o}
<1>1. /\ "remake" \in scene.kinds /\ ~HasPod(o) /\ Used(o) < scene.incs /\ UNCHANGED <<data, scene>>
      /\ pod' = [pod EXCEPT ![o] = FreshPod(i)] /\ proc' = [proc EXCEPT ![<<o, i>>] = new]
  BY Zenon DEF MakePod, NewPod, FreshPod, FreshProcess
<1>2. size \in Nat
  BY StInv DEF TemplateSize, Configuration
<1>3. i \in 1..scene.incs
  BY <1>1, UsedFacts, StInv DEF Scene
<1>4. <<o, i>> \in Procs /\ \A p \in Procs : p = <<p[1], p[2]>>
  BY <1>3, ProcsAreNamed, StInv
<1> HIDE DEF i, size
<1>5. /\ FreshPod(i) \in Pod /\ FreshPod(i).inc = i
      /\ new \in Process /\ new.run = "starting" /\ new.link = "ok" /\ new.hist = 0
  BY <1>2, <1>3, FreshFacts
<1> HIDE DEF new
<1>6. /\ pod' \in [Ordinals -> Pod] /\ pod'[o].inc = i
      /\ \A q \in Ordinals : q \notin S => pod'[q] = pod[q]
  BY <1>1, <1>5, StInv
<1>7. /\ proc' \in [Procs -> Process]
      /\ \A p \in Procs : proc'[p] = IF p[1] \in S /\ p[2] = i THEN new ELSE proc[p]
  BY <1>1, <1>4, <1>5, StInv
<1>8. cr.exists /\ UNCHANGED <<st, cr>> /\ op' \in Memory
  BY StInv DEF Outside, OperatorInv, Gone
<1>9. /\ S \in SUBSET Ordinals /\ \A q \in S : q = o
      /\ \A p \in Procs : p[1] \in S => p[1] = o
  OBVIOUS
<1> HIDE DEF S
<1>10. \A q \in S : pod'[q].inc = Used(q) + 1 /\ ~HasPod(q) /\ Used(q) < scene.incs
  BY <1>1, <1>6, <1>9 DEF i
<1>11. \A p \in Procs : proc'[p] = IF p[1] \in S /\ p[2] = Used(p[1]) + 1 THEN new ELSE proc[p]
  BY <1>7, <1>9 DEF i
<1> QED
  BY <1>1, <1>5, <1>6, <1>7, <1>8, <1>9, <1>10, <1>11, NewPods

-----------------------------------------------------------------------------
(* The system                                                               *)

LEMMA NextStep == ASSUME OperatorInv, Next PROVE Steady
<1>1. CASE Observes
  BY <1>1, ObservesStep
<1>2. CASE Acts
  BY <1>2, ActsStep
<1>3. CASE EndsPass
  BY <1>3, EndsPassStep
<1>4. CASE Restart
  BY <1>4, RestartStep
<1>5. CASE Kubelet
  BY <1>5, KubeletStartsStep, KubeletStopsStep, Zenon DEF Kubelet
<1>6. CASE Copies
  BY <1>6, SynchronizeStep DEF Copies
<1>7. CASE Returns
  BY <1>7, ReturnsStep DEF Returns
<1>8. CASE Failures
  <2>1. CASE \E p \in Procs : LateCommand(p) /\ Outside
    BY <2>1, LateCommandGoesOn, OutsideStep DEF OperatorInv
  <2>2. CASE \E p \in Procs :
               (Isolate(p) \/ Cut(p) \/ Hang(p) \/ Busy(p) \/ Unplaced(p)) /\ Outside
    BY <2>2, TouchingFaultStep
  <2>3. CASE \E p \in Procs : (Crash(p) \/ PowerOff(p) \/ DeleteNode(p)) /\ Outside
    BY <2>3, StoppingStep
  <2>4. CASE \E o \in Ordinals : ~cr.deleting /\ Known(CurrentProc(o)) # {} /\ RemovePod(o) /\ Outside
    BY <2>4, RemovePodStep
  <2>5. CASE \E o \in Ordinals : ~cr.deleting /\ MakePod(o, TemplateSize) /\ Outside
    BY <2>5, MakePodStep
  <2> QED
    BY <1>8, <2>1, <2>2, <2>3, <2>4, <2>5, Zenon DEF Failures
<1>9. CASE User
  BY <1>9, UserStep
<1> QED
  BY <1>1, <1>2, <1>3, <1>4, <1>5, <1>6, <1>7, <1>8, <1>9 DEF Next

LEMMA StutteringStep == ASSUME OperatorInv, UNCHANGED vars PROVE Steady
<1>1. UNCHANGED <<machine, cr>> /\ GoodStatus(st') /\ op' \in Memory
  BY StInv DEF vars, machine, data
<1> QED
  BY <1>1, WritingStep

-----------------------------------------------------------------------------
(* The beginning                                                            *)

LEMMA ServingFacts ==
    ASSUME scene \in Scene, NEW o \in Ordinals
    PROVE  /\ Serving0(o) \in NodeStatus /\ Serving0(o).p = <<o, 1>> /\ ~Serving0(o).term
           /\ Serving0(o).role \in {"primary", "replica"} /\ Serving0(o).up \in Procs \cup {Nil}
<1> DEFINE role == IF o = 0 THEN "primary" ELSE "replica"
           up == IF o = 0 THEN Nil ELSE <<0, 1>>
           follows == o # 0
           p == <<o, 1>>
<1>1. 1 \in 1..scene.incs
  BY DEF Scene
<1>2. p \in Procs /\ up \in Procs \cup {Nil} /\ follows \in BOOLEAN
      /\ role \in {"primary", "replica"}
  BY <1>1, ProcsAreNamed
<1> HIDE DEF p, up, follows, role
<1> DEFINE a == [NodeOf(p) EXCEPT !.role = role, !.app = TRUE, !.pw = 1]
           b == [a EXCEPT !.ready = TRUE, !.hist = 1, !.up = up]
           c == [b EXCEPT !.link = follows, !.synced = follows]
<1>3. Serving0(o) = c
  BY Zenon DEF Serving0, p, role, up, follows
<1>4. a \in NodeStatus /\ a.p = p /\ ~a.term /\ a.role = role
  BY <1>2 DEF NodeOf, NodeStatus, NodeStatusOf
<1> HIDE DEF a
<1>5. b \in NodeStatus /\ b.p = p /\ ~b.term /\ b.role = role /\ b.up = up
  BY <1>2, <1>4 DEF NodeStatus, NodeStatusOf
<1> HIDE DEF b
<1>6. c \in NodeStatus /\ c.p = p /\ ~c.term /\ c.role = role /\ c.up = up
  BY <1>2, <1>5 DEF NodeStatus, NodeStatusOf
<1> HIDE DEF c
<1> QED
  BY <1>2, <1>3, <1>6 DEF p

LEMMA InitProcesses ==
    ASSUME Init
    PROVE  /\ scene \in Scene /\ scene.serving \in BOOLEAN /\ ProcessTypeOK
           /\ \A p \in Procs : /\ proc[p].run = IF scene.serving /\ p[2] = 1 THEN "up" ELSE "absent"
                               /\ proc[p].link = "ok"
           /\ \A o \in Ordinals : pod[o].inc = IF scene.serving THEN 1 ELSE 0
<1>1. scene \in Scene /\ scene.serving \in BOOLEAN /\ scene.incs \in Nat \ {0}
  <2>1. scene \in Scene
    BY ProcessAssumption, Zenon DEF Init
  <2> QED
    BY <2>1 DEF Scene
<1> DEFINE Served(p) == [Blank EXCEPT !.run = "up", !.role = Serving0(p[1]).role,
                                      !.source = Serving0(p[1]).up, !.hist = 1, !.app = TRUE,
                                      !.clients = {1}, !.pw = 1, !.size = InitialSize]
<1>2. proc = [p \in Procs |-> IF scene.serving /\ p[2] = 1 THEN Served(p) ELSE Blank]
  BY Zenon DEF Init
<1>3. ASSUME NEW p \in Procs
      PROVE  /\ Served(p) \in Process /\ Served(p).run = "up" /\ Served(p).link = "ok"
             /\ Served(p).hist = 1
  <2> DEFINE role == Serving0(p[1]).role
             up == Serving0(p[1]).up
             size == InitialSize
             clients == {1}
  <2>1. /\ role \in {"primary", "replica"} /\ up \in Procs \cup {Nil} /\ size \in Nat
        /\ clients \in SUBSET Nat
    BY <1>1, ServingFacts, ProcsAreNamed DEF InitialSize
  <2> HIDE DEF role, up, size, clients
  <2> DEFINE a == [Blank EXCEPT !.run = "up", !.role = role, !.source = up]
             b == [a EXCEPT !.hist = 1, !.app = TRUE, !.clients = clients]
             c == [b EXCEPT !.pw = 1, !.size = size]
  <2>2. Served(p) = c
    BY Zenon DEF role, up, size, clients
  <2>3. a \in Process /\ a.run = "up" /\ a.link = "ok"
    BY <2>1 DEF Blank, Process
  <2> HIDE DEF a
  <2>4. b \in Process /\ b.run = "up" /\ b.link = "ok" /\ b.hist = 1
    BY <2>1, <2>3 DEF Process
  <2> HIDE DEF b
  <2>5. c \in Process /\ c.run = "up" /\ c.link = "ok" /\ c.hist = 1
    BY <2>1, <2>4 DEF Process
  <2> HIDE DEF c, Served
  <2> QED
    BY <2>2, <2>5
<1>4. Blank \in Process /\ Blank.run = "absent" /\ Blank.link = "ok" /\ Blank.hist = 0
  BY DEF Blank, Process
<1> HIDE DEF Served
<1>5. /\ proc \in [Procs -> Process]
      /\ \A p \in Procs : /\ proc[p].run = IF scene.serving /\ p[2] = 1 THEN "up" ELSE "absent"
                          /\ proc[p].link = "ok"
                          /\ proc[p].hist = IF scene.serving /\ p[2] = 1 THEN 1 ELSE 0
  BY <1>2, <1>3, <1>4
<1>6. /\ pod \in [Ordinals -> Pod]
      /\ \A o \in Ordinals : pod[o].inc = IF scene.serving THEN 1 ELSE 0
  <2> DEFINE q(o) == [inc |-> 1, deleting |-> FALSE, label |-> Serving0(o).role]
  <2>1. ASSUME NEW o \in Ordinals PROVE q(o) \in Pod /\ q(o).inc = 1
    <3>1. Serving0(o).role \in {"none", "primary", "replica"} /\ 1 \in 0..scene.incs
      BY <1>1, ServingFacts
    <3> QED
      BY <3>1 DEF Pod
  <2>2. NoPod \in Pod /\ NoPod.inc = 0
    BY <1>1 DEF NoPod, Pod
  <2>3. pod = [o \in Ordinals |-> IF scene.serving THEN q(o) ELSE NoPod]
    BY Zenon DEF Init
  <2> HIDE DEF q
  <2> QED
    BY <2>1, <2>2, <2>3
<1>7. /\ lineage \in Seq(Nat) /\ served \in 0 .. Len(lineage)
      /\ Len(lineage) = IF scene.serving THEN 1 ELSE 0
  <2>1. /\ served = IF scene.serving THEN 1 ELSE 0
        /\ lineage = IF scene.serving THEN <<0>> ELSE <<>>
    BY Zenon DEF Init
  <2>2. CASE scene.serving
    BY <2>1, <2>2
  <2>3. CASE ~scene.serving
    BY <2>1, <2>3
  <2> QED
    BY <2>2, <2>3
<1> QED
  BY <1>1, <1>5, <1>6, <1>7 DEF ProcessTypeOK

LEMMA InitStatus == ASSUME Init PROVE StatusOK(st)
<1> DEFINE b == scene.serving
           nodes == [o \in Ordinals |-> IF scene.serving THEN Serving0(o) ELSE Nil]
           applied == IF scene.serving THEN [size |-> InitialSize, pw |-> 1] ELSE [size |-> 0, pw |-> 0]
           accepted == [size |-> InitialSize, pw |-> 1]
           primary == IF scene.serving THEN <<0, 1>> ELSE Nil
<1>1. st = [accepted |-> accepted, applied |-> applied, initialized |-> b, nodes |-> nodes,
            prev |-> {}, primary |-> primary, failover |-> Nil, rollout |-> Nil, rotation |-> Nil,
            deletion |-> Nil, public |-> b, empty |-> FALSE, loss |-> "no", reported |-> b]
  BY Zenon DEF Init
<1>2. scene \in Scene /\ b \in BOOLEAN /\ 1 \in 1..scene.incs
  BY InitProcesses DEF Scene
<1>3. accepted \in Configuration /\ applied \in Configuration
  BY DEF Configuration, InitialSize
<1>4. <<0, 1>> \in Procs /\ 0 \in Ordinals /\ primary \in Procs \cup {Nil}
  BY <1>2, ProcsAreNamed
<1>5. \A o \in Ordinals : Serving0(o) \in NodeStatus /\ Serving0(o).p = <<o, 1>> /\ ~Serving0(o).term
  BY <1>2, ServingFacts
<1>6. nodes \in [Ordinals -> NodeStatus \cup {Nil}]
  BY <1>5
<1>7. \A o \in Ordinals : nodes[o] # Nil => b /\ nodes[o] = Serving0(o)
  OBVIOUS
<1>8. primary # Nil => b /\ primary = <<0, 1>>
  OBVIOUS
<1>9. b => Serving0(0) # Nil /\ nodes[0] = Serving0(0)
  <2>1. \A n \in NodeStatus : n # Nil
    BY <1>2, ProcsAreNamed, StatusAssumption DEF NodeStatus, NodeStatusOf
  <2> QED
    BY <1>4, <1>5, <2>1
<1> HIDE DEF b, nodes, applied, accepted, primary
<1>10. /\ st \in Status /\ st.nodes = nodes /\ st.prev = {} /\ st.primary = primary
       /\ st.failover = Nil /\ st.rollout = Nil /\ st.initialized = b /\ st.public = b
       /\ st.reported = b
  BY <1>1, <1>2, <1>3, <1>4, <1>6 DEF Status
<1>11. Entries(st) = {nodes[o] : o \in {i \in Ordinals : nodes[i] # Nil}}
  BY <1>10 DEF Entries
<1>12. Keyed(st)
  BY <1>5, <1>7, <1>10 DEF Keyed
<1>13. Faithful(st)
  <2>1. ASSUME NEW o \in Ordinals, nodes[o] # Nil
        PROVE  proc[nodes[o].p].run = "up" /\ ~nodes[o].term
    <3>1. nodes[o].p = <<o, 1>> /\ b /\ ~nodes[o].term
      BY <1>5, <1>7, <2>1
    <3>2. <<o, 1>> \in Procs
      BY <1>2, ProcsAreNamed
    <3> QED
      BY <3>1, <3>2, InitProcesses DEF b
  <2> QED
    BY <1>11, <2>1 DEF Faithful
<1>14. NamesKnown(st)
  BY <1>4, <1>5, <1>8, <1>9, <1>10, <1>11 DEF NamesKnown, Knows
<1>15. Orderly(st)
  BY <1>10 DEF Orderly
<1> QED
  BY <1>10, <1>12, <1>13, <1>14, <1>15 DEF StatusOK

LEMMA InitInv == Init => OperatorInv
<1> SUFFICES ASSUME Init PROVE OperatorInv
  OBVIOUS
<1>1. /\ scene \in Scene /\ scene.serving \in BOOLEAN /\ 1 \in 1..scene.incs /\ scene.changes \in Nat
      /\ scene.incs \in Nat
      /\ \A p \in Procs : p[1] \in Ordinals /\ p[2] \in 1..scene.incs /\ p = <<p[1], p[2]>>
      /\ \A o \in Ordinals, i \in 1..scene.incs : <<o, i>> \in Procs
  BY InitProcesses, ProcsAreNamed DEF Scene
<1>2. Types
  <2>1. cr \in Resource
    <3>1. cr = [size |-> InitialSize, pw |-> 1, deleting |-> FALSE, fence |-> Nil, acl |-> 1,
                hashes |-> {1}, exists |-> TRUE, changes |-> 0]
      BY Zenon DEF Init
    <3> QED
      BY <1>1, <3>1 DEF Resource, InitialSize
  <2>2. op \in Memory
    <3>1. (IF scene.serving THEN Ordinals \X {1} ELSE {}) \in SUBSET Procs
      BY <1>1
    <3> DEFINE controlled == IF scene.serving THEN Ordinals \X {1} ELSE {}
    <3>2. op = [todo |-> Ordinals, err |-> FALSE, skipped |-> {}, counted |-> {},
                controlled |-> controlled]
      BY Zenon DEF Init
    <3> HIDE DEF controlled
    <3> QED
      BY <3>1, <3>2 DEF Memory, controlled
  <2> QED
    BY <2>1, <2>2, InitProcesses DEF Types
<1>3. Incarnations
  <2> SUFFICES ASSUME NEW o \in Ordinals
               PROVE  \E k \in 0..scene.incs :
                        /\ \A i \in 1..scene.incs : proc[<<o, i>>].run # "absent" <=> i <= k
                        /\ pod[o].inc \in {0, k}
    BY DEF Incarnations
  <2> DEFINE k == IF scene.serving THEN 1 ELSE 0
  <2>1. k \in 0..scene.incs /\ pod[o].inc \in {0, k}
    BY <1>1, InitProcesses
  <2>2. ASSUME NEW i \in 1..scene.incs PROVE proc[<<o, i>>].run # "absent" <=> i <= k
    <3>1. <<o, i>> \in Procs /\ <<o, i>>[2] = i
      BY <1>1
    <3> QED
      BY <1>1, <3>1, InitProcesses
  <2> QED
    BY <2>1, <2>2
<1>4. Tracked
  <2>1. \A p \in Procs : Alive(p) => Up(p) /\ p[2] = 1 /\ IsPodOf(p)
    BY <1>1, InitProcesses DEF Alive, Up, IsPodOf
  <2>2. \A p \in Procs : proc[p].run # "starting" /\ proc[p].link # "deleted"
    BY InitProcesses
  <2> QED
    BY <1>1, <2>1, <2>2 DEF Tracked, Alive, Up
<1>5. FenceSound /\ Gone
  <2>1. cr = [size |-> InitialSize, pw |-> 1, deleting |-> FALSE, fence |-> Nil, acl |-> 1,
              hashes |-> {1}, exists |-> TRUE, changes |-> 0]
    BY Zenon DEF Init
  <2> QED
    BY <2>1 DEF FenceSound, Gone
<1> QED
  BY <1>2, <1>3, <1>4, <1>5, InitStatus DEF OperatorInv

LEMMA NextInv == OperatorInv /\ [Next]_vars => OperatorInv'
  BY NextStep, StutteringStep DEF Steady

-----------------------------------------------------------------------------
(* Theorems                                                                 *)

\* The status keeps one entry per process: the current ones under their ordinal,
\* earlier ones in a list keyed by identity (appendPreviousProcess,
\* setNodeStatus), whatever Pods come and go.
THEOREM OperatorTypeCorrect == Spec => []OperatorTypeOK
<1>1. OperatorInv => OperatorTypeOK
  <2> SUFFICES ASSUME OperatorInv PROVE OperatorTypeOK
    OBVIOUS
  <2>1. ProcessTypeOK /\ st \in Status /\ cr \in Resource /\ op \in Memory
    BY StInv DEF OperatorInv, Types
  <2>2. \A n \in Nodes : st.nodes[n.p[1]] = n
    BY EntriesInv
  <2>3. ASSUME NEW n \in st.prev PROVE Known(n.p) = {n}
    <3>1. ASSUME NEW m \in Nodes PROVE m.p # n.p
      <4>1. n.p[2] < st.nodes[n.p[1]].p[2] /\ st.nodes[m.p[1]] = m
        BY EntriesInv
      <4>2. m.p \in Procs
        BY EntriesInv
      <4>3. m.p[2] \in Nat
        BY <4>2, ProcsAreNamed, StInv DEF Scene
      <4> QED
        BY <4>1, <4>3
    <3>2. \A q \in st.prev : q.p = n.p => q = n
      BY EntriesInv
    <3> QED
      BY <3>1, <3>2 DEF Known
  <2> QED
    BY <2>1, <2>2, <2>3 DEF OperatorTypeOK, Resource, Memory
<1> QED
  BY <1>1, InitInv, NextInv, PTL DEF Spec

\* Whatever saveContainerTermination, saveNodeDeletionTermination, a change of
\* identity or a manual fencing records as a stop is one, also for a process on
\* a machine nobody reaches, and it stays one: a process never comes back.
THEOREM ProofOfStopHolds == Spec => []ProofOfStop
<1>1. OperatorInv => ProofOfStop
  BY EntriesInv DEF ProofOfStop
<1> QED
  BY <1>1, InitInv, NextInv, PTL DEF Spec

\* processCreationAllowed makes the next Pod of an ordinal only when every
\* process the ordinal has had is proven stopped, so no two of them run at once,
\* unless somebody else makes Pods.
THEOREM SoleProcessHolds == Spec => []SoleProcess
<1>1. OperatorInv => SoleProcess
  BY DEF OperatorInv, Tracked, SoleProcess, Alive, Up
<1> QED
  BY <1>1, InitInv, NextInv, PTL DEF Spec

\* finishDeletion lets the resource go only when no process can still run: a
\* process outside the Pod of its ordinal has an entry, and every entry carries
\* the proof of a stop.
THEOREM DeletedMeansStoppedHolds == Spec => []DeletedMeansStopped
<1>1. OperatorInv => DeletedMeansStopped
  <2> SUFFICES ASSUME OperatorInv, ~cr.exists, NEW p \in Procs
               PROVE  proc[p].run \in {"absent", "down"}
    BY DEF DeletedMeansStopped
  <2>1. proc[p].run \in {"absent", "starting", "up", "down"}
    BY ProcFacts DEF Process
  <2> QED
    BY <2>1 DEF OperatorInv, Gone, Alive
<1> QED
  BY <1>1, InitInv, NextInv, PTL DEF Spec

\* previousProcessRequired keeps the entries a failover, a rollout or the
\* primary assignment names, so no step meets a name it cannot resolve; and no
\* failover runs beside a full stop that owns the availability.
THEOREM OperationsNameTheKnownHolds == Spec => []OperationsNameTheKnown
<1>1. OperatorInv => OperationsNameTheKnown
  <2> SUFFICES ASSUME OperatorInv PROVE OperationsNameTheKnown
    OBVIOUS
  <2>1. \A p : Knows(st, p) => Known(p) # {}
    BY KnownFacts
  <2>2. NamesKnown(st)
    BY StInv
  <2>3. st.failover # Nil => ~FullStopOwnsAvailability
    <3>1. st.failover # Nil =>
            HA /\ (st.rollout # Nil /\ st.rollout.stage \in {"stopping", "template"}
                      => st.accepted.size >= st.applied.size)
      BY StInv DEF Orderly
    <3>2. st.accepted.size \in Nat /\ st.applied.size \in Nat
      BY StInv DEF Configuration
    <3> QED
      BY <3>1, <3>2 DEF FullStopOwnsAvailability, RolloutRequiresFullStop
  <2> QED
    BY <2>1, <2>2, <2>3 DEF NamesKnown, OperationsNameTheKnown
<1> QED
  BY <1>1, InitInv, NextInv, PTL DEF Spec

\* Once a promotion may have been carried out (MayBePrimary) no step gives its
\* candidate up for another one: it stays the candidate, becomes the primary, or
\* has stopped.  A lost answer or a restart of the operator does not change that.
THEOREM CandidateKeptHolds == Spec => CandidateKept
<1>1. OperatorInv /\ [Next]_vars => KeepsCandidate(st')
  BY NextStep, StutteringStep DEF Steady
<1>2. OperatorInv /\ [Next]_vars =>
          [ st.failover # Nil /\ st.failover.mayBe =>
              \/ st'.failover # Nil /\ st'.failover.cand = st.failover.cand
              \/ st'.primary = st.failover.cand
              \/ proc[st.failover.cand].run = "down" ]_vars
  BY <1>1 DEF KeepsCandidate
<1> QED
  BY <1>2, InitInv, NextInv, PTL DEF Spec, CandidateKept
=============================================================================
