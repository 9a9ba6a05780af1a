--------------------------- MODULE ValkeyProcess ---------------------------
(***************************************************************************)
(* What the operator works on: the Valkey processes of one instance, their *)
(* Pods and Nodes, and the administrative sessions of                      *)
(* operator/internal/valkey that change a process.                         *)
(*                                                                         *)
(* A Pod runs one process (restartPolicy Never), so a process is named by  *)
(* its ordinal and the incarnation of the Pod: the Pod UID, container ID,  *)
(* run ID and Node UID of the code always change together.                 *)
(*                                                                         *)
(* A command whose answer was lost may still take effect later.  It sits   *)
(* in "late" until it does, or until a later session kills the connection  *)
(* it came through.                                                        *)
(***************************************************************************)
EXTENDS Integers, Sequences, FiniteSets

CONSTANTS
    Nil,            \* no value; as an upstream: the primary Service
    Scenes          \* the instances of a run, and what may happen to each

VARIABLES
    proc,       \* every process there has been
    pod,        \* the Pod of each ordinal
    lineage,    \* the replication history each history was forked from (0: none)
    served,     \* the history the application wrote to last (0: nothing is kept)
    scene       \* one of Scenes, chosen at the beginning

data == <<lineage, served>>

Kinds == {"crash", "isolate", "cut", "hang", "busy", "lost", "restart", "replace", "remake",
          "unplaced"}

\* count: processes of the instance, 1 (single) or more (HA; the code has 3);
\* serving: it serves already, or has only just been created.  The rest bounds
\* what happens: incs, the Pods an ordinal goes through; faults of the given
\* kinds, of processes, links and calls; changes, the requests that change the
\* password or the size to one of sizes; requests, the kinds of request.
Scene == [count: Nat \ {0}, serving: BOOLEAN, incs: Nat \ {0}, faults: Nat,
          kinds: SUBSET Kinds, requests: SUBSET {"size", "password", "delete", "fence"},
          changes: Nat, sizes: SUBSET Nat]

Ordinals == 0 .. scene.count - 1
Procs == Ordinals \X (1..scene.incs)
HA == scene.count > 1

ASSUME ProcessAssumption ==
    /\ \A s \in Scenes : s \in Scene
    /\ Nil \notin Nat \X Nat

\* A failure of the given kind happens.
Fails(kind) ==
    /\ kind \in scene.kinds /\ scene.faults > 0
    /\ scene' = [scene EXCEPT !.faults = @ - 1]

\* ProcessState of the client, and what Kubernetes and the network make of the
\* process.  hist is the replication ID (0: a fresh process's own, empty one);
\* clients: the password versions that open connections of the app user may have
\* logged in with.  Neither ACL off nor a new password closes a connection, and
\* an application may hold an address its proxy no longer serves, so it is in as
\* soon as the ACL lets it.
Blank == [run |-> "absent", state |-> "ok", link |-> "ok", role |-> "replica",
          source |-> Nil, hist |-> 0, app |-> FALSE, clients |-> {},
          pw |-> 0, size |-> 0, late |-> {}]

NoPod == [inc |-> 0, deleting |-> FALSE, label |-> "none"]

CurrentProc(o) == <<o, pod[o].inc>>
HasPod(o) == pod[o].inc # 0
IsPodOf(p) == pod[p[1]].inc = p[2]
Up(p) == proc[p].run = "up"

\* What the kubelet has reported.  A machine that is away reports nothing, so
\* its container keeps the state it had.
ContainerTerminated(p) == proc[p].run = "down" /\ proc[p].link \in {"ok", "cut"}
ContainerRunning(p) == Up(p) \/ (proc[p].run = "down" /\ proc[p].link \in {"lost", "deleted"})

\* A bug: a Node that is not ready is taken for a deleted one.
NodeExistsByReady(p) == proc[p].link \in {"ok", "cut"}

NodeExists(p) == proc[p].link # "deleted"
NodeReady(p) == proc[p].link \in {"ok", "cut"}
PodReady(p) == Up(p) /\ NodeReady(p) /\ proc[p].state = "ok"

\* Dial, authenticate and Ping get an answer.
Reachable(p) == Up(p) /\ proc[p].link = "ok" /\ proc[p].state = "ok"

\* The process is a primary that executes commands of application clients.
Writable(p) == Up(p) /\ proc[p].role = "primary" /\ proc[p].clients # {}

-----------------------------------------------------------------------------
(* Replication                                                             *)

\* The primary Service selects the ready Pod that has the label.
ServiceTargets == {p \in Procs : IsPodOf(p) /\ pod[p[1]].label = "primary" /\ PodReady(p)}

Upstreams(p) == IF proc[p].source = Nil THEN ServiceTargets ELSE {proc[p].source}

CanCopy(p, q) ==
    /\ p # q /\ Up(p) /\ Up(q) /\ proc[p].role = "replica" /\ proc[q].role = "primary"
    /\ proc[p].link # "lost" /\ proc[q].link # "lost"

LinkUp(p) == \E q \in Upstreams(p) : CanCopy(p, q) /\ proc[p].hist = proc[q].hist

\* A replica catches up with its upstream, whatever it held before.
Synchronize(p) ==
    /\ \E q \in Upstreams(p) :
        /\ CanCopy(p, q) /\ proc[p].hist # proc[q].hist /\ proc[p].state = "ok"
        /\ proc' = [proc EXCEPT ![p].hist = proc[q].hist]
    /\ UNCHANGED <<pod, data, scene>>

-----------------------------------------------------------------------------
(* Sessions of the operator                                                *)

Commands == {<<"kill", 0>>, <<"promote", 0>>}
                \cup ({"on", "off", "password"} \X Nat) \cup ({"follow"} \X Procs)

SetAppUser(enabled, v) == <<IF enabled THEN "on" ELSE "off", v>>
RotateAppPassword(v) == <<"password", v>>
KillAppClients == <<"kill", 0>>
Promote == <<"promote", 0>>
Follow(q) == <<"follow", q>>

\* What the process does with a command: r is the process, n a new history.
Do(r, c, n) ==
    CASE c[1] = "on" -> [r EXCEPT !.app = TRUE, !.pw = c[2], !.clients = @ \cup {c[2]}]
      [] c[1] = "off" -> [r EXCEPT !.app = FALSE, !.pw = c[2]]
      [] c[1] = "password" -> [r EXCEPT !.pw = c[2], !.clients = IF r.app THEN @ \cup {c[2]} ELSE @]
      [] c[1] = "kill" -> [r EXCEPT !.clients = IF r.app THEN {r.pw} ELSE {}]
      [] c[1] = "promote" /\ r.role = "replica" ->
            [r EXCEPT !.role = "primary", !.source = Nil, !.hist = n]
      [] c[1] = "promote" /\ r.role = "primary" -> r
      [] c[1] = "follow" -> [r EXCEPT !.role = "replica", !.source = c[2]]

\* A session has three commands at most.
DoAll(r, cmds) ==
    LET After(s, k) == IF k > Len(cmds) THEN s ELSE Do(s, cmds[k], Len(lineage) + 1)
    IN After(After(After(r, 1), 2), 3)

\* A bug: a new session leaves the connections of earlier sessions alone.
TakeControlAlone(r) == r

\* TakeControl kills the connections of every earlier session.
TakeControl(r) == [r EXCEPT !.late = {}]

Becomes(p, r) ==
    /\ proc' = [proc EXCEPT ![p] = r]
    /\ lineage' = IF r.hist > Len(lineage) THEN Append(lineage, proc[p].hist) ELSE lineage
    /\ served' = IF r.role = "primary" /\ r.clients # {} THEN r.hist ELSE served

\* The commands of a session are executed and answered.  Each call opens its
\* own connection and takes control first.
Session(p, cmds) == Becomes(p, DoAll(TakeControl(proc[p]), cmds))

\* The session breaks off: a command was sent and its answer lost, or the
\* operator stopped after the last answer and before it saved the result.
Interrupted(p, cmds) ==
    /\ Fails("lost")
    /\ \E k \in 0 .. Len(cmds) :
        LET r == DoAll(TakeControl(proc[p]), SubSeq(cmds, 1, k))
        IN Becomes(p, [r EXCEPT !.late = IF k < Len(cmds) THEN {cmds[k + 1]} ELSE {}])

LateCommand(p) ==
    /\ Up(p) /\ proc[p].state = "ok"
    /\ \E c \in proc[p].late :
        Becomes(p, [Do(proc[p], c, Len(lineage) + 1) EXCEPT !.late = @ \ {c}])
    /\ UNCHANGED <<pod, scene>>

-----------------------------------------------------------------------------
(* Machines and the kubelet                                                *)

\* start.sh runs the server with the ACL of the Secret (InitialACL: app off)
\* and, in HA, as a replica of the primary Service.
KubeletStarts(o, acl) ==
    LET p == CurrentProc(o) IN
    /\ HasPod(o) /\ proc[p].run = "starting" /\ NodeReady(p)
    /\ proc' = [proc EXCEPT ![p].run = "up", ![p].pw = acl,
                            ![p].role = IF HA THEN "replica" ELSE "primary",
                            ![p].hist = IF HA THEN 0 ELSE Len(lineage) + 1]
    /\ lineage' = IF HA THEN lineage ELSE Append(lineage, 0)
    /\ UNCHANGED <<served, pod, scene>>

Down(r) == [Blank EXCEPT !.run = "down", !.link = r.link, !.size = r.size]

\* The Pod is being deleted: its process is stopped, or not started at all.  (It
\* still starts if the kubelet hears of the deletion late.)
KubeletStops(o) ==
    LET p == CurrentProc(o) IN
    /\ HasPod(o) /\ pod[o].deleting /\ proc[p].run \in {"starting", "up"} /\ NodeReady(p)
    /\ proc' = [proc EXCEPT ![p] = Down(@)]
    /\ UNCHANGED <<pod, data, scene>>

Fault(kind, p, r) ==
    /\ Fails(kind)
    /\ proc' = [proc EXCEPT ![p] = r]
    /\ UNCHANGED <<pod, data>>

Crash(p) == Up(p) /\ NodeReady(p) /\ Fault("crash", p, Down(proc[p]))
Isolate(p) == Up(p) /\ proc[p].link = "ok" /\ Fault("isolate", p, [proc[p] EXCEPT !.link = "lost"])
Cut(p) == Up(p) /\ proc[p].link = "ok" /\ Fault("cut", p, [proc[p] EXCEPT !.link = "cut"])
Hang(p) == Up(p) /\ proc[p].state = "ok" /\ Fault("hang", p, [proc[p] EXCEPT !.state = "hung"])
Busy(p) == Up(p) /\ proc[p].state = "ok" /\ Fault("busy", p, [proc[p] EXCEPT !.state = "busy"])

Changes(p, r) == proc' = [proc EXCEPT ![p] = r] /\ UNCHANGED <<pod, data, scene>>

\* No machine has room for the Pod; one may later, but not for a Pod that is
\* being deleted.
Unplaced(p) ==
    /\ proc[p].run = "starting" /\ proc[p].link = "ok"
    /\ Fault("unplaced", p, [proc[p] EXCEPT !.link = "lost"])

LinkReturns(p) ==
    /\ proc[p].link \in {"cut", "lost"}
    /\ proc[p].run = "starting" => ~pod[p[1]].deleting
    /\ Changes(p, [proc[p] EXCEPT !.link = "ok"])
Resume(p) == Up(p) /\ proc[p].state # "ok" /\ Changes(p, [proc[p] EXCEPT !.state = "ok"])

\* The machine that is away stops; nothing reports it.  By the rule of the
\* operations a Node object is deleted only after its machine was destroyed.
PowerOff(p) == Up(p) /\ proc[p].link = "lost" /\ Changes(p, Down(proc[p]))
DeleteNode(p) ==
    /\ proc[p].run \in {"up", "down"} /\ proc[p].link = "lost"
    /\ Changes(p, [Down(proc[p]) EXCEPT !.link = "deleted"])

\* A Pod of the given size is made for the ordinal.
Used(o) == Cardinality({i \in 1..scene.incs : proc[<<o, i>>].run # "absent"})
NewPod(o, size) ==
    /\ ~HasPod(o) /\ Used(o) < scene.incs
    /\ pod' = [pod EXCEPT ![o] = [NoPod EXCEPT !.inc = Used(o) + 1]]
    /\ proc' = [proc EXCEPT ![<<o, Used(o) + 1>>] = [Blank EXCEPT !.run = "starting", !.size = size]]

\* Somebody removes a Pod together with its finalizer, and may make another one:
\* on a machine that is away the old process goes on running.
RemovePod(o) ==
    LET p == CurrentProc(o) IN
    /\ Fails("replace")
    /\ HasPod(o) /\ proc[p].run \in {"up", "down"}
    /\ pod' = [pod EXCEPT ![o] = NoPod]
    /\ proc' = [proc EXCEPT ![p] = IF NodeReady(p) THEN Down(@) ELSE @]
    /\ UNCHANGED data
MakePod(o, size) == "remake" \in scene.kinds /\ NewPod(o, size) /\ UNCHANGED <<data, scene>>

Process ==
    [run: {"absent", "starting", "up", "down"}, state: {"ok", "busy", "hung"},
     link: {"ok", "cut", "lost", "deleted"}, role: {"primary", "replica"},
     source: Procs \cup {Nil}, hist: Nat, app: BOOLEAN, clients: SUBSET Nat,
     pw: Nat, size: Nat, late: SUBSET Commands]

Pod == [inc: 0..scene.incs, deleting: BOOLEAN, label: {"none", "primary", "replica"}]

ProcessTypeOK ==
    /\ proc \in [Procs -> Process]
    /\ \A p \in Procs : proc[p].hist <= Len(lineage)
    /\ pod \in [Ordinals -> Pod]
    /\ lineage \in Seq(Nat) /\ served \in 0 .. Len(lineage)
    /\ scene \in Scene
=============================================================================
