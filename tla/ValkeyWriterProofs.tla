------------------------- MODULE ValkeyWriterProofs -------------------------
(***************************************************************************)
(* For any instance and anything that may happen to it: at most one        *)
(* process executes the writes of the application; nobody is connected     *)
(* with an old password once a rotation is over; and a confirmed           *)
(* generation has been applied to every process that serves.               *)
(***************************************************************************)
EXTENDS ValkeyTargetProofs

-----------------------------------------------------------------------------
(* The inductive invariant.  Its parts are about the processes, the Pods,   *)
(* the status and the ordinals a pass has not seen yet, so that they can be *)
(* stated of these before and after a step.                                 *)

\* A command of the kind was sent, and may still be carried out.
Awaits(r, kind) == \E c \in r.late : c[1] = kind

\* The application is in, or may yet be let in.
Opens(r) == r.app \/ r.clients # {} \/ Awaits(r, "on")

\* The process is a primary, or may yet become one.
Leading(r) == r.role = "primary" \/ Awaits(r, "promote")

Serves(r) == Opens(r) /\ Leading(r)

\* The source of a failover once it has been fenced; the connections may be
\* closed once more.
Secured(r, v) ==
    r.run = "down" \/ (~r.app /\ r.clients = {} /\ r.late \subseteq {KillAppClients} /\ r.pw = v)

\* The ordinal has gone on to a later process.
Old(s, p) == s.nodes[p[1]] # Nil /\ p[2] < s.nodes[p[1]].p[2]

\* The entry of the process says that it is a replica in good order.
Trusted(s, p) ==
    LET n == s.nodes[p[1]]
    IN  n # Nil /\ n.p = p /\ n.role = "replica" /\ n.obs = "ok" /\ n.ready

Shrinks(s) == s.rollout # Nil /\ s.accepted.size < s.applied.size

\* The source has been fenced, or is proven stopped.
Guarded(f) == f.stage \in {"choosing", "promoting"} \/ (f.stage = "fencing" /\ f.srcFenced)

Silent(ps) == \A p \in Procs : ps[p].run # "up" => ~Opens(ps[p]) /\ ~Leading(ps[p])

OnlyOne(ps) ==
    \A p, q \in Procs :
        IF HA THEN Serves(ps[p]) /\ Serves(ps[q]) => p = q
              ELSE Opens(ps[p]) /\ Opens(ps[q]) => p = q

\* A process other than the primary that serves is an earlier one of its
\* ordinal; while it runs no generation is confirmed and no fresh cache made.
Strays(ps, s) ==
    \A p \in Procs : Serves(ps[p]) /\ p # s.primary =>
        Old(s, p) /\ s.initialized /\ ~s.empty /\ ~s.reported /\ ~Shrinks(s)

\* The entry may be wrong about a process that is a primary already ...
Misread(r, inc, s, p) == r.run = "up" /\ Leading(r) /\ inc = p[2] /\ Trusted(s, p)

\* ... when it is the candidate, or a primary nobody acts against on the
\* strength of this entry.
Excused(s, todo, p) ==
    \/ s.failover # Nil /\ p = s.failover.cand
    \/ p = s.primary /\ \/ s.failover = Nil
                        \/ s.failover.stage \in {"fencing", "reconfiguring"}
                        \/ p[1] \in todo

Trusts(ps, pd, s, todo) ==
    \A p \in Procs : Misread(ps[p], pd[p[1]].inc, s, p) => Excused(s, todo, p)

Promised(ps, pd, s) ==
    \A p \in Procs : pd[p[1]].inc = p[2] /\ Awaits(ps[p], "promote") =>
        p = s.primary \/ (s.failover # Nil /\ p = s.failover.cand)

\* What the stages of a failover have achieved.
Handed(ps, s) ==
    s.failover # Nil =>
        LET f == s.failover IN
        /\ ~s.empty /\ f.cand # f.source
        /\ Guarded(f) => Secured(ps[f.source], s.accepted.pw)
        /\ f.stage # "reconfiguring" /\ f.source # s.primary =>
              /\ f.reason = "resize" /\ s.primary # Nil /\ Old(s, s.primary)
              /\ s.rollout # Nil /\ ~Shrinks(s) /\ ~s.reported
        /\ f.stage # "reconfiguring" /\ f.candFenced => f.cand # Nil /\ ~Opens(ps[f.cand])
        /\ f.stage = "promoting" => f.candFenced

\* A resize is not confirmed before it is through, and process after process is
\* replaced only to grow.
Sized(s) ==
    s.rollout # Nil =>
        /\ ~s.reported
        /\ s.rollout.stage \in {"replicas", "switching", "primary"} => ~Shrinks(s)

WriterOK(ps, pd, s, todo) ==
    /\ Silent(ps) /\ OnlyOne(ps) /\ Sized(s)
    /\ HA => Strays(ps, s) /\ Trusts(ps, pd, s, todo) /\ Promised(ps, pd, s) /\ Handed(ps, s)

\* Until the pass has seen an ordinal nothing is done on the strength of its
\* entry, and nothing at all once the deletion has begun.
Ahead == IF st.deletion = Nil THEN op.todo ELSE Nat

WriterInv == WriterOK(proc, pod, st, Ahead)

\* What a step has to establish.
WriterNext == WriterOK(proc', pod', st', Ahead')

LEMMA WriterGoesOn == ASSUME SceneKept, WriterNext PROVE WriterInv'
  BY KeptSets
     DEF WriterNext, WriterInv, WriterOK, Silent, OnlyOne, Sized, Strays, Trusts, Promised, Handed

LEMMA WriterFacts ==
    ASSUME WriterInv
    PROVE  /\ Silent(proc) /\ OnlyOne(proc) /\ Sized(st)
           /\ HA => /\ Strays(proc, st) /\ Trusts(proc, pod, st, Ahead)
                    /\ Promised(proc, pod, st) /\ Handed(proc, st)
  BY DEF WriterInv, WriterOK

-----------------------------------------------------------------------------
(* Commands                                                                 *)

Lively(r) == r.app \/ r.clients # {}

NoneOf(kind, cmds) == \A k \in 1 .. Len(cmds) : cmds[k][1] # kind

LEMMA DoCalm ==
    ASSUME NEW r \in Process, NEW c \in Commands, NEW n
    PROVE  /\ c[1] # "on" /\ Lively(Do(r, c, n)) => Lively(r)
           /\ c[1] # "promote" /\ Do(r, c, n).role = "primary" => r.role = "primary"
           /\ Do(r, c, n).late = r.late
<1>1. c[1] \in {"on", "off", "password", "follow", "kill", "promote"}
  BY DEF Commands
<1>2. CASE c[1] \in {"on", "off", "password"}
  BY <1>2 DEF Do, Process, Lively
<1>3. CASE c[1] \in {"follow", "kill"}
  BY <1>3 DEF Do, Process, Lively
<1>4. CASE c[1] = "promote"
  <2>1. CASE r.role = "primary"
    <3>1. Do(r, c, n) = r
      BY <1>4, <2>1 DEF Do
    <3> QED
      BY <2>1, <3>1
  <2>2. CASE r.role = "replica"
    <3> DEFINE s == [r EXCEPT !.role = "primary", !.source = Nil, !.hist = n]
    <3>1. Do(r, c, n) = s
      BY <1>4, <2>2 DEF Do
    <3>2. s.app = r.app /\ s.clients = r.clients /\ s.late = r.late
      BY DEF Process
    <3> HIDE DEF s
    <3> QED
      BY <1>4, <3>1, <3>2 DEF Lively
  <2> QED
    BY <2>1, <2>2 DEF Process
<1> QED
  BY <1>1, <1>2, <1>3, <1>4

LEMMA DoAllCalm ==
    ASSUME NEW r \in Process, NEW cmds \in Seq(Commands), lineage \in Seq(Nat),
           r.hist <= Len(lineage) + 1
    PROVE  LET s == DoAll(r, cmds)
           IN  /\ s \in Process /\ s.run = r.run /\ s.late = r.late
               /\ NoneOf("on", cmds) /\ Lively(s) => Lively(r)
               /\ NoneOf("promote", cmds) /\ s.role = "primary" => r.role = "primary"
<1> DEFINE n == Len(lineage) + 1
           After(s, k) == IF k > Len(cmds) THEN s ELSE Do(s, cmds[k], n)
           Good(s) == /\ s \in Process /\ s.hist <= n /\ s.run = r.run /\ s.late = r.late
                      /\ NoneOf("on", cmds) /\ Lively(s) => Lively(r)
                      /\ NoneOf("promote", cmds) /\ s.role = "primary" => r.role = "primary"
<1>1. ASSUME NEW s, Good(s), NEW k \in 1..3 PROVE Good(After(s, k))
  <2>1. n \in Nat
    OBVIOUS
  <2>2. CASE k > Len(cmds)
    BY <1>1, <2>2
  <2>3. CASE ~(k > Len(cmds))
    <3> DEFINE c == cmds[k]
    <3>1. /\ c \in Commands /\ (NoneOf("on", cmds) => c[1] # "on")
          /\ NoneOf("promote", cmds) => c[1] # "promote"
      BY <2>3 DEF NoneOf
    <3>2. After(s, k) = Do(s, c, n)
      BY <2>3
    <3> HIDE DEF n, c
    <3>3. Do(s, c, n) \in Process /\ Same(Do(s, c, n), s) /\ Do(s, c, n).hist <= n
      BY <1>1, <2>1, <3>1, DoFacts
    <3>4. /\ c[1] # "on" /\ Lively(Do(s, c, n)) => Lively(s)
          /\ c[1] # "promote" /\ Do(s, c, n).role = "primary" => s.role = "primary"
          /\ Do(s, c, n).late = s.late
      BY <1>1, <3>1, DoCalm
    <3> QED
      BY <1>1, <3>1, <3>2, <3>3, <3>4 DEF Same
  <2> QED
    BY <2>2, <2>3
<1>2. Good(r)
  OBVIOUS
<1>3. DoAll(r, cmds) = After(After(After(r, 1), 2), 3)
  BY DEF DoAll
<1> HIDE DEF After, Good
<1>4. Good(After(After(After(r, 1), 2), 3))
  BY <1>1, <1>2
<1> QED
  BY <1>3, <1>4 DEF Good

\* What becomes of a process in a step that lets nobody in and makes no primary:
\* r is the process after the step, q before it.
Calm(r, q) ==
    /\ Opens(r) => Opens(q)
    /\ HA /\ Leading(r) => Leading(q)
    /\ Awaits(r, "promote") => Awaits(q, "promote")
    /\ r.run # "up" => ~Opens(r) /\ ~Leading(r)

CalmProcs == \A p \in Procs : Calm(proc'[p], proc[p])

LEMMA SameProcs == ASSUME WriterInv, UNCHANGED proc PROVE CalmProcs
  BY WriterFacts DEF CalmProcs, Calm, Silent

LEMMA OneProc ==
    ASSUME OperatorInv, WriterInv, NEW p, NEW r, proc' = [proc EXCEPT ![p] = r],
           p \in Procs => Calm(r, proc[p])
    PROVE  CalmProcs
<1>1. proc \in [Procs -> Process]
  BY StInv
<1>2. \A q \in Procs : Calm(proc[q], proc[q])
  BY WriterFacts DEF Calm, Silent
<1> SUFFICES ASSUME NEW q \in Procs PROVE Calm(proc'[q], proc[q])
  BY DEF CalmProcs
<1>3. CASE q = p
  <2>1. proc'[q] = r
    BY <1>1, <1>3
  <2> QED
    BY <1>3, <2>1
<1>4. CASE q # p
  <2>1. proc'[q] = proc[q]
    BY <1>1, <1>4
  <2> QED
    BY <1>2, <2>1
<1> QED
  BY <1>3, <1>4

LEMMA TakenControl ==
    ASSUME NEW r \in Process
    PROVE  LET s == TakeControl(r)
           IN  /\ s \in Process /\ s.run = r.run /\ s.hist = r.hist /\ s.late = {}
               /\ s.app = r.app /\ s.clients = r.clients /\ s.role = r.role /\ s.pw = r.pw
  BY DEF TakeControl, Process

\* What a session makes of a process, whether it gets its answers or breaks off.
LEMMA SessionFacts ==
    ASSUME OperatorInv, NEW p \in Procs, NEW cmds \in Seq(Commands),
           Session(p, cmds) \/ Interrupted(p, cmds)
    PROVE  \E r \in Process :
              /\ proc' = [proc EXCEPT ![p] = r] /\ r.run = proc[p].run
              /\ NoneOf("on", cmds) /\ Opens(r) => Opens(proc[p])
              /\ NoneOf("promote", cmds) =>
                    (Leading(r) => Leading(proc[p])) /\ ~Awaits(r, "promote")
<1> DEFINE q == proc[p]
           t == TakeControl(q)
<1>1. /\ q \in Process /\ q.hist <= Len(lineage) /\ q.hist \in Nat /\ Len(lineage) \in Nat
      /\ lineage \in Seq(Nat)
  BY ProcFacts DEF OperatorInv, Types, ProcessTypeOK
<1> HIDE DEF q
<1>2. /\ t \in Process /\ t.run = q.run /\ t.late = {} /\ t.app = q.app
      /\ t.clients = q.clients /\ t.role = q.role /\ t.hist = q.hist
  BY <1>1, TakenControl
<1> HIDE DEF t
<1>3. t.hist <= Len(lineage) + 1
  BY <1>1, <1>2
<1>4. Lively(t) => Opens(q)
  BY <1>2 DEF Lively, Opens
<1>5. t.role = "primary" => Leading(q)
  BY <1>2 DEF Leading
<1>6. CASE Session(p, cmds)
  <2> DEFINE r == DoAll(t, cmds)
  <2>1. /\ r \in Process /\ r.run = t.run /\ r.late = t.late
        /\ NoneOf("on", cmds) /\ Lively(r) => Lively(t)
        /\ NoneOf("promote", cmds) /\ r.role = "primary" => t.role = "primary"
    BY <1>1, <1>2, <1>3, DoAllCalm
  <2>2. proc' = [proc EXCEPT ![p] = r]
    BY <1>6 DEF Session, Becomes, t, q
  <2> HIDE DEF r
  <2>3. ~Awaits(r, "promote") /\ ~Awaits(r, "on")
    BY <1>2, <2>1 DEF Awaits
  <2>4. (Opens(r) => Lively(r)) /\ (Leading(r) => r.role = "primary")
    BY <2>3 DEF Opens, Lively, Leading
  <2> QED
    BY <1>2, <1>4, <1>5, <2>1, <2>2, <2>3, <2>4 DEF q
<1>7. CASE Interrupted(p, cmds)
  <2>1. PICK k \in 0 .. Len(cmds) :
            Becomes(p, [DoAll(t, SubSeq(cmds, 1, k)) EXCEPT
                            !.late = IF k < Len(cmds) THEN {cmds[k + 1]} ELSE {}])
    BY <1>7, Zenon DEF Interrupted, t, q
  <2> DEFINE part == SubSeq(cmds, 1, k)
             s == DoAll(t, part)
             late == IF k < Len(cmds) THEN {cmds[k + 1]} ELSE {}
             r == [s EXCEPT !.late = late]
  <2>2. part \in Seq(Commands) /\ Len(part) = k /\ \A i \in 1 .. k : part[i] = cmds[i]
    OBVIOUS
  <2>3. late \in SUBSET Commands /\ \A c \in late : \E i \in 1 .. Len(cmds) : c = cmds[i]
    <3>1. CASE k < Len(cmds)
      <4>1. k + 1 \in 1 .. Len(cmds) /\ late = {cmds[k + 1]}
        BY <3>1
      <4> QED
        BY <4>1
    <3>2. CASE ~(k < Len(cmds))
      BY <3>2
    <3> QED
      BY <3>1, <3>2
  <2>4. proc' = [proc EXCEPT ![p] = r]
    BY <2>1 DEF Becomes
  <2> HIDE DEF part, late
  <2>5. \A kind : NoneOf(kind, cmds) => NoneOf(kind, part)
    BY <2>2 DEF NoneOf
  <2>6. /\ s \in Process /\ s.run = t.run
        /\ NoneOf("on", part) /\ Lively(s) => Lively(t)
        /\ NoneOf("promote", part) /\ s.role = "primary" => t.role = "primary"
    BY <1>1, <1>2, <1>3, <2>2, DoAllCalm
  <2> HIDE DEF s
  <2>7. /\ r \in Process /\ r.run = s.run /\ r.late = late
        /\ r.app = s.app /\ r.clients = s.clients /\ r.role = s.role
    BY <2>3, <2>6 DEF Process
  <2> HIDE DEF r
  <2>8. \A kind : NoneOf(kind, cmds) => ~Awaits(r, kind)
    BY <2>3, <2>7 DEF NoneOf, Awaits
  <2>9. /\ NoneOf("on", cmds) /\ Opens(r) => Lively(s)
        /\ NoneOf("promote", cmds) /\ Leading(r) => s.role = "primary"
    BY <2>7, <2>8 DEF Opens, Lively, Leading
  <2> QED
    BY <1>2, <1>4, <1>5, <2>4, <2>5, <2>6, <2>7, <2>8, <2>9 DEF q
<1> QED
  BY <1>6, <1>7

\* The kinds of the commands of each session.
LEMMA CommandKinds ==
    ASSUME NEW p
    PROVE  /\ NoneOf("on", AppAccess(p, FALSE)) /\ NoneOf("promote", AppAccess(p, FALSE))
           /\ NoneOf("promote", AppAccess(p, TRUE))
           /\ NoneOf("on", RotateCommands) /\ NoneOf("promote", RotateCommands)
           /\ NoneOf("on", PromoteCommands(p))
           /\ NoneOf("on", FollowCommands(p)) /\ NoneOf("promote", FollowCommands(p))
<1>1. NoneOf("on", AppAccess(p, FALSE)) /\ NoneOf("promote", AppAccess(p, FALSE))
  BY DEF NoneOf, AppAccess, SetAppUser, KillAppClients
<1>2. NoneOf("promote", AppAccess(p, TRUE))
  BY DEF NoneOf, AppAccess, SetAppUser, KillAppClients
<1>3. NoneOf("on", RotateCommands) /\ NoneOf("promote", RotateCommands)
  BY DEF NoneOf, RotateCommands, RotateAppPassword, KillAppClients
<1>4. NoneOf("on", PromoteCommands(p))
  BY DEF NoneOf, PromoteCommands, Promote
<1>5. NoneOf("on", FollowCommands(p)) /\ NoneOf("promote", FollowCommands(p))
  BY DEF NoneOf, FollowCommands, Follow
<1> QED
  BY <1>1, <1>2, <1>3, <1>4, <1>5

LEMMA RotateFacts == ASSUME OperatorInv PROVE RotateCommands \in Seq(Commands)
<1> DEFINE a == RotateAppPassword(st.accepted.pw)
           b == KillAppClients
<1>1. a \in Commands /\ b \in Commands
  BY StInv DEF RotateAppPassword, KillAppClients, Commands
<1>2. RotateCommands = <<a, b>>
  BY DEF RotateCommands
<1> HIDE DEF a, b
<1> QED
  BY <1>1, <1>2

LEMMA FollowFacts ==
    ASSUME OperatorInv, NEW p, st.primary \in Procs PROVE FollowCommands(p) \in Seq(Commands)
<1>1. Follow(st.primary) \in Commands
  BY DEF Follow, Commands
<1> DEFINE c == Follow(st.primary)
<1>2. FollowCommands(p) \in {<<>>, <<c>>}
  BY DEF FollowCommands
<1> HIDE DEF c
<1> QED
  BY <1>1, <1>2, OneCommand DEF c

\* Access that was closed to the end.
LEMMA ClosedFacts ==
    ASSUME OperatorInv, NEW p \in Procs
    PROVE  LET r == DoAll(TakeControl(proc[p]), AppAccess(p, FALSE))
           IN  /\ ~r.app /\ r.clients = {} /\ r.late = {} /\ r.pw = st.accepted.pw
               /\ r.run = proc[p].run /\ r.role = proc[p].role
<1> DEFINE q == proc[p]
           t == TakeControl(q)
           v == st.accepted.pw
           n == Len(lineage) + 1
           off == SetAppUser(FALSE, v)
           kill == KillAppClients
<1>1. q \in Process
  BY ProcFacts
<1>2. /\ t \in Process /\ t.run = q.run /\ t.late = {} /\ t.app = q.app
      /\ t.clients = q.clients /\ t.role = q.role /\ t.pw = q.pw
  <2> HIDE DEF q
  <2> QED
    BY <1>1, TakenControl
<1>3. off[1] = "off" /\ off[2] = v /\ kill[1] = "kill"
  BY DEF SetAppUser, KillAppClients
<1>4. AppAccess(p, FALSE) = IF ~q.app /\ q.pw = v THEN <<kill>> ELSE <<off, kill>>
  BY DEF AppAccess
<1> HIDE DEF q, t, v, n, off, kill
<1>5. CASE ~q.app /\ q.pw = v
  <2>1. DoAll(t, <<kill>>) = Do(t, kill, n)
    BY DEF DoAll, n
  <2>2. Do(t, kill, n) = [t EXCEPT !.clients = IF t.app THEN {t.pw} ELSE {}]
    BY <1>3 DEF Do
  <2>3. LET r == Do(t, kill, n)
        IN  /\ ~r.app /\ r.clients = {} /\ r.late = {} /\ r.pw = v
            /\ r.run = q.run /\ r.role = q.role
    BY <1>2, <1>5, <2>2 DEF Process
  <2> QED
    BY <1>4, <1>5, <2>1, <2>3 DEF q, t, v
<1>6. CASE ~(~q.app /\ q.pw = v)
  <2>1. DoAll(t, <<off, kill>>) = Do(Do(t, off, n), kill, n)
    BY DEF DoAll, n
  <2> DEFINE a == Do(t, off, n)
  <2>2. a = [t EXCEPT !.app = FALSE, !.pw = v]
    BY <1>3 DEF Do
  <2>3. /\ a \in [app: {FALSE}, clients: SUBSET Nat, late: {{}}, pw: {v}, run: {q.run}, role: {q.role},
                  state: {t.state}, link: {t.link}, source: {t.source}, hist: {t.hist}, size: {t.size}]
    BY <1>2, <2>2 DEF Process
  <2> HIDE DEF a
  <2>4. Do(a, kill, n) = [a EXCEPT !.clients = IF a.app THEN {a.pw} ELSE {}]
    BY <1>3 DEF Do
  <2>5. LET r == Do(a, kill, n)
        IN  /\ ~r.app /\ r.clients = {} /\ r.late = {} /\ r.pw = v
            /\ r.run = q.run /\ r.role = q.role
    BY <2>3, <2>4
  <2> QED
    BY <1>4, <1>6, <2>1, <2>5 DEF q, t, v, a
<1> QED
  BY <1>5, <1>6

-----------------------------------------------------------------------------
(* Steps of the processes, the machines and the people around them          *)

\* In addition a process whose access is closed stays so.
Steadfast(r, q) ==
    /\ Calm(r, q)
    /\ q.run \in {"up", "down"} /\ Secured(q, st.accepted.pw) => Secured(r, st.accepted.pw)

SteadfastProcs == \A p \in Procs : Steadfast(proc'[p], proc[p])

LEMMA SteadfastMeansCalm == ASSUME SteadfastProcs PROVE CalmProcs
  BY DEF SteadfastProcs, Steadfast, CalmProcs

LEMMA SelfSteadfast == ASSUME WriterInv, NEW p \in Procs PROVE Steadfast(proc[p], proc[p])
  BY WriterFacts DEF Steadfast, Calm, Silent

LEMMA UnchangedProcs == ASSUME WriterInv, UNCHANGED proc PROVE SteadfastProcs
  BY SelfSteadfast DEF SteadfastProcs

LEMMA OneSteadfast ==
    ASSUME OperatorInv, WriterInv, NEW p, NEW r, proc' = [proc EXCEPT ![p] = r],
           p \in Procs => Steadfast(r, proc[p])
    PROVE  SteadfastProcs
<1>1. proc \in [Procs -> Process]
  BY StInv
<1> SUFFICES ASSUME NEW q \in Procs PROVE Steadfast(proc'[q], proc[q])
  BY DEF SteadfastProcs
<1>2. CASE q = p
  <2>1. proc'[q] = r
    BY <1>1, <1>2
  <2> QED
    BY <1>2, <2>1
<1>3. CASE q # p
  <2>1. proc'[q] = proc[q]
    BY <1>1, <1>3
  <2> QED
    BY <2>1, SelfSteadfast
<1> QED
  BY <1>2, <1>3

LEMMA TouchedSteadfast ==
    ASSUME NEW q \in Process, Steadfast(q, q), NEW r, Touched(r, q) PROVE Steadfast(r, q)
<1>1. /\ r.run = q.run /\ r.app = q.app /\ r.clients = q.clients /\ r.late = q.late
      /\ r.role = q.role /\ r.pw = q.pw
  BY DEF Touched, Process
<1>2. /\ Opens(r) = Opens(q) /\ Leading(r) = Leading(q)
      /\ \A kind : Awaits(r, kind) <=> Awaits(q, kind)
  BY <1>1 DEF Opens, Leading, Awaits
<1>3. \A v : Secured(r, v) <=> Secured(q, v)
  BY <1>1 DEF Secured
<1> QED
  BY <1>1, <1>2, <1>3 DEF Steadfast, Calm

\* A process that has stopped, or has not started.
Quenched(r) == ~r.app /\ r.clients = {} /\ r.late = {} /\ r.role = "replica"

LEMMA QuenchedFacts ==
    ASSUME NEW r, Quenched(r)
    PROVE  ~Opens(r) /\ ~Leading(r) /\ ~Awaits(r, "promote")
  BY DEF Quenched, Opens, Leading, Awaits

LEMMA QuenchedSteadfast ==
    ASSUME NEW r, NEW q, Quenched(r), r.run = "down" \/ q.run \notin {"up", "down"}
    PROVE  Steadfast(r, q)
  BY QuenchedFacts DEF Steadfast, Calm, Secured

LEMMA DownQuenched ==
    ASSUME NEW q
    PROVE  /\ Quenched(Down(q)) /\ Down(q).run = "down"
           /\ Quenched([Down(q) EXCEPT !.link = "deleted"])
           /\ [Down(q) EXCEPT !.link = "deleted"].run = "down"
  BY DEF Quenched, Down, Blank

LEMMA FreshQuenched == ASSUME NEW size PROVE Quenched(FreshProcess(size))
  BY DEF Quenched, FreshProcess, Blank

LEMMA LateCommandSteadfast ==
    ASSUME OperatorInv, WriterInv, NEW p \in Procs, LateCommand(p) PROVE SteadfastProcs
<1>1. PICK c \in proc[p].late :
          Becomes(p, [Do(proc[p], c, Len(lineage) + 1) EXCEPT !.late = @ \ {c}])
  BY Zenon DEF LateCommand
<1> DEFINE q == proc[p]
           n == Len(lineage) + 1
           s == Do(q, c, n)
           late == s.late \ {c}
           r == [s EXCEPT !.late = late]
<1>2. /\ q \in Process /\ q.hist <= Len(lineage) /\ q.hist \in Nat /\ Len(lineage) \in Nat
      /\ q.run = "up" /\ c \in Commands /\ c \in q.late
  BY <1>1, ProcFacts DEF LateCommand, Up, Process
<1>3. proc' = [proc EXCEPT ![p] = r]
  BY <1>1 DEF Becomes
<1>4. s \in Process /\ s.run = q.run
  BY <1>2, DoFacts DEF Same
<1>5. /\ c[1] # "on" /\ Lively(s) => Lively(q)
      /\ c[1] # "promote" /\ s.role = "primary" => q.role = "primary"
      /\ s.late = q.late
  BY <1>2, DoCalm
<1> HIDE DEF q, s, n
<1>6. /\ r.run = s.run /\ r.app = s.app /\ r.clients = s.clients /\ r.role = s.role
      /\ r.late = q.late \ {c}
  BY <1>4, <1>5 DEF Process
<1> HIDE DEF r
<1>7. \A kind : Awaits(r, kind) => Awaits(q, kind)
  BY <1>6 DEF Awaits
<1>8. \A kind : c[1] = kind => Awaits(q, kind)
  BY <1>2 DEF Awaits
<1>9. Opens(r) => Opens(q)
  <2>1. CASE c[1] = "on"
    BY <1>8, <2>1 DEF Opens
  <2>2. CASE c[1] # "on"
    BY <1>5, <1>6, <1>7, <2>2 DEF Opens, Lively
  <2> QED
    BY <2>1, <2>2
<1>10. Leading(r) => Leading(q)
  <2>1. CASE c[1] = "promote"
    BY <1>8, <2>1 DEF Leading
  <2>2. CASE c[1] # "promote"
    BY <1>5, <1>6, <1>7, <2>2 DEF Leading
  <2> QED
    BY <2>1, <2>2
<1>11. \A v : Secured(q, v) => Secured(r, v)
  <2> SUFFICES ASSUME NEW v, Secured(q, v) PROVE Secured(r, v)
    OBVIOUS
  <2>1. c = KillAppClients /\ c[1] = "kill" /\ ~q.app /\ q.clients = {} /\ q.pw = v
    BY <1>2 DEF Secured, KillAppClients
  <2>2. s = [q EXCEPT !.clients = {}]
    BY <2>1 DEF Do, s
  <2>3. ~s.app /\ s.clients = {} /\ s.pw = v
    BY <1>2, <2>1, <2>2 DEF Process
  <2>4. r.pw = s.pw
    BY <1>4 DEF Process, r
  <2> QED
    BY <1>2, <1>6, <2>3, <2>4 DEF Secured
<1>12. Steadfast(r, q)
  BY <1>2, <1>4, <1>6, <1>7, <1>9, <1>10, <1>11 DEF Steadfast, Calm
<1> QED
  BY <1>3, <1>12, OneSteadfast DEF q

\* A Pod is made for a process that has not been there; others stay as they are.
PodsCalm ==
    \A p \in Procs : pod'[p[1]].inc = p[2] /\ Leading(proc'[p]) => pod[p[1]].inc = p[2]

LEMMA UnchangedPods == ASSUME UNCHANGED pod PROVE PodsCalm
  BY DEF PodsCalm

LEMMA StayingPods ==
    ASSUME OperatorInv, \A o \in Ordinals : pod'[o].inc \in {pod[o].inc, 0} PROVE PodsCalm
<1> SUFFICES ASSUME NEW p \in Procs, pod'[p[1]].inc = p[2] PROVE pod[p[1]].inc = p[2]
  BY DEF PodsCalm
<1>1. p[1] \in Ordinals /\ p[2] \in 1..scene.incs /\ scene.incs \in Nat
  BY ProcsAreNamed, StInv DEF Scene
<1> QED
  BY <1>1

LEMMA KubeletStartsSteadfast ==
    ASSUME OperatorInv, WriterInv, NEW o \in Ordinals, KubeletStarts(o, cr.acl) PROVE SteadfastProcs
<1> DEFINE p == CurrentProc(o)
           role == IF HA THEN "replica" ELSE "primary"
           hist == IF HA THEN 0 ELSE Len(lineage) + 1
           acl == cr.acl
<1>1. /\ HasPod(o) /\ proc[p].run = "starting"
      /\ proc' = [proc EXCEPT ![p].run = "up", ![p].pw = acl, ![p].role = role, ![p].hist = hist]
  BY Zenon DEF KubeletStarts
<1>2. p \in Procs /\ proc \in [Procs -> Process]
  BY <1>1, LaterProcess, StInv
<1>3. HA => role = "replica"
  OBVIOUS
<1> HIDE DEF role, hist, acl, p
<1>4. /\ \A x \in Procs : x # p => proc'[x] = proc[x]
      /\ proc'[p].run = "up" /\ proc'[p].role = role /\ proc'[p].app = proc[p].app
      /\ proc'[p].clients = proc[p].clients /\ proc'[p].late = proc[p].late
  BY <1>1, <1>2 DEF Process
<1>5. Steadfast(proc'[p], proc[p])
  <2>1. \A kind : Awaits(proc'[p], kind) <=> Awaits(proc[p], kind)
    BY <1>4 DEF Awaits
  <2>2. Opens(proc'[p]) => Opens(proc[p])
    BY <1>4, <2>1 DEF Opens
  <2>3. HA /\ Leading(proc'[p]) => Leading(proc[p])
    BY <1>3, <1>4, <2>1 DEF Leading
  <2> QED
    BY <1>1, <1>4, <2>1, <2>2, <2>3 DEF Steadfast, Calm
<1> QED
  BY <1>4, <1>5, SelfSteadfast DEF SteadfastProcs

LEMMA KubeletStopsSteadfast ==
    ASSUME OperatorInv, WriterInv, NEW o \in Ordinals, KubeletStops(o) PROVE SteadfastProcs
<1> DEFINE p == CurrentProc(o)
<1>1. proc' = [proc EXCEPT ![p] = Down(proc[p])]
  BY DEF KubeletStops
<1> HIDE DEF p
<1> QED
  BY <1>1, DownQuenched, QuenchedSteadfast, OneSteadfast

LEMMA SynchronizeSteadfast ==
    ASSUME OperatorInv, WriterInv, NEW p \in Procs, Synchronize(p) PROVE SteadfastProcs
<1>1. PICK h : proc' = [proc EXCEPT ![p].hist = h]
  BY Zenon DEF Synchronize
<1> DEFINE q == proc[p]
           r == [q EXCEPT !.hist = h]
<1>2. proc' = [proc EXCEPT ![p] = r]
  BY <1>1
<1>3. q \in Process /\ Steadfast(q, q)
  BY ProcFacts, SelfSteadfast
<1> HIDE DEF q
<1>4. /\ r.run = q.run /\ r.app = q.app /\ r.clients = q.clients /\ r.late = q.late
      /\ r.role = q.role /\ r.pw = q.pw
  BY <1>3 DEF Process
<1> HIDE DEF r
<1>5. /\ Opens(r) = Opens(q) /\ Leading(r) = Leading(q)
      /\ \A kind : Awaits(r, kind) <=> Awaits(q, kind)
  BY <1>4 DEF Opens, Leading, Awaits
<1>6. \A v : Secured(r, v) <=> Secured(q, v)
  BY <1>4 DEF Secured
<1>7. Steadfast(r, q)
  BY <1>3, <1>4, <1>5, <1>6 DEF Steadfast, Calm
<1> QED
  BY <1>2, <1>7, OneSteadfast DEF q

LEMMA TouchedProcs ==
    ASSUME OperatorInv, WriterInv, NEW p \in Procs, NEW r, Touched(r, proc[p]),
           proc' = [proc EXCEPT ![p] = r]
    PROVE  SteadfastProcs
  BY ProcFacts, SelfSteadfast, TouchedSteadfast, OneSteadfast

LEMMA TouchingSteadfast ==
    ASSUME OperatorInv, WriterInv, NEW p \in Procs,
           \/ LinkReturns(p) \/ Resume(p) \/ Isolate(p) \/ Cut(p) \/ Hang(p)
           \/ Busy(p) \/ Unplaced(p)
    PROVE  SteadfastProcs
<1>1. ASSUME NEW link \in {"ok", "cut", "lost"} PROVE Touched([proc[p] EXCEPT !.link = link], proc[p])
  BY DEF Touched
<1>2. ASSUME NEW state \in {"ok", "hung", "busy"} PROVE Touched([proc[p] EXCEPT !.state = state], proc[p])
  BY DEF Touched
<1>3. /\ "ok" \in {"ok", "cut", "lost"} /\ "lost" \in {"ok", "cut", "lost"}
      /\ "cut" \in {"ok", "cut", "lost"} /\ "ok" \in {"ok", "hung", "busy"}
      /\ "hung" \in {"ok", "hung", "busy"} /\ "busy" \in {"ok", "hung", "busy"}
  OBVIOUS
<1>4. \E r : Touched(r, proc[p]) /\ proc' = [proc EXCEPT ![p] = r]
  BY <1>1, <1>2, <1>3, Zenon DEF LinkReturns, Resume, Isolate, Cut, Hang, Busy, Unplaced, Changes,
                             Fault
<1> QED
  BY <1>4, TouchedProcs

LEMMA StoppingSteadfast ==
    ASSUME OperatorInv, WriterInv, NEW p \in Procs, Crash(p) \/ PowerOff(p) \/ DeleteNode(p)
    PROVE  SteadfastProcs
<1>1. \/ proc' = [proc EXCEPT ![p] = Down(proc[p])]
      \/ proc' = [proc EXCEPT ![p] = [Down(proc[p]) EXCEPT !.link = "deleted"]]
  BY Zenon DEF Crash, PowerOff, DeleteNode, Changes, Fault
<1>2. PICK r : Quenched(r) /\ r.run = "down" /\ proc' = [proc EXCEPT ![p] = r]
  BY <1>1, DownQuenched, Zenon
<1> QED
  BY <1>2, QuenchedSteadfast, OneSteadfast

LEMMA RemovePodSteadfast ==
    ASSUME OperatorInv, WriterInv, NEW o \in Ordinals, RemovePod(o) PROVE SteadfastProcs /\ PodsCalm
<1> DEFINE p == CurrentProc(o)
<1>1. /\ pod' = [pod EXCEPT ![o] = NoPod]
      /\ \/ proc' = [proc EXCEPT ![p] = Down(proc[p])]
         \/ proc' = [proc EXCEPT ![p] = proc[p]]
  BY DEF RemovePod
<1> HIDE DEF p
<1>2. SteadfastProcs
  BY <1>1, DownQuenched, QuenchedSteadfast, SelfSteadfast, OneSteadfast
<1>3. PodsCalm
  BY <1>1, StayingPods, StInv DEF NoPod
<1> QED
  BY <1>2, <1>3

\* New Pods, of the next process of each ordinal.
LEMMA NewPodsSteadfast ==
    ASSUME OperatorInv, WriterInv, NEW S \in SUBSET Ordinals, NEW size,
           \A o \in Ordinals : pod'[o].inc = IF o \in S THEN Used(o) + 1 ELSE pod[o].inc,
           \A p \in Procs : proc'[p] = IF p[1] \in S /\ p[2] = Used(p[1]) + 1
                                       THEN FreshProcess(size) ELSE proc[p]
    PROVE  SteadfastProcs /\ PodsCalm
<1> SUFFICES ASSUME NEW p \in Procs
             PROVE  /\ Steadfast(proc'[p], proc[p])
                    /\ pod'[p[1]].inc = p[2] /\ Leading(proc'[p]) => pod[p[1]].inc = p[2]
  BY DEF SteadfastProcs, PodsCalm
<1>1. p[1] \in Ordinals /\ p[2] \in 1..scene.incs /\ scene.incs \in Nat /\ p = <<p[1], p[2]>>
  BY ProcsAreNamed, StInv DEF Scene
<1>2. /\ Used(p[1]) \in 0..scene.incs
      /\ proc[p].run # "absent" <=> p[2] <= Used(p[1])
  BY <1>1, UsedFacts
<1>3. CASE p[1] \in S /\ p[2] = Used(p[1]) + 1
  <2>1. proc'[p] = FreshProcess(size) /\ proc[p].run = "absent"
    BY <1>1, <1>2, <1>3
  <2> QED
    BY <2>1, FreshQuenched, QuenchedSteadfast, QuenchedFacts
<1>4. CASE ~(p[1] \in S /\ p[2] = Used(p[1]) + 1)
  <2>1. proc'[p] = proc[p] /\ (pod'[p[1]].inc = p[2] => pod[p[1]].inc = p[2])
    BY <1>1, <1>4
  <2> QED
    BY <2>1, SelfSteadfast
<1> QED
  BY <1>3, <1>4

LEMMA MakePodSteadfast ==
    ASSUME OperatorInv, WriterInv, NEW o \in Ordinals, MakePod(o, TemplateSize)
    PROVE  SteadfastProcs /\ PodsCalm
<1> DEFINE i == Used(o) + 1
           size == TemplateSize
           new == FreshProcess(size)
           S == {o}
<1>1. /\ Used(o) < scene.incs
      /\ pod' = [pod EXCEPT ![o] = FreshPod(i)] /\ proc' = [proc EXCEPT ![<<o, i>>] = new]
  BY Zenon DEF MakePod, NewPod, FreshPod, FreshProcess
<1>2. i \in 1..scene.incs
  BY <1>1, UsedFacts, StInv DEF Scene
<1>3. <<o, i>> \in Procs /\ \A p \in Procs : p = <<p[1], p[2]>>
  BY <1>2, ProcsAreNamed, StInv
<1> HIDE DEF i, new
<1>4. FreshPod(i).inc = i
  BY DEF FreshPod, NoPod
<1>5. \A q \in Ordinals : pod'[q].inc = IF q \in S THEN i ELSE pod[q].inc
  BY <1>1, <1>4, StInv
<1>6. \A p \in Procs : proc'[p] = IF p[1] \in S /\ p[2] = i THEN new ELSE proc[p]
  BY <1>1, <1>3, StInv
<1>7. S \in SUBSET Ordinals /\ \A q : q \in S <=> q = o
  OBVIOUS
<1> HIDE DEF S, size
<1>8. /\ \A q \in Ordinals : pod'[q].inc = IF q \in S THEN Used(q) + 1 ELSE pod[q].inc
      /\ \A p \in Procs : proc'[p] = IF p[1] \in S /\ p[2] = Used(p[1]) + 1
                                     THEN FreshProcess(size) ELSE proc[p]
  BY <1>5, <1>6, <1>7 DEF i, new
<1> QED
  BY <1>7, <1>8, NewPodsSteadfast

LEMMA OutsideSteadfast ==
    ASSUME OperatorInv, WriterInv, Kubelet \/ Copies \/ Returns \/ Failures
    PROVE  SteadfastProcs /\ PodsCalm
<1>1. CASE Kubelet
  BY <1>1, KubeletStartsSteadfast, KubeletStopsSteadfast, UnchangedPods
     DEF Kubelet, KubeletStarts, KubeletStops
<1>2. CASE Copies
  BY <1>2, SynchronizeSteadfast, UnchangedPods DEF Copies, Synchronize
<1>3. CASE Returns
  BY <1>3, TouchingSteadfast, UnchangedPods DEF Returns, LinkReturns, Resume, Changes
<1>4. CASE Failures
  <2>1. ASSUME NEW p \in Procs, LateCommand(p) PROVE SteadfastProcs /\ PodsCalm
    BY <2>1, LateCommandSteadfast, UnchangedPods DEF LateCommand
  <2>2. ASSUME NEW p \in Procs,
               Isolate(p) \/ Cut(p) \/ Hang(p) \/ Busy(p) \/ Unplaced(p)
        PROVE  SteadfastProcs /\ PodsCalm
    BY <2>2, TouchingSteadfast, UnchangedPods DEF Isolate, Cut, Hang, Busy, Unplaced, Fault
  <2>3. ASSUME NEW p \in Procs, Crash(p) \/ PowerOff(p) \/ DeleteNode(p)
        PROVE  SteadfastProcs /\ PodsCalm
    BY <2>3, StoppingSteadfast, UnchangedPods DEF Crash, PowerOff, DeleteNode, Fault, Changes
  <2> QED
    BY <1>4, <2>1, <2>2, <2>3, RemovePodSteadfast, MakePodSteadfast, Zenon DEF Failures
<1> QED
  BY <1>1, <1>2, <1>3, <1>4

-----------------------------------------------------------------------------
(* Steps that let nobody in, make no primary, and leave the operations alone *)

\* An earlier process of an ordinal that still runs has an entry that says so.
LEMMA OldFacts ==
    ASSUME OperatorInv, NEW p \in Procs, Old(st, p)
    PROVE  /\ ~IsPodOf(p)
           /\ Up(p) => Unterminated /\ \E e \in st.prev : e.p = p /\ ~e.term
<1> DEFINE n == st.nodes[p[1]]
<1>1. p[1] \in Ordinals /\ p[2] \in 1..scene.incs /\ scene.incs \in Nat /\ p = <<p[1], p[2]>>
  BY ProcsAreNamed, StInv DEF Scene
<1>2. n # Nil /\ p[2] < n.p[2] /\ n.p[1] = p[1] /\ n.p \in Procs /\ proc[n.p].run \in {"up", "down"}
  BY <1>1, EntriesInv DEF Old
<1>3. n.p = <<p[1], n.p[2]>> /\ n.p[2] \in 1..scene.incs
  BY <1>2, ProcsAreNamed, StInv
<1>4. ~IsPodOf(p)
  <2>1. /\ pod[p[1]].inc \in {0, Used(p[1])}
        /\ proc[<<p[1], n.p[2]>>].run # "absent" <=> n.p[2] <= Used(p[1])
        /\ Used(p[1]) \in 0..scene.incs
    BY <1>1, <1>3, UsedFacts
  <2>2. n.p[2] <= Used(p[1])
    BY <1>2, <1>3, <2>1
  <2> HIDE DEF n
  <2> QED
    BY <1>1, <1>2, <1>3, <2>1, <2>2 DEF IsPodOf
<1>5. ASSUME Up(p) PROVE \E e \in st.prev : e.p = p /\ ~e.term
  <2>1. Knows(st, p)
    BY <1>4, <1>5 DEF OperatorInv, Tracked
  <2>2. PICK e \in Entries(st) : e.p = p
    BY <2>1 DEF Knows
  <2>3. ~e.term
    BY <1>5, <2>2, EntriesInv DEF Up
  <2>4. e \in st.prev
    <3>1. CASE e \in Nodes
      <4>1. st.nodes[e.p[1]] = e
        BY <3>1, EntriesInv
      <4> QED
        BY <1>1, <1>2, <1>3, <2>2, <4>1
    <3> QED
      BY <2>2, <3>1, EntriesInv
  <2> QED
    BY <2>2, <2>3, <2>4
<1> QED
  BY <1>4, <1>5 DEF Unterminated

\* What a step leaves of the status.
Level(s) ==
    /\ s.primary = st.primary /\ s.failover = st.failover
    /\ st.initialized => s.initialized
    /\ s.empty => st.empty
    /\ s.reported => st.reported \/ (s.rollout = Nil /\ ~Unterminated)
    /\ Shrinks(s) => Shrinks(st) \/ st.reported
    /\ st.failover # Nil => s.accepted.pw = st.accepted.pw /\ s.rollout = st.rollout
    /\ \A p \in Procs : Old(st, p) => Old(s, p)

SecuredNext ==
    HA /\ st.failover # Nil /\ Guarded(st.failover) =>
        Secured(proc'[st.failover.source], st'.accepted.pw)

LEMMA QuietWriter ==
    ASSUME OperatorInv, WriterInv, CalmProcs, PodsCalm, SecuredNext, Sized(st'),
           HA => Level(st') /\ Trusts(proc', pod', st', Ahead')
    PROVE  WriterNext
<1>1. Silent(proc')
  BY DEF CalmProcs, Calm, Silent
<1>2. OnlyOne(proc')
  BY WriterFacts DEF CalmProcs, Calm, OnlyOne, Serves
<1>3. ASSUME HA PROVE Strays(proc', st')
  <2> SUFFICES ASSUME NEW p \in Procs, Serves(proc'[p]), p # st'.primary
               PROVE  /\ Old(st', p) /\ st'.initialized /\ ~st'.empty /\ ~st'.reported
                      /\ ~Shrinks(st')
    BY DEF Strays
  <2>1. Serves(proc[p]) /\ p # st.primary /\ Up(p)
    BY <1>3, WriterFacts DEF CalmProcs, Calm, Serves, Silent, Level, Up
  <2>2. Old(st, p) /\ st.initialized /\ ~st.empty /\ ~st.reported /\ ~Shrinks(st)
    BY <1>3, <2>1, WriterFacts DEF Strays
  <2>3. Unterminated
    BY <2>1, <2>2, OldFacts
  <2> QED
    BY <1>3, <2>2, <2>3 DEF Level
<1>4. ASSUME HA PROVE Promised(proc', pod', st')
  BY <1>3, <1>4, WriterFacts DEF Promised, CalmProcs, Calm, PodsCalm, Level, Leading
<1>5. ASSUME HA PROVE Handed(proc', st')
  <2> DEFINE f == st.failover
  <2> SUFFICES ASSUME f # Nil
               PROVE  /\ ~st'.empty /\ f.cand # f.source
                      /\ Guarded(f) => Secured(proc'[f.source], st'.accepted.pw)
                      /\ f.stage # "reconfiguring" /\ f.source # st.primary =>
                            /\ f.reason = "resize" /\ st.primary # Nil /\ Old(st', st.primary)
                            /\ st'.rollout # Nil /\ ~Shrinks(st') /\ ~st'.reported
                      /\ f.stage # "reconfiguring" /\ f.candFenced =>
                            f.cand # Nil /\ ~Opens(proc'[f.cand])
                      /\ f.stage = "promoting" => f.candFenced
    BY <1>5 DEF Handed, Level
  <2>1. /\ ~st.empty /\ f.cand # f.source
        /\ f.stage # "reconfiguring" /\ f.source # st.primary =>
              /\ f.reason = "resize" /\ st.primary # Nil /\ Old(st, st.primary)
              /\ st.rollout # Nil /\ ~Shrinks(st) /\ ~st.reported
        /\ f.stage # "reconfiguring" /\ f.candFenced => f.cand # Nil /\ ~Opens(proc[f.cand])
        /\ f.stage = "promoting" => f.candFenced
    BY <1>5, WriterFacts DEF Handed
  <2>2. f.cand \in Procs \cup {Nil} /\ st.primary \in Procs \cup {Nil}
    BY FailoverInv DEF FailoverStatus, FailoverStatusOf
  <2> HIDE DEF f
  <2>3. f.cand # Nil /\ Opens(proc'[f.cand]) => Opens(proc[f.cand])
    BY <2>2 DEF CalmProcs, Calm
  <2>4. f = st.failover
    BY DEF f
  <2> QED
    BY <1>5, <2>1, <2>2, <2>3, <2>4 DEF Level, SecuredNext
<1> QED
  BY <1>1, <1>2, <1>3, <1>4, <1>5 DEF WriterNext, WriterOK

TrustKept(s) == \A p \in Procs : Trusted(s, p) => Trusted(st, p)

\* What is excused stays excused, unless the pass has seen the ordinal.
LEMMA ActedTrusts ==
    ASSUME OperatorInv, WriterInv, HA, CalmProcs, PodsCalm, Level(st'), TrustKept(st'),
           \A p \in Procs : p[1] \in Ahead =>
              p[1] \in Ahead' \/ ~Misread(proc'[p], pod'[p[1]].inc, st', p)
    PROVE  Trusts(proc', pod', st', Ahead')
<1> SUFFICES ASSUME NEW p \in Procs, Misread(proc'[p], pod'[p[1]].inc, st', p)
             PROVE  Excused(st', Ahead', p)
  BY DEF Trusts
<1>1. Misread(proc[p], pod[p[1]].inc, st, p)
  BY WriterFacts DEF Misread, CalmProcs, Calm, PodsCalm, TrustKept, Silent
<1>2. Excused(st, Ahead, p)
  BY <1>1, WriterFacts DEF Trusts
<1> QED
  BY <1>2 DEF Excused, Level

LEMMA ActedQuietly ==
    ASSUME OperatorInv, WriterInv, CalmProcs, PodsCalm, SecuredNext, Sized(st'),
           HA => Level(st') /\ TrustKept(st'),
           \A p \in Procs : p[1] \in Ahead => p[1] \in Ahead'
    PROVE  WriterNext
  BY ActedTrusts, QuietWriter

LEMMA SteadfastSecured ==
    ASSUME OperatorInv, WriterInv, SteadfastProcs,
           st.failover # Nil => st'.accepted.pw = st.accepted.pw
    PROVE  SecuredNext
<1> SUFFICES ASSUME HA, st.failover # Nil, Guarded(st.failover)
             PROVE  Secured(proc'[st.failover.source], st'.accepted.pw)
  BY DEF SecuredNext
<1> DEFINE p == st.failover.source
<1>1. Knows(st, p) /\ p \in Procs
  BY FailoverInv DEF GoodFailover, FailoverStatus, FailoverStatusOf
<1>2. proc[p].run \in {"up", "down"}
  BY <1>1, EntriesInv DEF Knows
<1>3. Secured(proc[p], st.accepted.pw)
  BY WriterFacts DEF Handed
<1> QED
  BY <1>1, <1>2, <1>3 DEF SteadfastProcs, Steadfast

LEMMA PassFacts ==
    ASSUME OperatorInv, NextPass PROVE \A p \in Procs : p[1] \in Ahead'
  BY ProcsAreNamed, StInv DEF NextPass, Memory, Ahead

LEMMA SameLevel == ASSUME UNCHANGED st PROVE Level(st') /\ TrustKept(st')
  BY DEF Level, TrustKept

LEMMA SameSized == ASSUME WriterInv, UNCHANGED st PROVE Sized(st')
  BY WriterFacts

LEMMA StillWriter ==
    ASSUME OperatorInv, WriterInv, SteadfastProcs, PodsCalm, UNCHANGED st,
           \A p \in Procs : p[1] \in Ahead => p[1] \in Ahead'
    PROVE  WriterNext
<1>1. SecuredNext
  BY SteadfastSecured
<1> QED
  BY <1>1, SteadfastMeansCalm, SameSized, SameLevel, ActedQuietly

LEMMA SameAhead == ASSUME UNCHANGED <<st, op>> PROVE Ahead' = Ahead
  BY DEF Ahead

LEMMA OutsideWriter ==
    ASSUME OperatorInv, WriterInv,
           EndsPass \/ Restart \/ Kubelet \/ Copies \/ Returns \/ Failures \/ User
    PROVE  WriterNext
<1>1. CASE Kubelet \/ Copies \/ Returns \/ Failures
  <2>1. UNCHANGED <<st, op>>
    BY <1>1 DEF Kubelet, Copies, Returns, Failures, Outside
  <2> QED
    BY <1>1, <2>1, OutsideSteadfast, SameAhead, StillWriter
<1>2. CASE EndsPass
  <2>1. UNCHANGED <<proc, pod, st>> /\ NextPass
    BY <1>2 DEF EndsPass, machine
  <2> QED
    BY <2>1, UnchangedProcs, UnchangedPods, PassFacts, StillWriter
<1>3. CASE Restart
  <2>1. UNCHANGED <<proc, pod, st>> /\ op'.todo = Ordinals
    BY <1>3 DEF Restart
  <2>2. \A p \in Procs : p[1] \in Ahead'
    BY <2>1, ProcsAreNamed, StInv DEF Ahead
  <2> QED
    BY <2>1, <2>2, UnchangedProcs, UnchangedPods, StillWriter
<1>4. CASE User
  <2>1. UNCHANGED <<proc, pod, st, op>>
    BY <1>4 DEF User, RequestSize, RequestPassword, RequestDeletion, RequestFencing, Request, machine
  <2> QED
    BY <2>1, UnchangedProcs, UnchangedPods, SameAhead, StillWriter
<1> QED
  BY <1>1, <1>2, <1>3, <1>4

\* A step that changes no process and no Pod.
LEMMA SavedWriter ==
    ASSUME OperatorInv, WriterInv, UNCHANGED <<proc, pod>>, NextPass, Sized(st'),
           HA => Level(st') /\ TrustKept(st')
    PROVE  WriterNext
<1>1. st.failover # Nil => HA
  BY FailoverInv DEF GoodFailover
<1>2. SecuredNext
  BY <1>1, UnchangedProcs, SteadfastSecured DEF Level
<1> QED
  BY <1>2, UnchangedProcs, SteadfastMeansCalm, UnchangedPods, PassFacts, ActedQuietly

\* A step that only changes something about a Pod.
LEMMA PodWriter ==
    ASSUME OperatorInv, WriterInv, UNCHANGED <<proc, st>>, NextPass,
           \A o \in Ordinals : pod'[o].inc \in {pod[o].inc, 0}
    PROVE  WriterNext
  BY UnchangedProcs, StayingPods, PassFacts, SameAhead, StillWriter

LEMMA FlaggedPodWriter ==
    ASSUME OperatorInv, WriterInv, UNCHANGED <<proc, st>>, NextPass, NEW o,
           \/ \E label : pod' = [pod EXCEPT ![o].label = label]
           \/ \E b : pod' = [pod EXCEPT ![o].deleting = b]
    PROVE  WriterNext
<1>1. \A i \in Ordinals : pod'[i].inc = pod[i].inc
  BY StInv DEF Pod
<1> QED
  BY <1>1, PodWriter

LEMMA RemovesRoleLabelWriter ==
    ASSUME OperatorInv, WriterInv, NEW p, RemovesRoleLabel(p) PROVE WriterNext
<1> DEFINE o == p[1]
<1>1. pod' = [pod EXCEPT ![o].label = "none"] /\ UNCHANGED <<proc, st>> /\ NextPass
  BY DEF RemovesRoleLabel
<1> HIDE DEF o
<1> QED
  BY <1>1, FlaggedPodWriter

LEMMA MetadataWriter == ASSUME OperatorInv, WriterInv, SetsPodMetadata PROVE WriterNext
<1>1. PICK o : pod' = [pod EXCEPT ![o].label = RoleLabel(o)]
  BY Zenon DEF SetsPodMetadata
<1>2. UNCHANGED <<proc, st>> /\ NextPass
  BY DEF SetsPodMetadata
<1> DEFINE label == RoleLabel(o)
<1>3. pod' = [pod EXCEPT ![o].label = label]
  BY <1>1
<1> HIDE DEF label
<1> QED
  BY <1>2, <1>3, FlaggedPodWriter

\* A session that sends neither an admission nor a promotion.
LEMMA SessionCalm ==
    ASSUME OperatorInv, WriterInv, NEW p \in Procs, NEW cmds \in Seq(Commands), Up(p),
           Session(p, cmds) \/ Interrupted(p, cmds),
           NoneOf("on", cmds), NoneOf("promote", cmds)
    PROVE  CalmProcs
<1>1. PICK r \in Process :
          /\ proc' = [proc EXCEPT ![p] = r] /\ r.run = proc[p].run
          /\ Opens(r) => Opens(proc[p])
          /\ (Leading(r) => Leading(proc[p])) /\ ~Awaits(r, "promote")
  BY SessionFacts
<1>2. Calm(r, proc[p])
  BY <1>1 DEF Calm, Up
<1> QED
  BY <1>1, <1>2, OneProc

\* What closes a process leaves one alone that has been closed before.
LEMMA ClosingSteadfast ==
    ASSUME OperatorInv, WriterInv, NEW p \in Procs, Up(p),
           Session(p, AppAccess(p, FALSE)) \/ Interrupted(p, AppAccess(p, FALSE))
    PROVE  SteadfastProcs
<1> DEFINE cmds == AppAccess(p, FALSE)
           q == proc[p]
           t == TakeControl(q)
           v == st.accepted.pw
           n == Len(lineage) + 1
<1>1. FALSE \in BOOLEAN
  OBVIOUS
<1>2. cmds \in Seq(Commands) /\ NoneOf("on", cmds) /\ NoneOf("promote", cmds)
  BY <1>1, AppAccessFacts, CommandKinds
<1>3. CalmProcs
  BY <1>2, SessionCalm
<1>4. PICK r \in Process : proc' = [proc EXCEPT ![p] = r] /\ r.run = q.run
  BY <1>2, SessionFacts
<1>5. ASSUME Secured(q, v) PROVE Secured(r, v)
  <2>1. q.run = "up" /\ ~q.app /\ q.clients = {} /\ q.pw = v /\ q \in Process
    BY <1>5, ProcFacts DEF Up, Secured
  <2>2. cmds = <<KillAppClients>>
    BY <2>1 DEF AppAccess
  <2>3. t \in Process /\ ~t.app /\ t.clients = {} /\ t.late = {} /\ t.pw = v
    BY <2>1 DEF TakeControl, Process
  <2>4. proc'[p] = r
    BY <1>4, StInv
  <2>5. DoAll(t, cmds) \in Process
    <3>1. lineage \in Seq(Nat) /\ q.hist <= Len(lineage) /\ q.hist \in Nat
      BY ProcFacts DEF OperatorInv, Types, ProcessTypeOK, Process
    <3>2. t.hist = q.hist
      BY <2>1 DEF TakeControl, Process
    <3> HIDE DEF t, cmds, q
    <3>3. t.hist <= Len(lineage) + 1
      BY <3>1, <3>2
    <3> QED
      BY <1>2, <2>3, <3>1, <3>3, DoAllFacts
  <2> HIDE DEF cmds, t, q, v
  <2>6. CASE Session(p, cmds)
    <3>1. r = DoAll(t, cmds)
      BY <2>4, <2>6, StInv DEF Session, Becomes, t, q
    <3> QED
      BY <3>1, ClosedFacts DEF Secured, t, q, cmds, v
  <2>7. CASE Interrupted(p, cmds)
    <3>1. cmds \in Seq(Commands) /\ Len(cmds) = 1 /\ cmds[1] = KillAppClients
      BY <1>2, <2>2
    <3>2. PICK k \in 0 .. Len(cmds) :
            Becomes(p, [DoAll(t, SubSeq(cmds, 1, k))
                          EXCEPT !.late = IF k < Len(cmds) THEN {cmds[k + 1]} ELSE {}])
      BY <2>7, Zenon DEF Interrupted, t, q
    <3> DEFINE part == SubSeq(cmds, 1, k)
               d == DoAll(t, part)
               late == IF k < Len(cmds) THEN {cmds[k + 1]} ELSE {}
    <3>3. r = [d EXCEPT !.late = late]
      BY <2>4, <3>2, StInv DEF Becomes
    <3>4. late \subseteq {KillAppClients}
      <4>1. k < Len(cmds) => k + 1 = 1
        BY <3>1
      <4> QED
        BY <3>1, <4>1
    <3>5. Len(part) = k /\ \A i \in 1 .. k : part[i] = cmds[i]
      BY <3>1
    <3> HIDE DEF part, late
    <3>6. d \in Process /\ ~d.app /\ d.clients = {} /\ d.pw = v
      <4>1. CASE k = 0
        <5>1. d = t
          BY <3>5, <4>1 DEF DoAll
        <5> QED
          BY <2>3, <5>1
      <4>2. CASE k = 1
        <5>1. Len(part) = 1 /\ part[1] = cmds[1]
          BY <3>5, <4>2
        <5>2. d = DoAll(t, cmds)
          BY <3>1, <5>1 DEF DoAll
        <5> QED
          BY <2>5, <5>2, ClosedFacts DEF t, q, cmds, v
      <4> QED
        BY <3>1, <4>1, <4>2
    <3> HIDE DEF d
    <3> QED
      BY <3>3, <3>4, <3>6 DEF Secured, Process
  <2> QED
    BY <2>6, <2>7 DEF cmds
<1> HIDE DEF q, v
<1>6. Steadfast(r, proc[p])
  <2>1. proc'[p] = r
    BY <1>4, StInv
  <2> QED
    BY <1>3, <1>5, <2>1 DEF CalmProcs, Steadfast, q, v
<1> QED
  BY <1>4, <1>6, OneSteadfast

LEMMA GivesUpWriter ==
    ASSUME OperatorInv, WriterInv, NEW p \in Procs, NEW cmds \in Seq(Commands), NEW answered,
           GivesUp(p, cmds, answered), NoneOf("on", cmds), NoneOf("promote", cmds), SecuredNext
    PROVE  WriterNext
<1>1. /\ Up(p) /\ UNCHANGED <<pod, st>> /\ (Session(p, cmds) \/ Interrupted(p, cmds))
      /\ op' = [op EXCEPT !.skipped = @ \cup {p}]
  BY DEF GivesUp, Reachable
<1>2. Ahead' = Ahead
  BY <1>1, StInv DEF Memory, Ahead
<1>3. CalmProcs
  BY <1>1, SessionCalm
<1> QED
  BY <1>1, <1>2, <1>3, SameSized, SameLevel, UnchangedPods, ActedQuietly

LEMMA CommandedWriter ==
    ASSUME OperatorInv, WriterInv, NEW p \in Procs, NEW cmds \in Seq(Commands), NEW s,
           Commanded(p, cmds, s) \/ BrokenOff(p, cmds),
           NoneOf("on", cmds), NoneOf("promote", cmds), SecuredNext,
           Sized(s), HA => Level(s) /\ TrustKept(s)
    PROVE  WriterNext
<1>1. /\ Up(p) /\ UNCHANGED pod /\ NextPass /\ (st' = s \/ UNCHANGED st)
      /\ Session(p, cmds) \/ Interrupted(p, cmds)
  BY DEF Commanded, BrokenOff, Reachable
<1>2. CalmProcs
  BY <1>1, SessionCalm
<1>3. Sized(st') /\ (HA => Level(st') /\ TrustKept(st'))
  BY <1>1, SameSized, SameLevel
<1> QED
  BY <1>1, <1>2, <1>3, UnchangedPods, PassFacts, ActedQuietly

\* Behind the failover no process is fenced.
LEMMA FreeSecured ==
    ASSUME st.failover = Nil \/ st.failover.stage = "reconfiguring" PROVE SecuredNext
  BY DEF SecuredNext, Guarded

LEMMA CommandedSame ==
    ASSUME OperatorInv, WriterInv, NEW p \in Procs, NEW cmds \in Seq(Commands),
           \/ Commanded(p, cmds, st) \/ BrokenOff(p, cmds)
           \/ \E answered : GivesUp(p, cmds, answered),
           NoneOf("on", cmds), NoneOf("promote", cmds),
           st.failover = Nil \/ st.failover.stage = "reconfiguring"
    PROVE  WriterNext
<1>1. Level(st) /\ TrustKept(st) /\ Sized(st)
  BY WriterFacts DEF Level, TrustKept
<1> QED
  BY <1>1, FreeSecured, CommandedWriter, GivesUpWriter

LEMMA FencesSame ==
    ASSUME OperatorInv, WriterInv, NEW p \in Procs, Fences(p, st),
           st.failover = Nil \/ st.failover.stage = "reconfiguring"
    PROVE  WriterNext
<1>1. FALSE \in BOOLEAN
  OBVIOUS
<1>2. AppAccess(p, FALSE) \in Seq(Commands)
  BY <1>1, AppAccessFacts
<1> QED
  BY <1>2, CommandKinds, CommandedSame DEF Fences

-----------------------------------------------------------------------------
(* Statuses that leave the operations alone, or bring them forward          *)

\* The entries are about the same processes and promise nothing new.
SeenAlike(s) ==
    \A o \in Ordinals :
        IF st.nodes[o] = Nil THEN s.nodes[o] = Nil
        ELSE /\ s.nodes[o] # Nil /\ s.nodes[o].p = st.nodes[o].p
             /\ s.nodes[o].role = st.nodes[o].role /\ s.nodes[o].obs = st.nodes[o].obs
             /\ s.nodes[o].ready => st.nodes[o].ready

LEMMA EntryThere == ASSUME OperatorInv, NEW n \in NodeStatus PROVE n # Nil
  BY StInv, ProcsAreNamed, StatusAssumption DEF NodeStatus, NodeStatusOf

LEMMA SeenAlikeFacts ==
    ASSUME OperatorInv, NEW s, SeenAlike(s)
    PROVE  TrustKept(s) /\ \A p \in Procs : Old(st, p) => Old(s, p)
<1>1. \A p \in Procs : p[1] \in Ordinals
  BY ProcsAreNamed, StInv
<1> QED
  BY <1>1 DEF SeenAlike, TrustKept, Trusted, Old

SmallSteps == {"replicas", "switching", "primary"}

Mild(s) ==
    /\ s.primary = st.primary /\ s.failover = st.failover /\ s.initialized = st.initialized
    /\ s.accepted = st.accepted /\ (s.empty => st.empty)
    /\ s.reported => st.reported \/ (s.rollout = Nil /\ ~Unterminated)
    /\ st.failover # Nil => s.rollout = st.rollout
    /\ s.rollout # Nil =>
          /\ st.rollout # Nil /\ s.applied.size = st.applied.size
          /\ s.rollout.stage \in SmallSteps => st.rollout.stage \in SmallSteps \/ ~Shrinks(st)
    /\ SeenAlike(s)

LEMMA MildFacts ==
    ASSUME OperatorInv, WriterInv, NEW s, Mild(s)
    PROVE  Level(s) /\ TrustKept(s) /\ Sized(s)
<1>1. TrustKept(s) /\ \A p \in Procs : Old(st, p) => Old(s, p)
  BY SeenAlikeFacts DEF Mild
<1>2. Level(s)
  BY <1>1 DEF Mild, Level, Shrinks
<1>3. Sized(s)
  BY WriterFacts DEF Mild, Sized, Shrinks, SmallSteps
<1> QED
  BY <1>1, <1>2, <1>3

LEMMA MildStep ==
    ASSUME OperatorInv, WriterInv, SteadfastProcs, PodsCalm, NextPass, Mild(st')
    PROVE  WriterNext
<1>1. SecuredNext
  BY SteadfastSecured DEF Mild
<1> QED
  BY <1>1, MildFacts, SteadfastMeansCalm, PassFacts, ActedQuietly

LEMMA MildWriter ==
    ASSUME OperatorInv, WriterInv, UNCHANGED <<proc, pod>>, NextPass, Mild(st')
    PROVE  WriterNext
  BY MildFacts, SavedWriter

LEMMA SameMild == Mild(st)
<1>1. SeenAlike(st)
  BY DEF SeenAlike
<1> QED
  BY <1>1 DEF Mild

LEMMA PhaseMild ==
    ASSUME NEW s \in Status, Mild(s), s.prev = st.prev PROVE Mild(ApplyOperationalPhase(s))
<1> DEFINE t == ApplyOperationalPhase(s)
<1>1. /\ t.primary = s.primary /\ t.failover = s.failover /\ t.initialized = s.initialized
      /\ t.accepted = s.accepted /\ t.applied = s.applied /\ t.rollout = s.rollout
      /\ t.nodes = s.nodes /\ ~t.empty
      /\ t.reported => s.reported \/ (s.rollout = Nil /\ \A q \in s.prev : q.term)
  BY DEF ApplyOperationalPhase, Status
<1> HIDE DEF t
<1>2. t.reported => st.reported \/ (t.rollout = Nil /\ ~Unterminated)
  BY <1>1 DEF Mild, Unterminated
<1>3. SeenAlike(t)
  BY <1>1 DEF Mild, SeenAlike
<1> QED
  BY <1>1, <1>2, <1>3 DEF Mild, t

\* A status that differs in what the invariant does not look at.
LEMMA FieldsMild ==
    ASSUME OperatorInv, NEW s, s.nodes = st.nodes, s.rollout = st.rollout, s.applied.size = st.applied.size,
           s.primary = st.primary, s.failover = st.failover, s.initialized = st.initialized,
           s.accepted = st.accepted, s.empty => st.empty, s.reported = st.reported
    PROVE  Mild(s)
<1>1. SeenAlike(s)
  BY DEF SeenAlike
<1> QED
  BY <1>1 DEF Mild

\* One entry is written again.
LEMMA EntryMild ==
    ASSUME OperatorInv, NEW o \in Ordinals, st.nodes[o] # Nil, NEW n, n # Nil, n.p = st.nodes[o].p,
           n.role = st.nodes[o].role, n.obs = st.nodes[o].obs, n.ready => st.nodes[o].ready,
           NEW s, s = [st EXCEPT !.nodes[o] = n]
    PROVE  Mild(s)
<1>1. /\ s.nodes = [st.nodes EXCEPT ![o] = n] /\ s.rollout = st.rollout /\ s.applied = st.applied
      /\ s.primary = st.primary /\ s.failover = st.failover /\ s.initialized = st.initialized
      /\ s.accepted = st.accepted /\ s.empty = st.empty /\ s.reported = st.reported
  BY StInv DEF Status
<1>2. SeenAlike(s)
  <2> SUFFICES ASSUME NEW i \in Ordinals
               PROVE  IF st.nodes[i] = Nil THEN s.nodes[i] = Nil
                      ELSE /\ s.nodes[i] # Nil /\ s.nodes[i].p = st.nodes[i].p
                           /\ s.nodes[i].role = st.nodes[i].role /\ s.nodes[i].obs = st.nodes[i].obs
                           /\ s.nodes[i].ready => st.nodes[i].ready
    BY DEF SeenAlike
  <2>1. s.nodes[i] = IF i = o THEN n ELSE st.nodes[i]
    BY <1>1, StInv
  <2> QED
    BY <2>1
<1> QED
  BY <1>1, <1>2 DEF Mild

-----------------------------------------------------------------------------
(* The start of a pass, manual fencing, recovery                            *)

LEMMA ResourceWriter ==
    ASSUME OperatorInv, WriterInv, UNCHANGED <<proc, pod, st>>, NextPass PROVE WriterNext
  BY PodWriter

LEMMA WorkloadWriter == ASSUME OperatorInv, WriterInv, ReconcileWorkload PROVE WriterNext
<1>1. UNCHANGED st /\ NextPass
  BY DEF ReconcileWorkload
<1>2. CASE WorkloadStopped
  <2> DEFINE o == First(StoppablePods)
  <2>1. pod' = [pod EXCEPT ![o].deleting = TRUE] /\ UNCHANGED proc
    BY <1>2, Zenon DEF ReconcileWorkload
  <2> HIDE DEF o
  <2> QED
    BY <1>1, <2>1, FlaggedPodWriter
<1>3. CASE ~WorkloadStopped
  <2> DEFINE S == MissingPods
             size == TemplateSize
  <2>1. /\ pod' = [o \in Ordinals |-> IF o \in S THEN FreshPod(Used(o) + 1) ELSE pod[o]]
        /\ proc' = [p \in Procs |-> IF p[1] \in S /\ p[2] = Used(p[1]) + 1
                                    THEN FreshProcess(size) ELSE proc[p]]
    BY <1>3, Zenon DEF ReconcileWorkload, FreshPod, FreshProcess
  <2>2. S \in SUBSET Ordinals
    BY DEF MissingPods
  <2> HIDE DEF S, size
  <2>3. \A i : FreshPod(i).inc = i
    BY DEF FreshPod, NoPod
  <2>4. \A o \in Ordinals : pod'[o].inc = IF o \in S THEN Used(o) + 1 ELSE pod[o].inc
    BY <2>1, <2>3
  <2>5. \A p \in Procs : proc'[p] = IF p[1] \in S /\ p[2] = Used(p[1]) + 1
                                    THEN FreshProcess(size) ELSE proc[p]
    BY <2>1
  <2> QED
    BY <1>1, <2>2, <2>4, <2>5, NewPodsSteadfast, PassFacts, SameAhead, StillWriter
<1> QED
  BY <1>2, <1>3

LEMMA AcceptsManualFencingWriter ==
    ASSUME OperatorInv, WriterInv, AcceptsManualFencing PROVE WriterNext
<1>1. PICK p : st' = [st EXCEPT
                    !.nodes = [o \in Ordinals |-> IF @[o] # Nil /\ @[o].p = p THEN Stopped(@[o])
                                                                               ELSE @[o]],
                    !.prev = {IF q.p = p THEN Stopped(q) ELSE q : q \in @}]
  BY Zenon DEF AcceptsManualFencing
<1>2. UNCHANGED <<proc, pod>> /\ NextPass
  BY DEF AcceptsManualFencing, machine
<1> DEFINE nodes == [o \in Ordinals |-> IF st.nodes[o] # Nil /\ st.nodes[o].p = p
                                         THEN Stopped(st.nodes[o]) ELSE st.nodes[o]]
           prev == {IF q.p = p THEN Stopped(q) ELSE q : q \in st.prev}
<1>3. st' = [st EXCEPT !.nodes = nodes, !.prev = prev]
  BY <1>1
<1>4. \A o \in Ordinals : st.nodes[o] # Nil =>
          /\ Stopped(st.nodes[o]).p = st.nodes[o].p /\ Stopped(st.nodes[o]) # Nil
          /\ Stopped(st.nodes[o]).role = st.nodes[o].role /\ Stopped(st.nodes[o]).obs = st.nodes[o].obs
          /\ ~Stopped(st.nodes[o]).ready
  <2> SUFFICES ASSUME NEW n \in NodeStatus, n # Nil
               PROVE  /\ Stopped(n).p = n.p /\ Stopped(n) # Nil /\ Stopped(n).role = n.role
                      /\ Stopped(n).obs = n.obs /\ ~Stopped(n).ready
    BY StInv
  <2>1. Stopped(n) # Nil
    BY StoppedFacts, EntryThere
  <2> QED
    BY <2>1 DEF Stopped, NodeStatus, NodeStatusOf
<1>5. \A o \in Ordinals : nodes[o] = IF st.nodes[o] # Nil /\ st.nodes[o].p = p
                                     THEN Stopped(st.nodes[o]) ELSE st.nodes[o]
  OBVIOUS
<1> HIDE DEF nodes, prev
<1>6. /\ st'.nodes = nodes /\ st'.rollout = st.rollout /\ st'.applied = st.applied
      /\ st'.primary = st.primary /\ st'.failover = st.failover /\ st'.initialized = st.initialized
      /\ st'.accepted = st.accepted /\ st'.empty = st.empty /\ st'.reported = st.reported
  BY <1>3, StInv DEF Status
<1>7. SeenAlike(st')
  BY <1>4, <1>5, <1>6 DEF SeenAlike
<1>8. Mild(st')
  BY <1>6, <1>7 DEF Mild
<1> QED
  BY <1>2, <1>8, MildWriter

LEMMA ProcessRecoveryWriter ==
    ASSUME OperatorInv, WriterInv, ReconcileProcessRecovery PROVE WriterNext
<1>1. PICK o \in Ordinals : \E stage \in RecoverySteps(st.nodes[o]) :
        LET n == st.nodes[o]
            killed == n.rec = "killing" /\ stage = "none"
            unsaved == IF stage = "waiting" /\ ~pod[o].deleting THEN {n.rec} ELSE {}
        IN /\ n # Nil /\ RecoverySteps(n) \notin {{}, {"pending"}}
           /\ \E rec \in {stage} \cup unsaved : st' = [st EXCEPT !.nodes[o].rec = rec]
           /\ proc' = [proc EXCEPT ![n.p].state = IF killed THEN "ok" ELSE @]
           /\ pod' = [pod EXCEPT ![o].deleting = @ \/ stage = "waiting"]
  BY Zenon DEF ReconcileProcessRecovery, RecoveryOrdinal
<1>2. NextPass
  BY DEF ReconcileProcessRecovery
<1> DEFINE n == st.nodes[o]
           p == n.p
<1>3. n \in NodeStatus /\ n # Nil /\ p \in Procs /\ RecoverySteps(n) \notin {{}, {"pending"}}
  BY <1>1, EntriesInv
<1>4. PICK stage \in RecoverySteps(n) :
        LET killed == n.rec = "killing" /\ stage = "none"
        IN /\ \E rec \in {stage, n.rec} : st' = [st EXCEPT !.nodes[o].rec = rec]
           /\ proc' = [proc EXCEPT ![n.p].state = IF killed THEN "ok" ELSE @]
           /\ pod' = [pod EXCEPT ![o].deleting = @ \/ stage = "waiting"]
  BY <1>1
<1> DEFINE Stages == {"none", "killing", "deleting", "deletingBusy", "waiting"}
<1>5. Mild(st')
  <2>1. stage \in Stages /\ n.rec \in Stages
    BY <1>3, <1>4 DEF RecoverySteps, NodeStatus, NodeStatusOf
  <2>2. PICK rec \in Stages : st' = [st EXCEPT !.nodes[o].rec = rec]
    BY <1>4, <2>1
  <2> DEFINE m == [n EXCEPT !.rec = rec]
  <2>3. m \in NodeStatus /\ m.p = n.p /\ m.role = n.role /\ m.obs = n.obs /\ m.ready = n.ready
    BY <1>3, <2>2 DEF NodeStatus, NodeStatusOf
  <2>4. m # Nil
    BY <2>3, EntryThere
  <2>5. st' = [st EXCEPT !.nodes[o] = m]
    BY <2>2
  <2> HIDE DEF m, n
  <2> QED
    BY <1>3, <2>3, <2>4, <2>5, EntryMild DEF n
<1>6. SteadfastProcs
  <2> DEFINE q == proc[p]
             new == IF n.rec = "killing" /\ stage = "none" THEN "ok" ELSE q.state
             r == [q EXCEPT !.state = new]
  <2>1. proc' = [proc EXCEPT ![p] = r]
    BY <1>4
  <2>2. Touched(r, q)
    <3>1. q.state \in {"ok", "busy", "hung"}
      BY <1>3, ProcFacts DEF Process
    <3>2. new \in {"ok", "hung", "busy"}
      BY <3>1
    <3> HIDE DEF new
    <3> QED
      BY <3>2 DEF Touched
  <2> HIDE DEF r, p
  <2> QED
    BY <1>3, <2>1, <2>2, TouchedProcs
<1>7. PodsCalm
  <2>1. \A i \in Ordinals : pod'[i].inc = pod[i].inc
    BY <1>4, StInv DEF Pod
  <2> QED
    BY <2>1, StayingPods
<1> QED
  BY <1>2, <1>5, <1>6, <1>7, MildStep

-----------------------------------------------------------------------------
(* Acceptance, rotation, resize                                             *)

\* A configuration is accepted only after the last one has been confirmed, and
\* then nobody serves beside the primary.
LEMMA AcceptedConfigurationWriter ==
    ASSUME OperatorInv, WriterInv, ReconcileAcceptedConfiguration PROVE WriterNext
<1> DEFINE new == [stage |-> "preparing", p |-> Nil, closed |-> FALSE]
           rollout == IF cr.size = st.accepted.size THEN Nil ELSE new
           rotation == IF cr.pw = st.accepted.pw THEN Nil
                       ELSE [stage |-> "preparing", confirmed |-> {}, old |-> st.accepted.pw]
<1>1. /\ st.reported /\ st.failover = Nil /\ UNCHANGED <<proc, pod>> /\ NextPass
      /\ st' = [st EXCEPT !.accepted = Wanted, !.reported = FALSE, !.rollout = rollout,
                          !.rotation = rotation]
  BY DEF ReconcileAcceptedConfiguration, AcceptDue, Idle, Saved, machine
<1>2. rollout # Nil => rollout.stage = "preparing"
  OBVIOUS
<1> HIDE DEF rollout, rotation
<1>3. /\ st'.nodes = st.nodes /\ st'.rollout = rollout /\ ~st'.reported
      /\ st'.primary = st.primary /\ st'.failover = st.failover /\ st'.initialized = st.initialized
      /\ st'.empty = st.empty
  BY <1>1, StInv DEF Status
<1>4. Sized(st')
  BY <1>2, <1>3 DEF Sized
<1>5. \A p \in Procs : (Old(st, p) <=> Old(st', p)) /\ (Trusted(st', p) <=> Trusted(st, p))
  BY <1>3 DEF Old, Trusted
<1>6. Level(st') /\ TrustKept(st')
  BY <1>1, <1>3, <1>5 DEF Level, TrustKept
<1> QED
  BY <1>1, <1>4, <1>6, SavedWriter

LEMMA ToStageWriter ==
    ASSUME OperatorInv, WriterInv, NEW stage, Saved(ToStage(stage)) PROVE WriterNext
<1> DEFINE rotation == [st.rotation EXCEPT !.stage = stage]
<1>1. /\ st' = [st EXCEPT !.rotation = rotation, !.empty = FALSE]
      /\ UNCHANGED <<proc, pod>> /\ NextPass
  BY DEF Saved, ToStage, machine
<1> HIDE DEF rotation
<1>2. Mild(st')
  <2>1. /\ st'.nodes = st.nodes /\ st'.rollout = st.rollout /\ st'.applied = st.applied
        /\ st'.primary = st.primary /\ st'.failover = st.failover
        /\ st'.initialized = st.initialized /\ st'.accepted = st.accepted /\ ~st'.empty
        /\ st'.reported = st.reported
    BY <1>1, StInv DEF Status
  <2> QED
    BY <2>1, FieldsMild
<1> QED
  BY <1>1, <1>2, MildWriter

LEMMA RotatesPasswordWriter ==
    ASSUME OperatorInv, WriterInv, st.failover = Nil, NEW primary, RotatesPassword(primary)
    PROVE  WriterNext
<1>1. PICK n \in Rotatable(primary) :
          \/ Commanded(n.p, RotateCommands,
                    [st EXCEPT !.rotation.confirmed = @ \cup {n.p},
                               !.nodes = [o \in Ordinals |->
                                   IF @[o] = n THEN [n EXCEPT !.pw = st.accepted.pw] ELSE @[o]]])
          \/ GivesUp(n.p, RotateCommands, proc[n.p].app # n.app)
  BY Zenon DEF RotatesPassword
<1>2. n \in NodeStatus /\ n.p \in Procs
  BY EntriesInv DEF Rotatable, Unconfirmed, RotationProcesses
<1> DEFINE m == [n EXCEPT !.pw = st.accepted.pw]
           nodes == [o \in Ordinals |-> IF st.nodes[o] = n THEN m ELSE st.nodes[o]]
           rotation == [st.rotation EXCEPT !.confirmed = @ \cup {n.p}]
           t == [st EXCEPT !.rotation = rotation, !.nodes = nodes]
<1>3. Commanded(n.p, RotateCommands, t) \/ \E answered : GivesUp(n.p, RotateCommands, answered)
  BY <1>1
<1>4. m \in NodeStatus /\ m.p = n.p /\ m.role = n.role /\ m.obs = n.obs /\ m.ready = n.ready
  BY <1>2, StInv DEF NodeStatus, NodeStatusOf
<1>5. m # Nil /\ n # Nil
  BY <1>2, <1>4, EntryThere
<1>6. \A o \in Ordinals : nodes[o] = IF st.nodes[o] = n THEN m ELSE st.nodes[o]
  OBVIOUS
<1> HIDE DEF m, nodes, rotation
<1>7. Mild(t)
  <2>1. /\ t.nodes = nodes /\ t.rollout = st.rollout /\ t.applied = st.applied
        /\ t.primary = st.primary /\ t.failover = st.failover
        /\ t.initialized = st.initialized /\ t.accepted = st.accepted /\ t.empty = st.empty
        /\ t.reported = st.reported
    BY StInv DEF Status
  <2>2. SeenAlike(t)
    BY <1>4, <1>5, <1>6, <2>1 DEF SeenAlike
  <2> QED
    BY <2>1, <2>2 DEF Mild
<1> HIDE DEF t
<1> QED
  BY <1>2, <1>3, <1>7, RotateFacts, CommandKinds, MildFacts, FreeSecured, CommandedWriter,
     GivesUpWriter

LEMMA RotationWriter ==
    ASSUME OperatorInv, WriterInv, ReconcileCredentialRotation PROVE WriterNext
<1>1. st.failover = Nil
  BY DEF ReconcileCredentialRotation, PreparesRotation, RotatesReplicas, RotatesPrimary,
     CleansSecret, FinishesRotation, InRotation, RotationDue
<1>2. CASE CleansSecret
  BY <1>2, ResourceWriter DEF CleansSecret, machine
<1>3. CASE FinishesRotation
  <2> DEFINE a == [st.applied EXCEPT !.pw = st.accepted.pw]
             s == [st EXCEPT !.applied = a, !.rotation = Nil]
  <2>1. Saved(ApplyOperationalPhase(s))
    BY <1>3, Zenon DEF FinishesRotation
  <2>2. a \in Configuration /\ a.size = st.applied.size
    BY StInv DEF Configuration
  <2> HIDE DEF a
  <2>3. /\ s \in Status /\ s.nodes = st.nodes /\ s.rollout = st.rollout /\ s.applied = a
        /\ s.primary = st.primary /\ s.failover = st.failover
        /\ s.initialized = st.initialized /\ s.accepted = st.accepted /\ s.empty = st.empty
        /\ s.reported = st.reported /\ s.prev = st.prev
    BY <2>2, StInv DEF Status
  <2> HIDE DEF s
  <2>4. Mild(ApplyOperationalPhase(s))
    BY <2>2, <2>3, FieldsMild, PhaseMild
  <2> QED
    BY <2>1, <2>4, MildWriter DEF Saved, machine
<1> QED
  BY <1>1, <1>2, <1>3, ToStageWriter, RotatesPasswordWriter
     DEF ReconcileCredentialRotation, PreparesRotation, RotatesReplicas, RotatesPrimary

\* The rollout goes on.
LEMMA RolloutFieldWriter ==
    ASSUME OperatorInv, WriterInv, st.failover = Nil, st.rollout # Nil, NEW r,
           r.stage \in SmallSteps => st.rollout.stage \in SmallSteps \/ ~Shrinks(st),
           NEW s, s = [st EXCEPT !.rollout = r] \/ s = [st EXCEPT !.rollout = r, !.empty = FALSE],
           Saved(s)
    PROVE  WriterNext
<1>1. /\ s.nodes = st.nodes /\ s.rollout = r /\ s.applied = st.applied
      /\ s.primary = st.primary /\ s.failover = st.failover
      /\ s.initialized = st.initialized /\ s.accepted = st.accepted /\ (s.empty => st.empty)
      /\ s.reported = st.reported
  BY StInv DEF Status
<1>2. SeenAlike(s)
  BY <1>1 DEF SeenAlike
<1>3. Mild(s)
  BY <1>1, <1>2 DEF Mild
<1> QED
  BY <1>3, MildWriter DEF Saved, machine

LEMMA AdvanceWriter ==
    ASSUME OperatorInv, WriterInv, st.failover = Nil, st.rollout # Nil, NEW stage,
           stage \in SmallSteps => st.rollout.stage \in SmallSteps \/ ~Shrinks(st),
           Saved(Advance(stage))
    PROVE  WriterNext
<1> DEFINE q == st.rollout
           r == [q EXCEPT !.stage = stage, !.p = Nil]
           s == [st EXCEPT !.rollout = r, !.empty = FALSE]
<1>1. Saved(s)
  BY DEF Advance
<1>2. r.stage = stage
  BY RolloutInv DEF RolloutStatus, RolloutStatusOf
<1> HIDE DEF r
<1> QED
  BY <1>1, <1>2, RolloutFieldWriter

LEMMA ClosesProcessesWriter == ASSUME OperatorInv, WriterInv, ClosesProcesses PROVE WriterNext
<1>1. st.failover = Nil /\ st.rollout # Nil
  BY DEF ClosesProcesses, InRollout
<1>2. \/ Saved([st EXCEPT !.rollout.closed = TRUE])
      \/ \E n \in Unclosed : \/ RemovesRoleLabel(n.p)
                            \/ Commanded(n.p, AppAccess(n.p, FALSE), st)
                            \/ GivesUp(n.p, AppAccess(n.p, FALSE), FALSE)
  BY Zenon DEF ClosesProcesses
<1>3. \A n \in Unclosed : n.p \in Procs
  BY EntriesInv DEF Unclosed, Live
<1>4. CASE Saved([st EXCEPT !.rollout.closed = TRUE])
  <2> DEFINE q == st.rollout
             r == [q EXCEPT !.closed = TRUE]
  <2>1. Saved([st EXCEPT !.rollout = r])
    BY <1>4
  <2>2. r.stage = st.rollout.stage
    BY <1>1, RolloutInv DEF RolloutStatus, RolloutStatusOf
  <2> HIDE DEF r
  <2> QED
    BY <1>1, <2>1, <2>2, RolloutFieldWriter
<1>5. ASSUME NEW n \in Unclosed,
             \/ Commanded(n.p, AppAccess(n.p, FALSE), st)
             \/ GivesUp(n.p, AppAccess(n.p, FALSE), FALSE)
      PROVE  WriterNext
  <2>1. FALSE \in BOOLEAN
    OBVIOUS
  <2>2. AppAccess(n.p, FALSE) \in Seq(Commands)
    BY <1>3, <2>1, AppAccessFacts
  <2> QED
    BY <1>1, <1>3, <1>5, <2>2, CommandKinds, CommandedSame
<1> QED
  BY <1>2, <1>4, <1>5, RemovesRoleLabelWriter

LEMMA RollingReplacementWriter ==
    ASSUME OperatorInv, WriterInv, NEW stage \in SmallSteps, NEW next,
           RollingReplacement(stage, next)
    PROVE  WriterNext
<1>1. st.failover = Nil /\ st.rollout # Nil /\ st.rollout.stage \in SmallSteps
  BY DEF RollingReplacement, InRollout
<1>2. \/ \E old \in Known(st.rollout.p) : Replaces(old)
      \/ Saved(Advance(next))
      \/ \E p : Saved([st EXCEPT !.rollout.p = p])
  BY Zenon DEF RollingReplacement
<1>3. ASSUME NEW p, Saved([st EXCEPT !.rollout.p = p]) PROVE WriterNext
  <2> DEFINE q == st.rollout
             r == [q EXCEPT !.p = p]
  <2>1. Saved([st EXCEPT !.rollout = r])
    BY <1>3
  <2>2. r.stage = st.rollout.stage
    BY <1>1, RolloutInv DEF RolloutStatus, RolloutStatusOf
  <2> HIDE DEF r
  <2> QED
    BY <1>1, <2>1, <2>2, RolloutFieldWriter
<1>4. ASSUME NEW old \in Known(st.rollout.p), Replaces(old) PROVE WriterNext
  <2> DEFINE p == old.p
             o == p[1]
  <2>1. p \in Procs
    BY KnownFacts
  <2>2. \/ RemovesRoleLabel(p)
        \/ Fences(p, st)
        \/ pod' = [pod EXCEPT ![o].deleting = TRUE] /\ UNCHANGED <<proc, st>> /\ NextPass
        \/ Saved([st EXCEPT !.rollout.p = Nil])
    BY <1>4, Zenon DEF Replaces
  <2> HIDE DEF p, o
  <2> QED
    BY <1>1, <1>3, <2>1, <2>2, FencesSame, RemovesRoleLabelWriter, FlaggedPodWriter
<1> QED
  BY <1>1, <1>2, <1>3, <1>4, AdvanceWriter

LEMMA VerifiesRolloutWriter == ASSUME OperatorInv, WriterInv, VerifiesRollout PROVE WriterNext
<1> DEFINE a == [st.applied EXCEPT !.size = st.accepted.size]
           s == [st EXCEPT !.applied = a, !.rollout = Nil]
<1>1. st.failover = Nil /\ (SetsPodMetadata \/ Saved(ApplyOperationalPhase(s)))
  BY Zenon DEF VerifiesRollout, InRollout
<1>2. a \in Configuration
  BY StInv DEF Configuration
<1> HIDE DEF a
<1>3. /\ s \in Status /\ s.nodes = st.nodes /\ s.rollout = Nil
      /\ s.primary = st.primary /\ s.failover = st.failover
      /\ s.initialized = st.initialized /\ s.accepted = st.accepted /\ s.empty = st.empty
      /\ s.reported = st.reported /\ s.prev = st.prev
  BY <1>2, StInv DEF Status
<1> HIDE DEF s
<1>4. SeenAlike(s)
  BY <1>3 DEF SeenAlike
<1>5. Mild(s)
  BY <1>1, <1>3, <1>4 DEF Mild
<1>6. Mild(ApplyOperationalPhase(s))
  BY <1>3, <1>5, PhaseMild
<1> QED
  BY <1>1, <1>6, MetadataWriter, MildWriter DEF Saved, machine

LEMMA RolloutStagesWriter ==
    ASSUME OperatorInv, WriterInv, PreparesRollout \/ UpdatesTemplate \/ StartsRollout
    PROVE  WriterNext
<1>1. st.failover = Nil /\ st.rollout # Nil
  BY DEF PreparesRollout, UpdatesTemplate, StartsRollout, InRollout
<1>2. CASE PreparesRollout
  <2>1. Saved(Advance("stopping")) \/ Saved(Advance("template"))
    BY <1>2 DEF PreparesRollout
  <2> QED
    BY <1>1, <2>1, AdvanceWriter DEF SmallSteps
<1>3. CASE UpdatesTemplate
  <2>1. Saved(Advance("starting")) \/ (~RolloutRequiresFullStop /\ Saved(Advance("replicas")))
    BY <1>3 DEF UpdatesTemplate
  <2>2. ~RolloutRequiresFullStop => ~Shrinks(st)
    BY <1>1 DEF RolloutRequiresFullStop, Shrinks
  <2> QED
    BY <1>1, <2>1, <2>2, AdvanceWriter DEF SmallSteps
<1>4. CASE StartsRollout
  BY <1>1, <1>4, AdvanceWriter DEF StartsRollout, SmallSteps
<1> QED
  BY <1>2, <1>3, <1>4

-----------------------------------------------------------------------------
(* Entries that report a stop                                               *)

LEMMA MarkerMild ==
    ASSUME OperatorInv, NEW s \in Status, Mild(s), NEW cond PROVE Mild(LosesMarker(s, cond))
<1> DEFINE t == LosesMarker(s, cond)
<1>1. /\ t.primary = s.primary /\ t.failover = s.failover /\ t.initialized = s.initialized
      /\ t.accepted = s.accepted /\ t.applied = s.applied /\ t.rollout = s.rollout
      /\ t.nodes = s.nodes /\ (t.empty => s.empty) /\ t.reported = s.reported
  BY DEF LosesMarker, Status
<1> HIDE DEF t
<1>2. SeenAlike(t)
  BY <1>1 DEF Mild, SeenAlike
<1> QED
  BY <1>1, <1>2 DEF Mild, t

LEMMA EntryStopped ==
    ASSUME OperatorInv, NEW n \in NodeStatus
    PROVE  /\ Stopped(n) \in NodeStatus /\ Stopped(n) # Nil /\ Stopped(n).p = n.p
           /\ Stopped(n).role = n.role /\ Stopped(n).obs = n.obs /\ ~Stopped(n).ready
<1>1. Stopped(n) \in NodeStatus /\ Stopped(n) # Nil
  BY StoppedFacts, EntryThere
<1> QED
  BY <1>1 DEF Stopped, NodeStatus, NodeStatusOf

\* One entry of the status is written again.
LEMMA EntryField ==
    ASSUME OperatorInv, NEW o \in Ordinals, NEW n \in NodeStatus
    PROVE  /\ [st EXCEPT !.nodes[o] = n] \in Status
           /\ n.p[1] = o => WithNode(st, n) = [st EXCEPT !.nodes[o] = n]
<1>1. [st EXCEPT !.nodes[o] = n] \in Status
  BY StInv DEF Status
<1> QED
  BY <1>1 DEF WithNode

LEMMA SaveNodeDeletionMild ==
    ASSUME OperatorInv, NEW o \in Ordinals, st.nodes[o] # Nil
    PROVE  Mild(SaveNodeDeletion(st.nodes[o]))
<1> DEFINE n == st.nodes[o]
           m == Stopped(n)
           s == WithNode(st, m)
           cond == AffectsPrimary(n.p[1]) \/ (HA /\ Idle)
<1>1. n \in NodeStatus /\ n # Nil /\ n.p[1] = o
  BY EntriesInv
<1>2. /\ m \in NodeStatus /\ m # Nil /\ m.p = n.p /\ m.role = n.role /\ m.obs = n.obs /\ ~m.ready
  BY <1>1, EntryStopped
<1>3. SaveNodeDeletion(n) = LosesMarker(s, cond)
  BY DEF SaveNodeDeletion
<1> HIDE DEF m, cond
<1>4. s \in Status /\ s = [st EXCEPT !.nodes[o] = m]
  BY <1>1, <1>2, EntryField
<1> HIDE DEF s
<1>5. Mild(s)
  BY <1>1, <1>2, <1>4, EntryMild
<1> QED
  BY <1>3, <1>4, <1>5, MarkerMild

LEMMA ProcessUnavailableMild ==
    ASSUME OperatorInv, NEW o \in Ordinals PROVE Mild(ProcessUnavailable(o))
<1> DEFINE n == st.nodes[o]
           m == [n EXCEPT !.ready = FALSE]
           s == IF n = Nil THEN st ELSE [st EXCEPT !.nodes[o] = m]
           cond == AffectsPrimary(o)
<1>1. ProcessUnavailable(o) = LosesMarker(s, cond)
  BY DEF ProcessUnavailable
<1>2. CASE n = Nil
  <2>1. s = st
    BY <1>2
  <2> HIDE DEF s, cond
  <2> QED
    BY <1>1, <2>1, SameMild, MarkerMild, StInv
<1>3. CASE n # Nil
  <2>1. n \in NodeStatus
    BY <1>3, EntriesInv
  <2>2. m \in NodeStatus /\ m.p = n.p /\ m.role = n.role /\ m.obs = n.obs /\ ~m.ready
    BY <2>1 DEF NodeStatus, NodeStatusOf
  <2>3. m # Nil
    BY <2>2, EntryThere
  <2> HIDE DEF m, cond
  <2>4. s \in Status /\ s = [st EXCEPT !.nodes[o] = m]
    BY <1>3, <2>2, EntryField
  <2> HIDE DEF s
  <2>5. Mild(s)
    BY <1>3, <2>2, <2>3, <2>4, EntryMild
  <2> QED
    BY <1>1, <2>4, <2>5, MarkerMild
<1> QED
  BY <1>2, <1>3

LEMMA ProofLostMild == ASSUME OperatorInv PROVE Mild(TerminationProofLost)
<1> DEFINE s == TerminationProofLost
<1>1. /\ s.nodes = st.nodes /\ s.rollout = st.rollout /\ s.applied = st.applied
      /\ s.primary = st.primary /\ s.failover = st.failover
      /\ s.initialized = st.initialized /\ s.accepted = st.accepted /\ ~s.empty
      /\ s.reported = st.reported
  BY StInv DEF TerminationProofLost, Status
<1> HIDE DEF s
<1>2. Mild(s)
  BY <1>1, FieldsMild
<1> QED
  BY <1>2 DEF s

\* The entry of an ordinal is now about the process of its Pod.
LEMMA LaterEntry ==
    ASSUME OperatorInv, NEW o \in Ordinals, HasPod(o), NEW e, e # Nil, e.p = CurrentProc(o),
           NEW s, s.nodes = [st.nodes EXCEPT ![o] = e]
    PROVE  \A q \in Procs : Old(st, q) => Old(s, q)
<1> SUFFICES ASSUME NEW q \in Procs, Old(st, q) PROVE Old(s, q)
  OBVIOUS
<1>1. q[1] \in Ordinals /\ q[2] \in Nat
  BY ProcsAreNamed, StInv DEF Scene
<1>2. s.nodes[q[1]] = IF q[1] = o THEN e ELSE st.nodes[q[1]]
  BY <1>1, StInv
<1>3. CASE q[1] = o
  <2> DEFINE n == st.nodes[o]
  <2>1. /\ n # Nil /\ n.p \in Procs /\ n.p[1] = o /\ proc[n.p].run \in {"up", "down"}
        /\ q[2] < n.p[2]
    BY <1>3, EntriesInv DEF Old
  <2>2. n.p = CurrentProc(o) \/ n.p[2] < pod[o].inc
    BY <2>1, LaterProcess
  <2>3. e.p[2] = pod[o].inc /\ pod[o].inc \in Nat /\ n.p[2] \in Nat
    BY <2>1, LaterProcess, ProcsAreNamed, StInv DEF Scene, Pod
  <2> HIDE DEF n
  <2>4. q[2] < e.p[2]
    BY <1>1, <2>1, <2>2, <2>3
  <2> QED
    BY <1>2, <1>3, <2>4 DEF Old
<1>4. CASE q[1] # o
  BY <1>2, <1>4 DEF Old
<1> QED
  BY <1>3, <1>4

LEMMA ContainerTerminationLevel ==
    ASSUME OperatorInv, WriterInv, NEW o \in Ordinals, HasPod(o)
    PROVE  LET s == SaveContainerTermination(o) IN Level(s) /\ TrustKept(s) /\ Sized(s)
<1> DEFINE p == CurrentProc(o)
           n == st.nodes[o]
           same == n # Nil /\ n.p = p
           e == IF same THEN Stopped(n) ELSE Stopped(NodeOf(p))
           kept == IF n = Nil \/ same \/ st.deletion = Nil THEN st.prev ELSE st.prev \cup {n}
           prev == {IF q.p = p THEN Stopped(q) ELSE q : q \in kept}
           cond == AffectsPrimary(o)
           s == LosesMarker([WithNode(st, e) EXCEPT !.prev = prev], cond)
<1>1. SaveContainerTermination(o) = s
  BY DEF SaveContainerTermination
<1>2. p \in Procs /\ p[1] = o
  BY LaterProcess
<1>3. e \in NodeStatus /\ e # Nil /\ e.p = p /\ ~e.ready
  <2>1. NodeOf(p) \in NodeStatus /\ NodeOf(p).p = p
    BY <1>2, NodeOfFacts
  <2>2. same => n \in NodeStatus
    BY EntriesInv
  <2> HIDE DEF n, p
  <2> QED
    BY <2>1, <2>2, EntryStopped
<1> HIDE DEF e, prev, cond
<1>4. /\ s.nodes = [st.nodes EXCEPT ![o] = e] /\ s.rollout = st.rollout /\ s.applied = st.applied
      /\ s.primary = st.primary /\ s.failover = st.failover
      /\ s.initialized = st.initialized /\ s.accepted = st.accepted /\ (s.empty => st.empty)
      /\ s.reported = st.reported
  BY <1>2, <1>3, StInv DEF LosesMarker, WithNode, Status
<1> HIDE DEF s
<1>5. \A q \in Procs : Old(st, q) => Old(s, q)
  BY <1>3, <1>4, LaterEntry
<1>6. TrustKept(s)
  <2> SUFFICES ASSUME NEW q \in Procs, Trusted(s, q) PROVE Trusted(st, q)
    BY DEF TrustKept
  <2>1. s.nodes[q[1]] = IF q[1] = o THEN e ELSE st.nodes[q[1]]
    BY <1>4, ProcsAreNamed, StInv
  <2> QED
    BY <1>3, <2>1 DEF Trusted
<1>7. Level(s) /\ Sized(s)
  BY <1>4, <1>5, WriterFacts DEF Level, Sized, Shrinks
<1> QED
  BY <1>1, <1>6, <1>7

-----------------------------------------------------------------------------
(* Topology, labels, the history of processes, deletion                     *)

LEMMA FollowsPrimaryWriter == ASSUME OperatorInv, WriterInv, FollowsPrimary PROVE WriterNext
<1>1. PICK n \in Misdirected :
          Commanded(n.p, FollowCommands(n.p), st) \/ BrokenOff(n.p, FollowCommands(n.p))
  BY DEF FollowsPrimary
<1>2. n.p \in Procs
  BY EntriesInv DEF Misdirected, Live
<1>3. st.failover = Nil \/ st.failover.stage = "reconfiguring"
  BY BehindFailover DEF FollowsPrimary, AfterRollout, AfterRotation
<1>4. st.primary \in Procs
  BY EntriesInv DEF FollowsPrimary, FollowablePrimary, PrimaryNode
<1> QED
  BY <1>1, <1>2, <1>3, <1>4, FollowFacts, CommandKinds, CommandedSame

LEMMA SavedFieldsWriter ==
    ASSUME OperatorInv, WriterInv, NEW s, Saved(s), s.nodes = st.nodes, s.rollout = st.rollout,
           s.applied = st.applied, s.primary = st.primary, s.failover = st.failover,
           s.initialized = st.initialized, s.accepted = st.accepted, s.empty => st.empty,
           s.reported = st.reported
    PROVE  WriterNext
<1>1. Mild(s)
  BY FieldsMild
<1> QED
  BY <1>1, MildWriter DEF Saved, machine

LEMMA PendingMild == ASSUME OperatorInv PROVE Mild(Pending)
<1> DEFINE s == Pending
<1>1. /\ s.nodes = st.nodes /\ s.rollout = st.rollout /\ s.applied = st.applied
      /\ s.primary = st.primary /\ s.failover = st.failover
      /\ s.initialized = st.initialized /\ s.accepted = st.accepted /\ (s.empty => st.empty)
      /\ s.reported = st.reported
  BY StInv DEF Pending, Status
<1> HIDE DEF s
<1>2. Mild(s)
  BY <1>1, FieldsMild
<1> QED
  BY <1>2 DEF s

LEMMA EndOfPassWriter ==
    ASSUME OperatorInv, WriterInv,
           ReconcilePodMetadata \/ AdmissionPending \/ ReconcileProcessHistory
    PROVE  WriterNext
<1>1. CASE ReconcilePodMetadata
  BY <1>1, MetadataWriter DEF ReconcilePodMetadata
<1>2. CASE AdmissionPending
  BY <1>2, PendingMild, MildWriter DEF AdmissionPending, Saved, machine
<1>3. CASE ReconcileProcessHistory
  <2> DEFINE prev == {q \in st.prev : ~q.term \/ Required(q)}
             s == [st EXCEPT !.prev = prev]
  <2>1. Saved(s)
    BY <1>3, Zenon DEF ReconcileProcessHistory
  <2> HIDE DEF prev
  <2>2. /\ s.nodes = st.nodes /\ s.rollout = st.rollout /\ s.applied = st.applied
        /\ s.primary = st.primary /\ s.failover = st.failover
        /\ s.initialized = st.initialized /\ s.accepted = st.accepted /\ s.empty = st.empty
        /\ s.reported = st.reported
    BY StInv DEF Status
  <2> HIDE DEF s
  <2> QED
    BY <2>1, <2>2, SavedFieldsWriter
<1> QED
  BY <1>1, <1>2, <1>3

LEMMA DeletionFieldMild ==
    ASSUME OperatorInv, NEW d, NEW s,
           s = [st EXCEPT !.deletion = d] \/ s = [st EXCEPT !.deletion = d, !.public = FALSE]
    PROVE  Mild(s)
<1>1. /\ s.nodes = st.nodes /\ s.rollout = st.rollout /\ s.applied = st.applied
      /\ s.primary = st.primary /\ s.failover = st.failover
      /\ s.initialized = st.initialized /\ s.accepted = st.accepted /\ s.empty = st.empty
      /\ s.reported = st.reported
  BY StInv DEF Status
<1> QED
  BY <1>1, FieldsMild

LEMMA DisablesAppWriter == ASSUME OperatorInv, WriterInv, DisablesApp PROVE WriterNext
<1>1. PICK o \in op.todo : DisablesOrdinal(o)
  BY DEF DisablesApp
<1>2. UNCHANGED st /\ st.deletion = "disabling" /\ o \in Ordinals
  BY <1>1, StInv DEF DisablesApp, Disabling, Memory
<1>3. Ahead = Nat /\ Ahead' = Nat
  BY <1>2, StatusAssumption DEF Ahead, DeletionStages
<1> DEFINE p == CurrentProc(o)
           cmds == AppAccess(p, FALSE)
<1>4. CASE pod' = [pod EXCEPT ![o].label = "none"] /\ UNCHANGED proc /\ NextPass
  BY <1>2, <1>4, FlaggedPodWriter
<1>5. CASE /\ HasPod(o) /\ Reachable(p) /\ (Session(p, cmds) \/ Interrupted(p, cmds))
           /\ UNCHANGED pod
  <2>1. p \in Procs /\ Up(p)
    BY <1>2, <1>5, LaterProcess DEF Reachable
  <2>2. SteadfastProcs
    BY <1>5, <2>1, ClosingSteadfast
  <2> QED
    BY <1>2, <1>3, <1>5, <2>2, UnchangedPods, SameAhead, StillWriter
<1>6. CASE UNCHANGED machine
  BY <1>2, <1>3, <1>6, UnchangedProcs, UnchangedPods, StillWriter DEF machine
<1> QED
  BY <1>1, <1>4, <1>5, <1>6 DEF DisablesOrdinal

LEMMA ReleasedPodIncs ==
    ASSUME OperatorInv, NEW o, ReleaseTerminatedPod(o)
    PROVE  \A i \in Ordinals : pod'[i].inc \in {pod[i].inc, 0}
<1>1. \/ pod' = [pod EXCEPT ![o] = NoPod]
      \/ pod' = [pod EXCEPT ![o].deleting = TRUE]
  BY DEF ReleaseTerminatedPod
<1> QED
  BY <1>1, StInv DEF NoPod, Pod

LEMMA DeletionWriter == ASSUME OperatorInv, WriterInv, ReconcileDeletion PROVE WriterNext
<1>1. CASE StartsDeletion \/ RemovesNetwork \/ AppDisabled
  BY <1>1, DeletionFieldMild, MildWriter DEF StartsDeletion, RemovesNetwork, AppDisabled, Saved,
     machine
<1>2. CASE RequestsDeletionOfPods
  <2> DEFINE o == First(StoppablePods)
  <2>1. /\ UNCHANGED proc /\ NextPass
        /\ \/ pod' = [pod EXCEPT ![o].deleting = TRUE] /\ UNCHANGED st
           \/ st' = [st EXCEPT !.deletion = "verifying"] /\ UNCHANGED pod
    BY <1>2, Zenon DEF RequestsDeletionOfPods
  <2> HIDE DEF o
  <2> QED
    BY <2>1, FlaggedPodWriter, DeletionFieldMild, MildWriter
<1>3. CASE VerifiesDeletion
  <2>1. PICK o \in Ordinals :
          /\ UNCHANGED proc /\ NextPass
          /\ \/ ReleaseTerminatedPod(o) /\ UNCHANGED st
             \/ HasPod(o) /\ st' = SaveContainerTermination(o) /\ UNCHANGED pod
             \/ st.nodes[o] # Nil /\ st' = SaveNodeDeletion(st.nodes[o]) /\ UNCHANGED pod
    BY <1>3 DEF VerifiesDeletion, VerifiesOrdinal
  <2>2. CASE ReleaseTerminatedPod(o) /\ UNCHANGED st
    BY <2>1, <2>2, ReleasedPodIncs, PodWriter
  <2>3. CASE HasPod(o) /\ st' = SaveContainerTermination(o) /\ UNCHANGED pod
    BY <2>1, <2>3, ContainerTerminationLevel, SavedWriter
  <2>4. CASE st.nodes[o] # Nil /\ st' = SaveNodeDeletion(st.nodes[o]) /\ UNCHANGED pod
    BY <2>1, <2>4, SaveNodeDeletionMild, MildWriter
  <2> QED
    BY <2>1, <2>2, <2>3, <2>4
<1>4. CASE VerifiesPrevious
  <2>1. PICK q : Saved([st EXCEPT !.prev = (@ \ {q}) \cup {Stopped(q)}])
    BY <1>4, Zenon DEF VerifiesPrevious
  <2> DEFINE prev == (st.prev \ {q}) \cup {Stopped(q)}
             s == [st EXCEPT !.prev = prev]
  <2>2. Saved(s)
    BY <2>1
  <2> HIDE DEF prev
  <2>3. /\ s.nodes = st.nodes /\ s.rollout = st.rollout /\ s.applied = st.applied
        /\ s.primary = st.primary /\ s.failover = st.failover
        /\ s.initialized = st.initialized /\ s.accepted = st.accepted /\ s.empty = st.empty
        /\ s.reported = st.reported
    BY StInv DEF Status
  <2> HIDE DEF s
  <2> QED
    BY <2>2, <2>3, SavedFieldsWriter
<1>5. CASE FinishesDeletion
  <2>1. UNCHANGED <<proc, pod, st, op>>
    BY <1>5 DEF FinishesDeletion, machine
  <2> QED
    BY <2>1, UnchangedProcs, UnchangedPods, SameAhead, StillWriter
<1> QED
  BY <1>1, <1>2, <1>3, <1>4, <1>5, DisablesAppWriter DEF ReconcileDeletion

-----------------------------------------------------------------------------
(* Observation                                                              *)

\* A primary in the Pod of its ordinal that a failover takes the place from has
\* been fenced.
LEMMA GuardedPrimary ==
    ASSUME OperatorInv, WriterInv, HA, st.failover # Nil, Guarded(st.failover),
           st.primary \in Procs, IsPodOf(st.primary)
    PROVE  Secured(proc[st.primary], st.accepted.pw)
<1>1. st.failover.stage # "reconfiguring"
  BY DEF Guarded
<1>2. st.failover.source = st.primary
  BY <1>1, OldFacts, WriterFacts DEF Handed
<1> QED
  BY <1>2, WriterFacts DEF Handed

LEMMA UnguardedExcused ==
    ASSUME OperatorInv, WriterInv, HA, NEW todo, NEW p \in Procs, IsPodOf(p),
           p = st.primary, ~Secured(proc[p], st.accepted.pw)
    PROVE  Excused(st, todo, p)
<1>1. st.failover # Nil => ~Guarded(st.failover)
  BY GuardedPrimary
<1>2. st.failover # Nil =>
          st.failover.stage \in {"fencing", "choosing", "promoting", "reconfiguring"}
  BY FailoverInv DEF FailoverStatus, FailoverStatusOf
<1> QED
  BY <1>1, <1>2 DEF Excused, Guarded

\* The pass goes on to the next ordinal.
Passes(o) == \A p \in Procs : p[1] # o /\ p[1] \in Ahead => p[1] \in Ahead'

LEMMA SeenTodo ==
    ASSUME OperatorInv, st.deletion = Nil, NEW o,
           \/ op' = Done(o)
           \/ \E p : op' = Seen(o, p)
           \/ \E b : op' = [Done(o) EXCEPT !.err = b]
           \/ \E p : op' = [Done(o) EXCEPT !.controlled = @ \cup {p}]
    PROVE  Passes(o)
<1>1. op'.todo = op.todo \ {o}
  BY StInv DEF Done, Seen, Memory
<1>2. \A p \in Procs : p[1] \in Nat
  BY ProcsAreNamed, StInv
<1> QED
  BY <1>1, <1>2 DEF Passes, Ahead

LEMMA SamePod ==
    ASSUME OperatorInv, NEW p \in Procs, NEW i \in {pod[p[1]].inc, 0}, i = p[2]
    PROVE  p = CurrentProc(p[1]) /\ HasPod(p[1]) /\ IsPodOf(p)
<1>1. p[2] \in 1..scene.incs /\ scene.incs \in Nat /\ p = <<p[1], p[2]>>
  BY ProcsAreNamed, StInv DEF Scene
<1> QED
  BY <1>1 DEF CurrentProc, HasPod, IsPodOf

LEMMA WithoutProcessWriter ==
    ASSUME OperatorInv, WriterInv, st.deletion = Nil, NEW o \in Ordinals, WithoutProcess(o) PROVE WriterNext
<1> DEFINE n == st.nodes[o]
           p == CurrentProc(o)
<1>1. UNCHANGED proc /\ Passes(o)
  BY SeenTodo, Zenon DEF WithoutProcess
<1>2. \/ n # Nil /\ st' = SaveNodeDeletion(n) /\ UNCHANGED pod
      \/ st' = ProcessUnavailable(o) /\ UNCHANGED pod
      \/ ReleaseTerminatedPod(o) /\ UNCHANGED st
      \/ st' = TerminationProofLost /\ UNCHANGED pod
      \/ HasPod(o) /\ st' = SaveContainerTermination(o) /\ UNCHANGED pod
      \/ st' = st /\ UNCHANGED pod
  BY DEF WithoutProcess
<1>3. HasPod(o) => ~Up(p)
  <2> SUFFICES ASSUME HasPod(o) PROVE ~Up(p)
    OBVIOUS
  <2>1. p \in Procs
    BY LaterProcess
  <2>2. n # Nil /\ n.p = p /\ n.term => proc[p].run = "down"
    BY EntriesInv
  <2>3. proc[p].link = "deleted" => proc[p].run = "down"
    BY <2>1, ProcFacts
  <2> QED
    BY <2>2, <2>3 DEF WithoutProcess, ContainerTerminated, ContainerRunning, NodeExists, Up
<1>4. \A i \in Ordinals : pod'[i].inc \in {pod[i].inc, 0}
  BY <1>2, ReleasedPodIncs
<1>5. Level(st') /\ TrustKept(st') /\ Sized(st')
  BY <1>2, SaveNodeDeletionMild, ProcessUnavailableMild, ProofLostMild, MildFacts, SameMild,
     ContainerTerminationLevel
<1>6. SteadfastProcs /\ PodsCalm
  BY <1>1, <1>4, UnchangedProcs, StayingPods
<1>7. SecuredNext
  BY <1>5, <1>6, SteadfastSecured DEF Level
<1>8. ASSUME NEW q \in Procs, q[1] = o PROVE ~Misread(proc'[q], pod'[q[1]].inc, st', q)
  BY <1>1, <1>3, <1>4, <1>8, SamePod DEF Misread, Up
<1>9. HA => Trusts(proc', pod', st', Ahead')
  BY <1>1, <1>5, <1>6, <1>8, SteadfastMeansCalm, ActedTrusts DEF Passes
<1> QED
  BY <1>5, <1>6, <1>7, <1>9, SteadfastMeansCalm, QuietWriter

LEMMA ClosesAccessWriter ==
    ASSUME OperatorInv, WriterInv, st.deletion = Nil, NEW o \in Ordinals, ClosesAccess(o) PROVE WriterNext
<1> DEFINE p == CurrentProc(o)
           cmds == AppAccess(p, FALSE)
<1>1. /\ Up(p) /\ HasPod(o) /\ MustClose(p) /\ UNCHANGED <<pod, st>>
      /\ Session(p, cmds) \/ Interrupted(p, cmds)
      /\ op' = Done(o) \/ op' = [Done(o) EXCEPT !.err = TRUE]
  BY DEF ClosesAccess, Inspectable, Reachable
<1>2. p \in Procs /\ p[1] = o /\ IsPodOf(p)
  BY <1>1, LaterProcess DEF IsPodOf
<1>3. Passes(o)
  BY <1>1, SeenTodo
<1>4. cmds \in Seq(Commands) /\ NoneOf("on", cmds) /\ NoneOf("promote", cmds)
  <2>1. FALSE \in BOOLEAN
    OBVIOUS
  <2> QED
    BY <1>2, <2>1, AppAccessFacts, CommandKinds
<1>5. PICK r \in Process : proc' = [proc EXCEPT ![p] = r]
  BY <1>1, <1>2, <1>4, SessionFacts
<1>6. ~Secured(proc[p], st.accepted.pw)
  BY <1>1 DEF MustClose, Secured, Up
<1>7. \A q \in Procs : q # p => proc'[q] = proc[q]
  <2> HIDE DEF p
  <2> QED
    BY <1>2, <1>5, StInv
<1> HIDE DEF p, cmds
<1>8. CalmProcs
  BY <1>1, <1>2, <1>4, SessionCalm
<1>9. PodsCalm /\ Level(st') /\ TrustKept(st') /\ Sized(st')
  BY <1>1, UnchangedPods, SameLevel, SameSized
<1>10. SecuredNext
  <2> SUFFICES ASSUME HA, st.failover # Nil, Guarded(st.failover)
               PROVE  Secured(proc'[st.failover.source], st'.accepted.pw)
    BY DEF SecuredNext
  <2>1. Secured(proc[st.failover.source], st.accepted.pw)
    BY WriterFacts DEF Handed
  <2>2. st.failover.source \in Procs /\ st.failover.source # p
    BY <1>6, <2>1, FailoverInv DEF FailoverStatus, FailoverStatusOf
  <2> QED
    BY <1>1, <1>7, <2>1, <2>2
<1>11. ASSUME HA PROVE Trusts(proc', pod', st', Ahead')
  <2> SUFFICES ASSUME NEW q \in Procs, Misread(proc'[q], pod'[q[1]].inc, st', q)
               PROVE  Excused(st', Ahead', q)
    BY DEF Trusts
  <2>1. Misread(proc[q], pod[q[1]].inc, st, q)
    BY <1>1, <1>8, <1>11, WriterFacts DEF Misread, CalmProcs, Calm, Silent
  <2>2. Excused(st, Ahead, q)
    BY <1>11, <2>1, WriterFacts DEF Trusts
  <2>3. CASE q[1] = o
    <3>1. q = p
      BY <2>1, <2>3, SamePod DEF Misread, p
    <3> QED
      BY <1>1, <1>2, <1>6, <1>11, <2>2, <3>1, UnguardedExcused DEF Excused
  <2>4. CASE q[1] # o
    BY <1>1, <1>3, <2>2, <2>4 DEF Excused, Passes
  <2> QED
    BY <2>3, <2>4
<1> QED
  BY <1>8, <1>9, <1>10, <1>11, QuietWriter

LEMMA WithoutAnswerWriter ==
    ASSUME OperatorInv, WriterInv, st.deletion = Nil, NEW o \in Ordinals, WithoutAnswer(o) PROVE WriterNext
<1> DEFINE p == CurrentProc(o)
           n == st.nodes[o]
<1>1. UNCHANGED <<proc, pod>> /\ Passes(o) /\ HasPod(o)
  BY SeenTodo DEF WithoutAnswer, machine, Inspectable
<1>2. \E kind : \E obs \in {"error", "failed", "stuck", "busy", "busylong"} :
          st' = ObservationError(o, p, kind, obs)
  BY NextObsFacts DEF WithoutAnswer
<1>3. PICK kind, obs : obs \in {"error", "failed", "stuck", "busy", "busylong"}
                       /\ st' = ObservationError(o, p, kind, obs)
  BY <1>2
<1> DEFINE known == n # Nil /\ n.p = p
           ready == PodReady(p)
           e == [n EXCEPT !.ready = ready, !.obs = obs]
           s == IF known THEN [st EXCEPT !.nodes[o] = e] ELSE st
<1>4. e = SeenAgain(n, ready, obs)
  BY DEF SeenAgain
<1>5. \E cond : st' = LosesMarker(s, cond)
  <2> DEFINE confirmed == kind # "transport" \/ (known /\ obs \in {"failed", "stuck"})
             cond == (AffectsPrimary(o) /\ confirmed) \/ (HA /\ Idle)
  <2>1. st' = LosesMarker(IF known THEN Reseen(st, o, ready, obs) ELSE st, cond)
    BY <1>3 DEF ObservationError, Reseen
  <2>2. Reseen(st, o, ready, obs) = [st EXCEPT !.nodes[o] = e]
    BY <1>4, RewrittenTwice, StInv
  <2> HIDE DEF cond, known, e, ready, n, p
  <2>3. (IF known THEN Reseen(st, o, ready, obs) ELSE st) = s
    BY <2>2
  <2> QED
    BY <2>1, <2>3
<1>6. PICK cond : st' = LosesMarker(s, cond)
  BY <1>5
<1>7. n # Nil => n \in NodeStatus /\ n.p[1] = o
  BY EntriesInv
<1>8. n # Nil => e \in NodeStatus /\ e # Nil /\ e.p = n.p /\ e.obs # "ok"
  <2>1. ready \in BOOLEAN
    BY DEF PodReady, Up, NodeReady
  <2> HIDE DEF ready
  <2>2. n # Nil => e \in NodeStatus /\ e.p = n.p /\ e.obs # "ok"
    BY <1>3, <1>7, <2>1 DEF NodeStatus, NodeStatusOf
  <2> HIDE DEF e
  <2> QED
    BY <2>2, EntryThere
<1> HIDE DEF e
<1>9. /\ st'.nodes = IF known THEN [st.nodes EXCEPT ![o] = e] ELSE st.nodes
      /\ st'.rollout = st.rollout /\ st'.applied = st.applied
      /\ st'.primary = st.primary /\ st'.failover = st.failover
      /\ st'.initialized = st.initialized /\ st'.accepted = st.accepted
      /\ (st'.empty => st.empty) /\ st'.reported = st.reported
  <2> HIDE DEF n, p
  <2>1. CASE known
    <3>1. s \in Status /\ s = [st EXCEPT !.nodes[o] = e]
      BY <1>8, <2>1, EntryField
    <3> QED
      BY <1>6, <2>1, <3>1, StInv DEF LosesMarker, Status
  <2>2. CASE ~known
    BY <1>6, <2>2, StInv DEF LosesMarker, Status
  <2> QED
    BY <2>1, <2>2
<1>10. \A q \in Procs : /\ Old(st, q) <=> Old(st', q)
                        /\ Trusted(st', q) => Trusted(st, q) /\ ~(known /\ q[1] = o)
  <2> SUFFICES ASSUME NEW q \in Procs
               PROVE  /\ Old(st, q) <=> Old(st', q)
                      /\ Trusted(st', q) => Trusted(st, q) /\ ~(known /\ q[1] = o)
    OBVIOUS
  <2>1. st'.nodes[q[1]] = IF known /\ q[1] = o THEN e ELSE st.nodes[q[1]]
    BY <1>9, ProcsAreNamed, StInv
  <2> QED
    BY <1>8, <2>1 DEF Old, Trusted
<1>11. Level(st') /\ TrustKept(st') /\ Sized(st')
  BY <1>9, <1>10, WriterFacts DEF Level, TrustKept, Sized, Shrinks
<1>12. ASSUME NEW q \in Procs, q[1] = o PROVE ~Misread(proc'[q], pod'[q[1]].inc, st', q)
  BY <1>1, <1>10, <1>12, SamePod DEF Misread, Trusted
<1>13. HA => Trusts(proc', pod', st', Ahead')
  BY <1>1, <1>11, <1>12, UnchangedProcs, UnchangedPods, SteadfastMeansCalm, ActedTrusts
     DEF Passes
<1>14. SecuredNext
  BY <1>1, <1>9, UnchangedProcs, SteadfastSecured
<1> QED
  BY <1>1, <1>11, <1>13, <1>14, UnchangedProcs, UnchangedPods, SteadfastMeansCalm, QuietWriter

LEMMA TakenSteadfast ==
    ASSUME NEW q \in Process, Steadfast(q, q) PROVE Steadfast(TakeControl(q), q)
<1> DEFINE r == TakeControl(q)
<1>1. /\ r.run = q.run /\ r.late = {} /\ r.app = q.app /\ r.clients = q.clients
      /\ r.role = q.role /\ r.pw = q.pw
  BY TakenControl
<1> HIDE DEF r
<1>2. \A kind : ~Awaits(r, kind)
  BY <1>1 DEF Awaits
<1>3. (Opens(r) => Opens(q)) /\ (Leading(r) => Leading(q))
  BY <1>1, <1>2 DEF Opens, Leading
<1>4. Secured(q, st.accepted.pw) => Secured(r, st.accepted.pw)
  BY <1>1 DEF Secured
<1> QED
  BY <1>1, <1>2, <1>3, <1>4 DEF Steadfast, Calm, r

LEMMA WithAnswerWriter ==
    ASSUME OperatorInv, WriterInv, st.deletion = Nil, NEW o \in Ordinals, WithAnswer(o) PROVE WriterNext
<1> DEFINE p == CurrentProc(o)
           n == st.nodes[o]
           taken == IF p \in op.controlled THEN proc[p] ELSE TakeControl(proc[p])
           e == Observed(o, p)
<1>1. /\ Up(p) /\ HasPod(o) /\ UNCHANGED pod
      /\ st' = IdentityChanged(o, p) \/ st' = RecordProcess(o, p)
      /\ proc' = [proc EXCEPT ![p] = taken]
      /\ op' = [Done(o) EXCEPT !.controlled = @ \cup {p}]
  BY Zenon DEF WithAnswer, Inspectable, Reachable
<1>2. p \in Procs /\ p[1] = o /\ IsPodOf(p)
  BY <1>1, LaterProcess DEF IsPodOf
<1>3. Passes(o)
  BY <1>1, SeenTodo
<1>4. SteadfastProcs
  <2>1. Steadfast(taken, proc[p])
    BY <1>2, ProcFacts, SelfSteadfast, TakenSteadfast
  <2> HIDE DEF taken, p
  <2> QED
    BY <1>1, <1>2, <2>1, OneSteadfast
<1>5. e \in NodeStatus /\ e # Nil /\ e.p = p /\ e.role = proc[p].role
  <2>1. e.role = proc[p].role
    BY DEF Observed
  <2> QED
    BY <1>2, <2>1, ObservedFacts, EntryThere
<1> HIDE DEF e
<1>6. /\ st'.nodes = [st.nodes EXCEPT ![o] = e]
      /\ st'.rollout = st.rollout /\ st'.applied = st.applied
      /\ HA => st'.primary = st.primary
      /\ st'.failover = st.failover
      /\ st'.initialized = st.initialized /\ st'.accepted = st.accepted
      /\ (st'.empty => st.empty) /\ st'.reported = st.reported
  <2>1. CASE st' = RecordProcess(o, p)
    BY <1>2, <1>5, <2>1, StInv DEF RecordProcess, LosesMarker, WithNode, Status, e
  <2>2. CASE st' = IdentityChanged(o, p)
    BY <1>2, <1>5, <2>2, StInv DEF IdentityChanged, LosesMarker, WithNode, Status, e
  <2> QED
    BY <1>1, <2>1, <2>2
<1>7. \A q \in Procs : Old(st, q) => Old(st', q)
  BY <1>1, <1>5, <1>6, LaterEntry
<1>8. Sized(st') /\ (HA => Level(st'))
  BY <1>6, <1>7, WriterFacts DEF Level, Sized, Shrinks
<1> HIDE DEF p, taken
<1>9. ASSUME HA PROVE Trusts(proc', pod', st', Ahead')
  <2> SUFFICES ASSUME NEW q \in Procs, Misread(proc'[q], pod'[q[1]].inc, st', q)
               PROVE  Excused(st', Ahead', q)
    BY DEF Trusts
  <2>1. st'.nodes[q[1]] = IF q[1] = o THEN e ELSE st.nodes[q[1]]
    BY <1>6, ProcsAreNamed, StInv
  <2>2. proc[q].run = "up" /\ Leading(proc[q]) /\ pod[q[1]].inc = q[2]
    BY <1>1, <1>4, <1>9, WriterFacts DEF Misread, SteadfastProcs, Steadfast, Calm, Silent
  <2>3. CASE q[1] = o
    <3>1. q = p
      BY <2>2, <2>3, SamePod DEF p
    <3>2. proc[p].role = "replica"
      BY <1>5, <2>1, <2>3 DEF Misread, Trusted
    <3>3. Awaits(proc[p], "promote")
      BY <2>2, <3>1, <3>2 DEF Leading
    <3>4. ~Secured(proc[p], st.accepted.pw)
      BY <2>2, <3>1, <3>3 DEF Secured, Awaits, KillAppClients
    <3>5. p = st.primary \/ (st.failover # Nil /\ p = st.failover.cand)
      BY <1>9, <2>2, <3>1, <3>3, WriterFacts DEF Promised
    <3>6. Excused(st, Ahead', p)
      BY <1>2, <1>9, <3>4, <3>5, UnguardedExcused DEF Excused
    <3> QED
      BY <1>6, <1>9, <3>1, <3>6 DEF Excused
  <2>4. CASE q[1] # o
    <3>1. Misread(proc[q], pod[q[1]].inc, st, q)
      BY <2>1, <2>2, <2>4 DEF Misread, Trusted
    <3>2. Excused(st, Ahead, q)
      BY <1>9, <3>1, WriterFacts DEF Trusts
    <3> QED
      BY <1>3, <1>6, <1>9, <2>4, <3>2 DEF Excused, Passes
  <2> QED
    BY <2>3, <2>4
<1>10. SecuredNext
  BY <1>4, <1>6, SteadfastSecured
<1> QED
  BY <1>1, <1>4, <1>8, <1>9, <1>10, UnchangedPods, SteadfastMeansCalm, QuietWriter

LEMMA ObservesWriter == ASSUME OperatorInv, WriterInv, Observes PROVE WriterNext
  BY WithoutProcessWriter, WithAnswerWriter, ClosesAccessWriter, WithoutAnswerWriter
     DEF Observes, ObservesProcess, ReconcileProcessOrdinal

-----------------------------------------------------------------------------
(* A failover starts, goes on, or ends                                      *)

\* Who may lead by the status.
Leader(s, p) == p = s.primary \/ (s.failover # Nil /\ p = s.failover.cand)

\* A step about the failover leaves the rest of the status.
OnlyFailover(s) ==
    /\ s.nodes = st.nodes /\ s.rollout = st.rollout /\ s.accepted = st.accepted
    /\ s.applied = st.applied /\ s.initialized = st.initialized
    /\ s.reported => st.reported \/ (s.rollout = Nil /\ ~Unterminated)

LEMMA HandoverWriter ==
    ASSUME OperatorInv, WriterInv, HA, CalmProcs, UNCHANGED pod, NextPass, OnlyFailover(st'),
           st'.empty => st.empty \/ \A p \in Procs : ~Serves(proc'[p]),
           \A p \in Procs : p = st.primary /\ p # st'.primary /\ Serves(proc'[p]) =>
               Old(st, p) /\ st.initialized /\ ~st.empty /\ ~st.reported /\ ~Shrinks(st),
           \A p \in Procs : Misread(proc'[p], pod[p[1]].inc, st, p) => Leader(st', p),
           \A p \in Procs : pod[p[1]].inc = p[2] /\ Awaits(proc'[p], "promote") => Leader(st', p),
           Handed(proc', st')
    PROVE  WriterNext
<1>1. Silent(proc')
  BY DEF CalmProcs, Calm, Silent
<1>2. OnlyOne(proc')
  BY WriterFacts DEF CalmProcs, Calm, OnlyOne, Serves
<1>3. \A p \in Procs : (Old(st', p) <=> Old(st, p)) /\ (Trusted(st', p) <=> Trusted(st, p))
  BY DEF OnlyFailover, Old, Trusted
<1>4. Shrinks(st') <=> Shrinks(st)
  BY DEF OnlyFailover, Shrinks
<1>5. Sized(st')
  BY <1>4, WriterFacts DEF OnlyFailover, Sized
<1>6. Strays(proc', st')
  <2> SUFFICES ASSUME NEW p \in Procs, Serves(proc'[p]), p # st'.primary
               PROVE  /\ Old(st', p) /\ st'.initialized /\ ~st'.empty /\ ~st'.reported
                      /\ ~Shrinks(st')
    BY DEF Strays
  <2>1. Serves(proc[p]) /\ Up(p)
    BY WriterFacts DEF CalmProcs, Calm, Serves, Silent, Up
  <2>2. Old(st, p) /\ st.initialized /\ ~st.empty /\ ~st.reported /\ ~Shrinks(st)
    BY <2>1, WriterFacts DEF Strays
  <2>3. Unterminated
    BY <2>1, <2>2, OldFacts
  <2> QED
    BY <1>3, <1>4, <2>2, <2>3 DEF OnlyFailover
<1>7. Trusts(proc', pod', st', Ahead')
  <2> SUFFICES ASSUME NEW p \in Procs, Misread(proc'[p], pod'[p[1]].inc, st', p)
               PROVE  Excused(st', Ahead', p)
    BY DEF Trusts
  <2>1. Misread(proc'[p], pod[p[1]].inc, st, p)
    BY <1>3 DEF Misread
  <2> QED
    BY <2>1, PassFacts DEF Leader, Excused
<1>8. Promised(proc', pod', st')
  BY DEF Promised, Leader
<1> QED
  BY <1>1, <1>2, <1>5, <1>6, <1>7, <1>8 DEF WriterNext, WriterOK

LEMMA CalmMisread ==
    ASSUME WriterInv, HA, CalmProcs, NEW p \in Procs, NEW i, Misread(proc'[p], i, st, p)
    PROVE  Misread(proc[p], i, st, p)
  BY WriterFacts DEF Misread, CalmProcs, Calm, Silent

\* Whom the entries may be wrong about while the pass acts.
LEMMA ActingMisread ==
    ASSUME OperatorInv, WriterInv, HA, Ahead = {}, NEW p \in Procs,
           Misread(proc[p], pod[p[1]].inc, st, p)
    PROVE  /\ Leader(st, p)
           /\ st.failover # Nil /\ st.failover.stage \in {"choosing", "promoting"} =>
                p = st.failover.cand
  BY WriterFacts DEF Trusts, Excused, Leader

LEMMA FailoverThere == ASSUME OperatorInv, NEW f \in FailoverStatus PROVE f # Nil
  BY StInv, ProcsAreNamed, StatusAssumption DEF FailoverStatus, FailoverStatusOf

LEMMA FailoverOnly ==
    ASSUME OperatorInv, NEW f, NEW s, \/ s = [st EXCEPT !.failover = f]
                                      \/ s = [st EXCEPT !.failover = f, !.empty = FALSE]
    PROVE  /\ OnlyFailover(s) /\ s.failover = f /\ s.primary = st.primary
           /\ s.empty => st.empty
<1>1. /\ s.nodes = st.nodes /\ s.rollout = st.rollout /\ s.accepted = st.accepted
      /\ s.applied = st.applied /\ s.initialized = st.initialized /\ s.reported = st.reported
      /\ s.failover = f /\ s.primary = st.primary /\ (s.empty => st.empty)
  BY StInv DEF Status
<1> QED
  BY <1>1 DEF OnlyFailover

\* The failover starts: nobody is fenced yet.
LEMMA StartedWriter ==
    ASSUME OperatorInv, WriterInv, HA, Ahead = {}, UNCHANGED <<proc, pod>>, NextPass,
           st.failover = Nil \/ st.failover.stage = "reconfiguring",
           NEW f \in FailoverStatus, f.stage = "fencing", ~f.srcFenced, ~f.candFenced, f.cand # f.source,
           f.source # st.primary =>
              /\ f.reason = "resize" /\ st.primary # Nil /\ Old(st, st.primary)
              /\ st.rollout # Nil /\ ~Shrinks(st) /\ ~st.reported,
           NEW s, s = [st EXCEPT !.failover = f] \/ s = [st EXCEPT !.failover = f, !.empty = FALSE],
           st' = s, ~s.empty
    PROVE  WriterNext
<1>1. OnlyFailover(s) /\ s.failover = f /\ s.primary = st.primary
  BY FailoverOnly
<1>2. f # Nil /\ ~Guarded(f)
  BY FailoverThere DEF Guarded
<1>3. CalmProcs
  BY UnchangedProcs, SteadfastMeansCalm
<1>4. \A p \in Procs : Leader(st, p) => p = st.primary
  BY FailoverInv DEF Leader, GoodFailover
<1>5. Handed(proc', s)
  <2>1. Old(st, st.primary) => Old(s, st.primary)
    BY <1>1 DEF OnlyFailover, Old
  <2>2. (Shrinks(s) => Shrinks(st)) /\ s.rollout = st.rollout
    BY <1>1 DEF OnlyFailover, Shrinks
  <2>3. s.reported => st.reported \/ s.rollout = Nil
    BY <1>1 DEF OnlyFailover
  <2> QED
    BY <1>1, <1>2, <2>1, <2>2, <2>3 DEF Handed
<1>6. \A p \in Procs : Misread(proc'[p], pod[p[1]].inc, st, p) => p = st.primary
  BY <1>4, ActingMisread
<1>7. \A p \in Procs : pod[p[1]].inc = p[2] /\ Awaits(proc'[p], "promote") => p = st.primary
  BY <1>4, WriterFacts DEF Promised, Leader
<1> QED
  BY <1>1, <1>3, <1>5, <1>6, <1>7, HandoverWriter DEF Leader

LEMMA StartsFailureFailoverWriter ==
    ASSUME OperatorInv, WriterInv, StartsFailureFailover PROVE WriterNext
<1>1. PICK n \in FailoverPrimary :
          Saved([st EXCEPT !.failover = Failover("failure", n.p, Nil), !.empty = FALSE])
  BY Zenon DEF StartsFailureFailover
<1>2. n.p = st.primary /\ n.p \in Procs /\ Knows(st, n.p)
  BY KnownFacts DEF FailoverPrimary, Knows
<1>3. /\ st.failover = Nil /\ HA /\ st.initialized /\ Ahead = {} /\ ~FullStopOwnsAvailability
  BY DEF StartsFailureFailover, AfterRecovery, AfterManualFencing, Acting, Ahead
<1> DEFINE f == Failover("failure", n.p, Nil)
           s == [st EXCEPT !.failover = f, !.empty = FALSE]
<1>4. st' = s /\ UNCHANGED <<proc, pod>> /\ NextPass
  BY <1>1 DEF Saved, machine
<1>5. f \in FailoverStatus
  BY <1>2, <1>3 DEF Failover, FailoverStatus, FailoverStatusOf
<1>6. f.stage = "fencing" /\ ~f.srcFenced /\ ~f.candFenced /\ f.cand = Nil /\ f.source = n.p
  BY DEF Failover
<1>7. f.cand # f.source
  BY <1>2, <1>6, ProcsAreNamed, StInv
<1> HIDE DEF f
<1>8. ~s.empty
  BY StInv DEF Status
<1> HIDE DEF s
<1> QED
  BY <1>2, <1>3, <1>4, <1>5, <1>6, <1>7, <1>8, StartedWriter DEF s

\* The new primary fails too, or everybody follows it.
LEMMA ReconfiguringWriter ==
    ASSUME OperatorInv, WriterInv, ReconcileFailoverReconfiguring PROVE WriterNext
<1>1. /\ st.failover # Nil /\ st.failover.stage = "reconfiguring" /\ Ahead = {} /\ HA
      /\ st.primary = st.failover.cand /\ st.failover \in FailoverStatus
  BY FailoverInv DEF ReconcileFailoverReconfiguring, InFailover, AfterRecovery,
     AfterManualFencing, Acting, Ahead, GoodFailover
<1>2. PICK n \in FailoverPrimary :
        \/ Saved([st EXCEPT !.failover = [Failover("failure", n.p, Nil) EXCEPT
                                                            !.empty = st.failover.empty]])
        \/ Saved(ApplyOperationalPhase([st EXCEPT !.failover = Nil]))
  BY Zenon DEF ReconcileFailoverReconfiguring
<1>3. n.p = st.primary /\ n.p \in Procs
  BY KnownFacts DEF FailoverPrimary
<1>4. ~st.empty
  BY <1>1, WriterFacts DEF Handed
<1>5. CASE Saved([st EXCEPT !.failover = [Failover("failure", n.p, Nil) EXCEPT
                                                            !.empty = st.failover.empty]])
  <2> DEFINE e == st.failover.empty
             f == [Failover("failure", n.p, Nil) EXCEPT !.empty = e]
             s == [st EXCEPT !.failover = f]
  <2>1. st' = s /\ UNCHANGED <<proc, pod>> /\ NextPass
    BY <1>5 DEF Saved, machine
  <2>2. e \in BOOLEAN
    BY <1>1 DEF FailoverStatus, FailoverStatusOf
  <2> HIDE DEF e
  <2>3. f \in FailoverStatus
    BY <1>3, <2>2 DEF Failover, FailoverStatus, FailoverStatusOf
  <2>4. f.stage = "fencing" /\ ~f.srcFenced /\ ~f.candFenced /\ f.cand = Nil /\ f.source = n.p
    BY DEF Failover
  <2>5. f.cand # f.source
    BY <1>3, <2>4, ProcsAreNamed, StInv
  <2> HIDE DEF f
  <2>6. ~s.empty
    BY <1>4, FailoverOnly
  <2> HIDE DEF s
  <2> QED
    BY <1>1, <1>3, <2>1, <2>3, <2>4, <2>5, <2>6, StartedWriter DEF s
<1>6. CASE Saved(ApplyOperationalPhase([st EXCEPT !.failover = Nil]))
  <2> DEFINE s == [st EXCEPT !.failover = Nil]
             t == ApplyOperationalPhase(s)
  <2>1. st' = t /\ UNCHANGED <<proc, pod>> /\ NextPass
    BY <1>6 DEF Saved, machine
  <2>2. /\ s \in Status /\ s.nodes = st.nodes /\ s.rollout = st.rollout /\ s.accepted = st.accepted
        /\ s.applied = st.applied /\ s.initialized = st.initialized /\ s.reported = st.reported
        /\ s.failover = Nil /\ s.primary = st.primary /\ s.prev = st.prev
    BY StInv DEF Status
  <2> HIDE DEF s
  <2>3. /\ t.nodes = s.nodes /\ t.rollout = s.rollout /\ t.accepted = s.accepted
        /\ t.applied = s.applied /\ t.initialized = s.initialized
        /\ t.reported => s.reported \/ (s.rollout = Nil /\ \A q \in s.prev : q.term)
        /\ t.failover = s.failover /\ t.primary = s.primary /\ ~t.empty
    BY <2>2 DEF ApplyOperationalPhase, Status
  <2> HIDE DEF t
  <2>4. OnlyFailover(st') /\ st'.failover = Nil /\ st'.primary = st.primary /\ ~st'.empty
    BY <2>1, <2>2, <2>3 DEF OnlyFailover, Unterminated
  <2>5. \A p \in Procs : Leader(st, p) => p = st.primary
    BY <1>1 DEF Leader
  <2>6. \A p \in Procs : Misread(proc'[p], pod[p[1]].inc, st, p) => Leader(st', p)
    BY <1>1, <2>1, <2>4, <2>5, ActingMisread DEF Leader
  <2>7. \A p \in Procs : pod[p[1]].inc = p[2] /\ Awaits(proc'[p], "promote") => Leader(st', p)
    BY <1>1, <2>1, <2>4, <2>5, WriterFacts DEF Promised, Leader
  <2>8. CalmProcs
    BY <2>1, UnchangedProcs, SteadfastMeansCalm
  <2>9. Handed(proc', st')
    BY <2>4 DEF Handed
  <2> QED
    BY <1>1, <2>1, <2>4, <2>6, <2>7, <2>8, <2>9, HandoverWriter
<1> QED
  BY <1>2, <1>5, <1>6

\* The failover under way goes on between the same processes.
LEMMA FailoverFieldWriter ==
    ASSUME OperatorInv, WriterInv, Ahead = {}, st.failover # Nil,
           st.failover.stage # "reconfiguring", CalmProcs, UNCHANGED pod, NextPass,
           NEW f \in FailoverStatus, st' = [st EXCEPT !.failover = f],
           f.source = st.failover.source, f.reason = st.failover.reason, f.cand # f.source,
           \/ f.cand = st.failover.cand
           \/ st.failover.cand = Nil
           \/ proc[st.failover.cand].run # "up",
           Guarded(f) => Secured(proc'[f.source], st.accepted.pw),
           f.stage # "reconfiguring" /\ f.candFenced => f.cand # Nil /\ ~Opens(proc'[f.cand]),
           f.stage = "promoting" => f.candFenced
    PROVE  WriterNext
<1> DEFINE s == [st EXCEPT !.failover = f]
<1>1. OnlyFailover(s) /\ s.failover = f /\ s.primary = st.primary /\ (s.empty => st.empty)
  BY FailoverOnly
<1>2. s.accepted.pw = st.accepted.pw /\ st' = s
  BY <1>1 DEF OnlyFailover
<1> HIDE DEF s
<1>3. f # Nil /\ HA
  BY FailoverThere, FailoverInv DEF GoodFailover
<1>4. Handed(proc', s)
  <2>1. Old(st, st.primary) => Old(s, st.primary)
    BY <1>1 DEF OnlyFailover, Old
  <2>2. (Shrinks(s) => Shrinks(st)) /\ s.rollout = st.rollout
    BY <1>1 DEF OnlyFailover, Shrinks
  <2>3. s.reported => st.reported \/ s.rollout = Nil
    BY <1>1 DEF OnlyFailover
  <2>4. /\ ~st.empty
        /\ st.failover.source # st.primary =>
              /\ st.failover.reason = "resize" /\ st.primary # Nil /\ Old(st, st.primary)
              /\ st.rollout # Nil /\ ~Shrinks(st) /\ ~st.reported
    BY <1>3, WriterFacts DEF Handed
  <2> QED
    BY <1>1, <1>2, <2>1, <2>2, <2>3, <2>4 DEF Handed
<1>5. \A p \in Procs : Leader(st, p) => Leader(s, p) \/ proc[p].run # "up"
  <2> SUFFICES ASSUME NEW p \in Procs, p = st.failover.cand
               PROVE  Leader(s, p) \/ proc[p].run # "up"
    BY <1>1 DEF Leader
  <2>1. st.failover.cand # Nil
    BY ProcsAreNamed, StInv
  <2> QED
    BY <1>1, <1>3, <2>1 DEF Leader
<1>6. \A p \in Procs : Misread(proc'[p], pod[p[1]].inc, st, p) => Leader(s, p)
  <2> SUFFICES ASSUME NEW p \in Procs, Misread(proc'[p], pod[p[1]].inc, st, p) PROVE Leader(s, p)
    OBVIOUS
  <2>1. Misread(proc[p], pod[p[1]].inc, st, p)
    BY <1>3, CalmMisread
  <2> QED
    BY <1>3, <1>5, <2>1, ActingMisread DEF Misread
<1>7. \A p \in Procs : pod[p[1]].inc = p[2] /\ Awaits(proc'[p], "promote") => Leader(s, p)
  <2> SUFFICES ASSUME NEW p \in Procs, pod[p[1]].inc = p[2], Awaits(proc'[p], "promote")
               PROVE  Leader(s, p)
    OBVIOUS
  <2>1. Awaits(proc[p], "promote") /\ proc[p].run = "up"
    BY WriterFacts DEF CalmProcs, Calm, Silent, Leading
  <2>2. Leader(st, p)
    BY <1>3, <2>1, WriterFacts DEF Promised, Leader
  <2> QED
    BY <1>5, <2>1, <2>2
<1> QED
  BY <1>1, <1>2, <1>3, <1>4, <1>6, <1>7, HandoverWriter

\* The same for a step that changes no process.
LEMMA FailoverSavedWriter ==
    ASSUME OperatorInv, WriterInv, Ahead = {}, st.failover # Nil,
           st.failover.stage # "reconfiguring",
           NEW f \in FailoverStatus, Saved([st EXCEPT !.failover = f]),
           f.source = st.failover.source, f.reason = st.failover.reason, f.cand # f.source,
           \/ f.cand = st.failover.cand
           \/ st.failover.cand = Nil
           \/ proc[st.failover.cand].run # "up",
           Guarded(f) => Secured(proc[f.source], st.accepted.pw),
           f.stage # "reconfiguring" /\ f.candFenced => f.cand # Nil /\ ~Opens(proc[f.cand]),
           f.stage = "promoting" => f.candFenced
    PROVE  WriterNext
<1>1. UNCHANGED <<proc, pod>> /\ NextPass /\ st' = [st EXCEPT !.failover = f]
  BY DEF Saved, machine
<1>2. CalmProcs
  BY <1>1, UnchangedProcs, SteadfastMeansCalm
<1> QED
  BY <1>1, <1>2, FailoverFieldWriter

LEMMA FencesFacts ==
    ASSUME OperatorInv, WriterInv, NEW p \in Procs, NEW s, Fences(p, s)
    PROVE  /\ CalmProcs /\ UNCHANGED pod /\ NextPass
           /\ \A q \in Procs : q # p => proc'[q] = proc[q]
           /\ \/ UNCHANGED st
              \/ /\ st' = s /\ ~Opens(proc'[p])
                 /\ Secured(proc'[p], st.accepted.pw)
<1> DEFINE cmds == AppAccess(p, FALSE)
<1>1. cmds \in Seq(Commands) /\ NoneOf("on", cmds) /\ NoneOf("promote", cmds)
  <2>1. FALSE \in BOOLEAN
    OBVIOUS
  <2> QED
    BY <2>1, AppAccessFacts, CommandKinds
<1>2. /\ Up(p) /\ UNCHANGED pod /\ NextPass
      /\ (Session(p, cmds) /\ st' = s) \/ (Interrupted(p, cmds) /\ UNCHANGED st)
  BY DEF Fences, Commanded, BrokenOff, Reachable
<1>3. CASE Session(p, cmds) /\ st' = s
  <2> DEFINE r == DoAll(TakeControl(proc[p]), cmds)
  <2>1. ~r.app /\ r.clients = {} /\ r.late = {} /\ r.pw = st.accepted.pw
    BY ClosedFacts
  <2>2. proc' = [proc EXCEPT ![p] = r]
    BY <1>3 DEF Session, Becomes
  <2> HIDE DEF r
  <2>3. proc'[p] = r /\ \A q \in Procs : q # p => proc'[q] = proc[q]
    BY <2>2, StInv
  <2>4. ~Opens(r) /\ Secured(r, st.accepted.pw)
    BY <2>1 DEF Opens, Awaits, Secured
  <2> QED
    BY <1>1, <1>2, <1>3, <2>3, <2>4, SessionCalm
<1>4. CASE Interrupted(p, cmds) /\ UNCHANGED st
  <2>1. PICK r \in Process : proc' = [proc EXCEPT ![p] = r]
    BY <1>1, <1>4, SessionFacts
  <2>2. \A q \in Procs : q # p => proc'[q] = proc[q]
    BY <2>1, StInv
  <2> QED
    BY <1>1, <1>2, <1>4, <2>2, SessionCalm
<1> QED
  BY <1>2, <1>3, <1>4

\* A call that broke off leaves the failover where it was.
LEMMA BrokenWriter ==
    ASSUME OperatorInv, WriterInv, CalmProcs, UNCHANGED <<pod, st>>, NextPass, SecuredNext
    PROVE  WriterNext
  BY SameSized, SameLevel, UnchangedPods, PassFacts, ActedQuietly

LEMMA FencingWriter ==
    ASSUME OperatorInv, WriterInv, ReconcileFailoverFencing PROVE WriterNext
<1> DEFINE o == st.failover
<1>1. /\ o # Nil /\ o.stage = "fencing" /\ o \in FailoverStatus /\ Ahead = {} /\ HA
      /\ o.source \in Procs
  BY FailoverInv DEF ReconcileFailoverFencing, InFailover, AfterRecovery,
     AfterManualFencing, Acting, Ahead, GoodFailover, FailoverStatus, FailoverStatusOf
<1>2. PICK n \in Known(o.source) :
        \/ RemovesRoleLabel(n.p)
        \/ ~o.srcFenced /\ Fences(n.p, [st EXCEPT !.failover.srcFenced = TRUE])
        \/ (n.term \/ o.srcFenced) /\ Saved([st EXCEPT !.failover.stage = "choosing"])
  BY Zenon DEF ReconcileFailoverFencing
<1>3. n.p = o.source /\ (n.term => proc[o.source].run = "down")
  BY KnownFacts, EntriesInv
<1>4. /\ o.cand # o.source
      /\ o.srcFenced => Secured(proc[o.source], st.accepted.pw)
      /\ o.candFenced => o.cand # Nil /\ ~Opens(proc[o.cand])
  BY <1>1, WriterFacts DEF Handed, Guarded
<1>5. o.candFenced => o.cand \in Procs
  BY <1>1, <1>4 DEF FailoverStatus, FailoverStatusOf
<1>6. CASE ~o.srcFenced /\ Fences(n.p, [st EXCEPT !.failover.srcFenced = TRUE])
  <2> DEFINE f == [o EXCEPT !.srcFenced = TRUE]
             s == [st EXCEPT !.failover = f]
  <2>1. Fences(o.source, s)
    BY <1>3, <1>6
  <2>2. /\ f \in FailoverStatus /\ f.source = o.source /\ f.reason = o.reason /\ f.cand = o.cand
        /\ f.stage = "fencing" /\ f.candFenced = o.candFenced
    BY <1>1 DEF FailoverStatus, FailoverStatusOf
  <2> HIDE DEF f
  <2>3. CASE UNCHANGED st
    <3>1. SecuredNext
      BY <1>1, <1>6 DEF SecuredNext, Guarded
    <3> QED
      BY <1>1, <2>1, <2>3, <3>1, FencesFacts, BrokenWriter
  <2>4. CASE st' = s
    <3> HIDE DEF s
    <3>1. /\ CalmProcs /\ UNCHANGED pod /\ NextPass
          /\ UNCHANGED st \/ Secured(proc'[o.source], st.accepted.pw)
      BY <1>1, <2>1, FencesFacts
    <3>2. o.candFenced => ~Opens(proc'[o.cand])
      BY <1>4, <1>5, <3>1 DEF CalmProcs, Calm
    <3>3. CASE UNCHANGED st
      BY <2>3, <3>3
    <3>4. CASE Secured(proc'[o.source], st.accepted.pw)
      BY <1>1, <1>4, <2>2, <2>4, <3>1, <3>2, <3>4, FailoverFieldWriter DEF s
    <3> QED
      BY <3>1, <3>3, <3>4
  <2> QED
    BY <1>1, <2>1, <2>3, <2>4, FencesFacts
<1>7. CASE (n.term \/ o.srcFenced) /\ Saved([st EXCEPT !.failover.stage = "choosing"])
  <2> DEFINE f == [o EXCEPT !.stage = "choosing"]
  <2>1. Saved([st EXCEPT !.failover = f])
    BY <1>7
  <2>2. /\ f \in FailoverStatus /\ f.source = o.source /\ f.reason = o.reason /\ f.cand = o.cand
        /\ f.stage = "choosing" /\ f.candFenced = o.candFenced
    BY <1>1 DEF FailoverStatus, FailoverStatusOf
  <2>3. Secured(proc[o.source], st.accepted.pw)
    BY <1>3, <1>4, <1>7 DEF Secured
  <2> HIDE DEF f
  <2> QED
    BY <1>1, <1>4, <2>1, <2>2, <2>3, FailoverSavedWriter
<1> QED
  BY <1>2, <1>6, <1>7, RemovesRoleLabelWriter

\* What is known once the source of a failover is out of the way.
LEMMA GuardedFacts ==
    ASSUME OperatorInv, WriterInv, NEW stage \in {"choosing", "promoting"}, InFailover(stage)
    PROVE  LET o == st.failover
           IN  /\ o # Nil /\ o.stage = stage /\ o \in FailoverStatus /\ Ahead = {} /\ HA
               /\ o.source \in Procs /\ o.cand \in Procs \cup {Nil} /\ o.cand # o.source
               /\ Secured(proc[o.source], st.accepted.pw)
               /\ o.candFenced => o.cand # Nil /\ ~Opens(proc[o.cand])
               /\ stage = "promoting" => o.candFenced
               /\ ~st.empty /\ st.initialized
<1> DEFINE o == st.failover
<1>1. /\ o # Nil /\ o.stage = stage /\ o \in FailoverStatus /\ Ahead = {} /\ HA /\ st.initialized
  BY FailoverInv DEF InFailover, AfterRecovery, AfterManualFencing, Acting, Ahead, GoodFailover
<1>2. o.source \in Procs /\ o.cand \in Procs \cup {Nil}
  BY <1>1 DEF FailoverStatus, FailoverStatusOf
<1>3. Guarded(o)
  BY <1>1 DEF Guarded
<1> QED
  BY <1>1, <1>2, <1>3, WriterFacts DEF Handed

\* Then an earlier primary that still serves is out of its ordinal, and none of
\* a current Pod waits to be promoted.
LEMMA EarlierPrimary ==
    ASSUME OperatorInv, WriterInv, NEW stage \in {"choosing", "promoting"}, InFailover(stage),
           NEW p \in Procs, p = st.failover.source \/ p = st.primary
    PROVE  /\ Serves(proc[p]) => /\ p # st.failover.source /\ Old(st, p)
                                 /\ ~Shrinks(st) /\ ~st.reported
           /\ IsPodOf(p) => ~Awaits(proc[p], "promote")
<1>1. /\ st.failover # Nil /\ st.failover.stage = stage /\ HA
      /\ Secured(proc[st.failover.source], st.accepted.pw)
  BY GuardedFacts
<1>2. CASE p = st.failover.source
  <2>1. CASE proc[p].run = "down"
    BY <2>1, WriterFacts DEF Silent, Serves, Leading
  <2>2. CASE ~proc[p].app /\ proc[p].clients = {} /\ proc[p].late \subseteq {KillAppClients}
    BY <2>2 DEF Serves, Opens, Awaits, KillAppClients
  <2> QED
    BY <1>1, <1>2, <2>1, <2>2 DEF Secured
<1>3. CASE p # st.failover.source
  <2>1. Old(st, p) /\ ~Shrinks(st) /\ ~st.reported
    BY <1>1, <1>3, WriterFacts DEF Handed
  <2> QED
    BY <1>3, <2>1, OldFacts
<1> QED
  BY <1>2, <1>3

LEMMA ChoosesCandidateWriter ==
    ASSUME OperatorInv, WriterInv, ChoosesCandidate PROVE WriterNext
<1> DEFINE o == st.failover
<1>1. InFailover("choosing") /\ o.cand = Nil
  BY DEF ChoosesCandidate
<1>2. /\ o # Nil /\ o.stage = "choosing" /\ o \in FailoverStatus /\ Ahead = {}
      /\ Secured(proc[o.source], st.accepted.pw) /\ ~o.candFenced
  BY <1>1, GuardedFacts
<1>3. PICK source \in Known(o.source) : \E n \in Candidates(source, Nodes) :
        Saved([st EXCEPT !.failover = [@ EXCEPT !.cand = n.p, !.empty = FALSE, !.deadline = TRUE]])
  BY Zenon DEF ChoosesCandidate
<1>4. PICK n \in Candidates(source, Nodes) :
        Saved([st EXCEPT !.failover = [@ EXCEPT !.cand = n.p, !.empty = FALSE, !.deadline = TRUE]])
  BY <1>3, Zenon
<1> DEFINE p == n.p
           f == [o EXCEPT !.cand = p, !.empty = FALSE, !.deadline = TRUE]
<1>5. p \in Procs /\ p # o.source
  BY <1>3, KnownFacts, EntriesInv DEF Candidates
<1>6. Saved([st EXCEPT !.failover = f])
  BY <1>4
<1> HIDE DEF p
<1>7. /\ f \in FailoverStatus /\ f.source = o.source /\ f.reason = o.reason /\ f.cand = p
      /\ f.stage = "choosing" /\ f.candFenced = o.candFenced
  BY <1>2, <1>5 DEF FailoverStatus, FailoverStatusOf
<1> HIDE DEF f
<1> QED
  BY <1>1, <1>2, <1>5, <1>6, <1>7, FailoverSavedWriter

\* A fresh cache is made when nobody is left that serves.
LEMMA NobodyServes ==
    ASSUME OperatorInv, WriterInv, InFailover("choosing"), st.failover.cand = Nil,
           EmptyRecoverySafe \/ EmptyRecoveryWaitingSafe, NEW p \in Procs
    PROVE  ~Serves(proc[p]) /\ (IsPodOf(p) => ~Awaits(proc[p], "promote"))
<1>1. HA /\ st.failover # Nil /\ p # Nil
  BY GuardedFacts, ProcsAreNamed, StInv
<1>2. ~Serves(proc[p])
  <2> SUFFICES ASSUME Serves(proc[p]) PROVE FALSE
    OBVIOUS
  <2>1. Up(p)
    BY WriterFacts DEF Silent, Serves, Up
  <2>2. Old(st, p) /\ p # st.failover.source
    <3>1. CASE p = st.failover.source \/ p = st.primary
      BY <3>1, EarlierPrimary
    <3>2. CASE p # st.primary /\ p # st.failover.source
      BY <1>1, <3>2, WriterFacts DEF Strays
    <3> QED
      BY <3>1, <3>2
  <2>3. Unterminated /\ \E e \in st.prev : e.p = p /\ ~e.term
    BY <2>1, <2>2, OldFacts
  <2> QED
    BY <1>1, <2>2, <2>3 DEF EmptyRecoverySafe, EmptyRecoveryWaitingSafe
<1>3. ASSUME IsPodOf(p), Awaits(proc[p], "promote") PROVE FALSE
  <2>1. p = st.primary
    BY <1>1, <1>3, WriterFacts DEF Promised, IsPodOf
  <2> QED
    BY <1>3, <2>1, EarlierPrimary
<1> QED
  BY <1>2, <1>3

LEMMA EmptyRecoveryWriter ==
    ASSUME OperatorInv, WriterInv, InFailover("choosing"), st.failover.cand = Nil,
           EmptyRecoverySafe \/ EmptyRecoveryWaitingSafe, NEW loss, SavedLoss(EmptyRecovery(loss))
    PROVE  WriterNext
<1> DEFINE s == EmptyRecovery(loss)
<1>1. st' = s /\ UNCHANGED <<proc, pod>> /\ NextPass
  BY DEF SavedLoss
<1>2. /\ OnlyFailover(s) /\ s.failover = Nil
  BY StInv DEF EmptyRecovery, Status, OnlyFailover
<1> HIDE DEF s
<1>3. CalmProcs
  BY <1>1, UnchangedProcs, SteadfastMeansCalm
<1>4. \A p \in Procs : ~Serves(proc'[p]) /\ (IsPodOf(p) => ~Awaits(proc'[p], "promote"))
  BY <1>1, NobodyServes
<1>5. HA /\ Ahead = {} /\ st.failover # Nil /\ st.failover.stage = "choosing"
  BY GuardedFacts
<1>6. \A p \in Procs : ~Misread(proc'[p], pod[p[1]].inc, st, p)
  BY <1>1, <1>5, ActingMisread, ProcsAreNamed, StInv
<1>7. Handed(proc', st')
  BY <1>1, <1>2 DEF Handed
<1> QED
  BY <1>1, <1>2, <1>3, <1>4, <1>5, <1>6, <1>7, HandoverWriter DEF IsPodOf

LEMMA WithoutCandidateWriter ==
    ASSUME OperatorInv, WriterInv, WithoutCandidate PROVE WriterNext
<1> DEFINE o == st.failover
<1>1. InFailover("choosing") /\ o.cand = Nil
  BY DEF WithoutCandidate
<1>2. /\ o # Nil /\ o.stage = "choosing" /\ o \in FailoverStatus /\ Ahead = {}
      /\ Secured(proc[o.source], st.accepted.pw) /\ ~o.candFenced /\ o.cand # o.source
  BY <1>1, GuardedFacts
<1> DEFINE f == [o EXCEPT !.empty = FALSE]
           g == [o EXCEPT !.empty = TRUE]
<1>3. \/ /\ EmptyRecoverySafe \/ EmptyRecoveryWaitingSafe
         /\ SavedLoss(EmptyRecovery("stopped")) \/ SavedLoss(EmptyRecovery("timedout"))
      \/ Saved([st EXCEPT !.failover = f])
      \/ Saved([st EXCEPT !.failover = g])
  BY DEF WithoutCandidate
<1>4. ASSUME NEW h \in {f, g}
      PROVE  /\ h \in FailoverStatus /\ h.source = o.source /\ h.reason = o.reason /\ h.cand = o.cand
             /\ h.stage = "choosing" /\ h.candFenced = o.candFenced
  BY <1>2, <1>4 DEF FailoverStatus, FailoverStatusOf
<1> HIDE DEF f, g
<1>5. ASSUME NEW h \in {f, g}, Saved([st EXCEPT !.failover = h]) PROVE WriterNext
  BY <1>1, <1>2, <1>4, <1>5, FailoverSavedWriter
<1> QED
  BY <1>1, <1>3, <1>5, EmptyRecoveryWriter

\* The candidate has stopped.
LEMMA NoCandidateWriter ==
    ASSUME OperatorInv, WriterInv, NEW stage \in {"choosing", "promoting"}, InFailover(stage),
           proc[st.failover.cand].run = "down",
           Saved([st EXCEPT !.failover = NoCandidate(@)])
    PROVE  WriterNext
<1> DEFINE o == st.failover
           f == NoCandidate(o)
<1>1. /\ o # Nil /\ o.stage # "reconfiguring" /\ o \in FailoverStatus /\ Ahead = {}
      /\ Secured(proc[o.source], st.accepted.pw) /\ o.source \in Procs
  BY GuardedFacts
<1>2. Saved([st EXCEPT !.failover = f])
  OBVIOUS
<1>3. /\ f \in FailoverStatus /\ f.source = o.source /\ f.reason = o.reason /\ f.cand = Nil
      /\ f.stage = "choosing" /\ ~f.candFenced
  BY <1>1 DEF NoCandidate, FailoverStatus, FailoverStatusOf
<1>4. f.cand # f.source
  BY <1>1, <1>3, ProcsAreNamed, StInv
<1> HIDE DEF f
<1> QED
  BY <1>1, <1>2, <1>3, <1>4, FailoverSavedWriter

LEMMA PreparesCandidateWriter ==
    ASSUME OperatorInv, WriterInv, PreparesCandidate PROVE WriterNext
<1> DEFINE o == st.failover
<1>1. InFailover("choosing") /\ o.cand # Nil
  BY DEF PreparesCandidate
<1>2. /\ o # Nil /\ o.stage = "choosing" /\ o \in FailoverStatus /\ Ahead = {} /\ HA
      /\ o.source \in Procs /\ o.cand \in Procs /\ o.cand # o.source
      /\ Secured(proc[o.source], st.accepted.pw)
      /\ o.candFenced => ~Opens(proc[o.cand])
  BY <1>1, GuardedFacts
<1> DEFINE f == [o EXCEPT !.deadline = TRUE]
           g == [o EXCEPT !.candFenced = TRUE]
           h == [o EXCEPT !.stage = "promoting"]
<1>3. \/ Saved([st EXCEPT !.failover = f])
      \/ \E n \in Known(o.cand) :
            \/ n.term /\ Saved([st EXCEPT !.failover = NoCandidate(@)])
            \/ Fences(n.p, [st EXCEPT !.failover = g])
            \/ o.candFenced /\ Saved([st EXCEPT !.failover = h])
  BY DEF PreparesCandidate
<1>4. \A n \in Known(o.cand) : n.p = o.cand /\ (n.term => proc[o.cand].run = "down")
  BY KnownFacts, EntriesInv
<1>5. /\ f \in FailoverStatus /\ f.source = o.source /\ f.reason = o.reason /\ f.cand = o.cand
      /\ f.stage = "choosing" /\ f.candFenced = o.candFenced
  BY <1>2 DEF FailoverStatus, FailoverStatusOf
<1>6. /\ g \in FailoverStatus /\ g.source = o.source /\ g.reason = o.reason /\ g.cand = o.cand
      /\ g.stage = "choosing" /\ g.candFenced
  BY <1>2 DEF FailoverStatus, FailoverStatusOf
<1>7. /\ h \in FailoverStatus /\ h.source = o.source /\ h.reason = o.reason /\ h.cand = o.cand
      /\ h.stage = "promoting" /\ h.candFenced = o.candFenced
  BY <1>2 DEF FailoverStatus, FailoverStatusOf
<1> HIDE DEF f, g, h
<1>8. CASE Saved([st EXCEPT !.failover = f])
  BY <1>1, <1>2, <1>5, <1>8, FailoverSavedWriter
<1>9. CASE o.candFenced /\ Saved([st EXCEPT !.failover = h])
  BY <1>1, <1>2, <1>7, <1>9, FailoverSavedWriter
<1>10. ASSUME proc[o.cand].run = "down", Saved([st EXCEPT !.failover = NoCandidate(@)])
       PROVE  WriterNext
  <2>1. "choosing" \in {"choosing", "promoting"}
    OBVIOUS
  <2> QED
    BY <1>1, <1>10, <2>1, NoCandidateWriter
<1>11. CASE Fences(o.cand, [st EXCEPT !.failover = g])
  <2> DEFINE s == [st EXCEPT !.failover = g]
  <2>1. Fences(o.cand, s)
    BY <1>11
  <2> HIDE DEF s
  <2>2. /\ CalmProcs /\ UNCHANGED pod /\ NextPass
        /\ \A q \in Procs : q # o.cand => proc'[q] = proc[q]
        /\ UNCHANGED st \/ (st' = s /\ ~Opens(proc'[o.cand]))
    BY <1>2, <2>1, FencesFacts
  <2>3. proc'[o.source] = proc[o.source]
    BY <1>2, <2>2
  <2>4. CASE UNCHANGED st
    <3>1. SecuredNext
      BY <1>2, <2>3, <2>4 DEF SecuredNext
    <3> QED
      BY <2>2, <2>4, <3>1, BrokenWriter
  <2>5. CASE st' = s /\ ~Opens(proc'[o.cand])
    BY <1>1, <1>2, <1>6, <2>2, <2>3, <2>5, FailoverFieldWriter DEF s
  <2> QED
    BY <2>2, <2>4, <2>5
<1> QED
  BY <1>3, <1>4, <1>8, <1>9, <1>10, <1>11

\* A promotion: of a process nobody can be served by, or with nobody else left
\* that serves.
LEMMA PromotesWriter ==
    ASSUME OperatorInv, WriterInv, HA, NEW p \in Procs, Promotes(p, st), Leader(st, p),
           \/ ~Opens(proc[p])
           \/ p = st.primary /\ \A q \in Procs : Serves(proc[q]) => q = p,
           st.failover # Nil /\ Guarded(st.failover) => p # st.failover.source
    PROVE  WriterNext
<1> DEFINE cmds == PromoteCommands(p)
<1>1. cmds \in Seq(Commands) /\ NoneOf("on", cmds)
  BY PromoteCommandsFacts, CommandKinds
<1>2. /\ Up(p) /\ UNCHANGED <<pod, st>> /\ NextPass
      /\ Session(p, cmds) \/ Interrupted(p, cmds)
  BY DEF Promotes, Commanded, BrokenOff, Reachable
<1>3. PICK r \in Process : /\ proc' = [proc EXCEPT ![p] = r] /\ r.run = proc[p].run
                           /\ Opens(r) => Opens(proc[p])
  BY <1>1, <1>2, SessionFacts
<1>4. proc'[p] = r /\ r.run = "up" /\ \A q \in Procs : q # p => proc'[q] = proc[q]
  BY <1>2, <1>3, StInv DEF Up
<1>5. \A q \in Procs : Opens(proc'[q]) => Opens(proc[q])
  BY <1>3, <1>4
<1>6. \A q \in Procs : Serves(proc'[q]) => \/ q # p /\ Serves(proc[q])
                                           \/ q = p /\ p = st.primary
  BY <1>4, <1>5 DEF Serves
<1>7. Silent(proc')
  BY <1>4, WriterFacts DEF Silent
<1>8. OnlyOne(proc')
  <2> SUFFICES ASSUME NEW a \in Procs, NEW b \in Procs, Serves(proc'[a]), Serves(proc'[b])
               PROVE  a = b
    BY DEF OnlyOne
  <2>1. CASE Opens(proc[p])
    BY <1>6, <2>1
  <2>2. CASE ~Opens(proc[p])
    <3>1. a # p /\ b # p
      BY <1>5, <2>2 DEF Serves
    <3> QED
      BY <1>6, <3>1, WriterFacts DEF OnlyOne
  <2> QED
    BY <2>1, <2>2
<1>9. Strays(proc', st')
  BY <1>2, <1>6, WriterFacts DEF Strays
<1>10. Trusts(proc', pod', st', Ahead')
  <2> SUFFICES ASSUME NEW q \in Procs, Misread(proc'[q], pod'[q[1]].inc, st', q)
               PROVE  Excused(st', Ahead', q)
    BY DEF Trusts
  <2>1. q[1] \in Ahead'
    BY <1>2, PassFacts
  <2>2. Leader(st, q)
    <3>1. CASE q # p
      <4>1. Misread(proc[q], pod[q[1]].inc, st, q)
        BY <1>2, <1>4, <3>1
      <4> QED
        BY <4>1, WriterFacts DEF Trusts, Excused, Leader
    <3> QED
      BY <3>1
  <2> QED
    BY <1>2, <2>1, <2>2 DEF Excused, Leader
<1>11. Promised(proc', pod', st')
  <2> SUFFICES ASSUME NEW q \in Procs, pod'[q[1]].inc = q[2], Awaits(proc'[q], "promote")
               PROVE  Leader(st, q)
    BY <1>2 DEF Promised, Leader
  <2>1. CASE q # p
    BY <1>2, <1>4, <2>1, WriterFacts DEF Promised, Leader
  <2> QED
    BY <2>1
<1>12. Handed(proc', st')
  <2> DEFINE f == st.failover
  <2>1. f # Nil => f.source \in Procs /\ f.cand \in Procs \cup {Nil}
    BY FailoverInv DEF FailoverStatus, FailoverStatusOf
  <2>2. f # Nil /\ Guarded(f) => proc'[f.source] = proc[f.source]
    BY <1>4, <2>1
  <2>3. f # Nil /\ f.cand # Nil /\ Opens(proc'[f.cand]) => Opens(proc[f.cand])
    BY <1>5, <2>1
  <2> HIDE DEF f
  <2>4. f = st.failover
    BY DEF f
  <2> QED
    BY <1>2, <2>2, <2>3, <2>4, WriterFacts DEF Handed
<1>13. Sized(st')
  BY <1>2, WriterFacts
<1> QED
  BY <1>7, <1>8, <1>9, <1>10, <1>11, <1>12, <1>13 DEF WriterNext, WriterOK

LEMMA PromotingWriter ==
    ASSUME OperatorInv, WriterInv, ReconcileFailoverPromoting PROVE WriterNext
<1> DEFINE o == st.failover
<1>1. InFailover("promoting")
  BY DEF ReconcileFailoverPromoting
<1>2. /\ o # Nil /\ o.stage = "promoting" /\ o \in FailoverStatus /\ Ahead = {} /\ HA
      /\ o.source \in Procs /\ o.cand # o.source /\ o.cand # Nil /\ o.candFenced
      /\ Secured(proc[o.source], st.accepted.pw) /\ ~Opens(proc[o.cand])
      /\ ~st.empty /\ st.initialized
  BY <1>1, GuardedFacts
<1> DEFINE f == [o EXCEPT !.mayBe = TRUE]
           g == [o EXCEPT !.stage = "reconfiguring"]
<1>3. PICK n \in Known(o.cand) :
        \/ n.term /\ Saved([st EXCEPT !.failover = NoCandidate(@)])
        \/ Saved([st EXCEPT !.primary = n.p, !.failover.stage = "reconfiguring"])
        \/ Saved([st EXCEPT !.failover.mayBe = TRUE])
        \/ Promotes(n.p, st)
  BY Zenon DEF ReconcileFailoverPromoting
<1> DEFINE p == n.p
           s == [st EXCEPT !.primary = p, !.failover = g]
<1>4. p = o.cand /\ p \in Procs /\ (n.term => proc[o.cand].run = "down")
  BY KnownFacts, EntriesInv
<1>5. \/ n.term /\ Saved([st EXCEPT !.failover = NoCandidate(@)])
      \/ Saved(s)
      \/ Saved([st EXCEPT !.failover = f])
      \/ Promotes(p, st)
  BY <1>3
<1> HIDE DEF p
<1>6. CASE n.term /\ Saved([st EXCEPT !.failover = NoCandidate(@)])
  <2>1. "promoting" \in {"choosing", "promoting"}
    OBVIOUS
  <2> QED
    BY <1>1, <1>4, <1>6, <2>1, NoCandidateWriter
<1>7. CASE Saved([st EXCEPT !.failover = f])
  <2>1. /\ f \in FailoverStatus /\ f.source = o.source /\ f.reason = o.reason /\ f.cand = o.cand
        /\ f.stage = "promoting" /\ f.candFenced
    BY <1>2 DEF FailoverStatus, FailoverStatusOf
  <2> HIDE DEF f
  <2> QED
    BY <1>2, <1>7, <2>1, FailoverSavedWriter
<1>8. CASE Promotes(p, st)
  BY <1>2, <1>4, <1>8, PromotesWriter DEF Leader
<1>9. CASE Saved(s)
  <2>1. st' = s /\ UNCHANGED <<proc, pod>> /\ NextPass
    BY <1>9 DEF Saved, machine
  <2>2. g.source = o.source /\ g.cand = o.cand /\ g.stage = "reconfiguring" /\ g \in FailoverStatus
    BY <1>2 DEF FailoverStatus, FailoverStatusOf
  <2> HIDE DEF g
  <2>3. OnlyFailover(s) /\ s.failover = g /\ s.primary = p /\ s.empty = st.empty
    BY StInv DEF OnlyFailover, Status
  <2> HIDE DEF s
  <2>4. CalmProcs
    BY <2>1, UnchangedProcs, SteadfastMeansCalm
  <2>5. g # Nil /\ ~Guarded(g)
    BY <2>2, FailoverThere DEF Guarded
  <2>6. Handed(proc', s)
    BY <1>2, <2>2, <2>3, <2>5 DEF Handed
  <2>7. "promoting" \in {"choosing", "promoting"}
    OBVIOUS
  <2>8. \A q \in Procs : q = st.primary /\ q # s.primary /\ Serves(proc'[q]) =>
            Old(st, q) /\ st.initialized /\ ~st.empty /\ ~st.reported /\ ~Shrinks(st)
    BY <1>1, <1>2, <2>1, <2>7, EarlierPrimary
  <2>9. \A q \in Procs : Misread(proc'[q], pod[q[1]].inc, st, q) => Leader(s, q)
    BY <1>2, <1>4, <2>1, <2>3, ActingMisread DEF Leader
  <2>10. ASSUME NEW q \in Procs, pod[q[1]].inc = q[2], Awaits(proc'[q], "promote")
         PROVE  Leader(s, q)
    <3>1. Leader(st, q)
      BY <1>2, <2>1, <2>10, WriterFacts DEF Promised, Leader
    <3>2. q # st.primary
      BY <1>1, <2>1, <2>7, <2>10, EarlierPrimary DEF IsPodOf
    <3> QED
      BY <1>4, <2>3, <3>1, <3>2 DEF Leader
  <2> QED
    BY <1>2, <2>1, <2>3, <2>4, <2>6, <2>8, <2>9, <2>10, HandoverWriter
<1> QED
  BY <1>5, <1>6, <1>7, <1>8, <1>9

LEMMA FailoverWriter == ASSUME OperatorInv, WriterInv, ReconcileFailover PROVE WriterNext
  BY StartsFailureFailoverWriter, FencingWriter, ChoosesCandidateWriter, WithoutCandidateWriter,
     PreparesCandidateWriter, PromotingWriter, ReconfiguringWriter DEF ReconcileFailover

-----------------------------------------------------------------------------
(* The switch of the primary, and a stop of everything                      *)

LEMMA SwitchesPrimaryWriter ==
    ASSUME OperatorInv, WriterInv, SwitchesPrimary PROVE WriterNext
<1> DEFINE m == st.nodes[st.primary[1]]
<1>1. /\ st.failover = Nil /\ st.rollout # Nil /\ st.rollout.stage = "switching"
      /\ st.primary # Nil /\ m # Nil /\ Ahead = {}
      /\ \/ Saved(Advance("primary"))
         \/ \E n \in Candidates(m, {k \in Nodes : RolloutProcessReady(k)}) :
                Saved([st EXCEPT !.failover = Failover("resize", m.p, n.p), !.empty = FALSE])
  BY DEF SwitchesPrimary, InRollout, AfterRotation, AfterFailover, AfterRecovery,
         AfterManualFencing, Acting, Ahead
<1>2. HA /\ ~Shrinks(st) /\ ~st.reported
  BY <1>1, RolloutInv, WriterFacts DEF Sized
<1>3. CASE Saved(Advance("primary"))
  BY <1>1, <1>3, AdvanceWriter DEF SmallSteps
<1>4. ASSUME NEW n \in Candidates(m, {k \in Nodes : RolloutProcessReady(k)}),
             Saved([st EXCEPT !.failover = Failover("resize", m.p, n.p), !.empty = FALSE])
      PROVE  WriterNext
  <2>1. st.primary \in Procs /\ Knows(st, st.primary) /\ st.primary[1] \in Ordinals
    BY <1>1, FailoverInv, ProcsAreNamed, StInv
  <2>2. m \in Nodes /\ m.p \in Procs /\ n.p \in Procs /\ n.p # m.p
    BY <1>1, <1>4, <2>1, EntriesInv DEF Candidates, Nodes
  <2>3. m.p # st.primary => Old(st, st.primary)
    <3>1. PICK e \in Entries(st) : e.p = st.primary
      BY <2>1 DEF Knows
    <3>2. CASE e \in Nodes
      <4>1. e = m
        BY <3>1, <3>2, EntriesInv
      <4> QED
        BY <3>1, <4>1
    <3>3. CASE e \in st.prev
      BY <3>1, <3>3, EntriesInv DEF Old
    <3> QED
      BY <3>2, <3>3, EntriesInv
  <2> DEFINE a == m.p
             b == n.p
             f == Failover("resize", a, b)
             s == [st EXCEPT !.failover = f, !.empty = FALSE]
  <2>4. st' = s /\ UNCHANGED <<proc, pod>> /\ NextPass
    BY <1>4 DEF Saved, machine
  <2>5. a \in Procs /\ b \in Procs /\ b # a /\ (a # st.primary => Old(st, st.primary))
    BY <2>2, <2>3
  <2> HIDE DEF a, b
  <2>6. /\ f \in FailoverStatus /\ f.stage = "fencing" /\ ~f.srcFenced /\ ~f.candFenced
        /\ f.cand = b /\ f.source = a /\ f.reason = "resize"
    BY <2>5 DEF Failover, FailoverStatus, FailoverStatusOf
  <2> HIDE DEF f
  <2>7. ~s.empty
    BY StInv DEF Status
  <2> HIDE DEF s
  <2> QED
    BY <1>1, <1>2, <2>4, <2>5, <2>6, <2>7, StartedWriter DEF s
<1> QED
  BY <1>1, <1>3, <1>4

\* When every entry carries the proof of a stop and there is no Pod, nothing runs.
LEMMA NothingRuns ==
    ASSUME OperatorInv, AllRolloutProcessesStopped, NEW p \in Procs PROVE ~Up(p)
<1>1. ~IsPodOf(p)
  BY ProcsAreNamed, StInv DEF AllRolloutProcessesStopped, IsPodOf, HasPod, Scene
<1>2. Knows(st, p) => proc[p].run = "down"
  BY EntriesInv DEF AllRolloutProcessesStopped, Knows
<1> QED
  BY <1>1, <1>2 DEF OperatorInv, Tracked, Up

LEMMA StopsProcessesWriter ==
    ASSUME OperatorInv, WriterInv, StopsProcesses PROVE WriterNext
<1> DEFINE q == st.rollout
           r == [q EXCEPT !.stage = "template"]
           s == [st EXCEPT !.rollout = r, !.primary = Nil, !.public = FALSE, !.loss = "resize"]
<1>1. /\ st.failover = Nil /\ q # Nil /\ AllRolloutProcessesStopped
      /\ st' = s /\ UNCHANGED <<proc, pod>>
  BY DEF StopsProcesses, InRollout, SavedLoss
<1>2. r.stage = "template"
  BY <1>1, RolloutInv DEF RolloutStatus, RolloutStatusOf
<1> HIDE DEF r
<1>3. s.rollout = r /\ s.failover = Nil /\ s.reported = st.reported
  BY <1>1, StInv DEF Status
<1> HIDE DEF s
<1>4. \A p \in Procs : proc'[p].run # "up" /\ ~Opens(proc'[p]) /\ ~Leading(proc'[p])
  BY <1>1, NothingRuns, WriterFacts DEF Silent, Up
<1>5. Sized(s)
  BY <1>1, <1>2, <1>3, WriterFacts DEF Sized
<1> QED
  BY <1>1, <1>3, <1>4, <1>5
     DEF WriterNext, WriterOK, Silent, OnlyOne, Serves, Strays, Trusts, Misread, Promised, Leading,
         Handed

LEMMA RolloutWriter == ASSUME OperatorInv, WriterInv, ReconcileRollout PROVE WriterNext
<1>1. "replicas" \in SmallSteps /\ "primary" \in SmallSteps
  BY DEF SmallSteps
<1>2. ASSUME RollingReplacement("replicas", "switching") PROVE WriterNext
  BY <1>1, <1>2, RollingReplacementWriter
<1>3. ASSUME RollingReplacement("primary", "verifying") PROVE WriterNext
  BY <1>1, <1>3, RollingReplacementWriter
<1> QED
  BY <1>2, <1>3, RolloutStagesWriter, ClosesProcessesWriter, SwitchesPrimaryWriter,
     StopsProcessesWriter, VerifiesRolloutWriter DEF ReconcileRollout

-----------------------------------------------------------------------------
(* A fresh cache gets its primary                                           *)

LEMMA NoStrays ==
    ASSUME OperatorInv, WriterInv, HA, EmptyPrimaryAssignmentAllowed \/ ~Unterminated,
           NEW p \in Procs, Serves(proc[p])
    PROVE  p = st.primary
<1> SUFFICES ASSUME p # st.primary PROVE FALSE
  OBVIOUS
<1>1. Old(st, p) /\ st.initialized /\ ~st.empty /\ ~Shrinks(st)
  BY WriterFacts DEF Strays
<1>2. Up(p)
  BY WriterFacts DEF Silent, Serves, Up
<1>3. Unterminated
  BY <1>1, <1>2, OldFacts
<1> QED
  BY <1>1, <1>3 DEF EmptyPrimaryAssignmentAllowed, RolloutRequiresFullStop, Shrinks

LEMMA AssignsInitialPrimaryWriter ==
    ASSUME OperatorInv, WriterInv, AssignsInitialPrimary PROVE WriterNext
<1> DEFINE n == st.nodes[0]
           p == n.p
           s == [st EXCEPT !.primary = p]
<1>1. /\ n # Nil /\ AfterFailover /\ HA /\ EmptyPrimaryAssignmentAllowed /\ Ahead = {}
      /\ IF st.primary # n.p
         THEN /\ st.primary # Nil => InitialPrimaryReplacementSafe
              /\ Saved([st EXCEPT !.primary = n.p])
         ELSE n.role = "replica" /\ Promotes(n.p, st)
  BY DEF AssignsInitialPrimary, AfterRollout, AfterRotation, AfterFailover, AfterRecovery,
         AfterManualFencing, Acting, Ahead
<1>2. p \in Procs
  BY <1>1, EntriesInv, ProcsAreNamed, StInv
<1>3. st.failover = Nil \/ st.failover.stage = "reconfiguring"
  BY <1>1, BehindFailover
<1>4. CASE st.primary # p
  <2>1. Saved(s) /\ (st.primary # Nil => InitialPrimaryReplacementSafe)
    BY <1>1, <1>4
  <2>2. ASSUME st.primary # Nil
        PROVE  proc[st.primary].run = "down" /\ \E m \in FailoverPrimary : Failed(m)
    <3>1. PICK e \in st.prev : e.p = st.primary /\ e.term
      BY <2>1, <2>2 DEF InitialPrimaryReplacementSafe
    <3> QED
      BY <3>1, EntriesInv DEF FailoverPrimary, Known, Failed
  <2>3. st.failover = Nil
    BY <1>1, <1>3, <2>2, FailoverInv DEF AfterFailover, FailoverDue, GoodFailover
  <2> HIDE DEF n, p
  <2>4. st' = s /\ UNCHANGED <<proc, pod>> /\ NextPass
    BY <2>1 DEF Saved, machine
  <2>5. OnlyFailover(s) /\ s.primary = p /\ s.failover = Nil /\ s.empty = st.empty
    BY <2>3, StInv DEF OnlyFailover, Status
  <2> HIDE DEF s
  <2>6. \A q \in Procs : q = st.primary => ~Serves(proc[q]) /\ ~Leading(proc[q])
    BY <2>2, ProcsAreNamed, StInv, WriterFacts DEF Silent, Serves
  <2>7. CalmProcs
    BY <2>4, UnchangedProcs, SteadfastMeansCalm
  <2>8. \A q \in Procs : ~Misread(proc'[q], pod[q[1]].inc, st, q)
    BY <1>1, <2>3, <2>4, <2>6, ActingMisread DEF Leader, Misread
  <2>9. \A q \in Procs : pod[q[1]].inc = q[2] => ~Awaits(proc'[q], "promote")
    BY <1>1, <2>3, <2>4, <2>6, WriterFacts DEF Promised, Leading
  <2>10. Handed(proc', st')
    BY <2>4, <2>5 DEF Handed
  <2> QED
    BY <1>1, <2>4, <2>5, <2>6, <2>7, <2>8, <2>9, <2>10, HandoverWriter
<1>5. CASE st.primary = p
  <2>1. Promotes(p, st)
    BY <1>1, <1>5
  <2>2. \A q \in Procs : Serves(proc[q]) => q = p
    BY <1>1, <1>5, NoStrays
  <2>3. st.failover # Nil => ~Guarded(st.failover)
    BY <1>3 DEF Guarded
  <2> HIDE DEF p
  <2> QED
    BY <1>1, <1>2, <1>5, <2>1, <2>2, <2>3, PromotesWriter DEF Leader
<1> QED
  BY <1>4, <1>5

-----------------------------------------------------------------------------
(* Admission                                                                *)

\* Access is given to a process: no primary is made, and nobody else serves.
AccessOnly(p) ==
    IF HA THEN \A q \in Procs : Serves(proc[q]) => q = p
          ELSE \A q \in Procs : Opens(proc[q]) => q = p

LEMMA AdmissionWriter ==
    ASSUME OperatorInv, WriterInv, NEW p \in Procs, NEW r, proc' = [proc EXCEPT ![p] = r],
           r.run = "up", Leading(r) => Leading(proc[p]), ~Awaits(r, "promote"),
           ~HA \/ Serves(r) => AccessOnly(p), HA /\ Serves(r) => p = st.primary,
           UNCHANGED pod, NextPass, st.failover = Nil \/ st.failover.stage = "reconfiguring",
           Sized(st'), HA => Level(st') /\ TrustKept(st')
    PROVE  WriterNext
<1>1. proc'[p] = r /\ \A q \in Procs : q # p => proc'[q] = proc[q]
  BY StInv
<1>2. Silent(proc')
  BY <1>1, WriterFacts DEF Silent
<1>3. \A q \in Procs : Leading(proc'[q]) => Leading(proc[q])
  BY <1>1
<1>4. OnlyOne(proc')
  BY <1>1, WriterFacts DEF OnlyOne, AccessOnly
<1>5. ASSUME HA PROVE Strays(proc', st')
  <2> SUFFICES ASSUME NEW q \in Procs, Serves(proc'[q]), q # st'.primary
               PROVE  /\ Old(st', q) /\ st'.initialized /\ ~st'.empty /\ ~st'.reported
                      /\ ~Shrinks(st')
    BY DEF Strays
  <2>1. q # st.primary /\ Serves(proc[q])
    BY <1>1, <1>5 DEF Level
  <2>2. Up(q)
    BY <2>1, WriterFacts DEF Serves, Silent, Up
  <2>3. Old(st, q) /\ st.initialized /\ ~st.empty /\ ~st.reported /\ ~Shrinks(st)
    BY <1>5, <2>1, WriterFacts DEF Strays
  <2>4. Unterminated
    BY <2>2, <2>3, OldFacts
  <2> QED
    BY <1>5, <2>3, <2>4 DEF Level
<1>6. ASSUME HA PROVE Trusts(proc', pod', st', Ahead')
  <2> SUFFICES ASSUME NEW q \in Procs, Misread(proc'[q], pod'[q[1]].inc, st', q)
               PROVE  Excused(st', Ahead', q)
    BY DEF Trusts
  <2>1. Trusted(st, q) /\ Leading(proc[q])
    BY <1>3, <1>6 DEF Misread, TrustKept
  <2>2. Misread(proc[q], pod[q[1]].inc, st, q)
    BY <2>1, WriterFacts DEF Misread, Silent
  <2>3. Excused(st, Ahead, q)
    BY <1>6, <2>2, WriterFacts DEF Trusts
  <2>4. q[1] \in Ahead'
    BY PassFacts
  <2> QED
    BY <1>6, <2>3, <2>4 DEF Excused, Level
<1>7. ASSUME HA PROVE Promised(proc', pod', st')
  <2> SUFFICES ASSUME NEW q \in Procs, pod'[q[1]].inc = q[2], Awaits(proc'[q], "promote")
               PROVE  q = st'.primary \/ (st'.failover # Nil /\ q = st'.failover.cand)
    BY DEF Promised
  <2>1. Awaits(proc[q], "promote")
    BY <1>1
  <2> QED
    BY <1>7, <2>1, WriterFacts DEF Promised, Level
<1>8. ASSUME HA PROVE Handed(proc', st')
  BY <1>8, WriterFacts DEF Handed, Guarded, Level
<1> QED
  BY <1>2, <1>4, <1>5, <1>6, <1>7, <1>8 DEF WriterNext, WriterOK

\* The session that gives access.
LEMMA AccessWriter ==
    ASSUME OperatorInv, WriterInv, NEW p \in Procs, NEW s,
           Commanded(p, AppAccess(p, TRUE), s) \/ BrokenOff(p, AppAccess(p, TRUE)),
           HA => ~Leading(proc[p]) \/ (AccessOnly(p) /\ p = st.primary), ~HA => AccessOnly(p),
           st.failover = Nil \/ st.failover.stage = "reconfiguring",
           Sized(s), HA => Level(s) /\ TrustKept(s)
    PROVE  WriterNext
<1> DEFINE cmds == AppAccess(p, TRUE)
<1>1. /\ Up(p) /\ UNCHANGED pod /\ NextPass /\ (st' = s \/ UNCHANGED st)
      /\ Session(p, cmds) \/ Interrupted(p, cmds)
  BY DEF Commanded, BrokenOff, Reachable
<1>2. TRUE \in BOOLEAN
  OBVIOUS
<1>3. cmds \in Seq(Commands)
  BY <1>2, AppAccessFacts
<1>4. NoneOf("promote", cmds)
  BY CommandKinds
<1> HIDE DEF cmds
<1>5. PICK r \in Process :
          /\ proc' = [proc EXCEPT ![p] = r] /\ r.run = proc[p].run
          /\ (Leading(r) => Leading(proc[p])) /\ ~Awaits(r, "promote")
  BY <1>1, <1>3, <1>4, SessionFacts
<1>6. Sized(st') /\ (HA => Level(st') /\ TrustKept(st'))
  BY <1>1, SameSized, SameLevel
<1>7. Serves(r) => Leading(proc[p])
  BY <1>5 DEF Serves
<1>8. r.run = "up"
  BY <1>1, <1>5 DEF Up
<1> QED
  BY <1>1, <1>5, <1>6, <1>7, <1>8, AdmissionWriter

LEMMA AdmittedNodeMild ==
    ASSUME OperatorInv, NEW n \in Nodes PROVE Mild(AdmittedNode(st, n.p))
<1> DEFINE o == n.p[1]
           pw == st.accepted.pw
           m == [n EXCEPT !.app = TRUE, !.pw = pw]
           s == [st EXCEPT !.nodes[o] = m]
<1>1. o \in Ordinals /\ st.nodes[o] = n /\ n # Nil /\ n \in NodeStatus /\ pw \in Nat
  BY EntriesInv, StInv
<1>2. AdmittedNode(st, n.p) = s
  BY <1>1, Zenon DEF AdmittedNode
<1> HIDE DEF o, pw
<1>3. /\ m \in NodeStatus /\ m.p = n.p /\ m.role = n.role /\ m.obs = n.obs /\ m.ready = n.ready
  BY <1>1 DEF NodeStatus, NodeStatusOf
<1> HIDE DEF m
<1>4. m # Nil
  BY <1>3, EntryThere
<1>5. Mild(s)
  BY <1>1, <1>3, <1>4, EntryMild
<1> QED
  BY <1>2, <1>5

LEMMA AdmitsReplicaWriter == ASSUME OperatorInv, WriterInv, AdmitsReplica PROVE WriterNext
<1>1. PICK n \in AdmissibleReplicas :
        \E good \in BOOLEAN :
           \/ Commanded(n.p, AppAccess(n.p, TRUE),
                        IF good THEN ApplyOperationalPhase(AdmittedNode(st, n.p)) ELSE st)
           \/ BrokenOff(n.p, AppAccess(n.p, TRUE))
  BY Zenon DEF AdmitsReplica
<1> DEFINE p == n.p
           s == ApplyOperationalPhase(AdmittedNode(st, p))
<1>2. /\ n \in Nodes /\ HA /\ p[1] # st.primary[1] /\ n.role = "replica" /\ n.obs = "ok"
      /\ n.ready /\ IsPodOf(p)
  BY DEF AdmissibleReplicas, Live
<1>3. p \in Procs /\ n # Nil /\ st.nodes[p[1]] = n
  BY <1>2, EntriesInv
<1>4. Ahead = {} /\ AfterFailover
  BY DEF AdmitsReplica, AfterMetadata, AfterTopology, AfterRollout, AfterRotation, AfterFailover,
         AfterRecovery, AfterManualFencing, Acting, Ahead
<1>5. st.failover = Nil \/ st.failover.stage = "reconfiguring"
  BY <1>4, BehindFailover
<1>6. Mild(s)
  BY <1>2, AdmittedNodeMild, AdmittedNodeFacts, PhaseMild
<1>7. /\ Sized(s) /\ Level(s) /\ TrustKept(s)
      /\ Sized(st) /\ Level(st) /\ TrustKept(st)
  BY <1>6, SameMild, MildFacts
<1>8. ~Leading(proc[p])
  <2> SUFFICES ASSUME Leading(proc[p]) PROVE FALSE
    OBVIOUS
  <2>1. Misread(proc[p], pod[p[1]].inc, st, p)
    BY <1>2, <1>3, WriterFacts DEF Misread, Trusted, IsPodOf, Silent
  <2> HIDE DEF p
  <2>2. Leader(st, p)
    BY <1>2, <1>3, <1>4, <2>1, ActingMisread
  <2>3. p = st.primary
    BY <1>5, <2>2, FailoverInv DEF Leader, GoodFailover
  <2> QED
    BY <1>2, <2>3
<1>9. \/ Commanded(p, AppAccess(p, TRUE), s) \/ Commanded(p, AppAccess(p, TRUE), st)
      \/ BrokenOff(p, AppAccess(p, TRUE))
  BY <1>1
<1> HIDE DEF p, s
<1> QED
  BY <1>2, <1>3, <1>5, <1>7, <1>8, <1>9, AccessWriter

\* Once no earlier process is left open the primary is the only one to serve.
LEMMA AdmissionFacts ==
    ASSUME OperatorInv, WriterInv, NEW n \in AdmissionProcess
    PROVE  /\ n \in Nodes /\ n.p \in Procs /\ ~Unterminated /\ AccessOnly(n.p)
           /\ HA => n.p = st.primary
<1>1. /\ n \in Nodes /\ ~n.term /\ ~Unterminated /\ IsPodOf(n.p)
      /\ HA => n.p = st.primary
  BY DEF AdmissionProcess, Live, IsPrimary
<1>2. n.p \in Procs /\ st.nodes[n.p[1]] = n
  BY <1>1, EntriesInv
<1>3. ASSUME HA PROVE AccessOnly(n.p)
  <2>1. \A q \in Procs : Serves(proc[q]) => q = st.primary
    BY <1>1, <1>3, NoStrays
  <2> QED
    BY <1>1, <1>3, <2>1 DEF AccessOnly
<1>4. ASSUME ~HA, NEW q \in Procs, Opens(proc[q]) PROVE q = n.p
  <2>1. Up(q)
    BY <1>4, WriterFacts DEF Silent, Up
  <2>2. q[1] = n.p[1] /\ q = <<q[1], q[2]>> /\ n.p = <<n.p[1], n.p[2]>>
    <3>1. Ordinals = {0}
      BY <1>4, StInv DEF HA, Ordinals, Scene
    <3> QED
      BY <1>2, <3>1, ProcsAreNamed, StInv
  <2>3. CASE IsPodOf(q)
    BY <1>1, <2>2, <2>3 DEF IsPodOf
  <2>4. CASE ~IsPodOf(q)
    <3>1. Knows(st, q)
      BY <2>1, <2>4 DEF OperatorInv, Tracked
    <3>2. PICK e \in Entries(st) : e.p = q
      BY <3>1 DEF Knows
    <3>3. ~e.term
      BY <2>1, <3>2, EntriesInv DEF Up
    <3>4. e \in Nodes
      BY <1>1, <3>2, <3>3, EntriesInv DEF Unterminated
    <3> QED
      BY <1>2, <2>2, <3>2, <3>4, EntriesInv
  <2> QED
    BY <2>3, <2>4
<1> QED
  BY <1>1, <1>2, <1>3, <1>4 DEF AccessOnly

LEMMA AdmittedLevel ==
    ASSUME OperatorInv, WriterInv, NEW n \in AdmissionProcess
    PROVE  LET s == Admitted(n.p)
           IN  Sized(s) /\ (HA => Level(s) /\ TrustKept(s))
<1> DEFINE p == n.p
           t == AdmittedNode(st, n.p)
           applied == IF st.initialized THEN t.applied ELSE st.accepted
           u == [t EXCEPT !.initialized = TRUE, !.primary = p]
           s == [u EXCEPT !.public = TRUE, !.applied = applied]
           a == ApplyOperationalPhase(s)
<1>1. n \in Nodes /\ p \in Procs /\ ~Unterminated /\ (HA => p = st.primary)
  BY AdmissionFacts
<1>2. Admitted(n.p) = a
  BY DEF Admitted
<1>3. Mild(t) /\ t \in Status /\ t.prev = st.prev /\ t.rollout = st.rollout /\ t.applied = st.applied
  BY <1>1, AdmittedNodeMild, AdmittedNodeFacts DEF SameOperations
<1> HIDE DEF t
<1>4. applied \in Configuration /\ (st.initialized => applied = st.applied)
  BY <1>3, StInv
<1> HIDE DEF applied
<1>5. /\ u \in Status /\ u.initialized /\ u.primary = p /\ u.nodes = t.nodes /\ u.prev = t.prev
      /\ u.failover = t.failover /\ u.rollout = t.rollout /\ u.accepted = t.accepted
      /\ u.reported = t.reported
  BY <1>1, <1>3 DEF Status
<1> HIDE DEF u
<1>6. /\ s \in Status /\ s.initialized /\ s.primary = p /\ s.nodes = t.nodes /\ s.prev = t.prev
      /\ s.failover = t.failover /\ s.rollout = t.rollout /\ s.accepted = t.accepted
      /\ s.applied = applied /\ s.reported = t.reported
  BY <1>4, <1>5 DEF Status
<1> HIDE DEF s
<1>7. /\ a.primary = p /\ a.failover = t.failover /\ a.initialized /\ a.nodes = t.nodes
      /\ a.accepted = t.accepted /\ a.applied = applied /\ a.rollout = t.rollout /\ ~a.empty
      /\ a.reported => t.reported \/ (t.rollout = Nil /\ \A q \in t.prev : q.term)
  BY <1>6 DEF ApplyOperationalPhase, Status
<1> HIDE DEF a, p
<1>8. a.reported => st.reported \/ a.rollout = Nil
  BY <1>3, <1>7 DEF Mild
<1>9. st.rollout # Nil => st.initialized
  BY StInv DEF Orderly
<1>10. Shrinks(a) => Shrinks(st)
  BY <1>3, <1>4, <1>7, <1>9 DEF Shrinks, Mild
<1>11. Sized(a)
  BY <1>3, <1>7, <1>8, <1>10, WriterFacts DEF Sized
<1>12. TrustKept(t) /\ \A q \in Procs : Old(st, q) => Old(t, q)
  BY <1>3, SeenAlikeFacts DEF Mild
<1>13. TrustKept(a) /\ \A q \in Procs : Old(st, q) => Old(a, q)
  BY <1>7, <1>12 DEF TrustKept, Trusted, Old
<1>14. HA => Level(a)
  BY <1>1, <1>3, <1>7, <1>8, <1>10, <1>13 DEF Level, Mild
<1> QED
  BY <1>2, <1>11, <1>13, <1>14

LEMMA AdmitsAppWriter == ASSUME OperatorInv, WriterInv, AdmitsApp PROVE WriterNext
<1>1. PICK n \in AdmissionProcess :
        \/ Saved(Admitted(n.p))
        \/ Commanded(n.p, AppAccess(n.p, TRUE), Admitted(n.p))
        \/ Commanded(n.p, AppAccess(n.p, TRUE), Pending)
        \/ BrokenOff(n.p, AppAccess(n.p, TRUE))
  BY DEF AdmitsApp
<1>2. AfterFailover
  BY DEF AdmitsApp, AfterReplicaAdmission, AfterMetadata, AfterTopology, AfterRollout, AfterRotation
<1>3. st.failover = Nil \/ st.failover.stage = "reconfiguring"
  BY <1>2, BehindFailover
<1>4. n.p \in Procs /\ AccessOnly(n.p) /\ (HA => n.p = st.primary)
  BY AdmissionFacts
<1>5. Sized(Admitted(n.p)) /\ (HA => Level(Admitted(n.p)) /\ TrustKept(Admitted(n.p)))
  BY AdmittedLevel
<1>6. Sized(Pending) /\ Level(Pending) /\ TrustKept(Pending)
  BY PendingMild, MildFacts
<1>7. CASE Saved(Admitted(n.p))
  BY <1>5, <1>7, SavedWriter DEF Saved, machine
<1> QED
  BY <1>1, <1>3, <1>4, <1>5, <1>6, <1>7, AccessWriter

-----------------------------------------------------------------------------
(* Every step, and the initial states                                       *)

LEMMA NextWriter == ASSUME OperatorInv, WriterInv, Next PROVE WriterNext
<1>1. CASE Acts
  <2>1. ASSUME ReconcileCredentials \/ RemovesAnnotation PROVE WriterNext
    <3>1. UNCHANGED <<proc, pod, st>> /\ NextPass
      BY <2>1 DEF ReconcileCredentials, RemovesAnnotation, machine
    <3> QED
      BY <3>1, ResourceWriter
  <2> QED
    BY <1>1, <2>1, AcceptedConfigurationWriter, WorkloadWriter, AcceptsManualFencingWriter,
       ProcessRecoveryWriter, FailoverWriter, RotationWriter, RolloutWriter,
       AssignsInitialPrimaryWriter, FollowsPrimaryWriter, EndOfPassWriter, AdmitsReplicaWriter,
       AdmitsAppWriter, DeletionWriter DEF Acts
<1> QED
  BY <1>1, ObservesWriter, OutsideWriter DEF Next

\* A fresh instance has no process; one that has served has its first primary.
LEMMA InitWriter == Init => WriterInv
<1> SUFFICES ASSUME Init PROVE WriterInv
  OBVIOUS
<1>1. scene \in Scene /\ OperatorInv
  BY InitProcesses, InitInv
<1> DEFINE Served(p) == [Blank EXCEPT !.run = "up", !.role = Serving0(p[1]).role,
                                      !.source = Serving0(p[1]).up, !.hist = 1, !.app = TRUE,
                                      !.clients = {1}, !.pw = 1, !.size = InitialSize]
<1>2. proc = [p \in Procs |-> IF scene.serving /\ p[2] = 1 THEN Served(p) ELSE Blank]
  BY Zenon DEF Init
<1>3. ASSUME NEW p \in Procs
      PROVE  LET r == proc[p]
             IN  IF scene.serving /\ p[2] = 1
                 THEN r.run = "up" /\ r.late = {} /\ (r.role = "primary" <=> p[1] = 0)
                 ELSE Quenched(r)
  <2>1. Quenched(Blank)
    BY DEF Quenched, Blank
  <2> DEFINE role == Serving0(p[1]).role
  <2>2. p[1] \in Ordinals
    BY <1>1, ProcsAreNamed
  <2>3. role = IF p[1] = 0 THEN "primary" ELSE "replica"
    BY DEF Serving0, NodeOf
  <2> HIDE DEF role
  <2>4. Served(p).run = "up" /\ Served(p).late = {} /\ Served(p).role = role
    BY DEF Blank, role
  <2> HIDE DEF Served
  <2> QED
    BY <1>2, <2>1, <2>3, <2>4
<1>4. \A p \in Procs : Leading(proc[p]) => scene.serving /\ p = <<0, 1>>
  BY <1>1, <1>3, QuenchedFacts, ProcsAreNamed DEF Leading, Awaits
<1>5. \A p \in Procs : ~Awaits(proc[p], "promote")
  BY <1>3, QuenchedFacts DEF Awaits
<1>6. Silent(proc)
  BY <1>3, QuenchedFacts DEF Silent
<1>7. /\ st.failover = Nil /\ st.rollout = Nil
      /\ scene.serving => st.primary = <<0, 1>>
  BY DEF Init
<1>8. OnlyOne(proc)
  <2>1. CASE HA
    BY <1>4, <2>1 DEF OnlyOne, Serves
  <2>2. CASE ~HA
    <3>1. Ordinals = {0}
      BY <1>1, <2>2 DEF HA, Ordinals, Scene
    <3>2. \A p \in Procs : Opens(proc[p]) => p = <<0, 1>>
      BY <1>1, <1>3, <3>1, QuenchedFacts, ProcsAreNamed
    <3> QED
      BY <2>2, <3>2 DEF OnlyOne
  <2> QED
    BY <2>1, <2>2
<1>9. Strays(proc, st) /\ Promised(proc, pod, st) /\ Handed(proc, st) /\ Sized(st)
  BY <1>4, <1>5, <1>7 DEF Strays, Serves, Promised, Handed, Sized
<1>10. Trusts(proc, pod, st, Ahead)
  BY <1>4, <1>7 DEF Trusts, Misread, Excused
<1> QED
  BY <1>6, <1>8, <1>9, <1>10 DEF WriterInv, WriterOK

LEMMA WriterNextInv == OperatorInv /\ WriterInv /\ [Next]_vars => WriterInv'
<1> SUFFICES ASSUME OperatorInv, WriterInv, [Next]_vars PROVE WriterInv'
  OBVIOUS
<1>1. SceneKept
  BY NextStep, StutteringStep DEF Steady
<1>2. ASSUME UNCHANGED vars PROVE WriterNext
  <2>1. UNCHANGED <<proc, pod, st, op>>
    BY <1>2 DEF vars
  <2> QED
    BY <2>1, UnchangedProcs, UnchangedPods, SameAhead, StillWriter
<1> QED
  BY <1>1, <1>2, NextWriter, WriterGoesOn

-----------------------------------------------------------------------------
(* The theorem                                                              *)

\* Whatever fails, is lost or comes late, at most one process executes the
\* application's writes: a failover or a switch fences the source, or has the
\* proof that it stopped, before it promotes (reconcileFailoverFencing,
\* reconcileFailoverPromoting); a fresh cache gets its primary when no earlier
\* process is left open (reconcileInitialPrimary); and admitApp and
\* reconcileReplicaAdmission open only what cannot meet an open primary.
THEOREM OneWriterHolds == Spec => []OneWriter
<1>1. WriterInv => OneWriter
  <2> SUFFICES ASSUME WriterInv, NEW p \in Procs, NEW q \in Procs, Writable(p), Writable(q)
               PROVE  p = q
    BY DEF OneWriter
  <2>1. Serves(proc[p]) /\ Serves(proc[q])
    BY DEF Writable, Serves, Opens, Leading
  <2> QED
    BY <2>1, WriterFacts DEF OnlyOne, Serves
<1> QED
  BY <1>1, InitInv, NextInv, InitWriter, WriterNextInv, PTL DEF Spec

-----------------------------------------------------------------------------
(* What a change of the password or of the size has reached.  A command     *)
(* whose answer was lost may yet let somebody in, a process that no entry   *)
(* knows is not asked, and an earlier process of an ordinal may run on: the *)
(* inductive invariant speaks of all of them.                               *)

\* Commands that a process of the password v may be given, and those that let
\* nobody in.
Right(c, v) == c[1] \in {"on", "password"} => c[2] = v
Mute(c) == c[1] \notin {"on", "password"}

\* Nobody is in with another password than v ...
Held(r, v) == r.clients \subseteq {v} /\ (r.app => r.pw = v)

\* ... and no late command lets anybody in with another one.
Fine(r, v) == Held(r, v) /\ \A c \in r.late : Right(c, v)

\* A process that never let anybody in.
Unopened(r) == ~Lively(r) /\ \A c \in r.late : Mute(c)

Running(r) == r.run \in {"starting", "up"}

\* The rotation has been through every process.
RotationOver(s) == s.rotation = Nil \/ s.rotation.stage = "cleaning"

Credentialed(ps, s) ==
    \A p \in Procs :
        /\ RotationOver(s) \/ p \in s.rotation.confirmed => Fine(ps[p], s.accepted.pw)
        /\ ~Knows(s, p) => Unopened(ps[p])
        /\ ps[p].run # "up" => Unopened(ps[p])

\* Between two resizes every process has the size; an earlier one of its ordinal
\* may not, as long as nothing is confirmed.
Fitted(ps, s) ==
    /\ s.reported => s.rotation = Nil /\ s.rollout = Nil
    /\ s.rollout = Nil => \A p \in Procs : Running(ps[p]) =>
          ps[p].size = s.accepted.size \/ (Old(s, p) /\ ~s.reported)

ChangeOK(ps, s) == Credentialed(ps, s) /\ Fitted(ps, s)

ChangeInv == ChangeOK(proc, st)
ChangeNext == ChangeOK(proc', st')

-----------------------------------------------------------------------------
(* Commands and the password                                                *)

AllRight(cmds, v) == \A k \in 1 .. Len(cmds) : Right(cmds[k], v)
AllMute(cmds) == \A k \in 1 .. Len(cmds) : Mute(cmds[k])

LEMMA MuteIsRight == ASSUME NEW cmds, AllMute(cmds), NEW v PROVE AllRight(cmds, v)
  BY DEF AllMute, AllRight, Mute, Right

LEMMA UnopenedIsFine == ASSUME NEW r \in Process, Unopened(r), NEW v PROVE Fine(r, v)
  BY DEF Unopened, Fine, Held, Lively, Mute, Right

LEMMA DoHeld ==
    ASSUME NEW r \in Process, NEW c \in Commands, NEW n, NEW v, Held(r, v), Right(c, v)
    PROVE  Held(Do(r, c, n), v)
<1>1. c[1] \in {"on", "off", "password", "follow", "kill", "promote"}
  BY DEF Commands
<1>2. CASE c[1] \in {"on", "off", "password"}
  BY <1>2 DEF Do, Process, Held, Right
<1>3. CASE c[1] \in {"follow", "kill"}
  BY <1>3 DEF Do, Process, Held
<1>4. CASE c[1] = "promote"
  <2>1. CASE r.role = "primary"
    <3>1. Do(r, c, n) = r
      BY <1>4, <2>1 DEF Do
    <3> QED
      BY <3>1
  <2>2. CASE r.role = "replica"
    <3> DEFINE s == [r EXCEPT !.role = "primary", !.source = Nil, !.hist = n]
    <3>1. Do(r, c, n) = s
      BY <1>4, <2>2 DEF Do
    <3>2. s.app = r.app /\ s.clients = r.clients /\ s.pw = r.pw
      BY DEF Process
    <3> HIDE DEF s
    <3> QED
      BY <3>1, <3>2 DEF Held
  <2> QED
    BY <2>1, <2>2 DEF Process
<1> QED
  BY <1>1, <1>2, <1>3, <1>4

LEMMA DoAllHeld ==
    ASSUME NEW r \in Process, NEW cmds \in Seq(Commands), lineage \in Seq(Nat),
           r.hist <= Len(lineage) + 1, NEW v
    PROVE  Held(r, v) /\ AllRight(cmds, v) => Held(DoAll(r, cmds), v)
<1> SUFFICES ASSUME Held(r, v), AllRight(cmds, v) PROVE Held(DoAll(r, cmds), v)
  OBVIOUS
<1> DEFINE n == Len(lineage) + 1
           After(s, k) == IF k > Len(cmds) THEN s ELSE Do(s, cmds[k], n)
           Good(s) == s \in Process /\ s.hist <= n /\ Held(s, v)
<1>1. ASSUME NEW s, Good(s), NEW k \in 1..3 PROVE Good(After(s, k))
  <2>1. n \in Nat
    OBVIOUS
  <2>2. CASE k > Len(cmds)
    BY <1>1, <2>2
  <2>3. CASE ~(k > Len(cmds))
    <3> DEFINE c == cmds[k]
    <3>1. c \in Commands /\ Right(c, v)
      BY <2>3 DEF AllRight
    <3>2. After(s, k) = Do(s, c, n)
      BY <2>3
    <3> HIDE DEF n, c
    <3> QED
      BY <1>1, <2>1, <3>1, <3>2, DoFacts, DoHeld
  <2> QED
    BY <2>2, <2>3
<1>2. Good(r)
  OBVIOUS
<1>3. DoAll(r, cmds) = After(After(After(r, 1), 2), 3)
  BY DEF DoAll
<1> HIDE DEF After, Good
<1>4. Good(After(After(After(r, 1), 2), 3))
  BY <1>1, <1>2
<1> QED
  BY <1>3, <1>4 DEF Good

LEMMA MuteNoneOn == ASSUME NEW cmds, AllMute(cmds) PROVE NoneOf("on", cmds)
  BY DEF AllMute, Mute, NoneOf

\* What a session of the present password makes of a process.
LEMMA SessionPassword ==
    ASSUME OperatorInv, NEW p \in Procs, NEW cmds \in Seq(Commands), NEW v,
           Session(p, cmds) \/ Interrupted(p, cmds), AllRight(cmds, v)
    PROVE  \E r \in Process :
              /\ proc' = [proc EXCEPT ![p] = r] /\ Same(r, proc[p])
              /\ Held(proc[p], v) => Fine(r, v)
              /\ AllMute(cmds) /\ ~Lively(proc[p]) => Unopened(r)
<1> DEFINE q == proc[p]
           t == TakeControl(q)
<1>1. /\ q \in Process /\ q.hist <= Len(lineage) /\ q.hist \in Nat /\ Len(lineage) \in Nat
      /\ lineage \in Seq(Nat)
  BY ProcFacts DEF OperatorInv, Types, ProcessTypeOK
<1> HIDE DEF q
<1>2. /\ t \in Process /\ t.late = {} /\ t.app = q.app /\ t.pw = q.pw /\ t.hist = q.hist
      /\ t.clients = q.clients /\ Same(t, q)
  BY <1>1, TakenControl, TakeControlFacts DEF TakeControl, Process, Same
<1> HIDE DEF t
<1>3. t.hist <= Len(lineage) + 1
  BY <1>1, <1>2
<1>4. (Held(q, v) => Held(t, v)) /\ (Lively(t) => Lively(q))
  BY <1>2 DEF Held, Lively
<1>6. CASE Session(p, cmds)
  <2> DEFINE r == DoAll(t, cmds)
  <2>1. r \in Process /\ Same(r, t)
    BY <1>1, <1>2, <1>3, DoAllFacts
  <2>2. r.late = t.late /\ (NoneOf("on", cmds) /\ Lively(r) => Lively(t))
    BY <1>1, <1>2, <1>3, DoAllCalm
  <2>3. Held(t, v) => Held(r, v)
    BY <1>1, <1>2, <1>3, DoAllHeld
  <2>4. proc' = [proc EXCEPT ![p] = r]
    BY <1>6 DEF Session, Becomes, t, q
  <2> HIDE DEF r
  <2>5. r.late = {}
    BY <1>2, <2>2
  <2>6. Same(r, q)
    BY <1>2, <2>1 DEF Same
  <2>7. (Held(q, v) => Fine(r, v)) /\ (AllMute(cmds) /\ ~Lively(q) => Unopened(r))
    BY <1>4, <2>2, <2>3, <2>5, MuteNoneOn DEF Fine, Unopened
  <2> QED
    BY <2>1, <2>4, <2>6, <2>7 DEF q
<1>7. CASE Interrupted(p, cmds)
  <2>1. PICK k \in 0 .. Len(cmds) :
            Becomes(p, [DoAll(t, SubSeq(cmds, 1, k)) EXCEPT
                            !.late = IF k < Len(cmds) THEN {cmds[k + 1]} ELSE {}])
    BY <1>7, Zenon DEF Interrupted, t, q
  <2> DEFINE part == SubSeq(cmds, 1, k)
             s == DoAll(t, part)
             late == IF k < Len(cmds) THEN {cmds[k + 1]} ELSE {}
             r == [s EXCEPT !.late = late]
  <2>2. part \in Seq(Commands) /\ Len(part) = k /\ \A i \in 1 .. k : part[i] = cmds[i]
    OBVIOUS
  <2>3. late \in SUBSET Commands /\ \A c \in late : \E i \in 1 .. Len(cmds) : c = cmds[i]
    <3>1. CASE k < Len(cmds)
      <4>1. k + 1 \in 1 .. Len(cmds) /\ late = {cmds[k + 1]}
        BY <3>1
      <4> QED
        BY <4>1
    <3>2. CASE ~(k < Len(cmds))
      BY <3>2
    <3> QED
      BY <3>1, <3>2
  <2>4. proc' = [proc EXCEPT ![p] = r]
    BY <2>1 DEF Becomes
  <2> HIDE DEF part, late
  <2>5. AllRight(part, v) /\ (AllMute(cmds) => AllMute(part))
    BY <2>2 DEF AllRight, AllMute
  <2>6. s \in Process /\ Same(s, t)
    BY <1>1, <1>2, <1>3, <2>2, DoAllFacts
  <2>7. NoneOf("on", part) /\ Lively(s) => Lively(t)
    BY <1>1, <1>2, <1>3, <2>2, DoAllCalm
  <2>8. Held(t, v) => Held(s, v)
    BY <1>1, <1>2, <1>3, <2>2, <2>5, DoAllHeld
  <2> HIDE DEF s
  <2>9. /\ r \in Process /\ Same(r, s) /\ r.late = late
        /\ r.app = s.app /\ r.clients = s.clients /\ r.pw = s.pw
    BY <2>3, <2>6 DEF Process, Same
  <2> HIDE DEF r
  <2>10. (\A c \in r.late : Right(c, v)) /\ (AllMute(cmds) => \A c \in r.late : Mute(c))
    BY <2>3, <2>9 DEF AllRight, AllMute
  <2>11. (Held(s, v) => Held(r, v)) /\ (Lively(r) => Lively(s))
    BY <2>9 DEF Held, Lively
  <2>12. Same(r, q)
    BY <1>2, <2>6, <2>9 DEF Same
  <2>13. (Held(q, v) => Fine(r, v)) /\ (AllMute(cmds) /\ ~Lively(q) => Unopened(r))
    BY <1>4, <2>5, <2>7, <2>8, <2>10, <2>11, MuteNoneOn DEF Fine, Unopened
  <2> QED
    BY <2>4, <2>9, <2>12, <2>13 DEF q
<1> QED
  BY <1>6, <1>7

\* The commands of each session.
LEMMA CommandPasswords ==
    ASSUME NEW p
    PROVE  /\ AllRight(AppAccess(p, TRUE), st.accepted.pw) /\ AllMute(AppAccess(p, FALSE))
           /\ AllRight(RotateCommands, st.accepted.pw)
           /\ AllMute(PromoteCommands(p)) /\ AllMute(FollowCommands(p))
<1>1. AllRight(AppAccess(p, TRUE), st.accepted.pw)
  BY DEF AllRight, Right, AppAccess, SetAppUser, KillAppClients
<1>2. AllMute(AppAccess(p, FALSE))
  BY DEF AllMute, Mute, AppAccess, SetAppUser, KillAppClients
<1>3. AllRight(RotateCommands, st.accepted.pw)
  BY DEF AllRight, Right, RotateCommands, RotateAppPassword, KillAppClients
<1>4. AllMute(PromoteCommands(p)) /\ AllMute(FollowCommands(p))
  BY DEF AllMute, Mute, PromoteCommands, Promote, FollowCommands, Follow
<1> QED
  BY <1>1, <1>2, <1>3, <1>4

\* A rotation that was carried out leaves nobody in with another password, whoever
\* was in before.
LEMMA RotatedFacts ==
    ASSUME OperatorInv, NEW p \in Procs
    PROVE  Fine(DoAll(TakeControl(proc[p]), RotateCommands), st.accepted.pw)
<1> DEFINE q == proc[p]
           t == TakeControl(q)
           v == st.accepted.pw
           n == Len(lineage) + 1
           new == RotateAppPassword(v)
           kill == KillAppClients
<1>1. q \in Process
  BY ProcFacts
<1>2. t \in Process /\ t.late = {}
  <2> HIDE DEF q
  <2> QED
    BY <1>1, TakenControl
<1>3. new[1] = "password" /\ new[2] = v /\ kill[1] = "kill" /\ RotateCommands = <<new, kill>>
      /\ v \in Nat
  BY StInv DEF RotateAppPassword, KillAppClients, RotateCommands
<1> HIDE DEF q, t, v, n, new, kill
<1>4. DoAll(t, <<new, kill>>) = Do(Do(t, new, n), kill, n)
  BY DEF DoAll, n
<1> DEFINE a == Do(t, new, n)
<1> DEFINE clients == IF t.app THEN t.clients \cup {v} ELSE t.clients
<1>5. a = [t EXCEPT !.pw = v, !.clients = clients]
  BY <1>3 DEF Do
<1>6. a \in Process /\ a.late = {} /\ a.pw = v
  <2>1. clients \in SUBSET Nat
    BY <1>2, <1>3 DEF Process
  <2> HIDE DEF clients
  <2> QED
    BY <1>2, <1>3, <1>5, <2>1 DEF Process
<1> HIDE DEF a
<1> DEFINE left == IF a.app THEN {v} ELSE {}
           b == [a EXCEPT !.clients = left]
<1>7. Do(a, kill, n) = b
  BY <1>3, <1>6 DEF Do
<1>8. b.clients = left /\ b.app = a.app /\ b.pw = v /\ b.late = {} /\ left \subseteq {v}
  BY <1>6 DEF Process
<1> HIDE DEF b
<1>9. Fine(Do(a, kill, n), v)
  BY <1>7, <1>8 DEF Fine, Held
<1> QED
  BY <1>3, <1>4, <1>9 DEF a, q, t, v

-----------------------------------------------------------------------------
(* Steps that go on with the present password and the present size          *)

\* r is the process p after the step, q before it.
Loyal(r, q) ==
    /\ Fine(q, st.accepted.pw) => Fine(r, st.accepted.pw)
    /\ r.run # "up" => Unopened(r)

Grown(r, q) == Running(r) => r.size = IF Running(q) THEN q.size ELSE TemplateSize

\* Only a process that has an entry is opened.
Onward(r, q, p) ==
    /\ Loyal(r, q) /\ Grown(r, q)
    /\ Unopened(q) => Unopened(r) \/ (q.run = "up" /\ Knows(st, p))

ProcsOnward == \A p \in Procs : Onward(proc'[p], proc[p], p)

EntriesStay(s) ==
    \A o \in Ordinals : st.nodes[o] # Nil => s.nodes[o] # Nil /\ st.nodes[o].p[2] <= s.nodes[o].p[2]

\* A status that goes on with the change, and confirms it only when it is through.
Forward(s) ==
    /\ s.accepted = st.accepted /\ (s.rollout = Nil <=> st.rollout = Nil)
    /\ s.reported => st.reported \/ (s.rotation = Nil /\ s.rollout = Nil /\ ~Unterminated)
    /\ EntriesStay(s)

Tame(s) == Forward(s) /\ s.rotation = st.rotation

CarriesOn == ProcsOnward /\ Tame(st')

LEMMA ChangeFacts ==
    ASSUME OperatorInv, ChangeInv, NEW p \in Procs
    PROVE  /\ RotationOver(st) \/ p \in st.rotation.confirmed => Fine(proc[p], st.accepted.pw)
           /\ ~Knows(st, p) => Unopened(proc[p])
           /\ proc[p].run # "up" => Unopened(proc[p])
  BY DEF ChangeInv, ChangeOK, Credentialed

\* What is no longer the current process of its ordinal is not in its Pod.
Retired == \A p \in Procs : Old(st, p) => ~IsPodOf(p)

LEMMA RetiredHolds == OperatorInv => Retired
  BY OldFacts DEF Retired

LEMMA KnownKept ==
    ASSUME OperatorInv, OperatorInv', SceneKept, EntriesStay(st'),
           NEW p \in Procs, Knows(st, p), proc'[p].run = "up"
    PROVE  Knows(st', p)
<1>1. Procs' = Procs /\ Ordinals' = Ordinals
  BY KeptSets
<1>2. \A q \in Procs : st'.nodes[q[1]] # Nil /\ q[2] < st'.nodes[q[1]].p[2] => pod'[q[1]].inc # q[2]
  <2>1. Retired'
    BY RetiredHolds, PTL
  <2> QED
    BY <1>1, <2>1 DEF Retired, Old, IsPodOf
<1>3. pod'[p[1]].inc = p[2] \/ Knows(st', p)
  <2>1. Tracked'
    BY DEF OperatorInv
  <2>2. \A q \in Procs : proc'[q].run = "up" => pod'[q[1]].inc = q[2] \/ Knows(st, q)'
    BY <1>1, <2>1 DEF Tracked, Up, IsPodOf
  <2>3. Knows(st, p)' => Knows(st', p)
    BY <1>1 DEF Knows, Entries
  <2> QED
    BY <2>2, <2>3
<1>4. /\ p[1] \in Ordinals /\ p[2] \in Nat /\ p = <<p[1], p[2]>>
      /\ st.nodes[p[1]] # Nil /\ p[2] <= st.nodes[p[1]].p[2] /\ st.nodes[p[1]].p[2] \in Nat
  <2>1. p[1] \in Ordinals /\ p[2] \in 1..scene.incs /\ scene.incs \in Nat /\ p = <<p[1], p[2]>>
    BY ProcsAreNamed, StInv DEF Scene
  <2>2. PICK e \in Entries(st) : e.p = p
    BY DEF Knows
  <2>3. CASE e \in st.prev
    <3>1. st.nodes[p[1]] # Nil /\ p[2] < st.nodes[p[1]].p[2]
      BY <2>2, <2>3, EntriesInv
    <3>2. st.nodes[p[1]].p \in Procs
      BY <2>1, <3>1, EntriesInv
    <3>3. st.nodes[p[1]].p[2] \in 1..scene.incs
      BY <3>2, ProcsAreNamed, StInv
    <3> QED
      BY <2>1, <3>1, <3>3
  <2>4. CASE e \in Nodes
    BY <2>1, <2>2, <2>4, EntriesInv
  <2> QED
    BY <2>2, <2>3, <2>4, EntriesInv
<1>5. ASSUME pod'[p[1]].inc = p[2] PROVE Knows(st', p)
  <2> DEFINE n == st'.nodes[p[1]]
  <2>1. n # Nil /\ st.nodes[p[1]].p[2] <= n.p[2] /\ ~(p[2] < n.p[2])
    BY <1>2, <1>4, <1>5 DEF EntriesStay
  <2>2. n.p \in Procs /\ n.p[1] = p[1]
    <3>1. /\ Entries(st)' = Entries(st')
          /\ \A o \in Ordinals : st'.nodes[o] # Nil => st'.nodes[o] \in Entries(st') /\ st'.nodes[o].p[1] = o
      <4>1. \A o \in Ordinals : st'.nodes[o] # Nil => st'.nodes[o].p[1] = o
        BY <1>1 DEF OperatorInv, StatusOK, Keyed
      <4> QED
        BY <1>1, <4>1 DEF Entries
    <3>2. st'.nodes \in [Ordinals -> NodeStatus \cup {Nil}]
      BY KeptSets DEF OperatorInv, StatusOK, Status
    <3> QED
      BY <1>4, <2>1, <3>1, <3>2 DEF NodeStatus, NodeStatusOf
  <2>3. n.p = <<n.p[1], n.p[2]>> /\ n.p[2] \in Nat
    BY <2>2, ProcsAreNamed, StInv DEF Scene
  <2>4. n.p = p
    BY <1>4, <2>1, <2>2, <2>3
  <2>5. n \in Entries(st')
    BY <1>1, <1>4, <2>1 DEF Entries
  <2> QED
    BY <2>4, <2>5 DEF Knows
<1> QED
  BY <1>3, <1>5

\* An earlier process of an ordinal that has not stopped has an entry that says so.
LEMMA OldRunning ==
    ASSUME OperatorInv, NEW p \in Procs, Old(st, p), Running(proc[p]) PROVE Unterminated
<1>1. ~IsPodOf(p) /\ (Up(p) => Unterminated)
  BY OldFacts
<1>2. proc[p].run # "starting"
  BY <1>1 DEF OperatorInv, Tracked
<1> QED
  BY <1>1, <1>2 DEF Running, Up

LEMMA OldStays ==
    ASSUME OperatorInv, NEW s, EntriesStay(s), NEW p \in Procs, Old(st, p),
           s.nodes[p[1]] # Nil => s.nodes[p[1]].p[2] \in Nat
    PROVE  Old(s, p)
<1>1. p[1] \in Ordinals /\ p[2] \in 1..scene.incs /\ scene.incs \in Nat
  BY ProcsAreNamed, StInv DEF Scene
<1>2. st.nodes[p[1]].p \in Procs
  BY <1>1, EntriesInv DEF Old
<1>3. st.nodes[p[1]].p[2] \in 1..scene.incs
  BY <1>2, ProcsAreNamed, StInv
<1> QED
  BY <1>1, <1>3 DEF Old, EntriesStay

LEMMA EntriesNumbered ==
    ASSUME OperatorInv, OperatorInv', SceneKept, NEW o \in Ordinals, st'.nodes[o] # Nil
    PROVE  st'.nodes[o].p[2] \in Nat
<1>1. st'.nodes \in [Ordinals -> NodeStatus \cup {Nil}]
  BY KeptSets DEF OperatorInv, StatusOK, Status
<1>2. st'.nodes[o].p \in Procs
  BY <1>1 DEF NodeStatus, NodeStatusOf
<1> QED
  BY <1>2, ProcsAreNamed, StInv DEF Scene

LEMMA CredentialsCarriedOn ==
    ASSUME OperatorInv, ChangeInv, OperatorInv', SceneKept, ProcsOnward, EntriesStay(st'),
           \A p \in Procs : RotationOver(st') \/ p \in st'.rotation.confirmed =>
               Fine(proc'[p], st'.accepted.pw)
    PROVE  Credentialed(proc', st')
<1> SUFFICES ASSUME NEW p \in Procs
             PROVE  /\ ~Knows(st', p) => Unopened(proc'[p])
                    /\ proc'[p].run # "up" => Unopened(proc'[p])
  BY DEF Credentialed
<1>1. Onward(proc'[p], proc[p], p)
  BY DEF ProcsOnward
<1>2. proc'[p].run # "up" => Unopened(proc'[p])
  BY <1>1 DEF Onward, Loyal
<1>3. ASSUME ~Knows(st', p) PROVE Unopened(proc'[p])
  <2>1. proc'[p].run = "up" => ~Knows(st, p)
    BY <1>3, KnownKept
  <2> QED
    BY <1>1, <1>2, <2>1, ChangeFacts DEF Onward
<1> QED
  BY <1>2, <1>3

LEMMA SizesCarriedOn ==
    ASSUME OperatorInv, ChangeInv, OperatorInv', SceneKept, ProcsOnward, Forward(st'),
           st'.rollout = Nil, NEW p \in Procs, Running(proc'[p])
    PROVE  proc'[p].size = st'.accepted.size \/ (Old(st', p) /\ ~st'.reported)
<1>1. st.rollout = Nil /\ st'.accepted = st.accepted
  BY DEF Forward
<1>2. proc'[p].size = IF Running(proc[p]) THEN proc[p].size ELSE TemplateSize
  BY DEF ProcsOnward, Onward, Grown
<1>3. TemplateSize = st.accepted.size
  BY <1>1 DEF TemplateSize
<1>4. ASSUME Running(proc[p]), Old(st, p), ~st.reported PROVE Old(st', p) /\ ~st'.reported
  <2>1. p[1] \in Ordinals
    BY ProcsAreNamed, StInv
  <2>2. Old(st', p)
    BY <1>4, <2>1, EntriesNumbered, OldStays DEF Forward
  <2>3. Unterminated
    BY <1>4, OldRunning
  <2> QED
    BY <1>4, <2>2, <2>3 DEF Forward
<1>5. Running(proc[p]) => proc[p].size = st.accepted.size \/ (Old(st, p) /\ ~st.reported)
  BY <1>1 DEF ChangeInv, ChangeOK, Fitted
<1> QED
  BY <1>1, <1>2, <1>3, <1>4, <1>5

\* In such a step what was reached stays so, if what is confirmed is right.
LEMMA CarriedFurther ==
    ASSUME OperatorInv, ChangeInv, OperatorInv', SceneKept, ProcsOnward, Forward(st'),
           \A p \in Procs : RotationOver(st') \/ p \in st'.rotation.confirmed =>
               Fine(proc'[p], st'.accepted.pw),
           st'.reported => st'.rotation = Nil /\ st'.rollout = Nil
    PROVE  ChangeNext
<1>1. Credentialed(proc', st')
  BY CredentialsCarriedOn DEF Forward
<1>2. Fitted(proc', st')
  BY SizesCarriedOn DEF Fitted
<1> QED
  BY <1>1, <1>2 DEF ChangeNext, ChangeOK

LEMMA CarriedOn ==
    ASSUME OperatorInv, ChangeInv, OperatorInv', SceneKept, CarriesOn PROVE ChangeNext
<1>1. \A p \in Procs : RotationOver(st') \/ p \in st'.rotation.confirmed =>
          Fine(proc'[p], st'.accepted.pw)
  BY ChangeFacts DEF CarriesOn, ProcsOnward, Tame, Forward, RotationOver, Onward, Loyal
<1>2. st'.reported => st'.rotation = Nil /\ st'.rollout = Nil
  BY DEF CarriesOn, Tame, Forward, ChangeInv, ChangeOK, Fitted
<1> QED
  BY <1>1, <1>2, CarriedFurther DEF CarriesOn, Tame

LEMMA SelfOnward ==
    ASSUME OperatorInv, ChangeInv, NEW p \in Procs PROVE Onward(proc[p], proc[p], p)
  BY ChangeFacts DEF Onward, Loyal, Grown

LEMMA UnchangedOnward == ASSUME OperatorInv, ChangeInv, UNCHANGED proc PROVE ProcsOnward
  BY SelfOnward DEF ProcsOnward

LEMMA OneOnward ==
    ASSUME OperatorInv, ChangeInv, NEW p, NEW r, proc' = [proc EXCEPT ![p] = r],
           p \in Procs => Onward(r, proc[p], p)
    PROVE  ProcsOnward
<1>1. proc \in [Procs -> Process]
  BY StInv
<1> SUFFICES ASSUME NEW q \in Procs PROVE Onward(proc'[q], proc[q], q)
  BY DEF ProcsOnward
<1>2. CASE q = p
  <2>1. proc'[q] = r
    BY <1>1, <1>2
  <2> QED
    BY <1>2, <2>1
<1>3. CASE q # p
  <2>1. proc'[q] = proc[q]
    BY <1>1, <1>3
  <2> QED
    BY <2>1, SelfOnward
<1> QED
  BY <1>2, <1>3

\* A process that differs in nothing that matters here.
LEMMA AlikeOnward ==
    ASSUME OperatorInv, ChangeInv, NEW p \in Procs, NEW r,
           r.app = proc[p].app, r.clients = proc[p].clients, r.late = proc[p].late,
           r.pw = proc[p].pw, r.run = proc[p].run, r.size = proc[p].size
    PROVE  Onward(r, proc[p], p)
<1> DEFINE q == proc[p]
<1>1. Onward(q, q, p)
  BY SelfOnward
<1> HIDE DEF q
<1>2. /\ \A v : Fine(r, v) <=> Fine(q, v)
      /\ Unopened(r) <=> Unopened(q)
      /\ Running(r) <=> Running(q)
  BY DEF Fine, Held, Unopened, Lively, Running, q
<1> QED
  BY <1>1, <1>2 DEF Onward, Loyal, Grown, q

\* A process that has stopped.
LEMMA QuenchedOnward ==
    ASSUME NEW p, NEW q, NEW r, Quenched(r), ~Running(r) PROVE Onward(r, q, p)
  BY DEF Quenched, Unopened, Lively, Fine, Held, Onward, Loyal, Grown

LEMMA LateCommandOnward ==
    ASSUME OperatorInv, ChangeInv, NEW p \in Procs, LateCommand(p) PROVE ProcsOnward
<1>1. PICK c \in proc[p].late :
          Becomes(p, [Do(proc[p], c, Len(lineage) + 1) EXCEPT !.late = @ \ {c}])
  BY Zenon DEF LateCommand
<1> DEFINE q == proc[p]
           n == Len(lineage) + 1
           s == Do(q, c, n)
           late == s.late \ {c}
           r == [s EXCEPT !.late = late]
<1>2. /\ q \in Process /\ q.hist <= Len(lineage) /\ q.hist \in Nat /\ Len(lineage) \in Nat
      /\ q.run = "up" /\ c \in Commands /\ c \in q.late
  BY <1>1, ProcFacts DEF LateCommand, Up, Process
<1>3. proc' = [proc EXCEPT ![p] = r]
  BY <1>1 DEF Becomes
<1>4. s \in Process /\ Same(s, q)
  BY <1>2, DoFacts
<1>5. s.late = q.late /\ (c[1] # "on" /\ Lively(s) => Lively(q))
  BY <1>2, DoCalm
<1>6. ASSUME NEW v, Fine(q, v) PROVE Held(s, v)
  BY <1>2, <1>6, DoHeld DEF Fine
<1> HIDE DEF q, s, n
<1>7. /\ r.run = s.run /\ r.app = s.app /\ r.clients = s.clients /\ r.pw = s.pw
      /\ r.size = s.size /\ r.late = q.late \ {c}
  BY <1>4, <1>5 DEF Process
<1> HIDE DEF r
<1>8. \A v : Fine(q, v) => Fine(r, v)
  BY <1>6, <1>7 DEF Fine, Held
<1>9. Unopened(q) => Unopened(r)
  <2> SUFFICES ASSUME Unopened(q) PROVE Unopened(r)
    OBVIOUS
  <2>1. c[1] # "on" /\ ~Lively(q)
    BY <1>2 DEF Unopened, Mute
  <2>2. ~Lively(s)
    BY <1>5, <2>1
  <2> QED
    BY <1>7, <2>2 DEF Unopened, Lively
<1>10. Onward(r, q, p)
  BY <1>2, <1>4, <1>7, <1>8, <1>9 DEF Onward, Loyal, Grown, Running, Same
<1> QED
  BY <1>3, <1>10, OneOnward DEF q

LEMMA KubeletStartsOnward ==
    ASSUME OperatorInv, ChangeInv, NEW o \in Ordinals, KubeletStarts(o, cr.acl) PROVE ProcsOnward
<1> DEFINE p == CurrentProc(o)
           role == IF HA THEN "replica" ELSE "primary"
           hist == IF HA THEN 0 ELSE Len(lineage) + 1
           acl == cr.acl
<1>1. /\ HasPod(o) /\ proc[p].run = "starting"
      /\ proc' = [proc EXCEPT ![p].run = "up", ![p].pw = acl, ![p].role = role, ![p].hist = hist]
  BY Zenon DEF KubeletStarts
<1>2. p \in Procs /\ proc \in [Procs -> Process]
  BY <1>1, LaterProcess, StInv
<1> HIDE DEF role, hist, acl, p
<1>4. /\ \A x \in Procs : x # p => proc'[x] = proc[x]
      /\ proc'[p].run = "up" /\ proc'[p].app = proc[p].app /\ proc'[p].size = proc[p].size
      /\ proc'[p].clients = proc[p].clients /\ proc'[p].late = proc[p].late
  BY <1>1, <1>2 DEF Process
<1>5. Unopened(proc[p])
  BY <1>1, <1>2, ChangeFacts
<1>6. Unopened(proc'[p])
  BY <1>4, <1>5 DEF Unopened, Lively
<1>7. \A v : Fine(proc'[p], v)
  BY <1>6 DEF Unopened, Fine, Held, Lively, Mute, Right
<1>8. Onward(proc'[p], proc[p], p)
  BY <1>1, <1>4, <1>6, <1>7 DEF Onward, Loyal, Grown, Running
<1> QED
  BY <1>4, <1>8, SelfOnward DEF ProcsOnward

LEMMA KubeletStopsOnward ==
    ASSUME OperatorInv, ChangeInv, NEW o \in Ordinals, KubeletStops(o) PROVE ProcsOnward
<1> DEFINE p == CurrentProc(o)
<1>1. proc' = [proc EXCEPT ![p] = Down(proc[p])]
  BY DEF KubeletStops
<1> HIDE DEF p
<1>2. Quenched(Down(proc[p])) /\ ~Running(Down(proc[p]))
  BY DownQuenched DEF Running
<1> QED
  BY <1>1, <1>2, QuenchedOnward, OneOnward

LEMMA SynchronizeOnward ==
    ASSUME OperatorInv, ChangeInv, NEW p \in Procs, Synchronize(p) PROVE ProcsOnward
<1>1. PICK h : proc' = [proc EXCEPT ![p].hist = h]
  BY Zenon DEF Synchronize
<1> DEFINE q == proc[p]
           r == [q EXCEPT !.hist = h]
<1>2. proc' = [proc EXCEPT ![p] = r]
  BY <1>1
<1>3. q \in Process
  BY ProcFacts
<1> HIDE DEF q
<1>4. /\ r.run = q.run /\ r.app = q.app /\ r.clients = q.clients /\ r.late = q.late
      /\ r.size = q.size /\ r.pw = q.pw
  BY <1>3 DEF Process
<1> HIDE DEF r
<1>5. Onward(r, proc[p], p)
  BY <1>4, AlikeOnward DEF q
<1> QED
  BY <1>2, <1>5, OneOnward

LEMMA TouchedOnward ==
    ASSUME OperatorInv, ChangeInv, NEW p \in Procs, NEW r, Touched(r, proc[p]),
           proc' = [proc EXCEPT ![p] = r]
    PROVE  ProcsOnward
<1> DEFINE q == proc[p]
<1>1. q \in Process
  BY ProcFacts
<1>2. Touched(r, q)
  OBVIOUS
<1> HIDE DEF q
<1>3. /\ r.run = q.run /\ r.app = q.app /\ r.clients = q.clients /\ r.late = q.late
      /\ r.size = q.size /\ r.pw = q.pw
  BY <1>1, <1>2 DEF Touched, Process
<1>4. Onward(r, proc[p], p)
  BY <1>3, AlikeOnward DEF q
<1> QED
  BY <1>4, OneOnward

LEMMA TouchingOnward ==
    ASSUME OperatorInv, ChangeInv, NEW p \in Procs,
           \/ LinkReturns(p) \/ Resume(p) \/ Isolate(p) \/ Cut(p) \/ Hang(p)
           \/ Busy(p) \/ Unplaced(p)
    PROVE  ProcsOnward
<1>1. ASSUME NEW link \in {"ok", "cut", "lost"} PROVE Touched([proc[p] EXCEPT !.link = link], proc[p])
  BY DEF Touched
<1>2. ASSUME NEW state \in {"ok", "hung", "busy"} PROVE Touched([proc[p] EXCEPT !.state = state], proc[p])
  BY DEF Touched
<1>3. /\ "ok" \in {"ok", "cut", "lost"} /\ "lost" \in {"ok", "cut", "lost"}
      /\ "cut" \in {"ok", "cut", "lost"} /\ "ok" \in {"ok", "hung", "busy"}
      /\ "hung" \in {"ok", "hung", "busy"} /\ "busy" \in {"ok", "hung", "busy"}
  OBVIOUS
<1>4. \E r : Touched(r, proc[p]) /\ proc' = [proc EXCEPT ![p] = r]
  BY <1>1, <1>2, <1>3, Zenon DEF LinkReturns, Resume, Isolate, Cut, Hang, Busy, Unplaced, Changes,
                             Fault
<1> QED
  BY <1>4, TouchedOnward

LEMMA StoppingOnward ==
    ASSUME OperatorInv, ChangeInv, NEW p \in Procs, Crash(p) \/ PowerOff(p) \/ DeleteNode(p)
    PROVE  ProcsOnward
<1>1. \/ proc' = [proc EXCEPT ![p] = Down(proc[p])]
      \/ proc' = [proc EXCEPT ![p] = [Down(proc[p]) EXCEPT !.link = "deleted"]]
  BY Zenon DEF Crash, PowerOff, DeleteNode, Changes, Fault
<1>2. PICK r : Quenched(r) /\ r.run = "down" /\ proc' = [proc EXCEPT ![p] = r]
  BY <1>1, DownQuenched, Zenon
<1>3. ~Running(r)
  BY <1>2 DEF Running
<1> QED
  BY <1>2, <1>3, QuenchedOnward, OneOnward

LEMMA RemovePodOnward ==
    ASSUME OperatorInv, ChangeInv, NEW o \in Ordinals, RemovePod(o) PROVE ProcsOnward
<1> DEFINE p == CurrentProc(o)
<1>1. \/ proc' = [proc EXCEPT ![p] = Down(proc[p])]
      \/ proc' = [proc EXCEPT ![p] = proc[p]]
  BY DEF RemovePod
<1> HIDE DEF p
<1>2. Quenched(Down(proc[p])) /\ ~Running(Down(proc[p]))
  BY DownQuenched DEF Running
<1> QED
  BY <1>1, <1>2, QuenchedOnward, SelfOnward, OneOnward

LEMMA NewPodsOnward ==
    ASSUME OperatorInv, ChangeInv, NEW S \in SUBSET Ordinals,
           \A p \in Procs : proc'[p] = IF p[1] \in S /\ p[2] = Used(p[1]) + 1
                                       THEN FreshProcess(TemplateSize) ELSE proc[p]
    PROVE  ProcsOnward
<1> SUFFICES ASSUME NEW p \in Procs PROVE Onward(proc'[p], proc[p], p)
  BY DEF ProcsOnward
<1>1. p[1] \in Ordinals /\ p[2] \in 1..scene.incs /\ scene.incs \in Nat /\ p = <<p[1], p[2]>>
  BY ProcsAreNamed, StInv DEF Scene
<1>2. /\ Used(p[1]) \in 0..scene.incs
      /\ proc[p].run # "absent" <=> p[2] <= Used(p[1])
  BY <1>1, UsedFacts
<1>3. CASE p[1] \in S /\ p[2] = Used(p[1]) + 1
  <2> DEFINE r == FreshProcess(TemplateSize)
  <2>1. proc'[p] = r /\ proc[p].run = "absent"
    BY <1>1, <1>2, <1>3
  <2>2. Quenched(r) /\ r.size = TemplateSize
    BY FreshQuenched DEF FreshProcess, Blank
  <2> HIDE DEF r
  <2>3. Unopened(r) /\ (\A v : Fine(r, v))
    BY <2>2 DEF Quenched, Unopened, Lively, Fine, Held
  <2>4. Onward(r, proc[p], p)
    BY <2>1, <2>2, <2>3 DEF Onward, Loyal, Grown, Running
  <2> QED
    BY <2>1, <2>4
<1>4. CASE ~(p[1] \in S /\ p[2] = Used(p[1]) + 1)
  BY <1>4, SelfOnward
<1> QED
  BY <1>3, <1>4

LEMMA MakePodOnward ==
    ASSUME OperatorInv, ChangeInv, NEW o \in Ordinals, MakePod(o, TemplateSize)
    PROVE  ProcsOnward
<1> DEFINE i == Used(o) + 1
           new == FreshProcess(TemplateSize)
           S == {o}
<1>1. Used(o) < scene.incs /\ proc' = [proc EXCEPT ![<<o, i>>] = new]
  BY Zenon DEF MakePod, NewPod, FreshProcess
<1>2. i \in 1..scene.incs
  BY <1>1, UsedFacts, StInv DEF Scene
<1>3. <<o, i>> \in Procs /\ \A p \in Procs : p = <<p[1], p[2]>>
  BY <1>2, ProcsAreNamed, StInv
<1> HIDE DEF i, new
<1>6. \A p \in Procs : proc'[p] = IF p[1] \in S /\ p[2] = i THEN new ELSE proc[p]
  BY <1>1, <1>3, StInv
<1>7. S \in SUBSET Ordinals /\ \A q : q \in S <=> q = o
  OBVIOUS
<1> HIDE DEF S
<1>8. \A p \in Procs : proc'[p] = IF p[1] \in S /\ p[2] = Used(p[1]) + 1
                                  THEN FreshProcess(TemplateSize) ELSE proc[p]
  BY <1>6, <1>7 DEF i, new
<1> QED
  BY <1>7, <1>8, NewPodsOnward

LEMMA OutsideOnward ==
    ASSUME OperatorInv, ChangeInv, Kubelet \/ Copies \/ Returns \/ Failures PROVE ProcsOnward
<1>1. CASE Kubelet
  BY <1>1, KubeletStartsOnward, KubeletStopsOnward DEF Kubelet
<1>2. CASE Copies
  BY <1>2, SynchronizeOnward DEF Copies
<1>3. CASE Returns
  BY <1>3, TouchingOnward DEF Returns
<1>4. CASE Failures
  BY <1>4, LateCommandOnward, TouchingOnward, StoppingOnward, RemovePodOnward, MakePodOnward, Zenon
     DEF Failures
<1> QED
  BY <1>1, <1>2, <1>3, <1>4

LEMMA SameTame == ASSUME OperatorInv PROVE Tame(st)
<1> SUFFICES ASSUME NEW o \in Ordinals, st.nodes[o] # Nil PROVE st.nodes[o].p[2] <= st.nodes[o].p[2]
  BY DEF Tame, Forward, EntriesStay
<1>1. st.nodes[o].p \in Procs
  BY EntriesInv
<1>2. st.nodes[o].p[2] \in 1..scene.incs /\ scene.incs \in Nat
  BY <1>1, ProcsAreNamed, StInv DEF Scene
<1> QED
  BY <1>2

LEMMA OutsideCarriesOn ==
    ASSUME OperatorInv, ChangeInv,
           EndsPass \/ Restart \/ Kubelet \/ Copies \/ Returns \/ Failures \/ User
    PROVE  CarriesOn
<1>1. CASE Kubelet \/ Copies \/ Returns \/ Failures
  <2>1. UNCHANGED st
    BY <1>1 DEF Kubelet, Copies, Returns, Failures, Outside
  <2> QED
    BY <1>1, <2>1, OutsideOnward, SameTame DEF CarriesOn
<1>2. CASE EndsPass \/ Restart \/ User
  <2>1. UNCHANGED <<proc, st>>
    BY <1>2 DEF EndsPass, Restart, User, RequestSize, RequestPassword, RequestDeletion,
                RequestFencing, Request, machine
  <2> QED
    BY <2>1, UnchangedOnward, SameTame DEF CarriesOn
<1> QED
  BY <1>1, <1>2

-----------------------------------------------------------------------------
(* Sessions, and statuses that carry on with the change                     *)

LEMMA SessionOnward ==
    ASSUME OperatorInv, ChangeInv, NEW p \in Procs, NEW cmds \in Seq(Commands), Up(p),
           Session(p, cmds) \/ Interrupted(p, cmds), AllRight(cmds, st.accepted.pw),
           AllMute(cmds) \/ Knows(st, p)
    PROVE  ProcsOnward
<1>1. PICK r \in Process :
          /\ proc' = [proc EXCEPT ![p] = r] /\ Same(r, proc[p])
          /\ Held(proc[p], st.accepted.pw) => Fine(r, st.accepted.pw)
          /\ AllMute(cmds) /\ ~Lively(proc[p]) => Unopened(r)
  BY SessionPassword
<1>2. Onward(r, proc[p], p)
  BY <1>1 DEF Onward, Loyal, Grown, Running, Same, Up, Fine, Unopened
<1> QED
  BY <1>1, <1>2, OneOnward

LEMMA CommandedCarriesOn ==
    ASSUME OperatorInv, ChangeInv, NEW p \in Procs, NEW cmds \in Seq(Commands), NEW s,
           \/ Commanded(p, cmds, s) \/ BrokenOff(p, cmds)
           \/ \E answered : GivesUp(p, cmds, answered),
           AllRight(cmds, st.accepted.pw),
           AllMute(cmds) \/ Knows(st, p), Tame(s)
    PROVE  CarriesOn
<1>1. /\ Up(p) /\ (st' = s \/ UNCHANGED st)
      /\ Session(p, cmds) \/ Interrupted(p, cmds)
  BY DEF Commanded, BrokenOff, GivesUp, Reachable
<1> QED
  BY <1>1, SessionOnward, SameTame DEF CarriesOn

LEMMA MuteCarriesOn ==
    ASSUME OperatorInv, ChangeInv, NEW p \in Procs, NEW cmds \in Seq(Commands), NEW s,
           \/ Commanded(p, cmds, s) \/ BrokenOff(p, cmds)
           \/ \E answered : GivesUp(p, cmds, answered),
           AllMute(cmds), Tame(s)
    PROVE  CarriesOn
  BY MuteIsRight, CommandedCarriesOn

LEMMA FencesCarriesOn ==
    ASSUME OperatorInv, ChangeInv, NEW p \in Procs, NEW s, Fences(p, s), Tame(s) PROVE CarriesOn
<1>1. FALSE \in BOOLEAN
  OBVIOUS
<1>2. AppAccess(p, FALSE) \in Seq(Commands)
  BY <1>1, AppAccessFacts
<1> QED
  BY <1>2, CommandPasswords, MuteCarriesOn DEF Fences

LEMMA PromotesCarriesOn ==
    ASSUME OperatorInv, ChangeInv, NEW p \in Procs, NEW s, Promotes(p, s), Tame(s) PROVE CarriesOn
  BY PromoteCommandsFacts, CommandPasswords, MuteCarriesOn DEF Promotes

LEMMA SavedCarriesOn == ASSUME OperatorInv, ChangeInv, UNCHANGED proc, Tame(st') PROVE CarriesOn
  BY UnchangedOnward DEF CarriesOn

LEMMA StillCarriesOn == ASSUME OperatorInv, ChangeInv, UNCHANGED <<proc, st>> PROVE CarriesOn
  BY SameTame, SavedCarriesOn

LEMMA SeenAlikeStay == ASSUME OperatorInv, NEW s, SeenAlike(s) PROVE EntriesStay(s)
<1> SUFFICES ASSUME NEW o \in Ordinals, st.nodes[o] # Nil
             PROVE  s.nodes[o] # Nil /\ st.nodes[o].p[2] <= s.nodes[o].p[2]
  BY DEF EntriesStay
<1>1. s.nodes[o] # Nil /\ st.nodes[o].p[2] = s.nodes[o].p[2]
  BY DEF SeenAlike
<1> QED
  BY <1>1, SameTame DEF Tame, Forward, EntriesStay

\* A status with the same entries.
LEMMA FieldsTame ==
    ASSUME OperatorInv, NEW s, s.nodes = st.nodes, s.accepted = st.accepted,
           s.rotation = st.rotation, s.rollout = Nil <=> st.rollout = Nil,
           s.reported => st.reported
    PROVE  Tame(s)
  BY SameTame DEF Tame, Forward, EntriesStay

LEMMA PhaseTame ==
    ASSUME NEW s \in Status, Tame(s), s.prev = st.prev PROVE Tame(ApplyOperationalPhase(s))
<1> DEFINE t == ApplyOperationalPhase(s)
<1>1. /\ t.accepted = s.accepted /\ t.rotation = s.rotation /\ t.rollout = s.rollout
      /\ t.nodes = s.nodes
      /\ t.reported => \/ s.reported
                       \/ s.rotation = Nil /\ s.rollout = Nil /\ \A q \in s.prev : q.term
  BY DEF ApplyOperationalPhase, Status
<1> HIDE DEF t
<1>2. t.reported => st.reported \/ (t.rotation = Nil /\ t.rollout = Nil /\ ~Unterminated)
  BY <1>1 DEF Tame, Forward, Unterminated
<1>3. EntriesStay(t)
  BY <1>1 DEF Tame, Forward, EntriesStay
<1> QED
  BY <1>1, <1>2, <1>3 DEF Tame, Forward, t

\* One entry is written again.
LEMMA EntryTame ==
    ASSUME OperatorInv, NEW o \in Ordinals, st.nodes[o] # Nil, NEW n, n # Nil,
           n.p = st.nodes[o].p, NEW s, s = [st EXCEPT !.nodes[o] = n]
    PROVE  Tame(s)
<1>1. /\ s.nodes = [st.nodes EXCEPT ![o] = n] /\ s.rollout = st.rollout
      /\ s.rotation = st.rotation /\ s.accepted = st.accepted /\ s.reported = st.reported
  BY StInv DEF Status
<1>2. EntriesStay(s)
  <2> SUFFICES ASSUME NEW i \in Ordinals, st.nodes[i] # Nil
               PROVE  s.nodes[i] # Nil /\ st.nodes[i].p[2] <= s.nodes[i].p[2]
    BY DEF EntriesStay
  <2>1. s.nodes[i] = IF i = o THEN n ELSE st.nodes[i]
    BY <1>1, StInv
  <2>2. st.nodes[i].p[2] <= st.nodes[i].p[2]
    BY SameTame DEF Tame, Forward, EntriesStay
  <2> QED
    BY <2>1, <2>2
<1> QED
  BY <1>1, <1>2 DEF Tame, Forward

-----------------------------------------------------------------------------
(* The start of a pass, manual fencing, recovery, failover                  *)

LEMMA WorkloadCarriesOn == ASSUME OperatorInv, ChangeInv, ReconcileWorkload PROVE CarriesOn
<1>1. UNCHANGED st
  BY DEF ReconcileWorkload
<1>2. CASE WorkloadStopped
  <2>1. UNCHANGED proc
    BY <1>2, Zenon DEF ReconcileWorkload
  <2> QED
    BY <1>1, <2>1, StillCarriesOn
<1>3. CASE ~WorkloadStopped
  <2> DEFINE S == MissingPods
             fresh == FreshProcess(TemplateSize)
  <2>1. proc' = [p \in Procs |-> IF p[1] \in S /\ p[2] = Used(p[1]) + 1 THEN fresh ELSE proc[p]]
    BY <1>3, Zenon DEF ReconcileWorkload, FreshProcess
  <2>2. S \in SUBSET Ordinals
    BY DEF MissingPods
  <2> HIDE DEF S, fresh
  <2>3. \A p \in Procs : proc'[p] = IF p[1] \in S /\ p[2] = Used(p[1]) + 1 THEN fresh ELSE proc[p]
    BY <2>1
  <2>4. ProcsOnward
    BY <2>2, <2>3, NewPodsOnward DEF fresh
  <2> QED
    BY <1>1, <2>4, SameTame DEF CarriesOn
<1> QED
  BY <1>2, <1>3

LEMMA AcceptsManualFencingCarriesOn ==
    ASSUME OperatorInv, ChangeInv, AcceptsManualFencing PROVE CarriesOn
<1>1. PICK p : st' = [st EXCEPT
                    !.nodes = [o \in Ordinals |-> IF @[o] # Nil /\ @[o].p = p THEN Stopped(@[o])
                                                                             ELSE @[o]],
                    !.prev = {IF q.p = p THEN Stopped(q) ELSE q : q \in @}]
  BY Zenon DEF AcceptsManualFencing
<1>2. UNCHANGED proc
  BY DEF AcceptsManualFencing, machine
<1> DEFINE nodes == [o \in Ordinals |-> IF st.nodes[o] # Nil /\ st.nodes[o].p = p
                                        THEN Stopped(st.nodes[o]) ELSE st.nodes[o]]
           prev == {IF q.p = p THEN Stopped(q) ELSE q : q \in st.prev}
<1>3. st' = [st EXCEPT !.nodes = nodes, !.prev = prev]
  BY <1>1
<1>4. \A o \in Ordinals : nodes[o] = IF st.nodes[o] # Nil /\ st.nodes[o].p = p
                                     THEN Stopped(st.nodes[o]) ELSE st.nodes[o]
  OBVIOUS
<1> HIDE DEF nodes, prev
<1>5. /\ st'.nodes = nodes /\ st'.rollout = st.rollout /\ st'.rotation = st.rotation
      /\ st'.accepted = st.accepted /\ st'.reported = st.reported
  BY <1>3, StInv DEF Status
<1>6. EntriesStay(st')
  <2> SUFFICES ASSUME NEW o \in Ordinals, st.nodes[o] # Nil
               PROVE  nodes[o] # Nil /\ st.nodes[o].p[2] <= nodes[o].p[2]
    BY <1>5 DEF EntriesStay
  <2>1. /\ Stopped(st.nodes[o]).p = st.nodes[o].p /\ Stopped(st.nodes[o]) \in NodeStatus
        /\ st.nodes[o].p[2] <= st.nodes[o].p[2]
    BY EntriesInv, StoppedFacts, SameTame DEF Tame, Forward, EntriesStay
  <2> QED
    BY <1>4, <2>1, EntryThere
<1> QED
  BY <1>2, <1>5, <1>6, SavedCarriesOn DEF Tame, Forward

LEMMA ProcessRecoveryCarriesOn ==
    ASSUME OperatorInv, ChangeInv, ReconcileProcessRecovery PROVE CarriesOn
<1>1. PICK o \in Ordinals : \E stage \in RecoverySteps(st.nodes[o]) :
        LET n == st.nodes[o]
            killed == n.rec = "killing" /\ stage = "none"
            unsaved == IF stage = "waiting" /\ ~pod[o].deleting THEN {n.rec} ELSE {}
        IN /\ n # Nil /\ RecoverySteps(n) \notin {{}, {"pending"}}
           /\ \E rec \in {stage} \cup unsaved : st' = [st EXCEPT !.nodes[o].rec = rec]
           /\ proc' = [proc EXCEPT ![n.p].state = IF killed THEN "ok" ELSE @]
  BY Zenon DEF ReconcileProcessRecovery, RecoveryOrdinal
<1> DEFINE n == st.nodes[o]
           p == n.p
<1>2. n \in NodeStatus /\ n # Nil /\ p \in Procs
  BY <1>1, EntriesInv
<1>3. PICK stage \in RecoverySteps(n) :
        LET killed == n.rec = "killing" /\ stage = "none"
        IN /\ \E rec \in {stage, n.rec} : st' = [st EXCEPT !.nodes[o].rec = rec]
           /\ proc' = [proc EXCEPT ![n.p].state = IF killed THEN "ok" ELSE @]
  BY <1>1
<1> DEFINE Stages == {"none", "killing", "deleting", "deletingBusy", "waiting"}
<1>4. Tame(st')
  <2>1. stage \in Stages /\ n.rec \in Stages
    BY <1>1, <1>2, <1>3 DEF RecoverySteps, NodeStatus, NodeStatusOf
  <2>2. PICK rec \in Stages : st' = [st EXCEPT !.nodes[o].rec = rec]
    BY <1>3, <2>1
  <2> DEFINE m == [n EXCEPT !.rec = rec]
  <2>3. m.p = n.p /\ m # Nil
    <3>1. m \in NodeStatus /\ m.p = n.p
      BY <1>2 DEF NodeStatus, NodeStatusOf
    <3> QED
      BY <3>1, EntryThere
  <2>4. st' = [st EXCEPT !.nodes[o] = m]
    BY <2>2
  <2> HIDE DEF m
  <2> QED
    BY <1>2, <2>3, <2>4, EntryTame
<1>5. ProcsOnward
  <2> DEFINE q == proc[p]
             new == IF n.rec = "killing" /\ stage = "none" THEN "ok" ELSE q.state
             r == [q EXCEPT !.state = new]
  <2>1. proc' = [proc EXCEPT ![p] = r]
    BY <1>3
  <2>2. Touched(r, q)
    <3>1. q.state \in {"ok", "busy", "hung"}
      BY <1>2, ProcFacts DEF Process
    <3>2. new \in {"ok", "hung", "busy"}
      BY <3>1
    <3> HIDE DEF new
    <3> QED
      BY <3>2 DEF Touched
  <2> HIDE DEF r, p
  <2> QED
    BY <1>2, <2>1, <2>2, TouchedOnward
<1> QED
  BY <1>4, <1>5 DEF CarriesOn

\* A status in which only the failover, or the primary too, is another one.
LEMMA FailoverTame ==
    ASSUME OperatorInv, NEW f
    PROVE  /\ Tame([st EXCEPT !.failover = f])
           /\ Tame([st EXCEPT !.failover = f, !.empty = FALSE])
           /\ \A primary : Tame([st EXCEPT !.primary = primary, !.failover = f])
<1>1. LET s == [st EXCEPT !.failover = f]
      IN  /\ s.nodes = st.nodes /\ s.accepted = st.accepted /\ s.rotation = st.rotation
          /\ s.rollout = st.rollout /\ s.reported = st.reported
  BY StInv DEF Status
<1>2. LET s == [st EXCEPT !.failover = f, !.empty = FALSE]
      IN  /\ s.nodes = st.nodes /\ s.accepted = st.accepted /\ s.rotation = st.rotation
          /\ s.rollout = st.rollout /\ s.reported = st.reported
  BY StInv DEF Status
<1>3. ASSUME NEW primary
      PROVE  LET s == [st EXCEPT !.primary = primary, !.failover = f]
             IN  /\ s.nodes = st.nodes /\ s.accepted = st.accepted /\ s.rotation = st.rotation
                 /\ s.rollout = st.rollout /\ s.reported = st.reported
  BY StInv DEF Status
<1>4. \A primary : Tame([st EXCEPT !.primary = primary, !.failover = f])
  BY <1>3, FieldsTame
<1> QED
  BY <1>1, <1>2, <1>4, FieldsTame

LEMMA SavedTame ==
    ASSUME OperatorInv, ChangeInv, NEW s, Tame(s), Saved(s) \/ SavedLoss(s) PROVE CarriesOn
  BY SavedCarriesOn DEF Saved, SavedLoss, machine

LEMMA RoleLabelCarriesOn ==
    ASSUME OperatorInv, ChangeInv, NEW p, RemovesRoleLabel(p) PROVE CarriesOn
  BY StillCarriesOn DEF RemovesRoleLabel

LEMMA FencingCarriesOn == ASSUME OperatorInv, ChangeInv, ReconcileFailoverFencing PROVE CarriesOn
<1> DEFINE o == st.failover
           f == [o EXCEPT !.srcFenced = TRUE]
           g == [o EXCEPT !.stage = "choosing"]
<1>1. PICK n \in Known(o.source) : \/ RemovesRoleLabel(n.p)
                                   \/ Fences(n.p, [st EXCEPT !.failover = f])
                                   \/ Saved([st EXCEPT !.failover = g])
  BY DEF ReconcileFailoverFencing
<1>2. n.p \in Procs
  BY KnownFacts
<1> HIDE DEF f, g
<1> QED
  BY <1>1, <1>2, FailoverTame, FencesCarriesOn, SavedTame, RoleLabelCarriesOn

LEMMA EmptyRecoveryTame == ASSUME OperatorInv, NEW loss PROVE Tame(EmptyRecovery(loss))
<1> DEFINE s == EmptyRecovery(loss)
<1>1. /\ s.nodes = st.nodes /\ s.accepted = st.accepted /\ s.rotation = st.rotation
      /\ s.rollout = st.rollout /\ s.reported = st.reported
  BY StInv DEF Status, EmptyRecovery
<1> HIDE DEF s
<1> QED
  BY <1>1, FieldsTame DEF s

LEMMA ChoosingCarriesOn ==
    ASSUME OperatorInv, ChangeInv, ChoosesCandidate \/ WithoutCandidate \/ PreparesCandidate
    PROVE  CarriesOn
<1> DEFINE o == st.failover
<1>1. ASSUME NEW f, Saved([st EXCEPT !.failover = f]) PROVE CarriesOn
  BY <1>1, FailoverTame, SavedTame
<1>2. CASE ChoosesCandidate
  <2>1. PICK n : Saved([st EXCEPT !.failover =
                              [o EXCEPT !.cand = n.p, !.empty = FALSE, !.deadline = TRUE]])
    BY <1>2 DEF ChoosesCandidate
  <2> QED
    BY <1>1, <2>1
<1>3. CASE WithoutCandidate
  <2> DEFINE f == [o EXCEPT !.empty = FALSE]
             g == [o EXCEPT !.empty = TRUE]
  <2>1. \/ \E loss : SavedLoss(EmptyRecovery(loss))
        \/ Saved([st EXCEPT !.failover = f])
        \/ Saved([st EXCEPT !.failover = g])
    BY <1>3 DEF WithoutCandidate
  <2> HIDE DEF f, g
  <2> QED
    BY <1>1, <2>1, EmptyRecoveryTame, SavedTame
<1>4. CASE PreparesCandidate
  <2> DEFINE f == [o EXCEPT !.deadline = TRUE]
             g == [o EXCEPT !.candFenced = TRUE]
             h == [o EXCEPT !.stage = "promoting"]
  <2>1. \/ Saved([st EXCEPT !.failover = f])
        \/ Saved([st EXCEPT !.failover = NoCandidate(o)])
        \/ \E n \in Known(o.cand) : Fences(n.p, [st EXCEPT !.failover = g])
        \/ Saved([st EXCEPT !.failover = h])
    BY <1>4 DEF PreparesCandidate
  <2> HIDE DEF f, g, h
  <2>2. \A n \in Known(o.cand) : n.p \in Procs
    BY KnownFacts
  <2> QED
    BY <1>1, <2>1, <2>2, FailoverTame, FencesCarriesOn
<1> QED
  BY <1>2, <1>3, <1>4

LEMMA PromotingCarriesOn == ASSUME OperatorInv, ChangeInv, ReconcileFailoverPromoting PROVE CarriesOn
<1> DEFINE o == st.failover
           f == [o EXCEPT !.stage = "reconfiguring"]
           g == [o EXCEPT !.mayBe = TRUE]
<1>1. PICK n \in Known(o.cand) : \/ Saved([st EXCEPT !.failover = NoCandidate(o)])
                                 \/ Saved([st EXCEPT !.primary = n.p, !.failover = f])
                                 \/ Saved([st EXCEPT !.failover = g])
                                 \/ Promotes(n.p, st)
  BY DEF ReconcileFailoverPromoting
<1>2. n.p \in Procs
  BY KnownFacts
<1> HIDE DEF f, g
<1> QED
  BY <1>1, <1>2, FailoverTame, SameTame, SavedTame, PromotesCarriesOn

LEMMA ReconfiguringCarriesOn ==
    ASSUME OperatorInv, ChangeInv, ReconcileFailoverReconfiguring PROVE CarriesOn
<1>1. PICK n \in FailoverPrimary :
          IF Failed(n) THEN Saved([st EXCEPT !.failover = [Failover("failure", n.p, Nil) EXCEPT
                                                              !.empty = st.failover.empty]])
          ELSE ReconfigurationReady /\ Saved(ApplyOperationalPhase([st EXCEPT !.failover = Nil]))
  BY Zenon DEF ReconcileFailoverReconfiguring
<1>2. CASE Failed(n)
  <2> DEFINE f == [Failover("failure", n.p, Nil) EXCEPT !.empty = st.failover.empty]
  <2>1. Saved([st EXCEPT !.failover = f])
    BY <1>1, <1>2
  <2> HIDE DEF f
  <2> QED
    BY <2>1, FailoverTame, SavedTame
<1>3. CASE ~Failed(n)
  <2> DEFINE s == [st EXCEPT !.failover = Nil]
  <2>1. Saved(ApplyOperationalPhase(s))
    BY <1>1, <1>3
  <2>2. s \in Status /\ s.prev = st.prev /\ Tame(s)
    BY StInv, FailoverTame DEF Status
  <2> HIDE DEF s
  <2> QED
    BY <2>1, <2>2, PhaseTame, SavedTame
<1> QED
  BY <1>2, <1>3

LEMMA FailoverCarriesOn == ASSUME OperatorInv, ChangeInv, ReconcileFailover PROVE CarriesOn
<1>1. CASE StartsFailureFailover
  <2>1. PICK n : Saved([st EXCEPT !.failover = Failover("failure", n.p, Nil), !.empty = FALSE])
    BY <1>1, Zenon DEF StartsFailureFailover
  <2> QED
    BY <2>1, FailoverTame, SavedTame
<1> QED
  BY <1>1, FencingCarriesOn, ChoosingCarriesOn, PromotingCarriesOn, ReconfiguringCarriesOn
     DEF ReconcileFailover

-----------------------------------------------------------------------------
(* Acceptance and rotation                                                  *)

LEMMA RotationThere == ASSUME OperatorInv, NEW r \in RotationStatus PROVE r # Nil
<1>1. scene \in Scene /\ Procs \subseteq Nat \X Nat
  BY StInv, ProcsAreNamed
<1> QED
  BY <1>1, StatusAssumption DEF RotationStatus, RotationStatusOf

LEMMA RolloutThere == ASSUME OperatorInv, NEW r \in RolloutStatus PROVE r # Nil
<1>1. scene \in Scene /\ Procs \subseteq Nat \X Nat
  BY StInv, ProcsAreNamed
<1> QED
  BY <1>1, StatusAssumption DEF RolloutStatus, RolloutStatusOf

LEMMA SameEntriesStay == ASSUME OperatorInv, NEW s, s.nodes = st.nodes PROVE EntriesStay(s)
  BY SameTame DEF Tame, Forward, EntriesStay

\* The configuration before this one was confirmed: every process has its password
\* and its size.
LEMMA AcceptedConfigurationChange ==
    ASSUME OperatorInv, ChangeInv, OperatorInv', SceneKept, ReconcileAcceptedConfiguration
    PROVE  ChangeNext
<1> DEFINE new == [stage |-> "preparing", p |-> Nil, closed |-> FALSE]
           turn == [stage |-> "preparing", confirmed |-> {}, old |-> st.accepted.pw]
           rollout == IF cr.size = st.accepted.size THEN Nil ELSE new
           rotation == IF cr.pw = st.accepted.pw THEN Nil ELSE turn
<1>1. /\ st.reported /\ st.rollout = Nil /\ st.rotation = Nil /\ UNCHANGED proc
      /\ st' = [st EXCEPT !.accepted = Wanted, !.reported = FALSE, !.rollout = rollout,
                          !.rotation = rotation]
  BY DEF ReconcileAcceptedConfiguration, AcceptDue, Idle, Saved, machine
<1>2. new # Nil /\ turn # Nil
  <2>1. new \in RolloutStatus
    BY DEF RolloutStatus, RolloutStatusOf
  <2>2. turn \in RotationStatus
    BY StInv DEF RotationStatus, RotationStatusOf
  <2> HIDE DEF new, turn
  <2> QED
    BY <2>1, <2>2, RolloutThere, RotationThere
<1>3. turn.stage = "preparing" /\ turn.confirmed = {}
  OBVIOUS
<1> HIDE DEF new, turn
<1>4. /\ rollout = Nil => cr.size = st.accepted.size
      /\ IF cr.pw = st.accepted.pw THEN rotation = Nil ELSE rotation = turn
  BY <1>2
<1> HIDE DEF rollout, rotation
<1>5. /\ st'.nodes = st.nodes /\ st'.rollout = rollout /\ ~st'.reported
      /\ st'.rotation = rotation /\ st'.accepted = Wanted
  BY <1>1, StInv DEF Status
<1>6. Wanted.pw = cr.pw /\ Wanted.size = cr.size
  BY DEF Wanted
<1>7. ProcsOnward
  BY <1>1, UnchangedOnward
<1>8. EntriesStay(st')
  BY <1>5, SameEntriesStay
<1>9. ASSUME NEW p \in Procs, RotationOver(st') \/ p \in st'.rotation.confirmed
      PROVE  Fine(proc'[p], st'.accepted.pw)
  <2>1. cr.pw = st.accepted.pw
    BY <1>2, <1>3, <1>4, <1>5, <1>9 DEF RotationOver
  <2>2. Fine(proc[p], st.accepted.pw)
    BY <1>1, ChangeFacts DEF RotationOver
  <2> QED
    BY <1>1, <1>5, <1>6, <2>1, <2>2
<1>10. Credentialed(proc', st')
  BY <1>7, <1>8, <1>9, CredentialsCarriedOn
<1>11. Fitted(proc', st')
  <2> SUFFICES ASSUME rollout = Nil, NEW p \in Procs, Running(proc[p])
               PROVE  proc[p].size = cr.size
    BY <1>1, <1>5, <1>6 DEF Fitted
  <2> QED
    BY <1>1, <1>4 DEF ChangeInv, ChangeOK, Fitted
<1> QED
  BY <1>10, <1>11 DEF ChangeNext, ChangeOK

LEMMA ResourceCarriesOn ==
    ASSUME OperatorInv, ChangeInv, ReconcileCredentials \/ RemovesAnnotation \/ CleansSecret
    PROVE  CarriesOn
  BY StillCarriesOn DEF ReconcileCredentials, RemovesAnnotation, CleansSecret, machine

\* Every process is confirmed or has stopped.
LEMMA RotationThrough ==
    ASSUME OperatorInv, ChangeInv, Unconfirmed(TRUE) = {}, Unconfirmed(FALSE) = {}, NEW p \in Procs
    PROVE  Fine(proc[p], st.accepted.pw)
<1>1. proc[p] \in Process
  BY ProcFacts
<1>2. CASE ~Knows(st, p)
  BY <1>1, <1>2, ChangeFacts, UnopenedIsFine
<1>3. CASE Knows(st, p)
  <2>1. PICK e \in Nodes \cup st.prev : e.p = p
    BY <1>3, EntriesInv DEF Knows
  <2>2. CASE e.term
    <3>1. proc[p].run # "up"
      BY <2>1, <2>2, EntriesInv
    <3> QED
      BY <1>1, <3>1, ChangeFacts, UnopenedIsFine
  <2>3. CASE ~e.term
    <3>1. e \in RotationProcesses(TRUE) \/ e \in RotationProcesses(FALSE)
      BY <2>1 DEF RotationProcesses
    <3>2. p \in st.rotation.confirmed
      BY <2>1, <2>3, <3>1 DEF Unconfirmed
    <3> QED
      BY <3>2, ChangeFacts
  <2> QED
    BY <2>2, <2>3
<1> QED
  BY <1>2, <1>3

LEMMA ToStageChange ==
    ASSUME OperatorInv, ChangeInv, OperatorInv', SceneKept, st.rotation # Nil,
           NEW stage \in {"preparing", "replicas", "primary", "cleaning"}, Saved(ToStage(stage)),
           stage = "cleaning" => Unconfirmed(TRUE) = {} /\ Unconfirmed(FALSE) = {}
    PROVE  ChangeNext
<1> DEFINE q == st.rotation
           rotation == [q EXCEPT !.stage = stage]
<1>1. st' = [st EXCEPT !.rotation = rotation, !.empty = FALSE] /\ UNCHANGED proc
  BY DEF Saved, ToStage, machine
<1>2. q \in RotationStatus
  BY StInv DEF Status
<1> HIDE DEF q
<1>3. rotation \in RotationStatus /\ rotation.stage = stage /\ rotation.confirmed = q.confirmed
  BY <1>2 DEF RotationStatus, RotationStatusOf
<1> HIDE DEF rotation
<1>4. rotation # Nil
  BY <1>3, RotationThere
<1>5. /\ st'.nodes = st.nodes /\ st'.rollout = st.rollout /\ st'.reported = st.reported
      /\ st'.rotation = rotation /\ st'.accepted = st.accepted
  BY <1>1, StInv DEF Status
<1>6. ProcsOnward
  BY <1>1, UnchangedOnward
<1>7. Forward(st')
  BY <1>5, SameEntriesStay DEF Forward
<1>8. ASSUME NEW p \in Procs, RotationOver(st') \/ p \in st'.rotation.confirmed
      PROVE  Fine(proc'[p], st'.accepted.pw)
  BY <1>1, <1>3, <1>4, <1>5, <1>8, RotationThrough, ChangeFacts DEF RotationOver, q
<1>9. ~st'.reported
  BY <1>5 DEF ChangeInv, ChangeOK, Fitted
<1> QED
  BY <1>6, <1>7, <1>8, <1>9, CarriedFurther

\* A process is confirmed once its session is through.
LEMMA RotatesPasswordChange ==
    ASSUME OperatorInv, ChangeInv, OperatorInv', SceneKept, st.rotation # Nil,
           NEW primary, RotatesPassword(primary)
    PROVE  ChangeNext
<1>1. PICK n \in Rotatable(primary) :
          \/ Commanded(n.p, RotateCommands,
                    [st EXCEPT !.rotation.confirmed = @ \cup {n.p},
                               !.nodes = [o \in Ordinals |->
                                   IF @[o] = n THEN [n EXCEPT !.pw = st.accepted.pw] ELSE @[o]]])
          \/ GivesUp(n.p, RotateCommands, proc[n.p].app # n.app)
  BY Zenon DEF RotatesPassword
<1>2. n \in NodeStatus /\ n.p \in Procs /\ Knows(st, n.p)
  BY EntriesInv DEF Rotatable, Unconfirmed, RotationProcesses, Knows
<1> DEFINE p == n.p
           q == st.rotation
           m == [n EXCEPT !.pw = st.accepted.pw]
           nodes == [o \in Ordinals |-> IF st.nodes[o] = n THEN m ELSE st.nodes[o]]
           rotation == [q EXCEPT !.confirmed = @ \cup {p}]
           s == [st EXCEPT !.rotation = rotation, !.nodes = nodes]
<1>3. \/ \E answered : GivesUp(p, RotateCommands, answered)
      \/ Commanded(p, RotateCommands, s)
  BY <1>1
<1>4. RotateCommands \in Seq(Commands) /\ AllRight(RotateCommands, st.accepted.pw)
  BY RotateFacts, CommandPasswords
<1>5. CASE \E answered : GivesUp(p, RotateCommands, answered)
  <2>1. CarriesOn
    BY <1>2, <1>4, <1>5, SameTame, CommandedCarriesOn
  <2> QED
    BY <2>1, CarriedOn
<1>6. CASE Commanded(p, RotateCommands, s)
  <2>1. Up(p) /\ Session(p, RotateCommands) /\ st' = s
    BY <1>6 DEF Commanded, Reachable
  <2>2. ProcsOnward
    BY <1>2, <1>4, <2>1, SessionOnward
  <2>3. Fine(proc'[p], st.accepted.pw)
    <3>1. proc'[p] = DoAll(TakeControl(proc[p]), RotateCommands)
      BY <1>2, <2>1, StInv DEF Session, Becomes
    <3> QED
      BY <1>2, <3>1, RotatedFacts
  <2>4. m.p = n.p /\ m # Nil
    <3>1. m \in NodeStatus /\ m.p = n.p
      BY <1>2, StInv DEF NodeStatus, NodeStatusOf
    <3> QED
      BY <3>1, EntryThere
  <2>5. \A o \in Ordinals : nodes[o] = IF st.nodes[o] = n THEN m ELSE st.nodes[o]
    OBVIOUS
  <2>6. q \in RotationStatus
    BY StInv DEF Status
  <2> HIDE DEF m, nodes, q
  <2>7. /\ rotation \in RotationStatus /\ rotation.stage = q.stage
        /\ rotation.confirmed = q.confirmed \cup {p}
    <3> DEFINE confirmed == q.confirmed \cup {p}
    <3>1. confirmed \in SUBSET Procs
      BY <1>2, <2>6 DEF RotationStatus, RotationStatusOf
    <3>2. rotation = [q EXCEPT !.confirmed = confirmed]
      OBVIOUS
    <3> HIDE DEF confirmed, rotation, p
    <3>3. /\ rotation \in RotationStatus /\ rotation.stage = q.stage
          /\ rotation.confirmed = confirmed
      BY <2>6, <3>1, <3>2 DEF RotationStatus, RotationStatusOf
    <3> QED
      BY <3>3 DEF confirmed
  <2> HIDE DEF rotation
  <2>8. rotation # Nil
    BY <2>7, RotationThere
  <2>9. /\ st'.nodes = nodes /\ st'.rollout = st.rollout /\ st'.reported = st.reported
        /\ st'.rotation = rotation /\ st'.accepted = st.accepted
    BY <2>1, StInv DEF Status
  <2>10. EntriesStay(st')
    <3> SUFFICES ASSUME NEW o \in Ordinals, st.nodes[o] # Nil
                 PROVE  nodes[o] # Nil /\ st.nodes[o].p[2] <= nodes[o].p[2]
      BY <2>9 DEF EntriesStay
    <3>1. st.nodes[o].p[2] <= st.nodes[o].p[2]
      BY SameTame DEF Tame, Forward, EntriesStay
    <3> QED
      BY <2>4, <2>5, <3>1
  <2>11. Forward(st')
    BY <2>9, <2>10 DEF Forward
  <2>12. ASSUME NEW i \in Procs, RotationOver(st') \/ i \in st'.rotation.confirmed
         PROVE  Fine(proc'[i], st'.accepted.pw)
    <3>1. CASE i = p
      BY <2>3, <2>9, <3>1
    <3>2. CASE i # p
      <4>1. RotationOver(st) \/ i \in st.rotation.confirmed
        BY <2>7, <2>8, <2>9, <2>12, <3>2 DEF RotationOver, q
      <4>2. Fine(proc[i], st.accepted.pw)
        BY <4>1, ChangeFacts
      <4>3. Onward(proc'[i], proc[i], i)
        BY <2>2 DEF ProcsOnward
      <4> QED
        BY <2>9, <4>2, <4>3 DEF Onward, Loyal
    <3> QED
      BY <3>1, <3>2
  <2>13. ~st'.reported
    BY <2>9 DEF ChangeInv, ChangeOK, Fitted
  <2> QED
    BY <2>2, <2>11, <2>12, <2>13, CarriedFurther
<1> QED
  BY <1>3, <1>5, <1>6

LEMMA FinishesRotationChange ==
    ASSUME OperatorInv, ChangeInv, OperatorInv', SceneKept, FinishesRotation PROVE ChangeNext
<1> DEFINE a == [st.applied EXCEPT !.pw = st.accepted.pw]
           s == [st EXCEPT !.applied = a, !.rotation = Nil]
           t == ApplyOperationalPhase(s)
<1>1. /\ st.rotation # Nil /\ st.rotation.stage = "cleaning"
      /\ UNCHANGED proc /\ st' = t
  BY Zenon DEF FinishesRotation, InRotation, RotationDue, Saved, machine
<1>2. a \in Configuration
  BY StInv DEF Configuration
<1> HIDE DEF a
<1>3. /\ s \in Status /\ s.nodes = st.nodes /\ s.rollout = st.rollout /\ s.accepted = st.accepted
      /\ s.reported = st.reported /\ s.prev = st.prev /\ s.rotation = Nil
  BY <1>2, StInv DEF Status
<1> HIDE DEF s
<1>4. /\ t.accepted = s.accepted /\ t.rotation = s.rotation /\ t.rollout = s.rollout
      /\ t.nodes = s.nodes
      /\ t.reported => \/ s.reported
                       \/ s.rotation = Nil /\ s.rollout = Nil /\ \A q \in s.prev : q.term
  BY <1>3 DEF ApplyOperationalPhase, Status
<1> HIDE DEF t
<1>5. ~st.reported
  BY <1>1 DEF ChangeInv, ChangeOK, Fitted
<1>6. Forward(st')
  BY <1>1, <1>3, <1>4, SameEntriesStay DEF Forward, Unterminated
<1>7. ProcsOnward
  BY <1>1, UnchangedOnward
<1>8. \A p \in Procs : Fine(proc'[p], st'.accepted.pw)
  BY <1>1, <1>3, <1>4, ChangeFacts DEF RotationOver
<1>9. st'.reported => st'.rotation = Nil /\ st'.rollout = Nil
  BY <1>1, <1>3, <1>4, <1>5
<1> QED
  BY <1>6, <1>7, <1>8, <1>9, CarriedFurther

LEMMA RotationChange ==
    ASSUME OperatorInv, ChangeInv, OperatorInv', SceneKept, ReconcileCredentialRotation
    PROVE  ChangeNext
<1>1. CASE CleansSecret
  BY <1>1, ResourceCarriesOn, CarriedOn
<1>2. CASE PreparesRotation \/ RotatesReplicas \/ RotatesPrimary
  <2>1. st.rotation # Nil
    BY <1>2 DEF PreparesRotation, RotatesReplicas, RotatesPrimary, InRotation, RotationDue
  <2> DEFINE stages == {"preparing", "replicas", "primary", "cleaning"}
  <2>2. \/ \E primary \in {TRUE, FALSE} : RotatesPassword(primary)
        \/ \E stage \in stages :
              /\ Saved(ToStage(stage))
              /\ stage = "cleaning" => Unconfirmed(TRUE) = {} /\ Unconfirmed(FALSE) = {}
    BY <1>2 DEF PreparesRotation, RotatesReplicas, RotatesPrimary
  <2> QED
    BY <2>1, <2>2, ToStageChange, RotatesPasswordChange
<1> QED
  BY <1>1, <1>2, FinishesRotationChange DEF ReconcileCredentialRotation

-----------------------------------------------------------------------------
(* Steps of a resize                                                        *)

\* A status in which the resize has gone on.
LEMMA RolloutTame ==
    ASSUME OperatorInv, st.rollout # Nil, NEW r \in RolloutStatus
    PROVE  /\ Tame([st EXCEPT !.rollout = r])
           /\ Tame([st EXCEPT !.rollout = r, !.empty = FALSE])
           /\ Tame([st EXCEPT !.rollout = r, !.primary = Nil, !.public = FALSE, !.loss = "resize"])
<1>1. r # Nil
  BY RolloutThere
<1>2. LET s == [st EXCEPT !.rollout = r]
      IN  /\ s.nodes = st.nodes /\ s.accepted = st.accepted /\ s.rotation = st.rotation
          /\ s.rollout = r /\ s.reported = st.reported
  BY StInv DEF Status
<1>3. LET s == [st EXCEPT !.rollout = r, !.empty = FALSE]
      IN  /\ s.nodes = st.nodes /\ s.accepted = st.accepted /\ s.rotation = st.rotation
          /\ s.rollout = r /\ s.reported = st.reported
  BY StInv DEF Status
<1>4. LET s == [st EXCEPT !.rollout = r, !.primary = Nil, !.public = FALSE, !.loss = "resize"]
      IN  /\ s.nodes = st.nodes /\ s.accepted = st.accepted /\ s.rotation = st.rotation
          /\ s.rollout = r /\ s.reported = st.reported
  BY StInv DEF Status
<1>5. Tame([st EXCEPT !.rollout = r])
  BY <1>1, <1>2, FieldsTame
<1>6. Tame([st EXCEPT !.rollout = r, !.empty = FALSE])
  BY <1>1, <1>3, FieldsTame
<1> QED
  BY <1>1, <1>4, <1>5, <1>6, FieldsTame

LEMMA AdvanceCarriesOn ==
    ASSUME OperatorInv, ChangeInv, st.rollout # Nil,
           NEW stage \in {"preparing", "stopping", "template", "starting", "replicas", "switching",
                          "primary", "verifying"},
           Saved(Advance(stage))
    PROVE  CarriesOn
<1> DEFINE q == st.rollout
           r == [q EXCEPT !.stage = stage, !.p = Nil]
           s == [st EXCEPT !.rollout = r, !.empty = FALSE]
<1>1. Saved(s)
  BY DEF Advance
<1>2. r \in RolloutStatus
  BY RolloutInv DEF RolloutStatus, RolloutStatusOf
<1> HIDE DEF r
<1>3. Tame(s)
  BY <1>2, RolloutTame
<1> HIDE DEF s
<1> QED
  BY <1>1, <1>3, SavedTame

LEMMA RolloutPlaceCarriesOn ==
    ASSUME OperatorInv, ChangeInv, st.rollout # Nil, NEW p \in Procs \cup {Nil},
           Saved([st EXCEPT !.rollout.p = p])
    PROVE  CarriesOn
<1> DEFINE q == st.rollout
           r == [q EXCEPT !.p = p]
           s == [st EXCEPT !.rollout = r]
<1>1. Saved(s)
  OBVIOUS
<1>2. r \in RolloutStatus
  BY RolloutInv DEF RolloutStatus, RolloutStatusOf
<1> HIDE DEF r
<1>3. Tame(s)
  BY <1>2, RolloutTame
<1> HIDE DEF s
<1> QED
  BY <1>1, <1>3, SavedTame

LEMMA ClosesProcessesCarriesOn == ASSUME OperatorInv, ChangeInv, ClosesProcesses PROVE CarriesOn
<1>1. st.rollout # Nil
  BY DEF ClosesProcesses, InRollout
<1>2. \/ Saved([st EXCEPT !.rollout.closed = TRUE])
      \/ \E n \in Unclosed : \/ RemovesRoleLabel(n.p)
                            \/ Commanded(n.p, AppAccess(n.p, FALSE), st)
                            \/ GivesUp(n.p, AppAccess(n.p, FALSE), FALSE)
  BY Zenon DEF ClosesProcesses
<1>3. \A n \in Unclosed : n.p \in Procs
  BY EntriesInv DEF Unclosed, Live
<1>4. CASE Saved([st EXCEPT !.rollout.closed = TRUE])
  <2> DEFINE q == st.rollout
             r == [q EXCEPT !.closed = TRUE]
             s == [st EXCEPT !.rollout = r]
  <2>1. Saved(s)
    BY <1>4
  <2>2. r \in RolloutStatus
    BY <1>1, RolloutInv DEF RolloutStatus, RolloutStatusOf
  <2> HIDE DEF r
  <2>3. Tame(s)
    BY <1>1, <2>2, RolloutTame
  <2> HIDE DEF s
  <2> QED
    BY <2>1, <2>3, SavedTame
<1>5. ASSUME NEW n \in Unclosed,
             \/ Commanded(n.p, AppAccess(n.p, FALSE), st)
             \/ GivesUp(n.p, AppAccess(n.p, FALSE), FALSE)
      PROVE  CarriesOn
  <2>1. FALSE \in BOOLEAN
    OBVIOUS
  <2>2. AppAccess(n.p, FALSE) \in Seq(Commands)
    BY <1>3, <2>1, AppAccessFacts
  <2> QED
    BY <1>3, <1>5, <2>2, SameTame, CommandPasswords, MuteCarriesOn
<1> QED
  BY <1>2, <1>4, <1>5, RoleLabelCarriesOn

LEMMA StopsProcessesCarriesOn == ASSUME OperatorInv, ChangeInv, StopsProcesses PROVE CarriesOn
<1> DEFINE q == st.rollout
           r == [q EXCEPT !.stage = "template"]
           s == [st EXCEPT !.rollout = r, !.primary = Nil, !.public = FALSE, !.loss = "resize"]
<1>1. SavedLoss(s) /\ st.rollout # Nil
  BY Zenon DEF StopsProcesses, InRollout
<1>2. r \in RolloutStatus
  BY <1>1, RolloutInv DEF RolloutStatus, RolloutStatusOf
<1> HIDE DEF r
<1>3. Tame(s)
  BY <1>1, <1>2, RolloutTame
<1> HIDE DEF s
<1> QED
  BY <1>1, <1>3, SavedTame

LEMMA RollingCarriesOn ==
    ASSUME OperatorInv, ChangeInv, NEW stage, NEW next \in {"switching", "verifying"},
           RollingReplacement(stage, next)
    PROVE  CarriesOn
<1>1. st.rollout # Nil
  BY DEF RollingReplacement, InRollout
<1>2. \/ \E old \in Known(st.rollout.p) : Replaces(old)
      \/ Saved(Advance(next))
      \/ \E n \in NextToReplace : Saved([st EXCEPT !.rollout.p = n.p])
  BY Zenon DEF RollingReplacement
<1>3. ASSUME NEW n \in NextToReplace, Saved([st EXCEPT !.rollout.p = n.p]) PROVE CarriesOn
  <2>1. n.p \in Procs \cup {Nil}
    BY EntriesInv DEF NextToReplace, NotReplaced, OthersThanPrimary
  <2> QED
    BY <1>1, <1>3, <2>1, RolloutPlaceCarriesOn
<1>4. ASSUME NEW old \in Known(st.rollout.p), Replaces(old) PROVE CarriesOn
  <2> DEFINE p == old.p
  <2>1. p \in Procs
    BY KnownFacts
  <2>2. \/ RemovesRoleLabel(p)
        \/ Fences(p, st)
        \/ UNCHANGED <<proc, st>>
        \/ Saved([st EXCEPT !.rollout.p = Nil])
    BY <1>4, Zenon DEF Replaces
  <2> HIDE DEF p
  <2>3. Nil \in Procs \cup {Nil}
    OBVIOUS
  <2> QED
    BY <1>1, <2>1, <2>2, <2>3, SameTame, FencesCarriesOn, RoleLabelCarriesOn, StillCarriesOn,
       RolloutPlaceCarriesOn
<1> QED
  BY <1>1, <1>2, <1>3, <1>4, AdvanceCarriesOn

LEMMA SwitchesPrimaryCarriesOn == ASSUME OperatorInv, ChangeInv, SwitchesPrimary PROVE CarriesOn
<1>1. st.rollout # Nil
  BY DEF SwitchesPrimary, InRollout
<1>2. \/ Saved(Advance("primary"))
      \/ \E f : Saved([st EXCEPT !.failover = f, !.empty = FALSE])
  BY Zenon DEF SwitchesPrimary
<1> QED
  BY <1>1, <1>2, AdvanceCarriesOn, FailoverTame, SavedTame

\* A complete composition has an entry for every ordinal.
LEMMA CompositionFull ==
    ASSUME OperatorInv, Cardinality(Nodes) = scene.count, NEW o \in Ordinals
    PROVE  st.nodes[o] # Nil
<1> SUFFICES ASSUME st.nodes[o] = Nil PROVE FALSE
  OBVIOUS
<1> DEFINE others == Ordinals \ {o}
           f == [n \in Nodes |-> n.p[1]]
<1>1. scene.count \in Nat \ {0}
  BY StInv DEF Scene
<1>2. IsFiniteSet(Ordinals) /\ Cardinality(Ordinals) = scene.count
  <2> DEFINE last == scene.count - 1
  <2>1. last \in Int /\ 0 \in Int /\ ~(0 > last) /\ last - 0 + 1 = scene.count
    BY <1>1
  <2>2. Ordinals = 0 .. last
    BY DEF Ordinals
  <2> HIDE DEF last
  <2> QED
    BY <2>1, <2>2, FS_Interval
<1>3. IsFiniteSet(others) /\ Cardinality(others) = scene.count - 1
  BY <1>2, FS_RemoveElement
<1>4. \A n \in Nodes : n.p[1] \in others /\ st.nodes[n.p[1]] = n
  <2>1. \A n \in Nodes : n # Nil
    BY DEF Nodes
  <2> QED
    BY <2>1, EntriesInv
<1> HIDE DEF others
<1>5. f \in [Nodes -> others]
  BY <1>4
<1>6. \A m, n \in Nodes : f[m] = f[n] => m = n
  BY <1>4
<1> HIDE DEF f
<1>7. f \in Injection(Nodes, others)
  BY <1>5, <1>6, Zenon DEF Injection, IsInjective
<1>8. Cardinality(Nodes) <= Cardinality(others)
  BY <1>3, <1>7, FS_Injection
<1> QED
  BY <1>1, <1>3, <1>8

\* In a complete composition that is ready every process has the size, but the
\* earlier ones of an ordinal.
LEMMA CompositionSized ==
    ASSUME OperatorInv, CompositionReady, NEW p \in Procs, Running(proc[p])
    PROVE  proc[p].size = st.accepted.size \/ Old(st, p)
<1> DEFINE o == p[1]
           n == st.nodes[o]
<1>1. o \in Ordinals /\ p[2] \in 1..scene.incs /\ p = <<p[1], p[2]>>
  BY ProcsAreNamed, StInv
<1>2. n # Nil /\ n \in Nodes
  BY <1>1, CompositionFull DEF CompositionReady, Nodes
<1>3. n.p \in Procs /\ n.p[1] = o
  BY <1>1, <1>2, EntriesInv
<1>4. IsPodOf(n.p) /\ proc[n.p].size = st.accepted.size
  BY <1>2 DEF CompositionReady, RolloutProcessReady, RolloutPodMatches, CurrentPod
<1>5. n.p = <<n.p[1], n.p[2]>>
  BY <1>3, ProcsAreNamed, StInv
<1>6. CASE IsPodOf(p)
  <2>1. n.p = p
    BY <1>1, <1>3, <1>4, <1>5, <1>6 DEF IsPodOf
  <2> QED
    BY <1>4, <2>1
<1>7. CASE ~IsPodOf(p)
  <2>1. Knows(st, p)
    BY <1>7 DEF OperatorInv, Tracked, Running, Up
  <2>2. PICK e \in Entries(st) : e.p = p
    BY <2>1 DEF Knows
  <2>3. CASE e \in Nodes
    <3>1. e = n
      BY <2>2, <2>3, EntriesInv
    <3> QED
      BY <1>4, <2>2, <3>1
  <2>4. CASE e \in st.prev
    BY <2>2, <2>4, EntriesInv DEF Old
  <2> QED
    BY <2>3, <2>4, EntriesInv
<1> QED
  BY <1>6, <1>7

LEMMA VerifiesRolloutChange ==
    ASSUME OperatorInv, ChangeInv, OperatorInv', SceneKept, VerifiesRollout PROVE ChangeNext
<1> DEFINE a == [st.applied EXCEPT !.size = st.accepted.size]
           s == [st EXCEPT !.applied = a, !.rollout = Nil]
           t == ApplyOperationalPhase(s)
<1>1. /\ st.rollout # Nil /\ st.rotation = Nil /\ CompositionReady
      /\ SetsPodMetadata \/ Saved(t)
  BY Zenon DEF VerifiesRollout, InRollout, AfterRotation, RotationDue
<1>2. CASE SetsPodMetadata
  <2>1. UNCHANGED <<proc, st>>
    BY <1>2 DEF SetsPodMetadata
  <2> QED
    BY <2>1, StillCarriesOn, CarriedOn
<1>3. CASE Saved(t)
  <2>1. a \in Configuration
    BY StInv DEF Configuration
  <2> HIDE DEF a
  <2>2. /\ s \in Status /\ s.nodes = st.nodes /\ s.rollout = Nil /\ s.accepted = st.accepted
        /\ s.reported = st.reported /\ s.prev = st.prev /\ s.rotation = st.rotation
    BY <2>1, StInv DEF Status
  <2> HIDE DEF s
  <2>3. /\ t.accepted = s.accepted /\ t.rotation = s.rotation /\ t.rollout = s.rollout
        /\ t.nodes = s.nodes
        /\ t.reported => s.reported \/ \A q \in s.prev : q.term
    BY <2>2 DEF ApplyOperationalPhase, Status
  <2>4. st' = t /\ UNCHANGED proc
    BY <1>3 DEF Saved, machine
  <2> HIDE DEF t
  <2>5. ~st.reported
    BY <1>1 DEF ChangeInv, ChangeOK, Fitted
  <2>6. /\ st'.nodes = st.nodes /\ st'.accepted = st.accepted /\ st'.rotation = Nil
        /\ st'.rollout = Nil
        /\ st'.reported => ~Unterminated
    BY <1>1, <2>2, <2>3, <2>4, <2>5 DEF Unterminated
  <2>7. ProcsOnward /\ EntriesStay(st')
    BY <2>4, <2>6, UnchangedOnward, SameEntriesStay
  <2>8. \A p \in Procs : Fine(proc'[p], st'.accepted.pw)
    BY <1>1, <2>4, <2>6, ChangeFacts DEF RotationOver
  <2>9. Credentialed(proc', st')
    BY <2>7, <2>8, CredentialsCarriedOn
  <2>10. ASSUME NEW p \in Procs, Running(proc'[p])
         PROVE  proc'[p].size = st'.accepted.size \/ (Old(st', p) /\ ~st'.reported)
    <3>1. proc[p].size = st.accepted.size \/ Old(st, p)
      BY <1>1, <2>4, <2>10, CompositionSized
    <3>2. Old(st, p) => Unterminated
      BY <2>4, <2>10, OldRunning
    <3> QED
      BY <2>4, <2>6, <3>1, <3>2 DEF Old
  <2> QED
    BY <2>6, <2>9, <2>10 DEF ChangeNext, ChangeOK, Fitted
<1> QED
  BY <1>1, <1>2, <1>3

LEMMA RolloutChange ==
    ASSUME OperatorInv, ChangeInv, OperatorInv', SceneKept, ReconcileRollout PROVE ChangeNext
<1>1. CASE PreparesRollout \/ UpdatesTemplate \/ StartsRollout
  <2>1. st.rollout # Nil
    BY <1>1 DEF PreparesRollout, UpdatesTemplate, StartsRollout, InRollout
  <2>2. \E stage \in {"stopping", "template", "starting", "replicas", "verifying"} :
            Saved(Advance(stage))
    BY <1>1 DEF PreparesRollout, UpdatesTemplate, StartsRollout
  <2> QED
    BY <2>1, <2>2, AdvanceCarriesOn, CarriedOn
<1>2. CASE \/ RollingReplacement("replicas", "switching")
           \/ RollingReplacement("primary", "verifying")
  BY <1>2, RollingCarriesOn, CarriedOn
<1> QED
  BY <1>1, <1>2, ClosesProcessesCarriesOn, StopsProcessesCarriesOn, SwitchesPrimaryCarriesOn,
     CarriedOn, VerifiesRolloutChange DEF ReconcileRollout

-----------------------------------------------------------------------------
(* Topology, admission, the end of a pass                                   *)

LEMMA AssignsInitialPrimaryCarriesOn ==
    ASSUME OperatorInv, ChangeInv, AssignsInitialPrimary PROVE CarriesOn
<1> DEFINE p == st.nodes[0].p
           s == [st EXCEPT !.primary = p]
<1>1. st.nodes[0] # Nil /\ (Saved(s) \/ Promotes(p, st))
  BY Zenon DEF AssignsInitialPrimary
<1>2. p \in Procs
  BY <1>1, EntriesInv, ProcsAreNamed, StInv
<1> HIDE DEF p
<1>3. /\ s.nodes = st.nodes /\ s.accepted = st.accepted /\ s.rotation = st.rotation
      /\ s.rollout = st.rollout /\ s.reported = st.reported
  BY StInv DEF Status
<1> HIDE DEF s
<1>4. Tame(s)
  BY <1>3, FieldsTame
<1> QED
  BY <1>1, <1>2, <1>4, SameTame, SavedTame, PromotesCarriesOn

LEMMA FollowsPrimaryCarriesOn == ASSUME OperatorInv, ChangeInv, FollowsPrimary PROVE CarriesOn
<1>1. PICK n \in Misdirected :
          Commanded(n.p, FollowCommands(n.p), st) \/ BrokenOff(n.p, FollowCommands(n.p))
  BY DEF FollowsPrimary
<1>2. n.p \in Procs
  BY EntriesInv DEF Misdirected, Live
<1>3. st.primary \in Procs
  BY EntriesInv DEF FollowsPrimary, FollowablePrimary, PrimaryNode
<1> QED
  BY <1>1, <1>2, <1>3, FollowFacts, CommandPasswords, MuteCarriesOn, SameTame

LEMMA PendingTame == ASSUME OperatorInv PROVE Tame(Pending)
<1> DEFINE s == Pending
<1>1. /\ s.nodes = st.nodes /\ s.accepted = st.accepted /\ s.rotation = st.rotation
      /\ s.rollout = st.rollout /\ s.reported = st.reported
  BY StInv DEF Pending, Status
<1> HIDE DEF s
<1>2. Tame(s)
  BY <1>1, FieldsTame
<1> QED
  BY <1>2 DEF s

LEMMA PrevTame == ASSUME OperatorInv, NEW prev PROVE Tame([st EXCEPT !.prev = prev])
<1> DEFINE s == [st EXCEPT !.prev = prev]
<1>1. /\ s.nodes = st.nodes /\ s.accepted = st.accepted /\ s.rotation = st.rotation
      /\ s.rollout = st.rollout /\ s.reported = st.reported
  BY StInv DEF Status
<1> HIDE DEF s
<1>2. Tame(s)
  BY <1>1, FieldsTame
<1> QED
  BY <1>2 DEF s

LEMMA EndOfPassCarriesOn ==
    ASSUME OperatorInv, ChangeInv,
           ReconcilePodMetadata \/ AdmissionPending \/ ReconcileProcessHistory
    PROVE  CarriesOn
<1>1. CASE ReconcilePodMetadata
  BY <1>1, StillCarriesOn DEF ReconcilePodMetadata, SetsPodMetadata
<1>2. CASE AdmissionPending
  BY <1>2, PendingTame, SavedTame DEF AdmissionPending
<1>3. CASE ReconcileProcessHistory
  <2> DEFINE prev == {q \in st.prev : ~q.term \/ Required(q)}
  <2>1. Saved([st EXCEPT !.prev = prev])
    BY <1>3, Zenon DEF ReconcileProcessHistory
  <2> QED
    BY <2>1, PrevTame, SavedTame
<1> QED
  BY <1>1, <1>2, <1>3

LEMMA AdmittedNodeTame ==
    ASSUME OperatorInv, NEW n \in Nodes PROVE Tame(AdmittedNode(st, n.p))
<1> DEFINE o == n.p[1]
           pw == st.accepted.pw
           m == [n EXCEPT !.app = TRUE, !.pw = pw]
           s == [st EXCEPT !.nodes[o] = m]
<1>1. o \in Ordinals /\ st.nodes[o] = n /\ n # Nil /\ n \in NodeStatus /\ pw \in Nat
  BY EntriesInv, StInv
<1>2. AdmittedNode(st, n.p) = s
  BY <1>1, Zenon DEF AdmittedNode
<1> HIDE DEF o, pw
<1>3. m \in NodeStatus /\ m.p = n.p
  BY <1>1 DEF NodeStatus, NodeStatusOf
<1> HIDE DEF m
<1>4. m # Nil
  BY <1>3, EntryThere
<1>5. Tame(s)
  BY <1>1, <1>3, <1>4, EntryTame
<1> QED
  BY <1>2, <1>5

\* Access is given with the present password, to a process that has an entry.
LEMMA AccessCarriesOn ==
    ASSUME OperatorInv, ChangeInv, NEW n \in Nodes, NEW s, Tame(s),
           Commanded(n.p, AppAccess(n.p, TRUE), s) \/ BrokenOff(n.p, AppAccess(n.p, TRUE))
    PROVE  CarriesOn
<1>1. n.p \in Procs /\ Knows(st, n.p)
  BY EntriesInv DEF Knows
<1>2. TRUE \in BOOLEAN
  OBVIOUS
<1> QED
  BY <1>1, <1>2, AppAccessFacts, CommandPasswords, CommandedCarriesOn

LEMMA AdmitsReplicaCarriesOn == ASSUME OperatorInv, ChangeInv, AdmitsReplica PROVE CarriesOn
<1>1. PICK n \in AdmissibleReplicas :
        \E good \in BOOLEAN :
           \/ Commanded(n.p, AppAccess(n.p, TRUE),
                        IF good THEN ApplyOperationalPhase(AdmittedNode(st, n.p)) ELSE st)
           \/ BrokenOff(n.p, AppAccess(n.p, TRUE))
  BY Zenon DEF AdmitsReplica
<1>2. n \in Nodes
  BY DEF AdmissibleReplicas, Live
<1> DEFINE s == ApplyOperationalPhase(AdmittedNode(st, n.p))
<1>3. Tame(s)
  BY <1>2, AdmittedNodeTame, AdmittedNodeFacts, PhaseTame
<1>4. \/ Commanded(n.p, AppAccess(n.p, TRUE), s) \/ Commanded(n.p, AppAccess(n.p, TRUE), st)
      \/ BrokenOff(n.p, AppAccess(n.p, TRUE))
  BY <1>1
<1> HIDE DEF s
<1> QED
  BY <1>2, <1>3, <1>4, SameTame, AccessCarriesOn

LEMMA AdmittedTame ==
    ASSUME OperatorInv, NEW n \in Nodes PROVE Tame(Admitted(n.p))
<1> DEFINE p == n.p
           t == AdmittedNode(st, p)
           applied == IF st.initialized THEN t.applied ELSE st.accepted
           u == [t EXCEPT !.initialized = TRUE, !.primary = p]
           s == [u EXCEPT !.public = TRUE, !.applied = applied]
<1>1. p \in Procs
  BY EntriesInv
<1>2. Admitted(n.p) = ApplyOperationalPhase(s)
  BY DEF Admitted
<1>3. Tame(t) /\ t \in Status /\ t.prev = st.prev /\ t.applied = st.applied
  BY AdmittedNodeTame, AdmittedNodeFacts
<1> HIDE DEF t
<1>4. applied \in Configuration
  BY <1>3, StInv
<1> HIDE DEF applied
<1>5. /\ u \in Status /\ u.nodes = t.nodes /\ u.prev = t.prev /\ u.accepted = t.accepted
      /\ u.rotation = t.rotation /\ u.rollout = t.rollout /\ u.reported = t.reported
  BY <1>1, <1>3 DEF Status
<1> HIDE DEF u
<1>6. /\ s \in Status /\ s.nodes = t.nodes /\ s.prev = st.prev /\ s.accepted = t.accepted
      /\ s.rotation = t.rotation /\ s.rollout = t.rollout /\ s.reported = t.reported
  BY <1>3, <1>4, <1>5 DEF Status
<1> HIDE DEF s
<1>7. Tame(s)
  BY <1>3, <1>6 DEF Tame, Forward, EntriesStay
<1> QED
  BY <1>2, <1>6, <1>7, PhaseTame

LEMMA AdmitsAppCarriesOn == ASSUME OperatorInv, ChangeInv, AdmitsApp PROVE CarriesOn
<1>1. PICK n \in AdmissionProcess :
        \/ Saved(Admitted(n.p))
        \/ Commanded(n.p, AppAccess(n.p, TRUE), Admitted(n.p))
        \/ Commanded(n.p, AppAccess(n.p, TRUE), Pending)
        \/ BrokenOff(n.p, AppAccess(n.p, TRUE))
  BY DEF AdmitsApp
<1>2. n \in Nodes
  BY DEF AdmissionProcess, Live
<1> QED
  BY <1>1, <1>2, AdmittedTame, PendingTame, SavedTame, AccessCarriesOn

-----------------------------------------------------------------------------
(* Entries that report a stop                                               *)

LEMMA MarkerTame ==
    ASSUME NEW s \in Status, Tame(s), NEW cond PROVE Tame(LosesMarker(s, cond))
<1> DEFINE t == LosesMarker(s, cond)
<1>1. /\ t.nodes = s.nodes /\ t.accepted = s.accepted /\ t.rotation = s.rotation
      /\ t.rollout = s.rollout /\ t.reported = s.reported
  BY DEF LosesMarker, Status
<1> HIDE DEF t
<1>2. Tame(t)
  BY <1>1 DEF Tame, Forward, EntriesStay
<1> QED
  BY <1>2 DEF t

LEMMA SaveNodeDeletionTame ==
    ASSUME OperatorInv, NEW o \in Ordinals, st.nodes[o] # Nil
    PROVE  Tame(SaveNodeDeletion(st.nodes[o]))
<1> DEFINE n == st.nodes[o]
           m == Stopped(n)
           s == WithNode(st, m)
           cond == AffectsPrimary(n.p[1]) \/ (HA /\ Idle)
<1>1. n \in NodeStatus /\ n # Nil /\ n.p[1] = o
  BY EntriesInv
<1>2. m \in NodeStatus /\ m # Nil /\ m.p = n.p
  BY <1>1, EntryStopped
<1>3. SaveNodeDeletion(n) = LosesMarker(s, cond)
  BY DEF SaveNodeDeletion
<1> HIDE DEF m, cond
<1>4. s \in Status /\ s = [st EXCEPT !.nodes[o] = m]
  BY <1>1, <1>2, EntryField
<1> HIDE DEF s
<1>5. Tame(s)
  BY <1>1, <1>2, <1>4, EntryTame
<1> QED
  BY <1>3, <1>4, <1>5, MarkerTame

LEMMA ProcessUnavailableTame ==
    ASSUME OperatorInv, NEW o \in Ordinals PROVE Tame(ProcessUnavailable(o))
<1> DEFINE n == st.nodes[o]
           m == [n EXCEPT !.ready = FALSE]
           s == IF n = Nil THEN st ELSE [st EXCEPT !.nodes[o] = m]
           cond == AffectsPrimary(o)
<1>1. ProcessUnavailable(o) = LosesMarker(s, cond)
  BY DEF ProcessUnavailable
<1>2. CASE n = Nil
  <2>1. s = st
    BY <1>2
  <2> HIDE DEF s, cond
  <2> QED
    BY <1>1, <2>1, SameTame, MarkerTame, StInv
<1>3. CASE n # Nil
  <2>1. n \in NodeStatus
    BY <1>3, EntriesInv
  <2>2. m \in NodeStatus /\ m.p = n.p
    BY <2>1 DEF NodeStatus, NodeStatusOf
  <2>3. m # Nil
    BY <2>2, EntryThere
  <2> HIDE DEF m, cond
  <2>4. s \in Status /\ s = [st EXCEPT !.nodes[o] = m]
    BY <1>3, <2>2, EntryField
  <2> HIDE DEF s
  <2>5. Tame(s)
    BY <1>3, <2>2, <2>3, <2>4, EntryTame
  <2> QED
    BY <1>1, <2>4, <2>5, MarkerTame
<1> QED
  BY <1>2, <1>3

LEMMA ProofLostTame == ASSUME OperatorInv PROVE Tame(TerminationProofLost)
<1> DEFINE s == TerminationProofLost
<1>1. /\ s.nodes = st.nodes /\ s.accepted = st.accepted /\ s.rotation = st.rotation
      /\ s.rollout = st.rollout /\ s.reported = st.reported
  BY StInv DEF TerminationProofLost, Status
<1> HIDE DEF s
<1>2. Tame(s)
  BY <1>1, FieldsTame
<1> QED
  BY <1>2 DEF s

\* The entry of an ordinal is now about the process of its Pod.
LEMMA LaterEntryTame ==
    ASSUME OperatorInv, NEW o \in Ordinals, HasPod(o), NEW e, e # Nil, e.p = CurrentProc(o),
           NEW s, s.nodes = [st.nodes EXCEPT ![o] = e], s.accepted = st.accepted,
           s.rotation = st.rotation, s.rollout = st.rollout, s.reported = st.reported
    PROVE  Tame(s)
<1> DEFINE n == st.nodes[o]
<1>1. e.p[2] = pod[o].inc /\ pod[o].inc \in Nat
  BY LaterProcess, StInv DEF Scene, Pod
<1>2. n # Nil => n.p[2] <= e.p[2]
  <2>1. n # Nil => n.p \in Procs /\ n.p[1] = o /\ proc[n.p].run \in {"up", "down"}
    BY EntriesInv
  <2>2. n # Nil => n.p[2] \in Nat
    BY <2>1, ProcsAreNamed, StInv DEF Scene
  <2>3. n # Nil => n.p = CurrentProc(o) \/ n.p[2] < pod[o].inc
    BY <2>1, LaterProcess
  <2> HIDE DEF n
  <2> QED
    BY <1>1, <2>2, <2>3
<1>3. ASSUME NEW i \in Ordinals, st.nodes[i] # Nil
      PROVE  s.nodes[i] # Nil /\ st.nodes[i].p[2] <= s.nodes[i].p[2]
  <2>1. s.nodes[i] = IF i = o THEN e ELSE st.nodes[i]
    BY StInv
  <2>2. CASE i = o
    BY <1>2, <1>3, <2>1, <2>2
  <2>3. CASE i # o
    <3>1. s.nodes[i] = st.nodes[i]
      BY <2>1, <2>3
    <3>2. st.nodes[i].p[2] <= st.nodes[i].p[2]
      BY <1>3, SameTame DEF Tame, Forward, EntriesStay
    <3> QED
      BY <1>3, <3>1, <3>2
  <2> QED
    BY <2>2, <2>3
<1> QED
  BY <1>3, SameTame DEF Tame, Forward, EntriesStay

LEMMA ContainerTerminationTame ==
    ASSUME OperatorInv, NEW o \in Ordinals, HasPod(o) PROVE Tame(SaveContainerTermination(o))
<1> DEFINE p == CurrentProc(o)
           n == st.nodes[o]
           same == n # Nil /\ n.p = p
           e == IF same THEN Stopped(n) ELSE Stopped(NodeOf(p))
           kept == IF n = Nil \/ same \/ st.deletion = Nil THEN st.prev ELSE st.prev \cup {n}
           prev == {IF q.p = p THEN Stopped(q) ELSE q : q \in kept}
           cond == AffectsPrimary(o)
           s == LosesMarker([WithNode(st, e) EXCEPT !.prev = prev], cond)
<1>1. SaveContainerTermination(o) = s
  BY DEF SaveContainerTermination
<1>2. p \in Procs /\ p[1] = o
  BY LaterProcess
<1>3. e \in NodeStatus /\ e # Nil /\ e.p = p
  <2>1. NodeOf(p) \in NodeStatus /\ NodeOf(p).p = p
    BY <1>2, NodeOfFacts
  <2>2. same => n \in NodeStatus
    BY EntriesInv
  <2> HIDE DEF n, p
  <2> QED
    BY <2>1, <2>2, EntryStopped
<1> HIDE DEF e, prev, cond
<1>4. /\ s.nodes = [st.nodes EXCEPT ![o] = e] /\ s.accepted = st.accepted
      /\ s.rotation = st.rotation /\ s.rollout = st.rollout /\ s.reported = st.reported
  BY <1>2, <1>3, StInv DEF LosesMarker, WithNode, Status
<1> HIDE DEF s
<1> QED
  BY <1>1, <1>3, <1>4, LaterEntryTame

-----------------------------------------------------------------------------
(* Deletion                                                                 *)

LEMMA DeletionTame ==
    ASSUME OperatorInv, NEW d, NEW s,
           s = [st EXCEPT !.deletion = d] \/ s = [st EXCEPT !.deletion = d, !.public = FALSE]
    PROVE  Tame(s)
<1>1. /\ s.nodes = st.nodes /\ s.accepted = st.accepted /\ s.rotation = st.rotation
      /\ s.rollout = st.rollout /\ s.reported = st.reported
  BY StInv DEF Status
<1> QED
  BY <1>1, FieldsTame

LEMMA DisablesAppCarriesOn == ASSUME OperatorInv, ChangeInv, DisablesApp PROVE CarriesOn
<1>1. PICK o \in op.todo : DisablesOrdinal(o)
  BY DEF DisablesApp
<1>2. UNCHANGED st /\ o \in Ordinals
  BY <1>1, StInv DEF DisablesApp, Memory
<1> DEFINE p == CurrentProc(o)
           cmds == AppAccess(p, FALSE)
<1>3. CASE HasPod(o) /\ Reachable(p) /\ (Session(p, cmds) \/ Interrupted(p, cmds))
  <2>1. p \in Procs /\ Up(p) /\ FALSE \in BOOLEAN
    BY <1>2, <1>3, LaterProcess DEF Reachable
  <2>2. cmds \in Seq(Commands) /\ AllMute(cmds) /\ AllRight(cmds, st.accepted.pw)
    BY <2>1, AppAccessFacts, CommandPasswords, MuteIsRight
  <2> HIDE DEF p, cmds
  <2> QED
    BY <1>2, <1>3, <2>1, <2>2, SessionOnward, SameTame DEF CarriesOn
<1>4. CASE UNCHANGED proc
  BY <1>2, <1>4, StillCarriesOn
<1> QED
  BY <1>1, <1>3, <1>4 DEF DisablesOrdinal, machine

LEMMA DeletionCarriesOn == ASSUME OperatorInv, ChangeInv, ReconcileDeletion PROVE CarriesOn
<1>1. CASE StartsDeletion \/ RemovesNetwork \/ AppDisabled
  BY <1>1, DeletionTame, SavedTame DEF StartsDeletion, RemovesNetwork, AppDisabled
<1>2. CASE RequestsDeletionOfPods
  <2>1. UNCHANGED proc /\ (UNCHANGED st \/ st' = [st EXCEPT !.deletion = "verifying"])
    BY <1>2, Zenon DEF RequestsDeletionOfPods
  <2> QED
    BY <2>1, StillCarriesOn, DeletionTame, SavedCarriesOn
<1>3. CASE VerifiesDeletion
  <2>1. PICK o \in Ordinals :
          /\ UNCHANGED proc
          /\ \/ UNCHANGED st
             \/ HasPod(o) /\ st' = SaveContainerTermination(o)
             \/ st.nodes[o] # Nil /\ st' = SaveNodeDeletion(st.nodes[o])
    BY <1>3 DEF VerifiesDeletion, VerifiesOrdinal
  <2> QED
    BY <2>1, StillCarriesOn, ContainerTerminationTame, SaveNodeDeletionTame, SavedCarriesOn
<1>4. CASE VerifiesPrevious
  <2>1. PICK q : Saved([st EXCEPT !.prev = (@ \ {q}) \cup {Stopped(q)}])
    BY <1>4, Zenon DEF VerifiesPrevious
  <2> DEFINE prev == (st.prev \ {q}) \cup {Stopped(q)}
  <2>2. Saved([st EXCEPT !.prev = prev])
    BY <2>1
  <2> QED
    BY <2>2, PrevTame, SavedTame
<1>5. CASE FinishesDeletion
  BY <1>5, StillCarriesOn DEF FinishesDeletion, machine
<1> QED
  BY <1>1, <1>2, <1>3, <1>4, <1>5, DisablesAppCarriesOn DEF ReconcileDeletion

-----------------------------------------------------------------------------
(* Observation                                                              *)

LEMMA WithoutProcessCarriesOn ==
    ASSUME OperatorInv, ChangeInv, NEW o \in Ordinals, WithoutProcess(o) PROVE CarriesOn
<1> DEFINE n == st.nodes[o]
<1>1. UNCHANGED proc
  BY Zenon DEF WithoutProcess
<1>2. \/ n # Nil /\ st' = SaveNodeDeletion(n)
      \/ st' = ProcessUnavailable(o)
      \/ st' = TerminationProofLost
      \/ HasPod(o) /\ st' = SaveContainerTermination(o)
      \/ st' = st
  BY DEF WithoutProcess
<1>3. Tame(st')
  BY <1>2, SaveNodeDeletionTame, ProcessUnavailableTame, ProofLostTame, ContainerTerminationTame,
     SameTame
<1> QED
  BY <1>1, <1>3, SavedCarriesOn

LEMMA ClosesAccessCarriesOn ==
    ASSUME OperatorInv, ChangeInv, NEW o \in Ordinals, ClosesAccess(o) PROVE CarriesOn
<1> DEFINE p == CurrentProc(o)
           cmds == AppAccess(p, FALSE)
<1>1. /\ Up(p) /\ HasPod(o) /\ UNCHANGED st
      /\ Session(p, cmds) \/ Interrupted(p, cmds)
  BY DEF ClosesAccess, Inspectable, Reachable
<1>2. p \in Procs
  BY <1>1, LaterProcess
<1>3. FALSE \in BOOLEAN
  OBVIOUS
<1>4. cmds \in Seq(Commands) /\ AllMute(cmds)
  BY <1>2, <1>3, AppAccessFacts, CommandPasswords
<1> HIDE DEF p, cmds
<1>5. ProcsOnward
  BY <1>1, <1>2, <1>4, MuteIsRight, SessionOnward
<1> QED
  BY <1>1, <1>5, SameTame DEF CarriesOn

LEMMA WithoutAnswerCarriesOn ==
    ASSUME OperatorInv, ChangeInv, NEW o \in Ordinals, WithoutAnswer(o) PROVE CarriesOn
<1> DEFINE p == CurrentProc(o)
           n == st.nodes[o]
<1>1. UNCHANGED proc
  BY DEF WithoutAnswer, machine
<1>2. \E kind : \E obs \in {"error", "failed", "stuck", "busy", "busylong"} :
          st' = ObservationError(o, p, kind, obs)
  BY NextObsFacts DEF WithoutAnswer
<1>3. PICK kind, obs : obs \in {"error", "failed", "stuck", "busy", "busylong"}
                       /\ st' = ObservationError(o, p, kind, obs)
  BY <1>2
<1> DEFINE known == n # Nil /\ n.p = p
           ready == PodReady(p)
           e == [n EXCEPT !.ready = ready, !.obs = obs]
           s == IF known THEN [st EXCEPT !.nodes[o] = e] ELSE st
<1>4. e = SeenAgain(n, ready, obs)
  BY DEF SeenAgain
<1>5. \E cond : st' = LosesMarker(s, cond)
  <2> DEFINE confirmed == kind # "transport" \/ (known /\ obs \in {"failed", "stuck"})
             cond == (AffectsPrimary(o) /\ confirmed) \/ (HA /\ Idle)
  <2>1. st' = LosesMarker(IF known THEN Reseen(st, o, ready, obs) ELSE st, cond)
    BY <1>3 DEF ObservationError, Reseen
  <2>2. Reseen(st, o, ready, obs) = [st EXCEPT !.nodes[o] = e]
    BY <1>4, RewrittenTwice, StInv
  <2> HIDE DEF cond, known, e, ready, n, p
  <2>3. (IF known THEN Reseen(st, o, ready, obs) ELSE st) = s
    BY <2>2
  <2> QED
    BY <2>1, <2>3
<1>6. PICK cond : st' = LosesMarker(s, cond)
  BY <1>5
<1>7. n # Nil => n \in NodeStatus
  BY EntriesInv
<1>8. n # Nil => e \in NodeStatus /\ e # Nil /\ e.p = n.p
  <2>1. ready \in BOOLEAN
    BY DEF PodReady, Up, NodeReady
  <2> HIDE DEF ready
  <2>2. n # Nil => e \in NodeStatus /\ e.p = n.p
    BY <1>3, <1>7, <2>1 DEF NodeStatus, NodeStatusOf
  <2> HIDE DEF e
  <2> QED
    BY <2>2, EntryThere
<1> HIDE DEF e, p
<1>9. s \in Status /\ Tame(s)
  <2>1. CASE known
    <3>1. s = [st EXCEPT !.nodes[o] = e]
      BY <2>1
    <3> HIDE DEF s
    <3> QED
      BY <1>8, <2>1, <3>1, EntryField, EntryTame
  <2>2. CASE ~known
    <3>1. s = st
      BY <2>2
    <3> HIDE DEF s
    <3> QED
      BY <3>1, SameTame, StInv
  <2> QED
    BY <2>1, <2>2
<1> HIDE DEF s
<1>10. Tame(st')
  BY <1>6, <1>9, MarkerTame
<1> QED
  BY <1>1, <1>10, SavedCarriesOn

LEMMA WithAnswerCarriesOn ==
    ASSUME OperatorInv, ChangeInv, NEW o \in Ordinals, WithAnswer(o) PROVE CarriesOn
<1> DEFINE p == CurrentProc(o)
           taken == IF p \in op.controlled THEN proc[p] ELSE TakeControl(proc[p])
           e == Observed(o, p)
<1>1. /\ HasPod(o) /\ Up(p)
      /\ st' = IdentityChanged(o, p) \/ st' = RecordProcess(o, p)
      /\ proc' = [proc EXCEPT ![p] = taken]
  BY Zenon DEF WithAnswer, Inspectable, Reachable
<1>2. p \in Procs /\ p[1] = o
  BY <1>1, LaterProcess
<1>3. e \in NodeStatus /\ e # Nil /\ e.p = p
  BY <1>2, ObservedFacts, EntryThere
<1> HIDE DEF e
<1>4. /\ st'.nodes = [st.nodes EXCEPT ![o] = e]
      /\ st'.rotation = st.rotation /\ st'.rollout = st.rollout
      /\ st'.accepted = st.accepted /\ st'.reported = st.reported
  <2>1. CASE st' = RecordProcess(o, p)
    BY <1>2, <1>3, <2>1, StInv DEF RecordProcess, LosesMarker, WithNode, Status, e
  <2>2. CASE st' = IdentityChanged(o, p)
    BY <1>2, <1>3, <2>2, StInv DEF IdentityChanged, LosesMarker, WithNode, Status, e
  <2> QED
    BY <1>1, <2>1, <2>2
<1>5. Tame(st')
  BY <1>1, <1>3, <1>4, LaterEntryTame
<1>6. Onward(taken, proc[p], p)
  <2> DEFINE t == TakeControl(proc[p])
  <2>1. proc[p] \in Process
    BY <1>2, ProcFacts
  <2>2. /\ t.late = {} /\ t.app = proc[p].app /\ t.clients = proc[p].clients
        /\ t.pw = proc[p].pw /\ t.run = proc[p].run /\ t.size = proc[p].size
    BY <2>1, TakenControl DEF TakeControl, Process
  <2> HIDE DEF t, p
  <2>3. t.run = "up" /\ (Unopened(proc[p]) => Unopened(t))
    BY <1>1, <2>2 DEF Unopened, Lively, Up
  <2>4. \A v : Fine(proc[p], v) => Fine(t, v)
    BY <2>2 DEF Fine, Held
  <2>5. Onward(t, proc[p], p)
    BY <2>2, <2>3, <2>4 DEF Onward, Loyal, Grown, Running
  <2>6. Onward(proc[p], proc[p], p)
    BY <1>2, SelfOnward
  <2> QED
    BY <2>5, <2>6 DEF t
<1> HIDE DEF taken, p
<1>7. ProcsOnward
  BY <1>1, <1>6, OneOnward
<1> QED
  BY <1>5, <1>7 DEF CarriesOn

LEMMA ObservesCarriesOn == ASSUME OperatorInv, ChangeInv, Observes PROVE CarriesOn
  BY WithoutProcessCarriesOn, WithAnswerCarriesOn, ClosesAccessCarriesOn, WithoutAnswerCarriesOn
     DEF Observes, ObservesProcess, ReconcileProcessOrdinal

-----------------------------------------------------------------------------
(* Every step, and the initial states                                       *)

LEMMA NextChange ==
    ASSUME OperatorInv, ChangeInv, OperatorInv', SceneKept, Next PROVE ChangeNext
<1>1. CASE Acts
  BY <1>1, AcceptedConfigurationChange, ResourceCarriesOn, WorkloadCarriesOn,
     AcceptsManualFencingCarriesOn, ProcessRecoveryCarriesOn, FailoverCarriesOn, RotationChange,
     RolloutChange, AssignsInitialPrimaryCarriesOn, FollowsPrimaryCarriesOn, EndOfPassCarriesOn,
     AdmitsReplicaCarriesOn, AdmitsAppCarriesOn, DeletionCarriesOn, CarriedOn DEF Acts
<1>2. CASE Observes
  BY <1>2, ObservesCarriesOn, CarriedOn
<1>3. CASE EndsPass \/ Restart \/ Kubelet \/ Copies \/ Returns \/ Failures \/ User
  BY <1>3, OutsideCarriesOn, CarriedOn
<1> QED
  BY <1>1, <1>2, <1>3 DEF Next

LEMMA InitChange == Init => ChangeInv
<1> SUFFICES ASSUME Init PROVE ChangeInv
  OBVIOUS
<1>1. scene \in Scene /\ OperatorInv
  BY InitProcesses, InitInv
<1> DEFINE Served(p) == [Blank EXCEPT !.run = "up", !.role = Serving0(p[1]).role,
                                      !.source = Serving0(p[1]).up, !.hist = 1, !.app = TRUE,
                                      !.clients = {1}, !.pw = 1, !.size = InitialSize]
<1>2. proc = [p \in Procs |-> IF scene.serving /\ p[2] = 1 THEN Served(p) ELSE Blank]
  BY Zenon DEF Init
<1>3. ASSUME NEW p \in Procs
      PROVE  LET r == proc[p]
             IN  IF scene.serving /\ p[2] = 1
                 THEN r.run = "up" /\ Fine(r, 1) /\ r.size = InitialSize
                 ELSE Unopened(r) /\ r.run = "absent" /\ Fine(r, 1)
  <2>1. Unopened(Blank) /\ Blank.run = "absent" /\ Fine(Blank, 1)
    BY DEF Unopened, Lively, Fine, Held, Blank
  <2> DEFINE role == Serving0(p[1]).role
             up == Serving0(p[1]).up
             r == [Blank EXCEPT !.run = "up", !.role = role, !.source = up, !.hist = 1, !.app = TRUE,
                                !.clients = {1}, !.pw = 1, !.size = InitialSize]
  <2> HIDE DEF role, up
  <2>2. /\ r.run = "up" /\ r.late = {} /\ r.app = TRUE /\ r.clients = {1} /\ r.pw = 1
        /\ r.size = InitialSize
    BY DEF Blank
  <2>3. Served(p) = r
    BY DEF role, up
  <2> HIDE DEF Served, r
  <2>4. Fine(r, 1)
    BY <2>2 DEF Fine, Held
  <2> QED
    BY <1>2, <2>1, <2>2, <2>3, <2>4
<1>4. /\ st.rotation = Nil /\ st.rollout = Nil
      /\ st.accepted.pw = 1 /\ st.accepted.size = InitialSize
  BY DEF Init
<1>5. ASSUME NEW p \in Procs, scene.serving, p[2] = 1 PROVE Knows(st, p)
  <2> DEFINE o == p[1]
  <2>1. o \in Ordinals /\ p = <<o, 1>>
    BY <1>1, <1>5, ProcsAreNamed
  <2>2. st.nodes[o] = Serving0(o)
    BY <1>5, <2>1 DEF Init
  <2>3. Serving0(o).p = <<o, 1>>
    BY <1>1, <2>1, ServingFacts
  <2>4. Serving0(o) # Nil
    BY <1>1, <2>1, ServingFacts, EntryThere
  <2> QED
    BY <2>1, <2>2, <2>3, <2>4 DEF Knows, Entries
<1>6. Credentialed(proc, st)
  BY <1>3, <1>4, <1>5 DEF Credentialed
<1>7. Fitted(proc, st)
  BY <1>3, <1>4 DEF Fitted, Running
<1> QED
  BY <1>6, <1>7 DEF ChangeInv, ChangeOK

LEMMA ChangeGoesOn == ASSUME SceneKept, ChangeNext PROVE ChangeInv'
  BY KeptSets
     DEF ChangeNext, ChangeInv, ChangeOK, Credentialed, Fitted, RotationOver, Knows, Entries, Old,
         Fine, Held, Right, Unopened, Lively, Mute, Running

LEMMA ChangeNextInv == OperatorInv /\ ChangeInv /\ [Next]_vars => ChangeInv'
<1> SUFFICES ASSUME OperatorInv, ChangeInv, [Next]_vars PROVE ChangeInv'
  OBVIOUS
<1>1. SceneKept
  BY NextStep, StutteringStep DEF Steady
<1>2. OperatorInv'
  BY NextInv
<1>3. ASSUME UNCHANGED vars PROVE ChangeNext
  <2>1. UNCHANGED <<proc, st>>
    BY <1>3 DEF vars
  <2> QED
    BY <1>1, <1>2, <2>1, StillCarriesOn, CarriedOn
<1> QED
  BY <1>1, <1>2, <1>3, NextChange, ChangeGoesOn

-----------------------------------------------------------------------------
(* The theorems on the changes                                              *)

\* Once finishCredentialRotation is through nobody is connected with an old
\* password, whatever broke off, was lost or came late: a process is confirmed
\* when its other connections have been killed (rotateProcessPassword), the
\* rotation goes on until every one is confirmed or proven to have stopped, and
\* a process that was started meanwhile lets nobody in before an admission,
\* which gives the present password.
THEOREM OldPasswordGoneHolds == Spec => []OldPasswordGone
<1>1. ChangeInv => OldPasswordGone
  <2> SUFFICES ASSUME ChangeInv, st.rotation = Nil, NEW p \in Procs
               PROVE  proc[p].clients \subseteq {st.accepted.pw}
    BY DEF OldPasswordGone
  <2>1. Fine(proc[p], st.accepted.pw)
    BY DEF ChangeInv, ChangeOK, Credentialed, RotationOver
  <2> QED
    BY <2>1 DEF Fine, Held
<1> QED
  BY <1>1, InitInv, NextInv, InitChange, ChangeNextInv, PTL DEF Spec

\* When applyOperationalPhase confirms a generation, every process that serves
\* the application has its size and its password, and it stays so until
\* reconcileAcceptedConfiguration accepts another one: an earlier process that
\* runs on with another size keeps the phase from being confirmed.
THEOREM ReportedMeansAppliedHolds == Spec => []ReportedMeansApplied
<1>1. OperatorInv /\ ChangeInv => ReportedMeansApplied
  <2> SUFFICES ASSUME OperatorInv, ChangeInv, st.reported, NEW p \in Procs, Up(p), proc[p].app
               PROVE  proc[p].size = st.accepted.size /\ proc[p].pw = st.accepted.pw
    BY DEF ReportedMeansApplied
  <2>1. st.rotation = Nil /\ st.rollout = Nil /\ Running(proc[p])
    BY DEF ChangeInv, ChangeOK, Fitted, Running, Up
  <2>2. Fine(proc[p], st.accepted.pw)
    BY <2>1 DEF ChangeInv, ChangeOK, Credentialed, RotationOver
  <2>3. proc[p].size = st.accepted.size
    BY <2>1 DEF ChangeInv, ChangeOK, Fitted
  <2> QED
    BY <2>2, <2>3 DEF Fine, Held
<1> QED
  BY <1>1, InitInv, NextInv, InitChange, ChangeNextInv, PTL DEF Spec

=============================================================================
