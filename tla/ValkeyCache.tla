----------------------------- MODULE ValkeyCache -----------------------------
(***************************************************************************)
(* What an instance promises its application: one cache.  At most one      *)
(* process is written to, and whoever takes over goes on with the data the *)
(* application wrote to before, unless the loss of it has been declared    *)
(* while nobody was written to.                                            *)
(***************************************************************************)
EXTENDS Integers, Sequences

CONSTANTS Nil, Processes

VARIABLES
    writer,     \* the process that executes the application's writes, or Nil
    served,     \* the history it wrote to last (0: nothing is kept)
    forks       \* the history that each history was forked from

cacheVars == <<writer, served, forks>>

\* The histories that a history continues.
Continues(h) ==
    LET ancestors[i \in 0 .. Len(forks)] ==
            IF i = 0 THEN {0} ELSE {i} \cup ancestors[forks[i]]
    IN ancestors[h]

CacheInit ==
    /\ writer \in Processes \cup {Nil}
    /\ \/ forks = <<>> /\ served = 0
       \/ forks = <<0>> /\ served = 1

Open(h) ==
    /\ writer = Nil /\ served \in Continues(h)
    /\ writer' \in Processes /\ served' = h /\ UNCHANGED forks

Close == writer # Nil /\ writer' = Nil /\ UNCHANGED <<served, forks>>

\* The loss of the data is declared.
Lose == writer = Nil /\ served' = 0 /\ UNCHANGED <<writer, forks>>

Fork(h) == forks' = Append(forks, h) /\ UNCHANGED <<writer, served>>

CacheNext ==
    \/ \E h \in 0 .. Len(forks) : Open(h)
    \/ Close \/ Lose
    \/ \E h \in 0 .. Len(forks) : Fork(h)

CacheSpec == CacheInit /\ [][CacheNext]_cacheVars
=============================================================================
