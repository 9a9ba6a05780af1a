-------------------------- MODULE MCValkeyOperator --------------------------
(* Instances of ValkeyOperator and what happens to them.                    *)
EXTENDS ValkeyOperator

\* Three processes that serve already; nothing goes wrong, nobody asks.
Base == [count |-> 3, serving |-> TRUE, incs |-> 2, faults |-> 1, kinds |-> {},
         requests |-> {}, changes |-> 0, sizes |-> {1}]

Pair == [Base EXCEPT !.count = 2]
Single == [Base EXCEPT !.count = 1, !.faults = 2, !.changes = 1]

-----------------------------------------------------------------------------
(* Safety                                                                    *)

\* One failure of any kind, and a person who may vouch for a process.
OneFailure == [Base EXCEPT !.kinds = {"crash", "isolate", "cut", "lost"}, !.requests = {"fence"}]

\* Two failures one after the other.
Twice == [Pair EXCEPT !.incs = 3, !.faults = 2, !.kinds = {"crash", "lost"}]

\* Commands that take effect late.
Late == [Pair EXCEPT !.faults = 3, !.kinds = {"cut", "lost"}]

\* The size and the password change together; one of them does, and a process
\* may crash.
Changing == [Pair EXCEPT !.kinds = {"lost", "restart"}, !.changes = 2,
                         !.sizes = {2}, !.requests = {"size", "password"}]
Crashing == [Changing EXCEPT !.kinds = {"lost", "restart", "crash"}, !.changes = 1]

\* A smaller size: every process is stopped.
Shrink == [Pair EXCEPT !.kinds = {"cut", "lost"}, !.changes = 1, !.sizes = {0},
                       !.requests = {"size"}]

\* One process, whose Pod is removed by hand, under a resize, or which cannot be
\* reached during a rotation; a deletion, where somebody makes the Pod again, or
\* where no machine has room for it, too.
Resized == [Single EXCEPT !.kinds = {"isolate", "replace", "lost"}, !.sizes = {2},
                          !.requests = {"size"}]
Rotated == [Single EXCEPT !.kinds = {"cut", "hang", "lost"}, !.requests = {"password"}]
Remade == [Single EXCEPT !.kinds = {"isolate", "replace", "remake", "lost", "unplaced"},
                         !.requests = {"delete", "fence"}]

SafetyScenes ==
    {OneFailure, Twice, Late, Changing, Crashing, Shrink, Resized, Rotated, Remade}

-----------------------------------------------------------------------------
(* Progress                                                                  *)

\* A crash or an endless script; a process that hangs.
Recovery == [Base EXCEPT !.kinds = {"crash", "busy"}]
Hanging == [Pair EXCEPT !.kinds = {"hang"}]

\* A new instance.
Start == [Base EXCEPT !.serving = FALSE, !.kinds = {"lost", "restart"}]

\* Two passwords, one after the other.
Rotation == [Base EXCEPT !.kinds = {"lost", "restart"}, !.requests = {"password"}, !.changes = 2]

\* A rolling replacement; the operator stops before it has saved a result, or
\* at any other moment.
Resize == [Base EXCEPT !.kinds = {"lost"}, !.requests = {"size"}, !.changes = 1,
                       !.sizes = {2}]
RestartedResize == [Resize EXCEPT !.count = 2, !.kinds = {"restart"}]

Deletion == [Pair EXCEPT !.kinds = {"lost", "crash", "restart"}, !.requests = {"delete"}]

ProgressScenes == {Recovery, Hanging, Start, Rotation, Resize, RestartedResize, Deletion}

-----------------------------------------------------------------------------
(* What does not end                                                         *)

\* A crash in the middle of a rotation, or of a resize.
CrashedChanges ==
    {[Base EXCEPT !.kinds = {"crash"}, !.requests = {"password"}, !.changes = 1],
     [Pair EXCEPT !.incs = 3, !.kinds = {"crash"}, !.requests = {"size"}, !.changes = 1,
                  !.sizes = {2}]}

\* Two crashes, one after the other.
TwoCrashes == {[Base EXCEPT !.incs = 3, !.faults = 2, !.kinds = {"crash"}]}

=============================================================================
