--------------------------- MODULE MCValkeyNetwork ---------------------------
(* Instances of ValkeyNetwork and what happens to them.                     *)
EXTENDS ValkeyNetwork

CONSTANTS a, b

\* One instance that serves; the settings change, and processes of Envoy stop or
\* do not answer.
Alone == [instances |-> {a}, serving |-> {a}, kinds |-> {"settings", "stop", "mute"},
          changes |-> 2]

\* The primary moves, the operator restarts, and something cannot be read.
Moved == [Alone EXCEPT !.kinds = {"move", "check", "restart"}]

\* Two instances share the cache; one joins the other in the Gateway, which may be
\* leaving it.
Crowd == [Alone EXCEPT !.instances = {a, b}, !.serving = {a, b}, !.changes = 1,
                       !.kinds = {"mute", "restart"}]
Joining == [Crowd EXCEPT !.serving = {b}, !.kinds = {"delete"}]

NetworkScenes == {Alone, Moved, Crowd, Joining}
=============================================================================
