----------------------------- MODULE MCValkeyApi -----------------------------
(* Instances of ValkeyApi: the requests of MCValkeyLedger, sent by several   *)
(* workers at once.                                                          *)
EXTENDS ValkeyApi, MCValkeyLedger

CONSTANTS c1, c2

\* One user sends the same creation twice, and a second one that does not fit
\* beside the first.
RaceRequests ==
    {NewInstance(u1, k1, n1, "single", S3), NewInstance(u1, k2, n2, "single", S3),
     Remove(u1, i1)}

\* The workers are interchangeable.
WorkerSymmetry == Permutations(Workers)

=============================================================================
