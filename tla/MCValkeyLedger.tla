--------------------------- MODULE MCValkeyLedger ---------------------------
(* Instances of ValkeyLedger and the request sets TLC explores.             *)
EXTENDS ValkeyLedger, TLC

CONSTANTS u1, u2, i1, i2, n1, n2, d1, d2, k1, k2, k3, p1, p2, p3, w1, w2

S1 == [vcpu |-> 1, ram |-> 1]
S2 == [vcpu |-> 1, ram |-> 2]
S3 == [vcpu |-> 2, ram |-> 8]

MCSizes == {S1, S2, S3}
MCInitialQuota == [vcpu |-> 4, ram |-> 16]
MCLoweredQuota == [vcpu |-> 1, ram |-> 4]
MCTightQuota == [vcpu |-> 2, ram |-> 8]

Base == [op |-> "create", user |-> u1, id |-> NoId, key |-> NoKey, name |-> n1,
         window |-> d1, mode |-> "single", size |-> S1, pw |-> p1,
         expected |-> 1, wl |-> w1]

NewInstance(u, k, n, m, s) ==
    [Base EXCEPT !.user = u, !.key = k, !.name = n, !.mode = m, !.size = s]

ToSize(u, i, k, s) ==
    [Base EXCEPT !.op = "resize", !.user = u, !.id = i, !.key = k, !.size = s]

Rename(i, n, d) == [Base EXCEPT !.op = "patch", !.id = i, !.name = n, !.window = d]

Allow(i, w) == [Base EXCEPT !.op = "whitelist", !.id = i, !.wl = w]

NewPassword(i, k, version, p) ==
    [Base EXCEPT !.op = "rotate", !.id = i, !.key = k, !.expected = version, !.pw = p]

Remove(u, i) == [Base EXCEPT !.op = "delete", !.user = u, !.id = i]

\* Two users compete for the cluster; one resizes up and down.
QuotaRequests ==
    {NewInstance(u1, k1, n1, "single", S2), NewInstance(u2, k1, n1, "ha", S1),
     ToSize(u1, i1, k2, S3), ToSize(u1, i1, k2, S1)}

\* One instance under every request of its owner: re-used and expiring keys, an
\* expected version, a smaller and a larger size.
OwnerRequests ==
    {NewInstance(u1, k1, n1, "single", S2), ToSize(u1, i1, k2, S3), ToSize(u1, i1, k2, S2),
     NewPassword(i1, k2, 1, p2), Rename(i1, n1, d2), Allow(i1, w2), Remove(u1, i1)}

\* A whitelist is changed once.
WhitelistRequests == {NewInstance(u1, k1, n1, "single", S1), Allow(i1, w2)}

\* An instance that is created and then left alone.
FailureRequests == {NewInstance(u1, k1, n1, "single", S1)}

=============================================================================
