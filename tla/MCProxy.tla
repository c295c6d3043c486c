------------------------------ MODULE MCProxy -------------------------------
EXTENDS Proxy
CONSTANTS a, b, c, d, d1, u1, u2, h1, h2

Req(rid, op, key, val) == [rid |-> rid, op |-> op, key |-> key, val |-> val]
R(rid, key) == Req(rid, "read", key, Blank)
W(rid, key) == Req(rid, "write", key, <<key, "new">>)

Post(at, requests) == [at |-> at, requests |-> requests]

\* In one batch three writes fill the cache, in another a fourth overflows it.
\* The reads are of a key of the first batch under two rids, in the same
\* second, and of a dummy.  The request before them is skipped.
MCBatches ==
    (h1 :> {Post(1, <<W(u1, a), W(u1, b), W(u2, c)>>)}) @@
    (h2 :> {Post(1, <<Req(u1, "write", Blank, <<a, "new">>), R(u1, b), R(u2, b)>>),
            Post(2, <<Req(u1, "write", a, Blank), W(u1, d)>>),
            Post(2, <<R(u2, d1)>>)})
=============================================================================
