--------------------------- MODULE MCRateLimiter ----------------------------
\* Small instances of RateLimiter: two handler goroutines serving the
\* observed client and one serving another client.
EXTENDS RateLimiter, TLC

CONSTANTS c1, c2, r1, r2, r3

MCClients == {c1, c2}

MCRequests == {r1, r2, r3}

MCClientOf == r1 :> c1 @@ r2 :> c1 @@ r3 :> c2
=============================================================================
