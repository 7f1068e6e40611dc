--------------------------- MODULE MCRequestPath ----------------------------
\* A small instance of RequestPath: two handler goroutines serve one client,
\* and the process is restarted with authentication on or off.
EXTENDS RequestPath, TLC

CONSTANTS c1, r1, r2, a, k1

MCClientOf == r1 :> c1 @@ r2 :> c1

MCConfigs == {[auth |-> FALSE, secret |-> k1, admins |-> {a}],
              [auth |-> TRUE,  secret |-> k1, admins |-> {a}]}
=============================================================================
