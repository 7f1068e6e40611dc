-------------------------- MODULE MCControlService --------------------------
(***************************************************************************)
(* Instances of ControlService: the service is first run with              *)
(* authentication off (the default) and two administrators, then with      *)
(* authentication on and only one, then with another secret.               *)
(***************************************************************************)
EXTENDS ControlService, TLC

CONSTANTS a, b, k1, k2

MCConfigs == {[auth |-> FALSE, secret |-> k1, admins |-> {a, b}],
              [auth |-> TRUE,  secret |-> k1, admins |-> {a}],
              [auth |-> TRUE,  secret |-> k2, admins |-> {b}]}

Symmetry == Permutations(Requests)
=============================================================================
