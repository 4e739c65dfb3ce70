---------------------------- MODULE MCResourceApi ----------------------------
(* Symmetry for TLC. *)
EXTENDS ResourceApi, TLC

CONSTANTS c1, c2, k1, k2
AllClients == Permutations(Clients)
=============================================================================
