-------------------------- MODULE MCTenantService --------------------------
(***************************************************************************)
(* An instance of TenantService: two requests at a time, two ids and one   *)
(* slug more than is needed for them to collide; a plan of each kind: the  *)
(* default, one with a limit of its own and one nobody knows.              *)
(***************************************************************************)
EXTENDS TenantService, TLC

CONSTANTS w1, w2, t1, t2, acme, beta

TwoWorkers == {w1, w2}
TwoTenants == {t1, t2}
TwoSlugs == {acme, beta}
ThreePlans == {"free", "pro", "gold"}
Symmetric == Permutations(TwoWorkers)
=============================================================================
