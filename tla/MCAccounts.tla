----------------------------- MODULE MCAccounts -----------------------------
(***************************************************************************)
(* An instance of Accounts: two registrations and two seed processes at a  *)
(* time, each run again once, over the system tenant and another.  As      *)
(* addresses never meet, the administrator's is enough.                    *)
(***************************************************************************)
EXTENDS Accounts, TLC

CONSTANTS w1, w2, s1, s2, system, acme, admin

TwoWorkers == {w1, w2}
TwoSeeds == {s1, s2}
TwoTenants == {system, acme}
OneEmail == {admin}
Symmetric == Permutations(TwoWorkers) \cup Permutations(TwoSeeds)
=============================================================================
