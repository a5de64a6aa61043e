--------------------------- MODULE MCCaseCounter ---------------------------
(***************************************************************************)
(* Instances of CaseCounter.  Four requests of the busy tenant are the     *)
(* fewest that let a stale writer push the counter back (one creates the   *)
(* row, two read the same value, one moves on); r5 belongs to a tenant of  *)
(* its own, whose numbers the race must not touch.                         *)
(***************************************************************************)
EXTENDS CaseCounter

CONSTANTS r1, r2, r3, r4, r5, busy, quiet

AllRequests == {r1, r2, r3, r4, r5}
AllTenants == {busy, quiet}
TenantOfAll == [r \in AllRequests |-> IF r = r5 THEN quiet ELSE busy]
=============================================================================
