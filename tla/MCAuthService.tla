--------------------------- MODULE MCAuthService ---------------------------
(***************************************************************************)
(* An instance of AuthService: an administrator and a member of one        *)
(* tenant, the role of theirs and one of another tenant, two sessions, two *)
(* concurrent requests.  An access token lives one tick and a refresh      *)
(* token two, so that a session can be refreshed, outlived and logged out. *)
(* The code treats inactive and suspended alike, so one of them is enough. *)
(***************************************************************************)
EXTENDS AuthService

CONSTANTS w1, w2, root, member, admin, foreign, t1, t2, home, other

TwoWorkers == {w1, w2}
TwoUsers == {root, member}
TwoRoles == {admin, foreign}
ActiveOrNot == {"active", "suspended"}
AdminOnly == {admin}
TwoTokens == {t1, t2}
TenantOf == [x \in TwoUsers \cup TwoRoles |-> IF x = foreign THEN other ELSE home]
SeededRoles == [u \in TwoUsers |-> IF u = root THEN {admin} ELSE {}]
=============================================================================
