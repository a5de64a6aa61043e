--------------------------- MODULE MCPortalSession ---------------------------
(***************************************************************************)
(* Two tabs of one browser, two logins, and a query in one of              *)
(* the tabs: enough for an answer of the first login's token to arrive     *)
(* after the second login.                                                 *)
(***************************************************************************)
EXTENDS PortalSession

CONSTANTS t1, t2, q1

TwoTabs == {t1, t2}
OneQuery == {q1}
PageOfAll == [c \in {t1, t2, q1} |-> IF c = q1 THEN t1 ELSE c]
=============================================================================
