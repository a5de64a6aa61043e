--------------------------- MODULE MCCaseService ---------------------------
(***************************************************************************)
(* An instance of CaseService: two workers race on one case.  The template *)
(* has no edge to "closed", so that a status exists which only a request   *)
(* the template was not asked about can reach.  One tick of SLA and three  *)
(* of clock let a deadline pass; two saved transitions are enough for a    *)
(* stale save to bring back a status the template cannot return to.        *)
(***************************************************************************)
EXTENDS CaseService, TLC

CONSTANTS w1, w2, c1

TwoWorkers == {w1, w2}
OneCase == {c1}
FourStatuses == {"new", "open", "resolved", "closed"}
TemplateEdges ==
  {<<"new", "open">>, <<"open", "resolved">>, <<"resolved", "open">>}

\* Workers are interchangeable: nothing in the service orders them.
Symmetric == Permutations(TwoWorkers)
=============================================================================
