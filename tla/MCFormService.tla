--------------------------- MODULE MCFormService ---------------------------
(***************************************************************************)
(* An instance of FormService: two requests at a time and the publications *)
(* and archivals of one template between their steps.  The lists require   *)
(* one of two fields.                                                      *)
(***************************************************************************)
EXTENDS FormService, TLC

CONSTANTS w1, w2, f1, title, amount

TwoWorkers == {w1, w2}
OneForm == {f1}
TwoNames == {title, amount}
TwoLists == {{title}, {amount}}
Symmetric == Permutations(TwoWorkers)
=============================================================================
