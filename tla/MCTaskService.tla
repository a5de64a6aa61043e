--------------------------- MODULE MCTaskService ---------------------------
(***************************************************************************)
(* An instance of TaskService: two requests at a time on one task, which   *)
(* is done, reopened and edited while time passes, and a comment beside it.*)
(***************************************************************************)
EXTENDS TaskService, TLC

CONSTANTS w1, w2, c1, t1, m1, this, that

TwoWorkers == {w1, w2}
OneCase == {c1}
OneTask == {t1}
OneComment == {m1}
SomeStatuses == {"todo", "blocked", "done"}
TwoContents == {this, that}
Symmetric == Permutations(TwoWorkers)
=============================================================================
