------------------------- MODULE MCDocumentService -------------------------
(***************************************************************************)
(* An instance of DocumentService: two pods, three requests (two of them   *)
(* on one pod, so that a delete can meet the upload's disk or another      *)
(* pod's), two documents.                                                  *)
(***************************************************************************)
EXTENDS DocumentService

CONSTANTS p1, p2, w1, w2, w3, d1, d2

TwoPods == {p1, p2}
ThreeWorkers == {w1, w2, w3}
PodOfWorker == [w \in ThreeWorkers |-> IF w = w3 THEN p2 ELSE p1]
TwoDocs == {d1, d2}
=============================================================================
