-------------------------- MODULE NumberDispenser --------------------------
(***************************************************************************)
(* What a caller of caseRepository.NextCaseNumber may rely on: every       *)
(* tenant has a growing log of the numbers handed out to it.  A number is  *)
(* never skipped: the next one is at most one above the largest so far.    *)
(* When Strict holds, the next one is exactly one above the last: numbers  *)
(* are then unique and increasing, as the sequence of a database would be. *)
(***************************************************************************)
EXTENDS Naturals, Sequences

CONSTANTS Tenants,   \* the tenants that have a counter
          Strict     \* TRUE: sequential dispenser; FALSE: numbers may repeat

VARIABLE issued      \* issued[t]: the numbers handed out to t, oldest first

NumbersOf(log) == {log[i] : i \in DOMAIN log}

DispenserInit == issued = [t \in Tenants |-> << >>]

MayIssue(log, n) ==
  /\ n \in Nat \ {0}
  /\ n = 1 \/ n - 1 \in NumbersOf(log)
  /\ Strict => n = Len(log) + 1

Issue(t, n) ==
  /\ MayIssue(issued[t], n)
  /\ issued' = [issued EXCEPT ![t] = Append(@, n)]

DispenserNext == \E t \in Tenants : \E n \in 1 .. Len(issued[t]) + 1 : Issue(t, n)

DispenserSpec == DispenserInit /\ [][DispenserNext]_issued
=============================================================================
