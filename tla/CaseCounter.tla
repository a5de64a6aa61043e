---------------------------- MODULE CaseCounter ----------------------------
(***************************************************************************)
(* Numbering of cases: caseRepository.NextCaseNumber and the INSERT of the *)
(* numbered case that follows it in caseService.CreateCase.                *)
(*                                                                         *)
(* NextCaseNumber runs a MySQL transaction that SELECTs the tenant's       *)
(* counter row without locking it, adds one in Go, and writes the absolute *)
(* value back (INSERT when there was no row, UPDATE of the whole row       *)
(* otherwise).  The write takes the row lock, held until the commit, and   *)
(* the transaction holds one of the MaxConns pooled connections throughout.*)
(* One request is one goroutine of one POST /cases; it runs once.          *)
(***************************************************************************)
EXTENDS Naturals, Sequences, FiniteSets

CONSTANTS Requests,  \* the POST /cases requests
          Tenants,   \* the tenants they belong to
          tenantOf,  \* tenantOf[r]: the tenant in the token of request r
          MaxConns,  \* size of the database connection pool (SetMaxOpenConns)
          NoOne      \* the owner of a free row lock

ASSUME RequestsAssumption == /\ tenantOf \in [Requests -> Tenants]
                             /\ IsFiniteSet(Requests)
                             /\ NoOne \notin Requests
ASSUME PoolAssumption == MaxConns \in Nat \ {0}

VARIABLES counter,  \* counter[t]: committed value of t's row, 0 while there is none
          rowLock,  \* rowLock[t]: the request whose transaction wrote t's row
          pc,       \* pc[r]: where request r is
          snap,     \* snap[r]: the counter value r's SELECT returned, 0 if no row
          number,   \* number[r]: the number NextCaseNumber returned to r
          issued,   \* issued[t]: numbers of committed transactions, oldest first
          cases     \* the requests whose case row was inserted

vars == <<counter, rowLock, pc, snap, number, issued, cases>>

PC == {"start", "selected", "written", "numbered", "done", "failed"}

TypeOK ==
  /\ counter \in [Tenants -> Nat]
  /\ rowLock \in [Tenants -> Requests \cup {NoOne}]
  /\ pc \in [Requests -> PC]
  /\ snap \in [Requests -> Nat]
  /\ number \in [Requests -> Nat]
  /\ issued \in [Tenants -> Seq(Nat)]
  /\ cases \subseteq Requests

Init ==
  /\ counter = [t \in Tenants |-> 0]
  /\ rowLock = [t \in Tenants |-> NoOne]
  /\ pc = [r \in Requests |-> "start"]
  /\ snap = [r \in Requests |-> 0]
  /\ number = [r \in Requests |-> 0]
  /\ issued = [t \in Tenants |-> << >>]
  /\ cases = {}

-----------------------------------------------------------------------------
InTransaction(r) == pc[r] \in {"selected", "written"}

PoolHasRoom == Cardinality({r \in Requests : InTransaction(r)}) < MaxConns
Goto(r, l) == pc' = [pc EXCEPT ![r] = l]

\* BEGIN on a pooled connection, then the plain SELECT: no lock is taken, so
\* it returns the committed value even while another transaction has written.
SelectCounter(r) ==
  /\ pc[r] = "start"
  /\ PoolHasRoom
  /\ snap' = [snap EXCEPT ![r] = counter[tenantOf[r]]]
  /\ Goto(r, "selected")
  /\ UNCHANGED <<counter, rowLock, number, issued, cases>>

\* Mutant: INSERT ... ON DUPLICATE KEY UPDATE, which overwrites the row.
InsertOrOverwrite(r) ==
  /\ pc[r] = "selected" /\ snap[r] = 0
  /\ rowLock[tenantOf[r]] = NoOne
  /\ rowLock' = [rowLock EXCEPT ![tenantOf[r]] = r]
  /\ Goto(r, "written")
  /\ UNCHANGED <<counter, snap, number, issued, cases>>

\* INSERT of counter 1: waits for a transaction that holds the row, and is
\* refused with a duplicate key when one has committed the row meanwhile.
InsertCounter(r) ==
  LET t == tenantOf[r] IN
  /\ pc[r] = "selected" /\ snap[r] = 0
  /\ rowLock[t] = NoOne
  /\ IF counter[t] = 0
     THEN /\ rowLock' = [rowLock EXCEPT ![t] = r]
          /\ Goto(r, "written")
     ELSE /\ Goto(r, "failed")
          /\ UNCHANGED rowLock
  /\ UNCHANGED <<counter, snap, number, issued, cases>>

\* Save of the row read earlier with Counter++: an absolute value, written
\* once no other transaction holds the row.
UpdateCounter(r) ==
  LET t == tenantOf[r] IN
  /\ pc[r] = "selected" /\ snap[r] # 0
  /\ rowLock[t] = NoOne
  /\ rowLock' = [rowLock EXCEPT ![t] = r]
  /\ Goto(r, "written")
  /\ UNCHANGED <<counter, snap, number, issued, cases>>

\* COMMIT of a transaction that stored a value and answers with a number.
CommitNumber(r, stored, n) ==
  /\ pc[r] = "written"
  /\ counter' = [counter EXCEPT ![tenantOf[r]] = stored]
  /\ rowLock' = [rowLock EXCEPT ![tenantOf[r]] = NoOne]
  /\ number' = [number EXCEPT ![r] = n]
  /\ issued' = [issued EXCEPT ![tenantOf[r]] = Append(@, n)]
  /\ Goto(r, "numbered")
  /\ UNCHANGED <<snap, cases>>

\* Mutant: the counter is incremented twice.
CommitSkips(r) == CommitNumber(r, snap[r] + 2, snap[r] + 2)

\* COMMIT publishes snap + 1, frees row and connection, and the number is
\* formatted from the value the transaction wrote.
Commit(r) == CommitNumber(r, snap[r] + 1, snap[r] + 1)

\* Mutant: the error path forgets the rollback and leaks the row lock.
FailKeepsLock(r) ==
  /\ pc[r] \in {"start", "selected", "written", "numbered"}
  /\ Goto(r, "failed")
  /\ UNCHANGED <<counter, rowLock, snap, number, issued, cases>>

\* A database error, a lock wait timeout, a cancelled request context or the
\* death of the process rolls the transaction back; a request that has its
\* number loses it, because nothing returns a number to the counter.
Fail(r) ==
  LET t == tenantOf[r] IN
  /\ pc[r] \in {"start", "selected", "written", "numbered"}
  /\ rowLock' = [rowLock EXCEPT ![t] = IF @ = r THEN NoOne ELSE @]
  /\ Goto(r, "failed")
  /\ UNCHANGED <<counter, snap, number, issued, cases>>

\* caseRepo.Create: AutoMigrate gives case_number a plain index, so the row
\* is accepted whatever number other rows of the tenant carry.
InsertCase(r) ==
  /\ pc[r] = "numbered"
  /\ PoolHasRoom
  /\ cases' = cases \cup {r}
  /\ Goto(r, "done")
  /\ UNCHANGED <<counter, rowLock, snap, number, issued>>

Progress(r) ==
  SelectCounter(r) \/ InsertCounter(r) \/ UpdateCounter(r) \/ Commit(r) \/ InsertCase(r)

\* Every request has been answered: the only state the system may rest in.
AllAnswered ==
  /\ \A r \in Requests : pc[r] \in {"done", "failed"}
  /\ UNCHANGED vars

Next == (\E r \in Requests : Progress(r) \/ Fail(r)) \/ AllAnswered

Spec == Init /\ [][Next]_vars

\* A goroutine that can run is eventually scheduled, a granted row lock is
\* used and the database answers (if only with the error of Fail).  Weak
\* fairness is enough: requests are finitely many and each takes a lock once.
FairSpec == Spec /\ \A r \in Requests : WF_vars(Progress(r))

-----------------------------------------------------------------------------
\* Numbering promises a gap-free log per tenant, strict only on one connection.
GapFree == INSTANCE NumberDispenser WITH Strict <- FALSE
Sequential == INSTANCE NumberDispenser WITH Strict <- TRUE

\* Whatever the races, NextCaseNumber hands out a number only if it is 1 or
\* the number below was handed out before (no gap in a tenant's numbers).
NumbersHaveNoGap == GapFree!DispenserSpec

\* On a pool of one connection transactions cannot overlap, and the counter
\* hands out 1, 2, 3, ... in this order to every tenant.
NumbersAreSequential == Sequential!DispenserSpec

\* The primary key of case_counters makes the first INSERT exclusive: two
\* requests never both get number 1 of a tenant, even when both found no row.
NumberOneIssuedOnce ==
  \A t \in Tenants : \A i, j \in DOMAIN issued[t] :
    issued[t][i] = 1 /\ issued[t][j] = 1 => i = j

\* Two stored cases of one tenant carry different numbers, as the integration
\* test of the counter and the UNIQUE KEY of the unused migration demand.
UniqueCaseNumbers ==
  \A r, s \in cases :
    tenantOf[r] = tenantOf[s] /\ number[r] = number[s] => r = s

\* The counter row of a tenant never goes back to a number issued before.
CounterNeverDecreases ==
  [][\A t \in Tenants : counter'[t] >= counter[t]]_counter

\* No request waits for ever for a connection or a row lock: NextCaseNumber
\* holds its connection while it waits, and asks for no second one.
EveryRequestAnswered == \A r \in Requests : <>(pc[r] \in {"done", "failed"})
=============================================================================
