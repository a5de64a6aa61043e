------------------------- MODULE CounterInboxProofs -------------------------
(***************************************************************************)
(* Theorems about CaseCounter, for any requests, tenants and pool size, and,*)
(* in the second part, about NotificationService.  The two components share*)
(* no name, and no proof of one uses the other.                            *)
(***************************************************************************)
EXTENDS CaseCounter, NotificationService, FiniteSetTheorems, TLAPS

(***************************************************************************)
(* The inductive invariant.  LockInv ties the row lock to the transaction  *)
(* that wrote; IssuedInv says that every value a transaction can see or    *)
(* has seen was handed out before, so that adding one cannot leave a gap.  *)
(***************************************************************************)
LockInv ==
  \A r \in Requests, t \in Tenants :
    rowLock[t] = r <=> pc[r] = "written" /\ tenantOf[r] = t

IssuedInv ==
  /\ \A t \in Tenants : counter[t] = 0 => issued[t] = << >>
  /\ \A t \in Tenants : counter[t] # 0 => \E i \in DOMAIN issued[t] : issued[t][i] = counter[t]
  /\ \A r \in Requests :
       InTransaction(r) /\ snap[r] # 0 =>
         \E i \in DOMAIN issued[tenantOf[r]] : issued[tenantOf[r]][i] = snap[r]
  /\ \A r \in Requests : pc[r] = "written" /\ snap[r] = 0 => counter[tenantOf[r]] = 0

CounterInv == TypeOK /\ LockInv /\ IssuedInv /\ NumberOneIssuedOnce

-----------------------------------------------------------------------------
(***************************************************************************)
(* The additional invariant of a pool of one connection.                   *)
(***************************************************************************)
SerialInv ==
  /\ \A r, s \in Requests : InTransaction(r) /\ InTransaction(s) => r = s
  /\ \A t \in Tenants : counter[t] = Len(issued[t])
  /\ \A r \in Requests : InTransaction(r) => snap[r] = counter[tenantOf[r]]
  /\ \A r \in Requests : number[r] <= counter[tenantOf[r]]
  /\ \A r \in Requests : pc[r] \in {"start", "selected", "written"} => number[r] = 0
  /\ \A r \in Requests : pc[r] = "numbered" \/ r \in cases => number[r] # 0
  /\ \A r, s \in Requests :
       tenantOf[r] = tenantOf[s] /\ number[r] = number[s] /\ number[r] # 0 => r = s

-----------------------------------------------------------------------------
\* A log keeps its entries when a number is appended to it.
LEMMA AppendedLog ==
  ASSUME NEW log \in Seq(Nat), NEW n \in Nat
  PROVE  /\ Append(log, n) \in Seq(Nat)
         /\ Append(log, n) # << >>
         /\ DOMAIN Append(log, n) = 1 .. Len(log) + 1
         /\ DOMAIN log = 1 .. Len(log)
         /\ Append(log, n)[Len(log) + 1] = n
         /\ \A i \in DOMAIN log : Append(log, n)[i] = log[i]
  OBVIOUS

\* Every step keeps the variables in their types.
LEMMA TypeStep == TypeOK /\ [Next]_vars => TypeOK'
<1> SUFFICES ASSUME TypeOK, [Next]_vars PROVE TypeOK'
  OBVIOUS
<1> USE RequestsAssumption DEF TypeOK, PC, Goto
<1>1. ASSUME NEW r \in Requests, SelectCounter(r) PROVE TypeOK'
  BY <1>1 DEF SelectCounter
<1>2. ASSUME NEW r \in Requests, InsertCounter(r) PROVE TypeOK'
  <2>1. rowLock' = [rowLock EXCEPT ![tenantOf[r]] = r] \/ UNCHANGED rowLock
    BY <1>2 DEF InsertCounter
  <2>2. pc' \in [Requests -> PC]
    BY <1>2 DEF InsertCounter
  <2>3. UNCHANGED <<counter, snap, number, issued, cases>>
    BY <1>2 DEF InsertCounter
  <2>. QED  BY <2>1, <2>2, <2>3
<1>3. ASSUME NEW r \in Requests, UpdateCounter(r) PROVE TypeOK'
  BY <1>3 DEF UpdateCounter
<1>4. ASSUME NEW r \in Requests, Commit(r) PROVE TypeOK'
  <2>1. Append(issued[tenantOf[r]], snap[r] + 1) \in Seq(Nat)
    BY AppendedLog
  <2>2. QED
    BY <1>4, <2>1 DEF Commit, CommitNumber
<1>5. ASSUME NEW r \in Requests, InsertCase(r) PROVE TypeOK'
  BY <1>5 DEF InsertCase
<1>6. ASSUME NEW r \in Requests, Fail(r) PROVE TypeOK'
  BY <1>6 DEF Fail
<1>7. CASE UNCHANGED vars
  BY <1>7 DEF vars
<1>8. QED
  BY <1>1, <1>2, <1>3, <1>4, <1>5, <1>6, <1>7 DEF Next, Progress, AllAnswered

LEMMA TypeInit == Init => TypeOK
BY RequestsAssumption DEF Init, TypeOK, PC

\* The variables of the case counter keep their types in every behaviour.
THEOREM CounterTypeCorrect == Spec => []TypeOK
BY TypeInit, TypeStep, PTL DEF Spec

-----------------------------------------------------------------------------
LEMMA CounterInvInit == Init => CounterInv
BY TypeInit, RequestsAssumption
   DEF Init, CounterInv, LockInv, IssuedInv, NumberOneIssuedOnce, InTransaction

LEMMA CounterInvStep == CounterInv /\ [Next]_vars => CounterInv'
<1> SUFFICES ASSUME CounterInv, [Next]_vars PROVE CounterInv'
  OBVIOUS
<1>t. TypeOK'
  BY TypeStep DEF CounterInv
<1> USE RequestsAssumption DEF CounterInv, TypeOK, Goto, InTransaction
<1>1. ASSUME NEW r \in Requests, SelectCounter(r) PROVE CounterInv'
  <2> USE <1>1 DEF SelectCounter
  <2>1. LockInv'
    BY DEF LockInv
  <2>2. IssuedInv'
    BY DEF IssuedInv
  <2>3. NumberOneIssuedOnce'
    BY DEF NumberOneIssuedOnce
  <2>4. QED
    BY <1>t, <2>1, <2>2, <2>3
<1>2. ASSUME NEW r \in Requests, InsertCounter(r) PROVE CounterInv'
  <2> USE <1>2 DEF InsertCounter
  <2>1. LockInv'
    <3>1. CASE counter[tenantOf[r]] = 0
      <4>1. /\ rowLock' = [rowLock EXCEPT ![tenantOf[r]] = r]
            /\ pc' = [pc EXCEPT ![r] = "written"]
        BY <3>1
      <4>2. \A s \in Requests : ~ (pc[s] = "written" /\ tenantOf[s] = tenantOf[r])
        BY DEF LockInv
      <4>3. QED
        BY <4>1, <4>2 DEF LockInv
    <3>2. CASE counter[tenantOf[r]] # 0
      BY <3>2 DEF LockInv
    <3>3. QED
      BY <3>1, <3>2
  <2>2. IssuedInv'
    BY DEF IssuedInv
  <2>3. NumberOneIssuedOnce'
    BY DEF NumberOneIssuedOnce
  <2>4. QED
    BY <1>t, <2>1, <2>2, <2>3
<1>3. ASSUME NEW r \in Requests, UpdateCounter(r) PROVE CounterInv'
  <2> USE <1>3 DEF UpdateCounter
  <2>1. LockInv'
    BY DEF LockInv
  <2>2. IssuedInv'
    BY DEF IssuedInv
  <2>3. NumberOneIssuedOnce'
    BY DEF NumberOneIssuedOnce
  <2>4. QED
    BY <1>t, <2>1, <2>2, <2>3
<1>4. ASSUME NEW r \in Requests, Commit(r) PROVE CounterInv'
  <2> USE <1>4 DEF Commit, CommitNumber
  <2> DEFINE t == tenantOf[r]
             log == issued[t]
             n == snap[r] + 1
  <2>0. /\ t \in Tenants /\ log \in Seq(Nat) /\ n \in Nat /\ n # 0
        /\ issued'[t] = Append(log, n) /\ counter'[t] = n
        /\ \A u \in Tenants \ {t} : issued'[u] = issued[u] /\ counter'[u] = counter[u]
    OBVIOUS
  <2>a. /\ Append(log, n) # << >>
        /\ DOMAIN Append(log, n) = 1 .. Len(log) + 1
        /\ DOMAIN log = 1 .. Len(log)
        /\ Append(log, n)[Len(log) + 1] = n
        /\ \A i \in DOMAIN log : Append(log, n)[i] = log[i]
    <3> HIDE <1>4 DEF log, n, t
    <3> QED
      BY <2>0, AppendedLog
  <2>b. \A i \in DOMAIN log : i \in DOMAIN Append(log, n)
    BY <2>a, <2>0
  <2>c. rowLock[t] = r /\ (\A s \in Requests : pc[s] = "written" /\ tenantOf[s] = t => s = r)
    BY <2>0 DEF LockInv
  <2>1. LockInv'
    BY <2>c DEF LockInv
  <2>2. IssuedInv'
    <3>1. \A u \in Tenants : counter'[u] = 0 => issued'[u] = << >>
      BY <2>0 DEF IssuedInv
    <3>2. ASSUME NEW u \in Tenants, counter'[u] # 0
          PROVE  \E i \in DOMAIN issued'[u] : issued'[u][i] = counter'[u]
      <4>1. CASE u = t
        <5>1. Len(log) + 1 \in DOMAIN issued'[t]
          BY <2>0, <2>a
        <5>2. QED
          BY <4>1, <5>1, <2>0, <2>a
      <4>2. CASE u # t
        BY <4>2, <3>2, <2>0 DEF IssuedInv
      <4>3. QED
        BY <4>1, <4>2
    <3>3. ASSUME NEW s \in Requests, (InTransaction(s))', snap'[s] # 0
          PROVE  \E i \in DOMAIN issued'[tenantOf[s]] : issued'[tenantOf[s]][i] = snap'[s]
      <4>1. InTransaction(s) /\ snap[s] # 0 /\ snap'[s] = snap[s] /\ tenantOf[s] \in Tenants
        BY <3>3
      <4>2. PICK i \in DOMAIN issued[tenantOf[s]] : issued[tenantOf[s]][i] = snap[s]
        BY <4>1 DEF IssuedInv
      <4>3. CASE tenantOf[s] = t
        BY <4>1, <4>2, <4>3, <2>0, <2>a, <2>b
      <4>4. CASE tenantOf[s] # t
        BY <4>1, <4>2, <4>4, <2>0
      <4>5. QED
        BY <4>3, <4>4
    <3>4. \A s \in Requests : pc'[s] = "written" /\ snap'[s] = 0 => counter'[tenantOf[s]] = 0
      BY <2>0, <2>c DEF IssuedInv
    <3>5. QED
      BY <3>1, <3>2, <3>3, <3>4 DEF IssuedInv
  <2>3. NumberOneIssuedOnce'
    <3>1. ASSUME NEW i \in DOMAIN issued'[t], NEW j \in DOMAIN issued'[t],
                 issued'[t][i] = 1, issued'[t][j] = 1
          PROVE  i = j
      <4>1. CASE snap[r] = 0
        <5>1. log = << >>
          BY <4>1, <2>0 DEF IssuedInv
        <5>2. QED
          BY <3>1, <5>1, <2>0, <2>a
      <4>2. CASE snap[r] # 0
        <5>1. n # 1
          BY <4>2
        <5>2. i \in DOMAIN log /\ j \in DOMAIN log
          BY <5>1, <3>1, <2>0, <2>a
        <5>3. log[i] = 1 /\ log[j] = 1
          BY <5>2, <3>1, <2>0, <2>a
        <5>4. QED
          BY <5>2, <5>3, <2>0 DEF NumberOneIssuedOnce
      <4>3. QED
        BY <4>1, <4>2
    <3>2. QED
      BY <3>1, <2>0 DEF NumberOneIssuedOnce
  <2>4. QED
    BY <1>t, <2>1, <2>2, <2>3
<1>5. ASSUME NEW r \in Requests, InsertCase(r) PROVE CounterInv'
  <2> USE <1>5 DEF InsertCase
  <2>1. LockInv'
    BY DEF LockInv
  <2>2. IssuedInv'
    BY DEF IssuedInv
  <2>3. NumberOneIssuedOnce'
    BY DEF NumberOneIssuedOnce
  <2>4. QED
    BY <1>t, <2>1, <2>2, <2>3
<1>6. ASSUME NEW r \in Requests, Fail(r) PROVE CounterInv'
  <2> USE <1>6 DEF Fail
  <2>1. LockInv'
    BY DEF LockInv
  <2>2. IssuedInv'
    BY DEF IssuedInv
  <2>3. NumberOneIssuedOnce'
    BY DEF NumberOneIssuedOnce
  <2>4. QED
    BY <1>t, <2>1, <2>2, <2>3
<1>7. CASE UNCHANGED vars
  BY <1>7 DEF vars, LockInv, IssuedInv, NumberOneIssuedOnce
<1>8. QED
  BY <1>1, <1>2, <1>3, <1>4, <1>5, <1>6, <1>7 DEF Next, Progress, AllAnswered

LEMMA CounterInvariant == Spec => []CounterInv
BY CounterInvInit, CounterInvStep, PTL DEF Spec

\* Two requests never both receive number 1 of a tenant, for any number of
\* requests and connections: the row lock and the primary key make the first
\* INSERT of a counter row exclusive.
THEOREM NumberOneUnique == Spec => []NumberOneIssuedOnce
BY CounterInvariant, PTL DEF CounterInv

-----------------------------------------------------------------------------
\* Only Commit changes the log of issued numbers.
LEMMA LogStep ==
  ASSUME [Next]_vars
  PROVE  UNCHANGED issued \/ \E r \in Requests : Commit(r)
BY DEF Next, Progress, AllAnswered, vars, SelectCounter, InsertCounter, UpdateCounter,
       InsertCase, Fail

\* What a commit does to the log of its tenant.
LEMMA CommitFacts ==
  ASSUME CounterInv, NEW r \in Requests, Commit(r)
  PROVE  /\ tenantOf[r] \in Tenants
         /\ snap[r] \in Nat
         /\ snap[r] + 1 \in Nat \ {0}
         /\ InTransaction(r)
         /\ issued \in [Tenants -> Seq(Nat)]
         /\ issued[tenantOf[r]] \in Seq(Nat)
         /\ issued' = [issued EXCEPT ![tenantOf[r]] = Append(@, snap[r] + 1)]
         /\ DOMAIN issued[tenantOf[r]] = 1 .. Len(issued[tenantOf[r]])
         /\ Len(issued[tenantOf[r]]) \in Nat
<1>1. tenantOf[r] \in Tenants
  BY RequestsAssumption
<1>2. TypeOK
  BY DEF CounterInv
<1>3. snap[r] \in Nat /\ issued \in [Tenants -> Seq(Nat)]
  BY <1>2 DEF TypeOK
<1>4. InTransaction(r) /\ issued' = [issued EXCEPT ![tenantOf[r]] = Append(@, snap[r] + 1)]
  BY DEF Commit, CommitNumber, InTransaction
<1>5. issued[tenantOf[r]] \in Seq(Nat)
  BY <1>1, <1>3
<1>6. QED
  BY <1>1, <1>3, <1>4, <1>5

\* The i-th number of a log is at most i, because numbering starts at 1 and
\* never skips.
BoundInv == \A t \in Tenants : \A i \in DOMAIN issued[t] : issued[t][i] <= i

LEMMA BoundStep == CounterInv /\ BoundInv /\ [Next]_vars => BoundInv'
<1> SUFFICES ASSUME CounterInv, BoundInv, [Next]_vars PROVE BoundInv'
  OBVIOUS
<1>1. CASE UNCHANGED issued
  BY <1>1 DEF BoundInv
<1>2. ASSUME NEW r \in Requests, Commit(r) PROVE BoundInv'
  <2> DEFINE t == tenantOf[r]
             log == issued[t]
             n == snap[r] + 1
  <2>1. /\ t \in Tenants /\ log \in Seq(Nat) /\ snap[r] \in Nat /\ n \in Nat
        /\ InTransaction(r)
        /\ issued' = [issued EXCEPT ![t] = Append(log, n)]
        /\ issued \in [Tenants -> Seq(Nat)]
    BY <1>2, CommitFacts
  <2>2. /\ DOMAIN log = 1 .. Len(log) /\ Len(log) \in Nat
        /\ DOMAIN Append(log, n) = 1 .. Len(log) + 1
        /\ Append(log, n)[Len(log) + 1] = n
        /\ \A i \in DOMAIN log : Append(log, n)[i] = log[i]
    <3> HIDE DEF log, n, t
    <3> QED
      BY <2>1, AppendedLog
  <2>3. n <= Len(log) + 1
    <3>1. CASE snap[r] = 0
      BY <3>1, <2>1, <2>2
    <3>2. CASE snap[r] # 0
      <4>1. PICK i \in DOMAIN log : log[i] = snap[r]
        BY <3>2, <2>1 DEF CounterInv, IssuedInv
      <4>2. snap[r] <= i
        BY <4>1, <2>1 DEF BoundInv
      <4>3. QED
        BY <4>1, <4>2, <2>1, <2>2
    <3>3. QED
      BY <3>1, <3>2
  <2>4. \A i \in 1 .. Len(log) + 1 : Append(log, n)[i] <= i
    <3> SUFFICES ASSUME NEW i \in 1 .. Len(log) + 1 PROVE Append(log, n)[i] <= i
      OBVIOUS
    <3>1. CASE i \in DOMAIN log
      BY <3>1, <2>1, <2>2 DEF BoundInv
    <3>2. CASE i = Len(log) + 1
      BY <3>2, <2>2, <2>3
    <3>3. QED
      BY <3>1, <3>2, <2>2
  <2>5. QED
    BY <2>1, <2>2, <2>4 DEF BoundInv
<1>3. QED
  BY <1>1, <1>2, LogStep

LEMMA BoundInvariant == Spec => []BoundInv
<1>1. Init => BoundInv
  BY DEF Init, BoundInv
<1>2. QED
  BY <1>1, BoundStep, CounterInvariant, PTL DEF Spec

LEMMA GapFreeInit == Init => GapFree!DispenserInit
BY DEF Init, GapFree!DispenserInit

LEMMA GapFreeStep == CounterInv /\ BoundInv /\ [Next]_vars => [GapFree!DispenserNext]_issued
<1> SUFFICES ASSUME CounterInv, BoundInv, [Next]_vars, issued' # issued
             PROVE  GapFree!DispenserNext
  OBVIOUS
<1>1. PICK r \in Requests : Commit(r)
  BY LogStep
<1> DEFINE t == tenantOf[r]
           n == snap[r] + 1
<1>2. /\ t \in Tenants /\ issued[t] \in Seq(Nat) /\ snap[r] \in Nat /\ InTransaction(r)
      /\ DOMAIN issued[t] = 1 .. Len(issued[t]) /\ Len(issued[t]) \in Nat
      /\ issued' = [issued EXCEPT ![t] = Append(@, n)]
  BY <1>1, CommitFacts
<1>3. n = 1 \/ n - 1 \in GapFree!NumbersOf(issued[t])
  <2>1. CASE snap[r] = 0
    BY <1>2, <2>1
  <2>2. CASE snap[r] # 0
    <3>1. PICK i \in DOMAIN issued[t] : issued[t][i] = snap[r]
      BY <2>2, <1>2 DEF CounterInv, IssuedInv
    <3>2. n - 1 = snap[r]
      BY <1>2
    <3>3. QED
      BY <3>1, <3>2 DEF GapFree!NumbersOf
  <2>3. QED
    BY <2>1, <2>2
<1>4. n \in 1 .. Len(issued[t]) + 1
  <2>1. CASE snap[r] = 0
    BY <1>2, <2>1
  <2>2. CASE snap[r] # 0
    <3>1. PICK i \in DOMAIN issued[t] : issued[t][i] = snap[r]
      BY <2>2, <1>2 DEF CounterInv, IssuedInv
    <3>2. snap[r] <= i
      BY <3>1, <1>2 DEF BoundInv
    <3>3. QED
      BY <3>1, <3>2, <1>2
  <2>3. QED
    BY <2>1, <2>2
<1>5. n \in Nat \ {0}
  BY <1>2
<1>6. GapFree!Issue(t, n)
  <2> HIDE DEF t, n
  <2> QED
    BY <1>2, <1>3, <1>5 DEF GapFree!Issue, GapFree!MayIssue
<1>7. QED
  <2> HIDE DEF t, n
  <2> QED
    BY <1>2, <1>4, <1>6 DEF GapFree!DispenserNext

\* For any number of requests, tenants and connections, the case counter hands
\* out a number only when it is 1 or its predecessor was handed out before:
\* races repeat numbers and crashes lose cases, but no number is skipped.
THEOREM NumbersGapFree == Spec => NumbersHaveNoGap
<1>1. Init => GapFree!DispenserInit
  BY GapFreeInit
<1>2. CounterInv /\ BoundInv /\ [Next]_vars => [GapFree!DispenserNext]_issued
  BY GapFreeStep
<1>3. QED
  BY <1>1, <1>2, CounterInvariant, BoundInvariant, PTL DEF Spec, NumbersHaveNoGap, GapFree!DispenserSpec

-----------------------------------------------------------------------------
(***************************************************************************)
(* What the dispenser's promise amounts to: with a number, every smaller   *)
(* one was handed out.  This is a fact of the abstract specification, which*)
(* the counter inherits from NumbersGapFree.                               *)
(***************************************************************************)
LogsTyped == issued \in [Tenants -> Seq(Nat)]

NothingSkipped ==
  \A t \in Tenants : \A n \in GapFree!NumbersOf(issued[t]) :
    1 .. n \subseteq GapFree!NumbersOf(issued[t])

LEMMA SkipStep ==
  LogsTyped /\ NothingSkipped /\ [GapFree!DispenserNext]_issued => (LogsTyped /\ NothingSkipped)'
<1> SUFFICES ASSUME LogsTyped, NothingSkipped, [GapFree!DispenserNext]_issued
             PROVE  LogsTyped' /\ NothingSkipped'
  OBVIOUS
<1>1. CASE UNCHANGED issued
  BY <1>1 DEF LogsTyped, NothingSkipped
<1>2. CASE GapFree!DispenserNext
  <2>1. PICK t \in Tenants, n \in Nat \ {0} :
          /\ n = 1 \/ n - 1 \in GapFree!NumbersOf(issued[t])
          /\ issued' = [issued EXCEPT ![t] = Append(issued[t], n)]
    BY <1>2 DEF GapFree!DispenserNext, GapFree!Issue, GapFree!MayIssue
  <2>2. /\ issued[t] \in Seq(Nat) /\ issued'[t] = Append(issued[t], n)
        /\ \A u \in Tenants \ {t} : issued'[u] = issued[u]
    BY <2>1 DEF LogsTyped
  <2>3. LogsTyped'
    BY <2>1, <2>2, AppendedLog DEF LogsTyped
  <2>4. GapFree!NumbersOf(issued'[t]) = GapFree!NumbersOf(issued[t]) \cup {n}
    <3> DEFINE log == issued[t]
    <3>1. /\ DOMAIN Append(log, n) = 1 .. Len(log) + 1 /\ DOMAIN log = 1 .. Len(log)
          /\ Append(log, n)[Len(log) + 1] = n /\ Len(log) \in Nat
          /\ \A i \in DOMAIN log : Append(log, n)[i] = log[i]
      BY <2>1, <2>2, AppendedLog
    <3>2. {Append(log, n)[i] : i \in 1 .. Len(log) + 1} = {log[i] : i \in 1 .. Len(log)} \cup {n}
      <4> HIDE DEF log
      <4> QED
        BY <3>1
    <3>3. QED
      BY <2>2, <3>1, <3>2 DEF GapFree!NumbersOf
  <2>5. \A m \in GapFree!NumbersOf(issued[t]) \cup {n} :
          1 .. m \subseteq GapFree!NumbersOf(issued[t]) \cup {n}
    <3>1. \A m \in GapFree!NumbersOf(issued[t]) : 1 .. m \subseteq GapFree!NumbersOf(issued[t])
      BY DEF NothingSkipped
    <3>2. 1 .. n \subseteq 1 .. (n - 1) \cup {n}
      BY <2>1
    <3>3. n = 1 \/ 1 .. (n - 1) \subseteq GapFree!NumbersOf(issued[t])
      BY <2>1, <3>1
    <3>4. QED
      BY <3>1, <3>2, <3>3
  <2>6. ASSUME NEW u \in Tenants, NEW m \in GapFree!NumbersOf(issued'[u])
        PROVE  1 .. m \subseteq GapFree!NumbersOf(issued'[u])
    <3>1. CASE u = t
      BY <2>4, <2>5, <2>6, <3>1
    <3>2. CASE u # t
      BY <2>2, <2>6, <3>2 DEF NothingSkipped
    <3>3. QED
      BY <3>1, <3>2
  <2>7. NothingSkipped'
    BY <2>6 DEF NothingSkipped, GapFree!NumbersOf
  <2>8. QED
    BY <2>3, <2>7
<1>3. QED
  BY <1>1, <1>2

\* Among the numbers of a tenant nothing is missing: whatever transactions
\* overlap and fail, they are 1, 2, ... up to the largest NextCaseNumber has
\* handed out, although some may be there twice.
THEOREM NumbersContiguous == Spec => []NothingSkipped
<1>1. GapFree!DispenserInit => LogsTyped /\ NothingSkipped
  BY DEF GapFree!DispenserInit, LogsTyped, NothingSkipped, GapFree!NumbersOf
<1>2. LogsTyped /\ NothingSkipped /\ [GapFree!DispenserNext]_issued
      => (LogsTyped /\ NothingSkipped)'
  BY SkipStep
<1>3. GapFree!DispenserSpec => [](LogsTyped /\ NothingSkipped)
  BY <1>1, <1>2, PTL DEF GapFree!DispenserSpec
<1>4. QED
  BY <1>3, NumbersGapFree, PTL DEF NumbersHaveNoGap

-----------------------------------------------------------------------------
(***************************************************************************)
(* One connection.  SELECT, write and COMMIT of one request then run with  *)
(* no other transaction in between, which is what makes reading without a  *)
(* lock and writing an absolute value safe.                                *)
(***************************************************************************)
LEMMA PoolOfOne ==
  ASSUME MaxConns = 1, PoolHasRoom
  PROVE  \A r \in Requests : ~InTransaction(r)
<1> DEFINE S == {r \in Requests : InTransaction(r)}
<1>1. IsFiniteSet(S)
  BY RequestsAssumption, FS_Subset
<1>2. Cardinality(S) = 0
  <2>1. Cardinality(S) \in Nat
    BY <1>1, FS_CardinalityType
  <2>2. Cardinality(S) < 1
    BY DEF PoolHasRoom
  <2>3. QED
    BY <2>1, <2>2
<1>3. S = {}
  BY <1>1, <1>2, FS_EmptySet
<1>4. QED
  BY <1>3

LEMMA SerialStep ==
  ASSUME MaxConns = 1
  PROVE  CounterInv /\ SerialInv /\ [Next]_vars => SerialInv'
<1> SUFFICES ASSUME CounterInv, SerialInv, [Next]_vars PROVE SerialInv'
  OBVIOUS
<1>t. TypeOK
  BY DEF CounterInv
<1> USE RequestsAssumption, <1>t DEF TypeOK, Goto, InTransaction, SerialInv
<1>1. ASSUME NEW r \in Requests, SelectCounter(r) PROVE SerialInv'
  <2>1. \A s \in Requests : ~InTransaction(s)
    BY <1>1, PoolOfOne DEF SelectCounter
  <2>2. QED
    BY <1>1, <2>1 DEF SelectCounter
<1>2. ASSUME NEW r \in Requests, InsertCounter(r) PROVE SerialInv'
  <2>1. pc' = [pc EXCEPT ![r] = "written"] \/ pc' = [pc EXCEPT ![r] = "failed"]
    BY <1>2 DEF InsertCounter
  <2>2. pc[r] = "selected" /\ UNCHANGED <<counter, snap, number, issued, cases>>
    BY <1>2 DEF InsertCounter
  <2>3. \A s \in Requests : InTransaction(s)' => InTransaction(s)
    BY <2>1, <2>2
  <2>4. \A s \in Requests : (pc[s] \in {"start", "selected", "written"})' => number[s] = 0
    BY <2>1, <2>2
  <2>5. \A s \in Requests : (pc[s] = "numbered")' => pc[s] = "numbered"
    BY <2>1, <2>2
  <2>6. QED
    BY <2>2, <2>3, <2>4, <2>5
<1>3. ASSUME NEW r \in Requests, UpdateCounter(r) PROVE SerialInv'
  BY <1>3 DEF UpdateCounter
<1>4. ASSUME NEW r \in Requests, Commit(r) PROVE SerialInv'
  <2> DEFINE t == tenantOf[r]
             n == snap[r] + 1
  <2>1. /\ t \in Tenants /\ n \in Nat /\ n # 0 /\ n = counter[t] + 1
        /\ counter' = [counter EXCEPT ![t] = n]
        /\ number' = [number EXCEPT ![r] = n]
        /\ pc' = [pc EXCEPT ![r] = "numbered"]
        /\ issued' = [issued EXCEPT ![t] = Append(issued[t], n)]
        /\ UNCHANGED <<snap, cases>>
        /\ pc[r] = "written" /\ number[r] = 0
        /\ counter[t] = Len(issued[t]) /\ issued[t] \in Seq(Nat)
    BY <1>4 DEF Commit, CommitNumber
  <2>2. \A s \in Requests : InTransaction(s) => s = r
    BY <2>1
  <2>3. Len(Append(issued[t], n)) = n
    BY <2>1
  <2> HIDE DEF t, n
  <2>4. \A s, u \in Requests : (InTransaction(s) /\ InTransaction(u))' => s = u
    BY <2>1, <2>2
  <2>5. \A u \in Tenants : counter'[u] = Len(issued'[u])
    BY <2>1, <2>3
  <2>6. \A s \in Requests : InTransaction(s)' => snap'[s] = counter'[tenantOf[s]]
    BY <2>1, <2>2
  <2>7. \A s \in Requests : number'[s] <= counter'[tenantOf[s]]
    BY <2>1 DEF t
  <2>8. \A s \in Requests : pc'[s] \in {"start", "selected", "written"} => number'[s] = 0
    BY <2>1
  <2>9. \A s \in Requests : pc'[s] = "numbered" \/ s \in cases' => number'[s] # 0
    BY <2>1
  <2>10. ASSUME NEW s \in Requests, NEW u \in Requests,
                tenantOf[s] = tenantOf[u], number'[s] = number'[u], number'[s] # 0
         PROVE  s = u
    <3>1. \A v \in Requests \ {r} : number'[v] = number[v]
      BY <2>1
    <3>2. \A v \in Requests : tenantOf[v] = t => number[v] < n
      BY <2>1 DEF t
    <3>3. number'[r] = n /\ tenantOf[r] = t
      BY <2>1 DEF t
    <3>4. CASE s # r /\ u # r
      BY <3>4, <3>1, <2>10
    <3>5. CASE s = r \/ u = r
      BY <3>5, <3>1, <3>2, <3>3, <2>1, <2>10
    <3>6. QED
      BY <3>4, <3>5
  <2>11. QED
    BY <2>4, <2>5, <2>6, <2>7, <2>8, <2>9, <2>10
<1>5. ASSUME NEW r \in Requests, InsertCase(r) PROVE SerialInv'
  BY <1>5 DEF InsertCase
<1>6. ASSUME NEW r \in Requests, Fail(r) PROVE SerialInv'
  BY <1>6 DEF Fail
<1>7. CASE UNCHANGED vars
  BY <1>7 DEF vars
<1>8. QED
  BY <1>1, <1>2, <1>3, <1>4, <1>5, <1>6, <1>7 DEF Next, Progress, AllAnswered

LEMMA SerialInvariant ==
  ASSUME MaxConns = 1
  PROVE  Spec => []SerialInv
<1>1. Init => SerialInv
  BY RequestsAssumption DEF Init, SerialInv, InTransaction
<1>2. QED
  BY <1>1, SerialStep, CounterInvariant, PTL DEF Spec

\* When transactions cannot overlap, no two stored cases of a tenant carry the
\* same number: the numbering code is right for one connection, and only there.
THEOREM UniqueOnOneConnection ==
  ASSUME MaxConns = 1
  PROVE  Spec => []UniqueCaseNumbers
<1>1. CounterInv /\ SerialInv => UniqueCaseNumbers
  BY DEF CounterInv, TypeOK, SerialInv, UniqueCaseNumbers
<1>2. QED
  BY <1>1, CounterInvariant, SerialInvariant, PTL

\* When transactions cannot overlap, the counter row never goes back.
THEOREM CounterMonotoneOnOneConnection ==
  ASSUME MaxConns = 1
  PROVE  Spec => CounterNeverDecreases
<1>1. CounterInv /\ SerialInv /\ [Next]_vars
      => [\A t \in Tenants : counter'[t] >= counter[t]]_counter
  <2> SUFFICES ASSUME CounterInv, SerialInv, [Next]_vars, counter' # counter
               PROVE  \A t \in Tenants : counter'[t] >= counter[t]
    OBVIOUS
  <2>1. PICK r \in Requests : Commit(r)
    BY DEF Next, Progress, AllAnswered, vars, SelectCounter, InsertCounter,
           UpdateCounter, InsertCase, Fail
  <2>2. InTransaction(r) /\ snap[r] = counter[tenantOf[r]]
    BY <2>1 DEF Commit, CommitNumber, InTransaction, SerialInv
  <2>3. /\ counter' = [counter EXCEPT ![tenantOf[r]] = snap[r] + 1]
        /\ counter \in [Tenants -> Nat]
    BY <2>1 DEF Commit, CommitNumber, CounterInv, TypeOK
  <2>4. QED
    BY <2>2, <2>3
<1>2. QED
  BY <1>1, CounterInvariant, SerialInvariant, PTL DEF Spec, CounterNeverDecreases

LEMMA SequentialStep ==
  CounterInv /\ SerialInv /\ BoundInv /\ [Next]_vars => [Sequential!DispenserNext]_issued
<1> SUFFICES ASSUME CounterInv, SerialInv, BoundInv, [Next]_vars, issued' # issued
             PROVE  Sequential!DispenserNext
  OBVIOUS
<1>1. PICK r \in Requests : Commit(r)
  BY LogStep
<1> DEFINE t == tenantOf[r]
           n == snap[r] + 1
<1>2. /\ t \in Tenants /\ snap[r] \in Nat /\ InTransaction(r)
      /\ issued[t] \in Seq(Nat) /\ Len(issued[t]) \in Nat
      /\ DOMAIN issued[t] = 1 .. Len(issued[t])
      /\ issued' = [issued EXCEPT ![t] = Append(@, n)]
  BY <1>1, CommitFacts
<1>3. n = Len(issued[t]) + 1
  BY <1>2 DEF SerialInv
<1>4. n = 1 \/ n - 1 \in Sequential!NumbersOf(issued[t])
  <2>1. CASE snap[r] = 0
    BY <2>1
  <2>2. CASE snap[r] # 0
    <3>1. PICK i \in DOMAIN issued[t] : issued[t][i] = snap[r]
      BY <2>2, <1>2 DEF CounterInv, IssuedInv
    <3>2. n - 1 = snap[r]
      BY <1>2
    <3>3. QED
      BY <3>1, <3>2 DEF Sequential!NumbersOf
  <2>3. QED
    BY <2>1, <2>2
<1>5. n \in Nat \ {0} /\ n \in 1 .. Len(issued[t]) + 1
  BY <1>2, <1>3
<1>6. Sequential!Issue(t, n)
  <2> HIDE DEF t, n
  <2> QED
    BY <1>2, <1>3, <1>4, <1>5 DEF Sequential!Issue, Sequential!MayIssue
<1>7. QED
  <2> HIDE DEF t, n
  <2> QED
    BY <1>2, <1>5, <1>6 DEF Sequential!DispenserNext

\* On one connection the case counter implements the sequential dispenser:
\* every tenant receives 1, 2, 3, ... in this order.
THEOREM SequentialOnOneConnection ==
  ASSUME MaxConns = 1
  PROVE  Spec => NumbersAreSequential
<1>1. Init => Sequential!DispenserInit
  BY DEF Init, Sequential!DispenserInit
<1>2. QED
  BY <1>1, SequentialStep, CounterInvariant, SerialInvariant, BoundInvariant, PTL
     DEF Spec, NumbersAreSequential, Sequential!DispenserSpec

-----------------------------------------------------------------------------
(***************************************************************************)
(* Why every request is answered, in the terms of single states and steps. *)
(* Whoever waits, for a connection of the pool or for the lock of a counter*)
(* row, waits for a transaction that has all it needs for its next call;   *)
(* and no step but Fail's takes a request anywhere but to its next place.  *)
(***************************************************************************)
Answered(r) == pc[r] \in {"done", "failed"}

\* The next database call of the request finds a connection and the row free.
CanGo(r) ==
  \/ pc[r] \in {"start", "numbered"} /\ PoolHasRoom
  \/ pc[r] = "selected" /\ rowLock[tenantOf[r]] = NoOne
  \/ pc[r] = "written"

NoWaitInVain ==
  \A r \in Requests :
    Answered(r) \/ CanGo(r) \/ \E s \in Requests : InTransaction(s) /\ CanGo(s)

\* The places of a request in their order; it visits each at most once.
Places == [start |-> 0, selected |-> 1, written |-> 2, numbered |-> 3, done |-> 4, failed |-> 4]

OneAdvances ==
  \E r \in Requests, l \in PC : Places[pc[r]] < Places[l] /\ pc' = [pc EXCEPT ![r] = l]

LEMMA EmptyPool ==
  ASSUME \A r \in Requests : ~InTransaction(r)
  PROVE  PoolHasRoom
<1>1. {r \in Requests : InTransaction(r)} = {}
  OBVIOUS
<1>2. Cardinality({}) = 0
  BY FS_EmptySet
<1>3. QED
  BY <1>1, <1>2, PoolAssumption DEF PoolHasRoom

\* The transaction that holds the row of a waiting one can commit.
LEMMA HolderCanGo ==
  ASSUME CounterInv, NEW r \in Requests, InTransaction(r)
  PROVE  \E s \in Requests : InTransaction(s) /\ CanGo(s)
<1>1. tenantOf[r] \in Tenants /\ rowLock[tenantOf[r]] \in Requests \cup {NoOne}
  BY RequestsAssumption DEF CounterInv, TypeOK
<1>2. CASE pc[r] = "written" \/ rowLock[tenantOf[r]] = NoOne
  BY <1>2 DEF InTransaction, CanGo
<1>3. CASE rowLock[tenantOf[r]] # NoOne
  <2>1. PICK s \in Requests : rowLock[tenantOf[r]] = s
    BY <1>1, <1>3
  <2>2. pc[s] = "written"
    BY <1>1, <2>1 DEF CounterInv, LockInv
  <2>3. QED
    BY <2>2 DEF InTransaction, CanGo
<1>4. QED
  BY <1>2, <1>3

\* No request ever waits for one that cannot go on, for any pool: a request
\* holds its connection while it waits for the row, and the row's holder never
\* waits for anything (NextCaseNumber in case_repository.go).
THEOREM RequestsNeverDeadlock == Spec => []NoWaitInVain
<1>1. CounterInv => NoWaitInVain
  <2> SUFFICES ASSUME CounterInv, NEW r \in Requests, ~Answered(r), ~CanGo(r)
               PROVE  \E s \in Requests : InTransaction(s) /\ CanGo(s)
    BY DEF NoWaitInVain
  <2>1. pc[r] \in PC
    BY DEF CounterInv, TypeOK
  <2>2. CASE InTransaction(r)
    BY <2>2, HolderCanGo
  <2>3. CASE ~InTransaction(r)
    <3>1. ~PoolHasRoom
      BY <2>1, <2>3 DEF PC, InTransaction, Answered, CanGo
    <3>2. PICK s \in Requests : InTransaction(s)
      BY <3>1, EmptyPool
    <3>3. QED
      BY <3>2, HolderCanGo
  <2>4. QED
    BY <2>2, <2>3
<1>2. QED
  BY <1>1, CounterInvariant, PTL

LEMMA GoesTo ==
  ASSUME NEW r \in Requests, NEW l \in PC, Goto(r, l), Places[pc[r]] < Places[l]
  PROVE  OneAdvances
BY DEF Goto, OneAdvances

\* Each step takes one request forward, by the order of NextCaseNumber and the
\* insert after it, and none back: no call is retried, so that n requests make
\* at most 4 * n steps.  With RequestsNeverDeadlock it follows that the steps
\* end with every request answered, whatever order they come in.
THEOREM RequestsOnlyAdvance == Spec => [][OneAdvances]_vars
<1>1. [Next]_vars => [OneAdvances]_vars
  <2> SUFFICES ASSUME Next, ~UNCHANGED vars PROVE OneAdvances
    OBVIOUS
  <2>1. PICK r \in Requests : Progress(r) \/ Fail(r)
    BY DEF Next, AllAnswered
  <2>2. CASE SelectCounter(r)
    BY <2>2, GoesTo DEF SelectCounter, Places, PC
  <2>3. CASE InsertCounter(r)
    <3>1. pc[r] = "selected" /\ (Goto(r, "written") \/ Goto(r, "failed"))
      BY <2>3 DEF InsertCounter
    <3>2. QED
      BY <3>1, GoesTo DEF Places, PC
  <2>4. CASE UpdateCounter(r)
    BY <2>4, GoesTo DEF UpdateCounter, Places, PC
  <2>5. CASE Commit(r)
    BY <2>5, GoesTo DEF Commit, CommitNumber, Places, PC
  <2>6. CASE InsertCase(r)
    BY <2>6, GoesTo DEF InsertCase, Places, PC
  <2>7. CASE Fail(r)
    BY <2>7, GoesTo DEF Fail, Places, PC
  <2>8. QED
    BY <2>1, <2>2, <2>3, <2>4, <2>5, <2>6, <2>7 DEF Progress
<1>2. QED
  BY <1>1, PTL DEF Spec

-----------------------------------------------------------------------------
(***************************************************************************)
(* NotificationService, for any number of requests, users and ids: the types,*)
(* the order in which a bulk stores its notifications, and what dismissals *)
(* and readings leave for good.  Ids that belong to one bulk alone, and    *)
(* attributes that a missing item has not, make them inductive.            *)
(***************************************************************************)
\* An id that has no item has the attributes a new item starts from.
MissingEmpty == \A i \in Ids \ items : userId[i] = NoUser /\ ~ read[i]

\* The ids of a bulk are distinct and its own: no other request puts them.
IdsAlone ==
  \A w \in Workers :
    /\ \A j, k \in DOMAIN work[w].ids : work[w].ids[j] = work[w].ids[k] => j = k
    /\ \A v \in Workers \ {w} : \A j \in DOMAIN work[w].ids, k \in DOMAIN work[v].ids :
         work[w].ids[j] # work[v].ids[k]

\* A bulk has stored what it is done with, perhaps the next notification,
\* whose response was lost, and no later one.
SentSoFar(w) ==
  \A k \in DOMAIN work[w].to :
    /\ k <= work[w].done => sentTo[work[w].ids[k]] = work[w].to[k]
    /\ k > work[w].done + 1 => sentTo[work[w].ids[k]] = NoUser

\* It goes on while a recipient is left, and is answered when none is;
\* MarkAllRead goes on while an id is left.
EndsInOrder(w) ==
  /\ work[w].at = "put" => work[w].done < Len(work[w].to)
  /\ work[w].at \in {"mark", "ok"} => work[w].done = Len(work[w].to)
  /\ work[w].at = "mark" => work[w].todo # {}

BulkProgress == \A w \in Workers : SentSoFar(w) /\ EndsInOrder(w)

InboxInv == InboxTypeOK /\ MissingEmpty /\ IdsAlone /\ BulkProgress

-----------------------------------------------------------------------------
\* The inductive invariant holds while there is no notification.
THEOREM InboxStart == InboxInit => InboxInv
<1> SUFFICES ASSUME InboxInit PROVE InboxInv
  OBVIOUS
<1>1. \A w \in Workers : work[w] = Idle /\ Len(Idle.to) = 0 /\ Len(Idle.ids) = 0
  BY DEF InboxInit, Idle
<1>2. Idle \in Job
  BY DEF Idle, Job
<1>3. InboxTypeOK
  BY <1>1, <1>2 DEF InboxInit, InboxTypeOK, Idle
<1> QED
  BY <1>1, <1>3 DEF InboxInit, InboxInv, MissingEmpty, IdsAlone, BulkProgress, SentSoFar, EndsInOrder, Idle

LEMMA BecomeIs ==
  ASSUME InboxTypeOK, NEW w \in Workers, NEW job, Become(w, job)
  PROVE  /\ work'[w] = job
         /\ \A v \in Workers \ {w} : work'[v] = work[v]
BY DEF InboxTypeOK, Become

\* A bulk has one id for each recipient.
LEMMA BulkTyped ==
  ASSUME InboxTypeOK, NEW w \in Workers
  PROVE  /\ Len(work[w].to) \in Nat /\ work[w].done \in 0 .. Len(work[w].to)
         /\ DOMAIN work[w].to = 1 .. Len(work[w].to)
         /\ DOMAIN work[w].ids = 1 .. Len(work[w].to)
         /\ \A k \in 1 .. Len(work[w].to) : work[w].to[k] \in Users /\ work[w].ids[k] \in Ids
<1>1. /\ work[w] \in Job /\ work[w].to \in {<<>>} \cup Bulks /\ work[w].ids \in Seq(Ids)
      /\ work[w].done \in Nat
      /\ Len(work[w].ids) = Len(work[w].to) /\ work[w].done <= Len(work[w].to)
  BY DEF InboxTypeOK, Job
<1>2. work[w].to \in Seq(Users)
  BY <1>1, NotificationAssumption
<1> QED
  BY <1>1, <1>2

\* The ids of a new bulk are nobody's.
LEMMA FreshAre ==
  ASSUME InboxTypeOK, NEW i \in Fresh
  PROVE  /\ i \in Ids /\ sentTo[i] = NoUser
         /\ \A v \in Workers : \A k \in DOMAIN work[v].ids : work[v].ids[k] # i
BY DEF Fresh, InUse, Range

\* The order of the natural numbers is a well-founded relation.
LEMMA SmallestId ==
  ASSUME NEW T \in SUBSET Nat, T # {}
  PROVE  \E x \in T : \A y \in T : x <= y
<1> DEFINE R == OpToRel(<, Nat)
<1>1. PICK x \in T : \A y \in T : ~ (<<y, x>> \in R)
  <2>1. IsWellFoundedOn(R, Nat)
    BY NatLessThanWellFounded
  <2> HIDE DEF R
  <2> QED
    BY <2>1, WFMin, Zenon
<1>2. \A y \in T : ~ (y < x)
  BY <1>1 DEF OpToRel
<1> QED
  BY <1>2

\* What MarkNext marks next is one of the ids it was given.
LEMMA NextMarked ==
  ASSUME NEW todo \in SUBSET Ids, todo # {}
  PROVE  (CHOOSE j \in todo : \A k \in todo : j <= k) \in todo
<1>1. \E x \in todo : \A y \in todo : x <= y
  BY SmallestId, NotificationAssumption
<1> QED
  BY <1>1

\* What a step may do to the request of worker w.
Keeps(w) == work'[w].ids = work[w].ids /\ work'[w].to = work[w].to
Empty(w) == work'[w].ids = <<>> /\ work'[w].to = <<>> /\ work'[w].done = 0

StartsWith(w, to, ids) ==
  /\ to \in Bulks /\ ids \in [1 .. Len(to) -> Fresh]
  /\ \A j, k \in DOMAIN ids : ids[j] = ids[k] => j = k
  /\ work'[w] = [Idle EXCEPT !.at = "put", !.to = to, !.ids = ids]
  /\ sentTo' = sentTo /\ \A v \in Workers \ {w} : work'[v] = work[v]

RequestMoves(w) ==
  \/ work'[w] = work[w]
  \/ work'[w] = Idle
  \/ \E u \in Users :
       work'[w] = IF Unread(u) = {} THEN [Idle EXCEPT !.at = "ok"]
                  ELSE [Idle EXCEPT !.at = "mark", !.todo = Unread(u)]
  \/ \E to, ids : StartsWith(w, to, ids)
  \/ /\ work[w].at = "put"
     /\ sentTo'[work[w].ids[work[w].done + 1]] = work[w].to[work[w].done + 1]
     /\ work'[w] = Advanced(work[w])
  \/ work[w].at = "put" /\ work'[w] = [work[w] EXCEPT !.at = "error"]
  \/ /\ work[w].at = "mark"
     /\ \E rest \in SUBSET work[w].todo :
          work'[w] = [work[w] EXCEPT !.todo = rest, !.at = IF rest = {} THEN "ok" ELSE "mark"]

LEMMA RequestsMove ==
  ASSUME InboxInv, [InboxNext]_inboxVars, NEW w \in Workers
  PROVE  RequestMoves(w)
<1> USE DEF InboxInv
<1>1. ASSUME NEW v \in Workers, NEW job, Become(v, job), v # w PROVE RequestMoves(w)
  BY <1>1, BecomeIs DEF RequestMoves
<1>2. ASSUME NEW job, Become(w, job) PROVE work'[w] = job
  BY <1>2, BecomeIs
<1>3. ASSUME NEW v \in Workers, NEW to \in Bulks, StartBulk(v, to) PROVE RequestMoves(w)
  <2>1. PICK ids \in [1 .. Len(to) -> Fresh] :
          /\ IsInjective(ids)
          /\ Become(v, [Idle EXCEPT !.at = "put", !.to = to, !.ids = ids])
    BY <1>3 DEF StartBulk
  <2>2. CASE v = w
    <3>1. StartsWith(w, to, ids)
      BY <1>3, <2>1, <2>2, BecomeIs DEF StartBulk, StartsWith, IsInjective
    <3> QED
      BY <3>1 DEF RequestMoves
  <2> QED
    BY <1>1, <2>1, <2>2
<1>4. ASSUME NEW v \in Workers, NEW u \in Users, StartMarkAll(v, u) PROVE RequestMoves(w)
  BY <1>1, <1>2, <1>4 DEF StartMarkAll, RequestMoves
<1>5. ASSUME NEW v \in Workers, SendOne(v) PROVE RequestMoves(w)
  <2>1. CASE UNCHANGED work
    BY <2>1 DEF RequestMoves
  <2>2. CASE Become(w, Advanced(work[w])) /\ v = w
    <3> DEFINE n == work[w].done + 1
    <3>1. n \in 1 .. Len(work[w].to)
      BY <1>5, <2>2, BulkTyped DEF SendOne, BulkProgress, EndsInOrder
    <3>2. work[w].ids[n] \in Ids
      BY <3>1, BulkTyped
    <3>3. sentTo'[work[w].ids[n]] = work[w].to[n]
      BY <1>5, <2>2, <3>2 DEF SendOne, Put, InboxTypeOK
    <3> QED
      BY <1>2, <1>5, <2>2, <3>3 DEF SendOne, RequestMoves
  <2> QED
    BY <1>1, <1>5, <2>1, <2>2 DEF SendOne
<1>6. ASSUME NEW v \in Workers, BulkStops(v) PROVE RequestMoves(w)
  BY <1>1, <1>2, <1>6 DEF BulkStops, RequestMoves
<1>7. ASSUME NEW v \in Workers, MarkNext(v) PROVE RequestMoves(w)
  <2>1. CASE v = w
    <3>1. \E rest \in SUBSET work[w].todo :
            Become(w, [work[w] EXCEPT !.todo = rest, !.at = IF rest = {} THEN "ok" ELSE "mark"])
      BY <1>7, <2>1 DEF MarkNext
    <3> QED
      BY <1>2, <1>7, <2>1, <3>1 DEF MarkNext, RequestMoves
  <2> QED
    BY <1>1, <1>7, <2>1 DEF MarkNext
<1>8. ASSUME NEW v \in Workers, Answer(v) \/ Crash(v) PROVE RequestMoves(w)
  BY <1>1, <1>2, <1>8 DEF Answer, Crash, RequestMoves
<1>9. CASE UNCHANGED work
  BY <1>9 DEF RequestMoves
<1> QED
  BY <1>3, <1>4, <1>5, <1>6, <1>7, <1>8, <1>9 DEF InboxNext, inboxVars, MarkRead, Dismiss

\* What is put is one notification of a bulk, for its recipient.
LEMMA PutTyped ==
  ASSUME InboxInv, NEW w \in Workers, SendOne(w)
  PROVE  \E n \in DOMAIN work[w].to :
           /\ n = work[w].done + 1 /\ n \in DOMAIN work[w].ids
           /\ work[w].ids[n] \in Ids /\ work[w].to[n] \in Users
           /\ Put(work[w].ids[n], work[w].to[n])
<1>1. work[w].done + 1 \in 1 .. Len(work[w].to)
  BY BulkTyped DEF SendOne, InboxInv, BulkProgress, EndsInOrder
<1> QED
  BY <1>1, BulkTyped DEF SendOne, InboxInv

LEMMA InboxTypeStep == InboxInv /\ [InboxNext]_inboxVars => InboxTypeOK'
<1> SUFFICES ASSUME InboxInv, [InboxNext]_inboxVars PROVE InboxTypeOK'
  OBVIOUS
<1> USE DEF InboxInv
<1>1. /\ items' \subseteq Ids /\ dismissed' \subseteq Ids
      /\ userId' \in [Ids -> Users \cup {NoUser}] /\ sentTo' \in [Ids -> Users \cup {NoUser}]
      /\ read' \in [Ids -> BOOLEAN]
  <2>1. ASSUME NEW w \in Workers, SendOne(w) PROVE <1>1
    <3>1. PICK i \in Ids, u \in Users : Put(i, u)
      BY <2>1, PutTyped
    <3> QED
      BY <3>1 DEF Put, InboxTypeOK
  <2>2. ASSUME NEW w \in Workers, MarkNext(w) PROVE <1>1
    <3>1. work[w].todo \in SUBSET Ids /\ work[w].todo # {}
      BY <2>2 DEF MarkNext, BulkProgress, EndsInOrder, InboxTypeOK, Job
    <3>2. /\ UNCHANGED <<sentTo, dismissed>>
          /\ UNCHANGED <<items, userId, read>> \/ \E i \in Ids : MarkItem(i)
      BY <2>2, <3>1, NextMarked DEF MarkNext
    <3> QED
      BY <3>2 DEF MarkItem, InboxTypeOK
  <2> QED
    BY <2>1, <2>2
    DEF InboxNext, inboxVars, StartBulk, StartMarkAll, BulkStops, Answer, Crash, MarkRead, MarkItem,
        Dismiss, InboxTypeOK
<1>2. ASSUME NEW w \in Workers
      PROVE  /\ work'[w] \in Job /\ Len(work'[w].ids) = Len(work'[w].to)
             /\ work'[w].done <= Len(work'[w].to)
  <2>1. RequestMoves(w)
    BY RequestsMove
  <2>2. /\ work[w] \in Job /\ Len(work[w].ids) = Len(work[w].to)
        /\ work[w].done <= Len(work[w].to) /\ work[w].done \in Nat /\ Len(work[w].to) \in Nat
    BY BulkTyped DEF InboxTypeOK
  <2>3. Idle \in Job /\ Len(Idle.ids) = Len(Idle.to) /\ Idle.done <= Len(Idle.to)
    BY DEF Idle, Job
  <2>4. ASSUME NEW u \in Users,
               work'[w] = IF Unread(u) = {} THEN [Idle EXCEPT !.at = "ok"]
                          ELSE [Idle EXCEPT !.at = "mark", !.todo = Unread(u)]
        PROVE  <1>2!2
    <3>1. Unread(u) \in SUBSET Ids
      BY DEF Unread, FirstPage, InboxTypeOK
    <3>2. \/ work'[w] = [at |-> "ok", to |-> <<>>, ids |-> <<>>, done |-> 0, todo |-> {}]
          \/ work'[w] = [at |-> "mark", to |-> <<>>, ids |-> <<>>, done |-> 0, todo |-> Unread(u)]
      BY <2>4 DEF Idle
    <3>3. ASSUME NEW at \in {"ok", "mark"}, NEW todo \in SUBSET Ids,
                 work'[w] = [at |-> at, to |-> <<>>, ids |-> <<>>, done |-> 0, todo |-> todo]
          PROVE  <1>2!2
      BY <3>3 DEF Job
    <3> QED
      BY <3>1, <3>2, <3>3
  <2>5. ASSUME NEW to, NEW ids, StartsWith(w, to, ids) PROVE <1>2!2
    <3>1. to \in Seq(Users) /\ to \in Bulks /\ Len(to) \in Nat
      BY <2>5, NotificationAssumption DEF StartsWith
    <3>2. ids \in Seq(Ids) /\ Len(ids) = Len(to)
      BY <2>5, <3>1, FreshAre DEF StartsWith
    <3>3. work'[w] = [at |-> "put", to |-> to, ids |-> ids, done |-> 0, todo |-> {}]
      BY <2>5 DEF StartsWith, Idle
    <3> QED
      BY <3>1, <3>2, <3>3 DEF Job
  <2>6. CASE work[w].at = "put" /\ work'[w] = Advanced(work[w])
    <3>1. work[w].done + 1 <= Len(work[w].to)
      BY <2>2, <2>6 DEF BulkProgress, EndsInOrder
    <3>2. work'[w] = [at |-> IF work[w].done + 1 = Len(work[w].to) THEN "ok" ELSE "put",
                      to |-> work[w].to, ids |-> work[w].ids,
                      done |-> work[w].done + 1, todo |-> work[w].todo]
      BY <2>2, <2>6 DEF Advanced, Job
    <3> QED
      BY <2>2, <3>1, <3>2 DEF Job
  <2>7. CASE work'[w] = [work[w] EXCEPT !.at = "error"]
    BY <2>2, <2>7 DEF Job
  <2>8. ASSUME NEW rest \in SUBSET work[w].todo,
               work'[w] = [work[w] EXCEPT !.todo = rest, !.at = IF rest = {} THEN "ok" ELSE "mark"]
        PROVE  <1>2!2
    BY <2>2, <2>8 DEF Job
  <2> QED
    BY <2>1, <2>2, <2>3, <2>4, <2>5, <2>6, <2>7, <2>8 DEF RequestMoves
<1>3. work' = [w \in Workers |-> work'[w]]
  BY DEF InboxNext, inboxVars, StartBulk, StartMarkAll, SendOne, BulkStops, MarkNext, Answer, Crash, Become,
    MarkRead, Dismiss, InboxTypeOK
<1> QED
  BY <1>1, <1>2, <1>3 DEF InboxTypeOK

LEMMA EmptyStep == InboxInv /\ [InboxNext]_inboxVars => MissingEmpty'
<1> SUFFICES ASSUME InboxInv, [InboxNext]_inboxVars, NEW i \in Ids, i \notin items'
             PROVE  userId'[i] = NoUser /\ ~ read'[i]
  BY DEF MissingEmpty
<1> USE DEF InboxInv
<1>1. i \notin items => userId[i] = NoUser /\ ~ read[i]
  BY DEF MissingEmpty
<1>2. ASSUME NEW w \in Workers, SendOne(w) PROVE userId'[i] = NoUser /\ ~ read'[i]
  <2>1. PICK j \in Ids, u \in Users : Put(j, u)
    BY <1>2, PutTyped
  <2> QED
    BY <1>1, <2>1 DEF Put, InboxTypeOK
<1>3. ASSUME NEW j, MarkItem(j) PROVE userId'[i] = NoUser /\ ~ read'[i]
  BY <1>1, <1>3 DEF MarkItem, InboxTypeOK
<1>4. ASSUME NEW j \in Ids, Dismiss(j) PROVE userId'[i] = NoUser /\ ~ read'[i]
  BY <1>1, <1>4 DEF Dismiss, InboxTypeOK
<1>5. CASE UNCHANGED <<items, userId, read>>
  BY <1>1, <1>5
<1> QED
  BY <1>2, <1>3, <1>4, <1>5
  DEF InboxNext, inboxVars, StartBulk, StartMarkAll, BulkStops, MarkNext, Answer, Crash, MarkRead

\* The ids of a request after a step: kept, none, or new ones of its own.
LEMMA IdsMove ==
  ASSUME InboxInv, [InboxNext]_inboxVars, NEW w \in Workers
  PROVE  \/ Keeps(w)
         \/ work'[w].ids = <<>> /\ work'[w].to = <<>>
         \/ \E to, ids : StartsWith(w, to, ids) /\ work'[w].ids = ids /\ work'[w].to = to
<1>1. RequestMoves(w) /\ work[w] \in Job
  BY RequestsMove DEF InboxInv, InboxTypeOK
<1>2. ASSUME NEW to, NEW ids, StartsWith(w, to, ids) PROVE work'[w].ids = ids /\ work'[w].to = to
  BY <1>2 DEF StartsWith, Idle
<1>3. CASE work'[w] = Advanced(work[w])
  BY <1>1, <1>3 DEF Keeps, Advanced, Job
<1>4. ASSUME NEW rest,
             work'[w] = [work[w] EXCEPT !.todo = rest, !.at = IF rest = {} THEN "ok" ELSE "mark"]
      PROVE  Keeps(w)
  BY <1>1, <1>4 DEF Keeps, Job
<1>5. CASE work'[w] = [work[w] EXCEPT !.at = "error"]
  BY <1>1, <1>5 DEF Keeps, Job
<1>6. ASSUME NEW u, work'[w] = IF Unread(u) = {} THEN [Idle EXCEPT !.at = "ok"]
                               ELSE [Idle EXCEPT !.at = "mark", !.todo = Unread(u)]
      PROVE  work'[w].ids = <<>> /\ work'[w].to = <<>>
  BY <1>6 DEF Idle
<1>7. CASE work'[w] = Idle \/ work'[w] = work[w]
  BY <1>7 DEF Idle, Keeps
<1> QED
  BY <1>1, <1>2, <1>3, <1>4, <1>5, <1>6, <1>7 DEF RequestMoves

LEMMA IdsStep == InboxInv /\ [InboxNext]_inboxVars => IdsAlone'
<1> SUFFICES ASSUME InboxInv, [InboxNext]_inboxVars, NEW w \in Workers
             PROVE  /\ \A j, k \in DOMAIN work'[w].ids :
                         work'[w].ids[j] = work'[w].ids[k] => j = k
                    /\ \A v \in Workers \ {w} :
                         \A j \in DOMAIN work'[w].ids, k \in DOMAIN work'[v].ids :
                           work'[w].ids[j] # work'[v].ids[k]
  BY DEF IdsAlone
<1> USE DEF InboxInv
<1>1. \A j, k \in DOMAIN work'[w].ids : work'[w].ids[j] = work'[w].ids[k] => j = k
  <2>1. CASE Keeps(w)
    BY <2>1 DEF Keeps, IdsAlone
  <2>2. CASE work'[w].ids = <<>>
    BY <2>2
  <2>3. ASSUME NEW to, NEW ids, StartsWith(w, to, ids), work'[w].ids = ids PROVE <1>1
    BY <2>3 DEF StartsWith
  <2> QED
    BY <2>1, <2>2, <2>3, IdsMove
<1> DEFINE Apart(x, y) == \A j \in DOMAIN work'[x].ids, k \in DOMAIN work'[y].ids :
                            work'[x].ids[j] # work'[y].ids[k]
<1>2. ASSUME NEW x \in Workers, NEW y \in Workers, x # y, NEW to, NEW ids, StartsWith(x, to, ids),
             work'[x].ids = ids
      PROVE  Apart(x, y)
  <2>1. work'[y] = work[y] /\ \A j \in DOMAIN ids : ids[j] \in Fresh
    BY <1>2 DEF StartsWith
  <2> QED
    BY <1>2, <2>1, FreshAre
<1>3. ASSUME NEW v \in Workers, v # w PROVE Apart(w, v)
  <2>1. CASE Keeps(w) /\ Keeps(v)
    BY <1>3, <2>1 DEF Keeps, IdsAlone
  <2>2. CASE work'[w].ids = <<>> \/ work'[v].ids = <<>>
    BY <2>2
  <2>3. ASSUME NEW to, NEW ids, StartsWith(w, to, ids), work'[w].ids = ids PROVE Apart(w, v)
    BY <1>2, <1>3, <2>3
  <2>4. ASSUME NEW to, NEW ids, StartsWith(v, to, ids), work'[v].ids = ids PROVE Apart(w, v)
    <3>1. Apart(v, w)
      BY <1>2, <1>3, <2>4
    <3> QED
      BY <3>1
  <2> HIDE DEF Apart
  <2> QED
    BY <1>3, <2>1, <2>2, <2>3, <2>4, IdsMove
<1> QED
  BY <1>1, <1>3

\* Who a notification of a bulk is stored for changes only when the bulk puts
\* the next one.
LEMMA SentStays ==
  ASSUME InboxInv, [InboxNext]_inboxVars, NEW w \in Workers, NEW k \in DOMAIN work[w].to
  PROVE  \/ sentTo'[work[w].ids[k]] = sentTo[work[w].ids[k]]
         \/ /\ work[w].at = "put" /\ k = work[w].done + 1
            /\ sentTo'[work[w].ids[k]] = work[w].to[k]
<1> USE DEF InboxInv
<1>1. k \in DOMAIN work[w].ids /\ work[w].ids[k] \in Ids
  BY BulkTyped
<1>2. ASSUME NEW v \in Workers, SendOne(v)
      PROVE  \/ sentTo'[work[w].ids[k]] = sentTo[work[w].ids[k]]
             \/ /\ work[w].at = "put" /\ k = work[w].done + 1
                /\ sentTo'[work[w].ids[k]] = work[w].to[k]
  <2>1. PICK n \in DOMAIN work[v].ids :
          /\ n = work[v].done + 1 /\ work[v].ids[n] \in Ids
          /\ sentTo' = [sentTo EXCEPT ![work[v].ids[n]] = work[v].to[n]]
    BY <1>2, PutTyped DEF Put
  <2>2. CASE work[v].ids[n] # work[w].ids[k]
    BY <1>1, <2>1, <2>2 DEF InboxTypeOK
  <2>3. CASE work[v].ids[n] = work[w].ids[k]
    <3>1. v = w /\ n = k
      BY <1>1, <2>1, <2>3 DEF IdsAlone
    <3> QED
      BY <1>1, <1>2, <2>1, <3>1 DEF SendOne, InboxTypeOK
  <2> QED
    BY <2>2, <2>3
<1>3. CASE sentTo' = sentTo
  BY <1>3
<1> QED
  BY <1>2, <1>3
  DEF InboxNext, inboxVars, StartBulk, StartMarkAll, BulkStops, MarkNext, Answer, Crash, MarkRead, Dismiss

LEMMA ProgressStep == InboxInv /\ [InboxNext]_inboxVars => BulkProgress'
<1> SUFFICES ASSUME InboxInv, [InboxNext]_inboxVars, NEW w \in Workers
             PROVE  SentSoFar(w)' /\ EndsInOrder(w)'
  BY DEF BulkProgress
<1> USE DEF InboxInv
<1>1. /\ work[w] \in Job /\ Len(work[w].to) \in Nat /\ work[w].done \in 0 .. Len(work[w].to)
      /\ DOMAIN work[w].to = 1 .. Len(work[w].to)
  BY BulkTyped DEF InboxTypeOK
\* A request that goes on with what it has.
<1>2. ASSUME NEW k \in DOMAIN work[w].to
      PROVE  /\ k <= work[w].done => sentTo'[work[w].ids[k]] = work[w].to[k]
             /\ k > work[w].done + 1 => sentTo'[work[w].ids[k]] = NoUser
  BY <1>1, <1>2, SentStays DEF BulkProgress, SentSoFar
<1>3. ASSUME work[w].at = "put" PROVE work[w].done < Len(work[w].to)
  BY <1>3 DEF BulkProgress, EndsInOrder
<1>4. CASE work'[w] = work[w]
  BY <1>2, <1>4 DEF BulkProgress, SentSoFar, EndsInOrder
<1>5. CASE work'[w] = Idle
  BY <1>5 DEF Idle, SentSoFar, EndsInOrder
<1>6. ASSUME NEW u, work'[w] = IF Unread(u) = {} THEN [Idle EXCEPT !.at = "ok"]
                               ELSE [Idle EXCEPT !.at = "mark", !.todo = Unread(u)]
      PROVE  SentSoFar(w)' /\ EndsInOrder(w)'
  BY <1>6 DEF Idle, SentSoFar, EndsInOrder
<1>7. ASSUME NEW to, NEW ids, StartsWith(w, to, ids) PROVE SentSoFar(w)' /\ EndsInOrder(w)'
  <2>1. to \in Seq(Users) /\ to # <<>> /\ Len(to) \in Nat
    BY <1>7, NotificationAssumption DEF StartsWith
  <2>2. work'[w] = [at |-> "put", to |-> to, ids |-> ids, done |-> 0, todo |-> {}]
    BY <1>7 DEF StartsWith, Idle
  <2>3. \A k \in 1 .. Len(to) : sentTo'[ids[k]] = NoUser
    BY <1>7, FreshAre DEF StartsWith
  <2> QED
    BY <2>1, <2>2, <2>3 DEF SentSoFar, EndsInOrder
<1>8. CASE /\ work[w].at = "put"
           /\ sentTo'[work[w].ids[work[w].done + 1]] = work[w].to[work[w].done + 1]
           /\ work'[w] = Advanced(work[w])
  <2>1. /\ work'[w].to = work[w].to /\ work'[w].ids = work[w].ids
        /\ work'[w].done = work[w].done + 1
        /\ work'[w].at = IF work[w].done + 1 = Len(work[w].to) THEN "ok" ELSE "put"
    BY <1>1, <1>8 DEF Advanced, Job
  <2>2. SentSoFar(w)'
    <3>1. ASSUME NEW k \in 1 .. Len(work[w].to)
          PROVE  /\ k <= work[w].done + 1 => sentTo'[work[w].ids[k]] = work[w].to[k]
                 /\ k > work[w].done + 2 => sentTo'[work[w].ids[k]] = NoUser
      <4>1. k <= work[w].done \/ k = work[w].done + 1 \/ k > work[w].done + 1
        BY <1>1
      <4> QED
        BY <1>1, <1>2, <1>8, <4>1
    <3>2. work'[w].done + 1 = work[w].done + 2
      BY <1>1, <2>1
    <3> QED
      BY <1>1, <2>1, <3>1, <3>2 DEF SentSoFar
  <2>3. EndsInOrder(w)'
    BY <1>1, <1>3, <1>8, <2>1 DEF EndsInOrder
  <2> QED
    BY <2>2, <2>3
<1>9. CASE work[w].at = "put" /\ work'[w] = [work[w] EXCEPT !.at = "error"]
  <2>1. /\ work'[w].to = work[w].to /\ work'[w].ids = work[w].ids
        /\ work'[w].done = work[w].done /\ work'[w].at = "error"
    BY <1>1, <1>9 DEF Job
  <2> QED
    BY <1>2, <2>1 DEF SentSoFar, EndsInOrder
<1>10. ASSUME work[w].at = "mark", NEW rest,
              work'[w] = [work[w] EXCEPT !.todo = rest, !.at = IF rest = {} THEN "ok" ELSE "mark"]
       PROVE  SentSoFar(w)' /\ EndsInOrder(w)'
  <2>1. /\ work'[w].to = work[w].to /\ work'[w].ids = work[w].ids
        /\ work'[w].done = work[w].done /\ work'[w].todo = rest
        /\ work'[w].at = IF rest = {} THEN "ok" ELSE "mark"
    BY <1>1, <1>10 DEF Job
  <2>2. work[w].done = Len(work[w].to)
    BY <1>10 DEF BulkProgress, EndsInOrder
  <2> QED
    BY <1>2, <2>1, <2>2 DEF SentSoFar, EndsInOrder
<1>11. RequestMoves(w)
  BY RequestsMove
<1> QED
  BY <1>4, <1>5, <1>6, <1>7, <1>8, <1>9, <1>10, <1>11 DEF RequestMoves

LEMMA InboxStep == InboxInv /\ [InboxNext]_inboxVars => InboxInv'
BY InboxTypeStep, EmptyStep, IdsStep, ProgressStep DEF InboxInv

-----------------------------------------------------------------------------
\* The requests for notifications keep the inductive invariant, retried puts
\* included.
THEOREM InboxInvariance == InboxSpec => []InboxInv
BY InboxStart, InboxStep, PTL DEF InboxSpec

\* The types of the table and of the requests: a bulk has an id for each
\* recipient and never stores more than it was asked to.
THEOREM InboxTypesHold == InboxSpec => []InboxTypeOK
<1>1. InboxInv => InboxTypeOK
  BY DEF InboxInv
<1> QED
  BY <1>1, InboxInvariance, PTL

\* notificationService.SendBulk: what a bulk has stored is a prefix of its
\* recipients, all of them when it is answered with success.
THEOREM BulksStorePrefixes == InboxSpec => []BulkStoresPrefix
<1>1. InboxInv => BulkStoresPrefix
  <2> SUFFICES ASSUME InboxInv, NEW w \in Workers
               PROVE  /\ \A k \in DOMAIN work[w].to :
                           sentTo[work[w].ids[k]] = work[w].to[k] =>
                             \A j \in 1 .. k : sentTo[work[w].ids[j]] = work[w].to[j]
                      /\ work[w].at = "ok" =>
                           \A k \in DOMAIN work[w].to : sentTo[work[w].ids[k]] = work[w].to[k]
    BY DEF BulkStoresPrefix
  <2>1. /\ Len(work[w].to) \in Nat /\ work[w].done \in 0 .. Len(work[w].to)
        /\ DOMAIN work[w].to = 1 .. Len(work[w].to)
        /\ \A k \in 1 .. Len(work[w].to) : work[w].to[k] # NoUser
    BY BulkTyped, NotificationAssumption DEF InboxInv
  <2>2. \A k \in 1 .. Len(work[w].to) :
          /\ k <= work[w].done => sentTo[work[w].ids[k]] = work[w].to[k]
          /\ k > work[w].done + 1 => sentTo[work[w].ids[k]] = NoUser
    BY <2>1 DEF InboxInv, BulkProgress, SentSoFar
  <2>3. ASSUME NEW k \in 1 .. Len(work[w].to), sentTo[work[w].ids[k]] = work[w].to[k],
               NEW j \in 1 .. k
        PROVE  sentTo[work[w].ids[j]] = work[w].to[j]
    <3>1. k <= work[w].done + 1
      BY <2>1, <2>2, <2>3
    <3>2. j \in 1 .. Len(work[w].to) /\ (j = k \/ j <= work[w].done)
      BY <2>1, <3>1
    <3> QED
      BY <2>2, <2>3, <3>2
  <2>4. ASSUME work[w].at = "ok", NEW k \in 1 .. Len(work[w].to)
        PROVE  sentTo[work[w].ids[k]] = work[w].to[k]
    <3>1. work[w].done = Len(work[w].to)
      BY <2>4 DEF InboxInv, BulkProgress, EndsInOrder
    <3> QED
      BY <2>1, <2>2, <3>1
  <2> QED
    BY <2>1, <2>3, <2>4
<1> QED
  BY <1>1, InboxInvariance, PTL

\* Repository Delete, against MarkRead's and MarkAllRead's unconditional
\* UpdateItem: a dismissed notification, once its sender is done, is in
\* nobody's list again.
THEOREM DismissedStayGone == InboxSpec => DismissedContentGone
<1>1. InboxInv /\ [InboxNext]_inboxVars => [ContentGone]_inboxVars
  <2> SUFFICES ASSUME InboxInv, [InboxNext]_inboxVars, NEW i \in Ids, Settled(i), Contentless(i)
               PROVE  i \notin items' \/ userId'[i] = NoUser
    BY DEF ContentGone, Contentless
  <2> USE DEF InboxInv
  <2>1. userId[i] = NoUser
    BY DEF Contentless, MissingEmpty
  <2>2. ASSUME NEW w \in Workers, SendOne(w) PROVE userId'[i] = NoUser
    <3>1. PICK n \in DOMAIN work[w].ids : Put(work[w].ids[n], work[w].to[n])
      BY <2>2, PutTyped
    <3>2. work[w].ids[n] # i
      BY <2>2, <3>1 DEF Settled, SendOne, Range
    <3> QED
      BY <2>1, <3>1, <3>2 DEF Put, InboxTypeOK
  <2>3. ASSUME NEW j \in Ids, Dismiss(j) PROVE userId'[i] = NoUser
    BY <2>1, <2>3 DEF Dismiss, InboxTypeOK
  <2>4. CASE userId' = userId
    BY <2>1, <2>4
  <2> QED
    BY <2>2, <2>3, <2>4
    DEF InboxNext, inboxVars, StartBulk, StartMarkAll, BulkStops, MarkNext, MarkItem, Answer, Crash, MarkRead
<1>2. InboxInv /\ [InboxNext]_inboxVars => InboxInv'
  BY InboxStep
<1> QED
  BY <1>1, <1>2, InboxStart, PTL DEF InboxSpec, DismissedContentGone

\* MarkItem, Dismiss and the loop of SendBulk against the put of Create: only
\* the put a bulk is at makes a notification that was read unread.
THEOREM ReadUndoneByRetry == InboxSpec => UnreadOnlyByRetry
<1>1. InboxInv /\ [InboxNext]_inboxVars => [ReadKept]_inboxVars
  <2> SUFFICES ASSUME InboxInv, [InboxNext]_inboxVars, NEW i \in items, read[i], i \in items',
                      ~ read'[i]
               PROVE  PutUnderWay(i)
    BY DEF ReadKept
  <2> USE DEF InboxInv
  <2>1. i \in Ids
    BY DEF InboxTypeOK
  <2>2. ASSUME NEW w \in Workers, SendOne(w) PROVE PutUnderWay(i)
    <3>1. Put(work[w].ids[work[w].done + 1], work[w].to[work[w].done + 1])
      BY <2>2 DEF SendOne
    <3>2. work[w].ids[work[w].done + 1] = i
      BY <2>1, <3>1 DEF Put, InboxTypeOK
    <3> QED
      BY <2>2, <3>2 DEF SendOne, PutUnderWay
  <2>3. ASSUME NEW j, MarkItem(j) PROVE FALSE
    BY <2>1, <2>3 DEF MarkItem, InboxTypeOK
  <2>4. ASSUME NEW j \in Ids, Dismiss(j) PROVE FALSE
    <3>1. CASE j = i
      BY <2>4, <3>1 DEF Dismiss
    <3>2. CASE j # i
      <4>1. read'[i] = read[i]
        BY <2>1, <2>4, <3>2 DEF Dismiss, InboxTypeOK
      <4> QED
        BY <4>1
    <3> QED
      BY <3>1, <3>2
  <2>5. CASE read' = read
    BY <2>5
  <2> QED
    BY <2>2, <2>3, <2>4, <2>5
    DEF InboxNext, inboxVars, StartBulk, StartMarkAll, BulkStops, MarkNext, Answer, Crash, MarkRead
<1>2. InboxInv /\ [InboxNext]_inboxVars => InboxInv'
  BY InboxStep
<1> QED
  BY <1>1, <1>2, InboxStart, PTL DEF InboxSpec, UnreadOnlyByRetry
=============================================================================
