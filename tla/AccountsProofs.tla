--------------------------- MODULE AccountsProofs ---------------------------
(***************************************************************************)
(* Proofs about Accounts: what a refused registration, a completed seed    *)
(* command and a role made twice tell, for any number of requests, seed    *)
(* processes, tenants, addresses and roles.                                *)
(***************************************************************************)
EXTENDS Accounts, TLAPS

\* The steps after which every role has a row.
RolesMade == {"find", "insert", "grant", "complete"}

\* A seed process has made, or found, the roles before its own.
SeedsInOrder ==
  \A s \in Seeds :
    /\ seed[s].at \in {"look", "create"} =>
         \A i \in Roles : i < seed[s].role => roles[i] > 0
    /\ seed[s].at \in RolesMade => \A i \in Roles : roles[i] > 0

\* The account of a seed process that has it exists.
SeedsKnow == \A s \in Seeds : seed[s].at \in {"grant", "complete"} => Known(System, Admin)

\* An account the seed command made is the administrator's, is about to be,
\* or was left by a run that died.
AdminExplained ==
  \A a \in accounts : a.by = "seed" =>
    granted \/ cutShort \/ \E r \in Seeds : seed[r].at = "grant"

\* Whoever is about to insert an address that is known has raced, or has not
\* seen the answer of its look.
LooksExplained ==
  \A w \in Workers :
    job[w].at = "insert" /\ job[w].trimmed /\ Known(job[w].tenant, job[w].email) =>
      job[w].raced \/ job[w].blind

IInv == /\ TypeOK /\ SeedsInOrder /\ SeedsKnow
        /\ AdminExplained /\ LooksExplained /\ RefusalsExplained

-----------------------------------------------------------------------------
LEMMA OffTyped == Off \in Seed /\ Off.at = "off" /\ Off.role = 1
BY AccountBounds DEF Off, Seed, Roles

LEMMA IdleTyped == Idle \in Job /\ Idle.at = "idle"
BY AccountAssumption DEF Idle, Job

\* A seed process at another step.
LEMMA AtTyped ==
  ASSUME NEW r \in Seed,
         NEW at \in {"off", "look", "create", "find", "insert", "grant", "complete"}
  PROVE  /\ [r EXCEPT !.at = at] \in Seed
         /\ [r EXCEPT !.at = at].at = at
         /\ [r EXCEPT !.at = at].role = r.role
BY DEF Seed

LEMMA BlindTyped ==
  ASSUME NEW r \in Seed
  PROVE  /\ [r EXCEPT !.at = "create", !.blind = TRUE] \in Seed
         /\ [r EXCEPT !.at = "create", !.blind = TRUE].at = "create"
         /\ [r EXCEPT !.at = "create", !.blind = TRUE].role = r.role
BY DEF Seed

LEMMA StartTyped ==
  ASSUME NEW r \in Seed, NEW n \in 0 .. MaxRuns
  PROVE  /\ [r EXCEPT !.at = "look", !.runs = n] \in Seed
         /\ [r EXCEPT !.at = "look", !.runs = n].at = "look"
         /\ [r EXCEPT !.at = "look", !.runs = n].role = r.role
BY DEF Seed

LEMMA RacedSeedTyped ==
  ASSUME NEW r \in Seed, NEW i
  PROVE  LET q == [r EXCEPT !.raced = @ \/ (r.at = "create" /\ r.role = i)]
         IN  q \in Seed /\ q.at = r.at /\ q.role = r.role
BY DEF Seed

\* The step after a role is the look for the next, or for the account.
LEMMA AfterTyped ==
  ASSUME TypeOK, NEW s \in Seeds
  PROVE  /\ After(s) \in Seed
         /\ \/ After(s).at = "look" /\ After(s).role = seed[s].role + 1
            \/ After(s).at = "find" /\ seed[s].role = LastRole
<1>1. seed[s] \in Seed
  BY DEF TypeOK
<1>2. CASE seed[s].role < LastRole
  <2>1. seed[s].role + 1 \in Roles
    BY <1>1, <1>2, AccountBounds DEF Seed, Roles
  <2>2. After(s) = [seed[s] EXCEPT !.at = "look", !.role = @ + 1, !.blind = FALSE, !.raced = FALSE]
    BY <1>2 DEF After
  <2> QED
    BY <1>1, <2>1, <2>2 DEF Seed
<1>3. CASE ~ (seed[s].role < LastRole)
  <2>1. seed[s].role = LastRole
    BY <1>1, <1>3, AccountBounds DEF Seed, Roles
  <2>2. After(s) = [seed[s] EXCEPT !.at = "find", !.blind = FALSE, !.raced = FALSE]
    BY <1>3 DEF After
  <2> QED
    BY <1>1, <2>1, <2>2 DEF Seed
<1> QED
  BY <1>2, <1>3

LEMMA RacedJobTyped ==
  ASSUME NEW j \in Job, NEW email
  PROVE  /\ Raced(j, email) \in Job
         /\ Raced(j, email).at = j.at /\ Raced(j, email).tenant = j.tenant
         /\ Raced(j, email).email = j.email /\ Raced(j, email).trimmed = j.trimmed
         /\ Raced(j, email).blind = j.blind
         /\ j.raced => Raced(j, email).raced
         /\ j.at = "insert" /\ j.email = email => Raced(j, email).raced
BY DEF Raced, Job

-----------------------------------------------------------------------------
\* The inductive invariant holds before any registration or seed run.
THEOREM InitInv == Init => IInv
<1> SUFFICES ASSUME Init PROVE IInv
  OBVIOUS
<1>1. \A w \in Workers : job[w] \in Job /\ job[w].at = "idle"
  BY IdleTyped DEF Init
<1>2. \A s \in Seeds : seed[s] \in Seed /\ seed[s].at = "off"
  BY OffTyped DEF Init
<1>3. TypeOK
  BY IdleTyped, OffTyped DEF Init, TypeOK
<1> QED
  BY <1>1, <1>2, <1>3
  DEF Init, IInv, SeedsInOrder, SeedsKnow, AdminExplained, LooksExplained,
      RefusalsExplained, RolesMade

\* The types, one action at a time.
LEMMA TypeStep == TypeOK /\ [Next]_vars => TypeOK'
<1> SUFFICES ASSUME TypeOK, [Next]_vars PROVE TypeOK'
  OBVIOUS
<1>1. \A w \in Workers : job[w] \in Job
  BY DEF TypeOK
<1>2. \A s \in Seeds : seed[s] \in Seed
  BY DEF TypeOK
<1>3. ASSUME NEW tenant \in Tenants, NEW email \in Emails, NEW by \in {"register", "seed"},
             Insert(tenant, email, by)
      PROVE  accounts' \subseteq Account
  BY <1>3 DEF Insert, Account, TypeOK
<1>4. ASSUME NEW s \in Seeds, NEW r \in Seed, seed' = [seed EXCEPT ![s] = r]
      PROVE  seed' \in [Seeds -> Seed]
  BY <1>4 DEF TypeOK
<1>5. ASSUME NEW w \in Workers, NEW j \in Job, job' = [job EXCEPT ![w] = j]
      PROVE  job' \in [Workers -> Job]
  BY <1>5 DEF TypeOK
<1>6. ASSUME NEW w \in Workers, Serve(w) PROVE TypeOK'
  <2>1. ASSUME NEW tenant \in Tenants, NEW email \in Emails, NEW trimmed \in BOOLEAN,
               NEW blind \in BOOLEAN, GoOn(w, tenant, email, trimmed, blind)
        PROVE  TypeOK'
    <3>1. [at |-> "insert", tenant |-> tenant, email |-> email, trimmed |-> trimmed,
           blind |-> blind, raced |-> FALSE] \in Job
      BY DEF Job
    <3>2. job' \in [Workers -> Job]
      BY <1>5, <2>1, <3>1 DEF GoOn
    <3> QED
      BY <2>1, <3>2 DEF GoOn, TypeOK
  <2>2. CASE Register(w)
    <3>1. job[w].tenant \in Tenants /\ job[w].email \in Emails
      BY <1>1 DEF Job
    <3>2. accounts' \subseteq Account
      BY <1>3, <2>2, <3>1 DEF Register
    <3>3. \A v \in Workers : Raced(job[v], job[w].email) \in Job
      BY <1>1, RacedJobTyped
    <3>4. job' \in [Workers -> Job]
      BY <2>2, <3>3, IdleTyped DEF Register
    <3> QED
      BY <2>2, <3>2, <3>4 DEF Register, TypeOK
  <2>3. CASE RegisterRefused(w)
    <3>1. [job[w] EXCEPT !.at = "refused"] \in Job
      BY <1>1 DEF Job
    <3>2. job' \in [Workers -> Job]
      BY <1>5, <2>3, <3>1 DEF RegisterRefused
    <3> QED
      BY <2>3, <3>2 DEF RegisterRefused, TypeOK
  <2>4. CASE Answer(w)
    BY <1>5, <2>4, IdleTyped DEF Answer, TypeOK
  <2> QED
    BY <1>6, <2>1, <2>2, <2>3, <2>4 DEF Serve, Look, LookFails
<1>7. ASSUME NEW s \in Seeds, RunSeed(s) PROVE TypeOK'
  <2>1. ASSUME NEW at \in {"off", "look", "create", "find", "insert", "grant", "complete"},
               Goto(s, at)
        PROVE  seed' \in [Seeds -> Seed]
    BY <1>2, <1>4, <2>1, AtTyped DEF Goto
  <2>2. CASE StartSeed(s)
    <3>0. seed[s].runs + 1 \in 0 .. MaxRuns
      BY <1>2, <2>2, AccountBounds DEF StartSeed, Seed
    <3>1. [Off EXCEPT !.at = "look", !.runs = seed[s].runs + 1] \in Seed
      BY <3>0, OffTyped, StartTyped
    <3>2. seed' \in [Seeds -> Seed]
      BY <1>4, <2>2, <3>1 DEF StartSeed
    <3> QED
      BY <2>2, <3>2 DEF StartSeed, TypeOK
  <2>3. CASE LookRole(s)
    <3>1. seed' \in [Seeds -> Seed]
      BY <1>2, <1>4, <2>3, AfterTyped, AtTyped DEF LookRole
    <3> QED
      BY <2>3, <3>1 DEF LookRole, TypeOK
  <2>4. CASE LookRoleFails(s)
    <3>1. seed' \in [Seeds -> Seed]
      BY <1>2, <1>4, <2>4, BlindTyped DEF LookRoleFails
    <3> QED
      BY <2>4, <3>1 DEF LookRoleFails, TypeOK
  <2>5. CASE CreateRole(s)
    <3>1. roles' \in [Roles -> Nat]
      BY <1>2, <2>5 DEF CreateRole, TypeOK, Seed
    <3>2. seed' \in [Seeds -> Seed]
      BY <1>2, <2>5, AfterTyped, RacedSeedTyped DEF CreateRole
    <3> QED
      BY <2>5, <3>1, <3>2 DEF CreateRole, TypeOK
  <2>6. CASE FindAdmin(s) \/ FindAdminFails(s)
    BY <2>1, <2>6 DEF FindAdmin, FindAdminFails, TypeOK
  <2>7. CASE InsertAdmin(s)
    <3>1. accounts' \subseteq Account
      BY <1>3, <2>7, AccountAssumption DEF InsertAdmin
    <3>2. job' \in [Workers -> Job]
      BY <1>1, <2>7, RacedJobTyped DEF InsertAdmin
    <3> QED
      BY <2>1, <2>7, <3>1, <3>2 DEF InsertAdmin, TypeOK
  <2>8. CASE Grant(s) \/ SeedDies(s)
    BY <2>1, <2>8 DEF Grant, SeedDies, TypeOK
  <2> QED
    BY <1>7, <2>2, <2>3, <2>4, <2>5, <2>6, <2>7, <2>8 DEF RunSeed
<1>8. CASE UNCHANGED vars
  BY <1>8 DEF vars, TypeOK
<1> QED
  BY <1>6, <1>7, <1>8 DEF Next

-----------------------------------------------------------------------------
\* Only an insert changes the accounts.
LEMMA AccountsChange ==
  [Next]_vars => accounts' = accounts \/ \E tenant, email, by : Insert(tenant, email, by)
BY DEF Next, vars, Serve, Look, LookFails, GoOn, Register, RegisterRefused, Answer, RunSeed,
  StartSeed,
  LookRole, LookRoleFails, CreateRole, FindAdmin, FindAdminFails, InsertAdmin, Grant, SeedDies

\* Accounts, roles, the grant and the death before it are never taken back.
LEMMA NothingTakenBack ==
  ASSUME TypeOK, [Next]_vars
  PROVE  /\ accounts \subseteq accounts'
         /\ \A i \in Roles : roles[i] > 0 => roles'[i] > 0
         /\ granted => granted'
         /\ cutShort => cutShort'
<1>1. roles' = roles \/ \E i \in Roles : roles' = [roles EXCEPT ![i] = @ + 1]
  <2>1. \A s \in Seeds : seed[s].role \in Roles
    BY DEF TypeOK, Seed
  <2> QED
    BY <2>1 DEF Next, vars, Serve, Look, LookFails, GoOn, Register, RegisterRefused, Answer,
      RunSeed, StartSeed,
      LookRole, LookRoleFails, CreateRole, FindAdmin, FindAdminFails, InsertAdmin, Grant, SeedDies
<1>2. \A i \in Roles : roles[i] > 0 => roles'[i] > 0
  BY <1>1 DEF TypeOK
<1>3. accounts \subseteq accounts'
  BY AccountsChange DEF Insert
<1>4. ASSUME NEW s \in Seeds, RunSeed(s) PROVE (granted => granted') /\ (cutShort => cutShort')
  <2>1. CASE Grant(s)
    BY <2>1 DEF Grant
  <2>2. CASE SeedDies(s)
    BY <2>2 DEF SeedDies
  <2>3. CASE ~ Grant(s) /\ ~ SeedDies(s)
    BY <1>4, <2>3 DEF RunSeed, StartSeed, LookRole, LookRoleFails, CreateRole, FindAdmin,
      FindAdminFails, InsertAdmin
  <2> QED
    BY <2>1, <2>2, <2>3
<1>5. UNCHANGED <<granted, cutShort>> => (granted => granted') /\ (cutShort => cutShort')
  OBVIOUS
<1>6. (\E s \in Seeds : RunSeed(s)) \/ UNCHANGED <<granted, cutShort>>
  BY DEF Next, vars, Serve, Look, LookFails, GoOn, Register, RegisterRefused, Answer
<1> QED
  BY <1>2, <1>3, <1>4, <1>5, <1>6

\* What a step may do to a seed process: where it goes, and what is true then.
SeedMove(r) ==
  \/ seed'[r].at = seed[r].at /\ seed'[r].role = seed[r].role
  \/ seed'[r].at = "off"
  \/ seed'[r].at = "look" /\ seed'[r].role = 1
  \/ seed[r].at = "look" /\ seed'[r].at = "create" /\ seed'[r].role = seed[r].role
  \/ /\ seed[r].at \in {"look", "create"} /\ roles'[seed[r].role] > 0
     /\ \/ seed'[r].at = "look" /\ seed'[r].role = seed[r].role + 1
        \/ seed'[r].at = "find" /\ seed[r].role = LastRole
  \/ seed[r].at = "find" /\ seed'[r].at = "insert"
  \/ seed[r].at = "find" /\ seed'[r].at = "complete" /\ Known(System, Admin)
  \/ seed[r].at = "insert" /\ seed'[r].at = "grant" /\ Known(System, Admin)'
  \/ seed[r].at = "grant" /\ seed'[r].at = "complete"

LEMMA SeedsMove ==
  ASSUME TypeOK, [Next]_vars, NEW r \in Seeds
  PROVE  SeedMove(r)
<1>1. \A s \in Seeds : seed[s] \in Seed /\ seed[s].role \in Roles
  BY DEF TypeOK, Seed
<1>2. CASE seed' = seed
  BY <1>2 DEF SeedMove
<1>3. ASSUME NEW s \in Seeds, RunSeed(s), r # s PROVE SeedMove(r)
  <2>1. CASE CreateRole(s)
    BY <1>1, <1>3, <2>1, RacedSeedTyped DEF CreateRole, SeedMove
  <2>2. CASE ~ CreateRole(s)
    <3>1. seed'[r] = seed[r]
      BY <1>1, <1>3, <2>2
      DEF RunSeed, StartSeed, LookRole, LookRoleFails, FindAdmin, FindAdminFails, InsertAdmin,
          Grant, SeedDies, Goto, TypeOK
    <3> QED
      BY <3>1 DEF SeedMove
  <2> QED
    BY <2>1, <2>2
<1>4. ASSUME RunSeed(r) PROVE SeedMove(r)
  <2>1. ASSUME NEW at \in {"off", "look", "create", "find", "insert", "grant", "complete"},
               Goto(r, at)
        PROVE  seed'[r].at = at /\ seed'[r].role = seed[r].role
    BY <1>1, <2>1, AtTyped DEF Goto, TypeOK
  <2>2. CASE StartSeed(r)
    <3>1. seed[r].runs + 1 \in 0 .. MaxRuns
      BY <1>1, <2>2, AccountBounds DEF StartSeed, Seed
    <3>2. seed'[r].at = "look" /\ seed'[r].role = 1
      BY <2>2, <3>1, OffTyped, StartTyped DEF StartSeed, TypeOK
    <3> QED
      BY <3>2 DEF SeedMove
  <2>3. CASE LookRole(r)
    <3>1. CASE roles[seed[r].role] > 0
      <4>1. seed'[r] = After(r) /\ roles' = roles
        BY <2>3, <3>1 DEF LookRole, TypeOK
      <4> QED
        BY <2>3, <3>1, <4>1, AfterTyped DEF LookRole, SeedMove
    <3>2. CASE ~ (roles[seed[r].role] > 0)
      <4>1. seed'[r] = [seed[r] EXCEPT !.at = "create"]
        BY <2>3, <3>2 DEF LookRole, TypeOK
      <4>2. seed'[r].at = "create" /\ seed'[r].role = seed[r].role
        BY <1>1, <4>1, AtTyped
      <4> QED
        BY <2>3, <4>2 DEF LookRole, SeedMove
    <3> QED
      BY <3>1, <3>2
  <2>4. CASE LookRoleFails(r)
    <3>1. seed'[r] = [seed[r] EXCEPT !.at = "create", !.blind = TRUE]
      BY <2>4 DEF LookRoleFails, TypeOK
    <3> QED
      BY <1>1, <2>4, <3>1, BlindTyped DEF LookRoleFails, SeedMove
  <2>5. CASE CreateRole(r)
    <3>1. seed'[r] = After(r)
      BY <2>5 DEF CreateRole
    <3>2. roles'[seed[r].role] > 0
      BY <1>1, <2>5 DEF CreateRole, TypeOK
    <3> QED
      BY <2>5, <3>1, <3>2, AfterTyped DEF CreateRole, SeedMove
  <2>6. CASE FindAdmin(r)
    BY <2>1, <2>6 DEF FindAdmin, SeedMove
  <2>7. CASE FindAdminFails(r)
    BY <2>1, <2>7 DEF FindAdminFails, SeedMove
  <2>8. CASE InsertAdmin(r)
    <3>0. [tenant |-> System, email |-> Admin, by |-> "seed"] \in accounts'
      BY <2>8 DEF InsertAdmin, Insert
    <3>1. Known(System, Admin)'
      BY <3>0 DEF Known
    <3> QED
      BY <2>1, <2>8, <3>1 DEF InsertAdmin, SeedMove
  <2>9. CASE Grant(r)
    BY <2>1, <2>9 DEF Grant, SeedMove
  <2>10. CASE SeedDies(r)
    BY <2>1, <2>10 DEF SeedDies, SeedMove
  <2> QED
    BY <1>4, <2>2, <2>3, <2>4, <2>5, <2>6, <2>7, <2>8, <2>9, <2>10 DEF RunSeed
<1>5. seed' = seed \/ \E s \in Seeds : RunSeed(s)
  BY DEF Next, vars, Serve, Look, LookFails, GoOn, Register, RegisterRefused, Answer
<1> QED
  BY <1>2, <1>3, <1>4, <1>5

-----------------------------------------------------------------------------
LEMMA OrderStep == TypeOK /\ SeedsInOrder /\ [Next]_vars => SeedsInOrder'
<1> SUFFICES ASSUME TypeOK, SeedsInOrder, [Next]_vars, NEW r \in Seeds
             PROVE  /\ seed'[r].at \in {"look", "create"} =>
                         \A i \in Roles : i < seed'[r].role => roles'[i] > 0
                    /\ seed'[r].at \in RolesMade => \A i \in Roles : roles'[i] > 0
  BY DEF SeedsInOrder, RolesMade
<1>1. SeedMove(r)
  BY SeedsMove
<1>2. \A i \in Roles : roles[i] > 0 => roles'[i] > 0
  BY NothingTakenBack
<1>3. seed[r].role \in Roles
  BY DEF TypeOK, Seed
<1>4. \A i \in Roles : ~ (i < 1)
  BY AccountBounds DEF Roles
<1>5. \A i \in Roles : i < seed[r].role + 1 => i < seed[r].role \/ i = seed[r].role
  BY <1>3, AccountBounds DEF Roles
<1>6. \A i \in Roles : seed[r].role = LastRole => i < seed[r].role \/ i = seed[r].role
  BY <1>3, AccountBounds DEF Roles
<1>7. CASE seed[r].at \in {"look", "create"} /\ roles'[seed[r].role] > 0
  <2>1. \A i \in Roles : i < seed[r].role => roles'[i] > 0
    BY <1>2, <1>7 DEF SeedsInOrder
  <2> QED
    BY <1>1, <1>4, <1>5, <1>6, <1>7, <2>1 DEF SeedMove, RolesMade
<1>8. CASE ~ (seed[r].at \in {"look", "create"} /\ roles'[seed[r].role] > 0)
  BY <1>1, <1>2, <1>4, <1>8 DEF SeedMove, SeedsInOrder, RolesMade
<1> QED
  BY <1>7, <1>8

LEMMA KnowStep == TypeOK /\ SeedsKnow /\ [Next]_vars => SeedsKnow'
<1> SUFFICES ASSUME TypeOK, SeedsKnow, [Next]_vars, NEW r \in Seeds,
                    seed'[r].at \in {"grant", "complete"}
             PROVE  Known(System, Admin)'
  BY DEF SeedsKnow
<1>1. SeedMove(r)
  BY SeedsMove
<1>2. Known(System, Admin) => Known(System, Admin)'
  BY NothingTakenBack DEF Known
<1> QED
  BY <1>1, <1>2 DEF SeedMove, SeedsKnow

\* A process leaves the grant by granting or by dying, and enters it with the
\* account it made.
LEMMA AdminStep == TypeOK /\ AdminExplained /\ [Next]_vars => AdminExplained'
<1> SUFFICES ASSUME TypeOK, AdminExplained, [Next]_vars, NEW a \in accounts', a.by = "seed"
             PROVE  granted' \/ cutShort' \/ \E r \in Seeds : seed'[r].at = "grant"
  BY DEF AdminExplained
<1>1. (granted => granted') /\ (cutShort => cutShort')
  BY NothingTakenBack
<1>2. ASSUME NEW r \in Seeds, seed[r].at = "grant"
      PROVE  seed'[r].at = "grant" \/ granted' \/ cutShort'
  <2>1. CASE UNCHANGED seed
    BY <1>2, <2>1
  <2>2. ASSUME NEW s \in Seeds, RunSeed(s), r # s
        PROVE  seed'[r].at = "grant"
    <3>1. seed[r] \in Seed
      BY DEF TypeOK
    <3>2. CASE CreateRole(s)
      BY <1>2, <2>2, <3>1, <3>2, RacedSeedTyped DEF CreateRole
    <3>3. CASE ~ CreateRole(s)
      BY <1>2, <2>2, <3>3
      DEF RunSeed, StartSeed, LookRole, LookRoleFails, FindAdmin, FindAdminFails, InsertAdmin,
          Grant, SeedDies, Goto, TypeOK
    <3> QED
      BY <3>2, <3>3
  <2>3. CASE RunSeed(r)
    <3>1. Grant(r) \/ SeedDies(r)
      BY <1>2, <2>3 DEF RunSeed, StartSeed, LookRole, LookRoleFails, CreateRole, FindAdmin,
        FindAdminFails, InsertAdmin
    <3> QED
      BY <1>2, <3>1 DEF Grant, SeedDies
  <2> QED
    BY <2>1, <2>2, <2>3 DEF Next, vars, Serve, Look, LookFails, GoOn, Register,
      RegisterRefused, Answer
<1>3. CASE a \in accounts
  BY <1>1, <1>2, <1>3 DEF AdminExplained
<1>4. CASE a \notin accounts
  <2>1. ASSUME NEW w \in Workers, Serve(w) PROVE FALSE
    BY <1>4, <2>1 DEF Serve, Look, LookFails, GoOn, Register, RegisterRefused, Answer, Insert
  <2>2. PICK s \in Seeds : RunSeed(s)
    BY <1>4, <2>1 DEF Next, vars
  <2>3. InsertAdmin(s)
    BY <1>4, <2>2 DEF RunSeed, StartSeed, LookRole, LookRoleFails, CreateRole, FindAdmin,
      FindAdminFails, Grant, SeedDies
  <2>4. seed[s] \in Seed
    BY DEF TypeOK
  <2>5. seed'[s].at = "grant"
    BY <2>3, <2>4, AtTyped DEF InsertAdmin, Goto, TypeOK
  <2> QED
    BY <2>5
<1> QED
  BY <1>3, <1>4

-----------------------------------------------------------------------------
\* What a step that leaves the job of w alone may do to it: mark it as raced,
\* as it does when it adds an account with the address.
SameJob(w) ==
  /\ job'[w].at = job[w].at /\ job'[w].tenant = job[w].tenant
  /\ job'[w].email = job[w].email /\ job'[w].trimmed = job[w].trimmed
  /\ job'[w].blind = job[w].blind
  /\ job[w].raced => job'[w].raced
  /\ \A a \in accounts' \ accounts :
       job[w].at = "insert" /\ a.email = job[w].email => job'[w].raced

LEMMA JobsStay ==
  ASSUME TypeOK, [Next]_vars, NEW w \in Workers
  PROVE  SameJob(w) \/ Serve(w)
<1>1. \A v \in Workers : job[v] \in Job
  BY DEF TypeOK
<1>2. ASSUME NEW tenant, NEW email, NEW by, Insert(tenant, email, by),
             job'[w] = Raced(job[w], email)
      PROVE  SameJob(w)
  <2>1. \A a \in accounts' \ accounts : a.email = email
    BY <1>2 DEF Insert
  <2> QED
    BY <1>1, <1>2, <2>1, RacedJobTyped DEF SameJob
<1>3. job'[w] = job[w] /\ accounts' = accounts => SameJob(w)
  BY DEF SameJob
<1>4. ASSUME NEW v \in Workers, Serve(v), v # w PROVE SameJob(w)
  <2>1. CASE Register(v)
    BY <1>2, <1>4, <2>1 DEF Register
  <2>2. CASE ~ Register(v)
    <3>1. job'[w] = job[w] /\ accounts' = accounts
      BY <1>4, <2>2 DEF Serve, Look, LookFails, GoOn, RegisterRefused, Answer, TypeOK
    <3> QED
      BY <1>3, <3>1
  <2> QED
    BY <2>1, <2>2
<1>5. ASSUME NEW s \in Seeds, RunSeed(s) PROVE SameJob(w)
  <2>1. CASE InsertAdmin(s)
    BY <1>2, <2>1 DEF InsertAdmin
  <2>2. CASE ~ InsertAdmin(s)
    <3>1. job'[w] = job[w] /\ accounts' = accounts
      BY <1>5, <2>2 DEF RunSeed, StartSeed, LookRole, LookRoleFails, CreateRole, FindAdmin,
        FindAdminFails, Grant, SeedDies
    <3> QED
      BY <1>3, <3>1
  <2> QED
    BY <2>1, <2>2
<1>6. CASE UNCHANGED vars
  BY <1>3, <1>6 DEF vars
<1> QED
  BY <1>4, <1>5, <1>6 DEF Next

LEMMA LookStep == TypeOK /\ LooksExplained /\ [Next]_vars => LooksExplained'
<1> SUFFICES ASSUME TypeOK, LooksExplained, [Next]_vars, NEW w \in Workers,
                    job'[w].at = "insert", job'[w].trimmed,
                    NEW a \in accounts', a.tenant = job'[w].tenant, a.email = job'[w].email
             PROVE  job'[w].raced \/ job'[w].blind
  BY DEF LooksExplained, Known
<1>1. CASE SameJob(w)
  BY <1>1 DEF SameJob, LooksExplained, Known
<1>2. CASE Serve(w)
  <2>1. ASSUME NEW tenant \in Tenants, NEW email \in Emails, NEW trimmed \in BOOLEAN,
               Look(w, tenant, email, trimmed)
        PROVE  FALSE
    <3>1. /\ job'[w].trimmed = trimmed /\ job'[w].tenant = tenant /\ job'[w].email = email
          /\ accounts' = accounts
      BY <2>1 DEF Look, GoOn, TypeOK
    <3> QED
      BY <2>1, <3>1 DEF Look, Known
  <2>3. ASSUME NEW tenant \in Tenants, NEW email \in Emails, NEW trimmed \in BOOLEAN,
               LookFails(w, tenant, email, trimmed)
        PROVE  job'[w].blind
    BY <2>3 DEF LookFails, GoOn, TypeOK
  <2>2. CASE Register(w) \/ RegisterRefused(w) \/ Answer(w)
    <3>1. job[w] \in Job
      BY DEF TypeOK
    <3>2. job'[w].at # "insert"
      BY <2>2, <3>1, IdleTyped DEF Register, RegisterRefused, Answer, TypeOK, Job
    <3> QED
      BY <3>2
  <2> QED
    BY <1>2, <2>1, <2>2, <2>3 DEF Serve
<1> QED
  BY <1>1, <1>2, JobsStay

LEMMA RefusalStep ==
  TypeOK /\ LooksExplained /\ RefusalsExplained /\ [Next]_vars => RefusalsExplained'
<1> SUFFICES ASSUME TypeOK, LooksExplained, RefusalsExplained, [Next]_vars, NEW w \in Workers,
                    job'[w].at = "refused"
             PROVE  \E a \in accounts' :
                      /\ a.email = job'[w].email
                      /\ \/ a.tenant # job'[w].tenant \/ job'[w].raced
                         \/ job'[w].blind \/ ~ job'[w].trimmed
  BY DEF RefusalsExplained
<1>1. job[w] \in Job
  BY DEF TypeOK
<1>2. CASE SameJob(w)
  <2>1. PICK a \in accounts :
          /\ a.email = job[w].email
          /\ a.tenant # job[w].tenant \/ job[w].raced \/ job[w].blind \/ ~ job[w].trimmed
    BY <1>2 DEF SameJob, RefusalsExplained
  <2>2. a \in accounts'
    BY NothingTakenBack
  <2> QED
    BY <1>2, <2>1, <2>2 DEF SameJob
<1>3. CASE Serve(w)
  <2>1. RegisterRefused(w)
    BY <1>1, <1>3, IdleTyped DEF Serve, Look, LookFails, GoOn, Register, Answer, TypeOK
  <2>2. PICK a \in accounts : a.email = job[w].email
    BY <2>1 DEF RegisterRefused, Taken
  <2>3. a.tenant # job[w].tenant \/ job[w].raced \/ job[w].blind \/ ~ job[w].trimmed
    BY <2>1, <2>2 DEF RegisterRefused, LooksExplained, Known
  <2>4. /\ job'[w].email = job[w].email /\ job'[w].tenant = job[w].tenant
        /\ job'[w].raced = job[w].raced /\ job'[w].blind = job[w].blind
        /\ job'[w].trimmed = job[w].trimmed
    BY <1>1, <2>1 DEF RegisterRefused, TypeOK, Job
  <2> QED
    BY <2>1, <2>2, <2>3, <2>4 DEF RegisterRefused
<1> QED
  BY <1>2, <1>3, JobsStay

-----------------------------------------------------------------------------
LEMMA InvStep == IInv /\ [Next]_vars => IInv'
BY TypeStep, OrderStep, KnowStep, AdminStep, LookStep, RefusalStep DEF IInv

\* Registrations and seed processes keep the inductive invariant, in any order.
THEOREM Invariance == Spec => []IInv
BY InitInv, InvStep, PTL DEF Spec

\* The types of the accounts, the requests and the seed processes.
THEOREM TypesHold == Spec => []TypeOK
<1>1. IInv => TypeOK
  BY DEF IInv
<1> QED
  BY <1>1, Invariance, PTL

\* A registration whose address is taken is answered 500 for one of four
\* reasons: another tenant, a race, spaces in the address, a look that failed.
THEOREM RefusalsHaveReasons == Spec => []RefusalsExplained
<1>1. IInv => RefusalsExplained
  BY DEF IInv
<1> QED
  BY <1>1, Invariance, PTL

\* What a seed command that completes leaves behind.
THEOREM SeedsComplete == Spec => []CompletedSeed
<1>1. IInv => CompletedSeed
  <2> SUFFICES ASSUME IInv, NEW s \in Seeds, seed[s].at = "complete"
               PROVE  /\ \A i \in Roles : roles[i] > 0
                      /\ \E a \in accounts :
                           /\ a.tenant = System /\ a.email = Admin
                           /\ \/ granted \/ a.by = "register" \/ cutShort
                              \/ \E r \in Seeds : seed[r].at = "grant"
    BY DEF CompletedSeed
  <2>1. \A i \in Roles : roles[i] > 0
    BY DEF IInv, SeedsInOrder, RolesMade
  <2>2. PICK a \in accounts : a.tenant = System /\ a.email = Admin
    BY DEF IInv, SeedsKnow, Known
  <2>3. a.by \in {"register", "seed"}
    BY DEF IInv, TypeOK, Account
  <2>4. a.by = "register" \/ granted \/ cutShort \/ \E r \in Seeds : seed[r].at = "grant"
    BY <2>3 DEF IInv, AdminExplained
  <2> QED
    BY <2>1, <2>2, <2>4
<1> QED
  BY <1>1, Invariance, PTL
-----------------------------------------------------------------------------
\* A seed process that is about to make a role that has a row has an excuse.
CreatesExplained ==
  \A s \in Seeds : seed[s].at = "create" /\ roles[seed[s].role] > 0 =>
    seed[s].blind \/ seed[s].raced

LEMMA ExcuseKept ==
  ASSUME NEW r \in Seed, NEW i
  PROVE  LET q == [r EXCEPT !.raced = @ \/ (r.at = "create" /\ r.role = i)]
         IN  /\ q.at = r.at /\ q.role = r.role
             /\ r.blind \/ r.raced => q.blind \/ q.raced
             /\ r.at = "create" /\ r.role = i => q.raced
BY DEF Seed

\* How a seed process can come to be about to make a role: it was, and has kept
\* its excuse, its look failed, or it found that there is none.
LEMMA CreatesMove ==
  ASSUME TypeOK, [Next]_vars, NEW r \in Seeds, seed'[r].at = "create"
  PROVE  \/ /\ seed[r].at = "create" /\ seed'[r].role = seed[r].role
            /\ seed[r].blind \/ seed[r].raced => seed'[r].blind \/ seed'[r].raced
            /\ roles'[seed[r].role] = roles[seed[r].role] \/ seed'[r].raced
         \/ seed'[r].blind
         \/ roles'[seed'[r].role] = 0
<1> DEFINE Kept == /\ seed[r].at = "create" /\ seed'[r].role = seed[r].role
                   /\ seed[r].blind \/ seed[r].raced => seed'[r].blind \/ seed'[r].raced
                   /\ roles'[seed[r].role] = roles[seed[r].role] \/ seed'[r].raced
<1>1. seed[r] \in Seed /\ seed[r].role \in Roles /\ roles \in [Roles -> Nat]
  BY DEF TypeOK, Seed
<1>2. ASSUME seed'[r] = seed[r], roles' = roles PROVE Kept
  BY <1>2
<1>3. ASSUME NEW s \in Seeds, CreateRole(s) PROVE Kept
  <2>1. r # s
    BY <1>3, AfterTyped DEF CreateRole
  <2>2. seed'[r] = [seed[r] EXCEPT !.raced =
                     @ \/ (seed[r].at = "create" /\ seed[r].role = seed[s].role)]
    BY <1>3, <2>1 DEF CreateRole
  <2>3. roles' = [roles EXCEPT ![seed[s].role] = @ + 1]
    BY <1>3 DEF CreateRole
  <2>4. CASE seed[r].role = seed[s].role
    BY <1>1, <2>2, <2>4, ExcuseKept
  <2>5. CASE seed[r].role # seed[s].role
    <3>1. roles'[seed[r].role] = roles[seed[r].role]
      BY <1>1, <2>3, <2>5
    <3> QED
      BY <1>1, <2>2, <3>1, ExcuseKept
  <2> QED
    BY <2>4, <2>5
<1>4. ASSUME NEW s \in Seeds, RunSeed(s), ~ CreateRole(s), r # s PROVE Kept
  <2>1. seed'[r] = seed[r] /\ roles' = roles
    BY <1>4
    DEF RunSeed, StartSeed, LookRole, LookRoleFails, FindAdmin, FindAdminFails, InsertAdmin,
        Grant, SeedDies, Goto, TypeOK
  <2> QED
    BY <1>2, <2>1
<1>5. CASE LookRole(r)
  <2>1. CASE roles[seed[r].role] > 0
    <3>1. seed'[r] = After(r)
      BY <1>5, <2>1 DEF LookRole, TypeOK
    <3> QED
      BY <3>1, AfterTyped
  <2>2. CASE ~ (roles[seed[r].role] > 0)
    <3>1. seed'[r] = [seed[r] EXCEPT !.at = "create"] /\ roles' = roles
      BY <1>5, <2>2 DEF LookRole, TypeOK
    <3>2. seed'[r].role = seed[r].role
      BY <1>1, <3>1, AtTyped
    <3> QED
      BY <1>1, <2>2, <3>1, <3>2
  <2> QED
    BY <2>1, <2>2
<1>6. CASE LookRoleFails(r)
  <2>1. seed'[r] = [seed[r] EXCEPT !.at = "create", !.blind = TRUE]
    BY <1>6 DEF LookRoleFails, TypeOK
  <2> QED
    BY <1>1, <2>1 DEF Seed
<1>7. ASSUME RunSeed(r), ~ CreateRole(r), ~ LookRole(r), ~ LookRoleFails(r) PROVE FALSE
  <2>1. ASSUME NEW at \in {"off", "insert", "grant", "complete"}, Goto(r, at) PROVE FALSE
    BY <1>1, <2>1, AtTyped DEF Goto, TypeOK
  <2>2. ~ StartSeed(r)
    <3> SUFFICES ASSUME StartSeed(r) PROVE FALSE
      OBVIOUS
    <3>1. seed[r].runs + 1 \in 0 .. MaxRuns
      BY <1>1, AccountBounds DEF StartSeed, Seed
    <3> QED
      BY <3>1, OffTyped, StartTyped DEF StartSeed, TypeOK
  <2> QED
    BY <1>7, <2>1, <2>2
    DEF RunSeed, FindAdmin, FindAdminFails, InsertAdmin, Grant, SeedDies
<1>8. (seed' = seed /\ roles' = roles) \/ \E s \in Seeds : RunSeed(s)
  BY DEF Next, vars, Serve, Look, LookFails, GoOn, Register, RegisterRefused, Answer
<1> QED
  BY <1>2, <1>3, <1>4, <1>5, <1>6, <1>7, <1>8

LEMMA CreatesStep == TypeOK /\ CreatesExplained /\ [Next]_vars => CreatesExplained'
<1> SUFFICES ASSUME TypeOK, CreatesExplained, [Next]_vars, NEW r \in Seeds,
                    seed'[r].at = "create", roles'[seed'[r].role] > 0
             PROVE  seed'[r].blind \/ seed'[r].raced
  BY DEF CreatesExplained
<1> QED
  BY CreatesMove DEF CreatesExplained

\* A role is made twice only by a run whose look failed or that crossed another.
THEOREM RolesMadeTwiceExplained == Spec => RolesMadeOnce
<1>1. Init => CreatesExplained
  BY OffTyped DEF Init, CreatesExplained
<1>2. TypeOK /\ CreatesExplained /\ [Next]_vars => RolesMadeTwice
  <2> SUFFICES ASSUME TypeOK, CreatesExplained, [Next]_vars,
                      NEW i \in Roles, roles[i] > 0, roles'[i] > roles[i]
               PROVE  \E s \in Seeds : /\ seed[s].at = "create" /\ seed[s].role = i
                                       /\ seed[s].blind \/ seed[s].raced
    BY DEF RolesMadeTwice
  <2>1. roles' # roles
    BY DEF TypeOK
  <2>2. PICK s \in Seeds : CreateRole(s)
    BY <2>1 DEF Next, vars, Serve, Look, LookFails, GoOn, Register, RegisterRefused, Answer,
      RunSeed, StartSeed,
      LookRole, LookRoleFails, FindAdmin, FindAdminFails, InsertAdmin, Grant, SeedDies
  <2>3. seed[s].at = "create" /\ seed[s].role = i
    BY <2>2 DEF CreateRole, TypeOK
  <2> QED
    BY <2>3 DEF CreatesExplained
<1> QED
  BY <1>1, <1>2, CreatesStep, TypesHold, PTL DEF Spec, RolesMadeOnce
=============================================================================
