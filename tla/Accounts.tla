------------------------------ MODULE Accounts ------------------------------
(***************************************************************************)
(* Where accounts come from: POST /auth/register and the seed command of   *)
(* the auth service, which a Kubernetes job runs, and runs again when it   *)
(* dies.  Both look and then insert.  The table of users has a unique      *)
(* index on the e-mail alone, while both look within one tenant; the table *)
(* of roles has no unique index.  Accounts and roles are never deleted.    *)
(***************************************************************************)
EXTENDS Naturals, FiniteSets

CONSTANTS
  Workers,     \* goroutines that serve registrations
  Seeds,       \* processes that run the seed command, one or more times each
  Tenants,     \* tenant ids a request may name
  System,      \* the tenant the seed command fills
  Emails,      \* e-mail addresses, trimmed and in lower case
  Admin,       \* the address of the account the seed command makes
  LastRole,    \* the seeded roles are 1 (super_admin) .. LastRole
  MaxRuns      \* bound on the runs of one seed process

ASSUME AccountAssumption == System \in Tenants /\ Admin \in Emails
ASSUME AccountBounds == LastRole \in Nat \ {0} /\ MaxRuns \in Nat

VARIABLES
  accounts,  \* rows of users
  roles,     \* roles[i]: the number of rows with the name of role i
  granted,   \* the seeded account has the role super_admin
  job,       \* job[w]: the registration w serves
  seed,      \* seed[s]: the step seed process s is about to take
  cutShort   \* history: a seed died after it made the account, before the grant

vars == <<accounts, roles, granted, job, seed, cutShort>>

Roles == 1 .. LastRole

Account == [tenant : Tenants, email : Emails, by : {"register", "seed"}]

\* trimmed: the request spells the address without spaces around it; blind:
\* history, the look failed, which counts as not found; raced: history, an
\* account with the address was made after w looked for one.
Job == [at : {"idle", "insert", "refused"}, tenant : Tenants, email : Emails,
        trimmed : BOOLEAN, blind : BOOLEAN, raced : BOOLEAN]

\* role: the role of the steps "look" and "create"; blind: history, the look
\* failed, which counts as not found; raced: history, another process made
\* the role after the look.
Seed == [at : {"off", "look", "create", "find", "insert", "grant", "complete"},
         role : Roles, blind : BOOLEAN, raced : BOOLEAN, runs : 0 .. MaxRuns]

TypeOK ==
  /\ accounts \subseteq Account
  /\ roles \in [Roles -> Nat]
  /\ granted \in BOOLEAN
  /\ job \in [Workers -> Job]
  /\ seed \in [Seeds -> Seed]
  /\ cutShort \in BOOLEAN

Idle == [at |-> "idle", tenant |-> System, email |-> Admin, trimmed |-> TRUE,
         blind |-> FALSE, raced |-> FALSE]
Off == [at |-> "off", role |-> 1, blind |-> FALSE, raced |-> FALSE, runs |-> 0]

Init ==
  /\ accounts = {}
  /\ roles = [i \in Roles |-> 0]
  /\ granted = FALSE
  /\ job = [w \in Workers |-> Idle]
  /\ seed = [s \in Seeds |-> Off]
  /\ cutShort = FALSE

-----------------------------------------------------------------------------
Known(tenant, email) == \E a \in accounts : a.tenant = tenant /\ a.email = email

\* The unique index of users knows the e-mail only.
Taken(tenant, email) == \E a \in accounts : a.email = email

\* An account is inserted; the registrations that looked before have raced.
Insert(tenant, email, by) ==
  /\ ~ Taken(tenant, email)
  /\ accounts' = accounts \cup {[tenant |-> tenant, email |-> email, by |-> by]}

Raced(j, email) == [j EXCEPT !.raced = @ \/ (j.at = "insert" /\ j.email = email)]

\* A request goes on to the insert.
GoOn(w, tenant, email, trimmed, blind) ==
  /\ job[w].at = "idle"
  /\ job' = [job EXCEPT ![w] = [at |-> "insert", tenant |-> tenant, email |-> email,
                                trimmed |-> trimmed, blind |-> blind, raced |-> FALSE]]
  /\ UNCHANGED <<accounts, roles, granted, seed, cutShort>>

\* Mutant: the tenant of the look is not the request's.
LookInSystem(w, tenant, email, trimmed) ==
  /\ ~ (trimmed /\ Known(System, email))
  /\ GoOn(w, tenant, email, trimmed, FALSE)

\* POST /auth/register looks for the address as it is spelled, within the
\* tenant: one that is known is answered 409 at once, an address with spaces
\* around it is never known.
Look(w, tenant, email, trimmed) ==
  /\ ~ (trimmed /\ Known(tenant, email))
  /\ GoOn(w, tenant, email, trimmed, FALSE)

\* Its error is dropped: the request goes on as if the address was not known.
LookFails(w, tenant, email, trimmed) == GoOn(w, tenant, email, trimmed, TRUE)

\* The insert of the trimmed address in lower case.
Register(w) ==
  /\ job[w].at = "insert"
  /\ Insert(job[w].tenant, job[w].email, "register")
  /\ job' = [v \in Workers |-> IF v = w THEN Idle ELSE Raced(job[v], job[w].email)]
  /\ UNCHANGED <<roles, granted, seed, cutShort>>

\* The insert is refused by the index: the request is answered 500.
RegisterRefused(w) ==
  /\ job[w].at = "insert" /\ Taken(job[w].tenant, job[w].email)
  /\ job' = [job EXCEPT ![w] = [@ EXCEPT !.at = "refused"]]
  /\ UNCHANGED <<accounts, roles, granted, seed, cutShort>>

\* The end of a refused request, or the failure of another.
Answer(w) ==
  /\ job[w].at # "idle"
  /\ job' = [job EXCEPT ![w] = Idle]
  /\ UNCHANGED <<accounts, roles, granted, seed, cutShort>>

-----------------------------------------------------------------------------
Goto(s, at) == seed' = [seed EXCEPT ![s] = [@ EXCEPT !.at = at]]

\* The step after role i: the next role, or the account.
After(s) ==
  IF seed[s].role < LastRole
  THEN [seed[s] EXCEPT !.at = "look", !.role = @ + 1, !.blind = FALSE, !.raced = FALSE]
  ELSE [seed[s] EXCEPT !.at = "find", !.blind = FALSE, !.raced = FALSE]

\* The first run of the job, one after a failure, or one by a new deployment.
StartSeed(s) ==
  /\ seed[s].at \in {"off", "complete"} /\ seed[s].runs < MaxRuns
  /\ seed' = [seed EXCEPT ![s] = [Off EXCEPT !.at = "look", !.runs = seed[s].runs + 1]]
  /\ UNCHANGED <<accounts, roles, granted, job, cutShort>>

\* Mutants: a look that fails counts as found; a role is made whatever the look.
SkipUnlessAbsent(s) ==
  /\ seed[s].at = "look"
  /\ seed' = [seed EXCEPT ![s] =
       IF roles[seed[s].role] > 0 THEN After(s) ELSE [seed[s] EXCEPT !.at = "create"]]
     \/ seed' = [seed EXCEPT ![s] = After(s)]
  /\ UNCHANGED <<accounts, roles, granted, job, cutShort>>
LookAtNothing(s) ==
  /\ seed[s].at = "look"
  /\ Goto(s, "create")
  /\ UNCHANGED <<accounts, roles, granted, job, cutShort>>

\* FindByName: a role that is found is skipped.
LookRole(s) ==
  /\ seed[s].at = "look"
  /\ seed' = [seed EXCEPT ![s] =
       IF roles[seed[s].role] > 0 THEN After(s) ELSE [seed[s] EXCEPT !.at = "create"]]
  /\ UNCHANGED <<accounts, roles, granted, job, cutShort>>

\* Its error is dropped: the role is made as if there was none.
LookRoleFails(s) ==
  /\ seed[s].at = "look"
  /\ seed' = [seed EXCEPT ![s] = [@ EXCEPT !.at = "create", !.blind = TRUE]]
  /\ UNCHANGED <<accounts, roles, granted, job, cutShort>>

\* One transaction with the role and its permissions.
CreateRole(s) ==
  LET i == seed[s].role IN
  /\ seed[s].at = "create"
  /\ roles' = [roles EXCEPT ![i] = @ + 1]
  /\ seed' = [r \in Seeds |->
       IF r = s THEN After(s)
       ELSE [seed[r] EXCEPT !.raced = @ \/ (seed[r].at = "create" /\ seed[r].role = i)]]
  /\ UNCHANGED <<accounts, granted, job, cutShort>>

\* The account is looked for in the system tenant; one that is found ends the
\* run, whoever made it and whatever its roles.
FindAdmin(s) ==
  /\ seed[s].at = "find"
  /\ IF Known(System, Admin) THEN Goto(s, "complete") ELSE Goto(s, "insert")
  /\ UNCHANGED <<accounts, roles, granted, job, cutShort>>

\* Its error is dropped as well.
FindAdminFails(s) ==
  /\ seed[s].at = "find"
  /\ Goto(s, "insert")
  /\ UNCHANGED <<accounts, roles, granted, job, cutShort>>

InsertAdmin(s) ==
  /\ seed[s].at = "insert"
  /\ Insert(System, Admin, "seed")
  /\ Goto(s, "grant")
  /\ job' = [w \in Workers |-> Raced(job[w], Admin)]
  /\ UNCHANGED <<roles, granted, cutShort>>

\* FindByName of super_admin and AssignToUser.
Grant(s) ==
  /\ seed[s].at = "grant"
  /\ granted' = TRUE
  /\ Goto(s, "complete")
  /\ UNCHANGED <<accounts, roles, job, cutShort>>

\* Exit 1 after an error (always so when the address is taken), or the end of
\* the pod.  The insert of the account may have taken effect all the same.
SeedDies(s) ==
  /\ seed[s].at \in {"look", "create", "find", "insert", "grant"}
  /\ Goto(s, "off")
  /\ cutShort' = (cutShort \/ seed[s].at = "grant")
  /\ UNCHANGED <<accounts, roles, granted, job>>

Serve(w) ==
  \/ \E tenant \in Tenants, email \in Emails, trimmed \in BOOLEAN :
       Look(w, tenant, email, trimmed) \/ LookFails(w, tenant, email, trimmed)
  \/ Register(w) \/ RegisterRefused(w) \/ Answer(w)

RunSeed(s) ==
  \/ StartSeed(s) \/ LookRole(s) \/ LookRoleFails(s) \/ CreateRole(s)
  \/ FindAdmin(s) \/ FindAdminFails(s) \/ InsertAdmin(s) \/ Grant(s) \/ SeedDies(s)

Next == (\E w \in Workers : Serve(w)) \/ (\E s \in Seeds : RunSeed(s))

Spec == Init /\ [][Next]_vars

-----------------------------------------------------------------------------
\* A registration is refused with 500 where 409 was meant only when the
\* account is of another tenant, was made after the look, or was looked for
\* with spaces around the address or by a look that failed.
RefusalsExplained ==
  \A w \in Workers : job[w].at = "refused" =>
    \E a \in accounts :
      /\ a.email = job[w].email
      /\ a.tenant # job[w].tenant \/ job[w].raced \/ job[w].blind \/ ~ job[w].trimmed

\* A seed that completes, be it the second or third run, leaves every role and
\* the account in the system tenant.  The account is its administrator, unless
\* it came from a registration, or a run died, or is, before the grant.
CompletedSeed ==
  \A s \in Seeds : seed[s].at = "complete" =>
    /\ \A i \in Roles : roles[i] > 0
    /\ \E a \in accounts : /\ a.tenant = System /\ a.email = Admin
                           /\ \/ granted \/ a.by = "register" \/ cutShort
                              \/ \E r \in Seeds : seed[r].at = "grant"

\* Nothing but the look keeps a role from being made twice: it is, only by a
\* run whose look failed or that crossed another run.
RolesMadeTwice ==
  \A i \in Roles : roles[i] > 0 /\ roles'[i] > roles[i] =>
    \E s \in Seeds : /\ seed[s].at = "create" /\ seed[s].role = i
                     /\ seed[s].blind \/ seed[s].raced
RolesMadeOnce == [][RolesMadeTwice]_vars
=============================================================================
