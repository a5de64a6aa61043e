--------------------------- MODULE TenantService ---------------------------
(***************************************************************************)
(* Tenants: a tenant is created under a slug that is looked up first and   *)
(* guarded by a unique index; plan, status and settings are changed by     *)
(* handlers that read the row, change their copy and save all its columns; *)
(* deactivation alone updates one column.  Rows are never deleted.         *)
(* Handlers run concurrently, one worker each.                             *)
(***************************************************************************)
EXTENDS Naturals, FiniteSets

CONSTANTS
  Workers,   \* goroutines that serve requests
  Slugs,     \* slugs that match slugRegexp
  Plans,     \* plans a request may name; nothing validates them
  Tenants,   \* bound: the tenant ids (fresh uuids)
  NoTenant   \* the tenant of an idle worker

ASSUME TenantAssumption ==
  /\ "free" \in Plans /\ "custom" \notin Plans /\ "same" \notin Plans
  /\ NoTenant \notin Tenants
  /\ Slugs # {}

VARIABLES
  stored,    \* tenants that have a row
  row,       \* row[t]: the row of t, meaningful when t is stored
  work       \* work[w]: the step worker w is about to take and what it holds

vars == <<stored, row, work>>

Statuses == {"active", "inactive"}

\* maxUsersForPlan, and the plan whose defaultFeatures a plan gets.
maxUsersForPlan(plan) == CASE plan = "pro" -> 50 [] plan = "enterprise" -> 1000 [] OTHER -> 10

defaultFeatures(plan) == IF plan \in {"pro", "enterprise"} THEN plan ELSE "free"

\* features: the plan whose defaults they are, or "custom" after a settings
\* request.
Row == [slug : Slugs, plan : Plans, status : Statuses,
        maxUsers : {10, 50, 1000}, features : {"free", "pro", "enterprise", "custom"}]

\* asked: the request names a status; overtaken: history, the tenant was
\* deactivated after the worker read it.
Job == [at : {"idle", "insert", "save", "deactivate", "created", "conflict"},
        tenant : Tenants \cup {NoTenant}, copy : Row, asked : BOOLEAN, overtaken : BOOLEAN]

TypeOK ==
  /\ stored \subseteq Tenants
  /\ row \in [Tenants -> Row]
  /\ work \in [Workers -> Job]

\* The row CreateTenant builds.
NewRow(slug, plan) ==
  [slug |-> slug, plan |-> plan, status |-> "active",
   maxUsers |-> maxUsersForPlan(plan), features |-> defaultFeatures(plan)]

NoRow == NewRow(CHOOSE s \in Slugs : TRUE, "free")
Idle == [at |-> "idle", tenant |-> NoTenant, copy |-> NoRow, asked |-> FALSE, overtaken |-> FALSE]

Init ==
  /\ stored = {}
  /\ row = [t \in Tenants |-> NoRow]
  /\ work = [w \in Workers |-> Idle]

-----------------------------------------------------------------------------
Become(w, job) == work' = [work EXCEPT ![w] = job]

CreateJob(t, r) == [Idle EXCEPT !.at = "insert", !.tenant = t, !.copy = r]
ConflictJob(r) == [Idle EXCEPT !.at = "conflict", !.copy = r]
SaveJob(t, r, asked) == [Idle EXCEPT !.at = "save", !.tenant = t, !.copy = r, !.asked = asked]
DeactivateJob(t) == [Idle EXCEPT !.at = "deactivate", !.tenant = t]
CreatedJob(job) == [job EXCEPT !.at = "created"]

SlugTaken(s) == \E t \in stored : row[t].slug = s

\* A fresh uuid; one is as good as another.
Fresh == {t \in Tenants \ stored : \A w \in Workers : work[w].tenant # t}

\* POST /tenants: the slug is looked up; an empty plan means free.
CreateCheck(w, slug, plan) ==
  /\ work[w].at = "idle"
  /\ \/ SlugTaken(slug) /\ Become(w, ConflictJob(NewRow(slug, plan)))
     \/ /\ ~ SlugTaken(slug) /\ Fresh # {}
        /\ Become(w, CreateJob(CHOOSE t \in Fresh : TRUE, NewRow(slug, plan)))
  /\ UNCHANGED <<stored, row>>

\* Mutant: the slug has no unique index.
PlainIndex(w) == TRUE

\* The unique index on slug lets the insert of w through.
IndexAllows(w) == ~ SlugTaken(work[w].copy.slug)

\* Mutant: the error of the insert is logged and dropped.
CreateAnyway(w) ==
  /\ work[w].at = "insert"
  /\ Become(w, CreatedJob(work[w]))
  /\ UNCHANGED <<stored, row>>

\* The row is inserted; the answer is 201, or an error if the response of the
\* database does not arrive.
CreateInsert(w) ==
  /\ work[w].at = "insert" /\ IndexAllows(w)
  /\ stored' = stored \cup {work[w].tenant}
  /\ row' = [row EXCEPT ![work[w].tenant] = work[w].copy]
  /\ Become(w, CreatedJob(work[w])) \/ Become(w, Idle)

\* A plan that is named comes with its limit and its default features, a
\* field that is not named ("same") stays as it is.
SetPlan(r, plan) ==
  IF plan = "same" THEN r
  ELSE [slug |-> r.slug, plan |-> plan, status |-> r.status,
        maxUsers |-> maxUsersForPlan(plan), features |-> defaultFeatures(plan)]
SetStatus(r, status) == IF status = "same" THEN r ELSE [r EXCEPT !.status = status]

\* Mutant: the status of the request is taken to be active when it has none.
AskedAlways(r, plan, status) ==
  SetStatus(SetPlan(r, plan), IF status = "same" THEN "active" ELSE status)

\* Mutant: the limit does not follow the plan.
PlanWithoutLimit(r, plan, status) ==
  SetStatus([r EXCEPT !.plan = IF plan = "same" THEN @ ELSE plan], status)

\* UpdateTenant on the row that was read.
Requested(r, plan, status) == SetStatus(SetPlan(r, plan), status)

\* PUT /tenants/{id}
UpdateRead(w, t, plan, status) ==
  /\ work[w].at = "idle" /\ t \in stored
  /\ Become(w, SaveJob(t, Requested(row[t], plan, status), status # "same"))
  /\ UNCHANGED <<stored, row>>

\* UpdateSettings on the row that was read: features and domains are the
\* request's; its limit and preferences have no column and are dropped.
Customised(r) == [r EXCEPT !.features = "custom"]

\* PUT /tenants/{id}/settings
SettingsRead(w, t) ==
  /\ work[w].at = "idle" /\ t \in stored
  /\ Become(w, SaveJob(t, Customised(row[t]), FALSE))
  /\ UNCHANGED <<stored, row>>

\* Whoever holds a copy of t when it is deactivated is overtaken.
Overtake(job, t) == [job EXCEPT !.overtaken = @ \/ (job.at = "save" /\ job.tenant = t)]
LeaveInactive(w) ==
  work' = [v \in Workers |-> IF v = w THEN Idle ELSE Overtake(work[v], work[w].tenant)]

\* Repository Update: all columns, as they were in the copy.
Save(w) ==
  /\ work[w].at = "save"
  /\ row' = [row EXCEPT ![work[w].tenant] = work[w].copy]
  /\ IF work[w].copy.status = "inactive" THEN LeaveInactive(w) ELSE Become(w, Idle)
  /\ UNCHANGED stored

\* DELETE /tenants/{id}: the row is looked up ...
DeactivateRead(w, t) ==
  /\ work[w].at = "idle" /\ t \in stored
  /\ Become(w, DeactivateJob(t))
  /\ UNCHANGED <<stored, row>>

\* ... and its status column updated.
Deactivate(w) ==
  /\ work[w].at = "deactivate"
  /\ row' = [row EXCEPT ![work[w].tenant] = [@ EXCEPT !.status = "inactive"]]
  /\ LeaveInactive(w)
  /\ UNCHANGED stored

\* 201 or 409 is written.
Answer(w) ==
  /\ work[w].at \in {"created", "conflict"}
  /\ Become(w, Idle)
  /\ UNCHANGED <<stored, row>>

\* A database error (the unique index's too), a cancelled request, a crash.
Fail(w) ==
  /\ work[w].at \in {"insert", "save", "deactivate"}
  /\ Become(w, Idle)
  /\ UNCHANGED <<stored, row>>

Accept(w) ==
  \/ \E s \in Slugs, p \in Plans : CreateCheck(w, s, p)
  \/ \E t \in Tenants : \/ SettingsRead(w, t) \/ DeactivateRead(w, t)
                        \/ \E p \in Plans \cup {"same"}, s \in Statuses \cup {"same"} :
                             UpdateRead(w, t, p, s)

Next ==
  \E w \in Workers :
    Accept(w) \/ CreateInsert(w) \/ Save(w) \/ Deactivate(w) \/ Answer(w) \/ Fail(w)

Spec == Init /\ [][Next]_vars

-----------------------------------------------------------------------------
\* However creations race and whole rows are saved late, every slug belongs
\* to one tenant and stays with it.
Claims == {<<row[t].slug, t>> : t \in stored}
Registry == INSTANCE SlugRegistry WITH claims <- Claims
SlugsClaimedOnce == Registry!Spec

\* The limit and the default features are those of the plan in the same row:
\* a late save may bring an old plan back, but with its limit.
PlanFits(r) == /\ r.maxUsers = maxUsersForPlan(r.plan)
               /\ r.features \in {defaultFeatures(r.plan), "custom"}
PlanConsistent == \A t \in stored : PlanFits(row[t])

\* 201 names a tenant that is stored under the requested slug, and 409 a slug
\* some tenant has, also when requests for one slug race.
AnswersTrue ==
  \A w \in Workers :
    /\ work[w].at = "created" => /\ work[w].tenant \in stored
                                 /\ row[work[w].tenant].slug = work[w].copy.slug
    /\ work[w].at = "conflict" => SlugTaken(work[w].copy.slug)

\* A deactivated tenant becomes active only by a request that asks for it or
\* that read the row before the deactivation: what starts later cannot undo it.
ReactivationExplained ==
  \A t \in stored : row[t].status = "inactive" /\ row'[t].status = "active" =>
    \E w \in Workers : /\ work[w].at = "save" /\ work[w].tenant = t
                       /\ work[w].asked \/ work[w].overtaken
LaterRequestsKeepInactive == [][ReactivationExplained]_vars
=============================================================================
