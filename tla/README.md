# OpsNexus: specifications, model checking and proofs

OpsNexus is a multi-tenant operations platform: five Go services (workflow,
auth, tenant, document, notification) over MySQL, MongoDB, DynamoDB and the
disk, an AWS API gateway with a JWT authorizer (or Kubernetes with Traefik), and
two React front ends. This directory holds TLA+ modules of its stateful parts,
the TLC configurations that check them and theorems that TLAPS proves. Paths
below are relative to the repository; `workflow-service/...` and its siblings
are under `src/services/`.

    tlc -workers 2 -config CaseService_race.cfg MCCaseService
    tlapm CaseServiceProofs.tla

`PROJECT.json` lists the runs, the source lines behind every definition, a
seeded bug for every property (the operators commented `Mutant`), the hazards
and the findings.

## 1. Inventory

Every HTTP request is a goroutine and every service runs in several replicas (the
production overlay asks for two or more), so **any two handlers interleave
between any two calls to a store**. No service uses optimistic locking. gorm's
`Save` writes every column of the row a handler read earlier. Only one code path
(`NextCaseNumber`) opens a transaction.

| component | state | operations | correct when |
|---|---|---|---|
| case numbering (workflow) | one counter row per tenant, cases | `NextCaseNumber`, insert | numbers unique and without gap; no request hangs |
| cases (workflow) | case rows, transition log | create, get, update, assign, transition | status moves along the template; history, stamps, SLA flag and deadline agree with the row |
| tasks, comments (workflow) | one row each | create, update, complete; add | what is done has a completion time, and it is a real one |
| templates (workflow) | one row each | create | never change |
| sessions (auth) | users, user_roles, refresh tokens; access tokens out | login, refresh, logout, status change, role assignment | tokens carry held roles; logout, suspension and expiry end access |
| registration (auth) | users | register | a refusal says why: 409 for an address that is taken |
| seed command (auth) | roles, the administrator's account | one run per deployment, repeated when it dies | a run that completes leaves roles, account and grant |
| profile (auth) | – | `GET` and `PATCH /auth/me` | – |
| tenants (tenant) | tenant rows | create, update, settings, deactivate | a slug is claimed once; plan, limit and features agree |
| organizations, profiles (tenant) | one row each | create; update | belong to an existing tenant |
| documents (document) | file, row, version rows | upload, delete | what was acknowledged is there, what was deleted is gone |
| forms, submissions (document) | form and submission documents | create, update, publish, archive, submit | edits and status changes do not undo one another |
| notifications (notification) | DynamoDB items | send, bulk, mark (all) read, dismiss | what a dismissal or a mark did stays done; dismissed content is gone |
| audit trail (notification) | append-only items | record, query | – |
| portal session | localStorage, React state, calls in flight | sign in, sign out, page load, 401 interceptor | the token pair stays one pair; pages do not hang or circle |
| admin console | as the portal, plus an admin check | the same | the same |
| gateway authorizer | cached verdicts (300 s) | allow, deny | – |

Interactions. The front ends call the gateway, which asks the authorizer and adds
`X-Tenant-ID` and `X-User-ID`; `/auth/*` is public there and guarded by
`JWTAuth` in the service. The four other services trust the two headers. The
services do not call one another: they meet only in the front ends, in the ids they
share and in the tokens auth-service signs.

What is hard here: stale copies saved whole (cases, tasks, tenants, forms,
users); check-then-act on a slug, an address or a counter; several writes to
several stores without a transaction (documents, transition and history, bulk
notifications, account and role of the seed command); errors after an effect and SDK
retries; tokens that outlive the state they were minted from; answers that reach a page in any order, in tabs
that share one localStorage.

## 2. Modules

Abstract specifications state a component's promise; the detailed module
instantiates them with a refinement mapping.

| module | models | refines |
|---|---|---|
| `NumberDispenser` | a gap-free (or, `Strict`, sequential) log of numbers per tenant | |
| `CaseCounter` | `case_repository.go` `NextCaseNumber`, pool of `db.go`, the insert | `NumberDispenser` |
| `CaseLifecycle` | what may happen to the status of a case, reverts to an earlier status included | |
| `CaseService` | `case_service.go`, `case_repository.go`, handlers | `CaseLifecycle` |
| `AuthService` | `auth_service.go`, its repositories, `JWTAuth`, `RequireRole` | |
| `SlugRegistry` | a slug is claimed once, for good | |
| `TenantService` | tenants in `tenant_service.go`, `tenant_repository.go` | `SlugRegistry` |
| `DocumentService` | `document_service.go`, `document_repository.go` | |
| `NotificationService` | `notification_service.go`, `notification_repository.go` | |
| `LateWrites` | values read, changed and written whole: what is stored is a change of something that was stored | |
| `FormService` | `form_service.go`, `form_repository.go`, the forms part of the handlers | `LateWrites` |
| `TaskService` | `task_service.go`, `task_repository.go`, `AddComment` | |
| `Accounts` | `Register` with its repository, `auth-service/cmd/seed/main.go` | |
| `PortalSession` | `AuthProvider.tsx`, `services/api.ts` and the handlers of auth-service they call | |

`MC<module>` gives the constants values for TLC; `<module>Proofs` holds theorems.
Two proof modules carry two components each, which do not interact:
`CounterInboxProofs` (`CaseCounter`, `NotificationService`) and
`DocumentPortalProofs` (`DocumentService`, `PortalSession`). That is why the inbox's
and the portal's `Init`, `Next`, `Spec`, `TypeOK` and `vars` have the prefixes `Inbox`
and `Portal`.

Conventions. `Workers` are the goroutines that serve requests, one request each
at a time; what a worker holds in memory between two store calls is a record
(`copy`, `work`, `call`), and each store call, each reading of the clock and
each answer is one action, named for the Go method. `Fail` is an error of a
store, a cancelled request or the death of the process; where the code cannot
tell whether a failed call took effect, both outcomes are steps. Names, bodies,
priorities and other columns no rule looks at are one abstract value or absent. List
and get endpoints that only read are no actions. Fresh UUIDs are ids not used yet.

### CaseCounter
`SelectCounter` is BEGIN and a plain SELECT (no lock), `InsertCounter` or
`UpdateCounter` the write that takes the row lock, `Commit` the commit,
`InsertCase` the later insert. `PoolHasRoom` is `SetMaxOpenConns`. `issued` is
a history variable: the numbers handed out, by tenant.

### CaseService
`ReadRow` (every handler's `FindByID`), `ChangeGet` / `ChangeContent` /
`ChangeTransition` (the handler's decision on its copy at a clock reading),
`SaveRow` (`Save`, all columns, applied or not when it fails),
`RecordTransition` (the history insert, whose error is only logged). The
template is a constant, since nothing changes a template after its creation; a
failing lookup skips validation, as the code does. `moves` is history:
transitions whose save took effect. The tenant check of the handlers and the
number of the case (see CaseCounter) are left out.

### AuthService
A login reads the user with its roles, then mints and stores
(`LoginRead`, `LoginMint`); a refresh reads the token row, the user, mints
(`RefreshRead`, `RefreshUser`, `RefreshMint`) and hands back the same refresh
token; `Revoke`, `StatusSave` and `Assign` are the writes of the admin and
logout handlers. Time is relative (`left`), so it needs no bound.

### TenantService, DocumentService, NotificationService
Tenants: look-up of the slug and insert under the unique index, whole-row saves of
update and settings, a single-column deactivation. Documents: file, row, version row
and counter written in separate calls by pods that each have a disk of their
own; a restart empties it; `logged` is history: an error of `AddVersion` was logged.
Notifications: unconditional puts that the SDK
retries, updates that create what is gone, and the one-page query of mark-all.

### FormService
`UpdateRead` and `UpdateReplace` are the two database calls of an edit, with the
document the handler makes in between (`Edits`: a list of fields makes a new
version, anything else does not); `SetStatus` is the single `UpdateOne` of
publish and archive, `SubmitRead` and `SubmitInsert` the look at the template and
the insert. A field list is the set of names it requires, a submission the set of
names that have a value. `overtaken` (the template changed after the handler read
it) and `had` (the documents a template has had) are history.

### TaskService
`FindCase` and `InsertTask` / `InsertComment` create; `ReadTask`, then
`UpdateTask` or `CompleteTask` on the copy at a clock reading, then `SaveTask`,
gorm's `Save` of all columns. `Stamp` is the completion time `UpdateTask`
leaves. The handler takes any string as a status; only `done` has a rule. Rows of
cases are only ever created, as in the service.

### Accounts
`Look` and `Register` are the two calls of a registration, `LookFails` the lookup
whose error `Register` drops (`blind` remembers it), `RegisterRefused` the insert that the
unique index of `users.email` rejects. The steps of a seed
process are those of `cmd/seed/main.go` in their order, role by role; the two
lookups whose errors the command drops can fail as well (`LookRoleFails`,
`FindAdminFails`), and `SeedDies` may come between any two. A seed process runs
again after it has died (the Kubernetes job) or has completed (the next
deployment), also while another one is under way. Several role rows of one name
are a count. Permissions and the password are left out.

### PortalSession
A step is auth-service answering a call (`Answer`, `AnswerLogin`, `RefuseLogin`,
`Lose`) or a page consuming one (`Resolve`, `Reject`, `Intercept`,
`InterceptNoToken`, `Renewed`); JavaScript runs to completion between awaits.
`Navigate` is the unload that `window.location.href` causes some time later,
`Reload` the user's. The module joins client and service with the bodies
as each side has them: the page posts `refreshToken`, the handlers read
`refresh_token`. A session number stands for the tokens of one login.

## 3. Runs

Passing runs:

| run | question | instance | distinct states |
|---|---|---|---|
| `counter_race` | do numbers stay gap-free and requests get answered under races and failures? | 4 requests of one tenant, 1 of another, pool of 3 | 186,828 |
| `case_race` | what survives handlers that save stale copies? | 2 workers, 1 case, 4 statuses (one unreachable along the edges), clock to 3, 2 moves | 897,438 |
| `auth_sessions` | do tokens, logout, suspension and roles agree at any interleaving, and do sessions end? | 2 workers, 2 users, 2 roles of 2 tenants, 2 refresh tokens | 602,437 |
| `inbox` | do retried puts, bulks and mark-all leave items as they should be? | 2 workers, 2 users, 3 ids, page of 2 | 118,353 |
| `documents` | do file, row and versions agree after every partial failure? | 2 pods, 3 workers, 2 documents | 700,813 |
| `tenants` | is a slug claimed once, are answers true, do plan and limit agree? | 2 workers, 2 tenants, 2 slugs, 3 plans (one unknown) | 787,603 |
| `forms` | do edits, publications and submissions of one template cross without mixing? | 2 workers, 1 template, 2 field lists, 3 versions | 754,131 |
| `tasks` | what survives of a completion when tasks are saved late? | 2 workers, 1 task, 1 comment, 3 statuses, clock to 3 | 1,714,151 |
| `accounts` | when does a taken address get a 500, and what does a repeated seed leave? | 2 registrations, 2 seed processes of 2 runs, 2 roles, 2 tenants | 4,117,147 |
| `portal` | does the token pair stay one, does every call settle and a refused page reach the login page? | 2 tabs, 1 more component, 2 logins | 121,743 |

Runs that show a disagreement between the code and what the repository says of it:

| run | property | result |
|---|---|---|
| `counter_duplicate` | `UniqueCaseNumbers` | two overlapping `POST /cases` read the same counter; `case_number` has only a plain index, so both are stored. `tests/integration/workflow_test.go` demands unique numbers |
| `portal_logout` | `LogoutRevokes` | the portal's logout never revokes: the body's key is not the one the handler reads, against `contracts/auth.yaml:200` and `:209` |

Other places where code and documents differ, seen while modelling. They follow from a
line or two of the code each, so that no run is spent on them; where a property of a
passing run says what the code does instead, it is named, and it is **not** what the
document promises:

* `contracts/auth.yaml:152` says a refresh invalidates the old refresh token; `Refresh`
  (`auth_service.go:166`) hands the same one back.
* `contracts/notification.yaml:263` says a dismissal is permanent; a mark-read that
  arrives later creates an item without content under the id
  (`notification_repository.go:168`). What remains true is `DismissedContentGone`.
* `docs/api-conventions.md:169` promises 409 on concurrent modification; every
  whole-row save (`case_repository.go:100` and its like) answers 200.
* `contracts/document.yaml:364` answers a submission to an unpublished form with 404;
  `SubmitForm` does not look at the status. `:214-216` ties the version to publication;
  the code counts every edit that brings fields, drafts included.
* `contracts/document.yaml:213-227` lets the PUT of a template change its status (the
  example's body is `status: published`); `UpdateFormRequest` has no status and
  `UpdateTemplate` (`form_service.go:60-90`) keeps that of its copy, so such a PUT is answered
  200 and changes nothing. The status moves by `POST .../publish` and `.../archive` alone,
  from any status, an archived template's included. `PublicationsStay` says of an edit only
  what would have to hold under either reading: it never takes a status back, unless it is
  late.
* `contracts/document.yaml:487` answers an upload with `versionCount: 1`. The code stores 1
  (`document_service.go:81`) and `AddVersion` then increments it for the same first version
  (`document_repository.go:111`): the answer says 1, the row says 2 with one version
  row, and the portal's `DocumentsPage.tsx:145` shows the 2. `CountOneAhead` states this
  double count exactly: after a good upload the counter is one more than the versions.
* `contracts/workflow.yaml:572-582` refuses the completion of a completed task with 400
  `TASK_ALREADY_COMPLETED`; `CompleteTask` (`task_service.go:101-116`) does not look at the
  status, answers 200 and gives the task a later completion time (`CompletedAgain` in
  `CompletionKept`).
* `.github/workflows/deploy-k8s.yml:281` removes seed jobs "so re-runs work". A run of
  the auth seed that finds the account ends there, so an account whose first run
  died before the grant never becomes an administrator (`cutShort` in `CompletedSeed`); the
  tenant seed stops at the slug that is taken.
* An address with spaces around it is trimmed by the insert but not by the lookup
  before it: an address that is known is then answered 500, not 409 (`trimmed` in
  `RefusalsExplained`). So is an address known to another tenant, and any known address
  whose lookup failed, since `auth_service.go:55` drops the error (`blind`).

What the passing runs show, in short. *Numbering*: duplicates can occur, gaps
within a tenant's issued numbers cannot; number 1 is issued once, thanks to the
primary key; no lock or connection is leaked. *Cases*: although status may fall
back, it never becomes one the case has not held and cannot reach along the template while the
template is asked; the deadline never moves (proved), no flag is set early, stamps and
history never lie. *Sessions*: a revoked token stays revoked, a closed session
without a refresh in flight mints nothing more, a suspended user gets no token
once the requests that saw it active have ended, a role never crosses tenants.
*Documents*: an acknowledged document keeps its file unless its pod restarted,
and every file without a row has one of the failures that explain it.
*Tenants*: what `SlugRegistry` promises holds of any race; a late copy can undo
a deactivation only if it was read before. *Forms*: fields and version of a template
never come apart, versions have no gap, and a publication or an archive is undone only
by an edit that read the template before it was changed; a submission lacks a required
field only if the template was changed while it ran. *Tasks*: every completion time is one
the task really had while done, although a reopened task keeps it and late saves
bring old rows back; only such a save takes it away, and only a second completion
makes it later. *Notifications*: only the retry of a put that is still waited for makes a
read notification unread. *Accounts*: a taken address is answered 500 for one of
four reasons; a second row for a role needs a failed lookup or a crossing run.
*Portal*: the two stored
tokens always belong to one login; no 401 starts an endless chain of refreshes.

Some of these properties exempt the very effect of a hazard, since the code allows it:
requests that read before a suspension (`SuspensionShutsOut`), a submission or save that was
overtaken, a run that died before the grant. They say that nothing *else* brings it about.

### Bounds

Two workers reach every pairwise interleaving of two handlers; every
property here relates at most two requests and the state they share. The counter
has four requests of one tenant because a lost update needs one request to
commit behind two others, and a fifth of another tenant that competes only for
the pool. Documents have three workers, two on one pod and one on the other, so
that a delete is served by either pod while an upload is under way. The case clock
runs to 3 with an SLA of 1 tick: before, at and after the deadline. `MaxMoves` 2 is a
transition and one made from a stale copy. Refresh tokens live 2 ticks and access
tokens 1, so a session outlives its access token once. Three notification ids
with a page of 2 leave one beyond the first page. `MaxSessions` 2 is a login and the
one that replaces it. A template has two field lists, up to version 3 and four
different documents: enough for an edit to be overtaken by another and by a publication
and to bring back an old version (`MaxVersion`, `MaxValues`); one submission at a time is
looked at (`MaxSubmissions`), since no step relates two. A task has four different rows
(`MaxValues`), so that it is completed, reopened and completed again at another
tick. Two roles (`LastRole`) have a "next role" step; two runs of each of two seed
processes (`MaxRuns`) are a run, its repetition and a crossing one. One address is enough
because no step reads or writes two. Symmetry of workers is used only in runs that check
no liveness property.

### Fairness

* `CaseCounter`: weak fairness of each request's progress. Goroutines are
  scheduled, the database answers, and a lock is released by commit, rollback or
  timeout. `Fail` is never required.
* `AuthService`: time passes (`Tick`), and a started request ends or fails. No
  request is ever required to arrive.
* `PortalSession`: a call is answered or lost (WF on the answers of each
  call; the client has no timeout of its own, the browser has), a page consumes
  the answer that arrived, and a navigation that was set is followed. The user owes
  nothing. `Reload` is only for pages that have come up: a user who reloads
  faster than the page can load would keep it from ever finishing.

Deadlock is checked in every run: in `CaseCounter` the only rest state is that
every request is answered (`AllAnswered`).

## 4. Proofs

Each theorem holds for every value of the constants that satisfies the
module's named assumptions. The invariants are stated as conjunctions of named
parts; each part is kept by one lemma, as a rule with one step per action.

**CounterInboxProofs, case counter.** `CounterInv` = `TypeOK`, who holds the row lock
(`LockInv`: exactly the transaction that has written), that every value a transaction
sees or has seen was handed out (`IssuedInv`) and `NumberOneIssuedOnce`. The last is not inductive alone: a transaction
that wrote 1 must be the lock's holder while the counter is still 0. From it:
`CounterTypeCorrect`, `NumberOneUnique`. `BoundInv` (the i-th number is at
most i) with `CounterInv` gives the refinement `NumbersGapFree`, and from a fact of the
abstract dispenser, through the refinement, `NumbersContiguous`: with a number every
smaller one was handed out. Under
`MaxConns = 1` transactions cannot overlap (`SerialInv`), and uniqueness,
monotonicity and the sequential dispenser follow (`UniqueOnOneConnection`,
`CounterMonotoneOnOneConnection`, `SequentialOnOneConnection`): the properties
that fail in the code fail because of overlap and nothing else.
`RequestsNeverDeadlock` and `RequestsOnlyAdvance` are what `EveryRequestAnswered`
rests on besides fairness: whoever waits for a connection or a lock waits for a
transaction that can go on, and each request takes at most four steps.

**CounterInboxProofs, notifications.** `InboxInv` = `InboxTypeOK`, `MissingEmpty` (an id
without an item has the attributes a new item starts from), `IdsAlone` (the ids of a bulk
are distinct and its own) and `BulkProgress` (`SentSoFar`: what a bulk is done with is
stored, perhaps the next one whose answer was lost, and none after it; `EndsInOrder`).
Without `IdsAlone` another bulk could store one of its notifications out of turn;
without `MissingEmpty` an update that creates an item could bring an old reading back.
From it: `InboxTypesHold`, `BulksStorePrefixes`, and the action properties
`DismissedStayGone` and `ReadUndoneByRetry`.

**DocumentPortalProofs, documents.** The steps are classified once by what they do to
rows, files, history and jobs (`RowMoves`, `FileMoves`, `HistoryMoves`, `JobMoves`); the
invariant's parts follow from these. `UploadsAlone`: an upload is the only one of its
document and runs on the pod of its file, so that no other cleans up its file. `NewSound`:
nobody can delete a document before its row is inserted. `RecordsSound` and
`VersionsSound` say how far row, file, version row and counter are at each step of an
upload. `DeletesSound`: what a DELETE has removed has no row, and a file left behind by
it has a reason. With these `AcknowledgedKept`, `LeaksExplained` and
`CountOneAhead` are inductive: `AcknowledgedDocumentsKept`, `LeaksHaveReasons`,
`CountsRunAhead`, `DeletedStayDeleted`, `TypesHold`.

**DocumentPortalProofs, portal.** `PortalInv` adds `RefreshesFail`: no call awaits the
success of a refresh, since the posted body lacks the key the handler decodes, nor a
401 to it. `TokensPaired` is not inductive without it: a refresh that succeeds late would
write one token of an old pair. So the theorem names the very mismatch the
`portal_logout` finding is about as what the pairing now rests on; a correction of
the key must also make the interceptor check that the session is still the
current one. From it: `PortalTypeCorrect`, `PortalTokensPaired`,
`PortalNeverRenews`. `CallMoves` classifies what one step may do to one call
(with `CallsInOrder` as further invariant), and three action properties follow:
`CallsOnlyAdvance` (a call is at most ten steps from its end, and each of its steps
brings it nearer: no circle of 401 and refresh), `SignOutsReachLogin` and
`RefusedPagesLeave`. They are what the three liveness properties of the portal
rest on besides fairness; all but `SignOutsReachLogin` would fail if a refresh could
succeed.

**CaseServiceProofs.** `WorkersSound`: a worker works on a case that has a row,
or is the only one to create it. `CopiesCarryOn`: a copy agrees with the row it will
overwrite in deadline and workflow; it gives `DeadlineNeverMoves`. `AllSound` (rows and copies satisfy the stamp and breach rules, the clock only grows)
gives `NoEarlyBreach` and `StampsPresent`; `HistorySound` gives `HistoryTrue`.
`StatusesSound` (a copy's status is one its case has held) is what a revert
needs; with it `HeldReachable` gives `StatusStaysReachable` for any template,
and every step maps to a step of `CaseLifecycle` or a stutter
(`CaseRefinesLifecycle`).

**AuthServiceProofs.** `AuthInv` = `TypeOK`, `JobSound` (what a worker holds
in memory is consistent with the tables: its roles are still held, its token has a row
of its user), `ClaimsHold`, `HeldInTenant`. Roles are only ever added, which is why a
worker's stale roles stay true; a revoked row is never un-revoked, since no code path
saves a token row. From it: `AuthTypeCorrect`, `TokenClaimsHold`,
`RolesKeptInTenant`, and the action properties `LogoutIsFinal`,
`ClosedSessionsStayClosed`, `SuspendedStayOut`. `SessionsRunOut` is what `SessionsEnd`
rests on besides the passing of time: the life of a refresh token only shrinks, and a
session that has run out mints nothing more.

**TenantServiceProofs.** `IInv` = `TypeOK`, `PlanConsistent`, `AnswersTrue` and
what workers hold. `InsertsSound`: a tenant about to be inserted has no row and
one worker. `SavesSound`: a copy about to be saved has the slug of its row and a
plan with its limit, and an active copy of a tenant that was deactivated meanwhile is
marked as overtaken. The slug part is what makes whole-row saves harmless to
`SlugRegistry`: no handler changes a slug, so a late save writes back the one that is
there. From it: `PlansKeepTheirLimits`, `AnswersAreTrue`,
`LaterRequestsCannotReactivate` and the refinement `SlugsAreRegistered`, from which
`SlugsHaveOneOwner` (a fact of the registry) and `SlugsAreForGood` follow for the rows.

**FormServiceProofs.** `StoredHad` ties the history to the documents, `EditsSound`
says a copy about to replace a document is an edit of one the template has had,
`SubmitsSound` that a submission about to be inserted fits the stored document unless
it was overtaken. `StepsWrite` classifies the steps (no write, first
document, change of an earlier document) and gives the refinement of `LateWrites`
(`TemplatesAreLateWrites`); with `SubmitsSound` it gives
`SubmissionsFitTemplates`. `LateWrites` allows more than the code does where
publish and archive are concerned (they change the stored document, not an earlier
one); `PublicationsAreKept` says the rest, from `EditsKeepStatus` (an edit that was not
overtaken has the status that is stored) and `OnlyPublished` (what else changes an
archived template is a publication).

**TaskServiceProofs.** `StampsSound` is not inductive: a save writes what a worker
made of a row it read long ago. `HadSound` extends it to every row a task has had, and
`SavesSound` to what is about to be saved, whose completion time is one of an earlier row of
the task or comes with the row itself. From it:
`CompletionTimesAreGenuine` and `CompletionsAreKept`, the latter with `KeepsTime`: a copy that
was not overtaken has the stored row's completion time, or is a completion of it.
`InsertsSound` (the case that was looked up is still there,
since cases are never deleted) gives `NoOrphans`, although no foreign key exists.

**AccountsProofs.** `SeedsInOrder`: a seed process at a role has all roles before it.
`SeedsKnow`: one that grants or has completed has the account. `AdminExplained`:
an account by the seed is the administrator's, is about to be, or was left by a run that
died. `LooksExplained`: whoever is about to insert an address that is known within its
tenant has been raced, spelled it with spaces or had a lookup that failed. From them:
`RefusalsHaveReasons`, `SeedsComplete` and `RolesMadeTwiceExplained`.

Every safety invariant, action property and refinement that a passing run checks is
thus proved. The type invariants of all components are proved as well; only those of
`DocumentService` and `NotificationService` are also properties of a run.

Model-checked only: the liveness properties `EveryRequestAnswered`, `SessionsEnd`,
`EveryCallSettles`, `SignOutEnds` and `RefusedReachesLogin`, since liveness under
fairness is out of the prover's reach. The theorems above state the part of them that
single states and steps show; what is left to TLC is that fair schedules take those
steps. No module with a theorem, or used by one, declares a RECURSIVE operator.

## 5. Plan

Done, in this order: numbering, cases, sessions, notifications, documents, tenants,
portal session; forms, tasks and comments, registration and the auth seed; proofs of
every safety and action property of all of them, and of the steps that the liveness
properties rest on. To come:

1. The tenant seed, whose run after a death between its steps stops at the slug, beside
   organizations and profiles of the tenant service.
2. Request headers: the ids the portal keeps beside the tokens, the gateway's
   cached verdict against expiry and suspension, composed with `AuthService`.
3. `PageCache`: the react-query cache behind the portal's case and notification
   pages (`hooks/*.ts`, `CaseDetailPage.tsx`): refetches, invalidation by mutations
   and navigation in any order; what a page presents as fresh should include the
   user's own acknowledged changes, and say whose session fetched it.
4. The audit trail's offset paging against concurrent records.
5. Theorems: how many page loads a tab can go through without the user, and the role
   grant of the auth seed over several runs.

## 6. Not modelled, and why

* Reads that only list: they return what the modelled state is; paging of
  moving data is in the plan.
* bcrypt, JWT encoding, JSON and row conversions, validation of formats,
  logging, health checks, CORS, configuration: no state, or state that no property
  tells apart.
* An attempt of the AWS SDK that takes effect after the SDK has given it up, and
  preloading of roles in a second query: narrower windows than those modelled.
* Terraform, Kubernetes, CI, compose files and migrations: declarations;
  the facts they fix (replicas, disks, indexes) are assumed where they are used.
* The tenant seed and the workflow seed: calls of the services in a row that stop at the
  first error; the workflow seed makes demonstration data. The auth seed is modelled.
* Organizations and profiles: an insert after a look at a tenant that is never deleted,
  and one more whole-row save of the kind `TenantService` and `CaseService` have.
* The audit trail: a put under a fresh id that nothing changes afterwards.
* The admin console's session, which is the portal's code with a role check, and the
  pages of both front ends, which show the answers of the services.
