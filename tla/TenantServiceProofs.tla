------------------------ MODULE TenantServiceProofs ------------------------
(***************************************************************************)
(* Proofs about TenantService: plan and limit stay together, the answers   *)
(* are true, a deactivation is not undone by a later request, and slugs    *)
(* implement SlugRegistry, for any number of requests, tenants and slugs.  *)
(***************************************************************************)
EXTENDS TenantService, TLAPS

\* What a worker holds: a new tenant, one worker a tenant; a row to be saved
\* that has the tenant's slug, a plan with its limit, and the stored status
\* unless one was asked for or the tenant was deactivated meanwhile.
InsertsSound ==
  \A w \in Workers : work[w].at = "insert" =>
    /\ work[w].tenant \in Tenants \ stored /\ PlanFits(work[w].copy)
    /\ \A v \in Workers : work[v].at = "insert" /\ work[v].tenant = work[w].tenant => v = w
SavesSound ==
  \A w \in Workers : work[w].at = "save" =>
    /\ work[w].tenant \in stored /\ PlanFits(work[w].copy)
    /\ work[w].copy.slug = row[work[w].tenant].slug
    /\ \/ work[w].asked \/ work[w].overtaken
       \/ row[work[w].tenant].status = "inactive" => work[w].copy.status = "inactive"
DeactivatesSound == \A w \in Workers : work[w].at = "deactivate" => work[w].tenant \in stored

IInv == /\ TypeOK /\ InsertsSound /\ SavesSound /\ DeactivatesSound
        /\ PlanConsistent /\ AnswersTrue

-----------------------------------------------------------------------------
LEMMA PlansFit ==
  \A plan \in Plans : /\ maxUsersForPlan(plan) \in {10, 50, 1000}
                      /\ defaultFeatures(plan) \in {"free", "pro", "enterprise"}
BY DEF maxUsersForPlan, defaultFeatures

LEMMA NewRowTyped ==
  ASSUME NEW slug \in Slugs, NEW plan \in Plans
  PROVE  /\ NewRow(slug, plan) \in Row /\ PlanFits(NewRow(slug, plan))
         /\ NewRow(slug, plan).slug = slug
BY PlansFit DEF NewRow, Row, Statuses, PlanFits

LEMMA IdleTyped == NoRow \in Row /\ Idle \in Job /\ Idle.at = "idle" /\ Idle.tenant = NoTenant
<1>1. (CHOOSE s \in Slugs : TRUE) \in Slugs
  BY TenantAssumption
<1>2. NoRow \in Row
  BY <1>1, NewRowTyped, TenantAssumption DEF NoRow
<1> QED
  BY <1>2 DEF Idle, Job

\* A request keeps the slug; a plan that is named comes with its limit.
LEMMA RequestedTyped ==
  ASSUME NEW r \in Row, NEW plan \in Plans \cup {"same"}, NEW status \in Statuses \cup {"same"}
  PROVE  LET q == Requested(r, plan, status)
         IN  /\ q \in Row /\ q.slug = r.slug
             /\ status = "same" => q.status = r.status
             /\ PlanFits(r) => PlanFits(q)
<1> DEFINE p == SetPlan(r, plan)
<1>1. p \in Row /\ p.slug = r.slug /\ p.status = r.status /\ (PlanFits(r) => PlanFits(p))
  <2>1. CASE plan = "same"
    BY <2>1 DEF SetPlan
  <2>2. CASE plan \in Plans
    BY <2>2, PlansFit, TenantAssumption DEF SetPlan, Row, PlanFits
  <2> QED
    BY <2>1, <2>2
<1>2. /\ SetStatus(p, status) \in Row /\ SetStatus(p, status).slug = p.slug
      /\ status = "same" => SetStatus(p, status).status = p.status
      /\ PlanFits(p) => PlanFits(SetStatus(p, status))
  <2> HIDE DEF p
  <2> QED
    BY <1>1 DEF SetStatus, Row, PlanFits
<1> QED
  BY <1>1, <1>2 DEF Requested

LEMMA CustomisedTyped ==
  ASSUME NEW r \in Row
  PROVE  /\ Customised(r) \in Row /\ Customised(r).slug = r.slug
         /\ Customised(r).status = r.status
         /\ PlanFits(r) => PlanFits(Customised(r))
BY DEF Customised, Row, PlanFits

LEMMA InactiveTyped ==
  ASSUME NEW r \in Row
  PROVE  LET q == [r EXCEPT !.status = "inactive"]
         IN  q \in Row /\ q.slug = r.slug /\ q.status = "inactive" /\ (PlanFits(r) => PlanFits(q))
BY DEF Row, Statuses, PlanFits

LEMMA CreateJobTyped ==
  ASSUME NEW t \in Tenants, NEW r \in Row
  PROVE  /\ CreateJob(t, r) \in Job
         /\ CreateJob(t, r).at = "insert" /\ CreateJob(t, r).tenant = t /\ CreateJob(t, r).copy = r
BY IdleTyped DEF CreateJob, Idle, Job

LEMMA ConflictJobTyped ==
  ASSUME NEW r \in Row
  PROVE  ConflictJob(r) \in Job /\ ConflictJob(r).at = "conflict" /\ ConflictJob(r).copy = r
BY IdleTyped DEF ConflictJob, Idle, Job

LEMMA SaveJobTyped ==
  ASSUME NEW t \in Tenants, NEW r \in Row, NEW asked \in BOOLEAN
  PROVE  /\ SaveJob(t, r, asked) \in Job
         /\ SaveJob(t, r, asked).at = "save" /\ SaveJob(t, r, asked).tenant = t
         /\ SaveJob(t, r, asked).copy = r /\ (asked => SaveJob(t, r, asked).asked)
BY IdleTyped DEF SaveJob, Idle, Job

LEMMA DeactivateJobTyped ==
  ASSUME NEW t \in Tenants
  PROVE  /\ DeactivateJob(t) \in Job
         /\ DeactivateJob(t).at = "deactivate" /\ DeactivateJob(t).tenant = t
BY IdleTyped DEF DeactivateJob, Idle, Job

LEMMA CreatedJobTyped ==
  ASSUME NEW j \in Job
  PROVE  /\ CreatedJob(j) \in Job
         /\ CreatedJob(j).at = "created" /\ CreatedJob(j).tenant = j.tenant
         /\ CreatedJob(j).copy = j.copy
BY DEF CreatedJob, Job

LEMMA OvertakeTyped ==
  ASSUME NEW j \in Job, NEW t
  PROVE  /\ Overtake(j, t) \in Job
         /\ Overtake(j, t).at = j.at /\ Overtake(j, t).tenant = j.tenant
         /\ Overtake(j, t).copy = j.copy /\ (j.asked => Overtake(j, t).asked)
         /\ j.overtaken => Overtake(j, t).overtaken
         /\ j.at = "save" /\ j.tenant = t => Overtake(j, t).overtaken
BY DEF Overtake, Job

-----------------------------------------------------------------------------
\* The inductive invariant holds while there is no tenant.
THEOREM InitInv == Init => IInv
<1> SUFFICES ASSUME Init PROVE IInv
  OBVIOUS
<1>1. \A w \in Workers : work[w].at = "idle"
  BY IdleTyped DEF Init
<1>2. TypeOK
  BY IdleTyped DEF Init, TypeOK
<1> QED
  BY <1>1, <1>2 DEF Init, IInv, InsertsSound, SavesSound, DeactivatesSound, PlanConsistent,
    AnswersTrue

\* What a step may do to the rows: nothing, or write one that keeps the slug
\* of its tenant, or brings a new one, and has a plan with its limit.
Untouched == UNCHANGED <<stored, row>>
Wrote(t, r) ==
  /\ row' = [row EXCEPT ![t] = r]
  /\ stored' = stored \cup {t}
  /\ PlanFits(r)
  /\ t \in stored => r.slug = row[t].slug
  /\ t \notin stored => ~ SlugTaken(r.slug)

RowsKnown == TypeOK /\ InsertsSound /\ SavesSound /\ DeactivatesSound /\ PlanConsistent

LEMMA JobTyped ==
  ASSUME TypeOK, NEW w \in Workers
  PROVE  work[w] \in Job /\ work[w].copy \in Row
BY DEF TypeOK, Job

LEMMA InsertWrites ==
  ASSUME RowsKnown, NEW w \in Workers, CreateInsert(w)
  PROVE  /\ work[w].tenant \in Tenants /\ work[w].copy \in Row
         /\ Wrote(work[w].tenant, work[w].copy)
<1>1. /\ work[w].tenant \in Tenants \ stored /\ PlanFits(work[w].copy)
  BY DEF CreateInsert, RowsKnown, InsertsSound
<1> QED
  BY <1>1, JobTyped DEF CreateInsert, IndexAllows, Wrote, RowsKnown

LEMMA SaveWrites ==
  ASSUME RowsKnown, NEW w \in Workers, Save(w)
  PROVE  /\ work[w].tenant \in Tenants /\ work[w].copy \in Row
         /\ Wrote(work[w].tenant, work[w].copy)
<1>1. /\ work[w].tenant \in stored /\ PlanFits(work[w].copy)
      /\ work[w].copy.slug = row[work[w].tenant].slug
  BY DEF Save, RowsKnown, SavesSound
<1>2. work[w].tenant \in Tenants
  BY <1>1 DEF RowsKnown, TypeOK
<1> QED
  BY <1>1, <1>2, JobTyped DEF Save, Wrote, RowsKnown

LEMMA DeactivateWrites ==
  ASSUME RowsKnown, NEW w \in Workers, Deactivate(w)
  PROVE  \E t \in Tenants : \E r \in Row : Wrote(t, r) /\ r.status = "inactive" /\ t = work[w].tenant
<1> DEFINE t == work[w].tenant
           r == [row[t] EXCEPT !.status = "inactive"]
<1>1. t \in stored /\ t \in Tenants /\ row[t] \in Row /\ PlanFits(row[t])
  BY DEF Deactivate, RowsKnown, DeactivatesSound, TypeOK, PlanConsistent
<1>2. r \in Row /\ r.slug = row[t].slug /\ r.status = "inactive" /\ PlanFits(r)
  BY <1>1, InactiveTyped
<1>3. row' = [row EXCEPT ![t] = r] /\ stored' = stored
  BY DEF Deactivate
<1>4. Wrote(t, r)
  BY <1>1, <1>2, <1>3 DEF Wrote
<1> QED
  BY <1>1, <1>2, <1>4

\* The steps that write no row.
Elsewhere(w) == Accept(w) \/ Answer(w) \/ Fail(w)

LEMMA ElsewhereUntouched ==
  ASSUME NEW w, Elsewhere(w)
  PROVE  Untouched
BY DEF Elsewhere, Accept, Answer, Fail, CreateCheck, SettingsRead, DeactivateRead, UpdateRead,
  Untouched

LEMMA StepsWrite ==
  ASSUME RowsKnown, [Next]_vars
  PROVE  Untouched \/ \E t \in Tenants : \E r \in Row : Wrote(t, r)
<1>1. CASE UNCHANGED vars
  BY <1>1 DEF vars, Untouched
<1>2. ASSUME NEW w \in Workers, Elsewhere(w) PROVE Untouched
  BY <1>2, ElsewhereUntouched
<1> QED
  BY <1>1, <1>2, InsertWrites, SaveWrites, DeactivateWrites DEF Next, Elsewhere

\* Tenants stay, with their slugs, and a slug that is taken stays taken.
LEMMA SlugsStay ==
  ASSUME RowsKnown, [Next]_vars
  PROVE  /\ stored \subseteq stored'
         /\ \A t \in stored : row'[t].slug = row[t].slug
         /\ \A s : SlugTaken(s) => SlugTaken(s)'
<1>1. stored \subseteq stored' /\ \A t \in stored : row'[t].slug = row[t].slug
  <2>1. CASE Untouched
    BY <2>1 DEF Untouched
  <2>2. ASSUME NEW t \in Tenants, NEW r \in Row, Wrote(t, r)
        PROVE  stored \subseteq stored' /\ \A u \in stored : row'[u].slug = row[u].slug
    BY <2>2 DEF Wrote, RowsKnown, TypeOK
  <2> QED
    BY <2>1, <2>2, StepsWrite
<1> QED
  BY <1>1 DEF SlugTaken

LEMMA PlanStep == RowsKnown /\ [Next]_vars => PlanConsistent'
<1> SUFFICES ASSUME RowsKnown, [Next]_vars, NEW u \in stored' PROVE PlanFits(row'[u])
  BY DEF PlanConsistent, PlanFits
<1>1. CASE Untouched
  BY <1>1 DEF Untouched, RowsKnown, PlanConsistent
<1>2. ASSUME NEW t \in Tenants, NEW r \in Row, Wrote(t, r)
      PROVE  PlanFits(row'[u])
  <2>1. CASE u = t
    <3>1. row'[u] = r
      BY <1>2, <2>1 DEF Wrote, RowsKnown, TypeOK
    <3> QED
      BY <1>2, <3>1 DEF Wrote
  <2>2. CASE u # t
    <3>1. row'[u] = row[u] /\ u \in stored
      BY <1>2, <2>2 DEF Wrote, RowsKnown, TypeOK
    <3> QED
      BY <3>1 DEF RowsKnown, PlanConsistent
  <2> QED
    BY <2>1, <2>2
<1> QED
  BY <1>1, <1>2, StepsWrite

-----------------------------------------------------------------------------
\* What a step may do to the job of a worker.
Stays(w) ==
  /\ work'[w].at = work[w].at /\ work'[w].tenant = work[w].tenant
  /\ work'[w].copy = work[w].copy
  /\ work[w].asked => work'[w].asked
  /\ work[w].overtaken => work'[w].overtaken
  /\ \A t \in stored :
       work[w].at = "save" /\ work[w].tenant = t /\ row'[t] # row[t] /\ row'[t].status = "inactive"
         => work'[w].overtaken
Reads(w) ==
  /\ work'[w].at = "save" /\ work'[w].tenant \in stored /\ Untouched
  /\ PlanFits(work'[w].copy) /\ work'[w].copy.slug = row[work'[w].tenant].slug
  /\ work'[w].asked \/ work'[w].copy.status = row[work'[w].tenant].status
Picks(w) ==
  /\ work'[w].at = "deactivate" /\ work'[w].tenant \in stored /\ Untouched
Checks(w) ==
  /\ work'[w].at = "insert" /\ PlanFits(work'[w].copy) /\ Untouched
  /\ work'[w].tenant \in Fresh /\ \A v \in Workers \ {w} : work'[v] = work[v]
Conflicts(w) ==
  /\ work'[w].at = "conflict" /\ SlugTaken(work'[w].copy.slug) /\ Untouched
Creates(w) ==
  /\ work'[w].at = "created" /\ work'[w].tenant \in stored'
  /\ row'[work'[w].tenant] = work'[w].copy

\* Handlers that only look, for the worker itself.
LEMMA AcceptMoves ==
  ASSUME RowsKnown, NEW w \in Workers, Accept(w)
  PROVE  /\ work' \in [Workers -> Job]
         /\ Reads(w) \/ Picks(w) \/ Checks(w) \/ Conflicts(w)
         /\ \A v \in Workers \ {w} : work'[v] = work[v]
<1>1. ASSUME NEW j \in Job, Become(w, j)
      PROVE  /\ work' \in [Workers -> Job] /\ work'[w] = j
             /\ \A v \in Workers \ {w} : work'[v] = work[v]
  BY <1>1 DEF Become, RowsKnown, TypeOK
<1>2. Untouched
  BY ElsewhereUntouched DEF Elsewhere
<1>3. ASSUME NEW s \in Slugs, NEW p \in Plans, CreateCheck(w, s, p)
      PROVE  /\ work' \in [Workers -> Job]
             /\ Checks(w) \/ Conflicts(w)
             /\ \A v \in Workers \ {w} : work'[v] = work[v]
  <2> DEFINE r == NewRow(s, p)
  <2>1. r \in Row /\ PlanFits(r) /\ r.slug = s
    BY NewRowTyped
  <2>2. CASE SlugTaken(s) /\ Become(w, ConflictJob(r))
    <3>1. /\ work' \in [Workers -> Job] /\ work'[w] = ConflictJob(r)
          /\ \A v \in Workers \ {w} : work'[v] = work[v]
      BY <1>1, <2>1, <2>2, ConflictJobTyped
    <3> QED
      BY <1>2, <2>1, <2>2, <3>1, ConflictJobTyped DEF Conflicts
  <2>3. CASE Fresh # {} /\ Become(w, CreateJob(CHOOSE t \in Fresh : TRUE, r))
    <3> DEFINE t == CHOOSE u \in Fresh : TRUE
    <3>1. t \in Fresh /\ t \in Tenants
      BY <2>3 DEF Fresh
    <3> HIDE DEF t
    <3>2. /\ work' \in [Workers -> Job] /\ work'[w] = CreateJob(t, r)
          /\ \A v \in Workers \ {w} : work'[v] = work[v]
      BY <1>1, <2>1, <2>3, <3>1, CreateJobTyped DEF t
    <3> QED
      BY <1>2, <2>1, <3>1, <3>2, CreateJobTyped DEF Checks
  <2> QED
    BY <1>3, <2>2, <2>3 DEF CreateCheck
<1>4. ASSUME NEW t \in Tenants, DeactivateRead(w, t)
      PROVE  /\ work' \in [Workers -> Job] /\ Picks(w)
             /\ \A v \in Workers \ {w} : work'[v] = work[v]
  <2>1. /\ work' \in [Workers -> Job] /\ work'[w] = DeactivateJob(t)
        /\ \A v \in Workers \ {w} : work'[v] = work[v]
    BY <1>1, <1>4, DeactivateJobTyped DEF DeactivateRead
  <2> QED
    BY <1>2, <1>4, <2>1, DeactivateJobTyped DEF DeactivateRead, Picks
<1>5. ASSUME NEW t \in stored, NEW r \in Row, NEW asked \in BOOLEAN, Become(w, SaveJob(t, r, asked)),
             r.slug = row[t].slug, PlanFits(r), asked \/ r.status = row[t].status
      PROVE  /\ work' \in [Workers -> Job] /\ Reads(w)
             /\ \A v \in Workers \ {w} : work'[v] = work[v]
  <2>1. t \in Tenants
    BY DEF RowsKnown, TypeOK
  <2>2. /\ work' \in [Workers -> Job] /\ work'[w] = SaveJob(t, r, asked)
        /\ \A v \in Workers \ {w} : work'[v] = work[v]
    BY <1>1, <1>5, <2>1, SaveJobTyped
  <2>3. /\ work'[w].at = "save" /\ work'[w].tenant = t /\ work'[w].copy = r
        /\ asked => work'[w].asked
    BY <2>1, <2>2, SaveJobTyped
  <2> QED
    BY <1>2, <1>5, <2>2, <2>3 DEF Reads
<1>6. ASSUME NEW t \in stored PROVE row[t] \in Row /\ PlanFits(row[t])
  BY DEF RowsKnown, TypeOK, PlanConsistent
<1>7. ASSUME NEW t \in Tenants, SettingsRead(w, t)
      PROVE  /\ work' \in [Workers -> Job] /\ Reads(w)
             /\ \A v \in Workers \ {w} : work'[v] = work[v]
  BY <1>5, <1>6, <1>7, CustomisedTyped DEF SettingsRead
<1>8. ASSUME NEW t \in Tenants, NEW p \in Plans \cup {"same"}, NEW s \in Statuses \cup {"same"},
             UpdateRead(w, t, p, s)
      PROVE  /\ work' \in [Workers -> Job] /\ Reads(w)
             /\ \A v \in Workers \ {w} : work'[v] = work[v]
  BY <1>5, <1>6, <1>8, RequestedTyped DEF UpdateRead
<1> QED
  BY <1>3, <1>4, <1>7, <1>8 DEF Accept

LEMMA JobsMove ==
  ASSUME RowsKnown, [Next]_vars, NEW w \in Workers
  PROVE  /\ work' \in [Workers -> Job]
         /\ \/ Stays(w) \/ work'[w].at = "idle"
            \/ Reads(w) \/ Picks(w) \/ Checks(w) \/ Conflicts(w) \/ Creates(w)
<1>1. \A v \in Workers : work[v] \in Job
  BY DEF RowsKnown, TypeOK
<1>2. ASSUME NEW v \in Workers, NEW j \in Job, Become(v, j)
      PROVE  /\ work' \in [Workers -> Job] /\ work'[v] = j
             /\ v # w => work'[w] = work[w]
  BY <1>2 DEF Become, RowsKnown, TypeOK
<1>3. ASSUME work'[w] = work[w], Untouched PROVE Stays(w)
  BY <1>3 DEF Stays, Untouched
<1>4. ASSUME NEW t \in Tenants, row' = [row EXCEPT ![t] = row'[t]], row'[t] \in Row,
             \/ work'[w] = Overtake(work[w], t)
             \/ work'[w] = work[w] /\ row'[t].status # "inactive"
      PROVE  Stays(w)
  <2>1. \A u \in stored : row'[u] # row[u] => u = t
    BY <1>4 DEF RowsKnown, TypeOK
  <2>2. CASE work'[w] = Overtake(work[w], t)
    BY <1>1, <2>1, <2>2, OvertakeTyped DEF Stays
  <2>3. CASE work'[w] = work[w] /\ row'[t].status # "inactive"
    BY <2>1, <2>3 DEF Stays
  <2> QED
    BY <1>4, <2>2, <2>3
<1>5. ASSUME NEW v \in Workers, Accept(v)
      PROVE  /\ work' \in [Workers -> Job]
             /\ Stays(w) \/ Reads(w) \/ Picks(w) \/ Checks(w) \/ Conflicts(w)
  <2>1. Untouched
    BY <1>5, ElsewhereUntouched DEF Elsewhere
  <2> QED
    BY <1>3, <1>5, <2>1, AcceptMoves
<1>6. ASSUME NEW v \in Workers, Answer(v) \/ Fail(v)
      PROVE  work' \in [Workers -> Job] /\ (Stays(w) \/ work'[w].at = "idle")
  <2>1. Untouched /\ Become(v, Idle)
    BY <1>6, ElsewhereUntouched DEF Elsewhere, Answer, Fail
  <2> QED
    BY <1>2, <1>3, <2>1, IdleTyped
<1>7. ASSUME NEW v \in Workers, CreateInsert(v)
      PROVE  work' \in [Workers -> Job] /\ (Stays(w) \/ work'[w].at = "idle" \/ Creates(w))
  <2>1. /\ work[v].tenant \in Tenants \ stored /\ stored' = stored \cup {work[v].tenant}
        /\ row' = [row EXCEPT ![work[v].tenant] = work[v].copy] /\ work[v] \in Job
    BY <1>1, <1>7 DEF CreateInsert, RowsKnown, InsertsSound
  <2>2. row'[work[v].tenant] = work[v].copy
    BY <2>1 DEF RowsKnown, TypeOK
  <2>3. work'[w] = work[w] => Stays(w)
    BY <2>1 DEF RowsKnown, TypeOK, Stays
  <2>4. CASE Become(v, Idle)
    BY <1>2, <2>3, <2>4, IdleTyped
  <2>5. CASE Become(v, CreatedJob(work[v]))
    <3>1. /\ work' \in [Workers -> Job] /\ work'[v] = CreatedJob(work[v])
          /\ v # w => work'[w] = work[w]
      BY <1>2, <2>1, <2>5, CreatedJobTyped
    <3>2. v = w => Creates(w)
      BY <2>1, <2>2, <3>1, CreatedJobTyped DEF Creates
    <3> QED
      BY <2>3, <3>1, <3>2
  <2> QED
    BY <1>7, <2>4, <2>5 DEF CreateInsert
<1>8. ASSUME NEW v \in Workers, LeaveInactive(v)
      PROVE  /\ work' \in [Workers -> Job]
             /\ v = w => work'[w].at = "idle"
             /\ v # w => work'[w] = Overtake(work[w], work[v].tenant)
  BY <1>1, <1>8, IdleTyped, OvertakeTyped DEF LeaveInactive
<1>9. ASSUME NEW v \in Workers, Save(v)
      PROVE  work' \in [Workers -> Job] /\ (Stays(w) \/ work'[w].at = "idle")
  <2> DEFINE t == work[v].tenant
             r == work[v].copy
  <2>1. t \in Tenants /\ r \in Row /\ row' = [row EXCEPT ![t] = r]
    BY <1>9, SaveWrites DEF Save
  <2>2. row'[t] = r /\ row' = [row EXCEPT ![t] = row'[t]] /\ row'[t] \in Row
    BY <2>1 DEF RowsKnown, TypeOK
  <2>3. CASE r.status = "inactive"
    <3>1. LeaveInactive(v)
      BY <1>9, <2>3 DEF Save
    <3> QED
      BY <1>4, <1>8, <2>1, <2>2, <3>1
  <2>4. CASE r.status # "inactive"
    <3>1. Become(v, Idle)
      BY <1>9, <2>4 DEF Save
    <3> QED
      BY <1>2, <1>4, <2>1, <2>2, <2>4, <3>1, IdleTyped
  <2> QED
    BY <2>3, <2>4
<1>10. ASSUME NEW v \in Workers, Deactivate(v)
       PROVE  work' \in [Workers -> Job] /\ (Stays(w) \/ work'[w].at = "idle")
  <2>1. PICK t \in Tenants, r \in Row : Wrote(t, r) /\ t = work[v].tenant
    BY <1>10, DeactivateWrites
  <2>2. row' = [row EXCEPT ![t] = row'[t]] /\ row'[t] \in Row
    BY <2>1 DEF Wrote, RowsKnown, TypeOK
  <2>3. LeaveInactive(v)
    BY <1>10 DEF Deactivate
  <2> QED
    BY <1>4, <1>8, <2>1, <2>2, <2>3
<1>11. CASE UNCHANGED vars
  BY <1>3, <1>11 DEF vars, Untouched, RowsKnown, TypeOK
<1> QED
  BY <1>5, <1>6, <1>7, <1>9, <1>10, <1>11 DEF Next

LEMMA TypeStep == RowsKnown /\ [Next]_vars => TypeOK'
<1> SUFFICES ASSUME RowsKnown, [Next]_vars PROVE TypeOK'
  OBVIOUS
<1>1. work' \in [Workers -> Job]
  <2>1. CASE Workers = {}
    <3>1. UNCHANGED vars
      BY <2>1 DEF Next
    <3> QED
      BY <3>1 DEF vars, RowsKnown, TypeOK
  <2>2. ASSUME NEW w \in Workers PROVE work' \in [Workers -> Job]
    BY <2>2, JobsMove
  <2> QED
    BY <2>1, <2>2
<1>2. stored' \subseteq Tenants /\ row' \in [Tenants -> Row]
  BY StepsWrite DEF Untouched, Wrote, RowsKnown, TypeOK
<1> QED
  BY <1>1, <1>2 DEF TypeOK

\* A tenant that is about to be inserted stays out until it is.
LEMMA InsertsStep == RowsKnown /\ [Next]_vars => InsertsSound'
<1> SUFFICES ASSUME RowsKnown, [Next]_vars, NEW w \in Workers, work'[w].at = "insert"
             PROVE  /\ work'[w].tenant \in Tenants \ stored' /\ PlanFits(work'[w].copy)
                    /\ \A v \in Workers : work'[v].at = "insert"
                         /\ work'[v].tenant = work'[w].tenant => v = w
  BY DEF InsertsSound, PlanFits
<1>1. \A v \in Workers : work'[v].at = "insert" => Stays(v) \/ Checks(v)
  BY JobsMove DEF Reads, Picks, Conflicts, Creates
<1>2. ASSUME NEW v \in Workers, Checks(v)
      PROVE  /\ work'[v].tenant \in Tenants \ stored' /\ PlanFits(work'[v].copy)
             /\ \A u \in Workers \ {v} : work'[u].tenant # work'[v].tenant
  BY <1>2 DEF Checks, Fresh, Untouched
<1>3. CASE Checks(w)
  BY <1>2, <1>3
<1>4. CASE Stays(w)
  <2>1. /\ work[w].at = "insert" /\ work'[w].tenant = work[w].tenant
        /\ work'[w].copy = work[w].copy /\ work[w].tenant \in Tenants \ stored
        /\ PlanFits(work[w].copy)
    BY <1>4 DEF Stays, RowsKnown, InsertsSound
  <2>2. work[w].tenant \notin stored'
    <3> SUFFICES ASSUME work[w].tenant \in stored' PROVE FALSE
      OBVIOUS
    <3>1. \A v \in Workers : Save(v) \/ Deactivate(v) => stored' = stored
      BY DEF Save, Deactivate
    <3>2. ~ Untouched
      BY <2>1 DEF Untouched
    <3>3. PICK v \in Workers : CreateInsert(v)
      BY <2>1, <3>1, <3>2, ElsewhereUntouched DEF Next, Elsewhere, vars, Untouched
    <3>4. work[v].at = "insert" /\ work[v].tenant = work[w].tenant
      BY <2>1, <3>3 DEF CreateInsert
    <3>5. v = w
      BY <2>1, <3>4 DEF RowsKnown, InsertsSound
    <3>6. work'[w] = CreatedJob(work[w]) \/ work'[w] = Idle
      BY <3>3, <3>5 DEF CreateInsert, Become, RowsKnown, TypeOK
    <3> QED
      BY <3>6, IdleTyped, CreatedJobTyped DEF RowsKnown, TypeOK
  <2>3. ASSUME NEW v \in Workers, work'[v].at = "insert", work'[v].tenant = work'[w].tenant, v # w
        PROVE  FALSE
    <3>1. CASE Stays(v)
      BY <2>1, <2>3, <3>1 DEF Stays, RowsKnown, InsertsSound
    <3>2. CASE Checks(v)
      BY <1>2, <2>3, <3>2
    <3> QED
      BY <1>1, <2>3, <3>1, <3>2
  <2> QED
    BY <2>1, <2>2, <2>3
<1> QED
  BY <1>1, <1>3, <1>4

\* A deactivation marks whoever holds an active copy.
LEMMA SavesStep == RowsKnown /\ [Next]_vars => SavesSound'
<1> SUFFICES ASSUME RowsKnown, [Next]_vars, NEW w \in Workers, work'[w].at = "save",
                    NEW t, t = work'[w].tenant, NEW r, r = work'[w].copy
             PROVE  /\ t \in stored' /\ PlanFits(r) /\ r.slug = row'[t].slug
                    /\ \/ work'[w].asked \/ work'[w].overtaken
                       \/ row'[t].status = "inactive" => r.status = "inactive"
  BY DEF SavesSound, PlanFits
<1>1. CASE Stays(w)
  <2>1. work[w].at = "save" /\ t = work[w].tenant /\ r = work[w].copy
    BY <1>1 DEF Stays
  <2>2. /\ t \in stored /\ PlanFits(r) /\ r.slug = row[t].slug
        /\ \/ work[w].asked \/ work[w].overtaken
           \/ row[t].status = "inactive" => r.status = "inactive"
    BY <2>1 DEF RowsKnown, SavesSound
  <2>3. t \in stored' /\ row'[t].slug = row[t].slug
    BY <2>2, SlugsStay
  <2>4. \/ work'[w].asked \/ work'[w].overtaken
        \/ row'[t].status = "inactive" => r.status = "inactive"
    <3>1. CASE work[w].asked
      BY <1>1, <3>1 DEF Stays
    <3>2. CASE work[w].overtaken
      BY <1>1, <3>2 DEF Stays
    <3>3. CASE (row[t].status = "inactive" => r.status = "inactive") /\ row'[t] = row[t]
      BY <3>3
    <3>4. CASE row'[t] # row[t] /\ row'[t].status = "inactive"
      BY <1>1, <2>1, <2>2, <3>4 DEF Stays
    <3> QED
      BY <2>2, <3>1, <3>2, <3>3, <3>4
  <2> QED
    BY <2>2, <2>3, <2>4
<1>2. CASE Reads(w)
  BY <1>2 DEF Reads, Untouched
<1>3. Stays(w) \/ Reads(w)
  BY JobsMove DEF Picks, Checks, Conflicts, Creates
<1> QED
  BY <1>1, <1>2, <1>3

LEMMA DeactivatesStep == RowsKnown /\ [Next]_vars => DeactivatesSound'
<1> SUFFICES ASSUME RowsKnown, [Next]_vars, NEW w \in Workers, work'[w].at = "deactivate"
             PROVE  work'[w].tenant \in stored'
  BY DEF DeactivatesSound
<1>1. Stays(w) \/ Picks(w)
  BY JobsMove DEF Reads, Checks, Conflicts, Creates
<1> QED
  BY <1>1, SlugsStay DEF Stays, Picks, RowsKnown, DeactivatesSound

LEMMA AnswersStep == RowsKnown /\ AnswersTrue /\ [Next]_vars => AnswersTrue'
<1> SUFFICES ASSUME RowsKnown, AnswersTrue, [Next]_vars, NEW w \in Workers
             PROVE  /\ work'[w].at = "created" =>
                         /\ work'[w].tenant \in stored'
                         /\ row'[work'[w].tenant].slug = work'[w].copy.slug
                    /\ work'[w].at = "conflict" =>
                         \E t \in stored' : row'[t].slug = work'[w].copy.slug
  BY DEF AnswersTrue, SlugTaken
<1>1. ASSUME work'[w].at = "created"
      PROVE  work'[w].tenant \in stored' /\ row'[work'[w].tenant].slug = work'[w].copy.slug
  <2>1. Stays(w) \/ Creates(w)
    BY <1>1, JobsMove DEF Reads, Picks, Checks, Conflicts
  <2>2. CASE Creates(w)
    BY <2>2 DEF Creates
  <2>3. CASE Stays(w)
    <3>1. /\ work[w].tenant \in stored /\ work'[w].tenant = work[w].tenant
          /\ row[work[w].tenant].slug = work'[w].copy.slug
      BY <1>1, <2>3 DEF Stays, AnswersTrue
    <3> QED
      BY <3>1, SlugsStay
  <2> QED
    BY <2>1, <2>2, <2>3
<1>2. ASSUME work'[w].at = "conflict"
      PROVE  \E t \in stored' : row'[t].slug = work'[w].copy.slug
  <2>1. SlugTaken(work'[w].copy.slug)
    BY <1>2, JobsMove DEF Stays, Reads, Picks, Checks, Conflicts, Creates, AnswersTrue
  <2>2. PICK t \in stored : row[t].slug = work'[w].copy.slug
    BY <2>1 DEF SlugTaken
  <2> QED
    BY <2>2, SlugsStay
<1> QED
  BY <1>1, <1>2

-----------------------------------------------------------------------------
LEMMA InvStep == IInv /\ [Next]_vars => IInv'
<1> SUFFICES ASSUME IInv, [Next]_vars PROVE IInv'
  OBVIOUS
<1>1. RowsKnown /\ AnswersTrue
  BY DEF IInv, RowsKnown
<1> QED
  BY <1>1, TypeStep, InsertsStep, SavesStep, DeactivatesStep, PlanStep, AnswersStep DEF IInv

\* The handlers of tenants keep the inductive invariant, in any order.
THEOREM Invariance == Spec => []IInv
BY InitInv, InvStep, PTL DEF Spec

\* The types of the tenants and of the requests.
THEOREM TypesHold == Spec => []TypeOK
<1>1. IInv => TypeOK
  BY DEF IInv
<1> QED
  BY <1>1, Invariance, PTL

\* Plan and limit of a stored tenant belong together.
THEOREM PlansKeepTheirLimits == Spec => []PlanConsistent
<1>1. IInv => PlanConsistent
  BY DEF IInv
<1> QED
  BY <1>1, Invariance, PTL

\* 201 and 409 say what is so.
THEOREM AnswersAreTrue == Spec => []AnswersTrue
<1>1. IInv => AnswersTrue
  BY DEF IInv
<1> QED
  BY <1>1, Invariance, PTL

\* A request that starts after a deactivation undoes it only by asking to.
LEMMA ReactivationStep == IInv /\ [Next]_vars => ReactivationExplained
<1> SUFFICES ASSUME RowsKnown, [Next]_vars PROVE ReactivationExplained
  BY DEF IInv, RowsKnown
<1> SUFFICES ASSUME NEW t \in stored,
                    row[t].status = "inactive", row'[t].status = "active"
             PROVE  \E w \in Workers : /\ work[w].at = "save" /\ work[w].tenant = t
                                       /\ work[w].asked \/ work[w].overtaken
  BY DEF ReactivationExplained
<1>1. ~ Untouched
  BY DEF Untouched
<1>2. t \in Tenants
  BY DEF RowsKnown, TypeOK
<1>3. ASSUME NEW w \in Workers, CreateInsert(w) PROVE FALSE
  <2>1. work[w].tenant # t
    BY <1>3 DEF CreateInsert, RowsKnown, InsertsSound
  <2> QED
    BY <1>2, <1>3, <2>1 DEF CreateInsert, RowsKnown, TypeOK
<1>4. ASSUME NEW w \in Workers, Deactivate(w) PROVE FALSE
  <2>1. PICK u \in Tenants, r \in Row : Wrote(u, r) /\ r.status = "inactive"
    BY <1>4, DeactivateWrites
  <2> QED
    BY <1>2, <2>1 DEF Wrote, RowsKnown, TypeOK
<1>5. PICK w \in Workers : Save(w)
  BY <1>1, <1>3, <1>4, ElsewhereUntouched DEF Next, Elsewhere, vars, Untouched
<1>6. work[w].at = "save" /\ work[w].tenant = t /\ work[w].copy.status = "active"
  BY <1>2, <1>5 DEF Save, RowsKnown, TypeOK
<1> QED
  BY <1>6 DEF RowsKnown, SavesSound

\* A deactivated tenant becomes active again only by a request that asks for
\* it, or by the whole-row save of one that read it before (UpdateTenant and
\* UpdateSettings in tenant_service.go).
THEOREM LaterRequestsCannotReactivate == Spec => LaterRequestsKeepInactive
BY ReactivationStep, Invariance, PTL DEF Spec, LaterRequestsKeepInactive

-----------------------------------------------------------------------------
\* A row that is inserted claims its slug; no other step changes the claims.
LEMMA RegistryStep == IInv /\ [Next]_vars => [Registry!Next]_Claims
<1> SUFFICES ASSUME RowsKnown, [Next]_vars PROVE Registry!Next \/ UNCHANGED Claims
  BY DEF IInv, RowsKnown
<1>1. CASE Untouched
  BY <1>1 DEF Untouched, Claims
<1>2. ASSUME NEW t \in Tenants, NEW r \in Row, Wrote(t, r)
      PROVE  Registry!Next \/ UNCHANGED Claims
  <2>1. \A u \in stored \ {t} : row'[u] = row[u]
    BY <1>2 DEF Wrote, RowsKnown, TypeOK
  <2>2. row'[t] = r /\ stored' = stored \cup {t}
    BY <1>2 DEF Wrote, RowsKnown, TypeOK
  <2>3. CASE t \in stored
    BY <1>2, <2>1, <2>2, <2>3 DEF Wrote, Claims
  <2>4. CASE t \notin stored
    <3>1. ~ SlugTaken(r.slug) /\ r.slug \in Slugs
      BY <1>2, <2>4 DEF Wrote, Row
    <3>2. Claims' = Claims \cup {<<r.slug, t>>}
      BY <2>1, <2>2, <2>4 DEF Claims
    <3>3. Registry!Free(r.slug)
      BY <3>1 DEF Registry!Free, Claims, SlugTaken
    <3>4. Registry!Unnamed(t)
      BY <2>4 DEF Registry!Unnamed, Claims
    <3> QED
      BY <3>1, <3>2, <3>3, <3>4 DEF Registry!Next, Registry!Claim
  <2> QED
    BY <2>3, <2>4
<1> QED
  BY <1>1, <1>2, StepsWrite

\* Every slug belongs to one tenant and stays with it.
THEOREM SlugsAreRegistered == Spec => SlugsClaimedOnce
<1>1. Init => Registry!Init
  BY DEF Init, Registry!Init, Claims
<1>2. IInv /\ [Next]_vars => [Registry!Next]_Claims
  BY RegistryStep
<1> QED
  BY <1>1, <1>2, Invariance, PTL DEF Spec, SlugsClaimedOnce, Registry!Spec

-----------------------------------------------------------------------------
(***************************************************************************)
(* What SlugRegistry promises, said of the rows: the first is a fact of the*)
(* abstract specification that the service inherits, the second follows    *)
(* from how its steps map to those of the registry.                        *)
(***************************************************************************)
OneOwner == \A t, u \in stored : row[t].slug = row[u].slug => t = u

SlugsKept == \A t \in stored : t \in stored' /\ row'[t].slug = row[t].slug

\* In the registry, and hence in the table, a name and a claimant have one
\* another alone.
ClaimsPair ==
  /\ \A s \in Slugs, t, u \in Tenants : <<s, t>> \in Claims /\ <<s, u>> \in Claims => t = u
  /\ \A s, r \in Slugs, t \in Tenants : <<s, t>> \in Claims /\ <<r, t>> \in Claims => s = r

LEMMA ClaimsPairStep == ClaimsPair /\ [Registry!Next]_Claims => ClaimsPair'
<1> SUFFICES ASSUME ClaimsPair, [Registry!Next]_Claims PROVE ClaimsPair'
  OBVIOUS
<1>1. CASE UNCHANGED Claims
  BY <1>1 DEF ClaimsPair
<1>2. ASSUME NEW s \in Slugs, NEW t \in Tenants, Registry!Claim(s, t) PROVE ClaimsPair'
  BY <1>2 DEF Registry!Claim, Registry!Free, Registry!Unnamed, ClaimsPair
<1> QED
  BY <1>1, <1>2 DEF Registry!Next

\* However creations race between the look at the slug and the insert
\* (CreateTenant in tenant_service.go), no two tenants have one slug.
THEOREM SlugsHaveOneOwner == Spec => []OneOwner
<1>1. Registry!Init => ClaimsPair
  BY DEF Registry!Init, ClaimsPair
<1>2. Registry!Spec => []ClaimsPair
  BY <1>1, ClaimsPairStep, PTL DEF Registry!Spec
<1>3. TypeOK /\ ClaimsPair => OneOwner
  <2> SUFFICES ASSUME TypeOK, ClaimsPair, NEW t \in stored, NEW u \in stored,
                      row[t].slug = row[u].slug
               PROVE  t = u
    BY DEF OneOwner
  <2>1. t \in Tenants /\ u \in Tenants /\ row[t].slug \in Slugs
    BY DEF TypeOK, Row
  <2>2. <<row[t].slug, t>> \in Claims /\ <<row[t].slug, u>> \in Claims
    BY DEF Claims
  <2> QED
    BY <2>1, <2>2 DEF ClaimsPair
<1>4. IInv => TypeOK
  BY DEF IInv
<1> QED
  BY <1>2, <1>3, <1>4, SlugsAreRegistered, Invariance, PTL DEF SlugsClaimedOnce

\* No step takes a slug from a tenant or gives it another: the whole-row saves
\* of updates and settings, however late, write back the slug that is there.
THEOREM SlugsAreForGood == Spec => [][SlugsKept]_vars
<1>1. IInv /\ [Next]_vars => [SlugsKept]_vars
  <2> SUFFICES ASSUME IInv, [Next]_vars, NEW t \in stored
               PROVE  t \in stored' /\ row'[t].slug = row[t].slug
    BY DEF SlugsKept
  <2>1. Claims \subseteq Claims'
    BY RegistryStep DEF Registry!Next, Registry!Claim
  <2>2. <<row[t].slug, t>> \in Claims'
    BY <2>1 DEF Claims
  <2> QED
    BY <2>2 DEF Claims
<1> QED
  BY <1>1, Invariance, PTL DEF Spec
=============================================================================
