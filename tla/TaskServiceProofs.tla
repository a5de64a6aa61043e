------------------------- MODULE TaskServiceProofs -------------------------
(***************************************************************************)
(* Proofs about TaskService: its types, that completion times are real     *)
(* ones although rows are saved late, and that every item has a case, for  *)
(* any number of requests, cases, tasks, comments and any bounds.          *)
(***************************************************************************)
EXTENDS TaskService, TLAPS

\* A task has a row exactly when it has had one, and it is the last.
StoredHad ==
  \A t \in Tasks : /\ t \notin stored => had[t] = {}
                   /\ t \in stored => row[t] \in had[t]

\* Row r is done only with a completion time, and has only one that task t
\* had while it was done.
Genuine(t, r) ==
  \E q \in had[t] : q.status = "done" /\ q.completedAt = r.completedAt
Sound(r) ==
  /\ r.status = "done" => r.completedAt # Never
  /\ r.completedAt # Never => r.completedAt <= clock
HadSound ==
  \A t \in Tasks : \A r \in had[t] : Sound(r) /\ (r.completedAt # Never => Genuine(t, r))

\* What workers hold: to insert, a new item of a stored case, one worker an
\* item; to change, a row the task has had; to save, one that is sound and
\* whose completion time is an old one of the task, or comes with this row.
InsertsSound ==
  \A w \in Workers : work[w].at = "insert" =>
    /\ work[w].case \in cases /\ work[w].item \in Items \ stored
    /\ work[w].copy.status = "todo" /\ work[w].copy.completedAt = Never
    /\ \A v \in Workers : work[v].at = "insert" /\ work[v].item = work[w].item => v = w
ChangesSound ==
  \A w \in Workers : work[w].at = "change" =>
    work[w].item \in stored \cap Tasks /\ work[w].copy \in had[work[w].item]
SavesSound ==
  \A w \in Workers : work[w].at = "save" =>
    /\ work[w].item \in stored \cap Tasks
    /\ Sound(work[w].copy)
    /\ work[w].copy.completedAt # Never =>
         work[w].copy.status = "done" \/ Genuine(work[w].item, work[w].copy)

IInv == /\ TypeOK /\ StoredHad /\ HadSound
        /\ InsertsSound /\ ChangesSound /\ SavesSound /\ ItemsHaveCase

-----------------------------------------------------------------------------
LEMMA NewTaskTyped ==
  \A x \in Contents : NewTask(x) \in Row
BY TaskAssumption, TaskBounds DEF NewTask, Row, Never, Times

LEMMA IdleTyped == NoRow \in Row /\ Idle \in Job /\ Idle.at = "idle" /\ Idle.item = Nothing
<1>1. (CHOOSE x \in Contents : TRUE) \in Contents
  BY TaskAssumption
<1>2. NoRow \in Row
  BY <1>1, NewTaskTyped DEF NoRow
<1> QED
  BY <1>2 DEF Idle, Job

LEMMA InsertJobTyped ==
  ASSUME NEW c \in Cases, NEW i \in Items, NEW x \in Contents
  PROVE  /\ InsertJob(c, i, x) \in Job
         /\ InsertJob(c, i, x).at = "insert" /\ InsertJob(c, i, x).case = c
         /\ InsertJob(c, i, x).item = i /\ InsertJob(c, i, x).copy = NewTask(x)
BY IdleTyped, NewTaskTyped DEF InsertJob, Idle, Job

LEMMA ReadJobTyped ==
  ASSUME NEW t \in Tasks, NEW r \in Row
  PROVE  /\ ReadJob(t, r) \in Job
         /\ ReadJob(t, r).at = "change" /\ ReadJob(t, r).item = t /\ ReadJob(t, r).copy = r
BY IdleTyped DEF ReadJob, Idle, Job, Items

LEMMA SaveJobTyped ==
  ASSUME NEW j \in Job, NEW r \in Row
  PROVE  /\ SaveJob(j, r) \in Job
         /\ SaveJob(j, r).at = "save" /\ SaveJob(j, r).item = j.item /\ SaveJob(j, r).copy = r
BY DEF SaveJob, Job

LEMMA OvertakenTyped ==
  ASSUME NEW j \in Job, NEW t, NEW r
  PROVE  /\ Overtaken(j, t, r) \in Job
         /\ Overtaken(j, t, r).at = j.at /\ Overtaken(j, t, r).case = j.case
         /\ Overtaken(j, t, r).item = j.item /\ Overtaken(j, t, r).copy = j.copy
BY DEF Overtaken, Job

\* What the handlers make of a row: its type, and where its completion time
\* comes from.
LEMMA UpdatesTyped ==
  ASSUME NEW r \in Row, NEW now \in Times \ {Never}, NEW q \in Updates(r, now)
  PROVE  /\ q \in Row
         /\ q.status = "done" /\ q.status # r.status => q.completedAt # Never
         /\ \/ q.completedAt = r.completedAt
            \/ q.completedAt = now /\ q.status = "done"
<1>1. CASE \E x \in Contents : q = [r EXCEPT !.content = x]
  BY <1>1 DEF Row
<1>2. ASSUME NEW s \in Statuses, NEW x \in Contents,
             q = [status |-> s, completedAt |-> Stamp(r, s, now), content |-> x]
      PROVE  /\ q \in Row
             /\ q.status = "done" => q.completedAt # Never
             /\ \/ q.completedAt = r.completedAt
                \/ q.completedAt = now /\ q.status = "done"
  <2>1. r.completedAt \in Times
    BY DEF Row
  <2>2. CASE s = "done" /\ r.completedAt = Never
    BY <1>2, <2>2 DEF Row, Stamp
  <2>3. CASE ~ (s = "done" /\ r.completedAt = Never)
    BY <1>2, <2>1, <2>3 DEF Row, Stamp
  <2> QED
    BY <2>2, <2>3
<1> QED
  BY <1>1, <1>2 DEF Updates

LEMMA CompletedTyped ==
  ASSUME NEW r \in Row, NEW now \in Times
  PROVE  /\ Completed(r, now) \in Row
         /\ Completed(r, now).status = "done" /\ Completed(r, now).completedAt = now
BY TaskAssumption DEF Completed, Row

\* A change with a row q that came from r: the row is typed, and sound if r is.
LEMMA ChangesTyped ==
  ASSUME TypeOK, NEW r \in Row,
         NEW q, q \in Updates(r, clock) \/ q = Completed(r, clock)
  PROVE  /\ q \in Row
         /\ Sound(r) => Sound(q)
         /\ q.completedAt = r.completedAt \/ q.status = "done"
<1>1. clock \in Times \ {Never} /\ clock \in Nat
  BY TaskBounds DEF TypeOK, Times
<1>2. CASE q = Completed(r, clock)
  BY <1>1, <1>2, CompletedTyped DEF Sound
<1>3. CASE q \in Updates(r, clock)
  <2>1. /\ q \in Row
        /\ q.status = "done" /\ q.status # r.status => q.completedAt # Never
        /\ q.completedAt = r.completedAt \/ (q.completedAt = clock /\ q.status = "done")
    BY <1>1, <1>3, UpdatesTyped
  <2> QED
    BY <1>1, <2>1 DEF Sound
<1> QED
  BY <1>2, <1>3

-----------------------------------------------------------------------------
\* The inductive invariant holds while there is no task.
THEOREM InitInv == Init => IInv
<1> SUFFICES ASSUME Init PROVE IInv
  OBVIOUS
<1>1. \A w \in Workers : work[w].at = "idle"
  BY IdleTyped DEF Init
<1>2. 1 \in Times \ {Never}
  BY TaskBounds DEF Times, Never
<1>3. TypeOK
  BY <1>2, IdleTyped DEF Init, TypeOK
<1> QED
  BY <1>1, <1>3 DEF Init, IInv, StoredHad, HadSound, InsertsSound, ChangesSound, SavesSound,
    ItemsHaveCase

\* The types, one action at a time.
LEMMA TypeStep ==
  TypeOK /\ InsertsSound /\ SavesSound /\ [Next]_vars => TypeOK'
<1> SUFFICES ASSUME TypeOK, InsertsSound, SavesSound, [Next]_vars PROVE TypeOK'
  OBVIOUS
<1>1. \A w \in Workers : work[w] \in Job /\ work[w].copy \in Row
  BY DEF TypeOK, Job
<1>2. ASSUME NEW w \in Workers, NEW j \in Job, Become(w, j)
      PROVE  work' \in [Workers -> Job]
  BY <1>2 DEF Become, TypeOK
<1>3. ASSUME Tick PROVE TypeOK'
  <2>1. clock' \in Times \ {Never}
    BY <1>3, TaskBounds DEF Tick, TypeOK, Times, Never
  <2> QED
    BY <1>3, <2>1 DEF Tick, TypeOK
<1>4. ASSUME NEW c \in Cases, CreateCase(c) PROVE TypeOK'
  BY <1>4 DEF CreateCase, TypeOK
<1>5. ASSUME NEW w \in Workers, NEW c \in Cases, NEW i \in Items, NEW x \in Contents,
             FindCase(w, c, i, x)
      PROVE  TypeOK'
  <2>1. work' \in [Workers -> Job]
    BY <1>2, <1>5, InsertJobTyped DEF FindCase
  <2> QED
    BY <1>5, <2>1 DEF FindCase, TypeOK
<1>6. ASSUME NEW w \in Workers, Inserts(w)
      PROVE  /\ stored' \subseteq Items /\ caseOf' \in [Items -> Cases \cup {Nothing}]
             /\ work' \in [Workers -> Job] /\ clock' = clock /\ cases' = cases
  <2>1. work[w].item \in Items /\ work[w].case \in Cases \cup {Nothing}
    BY <1>1, <1>6 DEF Inserts, InsertsSound, Job
  <2>2. work' \in [Workers -> Job]
    BY <1>2, <1>6, IdleTyped DEF Inserts
  <2> QED
    BY <1>6, <2>1, <2>2 DEF Inserts, TypeOK
<1>7. ASSUME NEW w \in Workers, InsertTask(w) PROVE TypeOK'
  <2>1. row' \in [Tasks -> Row] /\ had' \in [Tasks -> SUBSET Row]
    BY <1>1, <1>7 DEF InsertTask, TypeOK
  <2> QED
    BY <1>6, <1>7, <2>1 DEF InsertTask, TypeOK
<1>8. ASSUME NEW w \in Workers, InsertComment(w) PROVE TypeOK'
  BY <1>6, <1>8 DEF InsertComment, TypeOK
<1>9. ASSUME NEW w \in Workers, NEW t \in Tasks, ReadTask(w, t) PROVE TypeOK'
  <2>1. work' \in [Workers -> Job]
    BY <1>2, <1>9, ReadJobTyped DEF ReadTask, TypeOK
  <2> QED
    BY <1>9, <2>1 DEF ReadTask, TypeOK
<1>10. ASSUME NEW w \in Workers, UpdateTask(w) \/ CompleteTask(w) PROVE TypeOK'
  <2>1. PICK q : /\ q \in Updates(work[w].copy, clock) \/ q = Completed(work[w].copy, clock)
                 /\ Changed(w, q)
    BY <1>10 DEF UpdateTask, CompleteTask
  <2>2. q \in Row
    BY <1>1, <2>1, ChangesTyped
  <2>3. work' \in [Workers -> Job]
    BY <1>1, <1>2, <2>1, <2>2, SaveJobTyped DEF Changed
  <2> QED
    BY <2>1, <2>3 DEF Changed, TypeOK
<1>11. ASSUME NEW w \in Workers, SaveTask(w) PROVE TypeOK'
  <2>1. row' \in [Tasks -> Row] /\ had' \in [Tasks -> SUBSET Row]
    BY <1>1, <1>11 DEF SaveTask, Saved, TypeOK
  <2>2. work' \in [Workers -> Job]
    BY <1>1, <1>11, IdleTyped, OvertakenTyped DEF SaveTask, Saved
  <2> QED
    BY <1>11, <2>1, <2>2 DEF SaveTask, Saved, TypeOK
<1>12. ASSUME NEW w \in Workers, Fail(w) PROVE TypeOK'
  <2>1. work' \in [Workers -> Job]
    BY <1>2, <1>12, IdleTyped DEF Fail
  <2> QED
    BY <1>12, <2>1 DEF Fail, TypeOK
<1>13. CASE UNCHANGED vars
  BY <1>13 DEF vars, TypeOK
<1> QED
  BY <1>3, <1>4, <1>5, <1>7, <1>8, <1>9, <1>10, <1>11, <1>12, <1>13 DEF Next, Add, Change

-----------------------------------------------------------------------------
\* What a step may do to the tasks: nothing, the first row of one, or a row
\* that some worker was about to save.
Untouched == row' = row /\ had' = had /\ stored' \cap Tasks = stored \cap Tasks
Wrote(t, r) ==
  /\ row' = [row EXCEPT ![t] = r]
  /\ had' = [had EXCEPT ![t] = @ \cup {r}]
  /\ stored' = stored \cup {t}
  /\ \/ t \notin stored /\ r.status = "todo" /\ r.completedAt = Never
     \/ \E w \in Workers : work[w].at = "save" /\ work[w].item = t /\ work[w].copy = r

LEMMA StepsWrite ==
  ASSUME TypeOK, StoredHad, InsertsSound, SavesSound, [Next]_vars
  PROVE  Untouched \/ \E t \in Tasks : \E r \in Row : Wrote(t, r)
<1>1. \A w \in Workers : work[w] \in Job /\ work[w].copy \in Row
  BY DEF TypeOK, Job
<1>2. ASSUME NEW w \in Workers, InsertTask(w)
      PROVE  Wrote(work[w].item, work[w].copy) /\ work[w].item \in Tasks
  <2>1. /\ work[w].item \in Tasks \ stored
        /\ work[w].copy.status = "todo" /\ work[w].copy.completedAt = Never
    BY <1>2 DEF InsertTask, Inserts, InsertsSound
  <2>2. had[work[w].item] = {}
    BY <2>1 DEF StoredHad
  <2> QED
    BY <1>2, <2>1, <2>2 DEF InsertTask, Inserts, Wrote, TypeOK
<1>3. ASSUME NEW w \in Workers, SaveTask(w)
      PROVE  Wrote(work[w].item, work[w].copy) /\ work[w].item \in Tasks
  <2>1. work[w].item \in stored \cap Tasks
    BY <1>3 DEF SaveTask, Saved, SavesSound
  <2> QED
    BY <1>3, <2>1 DEF SaveTask, Saved, Wrote
<1>4. ASSUME NEW w \in Workers, InsertComment(w) PROVE Untouched
  BY <1>4, TaskAssumption DEF InsertComment, Inserts, Untouched
<1>5. CASE UNCHANGED <<row, had, stored>>
  BY <1>5 DEF Untouched
<1>6. ASSUME NEW w \in Workers, Add(w)
      PROVE  InsertTask(w) \/ InsertComment(w) \/ UNCHANGED <<row, had, stored>>
  BY <1>6 DEF Add, FindCase
<1>7. ASSUME NEW w \in Workers, Change(w)
      PROVE  SaveTask(w) \/ UNCHANGED <<row, had, stored>>
  BY <1>7 DEF Change, ReadTask, UpdateTask, CompleteTask, Changed
<1> QED
  BY <1>1, <1>2, <1>3, <1>4, <1>5, <1>6, <1>7 DEF Next, Tick, CreateCase, Fail, vars

LEMMA StoredStep ==
  TypeOK /\ StoredHad /\ InsertsSound /\ SavesSound /\ [Next]_vars => StoredHad'
<1> SUFFICES ASSUME TypeOK, StoredHad, InsertsSound, SavesSound, [Next]_vars, NEW u \in Tasks
             PROVE  (u \notin stored' => had'[u] = {}) /\ (u \in stored' => row'[u] \in had'[u])
  BY DEF StoredHad
<1>1. CASE Untouched
  BY <1>1 DEF Untouched, StoredHad
<1>2. ASSUME NEW t \in Tasks, NEW r \in Row, Wrote(t, r), u = t PROVE u \in stored' /\ row'[u] \in had'[u]
  BY <1>2 DEF Wrote, TypeOK
<1>3. ASSUME NEW t \in Tasks, NEW r \in Row, Wrote(t, r), u # t
      PROVE  row'[u] = row[u] /\ had'[u] = had[u] /\ (u \in stored' <=> u \in stored)
  BY <1>3 DEF Wrote, TypeOK
<1> QED
  BY <1>1, <1>2, <1>3, StepsWrite DEF StoredHad

\* Time does not go back, and no row is taken out of a history.
LEMMA NothingTakenBack ==
  ASSUME TypeOK, StoredHad, InsertsSound, SavesSound, [Next]_vars
  PROVE  /\ \A n \in Nat : n <= clock => n <= clock'
         /\ cases \subseteq cases' /\ stored \subseteq stored'
         /\ \A t \in Tasks : had[t] \subseteq had'[t]
<1>1. \A n \in Nat : n <= clock => n <= clock'
  <2>1. clock' = clock \/ clock' = clock + 1
    BY DEF Next, vars, Tick, CreateCase, Add, Change, FindCase, InsertTask, InsertComment, Inserts,
      ReadTask, UpdateTask, CompleteTask, Changed, SaveTask, Saved, Fail
  <2>2. clock \in Nat
    BY TaskBounds DEF TypeOK, Times
  <2> QED
    BY <2>1, <2>2
<1>2. cases \subseteq cases' /\ stored \subseteq stored'
  BY DEF Next, vars, Tick, CreateCase, Add, Change, FindCase, InsertTask, InsertComment, Inserts,
    ReadTask, UpdateTask, CompleteTask, Changed, SaveTask, Saved, Fail
<1>3. ASSUME NEW u \in Tasks PROVE had[u] \subseteq had'[u]
  BY StepsWrite DEF Untouched, Wrote, TypeOK
<1> QED
  BY <1>1, <1>2, <1>3

LEMMA SoundStays ==
  ASSUME TypeOK, StoredHad, InsertsSound, SavesSound, [Next]_vars
  PROVE  /\ \A r \in Row : Sound(r) => Sound(r)'
         /\ \A t \in Tasks : \A r \in Row : Genuine(t, r) => Genuine(t, r)'
<1>1. ASSUME NEW r \in Row PROVE Sound(r) => Sound(r)'
  <2>1. r.completedAt \in Nat
    BY TaskBounds DEF Row, Times
  <2> QED
    BY <2>1, NothingTakenBack DEF Sound
<1>2. ASSUME NEW t \in Tasks, NEW r \in Row PROVE Genuine(t, r) => Genuine(t, r)'
  BY NothingTakenBack DEF Genuine
<1> QED
  BY <1>1, <1>2

\* A row that is written is sound, or its completion time comes with it.
LEMMA HadStep ==
  TypeOK /\ StoredHad /\ HadSound /\ InsertsSound /\ SavesSound /\ [Next]_vars => HadSound'
<1> SUFFICES ASSUME TypeOK, StoredHad, HadSound, InsertsSound, SavesSound, [Next]_vars,
                    NEW u \in Tasks, NEW q \in had'[u]
             PROVE  Sound(q)' /\ (q.completedAt # Never => Genuine(u, q)')
  BY DEF HadSound, Sound, Genuine
<1>1. \A t \in Tasks : had[t] \subseteq Row
  BY DEF TypeOK
<1>2. CASE q \in had[u]
  <2>1. Sound(q) /\ (q.completedAt # Never => Genuine(u, q)) /\ q \in Row
    BY <1>1, <1>2 DEF HadSound
  <2> QED
    BY <2>1, SoundStays
<1>3. CASE q \notin had[u]
  <2>1. PICK t \in Tasks, r \in Row : Wrote(t, r)
    BY <1>3, StepsWrite DEF Untouched
  <2>2. Wrote(u, q) /\ q \in Row
    <3>1. \A v \in Tasks : had'[v] = IF v = t THEN had[v] \cup {r} ELSE had[v]
      BY <2>1 DEF Wrote, TypeOK
    <3>2. u = t /\ q = r
      BY <1>3, <3>1
    <3> QED
      BY <2>1, <3>2
  <2>3. CASE q.status = "todo" /\ q.completedAt = Never
    BY <2>3 DEF Sound
  <2>4. ASSUME NEW w \in Workers, work[w].at = "save", work[w].item = u, work[w].copy = q
        PROVE  Sound(q)' /\ (q.completedAt # Never => Genuine(u, q)')
    <3>1. Sound(q) /\ (q.completedAt # Never => q.status = "done" \/ Genuine(u, q))
      BY <2>4 DEF SavesSound
    <3>2. q.status = "done" => Genuine(u, q)'
      BY DEF Genuine
    <3> QED
      BY <2>2, <3>1, <3>2, SoundStays
  <2> QED
    BY <2>2, <2>3, <2>4 DEF Wrote
<1> QED
  BY <1>2, <1>3

-----------------------------------------------------------------------------
\* What a step may do to the job of a worker.
Stays(w) == /\ work'[w].at = work[w].at /\ work'[w].case = work[w].case
            /\ work'[w].item = work[w].item /\ work'[w].copy = work[w].copy
FindsCase(w) ==
  \E c \in Cases, i \in Items, x \in Contents :
    FindCase(w, c, i, x) /\ work'[w] = InsertJob(c, i, x)
Reads(w) ==
  /\ work'[w].at = "change" /\ work'[w].item \in stored \cap Tasks
  /\ work'[w].copy = row[work'[w].item]
Changes(w) ==
  /\ work[w].at = "change" /\ work'[w].at = "save" /\ work'[w].item = work[w].item
  /\ \/ work'[w].copy \in Updates(work[w].copy, clock)
     \/ work'[w].copy = Completed(work[w].copy, clock)

LEMMA JobsMove ==
  ASSUME TypeOK, [Next]_vars, NEW w \in Workers
  PROVE  Stays(w) \/ FindsCase(w) \/ Reads(w) \/ Changes(w) \/ work'[w].at = "idle"
<1>1. \A v \in Workers : work[v] \in Job /\ work[v].copy \in Row
  BY DEF TypeOK, Job
<1>2. ASSUME work'[w] = work[w] PROVE Stays(w)
  BY <1>2 DEF Stays
<1>3. ASSUME NEW v \in Workers, NEW j, Become(v, j), v # w PROVE Stays(w)
  BY <1>2, <1>3 DEF Become, TypeOK
<1>4. ASSUME NEW j, Become(w, j) PROVE work'[w] = j
  BY <1>4 DEF Become, TypeOK
<1>5. ASSUME NEW v \in Workers, Add(v)
      PROVE  Stays(w) \/ FindsCase(w) \/ work'[w].at = "idle"
  <2>1. ASSUME NEW c \in Cases, NEW i \in Items, NEW x \in Contents, FindCase(v, c, i, x)
        PROVE  Stays(w) \/ FindsCase(w)
    BY <1>3, <1>4, <2>1 DEF FindCase, FindsCase
  <2>2. CASE InsertTask(v) \/ InsertComment(v)
    BY <1>3, <1>4, <2>2, IdleTyped DEF InsertTask, InsertComment, Inserts
  <2> QED
    BY <1>5, <2>1, <2>2 DEF Add
<1>6. ASSUME NEW v \in Workers, NEW t \in Tasks, ReadTask(v, t)
      PROVE  Stays(w) \/ Reads(w)
  <2>1. CASE v # w
    BY <1>3, <1>6, <2>1 DEF ReadTask
  <2>2. CASE v = w
    <3>1. work'[w] = ReadJob(t, row[t]) /\ row[t] \in Row
      BY <1>4, <1>6, <2>2 DEF ReadTask, TypeOK
    <3> QED
      BY <1>6, <3>1, ReadJobTyped DEF ReadTask, Reads
  <2> QED
    BY <2>1, <2>2
<1>7. ASSUME NEW v \in Workers, UpdateTask(v) \/ CompleteTask(v)
      PROVE  Stays(w) \/ Changes(w)
  <2>1. PICK q : /\ q \in Updates(work[v].copy, clock) \/ q = Completed(work[v].copy, clock)
                 /\ Changed(v, q)
    BY <1>7 DEF UpdateTask, CompleteTask
  <2>2. CASE v # w
    BY <1>3, <2>1, <2>2 DEF Changed
  <2>3. CASE v = w
    <3>1. q \in Row
      BY <1>1, <2>1, ChangesTyped
    <3>2. work'[w] = SaveJob(work[w], q) /\ work[w].at = "change"
      BY <1>4, <2>1, <2>3 DEF Changed
    <3> QED
      BY <1>1, <2>1, <2>3, <3>1, <3>2, SaveJobTyped DEF Changes
  <2> QED
    BY <2>2, <2>3
<1>8. ASSUME NEW v \in Workers, SaveTask(v) PROVE Stays(w) \/ work'[w].at = "idle"
  BY <1>1, <1>8, IdleTyped, OvertakenTyped DEF SaveTask, Saved, Stays
<1>9. ASSUME NEW v \in Workers, Fail(v) PROVE Stays(w) \/ work'[w].at = "idle"
  BY <1>3, <1>4, <1>9, IdleTyped DEF Fail
<1>10. CASE Tick \/ (\E c \in Cases : CreateCase(c)) \/ UNCHANGED vars
  BY <1>2, <1>10 DEF Tick, CreateCase, vars
<1> QED
  BY <1>5, <1>6, <1>7, <1>8, <1>9, <1>10 DEF Next, Change

LEMMA ChangesStep ==
  TypeOK /\ StoredHad /\ InsertsSound /\ ChangesSound /\ SavesSound /\ [Next]_vars
    => ChangesSound'
<1> SUFFICES ASSUME TypeOK, StoredHad, InsertsSound, ChangesSound, SavesSound, [Next]_vars,
                    NEW w \in Workers, work'[w].at = "change"
             PROVE  work'[w].item \in stored' \cap Tasks /\ work'[w].copy \in had'[work'[w].item]
  BY DEF ChangesSound
<1>1. stored \subseteq stored' /\ \A t \in Tasks : had[t] \subseteq had'[t]
  BY NothingTakenBack
<1>2. CASE Stays(w)
  BY <1>1, <1>2 DEF Stays, ChangesSound
<1>3. CASE Reads(w)
  BY <1>1, <1>3 DEF Reads, StoredHad
<1>4. ~ FindsCase(w)
  BY InsertJobTyped DEF FindsCase
<1>5. ~ Changes(w)
  BY DEF Changes
<1> QED
  BY <1>2, <1>3, <1>4, <1>5, JobsMove

LEMMA SavesStep ==
  TypeOK /\ StoredHad /\ HadSound /\ InsertsSound /\ ChangesSound /\ SavesSound /\ [Next]_vars
    => SavesSound'
<1> SUFFICES ASSUME TypeOK, StoredHad, HadSound, InsertsSound, ChangesSound, SavesSound,
                    [Next]_vars, NEW w \in Workers, work'[w].at = "save",
                    NEW q, q = work'[w].copy, NEW t, t = work'[w].item
             PROVE  /\ t \in stored' \cap Tasks
                    /\ Sound(q)'
                    /\ q.completedAt # Never => q.status = "done" \/ Genuine(t, q)'
  BY DEF SavesSound, Sound, Genuine
<1>1. stored \subseteq stored'
  BY NothingTakenBack
<1>2. work[w].copy \in Row
  BY DEF TypeOK, Job
<1>3. CASE Stays(w)
  <2>1. /\ t \in stored \cap Tasks /\ q \in Row /\ Sound(q)
        /\ q.completedAt # Never => q.status = "done" \/ Genuine(t, q)
    BY <1>2, <1>3 DEF Stays, SavesSound
  <2> QED
    BY <1>1, <2>1, SoundStays
<1>4. CASE Changes(w)
  <2> DEFINE r == work[w].copy
  <2>1. t \in stored \cap Tasks /\ r \in had[t]
    BY <1>4 DEF Changes, ChangesSound
  <2>2. Sound(r) /\ (r.completedAt # Never => Genuine(t, r))
    BY <2>1 DEF HadSound
  <2>3. q \in Row /\ Sound(q) /\ (q.completedAt = r.completedAt \/ q.status = "done")
    BY <1>2, <1>4, <2>2, ChangesTyped DEF Changes
  <2>4. q.completedAt # Never => q.status = "done" \/ Genuine(t, q)
    BY <2>2, <2>3 DEF Genuine
  <2> QED
    BY <1>1, <2>1, <2>3, <2>4, SoundStays
<1>5. ~ FindsCase(w)
  BY InsertJobTyped DEF FindsCase
<1>6. ~ Reads(w)
  BY DEF Reads
<1> QED
  BY <1>3, <1>4, <1>5, <1>6, JobsMove

-----------------------------------------------------------------------------
\* An item is stored by the worker that was about to insert it.
LEMMA StoredByInsert ==
  ASSUME TypeOK, InsertsSound, [Next]_vars, NEW i \in stored' \ stored
  PROVE  \E v \in Workers : /\ Inserts(v) /\ work[v].item = i
                           /\ work'[v].at = "idle" /\ caseOf'[i] = work[v].case
<1>1. PICK v \in Workers : Inserts(v)
  BY DEF Next, vars, Tick, CreateCase, Add, Change, FindCase, InsertTask, InsertComment,
    ReadTask, UpdateTask, CompleteTask, Changed, SaveTask, Saved, Fail
<1>2. work[v].item = i
  BY <1>1 DEF Inserts
<1>3. i \in Items
  BY <1>1, <1>2 DEF InsertsSound, Inserts
<1> QED
  BY <1>1, <1>2, <1>3, IdleTyped DEF Inserts, Become, TypeOK

LEMMA InsertsStep ==
  TypeOK /\ StoredHad /\ InsertsSound /\ SavesSound /\ [Next]_vars => InsertsSound'
<1> SUFFICES ASSUME TypeOK, StoredHad, InsertsSound, SavesSound, [Next]_vars,
                    NEW w \in Workers, work'[w].at = "insert"
             PROVE  /\ work'[w].case \in cases' /\ work'[w].item \in Items \ stored'
                    /\ work'[w].copy.status = "todo" /\ work'[w].copy.completedAt = Never
                    /\ \A v \in Workers :
                         work'[v].at = "insert" /\ work'[v].item = work'[w].item => v = w
  BY DEF InsertsSound
<1>1. cases \subseteq cases'
  BY NothingTakenBack
<1>2. \A v \in Workers : work'[v].at = "insert" => Stays(v) \/ FindsCase(v)
  BY JobsMove DEF Reads, Changes
<1>3. ASSUME NEW v \in Workers, NEW c \in Cases, NEW i \in Items, NEW x \in Contents,
             FindCase(v, c, i, x), work'[v] = InsertJob(c, i, x)
      PROVE  /\ work'[v].case = c /\ work'[v].item = i /\ work'[v].copy = NewTask(x)
             /\ c \in cases' /\ i \notin stored'
             /\ \A u \in Workers \ {v} : work'[u].item # i
  <2>1. /\ work'[v].case = c /\ work'[v].item = i /\ work'[v].copy = NewTask(x)
    BY <1>3, InsertJobTyped
  <2>2. c \in cases' /\ i \notin stored'
    BY <1>3 DEF FindCase
  <2>3. \A u \in Workers \ {v} : work'[u].item # i
    BY <1>3 DEF FindCase, Become, TypeOK
  <2> QED
    BY <2>1, <2>2, <2>3
<1>4. CASE Stays(w)
  <2>1. /\ work[w].case \in cases /\ work[w].item \in Items \ stored
        /\ work[w].copy.status = "todo" /\ work[w].copy.completedAt = Never
    BY <1>4 DEF Stays, InsertsSound
  <2>2. work[w].item \notin stored'
    <3> SUFFICES ASSUME work[w].item \in stored' PROVE FALSE
      OBVIOUS
    <3>1. PICK v \in Workers : /\ Inserts(v) /\ work[v].item = work[w].item
                               /\ work'[v].at = "idle"
      BY <2>1, StoredByInsert
    <3>2. work[v].at = "insert" /\ work[w].at = "insert"
      BY <1>4, <3>1 DEF Inserts, Stays
    <3>3. v = w
      BY <3>1, <3>2 DEF InsertsSound
    <3> QED
      BY <3>1, <3>3
  <2>3. ASSUME NEW v \in Workers, work'[v].at = "insert", work'[v].item = work'[w].item, v # w
        PROVE  FALSE
    <3>1. CASE Stays(v)
      BY <1>4, <2>3, <3>1 DEF Stays, InsertsSound
    <3>2. CASE FindsCase(v)
      BY <1>3, <2>3, <3>2 DEF FindsCase
    <3> QED
      BY <1>2, <2>3, <3>1, <3>2
  <2> QED
    BY <1>1, <1>4, <2>1, <2>2, <2>3 DEF Stays
<1>5. CASE FindsCase(w)
  <2>1. PICK c \in Cases, i \in Items, x \in Contents :
          FindCase(w, c, i, x) /\ work'[w] = InsertJob(c, i, x)
    BY <1>5 DEF FindsCase
  <2>2. NewTask(x).status = "todo" /\ NewTask(x).completedAt = Never
    BY DEF NewTask
  <2> QED
    BY <1>3, <2>1, <2>2
<1> QED
  BY <1>2, <1>4, <1>5

\* Cases are not deleted, so the one that was looked up is still there.
LEMMA ItemsStep ==
  TypeOK /\ StoredHad /\ InsertsSound /\ SavesSound /\ ItemsHaveCase /\ [Next]_vars
    => ItemsHaveCase'
<1> SUFFICES ASSUME TypeOK, StoredHad, InsertsSound, SavesSound, ItemsHaveCase, [Next]_vars,
                    NEW i \in stored'
             PROVE  caseOf'[i] \in cases'
  BY DEF ItemsHaveCase
<1>1. cases \subseteq cases'
  BY NothingTakenBack
<1>2. CASE i \in stored
  <2>1. caseOf'[i] = caseOf[i]
    <3>1. ASSUME NEW v \in Workers, Inserts(v) PROVE caseOf'[i] = caseOf[i]
      <4>1. work[v].item # i
        BY <1>2, <3>1 DEF Inserts, InsertsSound
      <4> QED
        BY <1>2, <3>1, <4>1 DEF Inserts, TypeOK
    <3>2. (\E v \in Workers : Inserts(v)) \/ caseOf' = caseOf
      BY DEF Next, vars, Tick, CreateCase, Add, Change, FindCase, InsertTask, InsertComment,
        ReadTask, UpdateTask, CompleteTask, Changed, SaveTask, Saved, Fail
    <3> QED
      BY <3>1, <3>2
  <2> QED
    BY <1>1, <1>2, <2>1 DEF ItemsHaveCase
<1>3. CASE i \notin stored
  <2>1. PICK v \in Workers : Inserts(v) /\ caseOf'[i] = work[v].case
    BY <1>3, StoredByInsert
  <2> QED
    BY <1>1, <2>1 DEF Inserts, InsertsSound
<1> QED
  BY <1>2, <1>3

-----------------------------------------------------------------------------
LEMMA InvStep == IInv /\ [Next]_vars => IInv'
BY TypeStep, StoredStep, HadStep, InsertsStep, ChangesStep, SavesStep, ItemsStep DEF IInv

\* The handlers of tasks and comments keep the inductive invariant.
THEOREM Invariance == Spec => []IInv
BY InitInv, InvStep, PTL DEF Spec

\* The types of the tasks, the comments and the requests.
THEOREM TypesHold == Spec => []TypeOK
<1>1. IInv => TypeOK
  BY DEF IInv
<1> QED
  BY <1>1, Invariance, PTL

\* However requests cross, a completion time is one the task really had.
THEOREM CompletionTimesAreGenuine == Spec => []StampsSound
<1>1. IInv => StampsSound
  BY DEF IInv, StampsSound, StoredHad, HadSound, Sound, Genuine
<1> QED
  BY <1>1, Invariance, PTL

\* Every task and comment belongs to a case that has a row.
THEOREM NoOrphans == Spec => []ItemsHaveCase
<1>1. IInv => ItemsHaveCase
  BY DEF IInv
<1> QED
  BY <1>1, Invariance, PTL
-----------------------------------------------------------------------------
\* Row q has the completion time of r, or r has none, or q completes r.
KeepsTime(r, q) ==
  \/ r.completedAt = Never \/ q.completedAt = r.completedAt
  \/ r.completedAt <= q.completedAt /\ q = Completed(r, q.completedAt)

\* A worker that was not overtaken holds the stored row, or what becomes of it.
CopiesFresh ==
  \A w \in Workers : ~ work[w].overtaken =>
    /\ work[w].at = "change" => work[w].copy = row[work[w].item]
    /\ work[w].at = "save" => KeepsTime(row[work[w].item], work[w].copy)

LEMMA ChangesKeepTime ==
  ASSUME NEW r \in Row, NEW now, r.completedAt <= now,
         NEW q, q \in Updates(r, now) \/ q = Completed(r, now)
  PROVE  KeepsTime(r, q)
<1>1. CASE q = Completed(r, now)
  <2>1. q.completedAt = now
    BY <1>1 DEF Completed, Row
  <2> QED
    BY <1>1, <2>1 DEF KeepsTime
<1>2. CASE q \in Updates(r, now)
  BY <1>2 DEF Updates, Stamp, Row, KeepsTime
<1> QED
  BY <1>1, <1>2

LEMMA OvertakenBy ==
  ASSUME NEW j \in Job, NEW t, NEW r, ~ Overtaken(j, t, r).overtaken
  PROVE  /\ ~ j.overtaken
         /\ j.at \in {"change", "save"} /\ j.item = t => row[t] = r
BY DEF Overtaken, Job

\* A worker that is not overtaken by a step: its task keeps its row.
Undisturbed(w) ==
  /\ work[w].at \in {"change", "save"} /\ Stays(w) /\ ~ work[w].overtaken
  /\ row'[work[w].item] = row[work[w].item]

LEMMA FreshMove ==
  ASSUME TypeOK, InsertsSound, ChangesSound, SavesSound, [Next]_vars, NEW w \in Workers,
         work'[w].at \in {"change", "save"}, ~ work'[w].overtaken
  PROVE  \/ Undisturbed(w)
         \/ Reads(w) /\ row' = row
         \/ Changes(w) /\ ~ work[w].overtaken /\ row' = row
<1>1. \A v \in Workers : work[v] \in Job
  BY DEF TypeOK
<1>2. work[w].at \in {"change", "save"} => work[w].item \in stored \cap Tasks
  BY DEF ChangesSound, SavesSound
<1>3. ASSUME work'[w] = work[w], row' = row PROVE Undisturbed(w)
  BY <1>3 DEF Undisturbed, Stays
<1>4. ASSUME NEW v \in Workers, SaveTask(v) PROVE Undisturbed(w)
  <2>1. v # w
    BY <1>4, IdleTyped DEF SaveTask, Saved
  <2>2. work'[w] = Overtaken(work[w], work[v].item, work[v].copy)
    BY <1>4, <2>1 DEF SaveTask, Saved
  <2>3. /\ Stays(w) /\ ~ work[w].overtaken /\ work[w].at \in {"change", "save"}
        /\ work[w].item = work[v].item => row[work[v].item] = work[v].copy
    BY <1>1, <2>2, OvertakenTyped, OvertakenBy DEF Stays
  <2>4. row' = [row EXCEPT ![work[v].item] = work[v].copy]
    BY <1>4 DEF SaveTask, Saved
  <2> QED
    BY <1>2, <2>3, <2>4 DEF Undisturbed, TypeOK
<1>5. ASSUME NEW v \in Workers, InsertTask(v) PROVE Undisturbed(w)
  <2>1. v # w
    BY <1>5, IdleTyped DEF InsertTask, Inserts, Become, TypeOK
  <2>2. work'[w] = work[w]
    BY <1>5, <2>1 DEF InsertTask, Inserts, Become, TypeOK
  <2>3. work[v].item \notin stored
    BY <1>5 DEF InsertTask, Inserts, InsertsSound
  <2>4. row'[work[w].item] = row[work[w].item]
    BY <1>2, <1>5, <2>2, <2>3 DEF InsertTask, TypeOK
  <2> QED
    BY <2>2, <2>4 DEF Undisturbed, Stays
<1>6. ASSUME NEW v \in Workers, InsertComment(v) PROVE Undisturbed(w)
  BY <1>3, <1>6, IdleTyped DEF InsertComment, Inserts, Become, TypeOK
<1>7. ASSUME NEW v \in Workers, NEW c \in Cases, NEW i \in Items, NEW x \in Contents,
             FindCase(v, c, i, x)
      PROVE  Undisturbed(w)
  <2>1. work' = [work EXCEPT ![v] = InsertJob(c, i, x)] /\ row' = row
    BY <1>7 DEF FindCase, Become
  <2> QED
    BY <1>3, <2>1, InsertJobTyped DEF TypeOK
<1>8. ASSUME NEW v \in Workers, NEW t \in Tasks, ReadTask(v, t)
      PROVE  Undisturbed(w) \/ (Reads(w) /\ row' = row)
  <2>1. row' = row /\ t \in stored \cap Tasks /\ row[t] \in Row
    BY <1>8 DEF ReadTask, TypeOK
  <2>2. v # w => work'[w] = work[w]
    BY <1>8 DEF ReadTask, Become, TypeOK
  <2>3. v = w => work'[w] = ReadJob(t, row[t])
    BY <1>8 DEF ReadTask, Become, TypeOK
  <2> QED
    BY <1>3, <2>1, <2>2, <2>3, ReadJobTyped DEF Reads
<1>9. ASSUME NEW v \in Workers, UpdateTask(v) \/ CompleteTask(v)
      PROVE  Undisturbed(w) \/ (Changes(w) /\ ~ work[w].overtaken /\ row' = row)
  <2>1. PICK q : /\ q \in Updates(work[v].copy, clock) \/ q = Completed(work[v].copy, clock)
                 /\ Changed(v, q)
    BY <1>9 DEF UpdateTask, CompleteTask
  <2>2. row' = row /\ work[v].at = "change"
    BY <2>1 DEF Changed
  <2>3. CASE v # w
    BY <1>3, <2>1, <2>2, <2>3 DEF Changed, Become, TypeOK
  <2>4. CASE v = w
    <3>1. q \in Row
      BY <1>1, <2>1, ChangesTyped DEF Job
    <3>2. work'[w] = SaveJob(work[w], q)
      BY <2>1, <2>4 DEF Changed, Become, TypeOK
    <3>3. SaveJob(work[w], q).overtaken = work[w].overtaken
      BY <1>1 DEF SaveJob, Job
    <3> QED
      BY <1>1, <2>1, <2>2, <2>4, <3>1, <3>2, <3>3, SaveJobTyped DEF Changes
  <2> QED
    BY <2>3, <2>4
<1>10. ASSUME NEW v \in Workers, Fail(v) PROVE Undisturbed(w)
  BY <1>3, <1>10, IdleTyped DEF Fail, Become, TypeOK
<1>11. CASE Tick \/ (\E c \in Cases : CreateCase(c)) \/ UNCHANGED vars
  BY <1>3, <1>11 DEF Tick, CreateCase, vars
<1> QED
  BY <1>4, <1>5, <1>6, <1>7, <1>8, <1>9, <1>10, <1>11 DEF Next, Add, Change

LEMMA FreshStep == IInv /\ CopiesFresh /\ [Next]_vars => CopiesFresh'
<1> SUFFICES ASSUME IInv, CopiesFresh, [Next]_vars, NEW w \in Workers, ~ work'[w].overtaken
             PROVE  /\ work'[w].at = "change" => work'[w].copy = row'[work'[w].item]
                    /\ work'[w].at = "save" =>
                         KeepsTime(row'[work'[w].item], work'[w].copy)
  BY DEF CopiesFresh
<1>1. CASE Undisturbed(w)
  BY <1>1 DEF Undisturbed, Stays, CopiesFresh
<1>2. CASE Reads(w) /\ row' = row
  BY <1>2 DEF Reads
<1>3. CASE Changes(w) /\ ~ work[w].overtaken /\ row' = row
  <2> DEFINE t == work[w].item
             r == row[t]
             q == work'[w].copy
  <2>1. work[w].copy = r /\ t \in stored \cap Tasks
    BY <1>3 DEF Changes, CopiesFresh, IInv, ChangesSound
  <2>2. r \in Row /\ Sound(r)
    BY <2>1 DEF IInv, TypeOK, StoredHad, HadSound
  <2>3. clock \in Nat /\ clock # Never /\ r.completedAt \in Nat
    BY <2>2, TaskBounds DEF IInv, TypeOK, Times, Row
  <2>4. r.completedAt <= clock
    BY <2>2, <2>3 DEF Sound, Never
  <2>5. KeepsTime(r, q)
    BY <1>3, <2>1, <2>2, <2>4, ChangesKeepTime DEF Changes
  <2> QED
    BY <1>3, <2>5 DEF Changes
<1> QED
  BY <1>1, <1>2, <1>3, FreshMove DEF IInv

\* A completion time changes only by a completion or by a late save.
LEMMA KeptStep == IInv /\ CopiesFresh /\ [Next]_vars => StampKept
<1> SUFFICES ASSUME IInv, CopiesFresh, [Next]_vars, NEW t \in stored \cap Tasks,
                    row[t].completedAt # Never, row'[t].completedAt # row[t].completedAt
             PROVE  \/ CompletedAgain(t)
                    \/ \E w \in Workers : /\ work[w].at = "save" /\ work'[w].at = "idle"
                                          /\ work[w].item = t /\ work[w].overtaken
  BY DEF StampKept
<1>1. /\ \A w \in Workers : work[w] \in Job
      /\ row \in [Tasks -> Row]
  BY DEF IInv, TypeOK
<1>2. row'[t] # row[t]
  OBVIOUS
<1>3. ASSUME NEW w \in Workers, InsertTask(w) PROVE FALSE
  BY <1>1, <1>2, <1>3 DEF InsertTask, Inserts, IInv, InsertsSound
<1>4. PICK w \in Workers : SaveTask(w)
  BY <1>2, <1>3 DEF Next, vars, Tick, CreateCase, Add, Change, FindCase, InsertComment,
    ReadTask, UpdateTask, CompleteTask, Changed, Fail
<1>5. work[w].at = "save" /\ work'[w].at = "idle"
  BY <1>4, IdleTyped DEF SaveTask, Saved
<1>6. row' = [row EXCEPT ![work[w].item] = work[w].copy]
  BY <1>4 DEF SaveTask, Saved
<1>7. work[w].item = t /\ row'[t] = work[w].copy
  BY <1>1, <1>2, <1>6
<1>8. CASE ~ work[w].overtaken
  <2>1. KeepsTime(row[t], row'[t])
    BY <1>5, <1>7, <1>8 DEF CopiesFresh
  <2>2. row[t].completedAt \in Nat /\ row'[t].completedAt \in Nat
    BY <1>1, <1>7, TaskBounds DEF Job, Row, Times
  <2> QED
    BY <2>1, <2>2 DEF KeepsTime, CompletedAgain
<1> QED
  BY <1>5, <1>7, <1>8

\* CompleteTask and late saves aside, nothing takes or changes a completion time.
THEOREM CompletionsAreKept == Spec => CompletionKept
<1>1. Init => CopiesFresh
  BY IdleTyped DEF Init, CopiesFresh
<1> QED
  BY <1>1, FreshStep, KeptStep, Invariance, PTL DEF Spec, CompletionKept
=============================================================================
