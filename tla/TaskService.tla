----------------------------- MODULE TaskService -----------------------------
(***************************************************************************)
(* Tasks and comments of a case (taskService, AddComment and their MySQL   *)
(* repositories).  An item is inserted after a look at its case, without a *)
(* foreign key.  A task is read, changed in memory and saved whole (gorm   *)
(* Save), with no lock and no version check.  Nothing is ever deleted.     *)
(* Handlers run concurrently; a worker is one goroutine at a time.         *)
(***************************************************************************)
EXTENDS Naturals, FiniteSets

CONSTANTS
  Workers,   \* goroutines that serve requests
  Cases,     \* identities of cases
  Tasks,     \* bound: the task ids (fresh uuids)
  Comments,  \* bound: the comment ids (fresh uuids)
  Statuses,  \* values a request may name as a status: the handler takes any
  Contents,  \* values of the other columns: title, description, assignee
  Nothing,   \* the case and the item of an idle worker
  MaxTime,   \* bound: the clock stops here
  MaxValues  \* bound on the rows one task has had

ASSUME TaskAssumption ==
  /\ {"todo", "done"} \subseteq Statuses
  /\ Contents # {}
  /\ Nothing \notin Cases \cup Tasks \cup Comments
  /\ Tasks \cap Comments = {}
ASSUME TaskBounds == MaxTime \in Nat \ {0} /\ MaxValues \in Nat

\* Times are ticks from 1; 0 stands for a NULL completion time.
Never == 0
Times == 0 .. MaxTime

VARIABLES
  clock,   \* the time of the hosts
  cases,   \* cases that have a row
  stored,  \* tasks and comments that have a row
  caseOf,  \* caseOf[i]: the case in the row of item i
  row,     \* row[t]: the columns of task t a request may change
  work,    \* work[w]: the step worker w is about to take, what it holds
  had      \* history: the rows task t has had

vars == <<clock, cases, stored, caseOf, row, work, had>>

Items == Tasks \cup Comments
Row == [status : Statuses, completedAt : Times, content : Contents]

\* overtaken: history, the task was changed after the worker read it.
Job == [at : {"idle", "insert", "change", "save"}, case : Cases \cup {Nothing},
        item : Items \cup {Nothing}, copy : Row, overtaken : BOOLEAN]

TypeOK ==
  /\ clock \in Times \ {Never}
  /\ cases \subseteq Cases
  /\ stored \subseteq Items
  /\ caseOf \in [Items -> Cases \cup {Nothing}]
  /\ row \in [Tasks -> Row]
  /\ work \in [Workers -> Job]
  /\ had \in [Tasks -> SUBSET Row]

\* The row CreateTask builds.
NewTask(x) == [status |-> "todo", completedAt |-> Never, content |-> x]

NoRow == NewTask(CHOOSE x \in Contents : TRUE)
Idle == [at |-> "idle", case |-> Nothing, item |-> Nothing, copy |-> NoRow, overtaken |-> FALSE]

Init ==
  /\ clock = 1
  /\ cases = {}
  /\ stored = {}
  /\ caseOf = [i \in Items |-> Nothing]
  /\ row = [t \in Tasks |-> NoRow]
  /\ work = [w \in Workers |-> Idle]
  /\ had = [t \in Tasks |-> {}]

-----------------------------------------------------------------------------
Become(w, job) == work' = [work EXCEPT ![w] = job]

Tick ==
  /\ clock < MaxTime
  /\ clock' = clock + 1
  /\ UNCHANGED <<cases, stored, caseOf, row, work, had>>

\* CreateCase of the case service, as far as its items can tell.
CreateCase(c) ==
  /\ cases' = cases \cup {c}
  /\ UNCHANGED <<clock, stored, caseOf, row, work, had>>

InsertJob(c, i, x) == [Idle EXCEPT !.at = "insert", !.case = c, !.item = i, !.copy = NewTask(x)]

\* POST /cases/{id}/tasks and /comments: the case is looked up (404 when it
\* has no row) and an item with an id of its own is built.
FindCase(w, c, i, x) ==
  /\ work[w].at = "idle"
  /\ c \in cases
  /\ i \notin stored /\ \A v \in Workers : work[v].item # i
  /\ Become(w, InsertJob(c, i, x))
  /\ UNCHANGED <<clock, cases, stored, caseOf, row, had>>

Inserts(w) ==
  /\ work[w].at = "insert"
  /\ stored' = stored \cup {work[w].item}
  /\ caseOf' = [caseOf EXCEPT ![work[w].item] = work[w].case]
  /\ Become(w, Idle)
  /\ UNCHANGED <<clock, cases>>

\* taskRepo.Create; the row of a task starts as "todo".
InsertTask(w) ==
  LET t == work[w].item IN
  /\ t \in Tasks
  /\ Inserts(w)
  /\ row' = [row EXCEPT ![t] = work[w].copy]
  /\ had' = [had EXCEPT ![t] = {work[w].copy}]

\* commentRepo.Create; no request changes a comment.
InsertComment(w) ==
  /\ work[w].item \in Comments
  /\ Inserts(w)
  /\ UNCHANGED <<row, had>>

-----------------------------------------------------------------------------
ReadJob(t, r) == [Idle EXCEPT !.at = "change", !.item = t, !.copy = r]
SaveJob(job, r) == [job EXCEPT !.at = "save", !.copy = r]

\* taskRepo.FindByID, the first call of both handlers that change a task.
ReadTask(w, t) ==
  /\ work[w].at = "idle"
  /\ t \in stored \cap Tasks
  /\ Become(w, ReadJob(t, row[t]))
  /\ UNCHANGED <<clock, cases, stored, caseOf, row, had>>

\* Mutants: a status is stored without its completion time; a task that
\* leaves "done" loses the time it was completed.
StampForgotten(r, s, now) == r.completedAt
StampFollowsStatus(r, s, now) ==
  IF s # "done" THEN Never ELSE IF r.completedAt = Never THEN now ELSE r.completedAt

\* The completion time UpdateTask leaves when status s is asked for: set when
\* there is none, kept otherwise, also by a task that is not done any more.
Stamp(r, s, now) == IF s = "done" /\ r.completedAt = Never THEN now ELSE r.completedAt

\* What UpdateTask may make of the row it read: columns without a value in
\* the request keep theirs.
Updates(r, now) ==
  {[r EXCEPT !.content = x] : x \in Contents} \cup
  {[status |-> s, completedAt |-> Stamp(r, s, now), content |-> x] :
     s \in Statuses, x \in Contents}

\* What CompleteTask makes of it: the time is new even if there was one.
Completed(r, now) == [r EXCEPT !.status = "done", !.completedAt = now]

Changed(w, r) ==
  /\ work[w].at = "change"
  /\ Become(w, SaveJob(work[w], r))
  /\ UNCHANGED <<clock, cases, stored, caseOf, row, had>>

UpdateTask(w) == \E r \in Updates(work[w].copy, clock) : Changed(w, r)

CompleteTask(w) == Changed(w, Completed(work[w].copy, clock))

\* Whoever read another row than the one stored now, r, is overtaken.
Overtaken(job, t, r) ==
  [job EXCEPT !.overtaken =
     @ \/ (job.at \in {"change", "save"} /\ job.item = t /\ row[t] # r)]

\* The end of a request that leaves r as the row of its task.
Saved(w, r) ==
  LET t == work[w].item IN
  /\ work[w].at = "save"
  /\ Cardinality(had[t] \cup {r}) <= MaxValues
  /\ row' = [row EXCEPT ![t] = r]
  /\ had' = [had EXCEPT ![t] = @ \cup {r}]
  /\ work' = [v \in Workers |->
                IF v = w THEN Idle ELSE Overtaken(work[v], t, r)]
  /\ UNCHANGED <<clock, cases, stored, caseOf>>

\* taskRepo.Update: gorm Save writes every column of the copy.
SaveTask(w) == Saved(w, work[w].copy)

\* A database error, a cancelled request, the end of the process.  A call
\* that took effect although its answer was lost has the steps above.
Fail(w) ==
  /\ work[w].at # "idle"
  /\ Become(w, Idle)
  /\ UNCHANGED <<clock, cases, stored, caseOf, row, had>>

Add(w) ==
  \/ \E c \in Cases, i \in Items, x \in Contents : FindCase(w, c, i, x)
  \/ InsertTask(w)
  \/ InsertComment(w)

Change(w) ==
  \/ \E t \in Tasks : ReadTask(w, t)
  \/ UpdateTask(w) \/ CompleteTask(w) \/ SaveTask(w)

Next ==
  \/ Tick
  \/ \E c \in Cases : CreateCase(c)
  \/ \E w \in Workers : Add(w) \/ Change(w) \/ Fail(w)

Spec == Init /\ [][Next]_vars

-----------------------------------------------------------------------------
\* Whatever requests cross, a task that is done has a completion time, and a
\* completion time, which outlives a reopening, is never in the future and
\* always one the task had while it was done.
StampsSound ==
  \A t \in stored \cap Tasks :
    /\ row[t].status = "done" => row[t].completedAt # Never
    /\ row[t].completedAt # Never =>
         /\ row[t].completedAt <= clock
         /\ \E r \in had[t] : r.status = "done" /\ r.completedAt = row[t].completedAt

\* Nothing takes a completion time away or gives the task another but a
\* completion of the task as it is, which makes the time later, and the save of
\* a request that read the task before it was changed.  The code lets both
\* happen where the documents do not: a task that is done already can be
\* completed again (contracts/workflow.yaml:572-582 says 400), and a late save
\* undoes a completion (docs/api-conventions.md:169 says 409).  An update never
\* touches a completion time it read, also when it reopens the task.
CompletedAgain(t) ==
  /\ row[t].completedAt < row'[t].completedAt
  /\ row'[t] = Completed(row[t], row'[t].completedAt)
StampKept ==
  \A t \in stored \cap Tasks :
    row[t].completedAt # Never /\ row'[t].completedAt # row[t].completedAt =>
      \/ CompletedAgain(t)
      \/ \E w \in Workers : /\ work[w].at = "save" /\ work'[w].at = "idle"
                            /\ work[w].item = t /\ work[w].overtaken
CompletionKept == [][StampKept]_vars

\* Without foreign keys the look at the case is what keeps items from cases
\* that are not there: every stored item has a stored case.
ItemsHaveCase == \A i \in stored : caseOf[i] \in cases
=============================================================================
