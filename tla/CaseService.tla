---------------------------- MODULE CaseService ----------------------------
(***************************************************************************)
(* The case handlers of the workflow service (caseService and its MySQL    *)
(* repository): create, get, update, assign and transition.                *)
(*                                                                         *)
(* Every handler reads the whole case row into memory, changes the copy    *)
(* and saves the whole row back, with no lock and no version check between *)
(* (gorm Save writes every column).  Each database call, and the reading   *)
(* of the clock, is an action of its own, so the handlers interleave the   *)
(* way goroutines and replicas do.  A worker is one goroutine at a time.   *)
(***************************************************************************)
EXTENDS Naturals, FiniteSets

CONSTANTS
  Workers,    \* goroutines that serve requests
  Cases,      \* identities of cases (uuid.NewString)
  Statuses,   \* values a request may name as a status: the handler takes any
  Edges,      \* transitions of the workflow template, pairs <<from, to>>
  SLATicks,   \* SLAHours of the template, 0 when it sets no SLA
  Contents,   \* values of the columns nothing below depends on: title,
              \* description, priority, tags, assignee
  MaxTime,    \* bound: the clock stops here
  MaxMoves    \* bound: transitions that may be saved

ASSUME StatusAssumption ==
  /\ {"new", "resolved", "closed"} \subseteq Statuses
  /\ "absent" \notin Statuses
  /\ Edges \subseteq Statuses \X Statuses
  /\ Contents # {} /\ Cases # {}
ASSUME BoundAssumption == SLATicks \in Nat /\ MaxTime \in Nat /\ MaxMoves \in Nat

\* Times are ticks from 1; 0 stands for a NULL time column.
Never == 0

\* templated: workflow_id is set.  resolvedAt, closedAt: the column is not NULL.
Row == [status : Statuses, templated : BOOLEAN, dueAt : Nat, breached : BOOLEAN,
        resolvedAt : BOOLEAN, closedAt : BOOLEAN, content : Contents]

MoveRecord == [case : Cases, from : Statuses, to : Statuses, checked : BOOLEAN]

\* "edit" is PUT /cases/{id} and POST /cases/{id}/assign.
Ops == {"create", "get", "edit", "transition"}

VARIABLES
  clock,     \* the time of the hosts
  stored,    \* cases that have a row
  row,       \* row[c]: the row of c, meaningful when c is stored
  log,       \* rows of case_transitions
  pc,        \* pc[w]: the next step of worker w
  op,        \* op[w]: the operation w serves
  target,    \* target[w]: the case it is about
  copy,      \* copy[w]: the case in w's memory
  move,      \* move[w]: the transition w is applying
  moves      \* history: every transition whose save succeeded

vars == <<clock, stored, row, log, pc, op, target, copy, move, moves>>
workerVars == <<pc, op, target, copy, move>>
storeVars == <<stored, row, log, moves>>

\* Mutant: a case is opened as soon as it is created.
NewRowOpen(templated, due, x) ==
  [status |-> "open", templated |-> templated, dueAt |-> due, breached |-> FALSE,
   resolvedAt |-> FALSE, closedAt |-> FALSE, content |-> x]

NewRow(templated, due, x) ==
  [status |-> "new", templated |-> templated, dueAt |-> due, breached |-> FALSE,
   resolvedAt |-> FALSE, closedAt |-> FALSE, content |-> x]

TypeOK ==
  /\ clock \in Nat \ {0}
  /\ stored \subseteq Cases
  /\ row \in [Cases -> Row]
  /\ log \subseteq MoveRecord
  /\ pc \in [Workers -> {"idle", "insert", "change", "save", "record"}]
  /\ op \in [Workers -> Ops]
  /\ target \in [Workers -> Cases]
  /\ copy \in [Workers -> Row]
  /\ move \in [Workers -> MoveRecord]
  /\ moves \subseteq MoveRecord

\* What the memory of an idle worker holds does not matter.
SomeCase == CHOOSE c \in Cases : TRUE
NoCopy == NewRow(FALSE, Never, CHOOSE x \in Contents : TRUE)
NoMove == [case |-> SomeCase, from |-> "new", to |-> "new", checked |-> TRUE]

Init ==
  /\ clock = 1
  /\ stored = {}
  /\ row = [c \in Cases |-> NoCopy]
  /\ log = {} /\ moves = {}
  /\ pc = [w \in Workers |-> "idle"]
  /\ op = [w \in Workers |-> "get"]
  /\ target = [w \in Workers |-> SomeCase]
  /\ copy = [w \in Workers |-> NoCopy]
  /\ move = [w \in Workers |-> NoMove]

-----------------------------------------------------------------------------
\* Worker w goes on to step l with the copy r in memory.
Continue(w, l, r) ==
  /\ pc' = [pc EXCEPT ![w] = l]
  /\ copy' = [copy EXCEPT ![w] = r]

\* Worker w answers its request; what it had in memory is gone.
Reply(w) ==
  /\ pc' = [pc EXCEPT ![w] = "idle"]
  /\ op' = [op EXCEPT ![w] = "get"]
  /\ target' = [target EXCEPT ![w] = SomeCase]
  /\ copy' = [copy EXCEPT ![w] = NoCopy]
  /\ move' = [move EXCEPT ![w] = NoMove]

\* The deadline of a case created now, when the template was found or not.
Deadline(found) == IF found /\ SLATicks > 0 THEN clock + SLATicks ELSE Never

\* POST /cases up to the INSERT: the number is drawn (see CaseCounter), now is
\* taken, and the deadline comes from the template when one is named, it is
\* found and sets an SLA.  A failing lookup is ignored: no deadline then.
StartCreate(w, c) ==
  /\ pc[w] = "idle"
  /\ c \notin stored
  /\ \A v \in Workers : ~ (pc[v] = "insert" /\ target[v] = c)
  /\ \E templated, found \in BOOLEAN, x \in Contents :
       /\ found => templated
       /\ Continue(w, "insert", NewRow(templated, Deadline(found), x))
  /\ op' = [op EXCEPT ![w] = "create"]
  /\ target' = [target EXCEPT ![w] = c]
  /\ UNCHANGED <<clock, move>> /\ UNCHANGED storeVars

\* caseRepo.Create, then 201.
InsertRow(w) ==
  /\ pc[w] = "insert"
  /\ stored' = stored \cup {target[w]}
  /\ row' = [row EXCEPT ![target[w]] = copy[w]]
  /\ Reply(w)
  /\ UNCHANGED <<clock, log, moves>>

\* caseRepo.FindByID, the first call of every handler of an existing case.
ReadRow(w, o, c) ==
  /\ pc[w] = "idle"
  /\ c \in stored /\ o # "create"
  /\ Continue(w, "change", row[c])
  /\ op' = [op EXCEPT ![w] = o]
  /\ target' = [target EXCEPT ![w] = c]
  /\ UNCHANGED <<clock, move>> /\ UNCHANGED storeVars

Overdue(r) == r.dueAt # Never /\ clock > r.dueAt
Flagged(r) == [r EXCEPT !.breached = TRUE]

\* Mutant: the flag is set without a look at the clock.
ChangeGetEarly(w) ==
  /\ pc[w] = "change" /\ op[w] = "get"
  /\ IF copy[w].dueAt # Never /\ ~ copy[w].breached
     THEN /\ Continue(w, "save", Flagged(copy[w]))
          /\ UNCHANGED <<op, target, move>>
     ELSE Reply(w)
  /\ UNCHANGED clock /\ UNCHANGED storeVars

\* GetCase: a read that writes.  An overdue case not yet flagged is flagged
\* in memory and saved whole; any other is returned as it was read.
ChangeGet(w) ==
  /\ pc[w] = "change" /\ op[w] = "get"
  /\ IF Overdue(copy[w]) /\ ~ copy[w].breached
     THEN /\ Continue(w, "save", Flagged(copy[w]))
          /\ UNCHANGED <<op, target, move>>
     ELSE Reply(w)
  /\ UNCHANGED clock /\ UNCHANGED storeVars

Edited(r, x) == [r EXCEPT !.content = x]

\* UpdateCase and AssignCase: columns without a rule of their own are set.
ChangeContent(w) ==
  /\ pc[w] = "change" /\ op[w] = "edit"
  /\ \E x \in Contents : Continue(w, "save", Edited(copy[w], x))
  /\ UNCHANGED <<clock, op, target, move>> /\ UNCHANGED storeVars

\* The copy after TransitionCase took now and set status, stamps and breach.
Transitioned(r, to) ==
  [r EXCEPT !.status = to,
            !.resolvedAt = @ \/ to = "resolved",
            !.closedAt = @ \/ to = "closed",
            !.breached = @ \/ Overdue(r)]

\* Mutant: the edges of the template are read but not consulted.
NoEdgeCheck(from, to, asked) == from = to

\* A transition is not applied when it leads nowhere, or when the template was
\* asked and has no such edge.
NotApplied(from, to, asked) == from = to \/ (asked /\ <<from, to>> \notin Edges)

\* TransitionCase up to the save.  The same status answers at once; a template
\* that is attached and can be read must have the edge, or the request is
\* refused; a template that is not attached or whose lookup fails is not asked.
ChangeTransition(w, to, asked) ==
  LET from == copy[w].status IN
  /\ pc[w] = "change" /\ op[w] = "transition"
  /\ asked => copy[w].templated
  /\ IF NotApplied(from, to, asked)
     THEN Reply(w)
     ELSE /\ Cardinality(moves) < MaxMoves
          /\ Continue(w, "save", Transitioned(copy[w], to))
          /\ move' = [move EXCEPT ![w] =
               [case |-> target[w], from |-> from, to |-> to, checked |-> asked]]
          /\ UNCHANGED <<op, target>>
  /\ UNCHANGED clock /\ UNCHANGED storeVars

\* The end of a save by w after which the row of its case is r, and the
\* transition, if it is one, was applied or not.
Saved(w, r, applied) ==
  /\ pc[w] = "save"
  /\ row' = [row EXCEPT ![target[w]] = r]
  /\ IF op[w] = "transition"
     THEN /\ moves' = IF applied THEN moves \cup {move[w]} ELSE moves
          /\ pc' = [pc EXCEPT ![w] = "record"]
          /\ UNCHANGED <<op, target, copy, move>>
     ELSE /\ Reply(w)
          /\ UNCHANGED moves
  /\ UNCHANGED <<clock, stored, log>>

\* Mutants: only the status column is written; the error of a failed save is
\* dropped and the transition recorded all the same.
SaveStatusColumn(w) == Saved(w, [row[target[w]] EXCEPT !.status = copy[w].status], TRUE)
SaveIgnoringError(w) == Saved(w, copy[w], TRUE) \/ Saved(w, row[target[w]], FALSE)

\* caseRepo.Update: the whole copy replaces the row, whatever is in it now.
SaveRow(w) == Saved(w, copy[w], TRUE)

\* caseRepo.RecordTransition, in no transaction with the save before it.
RecordTransition(w) ==
  /\ pc[w] = "record"
  /\ log' = log \cup {move[w]}
  /\ Reply(w)
  /\ UNCHANGED <<clock, stored, row, moves>>

\* A request ends early: invalid input, a database error (logged and ignored
\* in RecordTransition and GetCase), or the process dies between two calls.
Fail(w) ==
  /\ pc[w] # "idle"
  /\ Reply(w)
  /\ UNCHANGED clock /\ UNCHANGED storeVars

Tick ==
  /\ clock < MaxTime
  /\ clock' = clock + 1
  /\ UNCHANGED workerVars /\ UNCHANGED storeVars

Step(w) ==
  \/ InsertRow(w) \/ ChangeGet(w) \/ ChangeContent(w)
  \/ \E to \in Statuses, asked \in BOOLEAN : ChangeTransition(w, to, asked)
  \/ SaveRow(w) \/ RecordTransition(w)

Accept(w) ==
  \E c \in Cases : StartCreate(w, c) \/ \E o \in Ops : ReadRow(w, o, c)

Next == Tick \/ \E w \in Workers : Accept(w) \/ Step(w) \/ Fail(w)

Spec == Init /\ [][Next]_vars

-----------------------------------------------------------------------------
StatusesHeld(c) ==
  (IF c \in stored THEN {"new"} ELSE {}) \cup {m.to : m \in {n \in moves : n.case = c}}
Unvalidated == {m.case : m \in {n \in moves : ~ n.checked}}

Lifecycle == INSTANCE CaseLifecycle WITH
  status <- [c \in Cases |-> IF c \in stored THEN row[c].status ELSE "absent"],
  held <- [c \in Cases |-> StatusesHeld(c)],
  unchecked <- Unvalidated

\* The handlers implement the life cycle: a status comes from creation, from a
\* transition out of a status the case has held, or from a stale save that
\* brings back one of those; nothing else reaches the status column.
ImplementsLifecycle == Lifecycle!LifecycleSpec

\* While the template was asked about every transition of a case, its status
\* can be reached from "new" along template edges, stale saves or not: it is
\* in every set of statuses that holds "new" and is closed under the edges.
StatusReachable ==
  \A c \in stored \ Unvalidated : \A S \in SUBSET Statuses :
    "new" \in S /\ (\A e \in Edges : e[1] \in S => e[2] \in S) => row[c].status \in S

\* The SLA of a case is flagged as breached only after its deadline, in the
\* row and in every copy a handler may still save.
BreachedOnlyWhenOverdue ==
  \A c \in stored : row[c].breached => Overdue(row[c])

\* A resolved case has its resolution time and a closed case its closing time.
\* The stamps and the status are set in memory and saved in one write, so a
\* stale save, which may undo both, cannot part them.
StatusStamped ==
  \A c \in stored :
    /\ row[c].status = "resolved" => row[c].resolvedAt
    /\ row[c].status = "closed" => row[c].closedAt

\* The history of a case names only transitions that were applied to its row:
\* a transition is recorded after its save, never for one that failed.
HistoryWasApplied == log \subseteq moves

\* Once a case is stored, no handler moves its SLA deadline or detaches its
\* workflow: the copies that are saved carry both on from the row.
DeadlineKept ==
  \A c \in stored : /\ row'[c].dueAt = row[c].dueAt
                    /\ row'[c].templated = row[c].templated
DeadlineFixed == [][DeadlineKept]_vars
=============================================================================
