------------------------- MODULE CaseServiceProofs -------------------------
(***************************************************************************)
(* What holds of the case handlers for any number of workers and cases,    *)
(* any statuses, template and SLA.  CaseService.tla has the properties.    *)
(***************************************************************************)
EXTENDS CaseService, TLAPS

\* Worker w holds a copy of a stored row that it may still save.
HoldsCopy(w) == pc[w] \in {"change", "save"}

LEMMA DefaultsTyped ==
  /\ SomeCase \in Cases
  /\ NoCopy \in Row
  /\ NoMove \in MoveRecord
<1>1. SomeCase \in Cases
  BY StatusAssumption DEF SomeCase
<1>2. (CHOOSE x \in Contents : TRUE) \in Contents
  BY StatusAssumption
<1>3. NoCopy \in Row
  BY <1>2, StatusAssumption DEF NoCopy, NewRow, Row, Never
<1>4. NoMove \in MoveRecord
  BY <1>1, StatusAssumption DEF NoMove, MoveRecord
<1>. QED  BY <1>1, <1>3, <1>4

\* What a handler does to its copy leaves a row of the table's type.
LEMMA ChangesTyped ==
  ASSUME TypeOK, NEW r \in Row
  PROVE  /\ Flagged(r) \in Row
         /\ \A x \in Contents : Edited(r, x) \in Row
         /\ \A to \in Statuses : Transitioned(r, to) \in Row
<1>1. Overdue(r) \in BOOLEAN
  BY DEF Overdue
<1>. QED  BY <1>1 DEF Row, Transitioned, Flagged, Edited

LEMMA NewRowTyped ==
  ASSUME TypeOK, NEW templated \in BOOLEAN, NEW found \in BOOLEAN, NEW x \in Contents
  PROVE  NewRow(templated, Deadline(found), x) \in Row
<1>1. Deadline(found) \in Nat
  BY BoundAssumption DEF Deadline, Never, TypeOK
<1>. QED  BY <1>1, StatusAssumption DEF NewRow, Row

LEMMA TypeInit == Init => TypeOK
BY DefaultsTyped DEF Init, TypeOK, Ops

LEMMA TypeStep == TypeOK /\ [Next]_vars => TypeOK'
<1>. SUFFICES ASSUME TypeOK, [Next]_vars PROVE TypeOK'
  OBVIOUS
<1>. USE DEF TypeOK
<1>0. CASE UNCHANGED vars
  BY <1>0 DEF vars
<1>1. CASE Tick
  BY <1>1 DEF Tick, workerVars, storeVars
<1>2. ASSUME NEW w \in Workers, Reply(w)
      PROVE  /\ pc' \in [Workers -> {"idle", "insert", "change", "save", "record"}]
             /\ op' \in [Workers -> Ops]
             /\ target' \in [Workers -> Cases]
             /\ copy' \in [Workers -> Row]
             /\ move' \in [Workers -> MoveRecord]
  BY <1>2, DefaultsTyped DEF Reply, Ops
<1>3. ASSUME NEW w \in Workers, NEW l \in {"insert", "change", "save"}, NEW r \in Row,
             Continue(w, l, r)
      PROVE  /\ pc' \in [Workers -> {"idle", "insert", "change", "save", "record"}]
             /\ copy' \in [Workers -> Row]
  BY <1>3 DEF Continue
<1>4. ASSUME NEW w \in Workers, NEW c \in Cases, StartCreate(w, c)
      PROVE  TypeOK'
  <2>1. PICK templated \in BOOLEAN, found \in BOOLEAN, x \in Contents :
          Continue(w, "insert", NewRow(templated, Deadline(found), x))
    BY <1>4 DEF StartCreate
  <2>. QED  BY <1>3, <1>4, <2>1, NewRowTyped DEF StartCreate, storeVars, Ops
<1>5. ASSUME NEW w \in Workers, NEW o \in Ops, NEW c \in Cases, ReadRow(w, o, c)
      PROVE  TypeOK'
  BY <1>3, <1>5 DEF ReadRow, storeVars
<1>6. ASSUME NEW w \in Workers, InsertRow(w)
      PROVE  TypeOK'
  BY <1>2, <1>6 DEF InsertRow
<1>7. ASSUME NEW w \in Workers, ChangeGet(w)
      PROVE  TypeOK'
  BY <1>2, <1>3, <1>7, ChangesTyped DEF ChangeGet, storeVars
<1>8. ASSUME NEW w \in Workers, ChangeContent(w)
      PROVE  TypeOK'
  BY <1>3, <1>8, ChangesTyped DEF ChangeContent, storeVars
<1>9. ASSUME NEW w \in Workers, NEW to \in Statuses, NEW asked \in BOOLEAN,
             ChangeTransition(w, to, asked)
      PROVE  TypeOK'
  <2>1. copy[w].status \in Statuses
    BY DEF Row
  <2>2. [case |-> target[w], from |-> copy[w].status, to |-> to, checked |-> asked]
          \in MoveRecord
    BY <2>1 DEF MoveRecord
  <2>. QED  BY <1>2, <1>3, <1>9, <2>2, ChangesTyped DEF ChangeTransition, storeVars
<1>10. ASSUME NEW w \in Workers, SaveRow(w)
       PROVE  TypeOK'
  BY <1>2, <1>10 DEF SaveRow, Saved
<1>11. ASSUME NEW w \in Workers, RecordTransition(w)
       PROVE  TypeOK'
  BY <1>2, <1>11 DEF RecordTransition
<1>12. ASSUME NEW w \in Workers, Fail(w)
       PROVE  TypeOK'
  BY <1>2, <1>12 DEF Fail, storeVars
<1>. QED
  BY <1>0, <1>1, <1>4, <1>5, <1>6, <1>7, <1>8, <1>9, <1>10, <1>11, <1>12
  DEF Next, Accept, Step

\* Type correctness: no interleaving, failure or clock takes a row, a copy in
\* memory or a recorded transition out of the sets its column allows.
THEOREM CaseTypeCorrect == Spec => []TypeOK
BY TypeInit, TypeStep, PTL DEF Spec

-----------------------------------------------------------------------------
(***************************************************************************)
(* What is in a worker's hands is about a case that has a row, unless the  *)
(* worker creates it; then it is the only one to do so.                    *)
(***************************************************************************)
WorkersSound ==
  \A w \in Workers :
    /\ pc[w] = "insert" => op[w] = "create" /\ target[w] \notin stored
    /\ pc[w] \in {"change", "save", "record"} => op[w] # "create" /\ target[w] \in stored
    /\ pc[w] = "record" => op[w] = "transition"
    /\ \A v \in Workers :
         pc[v] = "insert" /\ pc[w] = "insert" /\ target[v] = target[w] => v = w

LEMMA WorkersInit == Init => WorkersSound
BY DEF Init, WorkersSound

LEMMA WorkersStep == TypeOK /\ WorkersSound /\ [Next]_vars => WorkersSound'
<1>. SUFFICES ASSUME TypeOK, WorkersSound, [Next]_vars PROVE WorkersSound'
  OBVIOUS
<1>. USE DEF TypeOK, WorkersSound
<1>0. CASE UNCHANGED vars
  BY <1>0 DEF vars
<1>1. CASE Tick
  BY <1>1 DEF Tick, workerVars, storeVars
<1>4. ASSUME NEW w \in Workers, NEW c \in Cases, StartCreate(w, c)
      PROVE  WorkersSound'
  BY <1>4 DEF StartCreate, Continue, storeVars
<1>5. ASSUME NEW w \in Workers, NEW o \in Ops, NEW c \in Cases, ReadRow(w, o, c)
      PROVE  WorkersSound'
  BY <1>5 DEF ReadRow, Continue, storeVars
<1>6. ASSUME NEW w \in Workers, InsertRow(w)
      PROVE  WorkersSound'
  BY <1>6 DEF InsertRow, Reply
<1>7. ASSUME NEW w \in Workers, ChangeGet(w)
      PROVE  WorkersSound'
  BY <1>7 DEF ChangeGet, Continue, Reply, storeVars
<1>8. ASSUME NEW w \in Workers, ChangeContent(w)
      PROVE  WorkersSound'
  BY <1>8 DEF ChangeContent, Continue, storeVars
<1>9. ASSUME NEW w \in Workers, NEW to \in Statuses, NEW asked \in BOOLEAN,
             ChangeTransition(w, to, asked)
      PROVE  WorkersSound'
  BY <1>9 DEF ChangeTransition, Continue, Reply, storeVars
<1>10. ASSUME NEW w \in Workers, SaveRow(w)
       PROVE  WorkersSound'
  BY <1>10 DEF SaveRow, Saved, Reply
<1>11. ASSUME NEW w \in Workers, RecordTransition(w)
       PROVE  WorkersSound'
  BY <1>11 DEF RecordTransition, Reply
<1>12. ASSUME NEW w \in Workers, Fail(w)
       PROVE  WorkersSound'
  BY <1>12 DEF Fail, Reply, storeVars
<1>. QED
  BY <1>0, <1>1, <1>4, <1>5, <1>6, <1>7, <1>8, <1>9, <1>10, <1>11, <1>12
  DEF Next, Accept, Step

LEMMA WorkersInv == Spec => [](TypeOK /\ WorkersSound)
BY CaseTypeCorrect, WorkersInit, WorkersStep, PTL DEF Spec

-----------------------------------------------------------------------------
(***************************************************************************)
(* Deadline and workflow travel with the copies: what a worker may save    *)
(* has them as the row has them now, because nobody changes them.          *)
(***************************************************************************)
CopiesCarryOn ==
  \A w \in Workers : HoldsCopy(w) =>
    /\ copy[w].dueAt = row[target[w]].dueAt
    /\ copy[w].templated = row[target[w]].templated

\* No change of a copy touches its deadline or its workflow.
LEMMA ChangesKeep ==
  ASSUME NEW r \in Row
  PROVE  /\ Flagged(r).dueAt = r.dueAt
         /\ Flagged(r).templated = r.templated
         /\ \A x \in Contents : /\ Edited(r, x).dueAt = r.dueAt
                                /\ Edited(r, x).templated = r.templated
         /\ \A to \in Statuses : /\ Transitioned(r, to).dueAt = r.dueAt
                                 /\ Transitioned(r, to).templated = r.templated
BY DEF Row, Transitioned, Flagged, Edited

LEMMA CopiesInit == Init => CopiesCarryOn
BY DEF Init, CopiesCarryOn, HoldsCopy

LEMMA CopiesStep == TypeOK /\ WorkersSound /\ CopiesCarryOn /\ [Next]_vars => CopiesCarryOn'
<1>. SUFFICES ASSUME TypeOK, WorkersSound, CopiesCarryOn, [Next]_vars PROVE CopiesCarryOn'
  OBVIOUS
<1>. USE DEF TypeOK, WorkersSound, CopiesCarryOn, HoldsCopy
<1>0. CASE UNCHANGED vars
  BY <1>0 DEF vars
<1>1. CASE Tick
  BY <1>1 DEF Tick, workerVars, storeVars
<1>2. ASSUME NEW w \in Workers, NEW c \in Cases, StartCreate(w, c)
      PROVE  CopiesCarryOn'
  BY <1>2 DEF StartCreate, Continue, storeVars
<1>3. ASSUME NEW w \in Workers, NEW o \in Ops, NEW c \in Cases, ReadRow(w, o, c)
      PROVE  CopiesCarryOn'
  BY <1>3 DEF ReadRow, Continue, storeVars
<1>4. ASSUME NEW w \in Workers, InsertRow(w)
      PROVE  CopiesCarryOn'
  BY <1>4 DEF InsertRow, Reply
<1>12. ASSUME NEW w \in Workers, NEW r, HoldsCopy(w), Continue(w, "save", r),
              r.dueAt = copy[w].dueAt, r.templated = copy[w].templated,
              UNCHANGED <<row, target>>
       PROVE  CopiesCarryOn'
  BY <1>12 DEF Continue
<1>13. ASSUME NEW w \in Workers, Reply(w), UNCHANGED row
       PROVE  CopiesCarryOn'
  BY <1>13 DEF Reply
<1>5. ASSUME NEW w \in Workers, ChangeGet(w)
      PROVE  CopiesCarryOn'
  <2>1. HoldsCopy(w) /\ UNCHANGED row
    BY <1>5 DEF ChangeGet, storeVars
  <2>2. CASE Reply(w)
    BY <1>13, <2>1, <2>2
  <2>3. CASE Continue(w, "save", Flagged(copy[w])) /\ UNCHANGED target
    <3>1. Flagged(copy[w]).dueAt = copy[w].dueAt
          /\ Flagged(copy[w]).templated = copy[w].templated
      BY ChangesKeep
    <3>. QED  BY <1>12, <2>1, <2>3, <3>1
  <2>. QED  BY <1>5, <2>2, <2>3 DEF ChangeGet
<1>6. ASSUME NEW w \in Workers, ChangeContent(w)
      PROVE  CopiesCarryOn'
  <2>1. PICK x \in Contents : Continue(w, "save", Edited(copy[w], x))
    BY <1>6 DEF ChangeContent
  <2>2. HoldsCopy(w) /\ UNCHANGED <<row, target>>
    BY <1>6 DEF ChangeContent, storeVars
  <2>3. Edited(copy[w], x).dueAt = copy[w].dueAt
        /\ Edited(copy[w], x).templated = copy[w].templated
    BY ChangesKeep
  <2>. QED  BY <1>12, <2>1, <2>2, <2>3
<1>7. ASSUME NEW w \in Workers, NEW to \in Statuses, NEW asked \in BOOLEAN,
             ChangeTransition(w, to, asked)
      PROVE  CopiesCarryOn'
  <2>1. HoldsCopy(w) /\ UNCHANGED row
    BY <1>7 DEF ChangeTransition, storeVars
  <2>2. CASE Reply(w)
    BY <1>13, <2>1, <2>2
  <2>3. CASE Continue(w, "save", Transitioned(copy[w], to)) /\ UNCHANGED target
    <3>1. Transitioned(copy[w], to).dueAt = copy[w].dueAt
          /\ Transitioned(copy[w], to).templated = copy[w].templated
      BY ChangesKeep
    <3>. QED  BY <1>12, <2>1, <2>3, <3>1
  <2>. QED  BY <1>7, <2>2, <2>3 DEF ChangeTransition
<1>8. ASSUME NEW w \in Workers, SaveRow(w)
      PROVE  CopiesCarryOn'
  BY <1>8 DEF SaveRow, Saved, Reply
<1>9. ASSUME NEW w \in Workers, RecordTransition(w)
      PROVE  CopiesCarryOn'
  BY <1>9 DEF RecordTransition, Reply
<1>10. ASSUME NEW w \in Workers, Fail(w)
      PROVE  CopiesCarryOn'
  BY <1>10 DEF Fail, Reply, storeVars
<1>. QED
  BY <1>0, <1>1, <1>2, <1>3, <1>4, <1>5, <1>6, <1>7, <1>8, <1>9, <1>10
  DEF Next, Accept, Step

LEMMA CopiesInv == Spec => [](TypeOK /\ WorkersSound /\ CopiesCarryOn)
BY WorkersInv, CopiesInit, CopiesStep, PTL DEF Spec

\* The SLA deadline and the workflow of a stored case never change, whatever
\* handlers run: the copy saved agrees with the row on both.
THEOREM DeadlineNeverMoves == Spec => DeadlineFixed
<1>1. TypeOK /\ WorkersSound /\ CopiesCarryOn /\ [Next]_vars => [DeadlineKept]_vars
  <2>. SUFFICES ASSUME TypeOK, WorkersSound, CopiesCarryOn, Next PROVE DeadlineKept
    OBVIOUS
  <2>. USE DEF TypeOK, DeadlineKept
  <2>1. ASSUME NEW w \in Workers, InsertRow(w)
        PROVE  DeadlineKept
    BY <2>1 DEF InsertRow, WorkersSound
  <2>2. ASSUME NEW w \in Workers, SaveRow(w)
        PROVE  DeadlineKept
    BY <2>2 DEF SaveRow, Saved, CopiesCarryOn, HoldsCopy
  <2>3. CASE UNCHANGED row
    BY <2>3
  <2>. QED
    BY <2>1, <2>2, <2>3 DEF Next, Accept, Step, Tick, StartCreate, ReadRow, ChangeGet,
       ChangeContent, ChangeTransition, RecordTransition, Fail, storeVars
<1>. QED  BY <1>1, CopiesInv, PTL DEF Spec, DeadlineFixed

-----------------------------------------------------------------------------
(***************************************************************************)
(* Every row, and every copy that may become one, has its stamps, and its  *)
(* breach flag only after its deadline.  The clock never runs backwards,   *)
(* so a flag that was justified stays so.                                  *)
(***************************************************************************)
Sound(r) ==
  /\ r.breached => Overdue(r)
  /\ r.status = "resolved" => r.resolvedAt
  /\ r.status = "closed" => r.closedAt

AllSound ==
  /\ \A c \in stored : Sound(row[c])
  /\ \A w \in Workers : pc[w] = "insert" \/ HoldsCopy(w) => Sound(copy[w])

LEMMA ChangesSound ==
  ASSUME TypeOK, NEW r \in Row, Sound(r)
  PROVE  /\ Overdue(r) => Sound(Flagged(r))
         /\ \A x \in Contents : Sound(Edited(r, x))
         /\ \A to \in Statuses : Sound(Transitioned(r, to))
BY DEF Row, Transitioned, Flagged, Edited, Sound, Overdue

LEMMA NewRowSound ==
  ASSUME NEW templated, NEW due, NEW x
  PROVE  Sound(NewRow(templated, due, x))
BY DEF Sound, NewRow

LEMMA TimePasses == TypeOK /\ [Next]_vars => \A r \in Row : Overdue(r) => Overdue(r)'
<1>1. TypeOK /\ [Next]_vars => clock' \in Nat /\ clock' >= clock
  BY DEF TypeOK, Next, vars, Tick, Accept, Step, StartCreate, ReadRow, InsertRow, ChangeGet,
     ChangeContent, ChangeTransition, SaveRow, Saved, RecordTransition, Fail
<1>. QED  BY <1>1 DEF TypeOK, Row, Overdue

LEMMA SoundInit == Init => AllSound
BY DEF Init, AllSound, HoldsCopy

LEMMA SoundStep == TypeOK /\ WorkersSound /\ AllSound /\ [Next]_vars => AllSound'
<1>. SUFFICES ASSUME TypeOK, WorkersSound, AllSound, [Next]_vars PROVE AllSound'
  OBVIOUS
<1>11. \A r \in Row : Sound(r) => Sound(r)'
  BY TimePasses DEF Sound
<1>. USE DEF TypeOK, WorkersSound, AllSound, HoldsCopy
<1>0. CASE UNCHANGED vars
  BY <1>0, <1>11 DEF vars
<1>1. CASE Tick
  BY <1>1, <1>11 DEF Tick, workerVars, storeVars
<1>2. ASSUME NEW w \in Workers, NEW c \in Cases, StartCreate(w, c)
      PROVE  AllSound'
  BY <1>2, <1>11, NewRowSound, NewRowTyped DEF StartCreate, Continue, storeVars
<1>3. ASSUME NEW w \in Workers, NEW o \in Ops, NEW c \in Cases, ReadRow(w, o, c)
      PROVE  AllSound'
  BY <1>3, <1>11 DEF ReadRow, Continue, storeVars
<1>4. ASSUME NEW w \in Workers, InsertRow(w)
      PROVE  AllSound'
  BY <1>4, <1>11 DEF InsertRow, Reply
<1>12. ASSUME NEW w \in Workers, NEW r \in Row, Sound(r), HoldsCopy(w),
              Continue(w, "save", r), UNCHANGED <<clock, stored, row>>
       PROVE  AllSound'
  <2>1. Sound(r)' /\ \A c \in stored : Sound(row[c])'
    BY <1>11, <1>12
  <2>2. \A v \in Workers \ {w} : (pc[v] = "insert" \/ HoldsCopy(v))' => Sound(copy[v])'
    BY <1>11, <1>12 DEF Continue
  <2>. QED  BY <1>12, <2>1, <2>2 DEF Continue
<1>13. ASSUME NEW w \in Workers, Reply(w), UNCHANGED <<clock, stored, row>>
       PROVE  AllSound'
  BY <1>11, <1>13 DEF Reply
<1>5. ASSUME NEW w \in Workers, ChangeGet(w)
      PROVE  AllSound'
  <2>1. HoldsCopy(w) /\ UNCHANGED <<clock, stored, row>>
    BY <1>5 DEF ChangeGet, storeVars
  <2>2. CASE Reply(w)
    BY <1>13, <2>1, <2>2
  <2>3. CASE Overdue(copy[w]) /\ Continue(w, "save", Flagged(copy[w]))
    <3>1. Flagged(copy[w]) \in Row /\ Sound(Flagged(copy[w]))
      BY <2>1, <2>3, ChangesSound, ChangesTyped
    <3>. QED  BY <1>12, <2>1, <2>3, <3>1
  <2>. QED  BY <1>5, <2>2, <2>3 DEF ChangeGet
<1>6. ASSUME NEW w \in Workers, ChangeContent(w)
      PROVE  AllSound'
  <2>1. PICK x \in Contents : Continue(w, "save", Edited(copy[w], x))
    BY <1>6 DEF ChangeContent
  <2>2. HoldsCopy(w) /\ UNCHANGED <<clock, stored, row>>
    BY <1>6 DEF ChangeContent, storeVars
  <2>3. Edited(copy[w], x) \in Row /\ Sound(Edited(copy[w], x))
    BY <2>2, ChangesSound, ChangesTyped
  <2>. QED  BY <1>12, <2>1, <2>2, <2>3
<1>7. ASSUME NEW w \in Workers, NEW to \in Statuses, NEW asked \in BOOLEAN,
             ChangeTransition(w, to, asked)
      PROVE  AllSound'
  <2>1. HoldsCopy(w) /\ UNCHANGED <<clock, stored, row>>
    BY <1>7 DEF ChangeTransition, storeVars
  <2>2. CASE Reply(w)
    BY <1>13, <2>1, <2>2
  <2>3. CASE Continue(w, "save", Transitioned(copy[w], to))
    <3>1. Transitioned(copy[w], to) \in Row /\ Sound(Transitioned(copy[w], to))
      BY <2>1, ChangesSound, ChangesTyped
    <3>. QED  BY <1>12, <2>1, <2>3, <3>1
  <2>. QED  BY <1>7, <2>2, <2>3 DEF ChangeTransition
<1>8. ASSUME NEW w \in Workers, SaveRow(w)
      PROVE  AllSound'
  BY <1>8, <1>11 DEF SaveRow, Saved, Reply
<1>9. ASSUME NEW w \in Workers, RecordTransition(w)
      PROVE  AllSound'
  BY <1>9, <1>11 DEF RecordTransition, Reply
<1>10. ASSUME NEW w \in Workers, Fail(w)
      PROVE  AllSound'
  BY <1>10, <1>11 DEF Fail, Reply, storeVars
<1>. QED
  BY <1>0, <1>1, <1>2, <1>3, <1>4, <1>5, <1>6, <1>7, <1>8, <1>9, <1>10
  DEF Next, Accept, Step

LEMMA SoundInv == Spec => [](TypeOK /\ AllSound)
BY WorkersInv, SoundInit, SoundStep, PTL DEF Spec

\* A case is flagged as breached only when its deadline has passed: at no
\* moment does a stored row claim a breach the clock does not show.
THEOREM NoEarlyBreach == Spec => []BreachedOnlyWhenOverdue
<1>1. AllSound => BreachedOnlyWhenOverdue
  BY DEF AllSound, Sound, BreachedOnlyWhenOverdue
<1>. QED  BY <1>1, SoundInv, PTL

\* A resolved or closed case always has the time of it, stale saves or not.
THEOREM StampsPresent == Spec => []StatusStamped
<1>1. AllSound => StatusStamped
  BY DEF AllSound, Sound, StatusStamped
<1>. QED  BY <1>1, SoundInv, PTL

-----------------------------------------------------------------------------
(***************************************************************************)
(* Transitions are remembered for stored cases only, and the one a worker  *)
(* is about to record has been saved.                                      *)
(***************************************************************************)
HistorySound ==
  /\ log \subseteq moves
  /\ \A m \in moves : m.case \in stored
  /\ \A w \in Workers :
       /\ pc[w] = "record" => move[w] \in moves
       /\ pc[w] = "save" /\ op[w] = "transition" => move[w].case = target[w]

LEMMA HistoryInit == Init => HistorySound
BY DEF Init, HistorySound

LEMMA HistoryStep == TypeOK /\ WorkersSound /\ HistorySound /\ [Next]_vars => HistorySound'
<1>. SUFFICES ASSUME TypeOK, WorkersSound, HistorySound, [Next]_vars PROVE HistorySound'
  OBVIOUS
<1>. USE DEF TypeOK, WorkersSound, HistorySound
<1>0. CASE UNCHANGED vars
  BY <1>0 DEF vars
<1>1. CASE Tick
  BY <1>1 DEF Tick, workerVars, storeVars
<1>2. ASSUME NEW w \in Workers, NEW c \in Cases, StartCreate(w, c)
      PROVE  HistorySound'
  BY <1>2 DEF StartCreate, Continue, storeVars
<1>3. ASSUME NEW w \in Workers, NEW o \in Ops, NEW c \in Cases, ReadRow(w, o, c)
      PROVE  HistorySound'
  BY <1>3 DEF ReadRow, Continue, storeVars
<1>4. ASSUME NEW w \in Workers, InsertRow(w)
      PROVE  HistorySound'
  BY <1>4 DEF InsertRow, Reply
<1>5. ASSUME NEW w \in Workers, ChangeGet(w)
      PROVE  HistorySound'
  BY <1>5 DEF ChangeGet, Continue, Reply, storeVars
<1>6. ASSUME NEW w \in Workers, ChangeContent(w)
      PROVE  HistorySound'
  BY <1>6 DEF ChangeContent, Continue, storeVars
<1>7. ASSUME NEW w \in Workers, NEW to \in Statuses, NEW asked \in BOOLEAN,
             ChangeTransition(w, to, asked)
      PROVE  HistorySound'
  BY <1>7 DEF ChangeTransition, Continue, Reply, storeVars
<1>8. ASSUME NEW w \in Workers, SaveRow(w)
      PROVE  HistorySound'
  BY <1>8 DEF SaveRow, Saved, Reply
<1>9. ASSUME NEW w \in Workers, RecordTransition(w)
      PROVE  HistorySound'
  BY <1>9 DEF RecordTransition, Reply
<1>10. ASSUME NEW w \in Workers, Fail(w)
      PROVE  HistorySound'
  BY <1>10 DEF Fail, Reply, storeVars
<1>. QED
  BY <1>0, <1>1, <1>2, <1>3, <1>4, <1>5, <1>6, <1>7, <1>8, <1>9, <1>10
  DEF Next, Accept, Step

LEMMA HistoryInv == Spec => [](TypeOK /\ WorkersSound /\ HistorySound)
BY WorkersInv, HistoryInit, HistoryStep, PTL DEF Spec

\* The recorded history of a case never names a transition whose save failed.
THEOREM HistoryTrue == Spec => []HistoryWasApplied
<1>1. HistorySound => HistoryWasApplied
  BY DEF HistorySound, HistoryWasApplied
<1>. QED  BY <1>1, HistoryInv, PTL

-----------------------------------------------------------------------------
(***************************************************************************)
(* Where a status can come from: a row, and a copy that is not the result  *)
(* of a transition, has one the case has held; a copy that is comes from   *)
(* one it has held, along an edge if the template was asked.               *)
(***************************************************************************)
StatusesSound ==
  /\ \A c \in stored : row[c].status \in StatusesHeld(c)
  /\ \A w \in Workers :
       /\ pc[w] = "insert" => copy[w].status = "new"
       /\ pc[w] = "change" \/ (pc[w] = "save" /\ op[w] # "transition")
            => copy[w].status \in StatusesHeld(target[w])
       /\ pc[w] = "save" /\ op[w] = "transition" =>
            /\ copy[w].status = move[w].to
            /\ move[w].from \in StatusesHeld(target[w])
            /\ move[w].checked => <<move[w].from, move[w].to>> \in Edges

LEMMA HeldIffCreatedOrMoved ==
  ASSUME NEW c, NEW s
  PROVE  s \in StatusesHeld(c) <=>
           (c \in stored /\ s = "new") \/ \E m \in moves : m.case = c /\ m.to = s
BY DEF StatusesHeld

\* A status a case has held stays held.
LEMMA HeldGrows == [Next]_vars => \A c \in Cases : StatusesHeld(c) \subseteq StatusesHeld(c)'
<1>1. [Next]_vars => stored \subseteq stored' /\ moves \subseteq moves'
  BY DEF Next, vars, Tick, Accept, Step, StartCreate, ReadRow, InsertRow, ChangeGet, storeVars,
     ChangeContent, ChangeTransition, SaveRow, Saved, RecordTransition, Fail
<1>. QED  BY <1>1 DEF StatusesHeld

\* Only a transition's copy has another status than the row it was read from.
LEMMA ChangesStatus ==
  ASSUME NEW r \in Row
  PROVE  /\ Flagged(r).status = r.status
         /\ \A x \in Contents : Edited(r, x).status = r.status
         /\ \A to \in Statuses : Transitioned(r, to).status = to
BY DEF Row, Flagged, Edited, Transitioned

LEMMA StatusesInit == Init => StatusesSound
BY DEF Init, StatusesSound

LEMMA StatusesStep ==
  TypeOK /\ WorkersSound /\ HistorySound /\ StatusesSound /\ [Next]_vars => StatusesSound'
<1>. SUFFICES ASSUME TypeOK, WorkersSound, HistorySound, StatusesSound, [Next]_vars
              PROVE  StatusesSound'
  OBVIOUS
<1>. USE DEF TypeOK, WorkersSound, HistorySound, StatusesSound
<1>11. \A c \in Cases : StatusesHeld(c) \subseteq StatusesHeld(c)'
  BY HeldGrows
<1>0. CASE UNCHANGED vars
  BY <1>0, <1>11 DEF vars
<1>1. CASE Tick
  BY <1>1, <1>11 DEF Tick, workerVars, storeVars
<1>2. ASSUME NEW w \in Workers, NEW c \in Cases, StartCreate(w, c)
      PROVE  StatusesSound'
  BY <1>2, <1>11 DEF StartCreate, Continue, storeVars, NewRow
<1>3. ASSUME NEW w \in Workers, NEW o \in Ops, NEW c \in Cases, ReadRow(w, o, c)
      PROVE  StatusesSound'
  BY <1>3, <1>11 DEF ReadRow, Continue, storeVars
<1>4. ASSUME NEW w \in Workers, InsertRow(w)
      PROVE  StatusesSound'
  <2>1. \A c \in Cases : c = target[w] => "new" \in StatusesHeld(c)'
    BY <1>4 DEF InsertRow, StatusesHeld
  <2>2. \A c \in stored' : row'[c].status \in StatusesHeld(c)'
    <3>1. copy[w].status = "new"
      BY <1>4 DEF InsertRow
    <3>2. row' = [row EXCEPT ![target[w]] = copy[w]] /\ stored' = stored \cup {target[w]}
      BY <1>4 DEF InsertRow
    <3>. SUFFICES ASSUME NEW c \in stored' PROVE row'[c].status \in StatusesHeld(c)'
      OBVIOUS
    <3>3. CASE c = target[w]
      BY <2>1, <3>1, <3>2, <3>3
    <3>4. CASE c # target[w]
      BY <1>11, <3>2, <3>4
    <3>. QED  BY <3>3, <3>4
  <2>. QED  BY <1>4, <1>11, <2>2 DEF InsertRow, Reply
<1>5. ASSUME NEW w \in Workers, ChangeGet(w)
      PROVE  StatusesSound'
  <2>1. Flagged(copy[w]).status = copy[w].status
    BY ChangesStatus
  <2>2. CASE Reply(w)
    BY <1>5, <1>11, <2>2 DEF ChangeGet, Reply, storeVars
  <2>3. CASE Continue(w, "save", Flagged(copy[w])) /\ UNCHANGED <<op, target, move>>
    BY <1>5, <1>11, <2>1, <2>3 DEF ChangeGet, Continue, storeVars
  <2>. QED  BY <1>5, <2>2, <2>3 DEF ChangeGet
<1>6. ASSUME NEW w \in Workers, ChangeContent(w)
      PROVE  StatusesSound'
  BY <1>6, <1>11, ChangesStatus DEF ChangeContent, Continue, storeVars
<1>7. ASSUME NEW w \in Workers, NEW to \in Statuses, NEW asked \in BOOLEAN,
             ChangeTransition(w, to, asked)
      PROVE  StatusesSound'
  <2>1. Transitioned(copy[w], to).status = to
    BY <1>7, ChangesStatus
  <2>2. CASE Reply(w)
    BY <1>7, <1>11, <2>2 DEF ChangeTransition, Reply, storeVars
  <2>3. CASE Continue(w, "save", Transitioned(copy[w], to)) /\ ~ Reply(w)
    <3>1. ~ NotApplied(copy[w].status, to, asked)
      BY <1>7, <2>3 DEF ChangeTransition
    <3>2. /\ move' = [move EXCEPT ![w] = [case |-> target[w], from |-> copy[w].status,
                                         to |-> to, checked |-> asked]]
          /\ UNCHANGED <<op, target, stored, row, log, moves>>
      BY <1>7, <3>1 DEF ChangeTransition, storeVars
    <3>3. /\ move'[w].from = copy[w].status /\ move'[w].to = to
          /\ move'[w].checked => <<copy[w].status, to>> \in Edges
      BY <3>1, <3>2 DEF NotApplied
    <3>4. copy'[w].status = to /\ pc' = [pc EXCEPT ![w] = "save"]
      BY <2>1, <2>3 DEF Continue
    <3>5. copy[w].status \in StatusesHeld(target[w])'
      BY <1>7, <1>11, <3>2 DEF ChangeTransition
    <3>6. \A v \in Workers \ {w} : copy'[v] = copy[v] /\ move'[v] = move[v]
      BY <2>3, <3>2 DEF Continue
    <3>. QED  BY <1>7, <1>11, <3>2, <3>3, <3>4, <3>5, <3>6 DEF ChangeTransition
  <2>. QED  BY <1>7, <2>2, <2>3 DEF ChangeTransition
<1>8. ASSUME NEW w \in Workers, SaveRow(w)
      PROVE  StatusesSound'
  <2>1. \A c \in Cases : c = target[w] => copy[w].status \in StatusesHeld(c)'
    <3>1. CASE op[w] = "transition"
      <4>1. /\ moves' = moves \cup {move[w]}
            /\ move[w].case = target[w] /\ move[w].to = copy[w].status
        BY <1>8, <3>1 DEF SaveRow, Saved
      <4>2. move[w] \in {n \in moves' : n.case = target[w]}
        BY <4>1
      <4>. QED  BY <4>1, <4>2 DEF StatusesHeld
    <3>2. CASE op[w] # "transition"
      BY <1>8, <1>11, <3>2 DEF SaveRow, Saved
    <3>. QED  BY <3>1, <3>2
  <2>. QED  BY <1>8, <1>11, <2>1 DEF SaveRow, Saved, Reply
<1>9. ASSUME NEW w \in Workers, RecordTransition(w)
      PROVE  StatusesSound'
  BY <1>9, <1>11 DEF RecordTransition, Reply
<1>10. ASSUME NEW w \in Workers, Fail(w)
      PROVE  StatusesSound'
  BY <1>10, <1>11 DEF Fail, Reply, storeVars
<1>. QED
  BY <1>0, <1>1, <1>2, <1>3, <1>4, <1>5, <1>6, <1>7, <1>8, <1>9, <1>10
  DEF Next, Accept, Step

LEMMA StatusesInv == Spec => [](TypeOK /\ WorkersSound /\ HistorySound /\ StatusesSound)
BY HistoryInv, StatusesInit, StatusesStep, PTL DEF Spec

-----------------------------------------------------------------------------
(***************************************************************************)
(* The three kinds of step that touch rows and history: a case gets its    *)
(* row, a saved transition is remembered, or a row is written back.        *)
(***************************************************************************)
AllInv == TypeOK /\ WorkersSound /\ HistorySound /\ StatusesSound

Created(w) ==
  /\ target[w] \in Cases \ stored
  /\ copy[w].status = "new"
  /\ stored' = stored \cup {target[w]}
  /\ row' = [row EXCEPT ![target[w]] = copy[w]]
  /\ moves' = moves

Moved(w) ==
  /\ target[w] \in stored
  /\ move[w].case = target[w] /\ move[w].to = copy[w].status
  /\ move[w].from \in StatusesHeld(target[w])
  /\ move[w].checked => <<move[w].from, move[w].to>> \in Edges
  /\ stored' = stored
  /\ row' = [row EXCEPT ![target[w]] = copy[w]]
  /\ moves' = moves \cup {move[w]}

WrittenBack(w) ==
  /\ target[w] \in stored
  /\ copy[w].status \in StatusesHeld(target[w])
  /\ stored' = stored
  /\ row' = [row EXCEPT ![target[w]] = copy[w]]
  /\ moves' = moves

LEMMA StepKinds ==
  AllInv /\ [Next]_vars =>
    \/ UNCHANGED <<stored, row, moves>>
    \/ \E w \in Workers : Created(w) \/ Moved(w) \/ WrittenBack(w)
<1>. SUFFICES ASSUME AllInv, [Next]_vars
              PROVE  \/ UNCHANGED <<stored, row, moves>>
                     \/ \E w \in Workers : Created(w) \/ Moved(w) \/ WrittenBack(w)
  OBVIOUS
<1>. USE DEF AllInv, TypeOK
<1>1. ASSUME NEW w \in Workers, InsertRow(w)
      PROVE  Created(w)
  BY <1>1 DEF InsertRow, Created, WorkersSound, StatusesSound
<1>2. ASSUME NEW w \in Workers, SaveRow(w)
      PROVE  Moved(w) \/ WrittenBack(w)
  <2>1. CASE op[w] = "transition"
    BY <1>2, <2>1 DEF SaveRow, Saved, Moved, WorkersSound, HistorySound, StatusesSound
  <2>2. CASE op[w] # "transition"
    BY <1>2, <2>2 DEF SaveRow, Saved, WrittenBack, WorkersSound, StatusesSound
  <2>. QED  BY <2>1, <2>2
<1>3. CASE UNCHANGED <<stored, row, moves>>
  BY <1>3
<1>. QED
  BY <1>1, <1>2, <1>3 DEF Next, vars, Accept, Step, Tick, StartCreate, ReadRow, ChangeGet,
     ChangeContent, ChangeTransition, RecordTransition, Fail, storeVars

\* What each kind of step does to the statuses a case has held, and to the
\* cases the template was not asked about.
LEMMA CreatedHeld ==
  ASSUME AllInv, NEW w \in Workers, Created(w)
  PROVE  /\ StatusesHeld(target[w]) = {}
         /\ \A c \in Cases : StatusesHeld(c)' =
              IF c = target[w] THEN {"new"} ELSE StatusesHeld(c)
         /\ Unvalidated' = Unvalidated
<1>1. {n \in moves : n.case = target[w]} = {}
  BY DEF AllInv, HistorySound, Created
<1>2. stored' = stored \cup {target[w]} /\ moves' = moves /\ target[w] \notin stored
  BY DEF Created
<1>3. StatusesHeld(target[w]) = {}
  BY <1>1, <1>2 DEF StatusesHeld
<1>4. ASSUME NEW c \in Cases
      PROVE  StatusesHeld(c)' = IF c = target[w] THEN {"new"} ELSE StatusesHeld(c)
  <2>1. CASE c = target[w]
    BY <1>1, <1>2, <2>1 DEF StatusesHeld
  <2>2. CASE c # target[w]
    BY <1>2, <2>2 DEF StatusesHeld
  <2>. QED  BY <2>1, <2>2
<1>. QED  BY <1>2, <1>3, <1>4 DEF Unvalidated

LEMMA MovedHeld ==
  ASSUME AllInv, NEW w \in Workers, Moved(w)
  PROVE  /\ \A c \in Cases : StatusesHeld(c)' =
              IF c = target[w] THEN StatusesHeld(c) \cup {move[w].to} ELSE StatusesHeld(c)
         /\ Unvalidated' = IF move[w].checked THEN Unvalidated
                            ELSE Unvalidated \cup {target[w]}
<1>1. stored' = stored /\ moves' = moves \cup {move[w]} /\ move[w].case = target[w]
  BY DEF Moved
<1>2. ASSUME NEW c \in Cases
      PROVE  StatusesHeld(c)' =
               IF c = target[w] THEN StatusesHeld(c) \cup {move[w].to} ELSE StatusesHeld(c)
  <2>1. {n \in moves' : n.case = c} =
          IF c = target[w] THEN {n \in moves : n.case = c} \cup {move[w]}
          ELSE {n \in moves : n.case = c}
    BY <1>1
  <2>2. CASE c = target[w]
    BY <1>1, <2>1, <2>2 DEF StatusesHeld
  <2>3. CASE c # target[w]
    BY <1>1, <2>1, <2>3 DEF StatusesHeld
  <2>. QED  BY <2>2, <2>3
<1>3. {n \in moves' : ~ n.checked} =
        IF move[w].checked THEN {n \in moves : ~ n.checked}
        ELSE {n \in moves : ~ n.checked} \cup {move[w]}
  BY <1>1
<1>4. CASE move[w].checked
  BY <1>2, <1>3, <1>4 DEF Unvalidated
<1>5. CASE ~ move[w].checked
  BY <1>1, <1>2, <1>3, <1>5 DEF Unvalidated
<1>. QED  BY <1>2, <1>4, <1>5

LEMMA UnmovedHeld ==
  ASSUME UNCHANGED <<stored, moves>>
  PROVE  /\ \A c \in Cases : StatusesHeld(c)' = StatusesHeld(c)
         /\ Unvalidated' = Unvalidated
BY DEF StatusesHeld, Unvalidated

-----------------------------------------------------------------------------
\* As long as the template is asked, what a case has held is within every set
\* that holds "new" and is closed under the edges.
Closed(S) == "new" \in S /\ \A e \in Edges : e[1] \in S => e[2] \in S

HeldReachable ==
  \A c \in Cases \ Unvalidated : \A S \in SUBSET Statuses :
    Closed(S) => StatusesHeld(c) \subseteq S

LEMMA ReachableInit == Init => HeldReachable
BY DEF Init, HeldReachable, StatusesHeld

LEMMA ReachableStep == AllInv /\ HeldReachable /\ [Next]_vars => HeldReachable'
<1>. SUFFICES ASSUME AllInv, HeldReachable, [Next]_vars,
                     NEW c \in Cases, c \notin Unvalidated',
                     NEW S \in SUBSET Statuses, Closed(S)
              PROVE  StatusesHeld(c)' \subseteq S
  BY DEF HeldReachable, Closed
<1>1. ASSUME NEW w \in Workers, Created(w)
      PROVE  StatusesHeld(c)' \subseteq S
  BY <1>1, CreatedHeld DEF HeldReachable, Closed
<1>2. ASSUME NEW w \in Workers, Moved(w)
      PROVE  StatusesHeld(c)' \subseteq S
  <2>1. c \notin Unvalidated /\ StatusesHeld(c) \subseteq S
    BY <1>2, MovedHeld DEF HeldReachable
  <2>2. CASE c = target[w]
    <3>1. move[w].checked
      BY <1>2, <2>2, MovedHeld
    <3>2. move[w].from \in S /\ <<move[w].from, move[w].to>> \in Edges
      BY <1>2, <2>1, <2>2, <3>1 DEF Moved
    <3>3. move[w].to \in S
      BY <3>2 DEF Closed
    <3>. QED  BY <1>2, <2>1, <2>2, <3>3, MovedHeld
  <2>. QED  BY <1>2, <2>1, <2>2, MovedHeld
<1>3. CASE UNCHANGED <<stored, moves>>
  BY <1>3, UnmovedHeld DEF HeldReachable
<1>. QED  BY <1>1, <1>2, <1>3, StepKinds DEF WrittenBack

LEMMA ReachableInv == Spec => [](AllInv /\ HeldReachable)
<1>1. TypeOK /\ WorkersSound /\ HistorySound /\ StatusesSound <=> AllInv
  BY DEF AllInv
<1>. QED  BY <1>1, StatusesInv, ReachableInit, ReachableStep, PTL DEF Spec

\* Whatever stale saves do, a case whose transitions all asked the template has
\* a status the template can reach from "new".
THEOREM StatusStaysReachable == Spec => []StatusReachable
<1>1. AllInv /\ HeldReachable => StatusReachable
  BY DEF AllInv, TypeOK, StatusesSound, HeldReachable, Closed, StatusReachable
<1>. QED  BY <1>1, ReachableInv, PTL

-----------------------------------------------------------------------------
(***************************************************************************)
(* The refinement: creation opens a case, a saved transition moves it, and *)
(* any other save falls back to a status it has held.                      *)
(***************************************************************************)
StatusOf == [c \in Cases |-> IF c \in stored THEN row[c].status ELSE "absent"]
HeldOf == [c \in Cases |-> StatusesHeld(c)]

LEMMA LifecycleInits == Init => Lifecycle!LifecycleInit
BY DEF Init, Lifecycle!LifecycleInit, StatusesHeld, Unvalidated

LEMMA LifecycleSteps ==
  AllInv /\ [Next]_vars => [Lifecycle!LifecycleNext]_(Lifecycle!lifecycleVars)
<1>. SUFFICES ASSUME AllInv, [Next]_vars
              PROVE  Lifecycle!LifecycleNext \/ UNCHANGED Lifecycle!lifecycleVars
  OBVIOUS
<1>1. ASSUME NEW w \in Workers, NEW c \in Cases, c = target[w], Created(w)
      PROVE  Lifecycle!Open(c)
  <2>1. StatusOf[c] = "absent"
    BY <1>1 DEF StatusOf, Created
  <2>2. StatusOf' = [StatusOf EXCEPT ![c] = "new"]
    BY <1>1 DEF StatusOf, Created, AllInv, TypeOK
  <2>3. HeldOf' = [HeldOf EXCEPT ![c] = {"new"}]
    BY <1>1, CreatedHeld DEF HeldOf, Created
  <2>4. Unvalidated' = Unvalidated
    BY <1>1, CreatedHeld
  <2>. QED  BY <2>1, <2>2, <2>3, <2>4 DEF Lifecycle!Open, StatusOf, HeldOf
<1>2. ASSUME NEW w \in Workers, Moved(w),
             NEW c \in Cases, c = target[w], NEW from \in Statuses, from = move[w].from,
             NEW to \in Statuses, to = move[w].to
      PROVE  Lifecycle!Move(c, from, to)
  <2>1. from \in HeldOf[c]
    BY <1>2 DEF HeldOf, Moved
  <2>2. StatusOf' = [StatusOf EXCEPT ![c] = to]
    BY <1>2 DEF StatusOf, Moved, AllInv, TypeOK
  <2>3. HeldOf' = [HeldOf EXCEPT ![c] = @ \cup {to}]
    BY <1>2, MovedHeld DEF HeldOf
  <2>4. /\ Unvalidated' = Unvalidated \/ Unvalidated' = Unvalidated \cup {c}
        /\ <<from, to>> \notin Edges => Unvalidated' = Unvalidated \cup {c}
    BY <1>2, MovedHeld DEF Moved
  <2>. QED  BY <2>1, <2>2, <2>3, <2>4 DEF Lifecycle!Move, StatusOf, HeldOf
<1>3. ASSUME NEW w \in Workers, WrittenBack(w),
             NEW c \in Cases, c = target[w], NEW old \in Statuses, old = copy[w].status
      PROVE  Lifecycle!FallBack(c, old)
  <2>1. old \in HeldOf[c]
    BY <1>3 DEF HeldOf, WrittenBack
  <2>2. StatusOf' = [StatusOf EXCEPT ![c] = old]
    BY <1>3 DEF StatusOf, WrittenBack, AllInv, TypeOK
  <2>3. HeldOf' = HeldOf /\ Unvalidated' = Unvalidated
    BY <1>3, UnmovedHeld DEF HeldOf, WrittenBack
  <2>. QED  BY <2>1, <2>2, <2>3 DEF Lifecycle!FallBack, StatusOf, HeldOf
<1>4. CASE UNCHANGED <<stored, row, moves>>
  BY <1>4, UnmovedHeld DEF Lifecycle!lifecycleVars
<1>5. ASSUME NEW w \in Workers
      PROVE  \E c \in Cases, from, to, old \in Statuses :
               /\ c = target[w] /\ old = copy[w].status
               /\ from = move[w].from /\ to = move[w].to
  BY DEF AllInv, TypeOK, Row, MoveRecord
<1>6. ASSUME NEW w \in Workers, Created(w) \/ Moved(w) \/ WrittenBack(w)
      PROVE  Lifecycle!LifecycleNext
  <2>1. PICK c \in Cases, from \in Statuses, to \in Statuses, old \in Statuses :
          /\ c = target[w] /\ old = copy[w].status
          /\ from = move[w].from /\ to = move[w].to
    BY <1>5
  <2>. QED  BY <1>1, <1>2, <1>3, <1>6, <2>1 DEF Lifecycle!LifecycleNext
<1>. QED  BY <1>4, <1>6, StepKinds

\* The case handlers implement the life cycle for any number of workers and
\* cases: no interleaving of whole-row saves brings a status from elsewhere.
THEOREM CaseRefinesLifecycle == Spec => ImplementsLifecycle
BY LifecycleInits, LifecycleSteps, ReachableInv, PTL
DEF Spec, ImplementsLifecycle, Lifecycle!LifecycleSpec
=============================================================================
