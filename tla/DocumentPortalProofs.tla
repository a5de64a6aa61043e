------------------------ MODULE DocumentPortalProofs ------------------------
(***************************************************************************)
(* Theorems about DocumentService and, in the second part, PortalSession.  *)
(* The two components share no name, and no proof of one uses the other.   *)
(*                                                                         *)
(* Documents, for any number of pods, requests and documents: the types,   *)
(* what becomes of acknowledged and of deleted documents, what explains a  *)
(* file without a row, and the version count.                              *)
(***************************************************************************)
EXTENDS DocumentService, PortalSession, TLAPS

Upload == {"write", "create", "cleanup", "version", "count"}

\* A request that is under way has a document that was used; an id that was
\* not has no versions.
DocsKnown ==
  /\ \A w \in Workers : IF At(w, "idle") THEN Doc(w) = NoDoc ELSE Doc(w) \in used
  /\ \A d \in Docs \ used : versions[d] = 0

\* An upload runs on the pod of its file, is the only one of its document and
\* has not been answered.
UploadsAlone ==
  \A w \in Workers : work[w].at \in Upload =>
    /\ home[Doc(w)] = podOf[w] /\ Doc(w) \notin answered
    /\ \A v \in Workers : work[v].at \in Upload /\ Doc(v) = Doc(w) => v = w

\* Before its row is inserted nobody can find a document, to delete it.
NewSound ==
  \A w \in Workers : work[w].at \in {"write", "create"} =>
    Doc(w) \notin stored /\ Doc(w) \notin doomed

\* The row of a document whose first version is being recorded was inserted,
\* and its file was written: only a delete or a lost disk takes them away.
RecordsSound ==
  \A w \in Workers :
    /\ At(w, "create") => Doc(w) \in files \cup blamed
    /\ work[w].at \in {"version", "count"} =>
         /\ Doc(w) \in stored \cup deleted
         /\ Doc(w) \in files \cup blamed \cup doomed

\* How far version row and counter are when an upload is at a step.
VersionsSound ==
  \A w \in Workers :
    /\ work[w].at \in {"write", "create", "version"} => versions[Doc(w)] = 0
    /\ work[w].at \in {"version", "count"} => count[Doc(w)] = 1
    /\ At(w, "count") => versions[Doc(w)] = 1

\* A DELETE works on a document that was found, and leaves no file that
\* nothing explains; what it deleted has no row.
FileGone(d) == d \notin files \/ d \in blamed
DeletesSound ==
  /\ \A w \in Workers : /\ work[w].at \in {"remove", "delete"} => Doc(w) \in doomed
                        /\ At(w, "delete") => FileGone(Doc(w))
  /\ \A d \in deleted : d \notin stored /\ FileGone(d)

IInv == /\ TypeOK /\ DocsKnown /\ UploadsAlone /\ NewSound /\ RecordsSound /\ VersionsSound
        /\ DeletesSound /\ AcknowledgedKept /\ LeaksExplained /\ CountOneAhead

-----------------------------------------------------------------------------
\* The inductive invariant holds while nothing was uploaded.
THEOREM InitInv == Init => IInv
<1> SUFFICES ASSUME Init PROVE IInv
  OBVIOUS
<1>1. \A w \in Workers : work[w].at = "idle" /\ work[w].doc = NoDoc
  BY DEF Init
<1>2. TypeOK
  BY DEF Init, TypeOK, Steps
<1> QED
  BY <1>1, <1>2
  DEF Init, IInv, DocsKnown, UploadsAlone, NewSound, RecordsSound, VersionsSound, DeletesSound,
      AcknowledgedKept, LeaksExplained, CountOneAhead, At, Doc, Upload

\* Worker w goes to a step with document d, and nobody else moves.
Moves(w, step, d) ==
  /\ work'[w].at = step /\ work'[w].doc = d
  /\ \A v \in Workers \ {w} : work'[v] = work[v]

LEMMA MovesIs ==
  ASSUME TypeOK, NEW w \in Workers
  PROVE  /\ \A step \in Steps : Goto(w, step) => Moves(w, step, Doc(w))
         /\ Done(w) => Moves(w, "idle", NoDoc)
         /\ \A step \in Steps, d \in Docs :
              work' = [work EXCEPT ![w] = [at |-> step, doc |-> d]] => Moves(w, step, d)
BY DEF TypeOK, Moves, Goto, Done, Doc

\* The history only grows.
LEMMA HistoryGrows ==
  [Next]_vars => /\ used \subseteq used' /\ answered \subseteq answered'
                 /\ doomed \subseteq doomed' /\ deleted \subseteq deleted'
                 /\ blamed \subseteq blamed' /\ logged \subseteq logged'
BY DEF Next, vars, history, Rows, StartUpload, StartDelete, WriteFile, WriteFails, CreateRow, CreateFails,
  Cleanup, InsertVersion, CountVersion, AddVersionFails, RemoveFile, DeleteRow, DeleteFails, Restart

\* What a step may do to document d, and by whom.
RowMoves(d) ==
  /\ d \in stored' /\ d \notin stored =>
       \E w \in Workers : /\ At(w, "create") /\ Doc(w) = d /\ count'[d] = 1
                          /\ work'[w].at \in {"version", "cleanup"}
  /\ d \in stored /\ d \notin stored' => \E w \in Workers : At(w, "delete") /\ Doc(w) = d
  /\ count'[d] # count[d] =>
       \E w \in Workers :
         /\ Doc(w) = d /\ work'[w].at # "count" /\ d \in stored'
         /\ \/ At(w, "create") /\ count'[d] = 1
            \/ At(w, "count") /\ work'[w].at = "idle" /\ count'[d] = count[d] + 1
  /\ versions'[d] # versions[d] =>
       \E w \in Workers :
         /\ At(w, "version") /\ Doc(w) = d /\ work'[w].at \in {"count", "idle"}
         /\ versions'[d] = versions[d] + 1

Follows(w, step, next) == /\ At(w, step) /\ work'[w].at = next /\ work'[w].doc = Doc(w)
FileMoves(d) ==
  /\ d \in files' /\ d \notin files =>
       \E w \in Workers : /\ At(w, "write") /\ Doc(w) = d
                          /\ d \in blamed' \/ Follows(w, "write", "create")
  /\ d \in files /\ d \notin files' =>
       d \in blamed' \/ \E w \in Workers : work[w].at \in {"cleanup", "remove"} /\ Doc(w) = d

HistoryMoves(d) ==
  /\ d \in used' /\ d \notin used =>
       \E w \in Workers : At(w, "idle") /\ work'[w].at = "write" /\ work'[w].doc = d
  /\ home'[d] # home[d] => d \notin used
  /\ d \in answered' /\ d \notin answered =>
       \E w \in Workers : /\ work[w].at \in {"version", "count"} /\ Doc(w) = d
                          /\ work'[w].at = "idle"
  /\ d \in doomed' /\ d \notin doomed => d \in stored
  /\ d \in deleted' /\ d \notin deleted =>
       d \notin stored' /\ \E w \in Workers : At(w, "delete") /\ Doc(w) = d
  /\ d \in stored /\ d \notin stored' => d \in deleted'

LEMMA RowsMove ==
  ASSUME TypeOK, [Next]_vars, NEW d \in Docs
  PROVE  RowMoves(d)
<1>1. CASE UNCHANGED Rows
  BY <1>1 DEF Rows, RowMoves
<1>2. ASSUME NEW w \in Workers, CreateRow(w) \/ CreateFails(w) PROVE RowMoves(d)
  <2>1. CASE UNCHANGED Rows
    BY <1>1, <2>1
  <2>2. CASE InsertRow(Doc(w))
    <3>1. At(w, "create") /\ work'[w].at \in {"version", "cleanup"}
      BY <1>2, MovesIs DEF CreateRow, CreateFails, Moves, Steps
    <3> QED
      BY <2>2, <3>1 DEF InsertRow, RowMoves, TypeOK
  <2> QED
    BY <1>2, <2>1, <2>2 DEF CreateRow, CreateFails
<1>3. ASSUME NEW w \in Workers, InsertVersion(w) PROVE RowMoves(d)
  <2>1. At(w, "version") /\ work'[w].at = "count"
    BY <1>3, MovesIs DEF InsertVersion, Moves, Steps
  <2> QED
    BY <1>3, <2>1 DEF InsertVersion, RowMoves, TypeOK
<1>4. ASSUME NEW w \in Workers, CountVersion(w) PROVE RowMoves(d)
  <2>1. At(w, "count") /\ work'[w].at = "idle"
    BY <1>4, MovesIs DEF CountVersion, Moves
  <2>2. CASE Doc(w) \in stored
    BY <1>4, <2>1, <2>2 DEF CountVersion, RowMoves, TypeOK
  <2>3. CASE Doc(w) \notin stored
    BY <1>1, <1>4, <2>3 DEF CountVersion, Rows
  <2> QED
    BY <2>2, <2>3
<1>5. ASSUME NEW w \in Workers, AddVersionFails(w) PROVE RowMoves(d)
  <2>1. work'[w].at = "idle"
    BY <1>5, MovesIs DEF AddVersionFails, Moves
  <2>2. CASE At(w, "version")
    <3>1. UNCHANGED <<stored, count>> /\
          (versions' = versions \/ versions' = [versions EXCEPT ![Doc(w)] = @ + 1])
      BY <1>5, <2>2 DEF AddVersionFails, At
    <3> QED
      BY <2>1, <2>2, <3>1 DEF RowMoves, TypeOK
  <2>3. CASE At(w, "count")
    <3>1. /\ UNCHANGED <<stored, versions>>
          /\ \/ count' = count
             \/ count' = [count EXCEPT ![Doc(w)] = IF Doc(w) \in stored THEN @ + 1 ELSE @]
      BY <1>5, <2>3 DEF AddVersionFails, At
    <3> QED
      BY <2>1, <2>3, <3>1 DEF RowMoves, TypeOK
  <2> QED
    BY <1>5, <2>2, <2>3 DEF AddVersionFails
<1>6. ASSUME NEW w \in Workers, DeleteRow(w) \/ DeleteFails(w) PROVE RowMoves(d)
  BY <1>6 DEF DeleteRow, DeleteFails, RowMoves
<1> QED
  BY <1>1, <1>2, <1>3, <1>4, <1>5, <1>6
  DEF Next, vars, Rows, StartUpload, StartDelete, WriteFile, WriteFails, Cleanup, RemoveFile, Restart

LEMMA FilesMove ==
  ASSUME TypeOK, [Next]_vars, NEW d \in Docs
  PROVE  FileMoves(d)
<1>1. CASE files' = files
  BY <1>1 DEF FileMoves
<1>2. ASSUME NEW w \in Workers, WriteFile(w) \/ WriteFails(w) PROVE FileMoves(d)
  <2>1. WriteFile(w) => Follows(w, "write", "create")
    BY MovesIs DEF WriteFile, Moves, Follows, Steps
  <2> QED
    BY <1>2, <2>1 DEF WriteFile, WriteFails, FileMoves
<1>3. ASSUME NEW w \in Workers, Cleanup(w) \/ RemoveFile(w) PROVE FileMoves(d)
  BY <1>3 DEF Cleanup, RemoveFile, FileMoves, At
<1>4. ASSUME NEW p \in Pods, Restart(p) PROVE FileMoves(d)
  BY <1>4 DEF Restart, FileMoves
<1> QED
  BY <1>1, <1>2, <1>3, <1>4
  DEF Next, vars, history, StartUpload, StartDelete, CreateRow, CreateFails, InsertVersion, CountVersion,
      AddVersionFails, DeleteRow, DeleteFails

LEMMA HistoryMove ==
  ASSUME TypeOK, [Next]_vars, NEW d \in Docs
  PROVE  HistoryMoves(d)
<1>1. CASE UNCHANGED <<stored, used, home, answered, doomed, deleted>>
  BY <1>1 DEF HistoryMoves
<1>2. ASSUME NEW w \in Workers, NEW e \in Docs, StartUpload(w, e) PROVE HistoryMoves(d)
  <2>1. Moves(w, "write", e)
    BY <1>2, MovesIs DEF StartUpload, Steps
  <2> QED
    BY <1>2, <2>1 DEF StartUpload, Moves, Rows, HistoryMoves, TypeOK
<1>3. ASSUME NEW w \in Workers, NEW e \in Docs, StartDelete(w, e) PROVE HistoryMoves(d)
  BY <1>3 DEF StartDelete, Rows, HistoryMoves
<1>4. ASSUME NEW w \in Workers, CreateRow(w) \/ CreateFails(w) PROVE HistoryMoves(d)
  BY <1>4 DEF CreateRow, CreateFails, InsertRow, Rows, history, HistoryMoves
<1>5. ASSUME NEW w \in Workers, CountVersion(w) \/ AddVersionFails(w) PROVE HistoryMoves(d)
  <2>1. work'[w].at = "idle" /\ work[w].at \in {"version", "count"}
    BY <1>5, MovesIs DEF CountVersion, AddVersionFails, Moves, At
  <2> QED
    BY <1>5, <2>1 DEF CountVersion, AddVersionFails, HistoryMoves
<1>6. ASSUME NEW w \in Workers, DeleteRow(w) \/ DeleteFails(w) PROVE HistoryMoves(d)
  BY <1>6 DEF DeleteRow, DeleteFails, HistoryMoves
<1> QED
  BY <1>1, <1>2, <1>3, <1>4, <1>5, <1>6
  DEF Next, vars, Rows, history, WriteFile, WriteFails, Cleanup, InsertVersion, RemoveFile, Restart

-----------------------------------------------------------------------------
\* What a step may do to worker w.
Starts(w, next) == /\ At(w, "idle") /\ work'[w].at = next /\ work'[w].doc \in Docs
JobMoves(w) ==
  \/ work'[w] = work[w]
  \/ work'[w].at = "idle" /\ work'[w].doc = NoDoc
  \/ /\ Starts(w, "write")
     /\ work'[w].doc \in used' \ used /\ home'[work'[w].doc] = podOf[w]
     /\ \A v \in Workers \ {w} : work'[v] = work[v]
  \/ Starts(w, "remove") /\ work'[w].doc \in stored \cap doomed'
  \/ Follows(w, "write", "create") /\ Doc(w) \in files'
  \/ Follows(w, "create", "version") /\ Doc(w) \in stored' /\ count'[Doc(w)] = 1 /\ files' = files
  \/ Follows(w, "create", "cleanup")
  \/ Follows(w, "version", "count") /\ versions'[Doc(w)] = versions[Doc(w)] + 1
  \/ Follows(w, "remove", "delete") /\ FileGone(Doc(w))'

LEMMA JobsMove ==
  ASSUME TypeOK, DocsKnown, [Next]_vars, NEW w \in Workers
  PROVE  JobMoves(w)
<1>1. CASE work'[w] = work[w]
  BY <1>1 DEF JobMoves
<1>2. ASSUME NEW v \in Workers, Done(v) PROVE JobMoves(w)
  BY <1>1, <1>2, MovesIs DEF Moves, JobMoves
<1>3. ASSUME NEW v \in Workers, NEW step \in Steps, Goto(v, step), v # w PROVE JobMoves(w)
  BY <1>1, <1>3, MovesIs DEF Moves
<1>4. ASSUME NEW step \in Steps, Goto(w, step), work[w].at # "idle"
      PROVE  work'[w].at = step /\ work'[w].doc = Doc(w) /\ Doc(w) \in Docs
  BY <1>4, MovesIs DEF Moves, DocsKnown, TypeOK, At
<1>5. ASSUME NEW v \in Workers, NEW d \in Docs, StartUpload(v, d) PROVE JobMoves(w)
  <2>1. Moves(v, "write", d)
    BY <1>5, MovesIs DEF StartUpload, Steps
  <2>2. CASE v = w
    <3>1. d \in used' \ used /\ home'[d] = podOf[w]
      BY <1>5, <2>2 DEF StartUpload, TypeOK
    <3> QED
      BY <1>5, <2>1, <2>2, <3>1 DEF StartUpload, Moves, Starts, JobMoves
  <2> QED
    BY <1>1, <2>1, <2>2 DEF Moves
<1>6. ASSUME NEW v \in Workers, NEW d \in Docs, StartDelete(v, d) PROVE JobMoves(w)
  <2>1. Moves(v, "remove", d)
    BY <1>6, MovesIs DEF StartDelete, Steps
  <2>2. CASE v = w
    BY <1>6, <2>1, <2>2 DEF StartDelete, Moves, Starts, JobMoves
  <2> QED
    BY <1>1, <2>1, <2>2 DEF Moves
<1>7. ASSUME NEW v \in Workers, WriteFile(v) PROVE JobMoves(w)
  BY <1>3, <1>4, <1>7 DEF WriteFile, At, Follows, JobMoves, Steps
<1>8. ASSUME NEW v \in Workers, CreateRow(v) PROVE JobMoves(w)
  <2>1. CASE v = w
    <3>1. Follows(w, "create", "version") /\ Doc(w) \in Docs
      BY <1>4, <1>8, <2>1 DEF CreateRow, At, Follows, Steps
    <3>2. Doc(w) \in stored' /\ count'[Doc(w)] = 1 /\ files' = files
      BY <1>8, <2>1, <3>1 DEF CreateRow, InsertRow, TypeOK
    <3> QED
      BY <3>1, <3>2 DEF JobMoves
  <2> QED
    BY <1>3, <1>8, <2>1 DEF CreateRow, Steps
<1>9. ASSUME NEW v \in Workers, CreateFails(v) PROVE JobMoves(w)
  BY <1>3, <1>4, <1>9 DEF CreateFails, At, Follows, JobMoves, Steps
<1>10. ASSUME NEW v \in Workers, InsertVersion(v) PROVE JobMoves(w)
  <2>1. CASE v = w
    <3>1. Follows(w, "version", "count") /\ Doc(w) \in Docs
      BY <1>4, <1>10, <2>1 DEF InsertVersion, At, Follows, Steps
    <3>2. versions'[Doc(w)] = versions[Doc(w)] + 1
      BY <1>10, <2>1, <3>1 DEF InsertVersion, TypeOK
    <3> QED
      BY <3>1, <3>2 DEF JobMoves
  <2> QED
    BY <1>3, <1>10, <2>1 DEF InsertVersion, Steps
<1>11. ASSUME NEW v \in Workers, RemoveFile(v) PROVE JobMoves(w)
  <2>1. CASE v = w
    <3>1. Follows(w, "remove", "delete")
      BY <1>4, <1>11, <2>1 DEF RemoveFile, At, Follows, Steps
    <3>2. FileGone(Doc(w))'
      BY <1>11, <2>1, <3>1 DEF RemoveFile, FileGone, Follows, Doc
    <3> QED
      BY <3>1, <3>2 DEF JobMoves
  <2> QED
    BY <1>3, <1>11, <2>1 DEF RemoveFile, Steps
<1>12. ASSUME NEW p \in Pods, Restart(p) PROVE JobMoves(w)
  BY <1>1, <1>12 DEF Restart, JobMoves
<1> QED
  BY <1>1, <1>2, <1>5, <1>6, <1>7, <1>8, <1>9, <1>10, <1>11, <1>12
  DEF Next, vars, WriteFails, Cleanup, CountVersion, AddVersionFails, DeleteRow, DeleteFails

-----------------------------------------------------------------------------
LEMMA TypeStep == TypeOK /\ DocsKnown /\ VersionsSound /\ DeletesSound /\ [Next]_vars => TypeOK'
<1> SUFFICES ASSUME TypeOK, DocsKnown, VersionsSound, DeletesSound, [Next]_vars PROVE TypeOK'
  OBVIOUS
<1>1. \A w \in Workers : ~ At(w, "idle") => Doc(w) \in used /\ Doc(w) \in Docs
  BY DEF DocsKnown, TypeOK
<1>2. files' \subseteq used' /\ stored' \subseteq used'
  <2>1. ASSUME NEW d \in Docs, d \in files' \/ d \in stored' PROVE d \in used'
    <3>1. d \in used
      BY <1>1, <2>1, RowsMove, FilesMove DEF RowMoves, FileMoves, At, TypeOK
    <3> QED
      BY <3>1, HistoryGrows
  <2>2. files' \subseteq Docs /\ stored' \subseteq Docs
    BY <1>1 DEF Next, vars, history, Rows, StartUpload, StartDelete, WriteFile, WriteFails, CreateRow,
      CreateFails, InsertRow, Cleanup, InsertVersion, CountVersion, AddVersionFails, RemoveFile,
      DeleteRow, DeleteFails, Restart, At, TypeOK
  <2> QED
    BY <2>1, <2>2
<1>3. home' \in [Docs -> Pods]
  BY DocumentAssumption
  DEF Next, vars, StartUpload, StartDelete, WriteFile, WriteFails, CreateRow,
      CreateFails, Cleanup, InsertVersion, CountVersion, AddVersionFails, RemoveFile,
      DeleteRow, DeleteFails, Restart, TypeOK
<1>4. count' \in [Docs -> 0 .. 2]
  <2>1. ASSUME NEW w \in Workers, CreateRow(w) \/ CreateFails(w) PROVE count' \in [Docs -> 0 .. 2]
    BY <2>1 DEF CreateRow, CreateFails, InsertRow, Rows, TypeOK
  <2>2. ASSUME NEW w \in Workers, At(w, "count")
        PROVE  [count EXCEPT ![Doc(w)] = @ + 1] \in [Docs -> 0 .. 2]
    BY <1>1, <2>2 DEF VersionsSound, At, TypeOK
  <2>3. ASSUME NEW w \in Workers, CountVersion(w) PROVE count' \in [Docs -> 0 .. 2]
    BY <2>2, <2>3 DEF CountVersion, TypeOK
  <2>4. ASSUME NEW w \in Workers, AddVersionFails(w) PROVE count' \in [Docs -> 0 .. 2]
    <3>1. CASE Doc(w) \in stored
      BY <2>2, <2>4, <3>1 DEF AddVersionFails, TypeOK
    <3>2. CASE Doc(w) \notin stored
      BY <2>4, <3>2 DEF AddVersionFails, TypeOK
    <3> QED
      BY <3>1, <3>2
  <2> QED
    BY <2>1, <2>3, <2>4
    DEF Next, vars, history, Rows, StartUpload, StartDelete, WriteFile, WriteFails,
        Cleanup, InsertVersion, RemoveFile, DeleteRow, DeleteFails, Restart, TypeOK
<1>5. versions' \in [Docs -> 0 .. 1]
  <2>1. ASSUME NEW w \in Workers, At(w, "version")
        PROVE  [versions EXCEPT ![Doc(w)] = @ + 1] \in [Docs -> 0 .. 1]
    BY <1>1, <2>1 DEF VersionsSound, At, TypeOK
  <2>2. ASSUME NEW w \in Workers, InsertVersion(w) \/ AddVersionFails(w)
        PROVE  versions' \in [Docs -> 0 .. 1]
    BY <2>1, <2>2 DEF InsertVersion, AddVersionFails, TypeOK
  <2> QED
    BY <2>2
    DEF Next, vars, history, Rows, StartUpload, StartDelete, WriteFile, WriteFails, CreateRow,
        CreateFails, InsertRow, Cleanup, CountVersion, RemoveFile, DeleteRow, DeleteFails, Restart, TypeOK
<1>6. work' \in [Workers -> [at : Steps, doc : Docs \cup {NoDoc}]]
  <2>1. ASSUME NEW w \in Workers, NEW step \in Steps, Goto(w, step)
        PROVE  work' \in [Workers -> [at : Steps, doc : Docs \cup {NoDoc}]]
    BY <2>1 DEF Goto, TypeOK
  <2>2. ASSUME NEW w \in Workers, NEW step \in Steps, NEW d \in Docs \cup {NoDoc},
               work' = [work EXCEPT ![w] = [at |-> step, doc |-> d]]
        PROVE  work' \in [Workers -> [at : Steps, doc : Docs \cup {NoDoc}]]
    BY <2>2 DEF TypeOK
  <2>3. ASSUME NEW p \in Pods, Restart(p)
        PROVE  work' \in [Workers -> [at : Steps, doc : Docs \cup {NoDoc}]]
    BY <2>3 DEF Restart, TypeOK, Steps
  <2> QED
    BY <2>1, <2>2, <2>3
    DEF Next, vars, StartUpload, StartDelete, WriteFile, WriteFails, CreateRow,
        CreateFails, Cleanup, InsertVersion, CountVersion, AddVersionFails, RemoveFile,
        DeleteRow, DeleteFails, Done, Steps, TypeOK
<1>7. /\ used' \subseteq Docs /\ answered' \subseteq used' /\ doomed' \subseteq used'
      /\ deleted' \subseteq doomed' /\ blamed' \subseteq used'
  <2>1. \A w \in Workers : At(w, "delete") => Doc(w) \in doomed
    BY DEF DeletesSound, At
  <2> QED
    BY <1>1, <2>1
  DEF Next, vars, history, Rows, StartUpload, StartDelete, WriteFile, WriteFails, CreateRow,
      CreateFails, InsertRow, Cleanup, InsertVersion, CountVersion, AddVersionFails, RemoveFile,
      DeleteRow, DeleteFails, Restart, At, TypeOK
<1>8. logged' \subseteq answered'
  BY DEF Next, vars, history, StartUpload, StartDelete, WriteFile, WriteFails, CreateRow, CreateFails,
    Cleanup, InsertVersion, CountVersion, AddVersionFails, RemoveFile, DeleteRow, DeleteFails, Restart,
    TypeOK
<1> QED
  BY <1>2, <1>3, <1>4, <1>5, <1>6, <1>7, <1>8 DEF TypeOK

LEMMA DocsStep == TypeOK /\ DocsKnown /\ [Next]_vars => DocsKnown'
<1> SUFFICES ASSUME TypeOK, DocsKnown, [Next]_vars PROVE DocsKnown'
  OBVIOUS
<1>1. ASSUME NEW w \in Workers
      PROVE  IF work'[w].at = "idle" THEN work'[w].doc = NoDoc ELSE work'[w].doc \in used'
  <2>1. JobMoves(w) /\ used \subseteq used' /\ stored \subseteq used
    BY JobsMove, HistoryGrows DEF TypeOK
  <2> QED
    BY <2>1 DEF JobMoves, Starts, Follows, DocsKnown, At, Doc
<1>2. ASSUME NEW d \in Docs \ used' PROVE versions'[d] = 0
  BY <1>2, RowsMove, HistoryGrows DEF RowMoves, DocsKnown, At
<1> QED
  BY <1>1, <1>2 DEF DocsKnown, At, Doc

-----------------------------------------------------------------------------
\* An upload after a step was one before it, or has just begun.
LEMMA UploadsGoOn ==
  ASSUME TypeOK, DocsKnown, [Next]_vars, NEW w \in Workers, work'[w].at \in Upload
  PROVE  \/ work[w].at \in Upload /\ work'[w].doc = Doc(w) /\ Doc(w) \in used
         \/ /\ At(w, "idle") /\ work'[w].at = "write"
            /\ work'[w].doc \in Docs \ used /\ home'[work'[w].doc] = podOf[w]
            /\ \A v \in Workers \ {w} : work'[v] = work[v]
<1>1. JobMoves(w)
  BY JobsMove
<1>2. work[w].at \in Upload => Doc(w) \in used
  BY DEF DocsKnown, Upload, At
<1> QED
  BY <1>1, <1>2 DEF JobMoves, Starts, Follows, Upload, At, Doc

LEMMA UploadsStep == TypeOK /\ DocsKnown /\ UploadsAlone /\ [Next]_vars => UploadsAlone'
<1> SUFFICES ASSUME TypeOK, DocsKnown, UploadsAlone, [Next]_vars,
                    NEW w \in Workers, work'[w].at \in Upload, NEW d, d = work'[w].doc
             PROVE  /\ home'[d] = podOf[w] /\ d \notin answered'
                    /\ \A v \in Workers : work'[v].at \in Upload /\ work'[v].doc = d => v = w
  BY DEF UploadsAlone, Doc
<1>1. \A v \in Workers : work[v].at \in Upload => Doc(v) \in used
  BY DEF DocsKnown, Upload, At
<1>2. CASE /\ work'[w].at = "write" /\ d \in Docs \ used /\ home'[d] = podOf[w]
           /\ \A v \in Workers \ {w} : work'[v] = work[v]
  <2>1. d \notin answered'
    BY <1>1, <1>2, HistoryMove DEF HistoryMoves, TypeOK, Upload
  <2> QED
    BY <1>1, <1>2, <2>1 DEF Doc
<1>3. CASE work[w].at \in Upload /\ d = Doc(w) /\ d \in used
  <2>1. d \in Docs
    BY <1>3 DEF TypeOK
  <2>2. home'[d] = podOf[w]
    BY <1>3, <2>1, HistoryMove DEF HistoryMoves, UploadsAlone
  <2>3. d \notin answered'
    BY <1>3, <2>1, HistoryMove DEF HistoryMoves, UploadsAlone, Upload
  <2>4. ASSUME NEW v \in Workers, work'[v].at \in Upload, work'[v].doc = d PROVE v = w
    BY <1>3, <2>4, UploadsGoOn DEF UploadsAlone
  <2> QED
    BY <2>2, <2>3, <2>4
<1> QED
  BY <1>2, <1>3, UploadsGoOn

\* Nobody else was uploading its document before the step.
LEMMA UploadOfDoc ==
  ASSUME TypeOK, DocsKnown, UploadsAlone, [Next]_vars, NEW w \in Workers, work'[w].at \in Upload,
         NEW u \in Workers, work[u].at \in Upload, Doc(u) = work'[w].doc
  PROVE  u = w
<1>1. Doc(u) \in used
  BY DEF DocsKnown, Upload, At
<1> QED
  BY <1>1, UploadsGoOn DEF UploadsAlone

LEMMA NewStep == TypeOK /\ DocsKnown /\ UploadsAlone /\ NewSound /\ [Next]_vars => NewSound'
<1> SUFFICES ASSUME TypeOK, DocsKnown, UploadsAlone, NewSound, [Next]_vars,
                    NEW w \in Workers, work'[w].at \in {"write", "create"},
                    NEW d, d = work'[w].doc
             PROVE  d \notin stored' /\ d \notin doomed'
  BY DEF NewSound, Doc
<1>1. /\ d \in Docs /\ d \notin stored /\ d \notin doomed
      /\ d \in used => work[w].at \in Upload /\ Doc(w) = d
  BY UploadsGoOn, JobsMove DEF JobMoves, Starts, Follows, NewSound, Upload, At, Doc, TypeOK
<1>2. d \notin doomed'
  BY <1>1, HistoryMove DEF HistoryMoves
<1>3. ASSUME NEW u \in Workers, At(u, "create"), Doc(u) = d,
             work'[u].at \in {"version", "cleanup"}
      PROVE  FALSE
  <2>1. work[u].at \in Upload /\ d \in used
    BY <1>3 DEF DocsKnown, Upload, At
  <2> QED
    BY <1>1, <1>3, <2>1 DEF UploadsAlone
<1>4. d \notin stored'
  BY <1>1, <1>3, RowsMove DEF RowMoves
<1> QED
  BY <1>2, <1>4

\* While a document is being uploaded, its row and its file are safe from
\* everybody but a DELETE and the loss of the disk.
LEMMA RowStays ==
  ASSUME TypeOK, [Next]_vars, NEW d \in Docs, d \in stored \cup deleted
  PROVE  d \in stored' \cup deleted'
BY HistoryMove, HistoryGrows DEF HistoryMoves

LEMMA FileStays ==
  ASSUME TypeOK, DeletesSound, [Next]_vars, NEW d \in Docs, d \in files \cup blamed \cup doomed,
         \A u \in Workers : At(u, "cleanup") => Doc(u) # d
  PROVE  d \in files' \cup blamed' \cup doomed'
BY FilesMove, HistoryGrows DEF FileMoves, DeletesSound, At

LEMMA RecordsStep ==
  TypeOK /\ DocsKnown /\ UploadsAlone /\ NewSound /\ RecordsSound /\ DeletesSound /\ [Next]_vars
    => RecordsSound'
<1> SUFFICES ASSUME TypeOK, DocsKnown, UploadsAlone, NewSound, RecordsSound, DeletesSound,
                    [Next]_vars, NEW w \in Workers, NEW d, d = work'[w].doc
             PROVE  /\ work'[w].at = "create" => d \in files' \cup blamed'
                    /\ work'[w].at \in {"version", "count"} =>
                         d \in stored' \cup deleted' /\ d \in files' \cup blamed' \cup doomed'
  BY DEF RecordsSound, At, Doc
<1>1. JobMoves(w)
  BY JobsMove
<1>2. ASSUME work'[w].at \in {"create", "version", "count"}
      PROVE  /\ d \in Docs /\ d = Doc(w) /\ work[w].at \in Upload
             /\ \A u \in Workers : At(u, "cleanup") => Doc(u) # d
  <2>1. d = Doc(w) /\ work[w].at \in Upload /\ work[w].at # "cleanup" /\ d \in used
    BY <1>1, <1>2, UploadsGoOn DEF JobMoves, Starts, Follows, Upload, At, Doc
  <2>2. ASSUME NEW u \in Workers, At(u, "cleanup"), Doc(u) = d PROVE FALSE
    <3>1. u = w
      BY <1>2, <2>2, UploadOfDoc DEF Upload, At
    <3> QED
      BY <2>1, <2>2, <3>1 DEF At
  <2>3. d \in Docs
    BY <2>1 DEF TypeOK
  <2> QED
    BY <2>1, <2>2, <2>3
<1>3. CASE work'[w].at = "create"
  <2>1. CASE d \in files'
    BY <1>3, <2>1
  <2>2. CASE d \notin files'
    <3>1. At(w, "create") /\ d \notin doomed /\ d \in files \cup blamed
      BY <1>1, <1>2, <1>3, <2>2 DEF JobMoves, Starts, Follows, At, Doc, NewSound, RecordsSound
    <3>2. \A u \in Workers : At(u, "remove") => Doc(u) # d
      BY <3>1 DEF DeletesSound, At
    <3> QED
      BY <1>2, <1>3, <2>2, <3>1, <3>2, FilesMove, HistoryGrows DEF FileMoves, At
  <2> QED
    BY <1>3, <2>1, <2>2
<1>4. CASE work'[w].at \in {"version", "count"}
  <2>1. d \in files \cup blamed \cup doomed
    BY <1>1, <1>2, <1>4 DEF JobMoves, Starts, Follows, At, Doc, RecordsSound
  <2>2. d \in files' \cup blamed' \cup doomed'
    BY <1>2, <1>4, <2>1, FileStays
  <2>3. d \in stored' \/ d \in stored \cup deleted
    BY <1>1, <1>2, <1>4 DEF JobMoves, Starts, Follows, At, Doc, RecordsSound
  <2>4. d \in stored' \cup deleted'
    BY <1>2, <1>4, <2>3, RowStays
  <2> QED
    BY <1>4, <2>2, <2>4
<1> QED
  BY <1>3, <1>4

LEMMA VersionsStep ==
  TypeOK /\ DocsKnown /\ UploadsAlone /\ VersionsSound /\ [Next]_vars => VersionsSound'
<1> SUFFICES ASSUME TypeOK, DocsKnown, UploadsAlone, VersionsSound, [Next]_vars,
                    NEW w \in Workers, NEW d, d = work'[w].doc, work'[w].at \in Upload
             PROVE  /\ work'[w].at \in {"write", "create", "version"} => versions'[d] = 0
                    /\ work'[w].at \in {"version", "count"} => count'[d] = 1
                    /\ work'[w].at = "count" => versions'[d] = 1
  BY DEF VersionsSound, At, Doc, Upload
<1>1. JobMoves(w) /\ d \in Docs /\ RowMoves(d)
  BY JobsMove, RowsMove, UploadsGoOn DEF TypeOK
<1>2. \A u \in Workers : work[u].at \in Upload /\ Doc(u) = d => u = w
  BY UploadOfDoc
<1>3. versions'[d] # versions[d] => At(w, "version") /\ work'[w].at = "count"
  BY <1>1, <1>2 DEF RowMoves, At, Upload
<1>4. count'[d] # count[d] => At(w, "create") /\ count'[d] = 1
  BY <1>1, <1>2 DEF RowMoves, At, Upload
<1>5. ASSUME work'[w].at \in {"write", "create", "version"} PROVE versions'[d] = 0
  <2>1. versions[d] = 0
    BY <1>1, <1>5 DEF JobMoves, Starts, Follows, At, Doc, VersionsSound, DocsKnown
  <2> QED
    BY <1>3, <1>5, <2>1
<1>6. ASSUME work'[w].at \in {"version", "count"} PROVE count'[d] = 1
  <2>1. count'[d] = 1 \/ count[d] = 1
    BY <1>1, <1>6 DEF JobMoves, Starts, Follows, At, Doc, VersionsSound
  <2> QED
    BY <1>4, <2>1
<1>7. ASSUME work'[w].at = "count" PROVE versions'[d] = 1
  <2>1. CASE At(w, "version") /\ Doc(w) = d /\ versions'[d] = versions[d] + 1
    BY <2>1 DEF VersionsSound, At
  <2>2. CASE At(w, "count") /\ Doc(w) = d
    BY <1>3, <2>2 DEF VersionsSound, At
  <2> QED
    BY <1>1, <1>7, <2>1, <2>2 DEF JobMoves, Starts, Follows, At, Doc
<1> QED
  BY <1>5, <1>6, <1>7

-----------------------------------------------------------------------------
\* No upload writes the file of a document that a DELETE has found.
LEMMA GoneStays ==
  ASSUME TypeOK, NewSound, [Next]_vars, NEW d \in doomed, FileGone(d)
  PROVE  d \notin files' \/ d \in blamed'
<1>1. d \in Docs /\ \A w \in Workers : At(w, "write") => Doc(w) # d
  BY DEF TypeOK, NewSound, At
<1> QED
  BY <1>1, FilesMove, HistoryGrows DEF FileMoves, FileGone

LEMMA DeletesStep ==
  TypeOK /\ DocsKnown /\ NewSound /\ DeletesSound /\ [Next]_vars => DeletesSound'
<1> SUFFICES ASSUME TypeOK, DocsKnown, NewSound, DeletesSound, [Next]_vars PROVE DeletesSound'
  OBVIOUS
<1>1. ASSUME NEW w \in Workers, work'[w].at \in {"remove", "delete"} PROVE work'[w].doc \in doomed'
  BY <1>1, JobsMove, HistoryGrows DEF JobMoves, Starts, Follows, DeletesSound, At, Doc
<1>2. ASSUME NEW w \in Workers, work'[w].at = "delete"
      PROVE  work'[w].doc \notin files' \/ work'[w].doc \in blamed'
  <2>1. CASE Follows(w, "remove", "delete") /\ FileGone(Doc(w))'
    BY <2>1 DEF FileGone, Doc
  <2>2. CASE work'[w] = work[w]
    BY <1>2, <2>2, GoneStays DEF DeletesSound, At, Doc
  <2> QED
    BY <1>2, <2>1, <2>2, JobsMove DEF JobMoves, Starts, Follows
<1>3. ASSUME NEW d \in deleted' PROVE d \notin stored' /\ (d \notin files' \/ d \in blamed')
  <2>1. d \in Docs
    BY <1>3, TypeStep DEF DeletesSound, Next, vars, history, Rows, StartUpload, StartDelete, WriteFile,
      WriteFails, CreateRow, CreateFails, Cleanup, InsertVersion, CountVersion, AddVersionFails,
      RemoveFile, DeleteRow, DeleteFails, Restart, At, TypeOK
  <2>2. CASE d \in deleted
    <3>1. d \in doomed /\ d \notin stored /\ FileGone(d)
      BY <2>2 DEF DeletesSound, TypeOK
    <3>2. \A w \in Workers : At(w, "create") => Doc(w) # d
      BY <3>1 DEF NewSound, At
    <3> QED
      BY <2>1, <3>1, <3>2, GoneStays, RowsMove DEF RowMoves
  <2>3. CASE d \notin deleted
    <3>1. d \notin stored' /\ \E w \in Workers : At(w, "delete") /\ Doc(w) = d
      BY <1>3, <2>1, <2>3, HistoryMove DEF HistoryMoves
    <3>2. d \in doomed /\ FileGone(d)
      BY <3>1 DEF DeletesSound, At
    <3> QED
      BY <3>1, <3>2, GoneStays
  <2> QED
    BY <2>2, <2>3
<1> QED
  BY <1>1, <1>2, <1>3 DEF DeletesSound, FileGone, At, Doc

-----------------------------------------------------------------------------
\* An acknowledged document loses its row and its file to nobody but a DELETE
\* that found it, or with its disk: the clean-up of a failed upload is about
\* a document of its own.
LEMMA AnsweredStep == IInv /\ [Next]_vars => AcknowledgedKept'
<1> USE DEF IInv
<1> SUFFICES ASSUME IInv, TypeOK', [Next]_vars, NEW d \in answered', d \notin doomed'
             PROVE  d \in stored' /\ (d \in files' \/ d \in blamed')
  BY TypeStep DEF AcknowledgedKept
<1>1. d \in Docs /\ d \notin deleted' /\ d \notin doomed
  BY HistoryGrows DEF TypeOK
<1>2. /\ d \in stored \cup deleted /\ d \in files \cup blamed \cup doomed
      /\ \A u \in Workers : At(u, "cleanup") => Doc(u) # d
  <2>1. CASE d \in answered
    <3>1. \A u \in Workers : At(u, "cleanup") => Doc(u) # d
      BY <2>1 DEF UploadsAlone, Upload, At
    <3> QED
      BY <1>1, <2>1, <3>1 DEF AcknowledgedKept
  <2>2. CASE d \notin answered
    <3>1. PICK w \in Workers : work[w].at \in {"version", "count"} /\ Doc(w) = d
      BY <1>1, <2>2, HistoryMove DEF HistoryMoves
    <3>2. ASSUME NEW u \in Workers, At(u, "cleanup"), Doc(u) = d PROVE FALSE
      BY <3>1, <3>2 DEF UploadsAlone, Upload, At
    <3> QED
      BY <3>1, <3>2 DEF RecordsSound
  <2> QED
    BY <2>1, <2>2
<1>3. d \in stored'
  BY <1>1, <1>2, RowStays
<1>4. d \in files' \cup blamed' \cup doomed'
  BY <1>1, <1>2, FileStays
<1> QED
  BY <1>3, <1>4

\* A request that ends after it wrote a file or removed one leaves a row, or
\* no file that nothing explains.
LEMMA LeavesSound ==
  ASSUME IInv, [Next]_vars,
         NEW w \in Workers, work[w].at \notin {"idle", "remove"}, work'[w].at = "idle",
         Doc(w) \notin stored', Doc(w) \in files'
  PROVE  Doc(w) \in blamed'
<1> USE DEF IInv
<1>1. Doc(w) \in Docs
  BY DEF DocsKnown, TypeOK, At
<1>2. CASE At(w, "delete")
  BY <1>2, GoneStays DEF DeletesSound, At
<1>3. CASE work[w].at \in {"version", "count"}
  <2>1. Doc(w) \in deleted'
    BY <1>1, <1>3, RowStays DEF RecordsSound
  <2> QED
    BY <2>1, DeletesStep DEF DeletesSound, FileGone
<1>4. CASE work[w].at \in {"write", "create", "cleanup"}
  <2>1. \A v \in Workers, step \in Steps : \A e : Moves(v, step, e) => v = w /\ step = "idle"
    BY <1>4 DEF Moves
  <2>2. ASSUME NEW p \in Pods, Restart(p) PROVE FALSE
    <3>1. podOf[w] = p
      BY <1>4, <2>2 DEF Restart, TypeOK
    <3>2. home[Doc(w)] = p
      BY <1>4, <3>1 DEF UploadsAlone, Upload
    <3> QED
      BY <1>1, <2>2, <3>2 DEF Restart
  <2>3. ASSUME NEW v \in Workers, NEW step \in Steps \ {"idle"}, Goto(v, step) PROVE FALSE
    BY <2>1, <2>3, MovesIs
  <2>4. ASSUME NEW v \in Workers, Done(v) PROVE v = w
    BY <2>1, <2>4, MovesIs DEF Steps
  <2>5. ASSUME NEW v \in Workers, NEW e \in Docs, StartUpload(v, e) \/ StartDelete(v, e) PROVE FALSE
    <3>1. Moves(v, "write", e) \/ Moves(v, "remove", e)
      BY <2>5, MovesIs DEF StartUpload, StartDelete, Steps
    <3> QED
      BY <2>1, <3>1 DEF Steps
  <2>6. ASSUME NEW v \in Workers, WriteFails(v) \/ Cleanup(v) PROVE Doc(w) \in blamed'
    BY <2>4, <2>6 DEF WriteFails, Cleanup
  <2>7. ASSUME NEW v \in Workers,
               CountVersion(v) \/ AddVersionFails(v) \/ DeleteRow(v) \/ DeleteFails(v)
        PROVE  FALSE
    BY <1>4, <2>4, <2>7 DEF CountVersion, AddVersionFails, DeleteRow, DeleteFails, At
  <2>8. ASSUME NEW v \in Workers,
               \/ WriteFile(v) \/ CreateRow(v) \/ CreateFails(v)
               \/ InsertVersion(v) \/ RemoveFile(v)
        PROVE  FALSE
    BY <2>3, <2>8 DEF WriteFile, CreateRow, CreateFails, InsertVersion, RemoveFile, Steps
  <2>9. work' # work
    BY <1>4
  <2> QED
    BY <2>2, <2>5, <2>6, <2>7, <2>8, <2>9 DEF Next, vars
<1> QED
  BY <1>2, <1>3, <1>4 DEF TypeOK, Steps, At

LEMMA LeaksStep == IInv /\ [Next]_vars => LeaksExplained'
<1> USE DEF IInv
<1> SUFFICES ASSUME IInv, [Next]_vars, NEW d \in files', d \notin stored', d \notin blamed'
             PROVE  \E w \in Workers : work'[w].doc = d /\ work'[w].at # "remove"
  BY DEF LeaksExplained, At, Doc
<1>1. d \in Docs /\ d \notin blamed /\ FileMoves(d)
  BY TypeStep, HistoryGrows, FilesMove DEF TypeOK
<1>2. CASE d \notin files
  BY <1>1, <1>2 DEF FileMoves, Follows
<1>3. CASE d \in files /\ d \in stored
  <2>1. PICK w \in Workers : At(w, "delete") /\ Doc(w) = d
    BY <1>1, <1>3, RowsMove DEF RowMoves
  <2> QED
    BY <1>1, <1>3, <2>1 DEF DeletesSound, FileGone
<1>4. CASE d \in files /\ d \notin stored
  <2>1. PICK w \in Workers : Doc(w) = d /\ ~ At(w, "remove")
    BY <1>1, <1>4 DEF LeaksExplained
  <2>2. work[w].at # "idle"
    BY <1>1, <2>1, DocumentAssumption DEF DocsKnown, At
  <2>3. work'[w].at # "idle"
    BY <2>1, <2>2, LeavesSound DEF At
  <2>4. JobMoves(w)
    BY JobsMove
  <2> QED
    BY <2>1, <2>2, <2>3, <2>4 DEF JobMoves, Starts, Follows, At, Doc
<1> QED
  BY <1>2, <1>3, <1>4

\* An upload is answered without an error in the log only when it has counted
\* its version.
LEMMA AnswersCounted ==
  ASSUME [Next]_vars, NEW d \in answered' \ answered, d \notin logged'
  PROVE  \E w \in Workers : CountVersion(w) /\ Doc(w) = d
<1>1. ASSUME NEW w \in Workers, AddVersionFails(w) PROVE FALSE
  BY <1>1 DEF AddVersionFails
<1>2. ASSUME NEW w \in Workers, CountVersion(w) PROVE Doc(w) = d
  BY <1>2 DEF CountVersion
<1> QED
  BY <1>1, <1>2
  DEF Next, vars, history, StartUpload, StartDelete, WriteFile, WriteFails, CreateRow, CreateFails,
      Cleanup, InsertVersion, RemoveFile, DeleteRow, DeleteFails, Restart

LEMMA CountStep == IInv /\ [Next]_vars => CountOneAhead'
<1> USE DEF IInv
<1> SUFFICES ASSUME IInv, [Next]_vars, TypeOK', NEW d \in stored'
             PROVE  /\ count'[d] \in versions'[d] .. versions'[d] + 1
                    /\ d \in answered' \ logged' => count'[d] = versions'[d] + 1
  BY TypeStep DEF CountOneAhead
<1>1. d \in Docs /\ RowMoves(d)
  BY RowsMove DEF TypeOK
<1>2. versions'[d] >= versions[d] /\ versions[d] \in 0 .. 1 /\ versions'[d] \in 0 .. 1
  BY <1>1 DEF RowMoves, TypeOK
<1>3. count'[d] \in versions'[d] .. versions'[d] + 1
  <2>1. CASE count'[d] = count[d] /\ d \in stored /\ versions'[d] = versions[d]
    BY <2>1 DEF CountOneAhead
  <2>2. CASE count'[d] = 1
    BY <1>2, <2>2
  <2>3. ASSUME NEW w \in Workers, At(w, "version"), Doc(w) = d, count'[d] = count[d]
        PROVE  count'[d] = 1
    BY <2>3 DEF VersionsSound, At
  <2>4. ASSUME NEW w \in Workers, At(w, "count"), Doc(w) = d, count'[d] = count[d] + 1
        PROVE  count'[d] \in versions'[d] .. versions'[d] + 1
    <3>1. count[d] = 1 /\ versions[d] = 1
      BY <2>4 DEF VersionsSound, At
    <3> QED
      BY <1>2, <2>4, <3>1
  <2> QED
    BY <1>1, <2>1, <2>2, <2>3, <2>4 DEF RowMoves
<1>4. ASSUME d \in answered, d \notin logged'
      PROVE  count'[d] = versions'[d] + 1
  <2>1. \A w \in Workers : work[w].at \in Upload => Doc(w) # d
    BY <1>4 DEF UploadsAlone
  <2>2. d \in stored /\ count'[d] = count[d] /\ versions'[d] = versions[d]
    BY <1>1, <2>1 DEF RowMoves, Upload, At
  <2>3. d \notin logged
    BY <1>4, HistoryGrows
  <2> QED
    BY <1>4, <2>2, <2>3 DEF CountOneAhead
<1>5. ASSUME d \in answered' \ answered, d \notin logged'
      PROVE  count'[d] = versions'[d] + 1
  <2>1. PICK w \in Workers : CountVersion(w) /\ Doc(w) = d
    BY <1>5, AnswersCounted
  <2>2. count[d] = 1 /\ versions[d] = 1
    BY <2>1 DEF VersionsSound, CountVersion, At
  <2>3. d \in stored /\ versions' = versions
    BY <2>1 DEF CountVersion
  <2>4. count'[d] = count[d] + 1
    BY <1>1, <2>1, <2>3 DEF CountVersion, TypeOK
  <2> QED
    BY <2>2, <2>3, <2>4
<1> QED
  BY <1>3, <1>4, <1>5

-----------------------------------------------------------------------------
LEMMA InvStep == IInv /\ [Next]_vars => IInv'
BY TypeStep, DocsStep, UploadsStep, NewStep, RecordsStep, VersionsStep, DeletesStep, AnsweredStep,
   LeaksStep, CountStep DEF IInv

\* Uploads, deletes, their failures and restarts of pods keep the inductive
\* invariant.
THEOREM Invariance == Spec => []IInv
BY InitInv, InvStep, PTL DEF Spec

\* The types of the variables, with the bounds of the counters: a row counts
\* two versions at most and one version is recorded.
THEOREM TypesHold == Spec => []TypeOK
<1>1. IInv => TypeOK
  BY DEF IInv
<1> QED
  BY <1>1, Invariance, PTL

\* handler.go's upload: a document whose upload was answered 201 keeps row
\* and file until a DELETE finds it or its disk goes, whatever other requests
\* fail in between.
THEOREM AcknowledgedDocumentsKept == Spec => []AcknowledgedKept
<1>1. IInv => AcknowledgedKept
  BY DEF IInv
<1> QED
  BY <1>1, Invariance, PTL

\* The error paths of upload and delete: a file without a row is somebody's
\* work, or a failed call or another pod explains it.
THEOREM LeaksHaveReasons == Spec => []LeaksExplained
<1>1. IInv => LeaksExplained
  BY DEF IInv
<1> QED
  BY <1>1, Invariance, PTL

\* UploadDocument counts the first version in the new row and AddVersion counts
\* it again: version_count is one ahead of the version rows after every upload
\* whose AddVersion did not fail, and never behind them.
THEOREM CountsRunAhead == Spec => []CountOneAhead
<1>1. IInv => CountOneAhead
  BY DEF IInv
<1> QED
  BY <1>1, Invariance, PTL

\* The counting of the first version brings no deleted row back.
THEOREM DeletedStayDeleted == Spec => DeletedStaysDeleted
<1>1. IInv /\ IInv' /\ [Next]_vars => [GoneForGood]_vars
  BY HistoryGrows DEF IInv, DeletesSound, GoneForGood
<1>2. IInv /\ [Next]_vars => IInv'
  BY InvStep
<1> QED
  BY <1>1, <1>2, InitInv, PTL DEF Spec, DeletedStaysDeleted

-----------------------------------------------------------------------------
(***************************************************************************)
(* PortalSession, for any tabs, components and number of logins: types, and*)
(* the pairing of the two tokens in localStorage.                          *)
(*                                                                         *)
(* The pairing holds because no refresh of the portal ever succeeds (its   *)
(* body carries no refresh_token), so a login is the only writer of tokens *)
(* and writes both.  RefreshesFail makes it inductive.                     *)
(***************************************************************************)
\* No refresh that a page awaits succeeds, and none is answered with the 401
\* that would start the next.
RefreshesFail ==
  \A c \in Calls : call[c].at = "renewed" => call[c].status \in {"rejected", "failed"}

PortalInv == PortalTypeOK /\ TokensPaired /\ RefreshesFail

LEMMA PageTyped == \A c \in Calls : pageOf[c] \in Tabs
  BY PageAssumption DEF Calls

LEMMA PendingGrows ==
  ASSUME NEW n \in Nat, NEW m \in Nat, n <= m
  PROVE  0 .. n \subseteq 0 .. m /\ Pending(n) \subseteq Pending(m)
  BY DEF Pending

LEMMA NoCallTyped == \A n \in Nat : NoCall \in Pending(n)
  BY DEF NoCall, Pending, Posted, None

\* What a page puts on the wire names what localStorage holds.
LEMMA RequestTyped ==
  ASSUME PortalTypeOK, NEW kind \in {"login", "welcome", "boot", "logout", "query"}
  PROVE  /\ Request(kind) \in Pending(issued)
         /\ Request(kind).at = "sent"
  BY DEF Request, Pending, Posted, None, PortalTypeOK

\* The portal's body carries no key the handlers read.
LEMMA NothingDecoded ==
  ASSUME NEW n \in Nat, NEW body \in [refreshToken : 0 .. n]
  PROVE  Decoded(body) = None
  <1>1. DOMAIN body = {"refreshToken"}
    OBVIOUS
  <1> QED BY <1>1 DEF Decoded

LEMMA StatusesKnown ==
  ASSUME NEW n \in Nat, NEW k \in Pending(n), NEW status \in Statuses(k)
  PROVE  /\ status \in {"ok", "rejected", "unauthorized"}
         /\ k.at = "renew" => status = "rejected"
  <1>1. Posted(k.session) \in [refreshToken : 0 .. n] /\ k.body \in [refreshToken : 0 .. n]
    BY DEF Pending, Posted
  <1>2. Decoded(Posted(k.session)) = None /\ Decoded(k.body) = None
    BY <1>1, NothingDecoded
  <1> QED BY <1>2 DEF Statuses, QueryStatuses, RefreshStatus, LogoutStatus, MissingToken

\* An answer reaches its call and no other.
LEMMA BackTyped ==
  ASSUME NEW n \in Nat, call \in [Calls -> Pending(n)], NEW c \in Calls,
         NEW status \in {"ok", "rejected", "unauthorized", "failed"},
         NEW session \in 0 .. n, Back(c, status, session)
  PROVE  /\ call' \in [Calls -> Pending(n)]
         /\ \A d \in Calls \ {c} : call'[d] = call[d]
         /\ call'[c].kind = call[c].kind
         /\ call'[c].status = status /\ call'[c].session = session
         /\ call'[c].at = IF call[c].at \in {"renew", "renewed"} THEN "renewed" ELSE "back"
  <1> DEFINE k == call[c]
             at == IF k.at \in {"renew", "renewed"} THEN "renewed" ELSE "back"
             r == [k EXCEPT !.at = at, !.status = status, !.session = session]
  <1>1. k \in Pending(n) /\ at \in {"renewed", "back"}
    OBVIOUS
  <1>2. /\ r \in Pending(n) /\ r.kind = k.kind
        /\ r.status = status /\ r.session = session /\ r.at = at
    BY <1>1 DEF Pending
  <1>3. call' = [call EXCEPT ![c] = r]
    BY <1>1 DEF Back, Pending
  <1> HIDE DEF r
  <1> QED BY <1>2, <1>3

-----------------------------------------------------------------------------
LEMMA PortalStarts == PortalInit => PortalInv
  BY BoundAssumption, NoCallTyped
  DEF PortalInit, PortalInv, PortalTypeOK, TokensPaired, RefreshesFail, Empty, None, Sessions, NoCall

LEMMA ServeStep ==
  ASSUME PortalInv, NEW c \in Calls, Serve(c)
  PROVE  PortalInv'
  <1>1. issued \in Nat /\ call \in [Calls -> Pending(issued)]
    BY BoundAssumption DEF PortalInv, PortalTypeOK
  <1>2. CASE Answer(c)
    <2> DEFINE k == call[c]
    <2>1. PICK status \in Statuses(k) :
            /\ Back(c, status, IF k.at = "renew"
                                 THEN Decoded(IF k.at = "renew" THEN Posted(k.session) ELSE k.body)
                                 ELSE None)
            /\ expired' = IF k.at = "renew" /\ status = "ok"
                 THEN expired \ {Decoded(IF k.at = "renew" THEN Posted(k.session) ELSE k.body)}
                 ELSE expired
            /\ revoked' = IF k.kind = "logout" /\ k.at = "sent" /\ status = "ok"
                 THEN revoked \cup {Decoded(IF k.at = "renew" THEN Posted(k.session) ELSE k.body)}
                 ELSE revoked
      BY <1>2 DEF Answer
    <2>2. k \in Pending(issued)
      BY <1>1
    <2>3. status \in {"ok", "rejected", "unauthorized"} /\ (k.at = "renew" => status = "rejected")
      BY <1>1, <2>2, StatusesKnown
    <2>4. Decoded(IF k.at = "renew" THEN Posted(k.session) ELSE k.body) = None
      <3>1. Posted(k.session) \in [refreshToken : 0 .. issued] /\ k.body \in [refreshToken : 0 .. issued]
        BY <2>2 DEF Pending, Posted
      <3> QED BY <1>1, <3>1, NothingDecoded
    <2>5. ~ (k.kind = "logout" /\ k.at = "sent" /\ status = "ok")
      <3> SUFFICES ASSUME k.kind = "logout", k.at = "sent", status = "ok" PROVE FALSE
        OBVIOUS
      <3>1. Decoded(k.body) = None
        BY <2>4
      <3> QED BY <3>1, <2>1 DEF Statuses, LogoutStatus, MissingToken
    <2>6. Back(c, status, None) /\ expired' = expired /\ revoked' = revoked
      BY <2>1, <2>3, <2>4, <2>5
    <2>7. None \in 0 .. issued
      BY <1>1 DEF None
    <2>8. /\ call' \in [Calls -> Pending(issued)]
          /\ \A d \in Calls \ {c} : call'[d] = call[d]
          /\ call'[c].status = status
          /\ call'[c].at = IF k.at \in {"renew", "renewed"} THEN "renewed" ELSE "back"
      BY <1>1, <2>3, <2>6, <2>7, BackTyped
    <2>9. UNCHANGED <<issued, store, user, leaving>> /\ k.at \in {"sent", "renew"}
      BY <1>2 DEF Answer
    <2>10. RefreshesFail'
      BY <2>3, <2>8, <2>9 DEF PortalInv, RefreshesFail
    <2> QED BY <2>6, <2>8, <2>9, <2>10 DEF PortalInv, PortalTypeOK, TokensPaired, Sessions
  <1>3. CASE AnswerLogin(c)
    <2>1. /\ issued' = issued + 1 /\ issued < MaxSessions
          /\ Back(c, "ok", issued') /\ call[c].at = "sent"
          /\ UNCHANGED <<expired, revoked, store, user, leaving>>
      BY <1>3 DEF AnswerLogin
    <2>2. issued' \in Nat /\ issued <= issued'
      BY <1>1, <2>1
    <2>3. 0 .. issued \subseteq 0 .. issued' /\ Pending(issued) \subseteq Pending(issued')
      BY <1>1, <2>2, PendingGrows
    <2>4. call \in [Calls -> Pending(issued')] /\ issued' \in 0 .. issued'
      BY <1>1, <2>2, <2>3
    <2>5. /\ call' \in [Calls -> Pending(issued')]
          /\ \A d \in Calls \ {c} : call'[d] = call[d]
          /\ call'[c].at = "back"
      BY <2>1, <2>2, <2>4, BackTyped
    <2>6. issued' \in 0 .. MaxSessions /\ 1 .. issued \subseteq 1 .. issued'
      BY <1>1, <2>1, BoundAssumption
    <2>7. RefreshesFail'
      BY <2>5 DEF PortalInv, RefreshesFail
    <2>8. PortalTypeOK'
      BY <2>1, <2>3, <2>5, <2>6 DEF PortalInv, PortalTypeOK, Sessions
    <2> QED BY <2>1, <2>7, <2>8 DEF PortalInv, TokensPaired
  <1>4. ASSUME RefuseLogin(c) \/ Lose(c)
        PROVE  PortalInv'
    <2>1. PICK status \in {"unauthorized", "failed"} :
            Back(c, status, None) /\ (call[c].at \in {"renew", "renewed"} => status = "failed")
      BY <1>4 DEF RefuseLogin, Lose
    <2>2. UNCHANGED <<issued, expired, revoked, store, user, leaving>>
      BY <1>4 DEF RefuseLogin, Lose
    <2>3. None \in 0 .. issued
      BY <1>1 DEF None
    <2>4. /\ call' \in [Calls -> Pending(issued)]
          /\ \A d \in Calls \ {c} : call'[d] = call[d]
          /\ call'[c].status = status
          /\ call'[c].at = IF call[c].at \in {"renew", "renewed"} THEN "renewed" ELSE "back"
      BY <1>1, <2>1, <2>3, BackTyped
    <2>5. RefreshesFail'
      BY <2>1, <2>4 DEF PortalInv, RefreshesFail
    <2> QED BY <2>2, <2>4, <2>5 DEF PortalInv, PortalTypeOK, TokensPaired, Sessions
  <1> QED BY <1>2, <1>3, <1>4 DEF Serve

\* A rejected call ends, and localStorage is emptied or left as it is.
LEMMA RejectedStep ==
  ASSUME PortalInv, NEW c \in Calls, NEW kept \in {store, Empty}, Rejected(c, kept),
         leaving' \in SUBSET Tabs, UNCHANGED <<issued, expired, revoked>>
  PROVE  PortalInv'
  <1>1. issued \in Nat /\ store \in [access : 0 .. issued, refresh : 0 .. issued]
    BY BoundAssumption DEF PortalInv, PortalTypeOK
  <1>2. store' \in {store, Empty}
    BY DEF Rejected
  <1>3. store' \in [access : 0 .. issued, refresh : 0 .. issued] /\ TokensPaired'
    BY <1>1, <1>2 DEF PortalInv, TokensPaired, Empty, None
  <1>4. call' = [call EXCEPT ![c] = NoCall]
    BY DEF Rejected
  <1>5. call' \in [Calls -> Pending(issued)]
    BY <1>1, <1>4, NoCallTyped DEF PortalInv, PortalTypeOK
  <1>6. RefreshesFail'
    BY <1>4 DEF PortalInv, PortalTypeOK, RefreshesFail, NoCall
  <1>7. user' \in [Tabs -> 0 .. issued]
    BY <1>1, PageTyped DEF Rejected, PortalInv, PortalTypeOK, None
  <1> QED BY <1>3, <1>5, <1>6, <1>7 DEF PortalInv, PortalTypeOK, Sessions

LEMMA ConsumeStep ==
  ASSUME PortalInv, NEW c \in Calls, Consume(c)
  PROVE  PortalInv'
  <1> DEFINE k == call[c]
  <1>1. /\ issued \in Nat /\ call \in [Calls -> Pending(issued)]
        /\ store \in [access : 0 .. issued, refresh : 0 .. issued]
        /\ user \in [Tabs -> 0 .. issued] /\ leaving \subseteq Tabs
    BY BoundAssumption DEF PortalInv, PortalTypeOK
  <1>2. k \in Pending(issued) /\ pageOf[c] \in Tabs
    BY <1>1, PageTyped
  <1>3. k.session \in 0 .. issued /\ k.token \in 0 .. issued
    BY <1>2 DEF Pending
  <1>4. CASE Resolve(c)
    <2>1. /\ store' = CASE k.kind = "login"  -> [store EXCEPT !.access = k.session, !.refresh = k.session]
                        [] k.kind = "logout" -> Empty
                        [] OTHER             -> store
          /\ user' = CASE k.kind \in {"boot", "welcome"} -> [user EXCEPT ![pageOf[c]] = k.token]
                       [] k.kind = "logout"              -> [user EXCEPT ![pageOf[c]] = None]
                       [] OTHER                          -> user
          /\ call' = [call EXCEPT ![c] = IF k.kind = "login"
                                         THEN [Request("welcome") EXCEPT !.token = k.session]
                                         ELSE NoCall]
          /\ UNCHANGED <<issued, expired, revoked, leaving>>
      BY <1>4 DEF Resolve
    <2>2. store' \in [access : 0 .. issued, refresh : 0 .. issued] /\ TokensPaired'
      <3>1. CASE k.kind = "login"
        BY <1>1, <1>3, <2>1, <3>1 DEF TokensPaired
      <3>2. CASE k.kind = "logout"
        BY <1>1, <2>1, <3>2 DEF TokensPaired, Empty, None
      <3>3. CASE k.kind \notin {"login", "logout"}
        BY <1>1, <2>1, <3>3 DEF PortalInv, TokensPaired
      <3> QED BY <3>1, <3>2, <3>3
    <2>3. user' \in [Tabs -> 0 .. issued]
      <3>1. CASE k.kind \in {"boot", "welcome"}
        BY <1>1, <1>2, <1>3, <2>1, <3>1
      <3>2. CASE k.kind = "logout"
        BY <1>1, <1>2, <2>1, <3>2 DEF None
      <3>3. CASE k.kind \notin {"boot", "welcome", "logout"}
        BY <1>1, <2>1, <3>3
      <3> QED BY <3>1, <3>2, <3>3
    <2>4. \E r \in Pending(issued) : r.at # "renewed" /\ call' = [call EXCEPT ![c] = r]
      <3>1. CASE k.kind = "login"
        <4> DEFINE r == [Request("welcome") EXCEPT !.token = k.session]
        <4>1. Request("welcome") \in Pending(issued) /\ Request("welcome").at = "sent"
          BY RequestTyped DEF PortalInv
        <4>2. r \in Pending(issued) /\ r.at = "sent"
          BY <1>3, <4>1 DEF Pending
        <4>3. call' = [call EXCEPT ![c] = r]
          BY <2>1, <3>1
        <4> HIDE DEF r
        <4> QED BY <4>2, <4>3
      <3>2. CASE k.kind # "login"
        <4>1. NoCall \in Pending(issued) /\ NoCall.at = "idle"
          BY <1>1, NoCallTyped DEF NoCall
        <4>2. call' = [call EXCEPT ![c] = NoCall]
          BY <2>1, <3>2
        <4> QED BY <4>1, <4>2
      <3> QED BY <3>1, <3>2
    <2>5. call' \in [Calls -> Pending(issued)]
      BY <1>1, <2>4
    <2>6. RefreshesFail'
      BY <1>1, <2>4 DEF PortalInv, RefreshesFail
    <2> QED BY <2>1, <2>2, <2>3, <2>5, <2>6 DEF PortalInv, PortalTypeOK, Sessions
  <1>5. CASE Reject(c)
    <2>1. Rejected(c, store) /\ UNCHANGED <<issued, expired, revoked, leaving>>
      BY <1>5 DEF Reject
    <2> QED BY <1>1, <2>1, RejectedStep
  <1>6. CASE Intercept(c)
    <2> DEFINE r == [k EXCEPT !.at = "renew", !.status = "none", !.session = store.refresh]
    <2>1. store.refresh \in 0 .. issued
      BY <1>1
    <2>2. r \in Pending(issued) /\ r.at = "renew"
      BY <1>2, <2>1 DEF Pending
    <2>3. /\ call' = [call EXCEPT ![c] = r]
          /\ UNCHANGED <<issued, expired, revoked, store, user, leaving>>
      BY <1>1, <1>6 DEF Intercept
    <2> HIDE DEF r
    <2>4. call' \in [Calls -> Pending(issued)]
      BY <1>1, <2>2, <2>3
    <2>5. RefreshesFail'
      BY <1>1, <2>2, <2>3 DEF PortalInv, RefreshesFail
    <2> QED BY <2>3, <2>4, <2>5 DEF PortalInv, PortalTypeOK, TokensPaired, Sessions
  <1>7. CASE InterceptNoToken(c)
    <2>1. /\ leaving' = leaving \cup {pageOf[c]}
          /\ \E kept \in {store, Empty} : Rejected(c, kept)
          /\ UNCHANGED <<issued, expired, revoked>>
      BY <1>7 DEF InterceptNoToken, Left
    <2> QED BY <1>1, <1>2, <2>1, RejectedStep
  <1>8. CASE Renewed(c)
    <2>1. k.status # "ok"
      BY <1>8 DEF Renewed, PortalInv, RefreshesFail
    <2>2. /\ leaving' = leaving \cup {pageOf[c]} /\ Rejected(c, Empty)
          /\ UNCHANGED <<issued, expired, revoked>>
      BY <1>8, <2>1 DEF Renewed, Left
    <2> QED BY <1>1, <1>2, <2>2, RejectedStep
  <1> QED BY <1>4, <1>5, <1>6, <1>7, <1>8 DEF Consume

\* A component of a page sends a request.
LEMMA SentStep ==
  ASSUME PortalInv, NEW c \in Calls, NEW kind \in {"login", "logout", "query"},
         call' = [call EXCEPT ![c] = Request(kind)],
         UNCHANGED <<issued, expired, revoked, store, user, leaving>>
  PROVE  PortalInv'
  <1>1. Request(kind) \in Pending(issued) /\ Request(kind).at = "sent"
    BY RequestTyped DEF PortalInv
  <1>2. call' \in [Calls -> Pending(issued)]
    BY <1>1 DEF PortalInv, PortalTypeOK
  <1>3. RefreshesFail'
    BY <1>1 DEF PortalInv, PortalTypeOK, RefreshesFail
  <1> QED BY <1>2, <1>3 DEF PortalInv, PortalTypeOK, TokensPaired, Sessions

LEMMA PageLoadStep ==
  ASSUME PortalInv, NEW t \in Tabs, PageLoad(t)
  PROVE  PortalInv'
  <1>1. issued \in Nat /\ call \in [Calls -> Pending(issued)]
    BY BoundAssumption DEF PortalInv, PortalTypeOK
  <1>2. /\ NoCall \in Pending(issued) /\ NoCall.at = "idle"
        /\ Request("boot") \in Pending(issued) /\ Request("boot").at = "sent"
    BY <1>1, NoCallTyped, RequestTyped DEF PortalInv, NoCall
  <1>3. \A c \in Calls : call'[c] \in {call[c], Request("boot"), NoCall}
    BY DEF PageLoad
  <1>4. call' = [c \in Calls |-> call'[c]]
    BY DEF PageLoad
  <1>5. call' \in [Calls -> Pending(issued)]
    BY <1>1, <1>2, <1>3, <1>4
  <1>6. RefreshesFail'
    BY <1>2, <1>3 DEF PortalInv, RefreshesFail
  <1>7. user' \in [Tabs -> 0 .. issued] /\ leaving' \subseteq Tabs
    BY <1>1 DEF PageLoad, PortalInv, PortalTypeOK, None
  <1> QED BY <1>5, <1>6, <1>7 DEF PageLoad, PortalInv, PortalTypeOK, TokensPaired, Sessions

\* PortalInv is inductive.
LEMMA PortalStep == PortalInv /\ [PortalNext]_portalVars => PortalInv'
  <1> SUFFICES ASSUME PortalInv, [PortalNext]_portalVars PROVE PortalInv'
    OBVIOUS
  <1>1. ASSUME NEW c \in Calls, Serve(c) PROVE PortalInv'
    BY <1>1, ServeStep
  <1>2. ASSUME NEW c \in Calls, Consume(c) PROVE PortalInv'
    BY <1>2, ConsumeStep
  <1>3. ASSUME NEW t \in Tabs, SignIn(t) \/ SignOut(t) PROVE PortalInv'
    BY <1>3, SentStep DEF SignIn, SignOut, Calls
  <1>4. ASSUME NEW t \in Tabs, Navigate(t) \/ Reload(t) PROVE PortalInv'
    BY <1>4, PageLoadStep DEF Navigate, Reload
  <1>5. ASSUME NEW q \in Queries, Query(q) PROVE PortalInv'
    BY <1>5, SentStep DEF Query, Calls
  <1>6. ASSUME NEW session \in Sessions, Expire(session) PROVE PortalInv'
    BY <1>6 DEF Expire, PortalInv, PortalTypeOK, TokensPaired, RefreshesFail, Sessions
  <1>7. CASE UNCHANGED portalVars
    BY <1>7 DEF portalVars, PortalInv, PortalTypeOK, TokensPaired, RefreshesFail, Sessions
  <1> QED BY <1>1, <1>2, <1>3, <1>4, <1>5, <1>6, <1>7 DEF PortalNext

-----------------------------------------------------------------------------
\* The portal's variables keep their types for any tabs, components and
\* logins: AuthProvider and the interceptors of services/api.ts store and send
\* no token that auth-service did not issue.
THEOREM PortalTypeCorrect == PortalSpec => []PortalTypeOK
  <1>1. PortalInv => PortalTypeOK
    BY DEF PortalInv
  <1> QED BY PortalStarts, PortalStep, <1>1, PTL DEF PortalSpec

\* However the answers of the tabs' calls interleave, AuthProvider and the
\* interceptors never leave localStorage with the access token of one login
\* and the refresh token of another.
THEOREM PortalTokensPaired == PortalSpec => []TokensPaired
  <1>1. PortalInv => TokensPaired
    BY DEF PortalInv
  <1> QED BY PortalStarts, PortalStep, <1>1, PTL DEF PortalSpec

\* No refresh the portal awaits comes back with a new access token, nor with
\* the 401 that would start another: the 401 of an expired token always ends
\* the page's session (handler.go reads refresh_token, services/api.ts sends
\* refreshToken).
THEOREM PortalNeverRenews == PortalSpec => []RefreshesFail
  <1>1. PortalInv => RefreshesFail
    BY DEF PortalInv
  <1> QED BY PortalStarts, PortalStep, <1>1, PTL DEF PortalSpec

-----------------------------------------------------------------------------
(***************************************************************************)
(* Why calls settle, sign-outs end and refused pages leave, in the terms of*)
(* single steps.  CallMoves says what one step may do to one call.         *)
(***************************************************************************)
CallsInOrder ==
  \A c \in Calls :
    /\ call[c].at = "idle" => call[c] = NoCall
    /\ call[c].at \in {"sent", "renew"} => call[c].status = "none"
    /\ call[c].status = "failed" => call[c].session = None

\* The component has sent a request.
CallStarts(c) ==
  call[c] = NoCall /\ \E kind \in {"login", "logout", "query"} : call'[c] = Request(kind)

\* The page of the call was loaded anew.
CallReloads(c) == user'[pageOf[c]] = None /\ call'[c] \in {NoCall, Request("boot")}

\* The service has answered, or the answer was lost.
CallAnswered(c) ==
  /\ call'[c].kind = call[c].kind
  /\ call'[c].status \in {"ok", "rejected", "unauthorized", "failed"}
  /\ call'[c].status = "failed" => call'[c].session = None
  /\ \/ call[c].at = "renew" /\ call'[c].at = "renewed"
     \/ call[c].at = "sent" /\ call'[c].at = "back"
     \/ /\ call[c].at = "back" /\ call[c].status # "failed"
        /\ call'[c].at = "back" /\ call'[c].status = "failed"

\* A login goes on to ask who has logged in.
CallWelcomes(c) ==
  /\ call[c].kind = "login" /\ call[c].at = "back" /\ call[c].status = "ok"
  /\ call'[c].kind = "welcome" /\ call'[c].at = "sent"
  /\ call'[c].status = "none"

\* The interceptor answers a 401 with a refresh.
CallRefreshes(c) ==
  /\ call[c].at = "back" /\ call[c].status = "unauthorized"
  /\ call'[c].kind = call[c].kind /\ call'[c].at = "renew"
  /\ call'[c].status = "none"

\* The call has settled: a sign-out on the login page, a refreshed call with
\* the page about to be left.
CallEnds(c) ==
  /\ call[c].at \in {"back", "renewed"} /\ call'[c] = NoCall
  /\ call[c].kind = "logout" => user'[pageOf[c]] = None
  /\ call[c].at = "renewed" => pageOf[c] \in leaving'

CallMoves(c) ==
  \/ call'[c] = call[c] \/ CallStarts(c) \/ CallReloads(c)
  \/ CallAnswered(c) \/ CallWelcomes(c) \/ CallRefreshes(c) \/ CallEnds(c)

LeavingEnds == \A t \in leaving : t \in leaving' \/ user'[t] = None

-----------------------------------------------------------------------------
\* What a step of the service does to a call.
LEMMA ServedOnce ==
  ASSUME PortalInv, NEW c \in Calls, Serve(c)
  PROVE  /\ leaving' = leaving
         /\ issued' \in Nat /\ call \in [Calls -> Pending(issued')]
         /\ \E status \in {"ok", "rejected", "unauthorized", "failed"}, session \in 0 .. issued' :
              /\ Back(c, status, session)
              /\ status = "failed" => session = None
              /\ \/ call[c].at \in {"sent", "renew"}
                 \/ call[c].kind = "login" /\ call[c].at = "back" /\ status = "failed"
  <1> DEFINE k == call[c]
             Goal == \E status \in {"ok", "rejected", "unauthorized", "failed"},
                        session \in 0 .. issued' :
                       /\ Back(c, status, session)
                       /\ status = "failed" => session = None
                       /\ \/ k.at \in {"sent", "renew"}
                          \/ k.kind = "login" /\ k.at = "back" /\ status = "failed"
  <1>1. issued \in Nat /\ call \in [Calls -> Pending(issued)] /\ k \in Pending(issued)
    BY BoundAssumption DEF PortalInv, PortalTypeOK
  <1>2. CASE Answer(c)
    <2>1. PICK status \in Statuses(k) :
            Back(c, status, IF k.at = "renew"
                            THEN Decoded(IF k.at = "renew" THEN Posted(k.session) ELSE k.body)
                            ELSE None)
      BY <1>2 DEF Answer
    <2>2. Posted(k.session) \in [refreshToken : 0 .. issued]
      BY <1>1 DEF Pending, Posted
    <2>3. Back(c, status, None)
      BY <1>1, <2>1, <2>2, NothingDecoded
    <2>4. status \in {"ok", "rejected", "unauthorized"}
      BY <1>1, StatusesKnown
    <2>5. /\ issued' = issued /\ leaving' = leaving
          /\ k.at \in {"sent", "renew"} /\ None \in 0 .. issued'
      BY <1>1, <1>2 DEF Answer, None
    <2>6. Goal
      BY <2>3, <2>4, <2>5
    <2> QED BY <1>1, <2>5, <2>6
  <1>3. CASE AnswerLogin(c)
    <2>1. /\ issued' = issued + 1 /\ leaving' = leaving
          /\ Back(c, "ok", issued') /\ k.at = "sent"
      BY <1>3 DEF AnswerLogin
    <2>2. issued' \in Nat /\ issued <= issued' /\ issued' \in 0 .. issued'
      BY <1>1, <2>1
    <2>3. call \in [Calls -> Pending(issued')]
      BY <1>1, <2>2, PendingGrows
    <2>4. Goal
      BY <2>1, <2>2
    <2> QED BY <2>1, <2>2, <2>3, <2>4
  <1>4. CASE RefuseLogin(c) \/ Lose(c)
    <2>1. issued' = issued /\ leaving' = leaving /\ None \in 0 .. issued'
      BY <1>1, <1>4 DEF RefuseLogin, Lose, None
    <2>2. Goal
      <3>1. CASE RefuseLogin(c)
        BY <2>1, <3>1 DEF RefuseLogin
      <3>2. CASE Lose(c)
        BY <2>1, <3>2 DEF Lose
      <3> QED BY <1>4, <3>1, <3>2
    <2> QED BY <1>1, <2>1, <2>2
  <1> QED BY <1>2, <1>3, <1>4 DEF Serve

LEMMA ServeMoves ==
  ASSUME PortalInv, CallsInOrder, NEW c \in Calls, Serve(c)
  PROVE  LeavingEnds /\ \A d \in Calls : CallMoves(d)
  <1>1. leaving' = leaving /\ issued' \in Nat /\ call \in [Calls -> Pending(issued')]
    BY ServedOnce
  <1>2. PICK status \in {"ok", "rejected", "unauthorized", "failed"}, session \in 0 .. issued' :
          /\ Back(c, status, session)
          /\ status = "failed" => session = None
          /\ \/ call[c].at \in {"sent", "renew"}
             \/ call[c].kind = "login" /\ call[c].at = "back" /\ status = "failed"
    BY ServedOnce
  <1>3. /\ \A d \in Calls \ {c} : call'[d] = call[d]
        /\ call'[c].kind = call[c].kind
        /\ call'[c].status = status /\ call'[c].session = session
        /\ call'[c].at = IF call[c].at \in {"renew", "renewed"} THEN "renewed" ELSE "back"
    BY <1>1, <1>2, BackTyped
  <1>4. CASE call[c].at = "back" /\ call[c].status = "failed"
    <2>1. status = "failed" /\ session = None /\ call[c].session = None
      BY <1>2, <1>4 DEF CallsInOrder
    <2>2. call[c] \in Pending(issued')
      BY <1>1
    <2>3. [call[c] EXCEPT !.at = IF @ \in {"renew", "renewed"} THEN "renewed" ELSE "back",
                          !.status = status, !.session = session] = call[c]
      BY <1>4, <2>1, <2>2 DEF Pending
    <2>4. call'[c] = call[c]
      BY <1>1, <1>2, <2>3 DEF Back
    <2> QED BY <1>1, <1>3, <2>4 DEF CallMoves, LeavingEnds
  <1>5. CASE ~ (call[c].at = "back" /\ call[c].status = "failed")
    <2>1. CallAnswered(c)
      BY <1>2, <1>3, <1>5 DEF CallAnswered
    <2> QED BY <1>1, <1>3, <2>1 DEF CallMoves, LeavingEnds
  <1> QED BY <1>4, <1>5

\* What a rejection does to its call and to the page.
LEMMA RejectedEnds ==
  ASSUME PortalInv, NEW c \in Calls, NEW kept, Rejected(c, kept), leaving \subseteq leaving',
         call[c].at \in {"back", "renewed"},
         call[c].at = "renewed" => pageOf[c] \in leaving'
  PROVE  LeavingEnds /\ \A d \in Calls : CallMoves(d)
  <1>1. /\ call \in [Calls -> Pending(issued)] /\ user \in [Tabs -> 0 .. issued]
        /\ pageOf[c] \in Tabs
    BY PageTyped DEF PortalInv, PortalTypeOK
  <1>2. call'[c] = NoCall /\ \A d \in Calls \ {c} : call'[d] = call[d]
    BY <1>1 DEF Rejected
  <1>3. call[c].kind = "logout" => user'[pageOf[c]] = None
    BY <1>1 DEF Rejected, Forgets
  <1>4. CallEnds(c)
    BY <1>2, <1>3 DEF CallEnds
  <1> QED BY <1>2, <1>4 DEF CallMoves, LeavingEnds

LEMMA ConsumeMoves ==
  ASSUME PortalInv, CallsInOrder, NEW c \in Calls, Consume(c)
  PROVE  LeavingEnds /\ \A d \in Calls : CallMoves(d)
  <1>1. /\ call \in [Calls -> Pending(issued)] /\ call[c] \in Pending(issued)
        /\ user \in [Tabs -> 0 .. issued] /\ pageOf[c] \in Tabs
    BY PageTyped DEF PortalInv, PortalTypeOK
  <1>2. CASE Resolve(c)
    <2>1. /\ call[c].at = "back" /\ call[c].status = "ok" /\ leaving' = leaving
          /\ user' = CASE call[c].kind \in {"boot", "welcome"} -> [user EXCEPT ![pageOf[c]] = call[c].token]
                       [] call[c].kind = "logout"              -> [user EXCEPT ![pageOf[c]] = None]
                       [] OTHER                                -> user
          /\ call' = [call EXCEPT ![c] = IF call[c].kind = "login"
                                         THEN [Request("welcome") EXCEPT !.token = call[c].session]
                                         ELSE NoCall]
      BY <1>2 DEF Resolve
    <2>2. \A d \in Calls \ {c} : call'[d] = call[d]
      BY <1>1, <2>1
    <2>3. CASE call[c].kind = "login"
      <3>1. /\ [Request("welcome") EXCEPT !.token = call[c].session].kind = "welcome"
            /\ [Request("welcome") EXCEPT !.token = call[c].session].at = "sent"
            /\ [Request("welcome") EXCEPT !.token = call[c].session].status = "none"
        BY DEF Request
      <3>2. CallWelcomes(c)
        BY <1>1, <2>1, <2>3, <3>1 DEF CallWelcomes
      <3> QED BY <2>1, <2>2, <3>2 DEF CallMoves, LeavingEnds
    <2>4. CASE call[c].kind # "login"
      <3>1. call'[c] = NoCall
        BY <1>1, <2>1, <2>4
      <3>2. call[c].kind = "logout" => user'[pageOf[c]] = None
        BY <1>1, <2>1
      <3>3. CallEnds(c)
        BY <2>1, <3>1, <3>2 DEF CallEnds
      <3> QED BY <2>1, <2>2, <3>3 DEF CallMoves, LeavingEnds
    <2> QED BY <2>3, <2>4
  <1>3. CASE Reject(c)
    BY <1>3, RejectedEnds DEF Reject
  <1>4. CASE Intercept(c)
    <2>1. /\ call[c].status = "unauthorized" /\ leaving' = leaving
          /\ call' = [call EXCEPT ![c] = [call[c] EXCEPT !.at = "renew", !.status = "none",
                                                         !.session = store.refresh]]
      BY <1>1, <1>4 DEF Intercept
    <2>2. call[c].at = "back"
      <3>1. call[c].at # "idle"
        BY <2>1 DEF CallsInOrder, NoCall
      <3>2. call[c].at \notin {"sent", "renew", "renewed"}
        BY <2>1 DEF CallsInOrder, PortalInv, RefreshesFail
      <3> QED BY <1>1, <3>1, <3>2 DEF Pending
    <2>3. /\ call'[c].kind = call[c].kind /\ call'[c].at = "renew" /\ call'[c].status = "none"
          /\ \A d \in Calls \ {c} : call'[d] = call[d]
      BY <1>1, <2>1 DEF Pending
    <2> QED BY <2>1, <2>2, <2>3 DEF CallMoves, CallRefreshes, LeavingEnds
  <1>5. CASE InterceptNoToken(c)
    <2>1. /\ call[c].status = "unauthorized" /\ leaving' = leaving \cup {pageOf[c]}
          /\ \E kept : Rejected(c, kept)
      BY <1>5 DEF InterceptNoToken, Left
    <2>2. call[c].at # "idle" /\ call[c].at \notin {"sent", "renew"}
      BY <2>1 DEF CallsInOrder, NoCall
    <2>3. call[c].at \in {"back", "renewed"}
      BY <1>1, <2>2 DEF Pending
    <2> QED BY <2>1, <2>3, RejectedEnds
  <1>6. CASE Renewed(c)
    <2>1. call[c].at = "renewed" /\ call[c].status # "ok"
      BY <1>6 DEF Renewed, PortalInv, RefreshesFail
    <2>2. leaving' = leaving \cup {pageOf[c]} /\ Rejected(c, Empty)
      BY <1>6, <2>1 DEF Renewed, Left
    <2> QED BY <2>1, <2>2, RejectedEnds
  <1> QED BY <1>2, <1>3, <1>4, <1>5, <1>6 DEF Consume

\* Every step does to every call what CallMoves says, and a page that is being
\* left stays so until it is unloaded.
LEMMA StepMoves ==
  ASSUME PortalInv, CallsInOrder, [PortalNext]_portalVars
  PROVE  LeavingEnds /\ \A d \in Calls : CallMoves(d)
  <1>1. call \in [Calls -> Pending(issued)] /\ user \in [Tabs -> 0 .. issued]
    BY DEF PortalInv, PortalTypeOK
  <1>2. ASSUME NEW c \in Calls, NEW kind \in {"login", "logout", "query"}, Idle(c),
               call' = [call EXCEPT ![c] = Request(kind)], leaving' = leaving
        PROVE  LeavingEnds /\ \A d \in Calls : CallMoves(d)
    <2>1. call'[c] = Request(kind) /\ \A d \in Calls \ {c} : call'[d] = call[d]
      BY <1>1, <1>2
    <2>2. CallStarts(c)
      BY <1>2, <2>1 DEF Idle, CallStarts
    <2> QED BY <1>2, <2>1, <2>2 DEF CallMoves, LeavingEnds
  <1>3. ASSUME NEW c \in Calls, Serve(c) PROVE LeavingEnds /\ \A d \in Calls : CallMoves(d)
    BY <1>3, ServeMoves
  <1>4. ASSUME NEW c \in Calls, Consume(c) PROVE LeavingEnds /\ \A d \in Calls : CallMoves(d)
    BY <1>4, ConsumeMoves
  <1>5. ASSUME NEW t \in Tabs, SignIn(t) \/ SignOut(t)
        PROVE  LeavingEnds /\ \A d \in Calls : CallMoves(d)
    BY <1>2, <1>5 DEF SignIn, SignOut, Calls
  <1>6. ASSUME NEW q \in Queries, Query(q)
        PROVE  LeavingEnds /\ \A d \in Calls : CallMoves(d)
    BY <1>2, <1>6 DEF Query, Calls
  <1>7. ASSUME NEW t \in Tabs, Navigate(t) \/ Reload(t)
        PROVE  LeavingEnds /\ \A d \in Calls : CallMoves(d)
    <2>1. /\ user' = [user EXCEPT ![t] = None] /\ leaving' = leaving \ {t}
          /\ call' = [c \in Calls |->
               IF pageOf[c] # t THEN call[c]
               ELSE IF c = t /\ store.access # None THEN Request("boot") ELSE NoCall]
      BY <1>7 DEF Navigate, Reload, PageLoad
    <2>2. user'[t] = None
      BY <1>1, <2>1
    <2>3. ASSUME NEW d \in Calls PROVE call'[d] = call[d] \/ CallReloads(d)
      BY <2>1, <2>2 DEF CallReloads
    <2> QED BY <2>1, <2>2, <2>3 DEF CallMoves, LeavingEnds
  <1>8. ASSUME UNCHANGED <<call, leaving>> PROVE LeavingEnds /\ \A d \in Calls : CallMoves(d)
    BY <1>8 DEF CallMoves, LeavingEnds
  <1> QED BY <1>3, <1>4, <1>5, <1>6, <1>7, <1>8 DEF PortalNext, portalVars, Expire

LEMMA OrderStep == PortalInv /\ CallsInOrder /\ [PortalNext]_portalVars => CallsInOrder'
  <1> SUFFICES ASSUME PortalInv, CallsInOrder, [PortalNext]_portalVars, NEW d \in Calls
               PROVE  /\ call'[d].at = "idle" => call'[d] = NoCall
                      /\ call'[d].at \in {"sent", "renew"} => call'[d].status = "none"
                      /\ call'[d].status = "failed" => call'[d].session = None
    BY DEF CallsInOrder
  <1>1. CallMoves(d)
    BY StepMoves
  <1>2. \A kind : /\ Request(kind).at = "sent" /\ Request(kind).status = "none"
                  /\ Request(kind).session = None
    BY DEF Request
  <1>3. NoCall.at = "idle" /\ NoCall.status = "none" /\ NoCall.session = None
    BY DEF NoCall
  <1>4. CASE call'[d] = call[d]
    BY <1>4 DEF CallsInOrder
  <1>5. CASE CallStarts(d) \/ CallReloads(d) \/ CallEnds(d)
    BY <1>2, <1>3, <1>5 DEF CallStarts, CallReloads, CallEnds
  <1>6. CASE CallAnswered(d)
    BY <1>6 DEF CallAnswered
  <1>7. CASE CallWelcomes(d) \/ CallRefreshes(d)
    BY <1>7 DEF CallWelcomes, CallRefreshes
  <1> QED BY <1>1, <1>4, <1>5, <1>6, <1>7 DEF CallMoves

LEMMA OrderInvariant == PortalSpec => [](PortalInv /\ CallsInOrder)
  <1>1. PortalInit => CallsInOrder
    BY DEF PortalInit, CallsInOrder, NoCall
  <1> QED BY <1>1, PortalStarts, PortalStep, OrderStep, PTL DEF PortalSpec

-----------------------------------------------------------------------------
\* The most steps a call may still take before it ends.
Stage == [idle |-> 0, renewed |-> 1, renew |-> 2, back |-> 4, sent |-> 5]
Ahead(k) == Stage[k.at] + (IF k.kind = "login" THEN 5 ELSE 0)
                        - (IF k.at = "back" /\ k.status = "failed" THEN 1 ELSE 0)

CallsAdvance ==
  \A c \in Calls :
    call[c] # NoCall =>
      \/ call'[c] = call[c]
      \/ Ahead(call'[c]) < Ahead(call[c])
      \/ call'[c] = Request("boot") /\ user'[pageOf[c]] = None

\* No 401 sends a call round in circles: each step of a call, answers, retries
\* and refreshes of the interceptor included, brings it nearer to its end, at
\* most ten steps away; only a page load starts one anew.
THEOREM CallsOnlyAdvance == PortalSpec => [][CallsAdvance]_portalVars
  <1>1. PortalInv /\ CallsInOrder /\ [PortalNext]_portalVars => [CallsAdvance]_portalVars
    <2> SUFFICES ASSUME PortalInv, CallsInOrder, [PortalNext]_portalVars,
                        NEW c \in Calls, call[c] # NoCall, call'[c] # call[c]
                 PROVE  \/ Ahead(call'[c]) < Ahead(call[c])
                        \/ call'[c] = Request("boot") /\ user'[pageOf[c]] = None
      BY DEF CallsAdvance
    <2>1. CallMoves(c) /\ ~ CallStarts(c)
      BY StepMoves DEF CallStarts
    <2>2. call[c].at \in {"sent", "back", "renew", "renewed"}
      BY DEF PortalInv, PortalTypeOK, Pending, CallsInOrder
    <2>3. Ahead(NoCall) = 0 /\ 0 < Ahead(call[c])
      BY <2>2 DEF Ahead, Stage, NoCall
    <2>4. CASE CallReloads(c) \/ CallEnds(c)
      BY <2>3, <2>4 DEF CallReloads, CallEnds
    <2>5. CASE CallAnswered(c)
      <3>1. CASE call[c].at \in {"renew", "sent"}
        BY <2>5, <3>1 DEF CallAnswered, Ahead, Stage
      <3>2. CASE call[c].at = "back"
        BY <2>5, <3>2 DEF CallAnswered, Ahead, Stage
      <3> QED BY <2>5, <3>1, <3>2 DEF CallAnswered
    <2>6. CASE CallWelcomes(c)
      BY <2>6 DEF CallWelcomes, Ahead, Stage
    <2>7. CASE CallRefreshes(c)
      BY <2>7 DEF CallRefreshes, Ahead, Stage
    <2> QED BY <2>1, <2>4, <2>5, <2>6, <2>7 DEF CallMoves
  <1> QED BY <1>1, OrderInvariant, PTL DEF PortalSpec

SignOutsEnd ==
  \A t \in Tabs : call[t].kind = "logout" => call'[t].kind = "logout" \/ user'[t] = None

\* A sign-out that has begun ends with its tab on the login page, be it
\* answered, refused, lost or cut short by a page load (the finally of logout
\* in AuthProvider.tsx); until then it remains a sign-out.
THEOREM SignOutsReachLogin == PortalSpec => [][SignOutsEnd]_portalVars
  <1>1. PortalInv /\ CallsInOrder /\ [PortalNext]_portalVars => [SignOutsEnd]_portalVars
    <2> SUFFICES ASSUME PortalInv, CallsInOrder, [PortalNext]_portalVars,
                        NEW t \in Tabs, call[t].kind = "logout", call'[t].kind # "logout"
                 PROVE  user'[t] = None
      BY DEF SignOutsEnd
    <2>1. t \in Calls /\ pageOf[t] = t /\ CallMoves(t)
      BY StepMoves, PageAssumption DEF Calls
    <2>2. call[t] # NoCall
      BY DEF NoCall
    <2> QED
      BY <2>1, <2>2 DEF CallMoves, CallStarts, CallReloads, CallAnswered, CallWelcomes,
                        CallRefreshes, CallEnds
  <1> QED BY <1>1, OrderInvariant, PTL DEF PortalSpec

Refreshing(c) == call[c].at \in {"renew", "renewed"}

RefusedLeave ==
  /\ \A c \in Calls :
       Refreshing(c) => Refreshing(c)' \/ pageOf[c] \in leaving' \/ user'[pageOf[c]] = None
  /\ LeavingEnds

\* A 401 that the interceptor answers with a refresh ends the session of its
\* page: the call goes on refreshing until the page is set to leave or was
\* loaded anew, and a page that is set to leave shows the login page next.
THEOREM RefusedPagesLeave == PortalSpec => [][RefusedLeave]_portalVars
  <1>1. PortalInv /\ CallsInOrder /\ [PortalNext]_portalVars => [RefusedLeave]_portalVars
    <2> SUFFICES ASSUME PortalInv, CallsInOrder, [PortalNext]_portalVars,
                        NEW c \in Calls, Refreshing(c), ~ Refreshing(c)'
                 PROVE  pageOf[c] \in leaving' \/ user'[pageOf[c]] = None
      BY StepMoves DEF RefusedLeave
    <2>1. CallMoves(c)
      BY StepMoves
    <2>2. call[c] # NoCall /\ call[c].at \in {"renew", "renewed"}
      BY DEF NoCall, Refreshing
    <2>3. call'[c].at \notin {"renew", "renewed"}
      BY DEF Refreshing
    <2> QED
      BY <2>1, <2>2, <2>3 DEF CallMoves, CallStarts, CallReloads, CallAnswered, CallWelcomes,
                              CallRefreshes, CallEnds
  <1> QED BY <1>1, OrderInvariant, PTL DEF PortalSpec
=============================================================================
