-------------------------- MODULE DocumentService --------------------------
(***************************************************************************)
(* Documents: a file on the disk of the pod that served the upload, a row  *)
(* in one collection and a row per version in another.  Upload and delete  *)
(* touch the three in separate calls with no transaction, each of which    *)
(* may fail after it took effect; the error paths decide what is left.     *)
(* A restart of a pod ends its requests and empties its disk (the pods     *)
(* have no volume).                                                        *)
(***************************************************************************)
EXTENDS Naturals, FiniteSets

CONSTANTS
  Pods,      \* replicas of the service, each with a disk
  Workers,   \* goroutines that serve requests
  podOf,     \* podOf[w]: the pod worker w runs in
  Docs,      \* bound: the document ids (fresh uuids)
  NoDoc      \* the document of an idle worker

ASSUME DocumentAssumption ==
  /\ podOf \in [Workers -> Pods]
  /\ NoDoc \notin Docs

VARIABLES
  files,     \* documents whose file is on the disk of home[d]
  home,      \* home[d]: the pod d was uploaded to; no meaning before that
  stored,    \* documents that have a row
  count,     \* count[d]: version_count of the row of d
  versions,  \* versions[d]: rows of d in document_versions
  work,      \* work[w]: the step worker w is about to take, and its document
  used,      \* history: ids that were given to an upload
  answered,  \* history: documents whose upload was answered 201
  doomed,    \* history: documents a DELETE has found
  deleted,   \* history: documents whose row was deleted
  blamed,    \* history: files whose loss or leak a failure or a pod explains
  logged     \* history: documents for which an error of AddVersion was logged

vars == <<files, home, stored, count, versions, work, used, answered, doomed, deleted, blamed,
          logged>>
history == <<used, answered, doomed, deleted, blamed, logged>>

Steps == {"idle", "write", "create", "cleanup", "version", "count", "remove", "delete"}

TypeOK ==
  /\ files \subseteq used /\ stored \subseteq used
  /\ home \in [Docs -> Pods]
  /\ count \in [Docs -> 0 .. 2]
  /\ versions \in [Docs -> 0 .. 1]
  /\ work \in [Workers -> [at : Steps, doc : Docs \cup {NoDoc}]]
  /\ used \subseteq Docs
  /\ answered \subseteq used /\ doomed \subseteq used
  /\ deleted \subseteq doomed /\ blamed \subseteq used /\ logged \subseteq answered

Init ==
  /\ files = {} /\ stored = {}
  /\ home \in [Docs -> Pods]
  /\ count = [d \in Docs |-> 0] /\ versions = [d \in Docs |-> 0]
  /\ work = [w \in Workers |-> [at |-> "idle", doc |-> NoDoc]]
  /\ used = {} /\ answered = {} /\ doomed = {} /\ deleted = {}
  /\ blamed = {} /\ logged = {}

-----------------------------------------------------------------------------
Doc(w) == work[w].doc
At(w, step) == work[w].at = step
Goto(w, step) == work' = [work EXCEPT ![w].at = step]
Done(w) == work' = [work EXCEPT ![w] = [at |-> "idle", doc |-> NoDoc]]

Rows == <<stored, count, versions>>

\* POST /documents: size and type are accepted, the id is new and the
\* directory is made.
StartUpload(w, d) ==
  /\ At(w, "idle") /\ d \notin used
  /\ used' = used \cup {d}
  /\ home' = [home EXCEPT ![d] = podOf[w]]
  /\ work' = [work EXCEPT ![w] = [at |-> "write", doc |-> d]]
  /\ UNCHANGED <<files, Rows, answered, logged, doomed, deleted, blamed>>

WriteFile(w) ==
  /\ At(w, "write")
  /\ files' = files \cup {Doc(w)}
  /\ Goto(w, "create")
  /\ UNCHANGED <<home, Rows, history>>

\* Mutant: the error of WriteFile is dropped.
WriteErrorIgnored(w) ==
  /\ At(w, "write")
  /\ Goto(w, "create")
  /\ UNCHANGED <<files, home, Rows, history>>

\* A failed write returns at once; what it wrote stays.
WriteFails(w) ==
  /\ At(w, "write")
  /\ files' \in {files, files \cup {Doc(w)}}
  /\ blamed' = blamed \cup {Doc(w)}
  /\ Done(w)
  /\ UNCHANGED <<home, Rows, used, answered, logged, doomed, deleted>>

\* Mutant: the new row counts a version too many.
InsertRowTwo(d) ==
  /\ stored' = stored \cup {d}
  /\ count' = [count EXCEPT ![d] = 2]
  /\ UNCHANGED versions

\* docRepo.Create: the row counts one version already.
InsertRow(d) ==
  /\ stored' = stored \cup {d}
  /\ count' = [count EXCEPT ![d] = 1]
  /\ UNCHANGED versions

CreateRow(w) ==
  /\ At(w, "create")
  /\ InsertRow(Doc(w))
  /\ Goto(w, "version")
  /\ UNCHANGED <<files, home, history>>

\* Mutant: the error path returns without removing the file.
CreateFailsDirty(w) ==
  /\ At(w, "create")
  /\ Done(w)
  /\ UNCHANGED <<files, home, Rows, history>>

\* The insert is answered with an error, in effect or not.
CreateFails(w) ==
  /\ At(w, "create")
  /\ InsertRow(Doc(w)) \/ UNCHANGED Rows
  /\ Goto(w, "cleanup")
  /\ UNCHANGED <<files, home, history>>

\* os.Remove, whose own error is dropped; the upload is answered 500.
Cleanup(w) ==
  /\ At(w, "cleanup")
  /\ \/ files' = files \ {Doc(w)} /\ UNCHANGED blamed
     \/ blamed' = blamed \cup {Doc(w)} /\ UNCHANGED files
  /\ Done(w)
  /\ UNCHANGED <<home, Rows, used, answered, logged, doomed, deleted>>

\* Mutant: the counter is taken up before the version row is written.
CountBeforeVersion(w) ==
  /\ At(w, "version")
  /\ count' = [count EXCEPT ![Doc(w)] = @ + 1]
  /\ Goto(w, "count")
  /\ UNCHANGED <<files, home, stored, versions, history>>

\* AddVersion, first call: the version row.
InsertVersion(w) ==
  /\ At(w, "version")
  /\ versions' = [versions EXCEPT ![Doc(w)] = @ + 1]
  /\ Goto(w, "count")
  /\ UNCHANGED <<files, home, stored, count, history>>

\* Mutant: the update is an upsert.
CountUpserts(w) ==
  /\ At(w, "count")
  /\ stored' = stored \cup {Doc(w)}
  /\ count' = [count EXCEPT ![Doc(w)] = IF Doc(w) \in stored THEN @ + 1 ELSE 1]
  /\ answered' = answered \cup {Doc(w)}
  /\ Done(w)
  /\ UNCHANGED <<files, home, versions, used, doomed, deleted, blamed, logged>>

\* AddVersion, second call: $inc on the row with this id, if there is one.
\* The upload is answered 201.
CountVersion(w) ==
  /\ At(w, "count")
  /\ count' = IF Doc(w) \in stored THEN [count EXCEPT ![Doc(w)] = @ + 1] ELSE count
  /\ answered' = answered \cup {Doc(w)}
  /\ Done(w)
  /\ UNCHANGED <<files, home, stored, versions, used, doomed, deleted, blamed, logged>>

\* An error of AddVersion is only logged: 201 all the same.  The failed call
\* may have been in effect.
AddVersionFails(w) ==
  /\ \/ /\ At(w, "version")
        /\ versions' \in {versions, [versions EXCEPT ![Doc(w)] = @ + 1]}
        /\ UNCHANGED count
     \/ /\ At(w, "count")
        /\ count' \in {count, [count EXCEPT ![Doc(w)] = IF Doc(w) \in stored THEN @ + 1 ELSE @]}
        /\ UNCHANGED versions
  /\ answered' = answered \cup {Doc(w)}
  /\ logged' = logged \cup {Doc(w)}
  /\ Done(w)
  /\ UNCHANGED <<files, home, stored, used, doomed, deleted, blamed>>

\* DELETE /documents/{id}: the row is found.
StartDelete(w, d) ==
  /\ At(w, "idle") /\ d \in stored
  /\ doomed' = doomed \cup {d}
  /\ work' = [work EXCEPT ![w] = [at |-> "remove", doc |-> d]]
  /\ UNCHANGED <<files, home, Rows, used, answered, logged, deleted, blamed>>

\* os.Remove on the disk of this pod.  A missing file is no error, so a file
\* on another pod is passed over; any other error is only logged.
RemoveFile(w) ==
  /\ At(w, "remove")
  /\ \/ files' = files \ {Doc(w)} /\ home[Doc(w)] = podOf[w] /\ UNCHANGED blamed
     \/ UNCHANGED files /\ blamed' = blamed \cup {Doc(w)}
  /\ Goto(w, "delete")
  /\ UNCHANGED <<home, Rows, used, answered, logged, doomed, deleted>>

\* docRepo.Delete; the version rows stay.
DeleteRow(w) ==
  /\ At(w, "delete")
  /\ stored' = stored \ {Doc(w)}
  /\ deleted' = deleted \cup {Doc(w)}
  /\ Done(w)
  /\ UNCHANGED <<files, home, count, versions, used, answered, logged, doomed, blamed>>

\* The client is told to try again, whether the row is gone or not.
DeleteFails(w) ==
  /\ At(w, "delete")
  /\ stored' \in {stored, stored \ {Doc(w)}}
  /\ deleted' = deleted \cup (stored \ stored')
  /\ Done(w)
  /\ UNCHANGED <<files, home, count, versions, used, answered, logged, doomed, blamed>>

\* A pod is killed and started anew with an empty disk.
Restart(p) ==
  LET lost == {d \in Docs : home[d] = p} \cap files
  IN /\ files' = files \ lost
     /\ blamed' = blamed \cup lost
     /\ work' = [w \in Workers |-> IF podOf[w] = p THEN [at |-> "idle", doc |-> NoDoc] ELSE work[w]]
     /\ UNCHANGED <<home, Rows, used, answered, logged, doomed, deleted>>

Next ==
  \/ \E w \in Workers, d \in Docs : StartUpload(w, d) \/ StartDelete(w, d)
  \/ \E w \in Workers :
       \/ WriteFile(w) \/ WriteFails(w) \/ CreateRow(w) \/ CreateFails(w) \/ Cleanup(w)
       \/ InsertVersion(w) \/ CountVersion(w) \/ AddVersionFails(w)
       \/ RemoveFile(w) \/ DeleteRow(w) \/ DeleteFails(w)
  \/ \E p \in Pods : Restart(p)

Spec == Init /\ [][Next]_vars

-----------------------------------------------------------------------------
\* An upload that was answered 201 is there, row and file, until somebody
\* asks for its deletion or the disk of its pod goes: no failed upload or
\* delete of another document or of a duplicate request takes it away.
AcknowledgedKept ==
  \A d \in answered \ doomed : d \in stored /\ (d \in files \/ d \in blamed)

\* A file no row leads to is somebody's work in progress, or a failed call or
\* a delete on another pod explains it.  Nothing leaks on the good paths.
LeaksExplained ==
  \A d \in files \ stored : d \in blamed \/ \E w \in Workers : Doc(w) = d /\ ~ At(w, "remove")

\* A new row has version_count 1 and AddVersion increments it for the very
\* version that 1 stands for: after a good upload the row counts one version
\* more than are recorded, where the contract's example counts one
\* (contracts/document.yaml:487).  The count is ahead by exactly that one,
\* unless AddVersion is between its calls, has failed or was cut off there by
\* the end of its pod: then it may be right, but it is never behind.
CountOneAhead ==
  \A d \in stored :
    /\ count[d] \in versions[d] .. versions[d] + 1
    /\ d \in answered \ logged => count[d] = versions[d] + 1

\* A deleted document stays deleted: the upload that still records its first
\* version does not bring the row back.
GoneForGood == \A d \in deleted : d \notin stored /\ d \notin stored'
DeletedStaysDeleted == [][GoneForGood]_vars
=============================================================================
