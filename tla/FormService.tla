----------------------------- MODULE FormService -----------------------------
(***************************************************************************)
(* Form templates and submissions of the document service.  A template is  *)
(* a MongoDB document: an edit reads it and replaces all of it, publish    *)
(* and archive set its status in place.  A submission is checked against   *)
(* the fields that were read and is inserted whatever the status.  Nothing *)
(* is ever deleted.  Handlers run concurrently, one worker each.           *)
(***************************************************************************)
EXTENDS Naturals, FiniteSets

CONSTANTS
  Workers,     \* goroutines that serve requests
  Forms,       \* bound: the template ids (fresh uuids)
  Names,       \* field names
  FieldLists,  \* the required names of the field lists a request may bring
  NoForm,      \* the form of an idle worker
  MaxVersion,  \* bound on the version number of a template
  MaxValues,   \* bound on the values one template has had
  MaxSubmissions  \* bound on the stored submissions

ASSUME FormAssumption ==
  /\ FieldLists \subseteq SUBSET Names /\ FieldLists # {}
  /\ NoForm \notin Forms
  /\ MaxVersion \in Nat /\ MaxValues \in Nat /\ MaxSubmissions \in Nat

VARIABLES
  stored,       \* forms that have a document
  form,         \* form[f]: the document of f, meaningful when f is stored
  submissions,  \* the stored submissions
  work,         \* work[w]: the step worker w is about to take, what it holds
  had           \* history: the values the document of f has had

vars == <<stored, form, submissions, work, had>>

Statuses == {"draft", "published", "archived"}

Form == [version : Nat, fields : FieldLists, status : Statuses]

\* given: the names with a value; required: history, the names the template
\* required when the submission was stored; overtaken: history, the template
\* changed while the request ran.
Submission == [form : Forms, given : SUBSET Names, required : FieldLists, overtaken : BOOLEAN]

\* overtaken: history, the template was changed after the worker read it.
Job == [at : {"idle", "replace", "insert"}, form : Forms \cup {NoForm},
        copy : Form, given : SUBSET Names, overtaken : BOOLEAN]

TypeOK ==
  /\ stored \subseteq Forms
  /\ form \in [Forms -> Form]
  /\ submissions \subseteq Submission
  /\ work \in [Workers -> Job]
  /\ had \in [Forms -> SUBSET Form]

\* The document CreateTemplate builds.
NewForm(fields) == [version |-> 1, fields |-> fields, status |-> "draft"]

NoCopy == NewForm(CHOOSE fields \in FieldLists : TRUE)
Idle == [at |-> "idle", form |-> NoForm, copy |-> NoCopy, given |-> {}, overtaken |-> FALSE]

Init ==
  /\ stored = {}
  /\ form = [f \in Forms |-> NoCopy]
  /\ submissions = {}
  /\ work = [w \in Workers |-> Idle]
  /\ had = [f \in Forms |-> {}]

-----------------------------------------------------------------------------
Become(w, job) == work' = [work EXCEPT ![w] = job]

EditJob(f, r) == [Idle EXCEPT !.at = "replace", !.form = f, !.copy = r]
SubmitJob(f, r, given) ==
  [Idle EXCEPT !.at = "insert", !.form = f, !.copy = r, !.given = given]

\* The document of f becomes r; whoever read another one is overtaken.
Overtaken(job, f, r) ==
  [job EXCEPT !.overtaken = @ \/ (job.at # "idle" /\ job.form = f /\ form[f] # r)]
Store(f, r) ==
  /\ Cardinality(had[f] \cup {r}) <= MaxValues
  /\ form' = [form EXCEPT ![f] = r]
  /\ had' = [had EXCEPT ![f] = @ \cup {r}]

\* POST /forms: one insert of version 1, a draft.
CreateTemplate(f, fields) ==
  /\ f \notin stored
  /\ stored' = stored \cup {f}
  /\ Store(f, NewForm(fields))
  /\ UNCHANGED <<submissions, work>>

\* Mutant: an edited template has to be published again.
DraftEdits(r) ==
  {r} \cup {[version |-> r.version + 1, fields |-> fields, status |-> "draft"] :
              fields \in FieldLists}

\* What UpdateTemplate makes of the document it read: a request that brings
\* fields makes a new version, one that does not renames or describes it.
Edits(r) ==
  {r} \cup {[version |-> r.version + 1, fields |-> fields, status |-> r.status] :
              fields \in FieldLists}

\* PUT /forms/{id}: the document is read and the copy changed to r ...
UpdateRead(w, f, r) ==
  /\ work[w].at = "idle" /\ f \in stored
  /\ r \in Edits(form[f]) /\ r.version <= MaxVersion
  /\ Become(w, EditJob(f, r))
  /\ UNCHANGED <<stored, form, submissions, had>>

\* The end of an edit by w that leaves r stored.
Replaced(w, r) ==
  /\ work[w].at = "replace"
  /\ Store(work[w].form, r)
  /\ work' = [v \in Workers |->
                IF v = w THEN Idle ELSE Overtaken(work[v], work[w].form, r)]
  /\ UNCHANGED <<stored, submissions>>

\* Mutant: fields and status are set, the version is left alone.
SetFields(w) == Replaced(w, [work[w].copy EXCEPT !.version = form[work[w].form].version])

\* ... and ReplaceOne writes all of it, whatever is stored by now.
UpdateReplace(w) == Replaced(w, work[w].copy)

\* POST /forms/{id}/publish and /archive: one UpdateOne of the status, from
\* whatever status the document has.
SetStatus(f, status) ==
  LET r == [form[f] EXCEPT !.status = status] IN
  /\ f \in stored
  /\ Store(f, r)
  /\ work' = [v \in Workers |-> Overtaken(work[v], f, r)]
  /\ UNCHANGED <<stored, submissions>>

\* Mutant: a form with any value at all is accepted.
Anything(r, given) == given # {}

\* SubmitForm accepts what has a value for every field that is required by
\* the template as it was read.
Complete(r, given) == r.fields \subseteq given

\* POST /submissions: the template is read and the values checked; the status
\* is not looked at.  An incomplete request is answered 400 at once.
SubmitRead(w, f, given) ==
  /\ work[w].at = "idle" /\ f \in stored
  /\ Complete(form[f], given)
  /\ Become(w, SubmitJob(f, form[f], given))
  /\ UNCHANGED <<stored, form, submissions, had>>

SubmitInsert(w) ==
  /\ work[w].at = "insert" /\ Cardinality(submissions) < MaxSubmissions
  /\ submissions' = submissions \cup
       {[form |-> work[w].form, given |-> work[w].given,
         required |-> form[work[w].form].fields, overtaken |-> work[w].overtaken]}
  /\ Become(w, Idle)
  /\ UNCHANGED <<stored, form, had>>

\* A database error, a cancelled request, the end of the process.  A call
\* that took effect although its answer was lost has the steps above.
Fail(w) ==
  /\ work[w].at # "idle"
  /\ Become(w, Idle)
  /\ UNCHANGED <<stored, form, submissions, had>>

Edit(w) ==
  \/ \E f \in Forms : \E r \in Edits(form[f]) : UpdateRead(w, f, r)
  \/ UpdateReplace(w)

Submit(w) ==
  \/ \E f \in Forms, given \in SUBSET Names : SubmitRead(w, f, given)
  \/ SubmitInsert(w)

Next ==
  \/ \E f \in Forms : \/ \E fields \in FieldLists : CreateTemplate(f, fields)
                      \/ \E status \in {"published", "archived"} : SetStatus(f, status)
  \/ \E w \in Workers : Edit(w) \/ Submit(w) \/ Fail(w)

Spec == Init /\ [][Next]_vars

-----------------------------------------------------------------------------
\* Templates are written late: what is stored is an edit, or a publish or
\* archive, of a document the template once was, never a mix of two.  Version
\* and fields thus stay together, and versions have no gap.
AfterForm ==
  [r \in Form |-> Edits(r) \cup {[r EXCEPT !.status = s] : s \in {"published", "archived"}}]
Templates == INSTANCE LateWrites WITH
  Things <- Forms, value <- form,
  Initials <- {NewForm(fields) : fields \in FieldLists},
  After <- AfterForm
EditsOfCopies == Templates!LateSpec

\* A stored submission has a value for every field its template required at
\* that moment, unless the template was changed while the request ran.
SubmissionsFit == \A s \in submissions : s.required \subseteq s.given \/ s.overtaken

\* A published template becomes a draft again, and an archived one anything
\* but by POST /publish, only by an edit that read the template before it was
\* changed.  In the contract a PUT may carry a status, but forwards only
\* (contracts/document.yaml:213-227), so this would have to hold there too; the
\* code drops the status of the request, and what an edit brings back is the
\* status of its copy.
Reverted(f) ==
  /\ form'[f].status # form[f].status
  /\ \/ form'[f].status = "draft"
     \/ /\ form[f].status = "archived"
        /\ form'[f] # [form[f] EXCEPT !.status = "published"]
RevertsAreLate ==
  \A f \in stored : Reverted(f) =>
    \E w \in Workers : /\ work[w].at = "replace" /\ work'[w].at = "idle"
                       /\ work[w].form = f /\ work[w].overtaken
PublicationsStay == [][RevertsAreLate]_vars
=============================================================================
