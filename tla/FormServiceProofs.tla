------------------------- MODULE FormServiceProofs -------------------------
(***************************************************************************)
(* Proofs about FormService: its types, that a submission fits the fields  *)
(* of its template, and that the templates implement LateWrites, for any   *)
(* number of requests, templates, fields and bounds.                       *)
(***************************************************************************)
EXTENDS FormService, TLAPS

\* A template has a document exactly when it has had one, and it is the last.
StoredHad ==
  \A f \in Forms : /\ f \notin stored => had[f] = {}
                   /\ f \in stored => form[f] \in had[f]

\* A copy about to replace a document is the edit of one the template has had.
EditsSound ==
  \A w \in Workers : work[w].at = "replace" =>
    /\ work[w].form \in stored
    /\ \E r \in had[work[w].form] : work[w].copy \in Edits(r)

\* A submission about to be inserted was checked against the document that is
\* stored, unless that was changed meanwhile.
SubmitsSound ==
  \A w \in Workers : work[w].at = "insert" =>
    /\ work[w].form \in stored
    /\ form[work[w].form].fields \subseteq work[w].given \/ work[w].overtaken

IInv == TypeOK /\ StoredHad /\ EditsSound /\ SubmitsSound /\ SubmissionsFit

-----------------------------------------------------------------------------
LEMMA NewFormTyped == \A fields \in FieldLists : NewForm(fields) \in Form
BY DEF NewForm, Form, Statuses

LEMMA IdleTyped == NoCopy \in Form /\ Idle \in Job /\ Idle.at = "idle"
<1>1. (CHOOSE fields \in FieldLists : TRUE) \in FieldLists
  BY FormAssumption
<1>2. NoCopy \in Form
  BY <1>1, NewFormTyped DEF NoCopy
<1> QED
  BY <1>2 DEF Idle, Job

LEMMA EditsTyped == \A r \in Form : Edits(r) \subseteq Form
BY DEF Edits, Form

LEMMA StatusTyped ==
  \A r \in Form : \A status \in Statuses :
    [r EXCEPT !.status = status] \in Form /\ [r EXCEPT !.status = status].fields = r.fields
BY DEF Form

LEMMA EditJobTyped ==
  ASSUME NEW f \in Forms, NEW r \in Form
  PROVE  /\ EditJob(f, r) \in Job
         /\ EditJob(f, r).at = "replace" /\ EditJob(f, r).form = f /\ EditJob(f, r).copy = r
BY IdleTyped DEF EditJob, Idle, Job

LEMMA SubmitJobTyped ==
  ASSUME NEW f \in Forms, NEW r \in Form, NEW given \in SUBSET Names
  PROVE  /\ SubmitJob(f, r, given) \in Job
         /\ SubmitJob(f, r, given).at = "insert" /\ SubmitJob(f, r, given).form = f
         /\ SubmitJob(f, r, given).given = given
BY IdleTyped DEF SubmitJob, Idle, Job

LEMMA OvertakenTyped ==
  ASSUME NEW j \in Job, NEW f, NEW r
  PROVE  /\ Overtaken(j, f, r) \in Job
         /\ Overtaken(j, f, r).at = j.at /\ Overtaken(j, f, r).form = j.form
         /\ Overtaken(j, f, r).copy = j.copy /\ Overtaken(j, f, r).given = j.given
         /\ j.overtaken => Overtaken(j, f, r).overtaken
         /\ j.at # "idle" /\ j.form = f /\ form[f] # r => Overtaken(j, f, r).overtaken
BY DEF Overtaken, Job

\* A worker that holds something has a template, and its document.
LEMMA JobTyped ==
  ASSUME TypeOK, NEW w \in Workers
  PROVE  work[w] \in Job /\ work[w].copy \in Form /\ work[w].given \in SUBSET Names
BY DEF TypeOK, Job

-----------------------------------------------------------------------------
\* The inductive invariant holds while there is no template.
THEOREM InitInv == Init => IInv
<1> SUFFICES ASSUME Init PROVE IInv
  OBVIOUS
<1>1. \A w \in Workers : work[w].at = "idle"
  BY IdleTyped DEF Init
<1>2. TypeOK
  BY IdleTyped DEF Init, TypeOK
<1> QED
  BY <1>1, <1>2 DEF Init, IInv, StoredHad, EditsSound, SubmitsSound, SubmissionsFit

\* The types, one action at a time.
LEMMA TypeStep == TypeOK /\ EditsSound /\ SubmitsSound /\ [Next]_vars => TypeOK'
<1> SUFFICES ASSUME TypeOK, EditsSound, SubmitsSound, [Next]_vars PROVE TypeOK'
  OBVIOUS
<1>1. ASSUME NEW f \in Forms, NEW r \in Form, Store(f, r)
      PROVE  form' \in [Forms -> Form] /\ had' \in [Forms -> SUBSET Form]
  BY <1>1 DEF Store, TypeOK
<1>2. ASSUME NEW w \in Workers, NEW j \in Job, Become(w, j)
      PROVE  work' \in [Workers -> Job]
  BY <1>2 DEF Become, TypeOK
<1>3. ASSUME NEW f \in Forms, NEW fields \in FieldLists, CreateTemplate(f, fields)
      PROVE  TypeOK'
  BY <1>1, <1>3, NewFormTyped DEF CreateTemplate, TypeOK
<1>4. ASSUME NEW f \in Forms, NEW status \in {"published", "archived"}, SetStatus(f, status)
      PROVE  TypeOK'
  <2>1. form[f] \in Form /\ [form[f] EXCEPT !.status = status] \in Form
    BY StatusTyped DEF TypeOK, Statuses
  <2>2. form' \in [Forms -> Form] /\ had' \in [Forms -> SUBSET Form]
    BY <1>1, <1>4, <2>1 DEF SetStatus
  <2>3. work' \in [Workers -> Job]
    BY <1>4, JobTyped, OvertakenTyped DEF SetStatus
  <2> QED
    BY <1>4, <2>2, <2>3 DEF SetStatus, TypeOK
<1>5. ASSUME NEW w \in Workers, NEW f \in Forms, NEW r \in Edits(form[f]), UpdateRead(w, f, r)
      PROVE  TypeOK'
  <2>1. r \in Form
    BY EditsTyped DEF TypeOK
  <2>2. work' \in [Workers -> Job]
    BY <1>2, <1>5, <2>1, EditJobTyped DEF UpdateRead
  <2> QED
    BY <1>5, <2>2 DEF UpdateRead, TypeOK
<1>6. ASSUME NEW w \in Workers, UpdateReplace(w) PROVE TypeOK'
  <2>1. work[w].form \in Forms /\ work[w].copy \in Form
    BY <1>6, JobTyped DEF UpdateReplace, Replaced, EditsSound, TypeOK
  <2>2. form' \in [Forms -> Form] /\ had' \in [Forms -> SUBSET Form]
    BY <1>1, <1>6, <2>1 DEF UpdateReplace, Replaced
  <2>3. work' \in [Workers -> Job]
    BY <1>6, JobTyped, OvertakenTyped, IdleTyped DEF UpdateReplace, Replaced
  <2> QED
    BY <1>6, <2>2, <2>3 DEF UpdateReplace, Replaced, TypeOK
<1>7. ASSUME NEW w \in Workers, NEW f \in Forms, NEW given \in SUBSET Names,
             SubmitRead(w, f, given)
      PROVE  TypeOK'
  <2>1. work' \in [Workers -> Job]
    BY <1>2, <1>7, SubmitJobTyped DEF SubmitRead, TypeOK
  <2> QED
    BY <1>7, <2>1 DEF SubmitRead, TypeOK
<1>8. ASSUME NEW w \in Workers, SubmitInsert(w) PROVE TypeOK'
  <2>1. work[w] \in Job /\ work[w].form \in Forms
    BY <1>8, JobTyped DEF SubmitInsert, SubmitsSound, TypeOK
  <2>2. form[work[w].form].fields \in FieldLists
    BY <2>1 DEF TypeOK, Form
  <2>3. [form |-> work[w].form, given |-> work[w].given, required |-> form[work[w].form].fields,
         overtaken |-> work[w].overtaken] \in Submission
    BY <2>1, <2>2 DEF Job, Submission
  <2>4. work' \in [Workers -> Job]
    BY <1>2, <1>8, IdleTyped DEF SubmitInsert
  <2> QED
    BY <1>8, <2>3, <2>4 DEF SubmitInsert, TypeOK
<1>9. ASSUME NEW w \in Workers, Fail(w) PROVE TypeOK'
  BY <1>2, <1>9, IdleTyped DEF Fail, TypeOK
<1>10. CASE UNCHANGED vars
  BY <1>10 DEF vars, TypeOK
<1> QED
  BY <1>3, <1>4, <1>5, <1>6, <1>7, <1>8, <1>9, <1>10 DEF Next, Edit, Submit

-----------------------------------------------------------------------------
\* What a step may do to the documents: nothing, the first document of one
\* template, or a change of a document that one template has had.
Untouched == UNCHANGED <<stored, form, had>>
Wrote(f, r) ==
  /\ form' = [form EXCEPT ![f] = r]
  /\ had' = [had EXCEPT ![f] = @ \cup {r}]
  /\ \/ /\ f \notin stored /\ stored' = stored \cup {f}
        /\ \E fields \in FieldLists : r = NewForm(fields)
     \/ /\ f \in stored /\ stored' = stored
        /\ \E old \in had[f] : r \in AfterForm[old]

LEMMA AfterFormIs ==
  ASSUME NEW r \in Form
  PROVE  AfterForm[r] = Edits(r) \cup {[r EXCEPT !.status = s] : s \in {"published", "archived"}}
BY DEF AfterForm

LEMMA StepsWrite ==
  ASSUME TypeOK, StoredHad, EditsSound, [Next]_vars
  PROVE  Untouched \/ \E f \in Forms : \E r \in Form : Wrote(f, r)
<1>1. ASSUME NEW f \in Forms, NEW fields \in FieldLists, CreateTemplate(f, fields)
      PROVE  Wrote(f, NewForm(fields)) /\ NewForm(fields) \in Form
  BY <1>1, NewFormTyped DEF CreateTemplate, Store, Wrote
<1>2. ASSUME NEW f \in Forms, NEW status \in {"published", "archived"}, SetStatus(f, status)
      PROVE  \E r \in Form : Wrote(f, r)
  <2> DEFINE r == [form[f] EXCEPT !.status = status]
  <2>1. form[f] \in Form /\ r \in Form
    BY StatusTyped DEF TypeOK, Statuses
  <2>2. form[f] \in had[f] /\ r \in AfterForm[form[f]]
    BY <1>2, <2>1, AfterFormIs DEF SetStatus, StoredHad
  <2>3. Wrote(f, r)
    BY <1>2, <2>2 DEF SetStatus, Store, Wrote
  <2> QED
    BY <2>1, <2>3
<1>3. ASSUME NEW w \in Workers, UpdateReplace(w)
      PROVE  Wrote(work[w].form, work[w].copy) /\ work[w].form \in Forms /\ work[w].copy \in Form
  <2>1. work[w].form \in stored /\ work[w].form \in Forms /\ work[w].copy \in Form
    BY <1>3, JobTyped DEF UpdateReplace, Replaced, EditsSound, TypeOK
  <2>2. PICK old \in had[work[w].form] : work[w].copy \in Edits(old)
    BY <1>3 DEF UpdateReplace, Replaced, EditsSound
  <2>3. old \in Form
    BY <2>1 DEF TypeOK
  <2>4. work[w].copy \in AfterForm[old]
    BY <2>2, <2>3, AfterFormIs
  <2> QED
    BY <1>3, <2>1, <2>4 DEF UpdateReplace, Replaced, Store, Wrote
<1>4. ASSUME NEW w \in Workers, NEW f, NEW r, UpdateRead(w, f, r) PROVE Untouched
  BY <1>4 DEF UpdateRead, Untouched
<1>5. ASSUME NEW w \in Workers, Submit(w) \/ Fail(w) PROVE Untouched
  BY <1>5 DEF Submit, SubmitRead, SubmitInsert, Fail, Untouched
<1>6. CASE UNCHANGED vars
  BY <1>6 DEF vars, Untouched
<1> QED
  BY <1>1, <1>2, <1>3, <1>4, <1>5, <1>6 DEF Next, Edit

LEMMA StoredStep == TypeOK /\ StoredHad /\ EditsSound /\ [Next]_vars => StoredHad'
<1> SUFFICES ASSUME TypeOK, StoredHad, EditsSound, [Next]_vars PROVE StoredHad'
  OBVIOUS
<1>1. CASE Untouched
  BY <1>1 DEF Untouched, StoredHad
<1>2. ASSUME NEW f \in Forms, NEW r \in Form, Wrote(f, r) PROVE StoredHad'
  <2>1. form'[f] = r /\ had'[f] = had[f] \cup {r} /\ f \in stored'
    BY <1>2 DEF Wrote, TypeOK
  <2>2. \A g \in Forms \ {f} :
          form'[g] = form[g] /\ had'[g] = had[g] /\ (g \in stored' <=> g \in stored)
    BY <1>2 DEF Wrote, TypeOK
  <2> SUFFICES ASSUME NEW g \in Forms
               PROVE  (g \notin stored' => had'[g] = {}) /\ (g \in stored' => form'[g] \in had'[g])
    BY DEF StoredHad
  <2>3. CASE g = f
    BY <2>1, <2>3
  <2>4. CASE g # f
    BY <2>2, <2>4 DEF StoredHad
  <2> QED
    BY <2>3, <2>4
<1> QED
  BY <1>1, <1>2, StepsWrite

\* What a step may do to the job of a worker.
Stays(w) ==
  /\ work'[w].at = work[w].at /\ work'[w].form = work[w].form
  /\ work'[w].copy = work[w].copy /\ work'[w].given = work[w].given
  /\ work[w].overtaken => work'[w].overtaken
  /\ \A f \in Forms \cap stored :
       work[w].at # "idle" /\ work[w].form = f /\ form'[f] # form[f] => work'[w].overtaken
ReadsEdit(w) ==
  /\ work'[w].at = "replace" /\ work'[w].form \in stored
  /\ work'[w].copy \in Edits(form[work'[w].form]) /\ form' = form
ReadsSubmit(w) ==
  /\ work'[w].at = "insert" /\ work'[w].form \in stored /\ form' = form
  /\ form[work'[w].form].fields \subseteq work'[w].given

LEMMA JobsMove ==
  ASSUME TypeOK, EditsSound, [Next]_vars, NEW w \in Workers
  PROVE  Stays(w) \/ ReadsEdit(w) \/ ReadsSubmit(w) \/ work'[w].at = "idle"
<1>1. \A v \in Workers : work[v] \in Job
  BY DEF TypeOK
<1>2. ASSUME work'[w] = work[w], form' = form PROVE Stays(w)
  BY <1>2 DEF Stays
<1>3. ASSUME NEW f \in Forms, NEW r, Store(f, r), work'[w] = Overtaken(work[w], f, r)
      PROVE  Stays(w)
  <2>1. \A g \in Forms : form'[g] # form[g] => g = f /\ form[f] # r
    BY <1>3 DEF Store, TypeOK
  <2> QED
    BY <1>1, <1>3, <2>1, OvertakenTyped DEF Stays
<1>4. ASSUME NEW v \in Workers, NEW f \in Forms, NEW r \in Edits(form[f]), UpdateRead(v, f, r)
      PROVE  Stays(w) \/ ReadsEdit(w)
  <2>1. CASE v = w
    <3>1. r \in Form
      BY EditsTyped DEF TypeOK
    <3>2. work'[w] = EditJob(f, r)
      BY <1>4, <2>1 DEF UpdateRead, Become, TypeOK
    <3> QED
      BY <1>4, <3>1, <3>2, EditJobTyped DEF UpdateRead, ReadsEdit
  <2>2. CASE v # w
    <3>1. work'[w] = work[w] /\ form' = form
      BY <1>4, <2>2 DEF UpdateRead, Become, TypeOK
    <3> QED
      BY <1>2, <3>1
  <2> QED
    BY <2>1, <2>2
<1>5. ASSUME NEW v \in Workers, NEW f \in Forms, NEW given \in SUBSET Names,
             SubmitRead(v, f, given)
      PROVE  Stays(w) \/ ReadsSubmit(w)
  <2>1. CASE v = w
    <3>1. work'[w] = SubmitJob(f, form[f], given) /\ form[f] \in Form
      BY <1>5, <2>1 DEF SubmitRead, Become, TypeOK
    <3> QED
      BY <1>5, <3>1, SubmitJobTyped DEF SubmitRead, Complete, ReadsSubmit
  <2>2. CASE v # w
    <3>1. work'[w] = work[w] /\ form' = form
      BY <1>5, <2>2 DEF SubmitRead, Become, TypeOK
    <3> QED
      BY <1>2, <3>1
  <2> QED
    BY <2>1, <2>2
<1>6. ASSUME NEW v \in Workers, SubmitInsert(v) \/ Fail(v)
      PROVE  Stays(w) \/ work'[w].at = "idle"
  <2>1. v # w => work'[w] = work[w] /\ form' = form
    BY <1>6 DEF SubmitInsert, Fail, Become, TypeOK
  <2>2. v = w => work'[w] = Idle
    BY <1>6 DEF SubmitInsert, Fail, Become, TypeOK
  <2> QED
    BY <1>2, <2>1, <2>2, IdleTyped
<1>7. ASSUME NEW v \in Workers, UpdateReplace(v)
      PROVE  Stays(w) \/ work'[w].at = "idle"
  <2>1. CASE v = w
    BY <1>7, <2>1, IdleTyped DEF UpdateReplace, Replaced
  <2>2. CASE v # w
    <3>1. work[v].form \in Forms
      BY <1>7 DEF UpdateReplace, Replaced, EditsSound, TypeOK
    <3>2. /\ Store(work[v].form, work[v].copy)
          /\ work'[w] = Overtaken(work[w], work[v].form, work[v].copy)
      BY <1>7, <2>2 DEF UpdateReplace, Replaced
    <3> QED
      BY <1>3, <3>1, <3>2
  <2> QED
    BY <2>1, <2>2
<1>8. ASSUME NEW f \in Forms, NEW status, SetStatus(f, status) PROVE Stays(w)
  BY <1>3, <1>8 DEF SetStatus
<1>9. ASSUME NEW f \in Forms, NEW fields, CreateTemplate(f, fields) PROVE Stays(w)
  <2>1. work'[w] = work[w] /\ \A g \in Forms \cap stored : form'[g] = form[g]
    BY <1>9 DEF CreateTemplate, Store, TypeOK
  <2> QED
    BY <2>1 DEF Stays
<1>10. CASE UNCHANGED vars
  BY <1>2, <1>10 DEF vars
<1> QED
  BY <1>4, <1>5, <1>6, <1>7, <1>8, <1>9, <1>10 DEF Next, Edit, Submit

-----------------------------------------------------------------------------
LEMMA DocumentsKept ==
  ASSUME TypeOK, StoredHad, EditsSound, [Next]_vars
  PROVE  stored \subseteq stored' /\ \A f \in Forms : had[f] \subseteq had'[f]
<1>1. CASE Untouched
  BY <1>1 DEF Untouched
<1>2. ASSUME NEW f \in Forms, NEW r \in Form, Wrote(f, r)
      PROVE  stored \subseteq stored' /\ \A g \in Forms : had[g] \subseteq had'[g]
  BY <1>2 DEF Wrote, TypeOK
<1> QED
  BY <1>1, <1>2, StepsWrite

LEMMA EditsStep == TypeOK /\ StoredHad /\ EditsSound /\ [Next]_vars => EditsSound'
<1> SUFFICES ASSUME TypeOK, StoredHad, EditsSound, [Next]_vars,
                    NEW w \in Workers, work'[w].at = "replace"
             PROVE  /\ work'[w].form \in stored'
                    /\ \E r \in had'[work'[w].form] : work'[w].copy \in Edits(r)
  BY DEF EditsSound, Edits
<1>1. stored \subseteq stored' /\ \A f \in Forms : had[f] \subseteq had'[f]
  BY DocumentsKept
<1>2. stored \subseteq Forms
  BY DEF TypeOK
<1>3. CASE Stays(w)
  <2>1. work[w].at = "replace" /\ work'[w].form = work[w].form /\ work'[w].copy = work[w].copy
    BY <1>3 DEF Stays
  <2>2. work[w].form \in stored
    BY <2>1 DEF EditsSound
  <2>3. PICK r \in had[work[w].form] : work[w].copy \in Edits(r)
    BY <2>1 DEF EditsSound
  <2> QED
    BY <1>1, <1>2, <2>1, <2>2, <2>3
<1>4. CASE ReadsEdit(w)
  <2>1. work'[w].form \in stored /\ work'[w].copy \in Edits(form[work'[w].form])
    BY <1>4 DEF ReadsEdit
  <2>2. form[work'[w].form] \in had[work'[w].form]
    BY <1>2, <2>1 DEF StoredHad
  <2> QED
    BY <1>1, <1>2, <2>1, <2>2
<1>5. ~ ReadsSubmit(w)
  BY DEF ReadsSubmit
<1> QED
  BY <1>3, <1>4, <1>5, JobsMove

LEMMA SubmitsStep ==
  TypeOK /\ StoredHad /\ EditsSound /\ SubmitsSound /\ [Next]_vars => SubmitsSound'
<1> SUFFICES ASSUME TypeOK, StoredHad, EditsSound, SubmitsSound, [Next]_vars,
                    NEW w \in Workers, work'[w].at = "insert"
             PROVE  /\ work'[w].form \in stored'
                    /\ \/ form'[work'[w].form].fields \subseteq work'[w].given
                       \/ work'[w].overtaken
  BY DEF SubmitsSound
<1>1. stored \subseteq stored' /\ stored \subseteq Forms
  BY DocumentsKept DEF TypeOK
<1>2. CASE Stays(w)
  <2>1. /\ work[w].at = "insert" /\ work'[w].form = work[w].form
        /\ work'[w].given = work[w].given
    BY <1>2 DEF Stays
  <2>2. work[w].form \in stored /\ work[w].form \in Forms
    BY <1>1, <2>1 DEF SubmitsSound
  <2>3. CASE work[w].overtaken
    BY <1>1, <1>2, <2>1, <2>2, <2>3 DEF Stays
  <2>4. CASE ~ work[w].overtaken
    <3>1. form[work[w].form].fields \subseteq work[w].given
      BY <2>1, <2>4 DEF SubmitsSound
    <3>2. work'[w].overtaken \/ form'[work[w].form] = form[work[w].form]
      BY <1>2, <2>1, <2>2 DEF Stays
    <3> QED
      BY <1>1, <2>1, <2>2, <3>1, <3>2
  <2> QED
    BY <2>3, <2>4
<1>3. CASE ReadsSubmit(w)
  BY <1>1, <1>3 DEF ReadsSubmit
<1>4. ~ ReadsEdit(w)
  BY DEF ReadsEdit
<1> QED
  BY <1>2, <1>3, <1>4, JobsMove

LEMMA FitStep == SubmitsSound /\ SubmissionsFit /\ [Next]_vars => SubmissionsFit'
<1> SUFFICES ASSUME SubmitsSound, SubmissionsFit, [Next]_vars PROVE SubmissionsFit'
  OBVIOUS
<1>1. CASE submissions' = submissions
  BY <1>1 DEF SubmissionsFit
<1>2. ASSUME NEW w \in Workers, SubmitInsert(w) PROVE SubmissionsFit'
  <2>1. form[work[w].form].fields \subseteq work[w].given \/ work[w].overtaken
    BY <1>2 DEF SubmitInsert, SubmitsSound
  <2>2. \A s \in submissions' : \/ s \in submissions
                                \/ /\ s.required = form[work[w].form].fields
                                   /\ s.given = work[w].given
                                   /\ s.overtaken = work[w].overtaken
    BY <1>2 DEF SubmitInsert
  <2> QED
    BY <2>1, <2>2 DEF SubmissionsFit
<1>3. submissions' = submissions \/ \E w \in Workers : SubmitInsert(w)
  BY DEF Next, Edit, Submit, Fail, CreateTemplate, SetStatus, UpdateRead, UpdateReplace,
    Replaced, SubmitRead, vars
<1> QED
  BY <1>1, <1>2, <1>3

LEMMA InvStep == IInv /\ [Next]_vars => IInv'
BY TypeStep, StoredStep, EditsStep, SubmitsStep, FitStep DEF IInv

\* The handlers of templates and submissions keep the inductive invariant.
THEOREM Invariance == Spec => []IInv
BY InitInv, InvStep, PTL DEF Spec

\* The types of the documents, the requests and the submissions.
THEOREM TypesHold == Spec => []TypeOK
<1>1. IInv => TypeOK
  BY DEF IInv
<1> QED
  BY <1>1, Invariance, PTL

\* A stored submission fits its template unless that changed meanwhile.
THEOREM SubmissionsFitTemplates == Spec => []SubmissionsFit
<1>1. IInv => SubmissionsFit
  BY DEF IInv
<1> QED
  BY <1>1, Invariance, PTL

-----------------------------------------------------------------------------
\* The templates implement LateWrites: a new document is a creation, a write
\* is a late one, and the other steps stutter.
LEMMA TemplatesStep ==
  TypeOK /\ StoredHad /\ EditsSound /\ [Next]_vars
    => [Templates!LateNext]_(Templates!lateVars)
<1> SUFFICES ASSUME TypeOK, StoredHad, EditsSound, [Next]_vars
             PROVE  Templates!LateNext \/ UNCHANGED <<form, had>>
  BY DEF Templates!lateVars
<1>1. CASE Untouched
  BY <1>1 DEF Untouched
<1>2. ASSUME NEW f \in Forms, NEW r \in Form, Wrote(f, r) PROVE Templates!LateNext
  <2>1. Templates!Put(f, r)
    BY <1>2 DEF Wrote, Templates!Put
  <2>2. CASE f \notin stored
    <3>1. had[f] = {} /\ r \in {NewForm(fields) : fields \in FieldLists}
      BY <1>2, <2>2 DEF Wrote, StoredHad
    <3> QED
      BY <2>1, <3>1 DEF Templates!LateNext, Templates!Create
  <2>3. CASE f \in stored
    BY <1>2, <2>1, <2>3 DEF Wrote, Templates!LateNext, Templates!Rewrite
  <2> QED
    BY <2>2, <2>3
<1> QED
  BY <1>1, <1>2, StepsWrite

\* Every stored document is an edit of one the template has had.
THEOREM TemplatesAreLateWrites == Spec => EditsOfCopies
<1>1. Init => Templates!LateInit
  BY DEF Init, Templates!LateInit
<1>2. IInv /\ [Next]_vars => [Templates!LateNext]_(Templates!lateVars)
  BY TemplatesStep DEF IInv
<1> QED
  BY <1>1, <1>2, Invariance, PTL DEF Spec, EditsOfCopies, Templates!LateSpec
-----------------------------------------------------------------------------
\* An edit that was not overtaken leaves the status as it is stored.
EditsKeepStatus ==
  \A w \in Workers : work[w].at = "replace" /\ ~ work[w].overtaken =>
    work[w].copy.status = form[work[w].form].status

LEMMA StatusKept ==
  ASSUME NEW r \in Form, NEW q \in Edits(r)
  PROVE  q.status = r.status
BY DEF Edits

LEMMA KeepStep ==
  TypeOK /\ EditsSound /\ EditsKeepStatus /\ [Next]_vars => EditsKeepStatus'
<1> SUFFICES ASSUME TypeOK, EditsSound, EditsKeepStatus, [Next]_vars, NEW w \in Workers,
                    work'[w].at = "replace", ~ work'[w].overtaken
             PROVE  work'[w].copy.status = form'[work'[w].form].status
  BY DEF EditsKeepStatus
<1>1. CASE Stays(w)
  <2>1. work[w].at = "replace" /\ ~ work[w].overtaken
    BY <1>1 DEF Stays
  <2>2. work[w].form \in Forms \cap stored
    BY <2>1, JobTyped DEF EditsSound, TypeOK
  <2>3. form'[work[w].form] = form[work[w].form]
    BY <1>1, <2>1, <2>2 DEF Stays
  <2> QED
    BY <1>1, <2>1, <2>3 DEF Stays, EditsKeepStatus
<1>2. CASE ReadsEdit(w)
  <2>1. form[work'[w].form] \in Form
    BY <1>2 DEF ReadsEdit, TypeOK
  <2> QED
    BY <1>2, <2>1, StatusKept DEF ReadsEdit
<1>3. ~ ReadsSubmit(w)
  BY DEF ReadsSubmit
<1> QED
  BY <1>1, <1>2, <1>3, JobsMove

\* Only publish and archive change the status of a template: an edit brings an
\* old status back only if the template was changed after it was read.
StatusMoved ==
  \A f \in stored : form'[f].status # form[f].status =>
    \/ form'[f].status # "draft" /\ [form'[f] EXCEPT !.status = form[f].status] = form[f]
    \/ \E w \in Workers : /\ work[w].at = "replace" /\ work'[w].at = "idle"
                          /\ work[w].form = f /\ work[w].overtaken

LEMMA StatusStep == TypeOK /\ EditsSound /\ EditsKeepStatus /\ [Next]_vars => StatusMoved
<1> SUFFICES ASSUME TypeOK, EditsSound, EditsKeepStatus, [Next]_vars,
                    NEW f \in stored, form'[f].status # form[f].status
             PROVE  \/ /\ form'[f].status # "draft"
                       /\ [form'[f] EXCEPT !.status = form[f].status] = form[f]
                    \/ \E w \in Workers : /\ work[w].at = "replace" /\ work'[w].at = "idle"
                                           /\ work[w].form = f /\ work[w].overtaken
  BY DEF StatusMoved
<1>1. f \in Forms /\ form[f] \in Form
  BY DEF TypeOK
<1>2. ASSUME NEW g \in Forms, NEW status \in {"published", "archived"}, SetStatus(g, status)
      PROVE  form'[f].status # "draft" /\ [form'[f] EXCEPT !.status = form[f].status] = form[f]
  <2>1. form'[f] = [form[f] EXCEPT !.status = status]
    BY <1>1, <1>2 DEF SetStatus, Store, TypeOK
  <2> QED
    BY <1>1, <2>1 DEF Form
<1>3. ASSUME NEW w \in Workers, UpdateReplace(w)
      PROVE  /\ work[w].at = "replace" /\ work'[w].at = "idle"
             /\ work[w].form = f /\ work[w].overtaken
  <2>1. work[w].at = "replace" /\ work'[w].at = "idle"
    BY <1>3, IdleTyped DEF UpdateReplace, Replaced
  <2>2. form' = [form EXCEPT ![work[w].form] = work[w].copy]
    BY <1>3 DEF UpdateReplace, Replaced, Store
  <2>3. work[w].form = f
    BY <1>1, <2>2 DEF TypeOK
  <2>4. form'[f] = work[w].copy
    BY <1>1, <2>2, <2>3 DEF TypeOK
  <2> QED
    BY <2>1, <2>3, <2>4 DEF EditsKeepStatus
<1>4. ASSUME NEW g \in Forms, NEW fields, CreateTemplate(g, fields) PROVE FALSE
  BY <1>1, <1>4 DEF CreateTemplate, Store, TypeOK
<1>5. form' # form
  OBVIOUS
<1> QED
  BY <1>2, <1>3, <1>4, <1>5 DEF Next, vars, Edit, Submit, UpdateRead, SubmitRead, SubmitInsert, Fail

\* A template whose status moved and nothing else, away from "archived" and not
\* to "draft", was published.
LEMMA OnlyPublished ==
  ASSUME NEW r \in Form, NEW q \in Form, q.status # r.status, q.status # "draft",
         [q EXCEPT !.status = r.status] = r, r.status = "archived"
  PROVE  q = [r EXCEPT !.status = "published"]
<1>1. q.status = "published"
  BY DEF Form, Statuses
<1>2. q.version = r.version /\ q.fields = r.fields
  BY DEF Form
<1> QED
  BY <1>1, <1>2 DEF Form

\* A publication or an archive is undone only by an edit that read the template
\* before it was changed, since UpdateTemplate keeps the status it read.
THEOREM PublicationsAreKept == Spec => PublicationsStay
<1>1. Init => EditsKeepStatus
  BY IdleTyped DEF Init, EditsKeepStatus
<1>2. IInv /\ EditsKeepStatus /\ [Next]_vars => EditsKeepStatus'
  BY KeepStep DEF IInv
<1>3. IInv /\ IInv' /\ EditsKeepStatus /\ [Next]_vars => RevertsAreLate
  <2> SUFFICES ASSUME IInv, IInv', EditsKeepStatus, [Next]_vars, NEW f \in stored, Reverted(f)
               PROVE  \E w \in Workers : /\ work[w].at = "replace" /\ work'[w].at = "idle"
                                         /\ work[w].form = f /\ work[w].overtaken
    BY DEF RevertsAreLate
  <2>1. StatusMoved
    BY StatusStep DEF IInv
  <2>2. form[f] \in Form /\ form'[f] \in Form
    BY DEF IInv, TypeOK
  <2>3. ~ (form'[f].status # "draft" /\ [form'[f] EXCEPT !.status = form[f].status] = form[f])
    BY <2>2, OnlyPublished DEF Reverted
  <2> QED
    BY <2>1, <2>3 DEF StatusMoved, Reverted
<1> QED
  BY <1>1, <1>2, <1>3, Invariance, PTL DEF Spec, PublicationsStay
=============================================================================
