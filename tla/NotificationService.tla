------------------------ MODULE NotificationService ------------------------
(***************************************************************************)
(* Notifications of one tenant: the partition of a DynamoDB table that     *)
(* send, bulk send, mark read, mark all read and dismiss write item by     *)
(* item, with no condition on any write.                                   *)
(*                                                                         *)
(* PutItem is retried by the AWS SDK: an attempt may have stored the item  *)
(* although its response was lost, and the next one stores it again.  An   *)
(* attempt takes effect, if at all, before the SDK gives it up.  The other *)
(* writes are single calls, and repeating them is calling them again.      *)
(***************************************************************************)
EXTENDS Naturals, FiniteSets, Sequences, SequencesExt

CONSTANTS
  Workers,    \* goroutines that serve the requests of more than one call
  Users,      \* users of the tenant
  Ids,        \* bound: the notification ids (fresh uuids), in key order
  Bulks,      \* the requests POST /bulk may carry: sequences of recipients;
              \* POST /notifications is a bulk of one
  PageSize,   \* items one Query page evaluates, before its filter
  NoUser      \* the user of an item without that attribute

ASSUME NotificationAssumption ==
  /\ Ids \subseteq Nat /\ IsFiniteSet(Ids)
  /\ Bulks \subseteq Seq(Users) \ {<<>>}
  /\ PageSize \in Nat \ {0}
  /\ NoUser \notin Users /\ Users # {}

VARIABLES
  items,      \* ids that have an item
  userId,     \* userId[i]: the userId attribute of item i
  read,       \* read[i]: the read attribute of item i
  sentTo,     \* history: who i was first stored for; NoUser before that
  dismissed,  \* history: ids a dismissal has deleted
  work        \* work[w]: the request worker w serves

inboxVars == <<items, userId, read, sentTo, dismissed, work>>

\* at "put": about to store the notification ids[done + 1] for to[done + 1];
\* at "mark": about to mark the ids in todo; then the answer.
Job == [at : {"idle", "put", "mark", "ok", "error"},
        to : {<<>>} \cup Bulks, ids : Seq(Ids), done : Nat,
        todo : SUBSET Ids]

InboxTypeOK ==
  /\ items \subseteq Ids
  /\ userId \in [Ids -> Users \cup {NoUser}]
  /\ read \in [Ids -> BOOLEAN]
  /\ sentTo \in [Ids -> Users \cup {NoUser}]
  /\ dismissed \subseteq Ids
  /\ work \in [Workers -> Job]
  /\ \A w \in Workers : Len(work[w].ids) = Len(work[w].to) /\ work[w].done <= Len(work[w].to)

Idle == [at |-> "idle", to |-> <<>>, ids |-> <<>>, done |-> 0, todo |-> {}]

InboxInit ==
  /\ items = {} /\ dismissed = {}
  /\ userId = [i \in Ids |-> NoUser]
  /\ read = [i \in Ids |-> FALSE]
  /\ sentTo = [i \in Ids |-> NoUser]
  /\ work = [w \in Workers |-> Idle]

-----------------------------------------------------------------------------
Become(w, job) == work' = [work EXCEPT ![w] = job]

InUse == UNION {Range(work[w].ids) : w \in Workers}
Fresh == {i \in Ids \ InUse : sentTo[i] = NoUser}

\* POST /bulk: each recipient gets a notification with an id of its own.
StartBulk(w, to) ==
  /\ work[w].at = "idle"
  /\ \E ids \in [1 .. Len(to) -> Fresh] :
       /\ IsInjective(ids)
       /\ Become(w, [Idle EXCEPT !.at = "put", !.to = to, !.ids = ids])
  /\ UNCHANGED <<items, userId, read, sentTo, dismissed>>

\* Repository Create: the whole item is put, unread, over whatever is there.
Put(i, u) ==
  /\ items' = items \cup {i}
  /\ userId' = [userId EXCEPT ![i] = u]
  /\ read' = [read EXCEPT ![i] = FALSE]
  /\ sentTo' = [sentTo EXCEPT ![i] = u]
  /\ UNCHANGED dismissed

\* Mutant: the loop variable is advanced twice.
AdvancedTwice(job) ==
  [job EXCEPT !.done = @ + 2, !.at = IF job.done + 2 >= Len(job.to) THEN "ok" ELSE "put"]

\* The loop of SendBulk after one more notification.
Advanced(job) ==
  [job EXCEPT !.done = @ + 1, !.at = IF job.done + 1 = Len(job.to) THEN "ok" ELSE "put"]

\* Mutant: the notifications of a bulk are sent concurrently.
SendAnyOrder(w) ==
  /\ work[w].at = "put"
  /\ \E n \in DOMAIN work[w].to : Put(work[w].ids[n], work[w].to[n])
  /\ Become(w, Advanced(work[w])) \/ UNCHANGED work

\* Send: the attempt is stored; its response arrives or is lost, and then the
\* SDK tries again with the same item.
SendOne(w) ==
  /\ work[w].at = "put"
  /\ LET n == work[w].done + 1 IN Put(work[w].ids[n], work[w].to[n])
  /\ Become(w, Advanced(work[w])) \/ UNCHANGED work

\* Mutant: the loop logs the error and goes on with the next notification.
BulkGoesOn(w) ==
  /\ work[w].at = "put"
  /\ Become(w, Advanced(work[w]))
  /\ UNCHANGED <<items, userId, read, sentTo, dismissed>>

\* The SDK gives up: SendBulk stops at the first error.
BulkStops(w) ==
  /\ work[w].at = "put"
  /\ Become(w, [work[w] EXCEPT !.at = "error"])
  /\ UNCHANGED <<items, userId, read, sentTo, dismissed>>

\* Mutant: an item is marked by putting all of the notification.
MarkPutsItem(i) ==
  /\ items' = items \cup {i}
  /\ userId' = [userId EXCEPT ![i] = sentTo[i]]
  /\ read' = [read EXCEPT ![i] = TRUE]

\* Repository MarkRead: UpdateItem sets two attributes of the item with this
\* key, and makes the item if there is none.
MarkItem(i) ==
  /\ items' = items \cup {i}
  /\ read' = [read EXCEPT ![i] = TRUE]
  /\ UNCHANGED userId

\* POST /{id}/read, of any notification ever sent.
MarkRead(i) ==
  /\ sentTo[i] # NoUser
  /\ MarkItem(i)
  /\ UNCHANGED <<sentTo, dismissed, work>>

\* The items a Query evaluates before it returns its one page.
FirstPage == {i \in items : Cardinality({j \in items : j < i}) < PageSize}

\* What the Query of MarkAllRead returns: no LastEvaluatedKey is followed.
Unread(u) == {i \in FirstPage : userId[i] = u /\ ~ read[i]}

\* POST /read-all: the unread notifications are queried first ...
StartMarkAll(w, u) ==
  /\ work[w].at = "idle"
  /\ Become(w, IF Unread(u) = {}
               THEN [Idle EXCEPT !.at = "ok"]
               ELSE [Idle EXCEPT !.at = "mark", !.todo = Unread(u)])
  /\ UNCHANGED <<items, userId, read, sentTo, dismissed>>

\* ... and marked one by one in key order; one that fails is skipped.
MarkNext(w) ==
  /\ work[w].at = "mark"
  /\ LET i == CHOOSE j \in work[w].todo : \A k \in work[w].todo : j <= k
         rest == work[w].todo \ {i}
     IN /\ MarkItem(i) \/ UNCHANGED <<items, userId, read>>
        /\ Become(w, [work[w] EXCEPT !.todo = rest, !.at = IF rest = {} THEN "ok" ELSE "mark"])
  /\ UNCHANGED <<sentTo, dismissed>>

\* DELETE /{id}: of any notification ever sent, found or not.  Attributes of
\* a missing item are the defaults a new item starts from.
Dismiss(i) ==
  /\ sentTo[i] # NoUser
  /\ items' = items \ {i}
  /\ userId' = [userId EXCEPT ![i] = NoUser]
  /\ read' = [read EXCEPT ![i] = FALSE]
  /\ dismissed' = dismissed \cup {i}
  /\ UNCHANGED <<sentTo, work>>

\* The response is written.
Answer(w) ==
  /\ work[w].at \in {"ok", "error"}
  /\ Become(w, Idle)
  /\ UNCHANGED <<items, userId, read, sentTo, dismissed>>

\* The request is cancelled or the process dies: the rest is not done.
Crash(w) ==
  /\ work[w].at \in {"put", "mark"}
  /\ Become(w, Idle)
  /\ UNCHANGED <<items, userId, read, sentTo, dismissed>>

InboxNext ==
  \/ \E i \in Ids : MarkRead(i) \/ Dismiss(i)
  \/ \E w \in Workers :
       \/ \E to \in Bulks : StartBulk(w, to)
       \/ \E u \in Users : StartMarkAll(w, u)
       \/ SendOne(w) \/ BulkStops(w) \/ MarkNext(w) \/ Answer(w) \/ Crash(w)

InboxSpec == InboxInit /\ [][InboxNext]_inboxVars

-----------------------------------------------------------------------------
\* No request is still putting i: its sender has been answered or is gone.
Settled(i) == \A w \in Workers : work[w].at = "put" => i \notin Range(work[w].ids)

\* What was dismissed is shown to nobody again: an item that comes back after
\* its dismissal, as MarkRead can make it, belongs to no user's list, and so
\* no later MarkAllRead picks it up either.  This is a promise only once the
\* sender is done (Settled): until then a put that the SDK retries stores the
\* whole notification over the dismissal, content and all, and from then on
\* it is not Contentless.
Contentless(i) == i \notin items \/ userId[i] = NoUser
ContentGone == \A i \in Ids : Settled(i) /\ i \in dismissed /\ Contentless(i) => Contentless(i)'
DismissedContentGone == [][ContentGone]_inboxVars

\* A put has no condition, so the SDK's retry of it makes a notification that
\* was read meanwhile unread.  Nothing else does: not another bulk, not a
\* mark-all with an old list, and not the bulk itself for a notification its
\* loop has passed.
PutUnderWay(i) == \E w \in Workers : work[w].at = "put" /\ i = work[w].ids[work[w].done + 1]
ReadKept == \A i \in items : read[i] /\ i \in items' /\ ~ read'[i] => PutUnderWay(i)
UnreadOnlyByRetry == [][ReadKept]_inboxVars

\* A bulk stores its notifications in order and without gaps, and is answered
\* with success only when all are stored: whoever retries a failed bulk knows
\* that a prefix of it was sent.
BulkStoresPrefix ==
  \A w \in Workers :
    LET stored(k) == sentTo[work[w].ids[k]] = work[w].to[k]
    IN /\ \A k \in DOMAIN work[w].to : stored(k) => \A j \in 1 .. k : stored(j)
       /\ work[w].at = "ok" => \A k \in DOMAIN work[w].to : stored(k)
=============================================================================
