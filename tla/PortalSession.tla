---------------------------- MODULE PortalSession ----------------------------
(***************************************************************************)
(* The session of the customer portal and the service that answers it:     *)
(* AuthProvider, the axios interceptors of services/api.ts and the routes  *)
(* of auth-service they call.  The tabs of one browser share localStorage  *)
(* and nothing else.  Handlers run to completion between two awaits, so a  *)
(* step is either the service answering a call or a page consuming one     *)
(* answer; answers of several calls arrive in any order.                   *)
(*                                                                         *)
(* A session stands for the two tokens of one login: its refresh token,    *)
(* and its access token while the session is not in expired.  The session  *)
(* of a call is the one an answer brought, or whose refresh token is out.  *)
(***************************************************************************)
EXTENDS Naturals

CONSTANTS Tabs,         \* tabs of the browser; each has one call of AuthProvider
          Queries,      \* calls of other components (useCases, useDocuments, ...)
          pageOf,       \* the tab of each call
          MaxSessions   \* bound: logins the service accepts

ASSUME PageAssumption == pageOf \in [Tabs \cup Queries -> Tabs] /\ \A t \in Tabs : pageOf[t] = t
ASSUME BoundAssumption == MaxSessions \in Nat

VARIABLES issued,   \* auth-service: sessions 1 .. issued, in order of login
          expired,  \* sessions whose access token is past its exp claim
          revoked,  \* sessions whose refresh token is revoked
          store,    \* localStorage
          user,     \* session whose user AuthContext shows in each tab, None on the login page
          leaving,  \* tabs that have set window.location and are still running
          call      \* the pending call of each component

portalVars == <<issued, expired, revoked, store, user, leaving, call>>

Calls == Tabs \cup Queries
Sessions == 1 .. issued
None == 0

\* The body of /auth/refresh and /auth/logout as the portal posts it.
Posted(session) == [refreshToken |-> session]

Empty == [access |-> None, refresh |-> None]

\* A request leaves with the access token that localStorage holds; login has
\* no use for it, and only logout names the refresh token in its body.
Request(kind) ==
  [kind |-> kind, at |-> "sent", status |-> "none", session |-> None,
   token |-> IF kind = "login" THEN None ELSE store.access,
   body |-> Posted(IF kind = "logout" THEN store.refresh ELSE None)]

NoCall == [kind |-> "none", at |-> "idle", token |-> None,
           body |-> Posted(None), status |-> "none", session |-> None]

PortalInit ==
  /\ issued = 0 /\ expired = {} /\ revoked = {}
  /\ store = Empty
  /\ user = [t \in Tabs |-> None]
  /\ leaving = {}
  /\ call = [c \in Calls |-> NoCall]

-----------------------------------------------------------------------------
\* auth-service.

\* refreshRequest and logoutRequest read the key refresh_token; encoding/json
\* leaves the field empty when the body does not have it.
DecodedEither(body) == body.refreshToken

Decoded(body) == IF "refresh_token" \in DOMAIN body THEN body["refresh_token"] ELSE None

\* JWTAuth.
Authorized(session) == session # None /\ session \notin expired

MissingTokenRefused == "unauthorized"

MissingToken == "rejected"      \* ErrInvalidInput: 400

RefreshStatus(session) ==
  IF session = None THEN MissingToken
  ELSE IF session \in revoked THEN "unauthorized" ELSE "ok"

LogoutStatus(session) == IF session = None THEN MissingToken ELSE "ok"

\* The other services trust the gateway: its authorizer denies an expired
\* token (403) unless it allowed it less than five minutes ago, and a request
\* without one is refused (401, by the gateway or for want of X-User-ID).
\* Where no gateway is deployed, no service looks at the token.
QueryStatuses(token) ==
  {"ok"} \cup (IF token = None THEN {"unauthorized"}
              ELSE IF token \in expired THEN {"rejected"} ELSE {})

Statuses(c) ==
  IF c.at = "renew" THEN {RefreshStatus(Decoded(Posted(c.session)))}
  ELSE IF c.kind = "query" THEN QueryStatuses(c.token)
  ELSE IF ~Authorized(c.token) THEN {"unauthorized"}
  ELSE IF c.kind = "logout" THEN {LogoutStatus(Decoded(c.body))} ELSE {"ok"}

Back(c, status, session) ==
  call' = [call EXCEPT ![c].at = IF @ \in {"renew", "renewed"} THEN "renewed" ELSE "back",
                       ![c].status = status, ![c].session = session]

\* Refresh gives the session a fresh access token, Logout revokes its refresh
\* token; every other answer changes nothing.
Answer(c) ==
  LET k == call[c]
      session == Decoded(IF k.at = "renew" THEN Posted(k.session) ELSE k.body)
  IN /\ k.at = "renew" \/ (k.at = "sent" /\ k.kind # "login")
     /\ \E status \in Statuses(k) :
          /\ Back(c, status, IF k.at = "renew" THEN session ELSE None)
          /\ expired' = IF k.at = "renew" /\ status = "ok" THEN expired \ {session} ELSE expired
          /\ revoked' = IF k.kind = "logout" /\ k.at = "sent" /\ status = "ok"
                        THEN revoked \cup {session} ELSE revoked
     /\ UNCHANGED <<issued, store, user, leaving>>

AnswerLogin(c) ==
  /\ call[c].kind = "login" /\ call[c].at = "sent"
  /\ issued < MaxSessions
  /\ issued' = issued + 1
  /\ Back(c, "ok", issued')
  /\ UNCHANGED <<expired, revoked, store, user, leaving>>

\* A wrong password is answered 401 INVALID_CREDENTIALS.
RefuseLogin(c) ==
  /\ call[c].kind = "login" /\ call[c].at = "sent"
  /\ Back(c, "unauthorized", None)
  /\ UNCHANGED <<issued, expired, revoked, store, user, leaving>>

\* The request or its answer is lost, or the answer is 5xx, 429 or 403.  Of
\* the answers only the one to a login matters after it was given.
Lose(c) ==
  /\ call[c].at \in {"sent", "renew"} \/ (call[c].kind = "login" /\ call[c].at = "back")
  /\ Back(c, "failed", None)
  /\ UNCHANGED <<issued, expired, revoked, store, user, leaving>>

Expire(session) ==
  /\ expired' = expired \cup {session}
  /\ UNCHANGED <<issued, revoked, store, user, leaving, call>>

-----------------------------------------------------------------------------
\* The portal.

Idle(c) == call[c] = NoCall /\ pageOf[c] \notin leaving

SignIn(t) ==
  /\ Idle(t) /\ user[t] = None
  /\ call' = [call EXCEPT ![t] = Request("login")]
  /\ UNCHANGED <<issued, expired, revoked, store, user, leaving>>

SignOut(t) ==
  /\ Idle(t) /\ user[t] # None
  /\ call' = [call EXCEPT ![t] = Request("logout")]
  /\ UNCHANGED <<issued, expired, revoked, store, user, leaving>>

Query(q) ==
  /\ Idle(q) /\ user[pageOf[q]] # None
  /\ call' = [call EXCEPT ![q] = Request("query")]
  /\ UNCHANGED <<issued, expired, revoked, store, user, leaving>>

\* The await of call c resolves.  login stores the tokens before it asks who
\* has logged in.
Resolve(c) ==
  LET k == call[c]
      t == pageOf[c]
  IN /\ k.at = "back" /\ k.status = "ok"
     /\ store' = CASE k.kind = "login"   -> [store EXCEPT !.access = k.session, !.refresh = k.session]
                   [] k.kind = "logout"  -> Empty
                   [] OTHER              -> store
     /\ user' = CASE k.kind \in {"boot", "welcome"} -> [user EXCEPT ![t] = k.token]
                  [] k.kind = "logout"              -> [user EXCEPT ![t] = None]
                  [] OTHER                          -> user
     /\ call' = [call EXCEPT ![c] = IF k.kind = "login"
                                    THEN [Request("welcome") EXCEPT !.token = k.session]
                                    ELSE NoCall]
     /\ UNCHANGED <<issued, expired, revoked, leaving>>

\* window.location.href = "/login": the page goes on until it is unloaded.
Stayed(c) == leaving

Left(c) == leaving \cup {pageOf[c]}

\* The components a rejected call leaves localStorage to: the catch of the
\* page load and the finally of logout remove what AuthProvider stored.
ForgetsOnBoot == {"boot"}

Forgets == {"boot", "logout"}

Rejected(c, kept) ==
  LET k == call[c] IN
  /\ store' = IF k.kind \in Forgets THEN Empty ELSE kept
  /\ user' = IF k.kind \in Forgets THEN [user EXCEPT ![pageOf[c]] = None] ELSE user
  /\ call' = [call EXCEPT ![c] = NoCall]

Reject(c) ==
  /\ call[c].at = "back" /\ call[c].status \in {"rejected", "failed"}
  /\ Rejected(c, store)
  /\ UNCHANGED <<issued, expired, revoked, leaving>>

\* The response interceptor on a 401.  /auth/refresh goes through the same
\* interceptors, so a 401 to the refresh starts the next refresh.
Intercept(c) ==
  /\ call[c].status = "unauthorized"
  /\ store.refresh # None
  /\ call' = [call EXCEPT ![c].at = "renew", ![c].status = "none",
                          ![c].session = store.refresh]
  /\ UNCHANGED <<issued, expired, revoked, store, user, leaving>>

InterceptNoToken(c) ==
  /\ call[c].status = "unauthorized"
  /\ store.refresh = None
  /\ leaving' = Left(c)
  /\ Rejected(c, IF call[c].at = "renewed" THEN Empty ELSE store)
  /\ UNCHANGED <<issued, expired, revoked>>

\* The awaited refresh: its answer replaces the access token and the request
\* goes out again, its failure clears localStorage and leaves the page.
Renewed(c) ==
  LET k == call[c] IN
  /\ k.at = "renewed" /\ k.status \in {"ok", "rejected", "failed"}
  /\ IF k.status = "ok"
     THEN /\ store' = [store EXCEPT !.access = k.session]
          /\ call' = [call EXCEPT ![c].at = "sent", ![c].status = "none", ![c].token = k.session,
                                  ![c].session = None]
          /\ UNCHANGED <<user, leaving>>
     ELSE /\ leaving' = Left(c)
          /\ Rejected(c, Empty)
  /\ UNCHANGED <<issued, expired, revoked>>

\* A page load, by window.location or by the user, ends what the tab was
\* doing; AuthProvider then asks for the user of the token it finds, if any.
PageLoad(t) ==
  /\ user' = [user EXCEPT ![t] = None]
  /\ leaving' = leaving \ {t}
  /\ call' = [c \in Calls |->
       IF pageOf[c] # t THEN call[c]
       ELSE IF c = t /\ store.access # None THEN Request("boot") ELSE NoCall]
  /\ UNCHANGED <<issued, expired, revoked, store>>

Navigate(t) == t \in leaving /\ PageLoad(t)

\* The user reloads a page that has come up.
Reload(t) == call[t].kind # "boot" /\ PageLoad(t)

Serve(c) == Answer(c) \/ AnswerLogin(c) \/ RefuseLogin(c) \/ Lose(c)
Consume(c) == Resolve(c) \/ Reject(c) \/ Intercept(c) \/ InterceptNoToken(c) \/ Renewed(c)

PortalNext ==
  \/ \E c \in Calls : Serve(c) \/ Consume(c)
  \/ \E t \in Tabs : SignIn(t) \/ SignOut(t) \/ Navigate(t) \/ Reload(t)
  \/ \E q \in Queries : Query(q)
  \/ \E session \in Sessions : Expire(session)

PortalSpec == PortalInit /\ [][PortalNext]_portalVars

\* The browser consumes an answer that has arrived and follows a navigation;
\* every request is answered or times out.  Users owe nothing.
FairSpec ==
  /\ PortalSpec
  /\ \A c \in Calls : WF_portalVars(Answer(c) \/ AnswerLogin(c) \/ RefuseLogin(c)) /\ WF_portalVars(Consume(c))
  /\ \A t \in Tabs : WF_portalVars(Navigate(t))

-----------------------------------------------------------------------------
\* A pending call that names only sessions 1 .. n, or None.
Pending(n) ==
  [kind : {"none", "login", "welcome", "boot", "logout", "query"},
   at : {"idle", "sent", "back", "renew", "renewed"},
   token : 0 .. n, body : [refreshToken : 0 .. n],
   status : {"none", "ok", "rejected", "unauthorized", "failed"}, session : 0 .. n]

\* The variables have their types: whatever arrives in whatever order, no
\* token is stored or sent that the service did not issue.
PortalTypeOK ==
  /\ issued \in 0 .. MaxSessions
  /\ expired \subseteq Sessions /\ revoked \subseteq Sessions
  /\ store \in [access : 0 .. issued, refresh : 0 .. issued]
  /\ user \in [Tabs -> 0 .. issued]
  /\ leaving \subseteq Tabs
  /\ call \in [Calls -> Pending(issued)]

\* localStorage never holds the access token of one login and the refresh
\* token of another (or of none): AuthProvider writes and removes them
\* together, and a refresh that comes back late must not part them.
TokensPaired == store.access = store.refresh

\* Every call settles: the interceptor retries, refreshes and is intercepted
\* itself, yet no 401 sends the page round in circles.
EveryCallSettles == \A c \in Calls : call[c] # NoCall ~> call[c] = NoCall

\* Whatever the service answers to /auth/logout, who signs out comes to the
\* login page (docs/test-strategy.md, authentication flow, step 4).
SignOutEnds == \A t \in Tabs : call[t].kind = "logout" ~> user[t] = None

\* A page that answers a 401 with a refresh does not stay as it is: it comes
\* to the login page, as step 5 has it for a token that is no longer good.
RefusedReachesLogin ==
  \A q \in Queries : call[q].at = "renew" ~> user[pageOf[q]] = None

\* "Revokes the provided refresh token" (contracts/auth.yaml, logout): a
\* logout the service has answered leaves no valid refresh token behind.
LogoutRevokes ==
  \A t \in Tabs :
    LET k == call[t] IN
    k.kind = "logout" /\ k.at = "back" /\ k.status \in {"ok", "rejected"} =>
      k.body.refreshToken \in revoked \cup {None}
=============================================================================
