---------------------------- MODULE AuthService ----------------------------
(***************************************************************************)
(* Sessions of the auth service: login, refresh, logout, and the two admin *)
(* operations that bear on them, a change of a user's status and the       *)
(* assignment of a role.                                                   *)
(*                                                                         *)
(* A login stores a refresh token and answers with an access token; a      *)
(* refresh answers with another access token and the SAME refresh token.   *)
(* Access tokens are signed and never looked up, so they stay usable until *)
(* they expire.  Handlers run concurrently, one worker each, and read,     *)
(* decide and write in separate database calls.                            *)
(*                                                                         *)
(* Times are relative: left is what remains of a token's life, in ticks,   *)
(* so that time needs no bound.                                            *)
(***************************************************************************)
EXTENDS Naturals, FiniteSets

CONSTANTS
  Workers,     \* goroutines that serve requests
  Users,       \* registered users
  Statuses,    \* values of the status column: active, inactive, suspended
  Roles,       \* stored roles
  tenantOf,    \* tenantOf[x]: the tenant of user or role x; never changes
  adminRoles,  \* roles named admin or super_admin
  startRoles,  \* startRoles[u]: the roles the seed gives user u
  Tokens,      \* bound: the refresh tokens that may be made (fresh uuids)
  AccessTTL,   \* life of an access token
  RefreshTTL,  \* life of a refresh token
  NoToken      \* the token of a worker that has none

ASSUME AuthAssumption ==
  /\ "active" \in Statuses /\ "unknown" \notin Statuses
  /\ AccessTTL \in Nat \ {0} /\ RefreshTTL \in Nat \ {0}
  /\ adminRoles \subseteq Roles
  /\ startRoles \in [Users -> SUBSET Roles]
  /\ \A u \in Users : \A r \in startRoles[u] : tenantOf[r] = tenantOf[u]
  /\ NoToken \notin Tokens
  /\ Users # {}

VARIABLES
  status,   \* status[u]: the status column of user u
  roles,    \* roles[u]: the roles user_roles gives u
  stored,   \* refresh tokens that have a row
  refresh,  \* refresh[t]: the row of t, meaningful when t is stored
  access,   \* the access tokens handed out that have not expired
  work      \* work[w]: what worker w is doing

vars == <<status, roles, stored, refresh, access, work>>

RefreshRow == [user : Users, revoked : BOOLEAN, left : 0 .. RefreshTTL]
AccessToken == [user : Users, roles : SUBSET Roles, from : Tokens, left : 1 .. AccessTTL]

\* at: the next step.  "user", "mint": of a refresh or login; "save": of a
\* status change; "assign": of a role assignment; "revoke": of a logout.
Work == [at : {"idle", "user", "mint", "save", "assign", "revoke"},
         op : {"none", "login", "refresh"},
         user : Users, token : Tokens \cup {NoToken}, roles : SUBSET Roles,
         to : Statuses, role : Roles \cup {NoToken}]

TypeOK ==
  /\ status \in [Users -> Statuses]
  /\ roles \in [Users -> SUBSET Roles]
  /\ stored \subseteq Tokens
  /\ refresh \in [Tokens -> RefreshRow]
  /\ access \subseteq AccessToken
  /\ work \in [Workers -> Work]

Idle == [at |-> "idle", op |-> "none", user |-> CHOOSE u \in Users : TRUE,
         token |-> NoToken, roles |-> {}, to |-> "active", role |-> NoToken]

\* What a worker holds in memory between two calls to the database.
LoginJob(u, t, rs) ==
  [Idle EXCEPT !.at = "mint", !.op = "login", !.user = u, !.token = t, !.roles = rs]
RefreshJob(u, t) ==
  [Idle EXCEPT !.at = "user", !.op = "refresh", !.user = u, !.token = t]
MintJob(job) == [job EXCEPT !.at = "mint", !.roles = roles[job.user]]
RevokeJob(t) == [Idle EXCEPT !.at = "revoke", !.token = t]
StatusJob(u, s, rs) == [Idle EXCEPT !.at = "save", !.user = u, !.to = s, !.roles = rs]
AssignJob(u, r) == [Idle EXCEPT !.at = "assign", !.user = u, !.role = r]

NoRow == [user |-> CHOOSE u \in Users : TRUE, revoked |-> FALSE, left |-> 0]

Init ==
  /\ status = [u \in Users |-> "active"]
  /\ roles = startRoles
  /\ stored = {}
  /\ refresh = [t \in Tokens |-> NoRow]
  /\ access = {}
  /\ work = [w \in Workers |-> Idle]

-----------------------------------------------------------------------------
Become(w, job) == work' = [work EXCEPT ![w] = job]

Active(u) == status[u] = "active"

\* Mutant: a token is valid until it expires, revoked or not.
UnexpiredOnly(t) == refresh[t].left > 0

\* RefreshToken.IsValid.
IsValid(t) == ~ refresh[t].revoked /\ refresh[t].left > 0

\* Refresh tokens no row has and no login is about to store.  One fresh uuid
\* is as good as another.
Fresh == {t \in Tokens \ stored : \A w \in Workers : work[w].token # t}

\* POST /login: the user is read with its roles; the password is compared and
\* an inactive user refused.  A refused login changes nothing.
LoginRead(w, u) ==
  /\ work[w].at = "idle"
  /\ Active(u)
  /\ Fresh # {}
  /\ Become(w, LoginJob(u, CHOOSE t \in Fresh : TRUE, roles[u]))
  /\ UNCHANGED <<status, roles, stored, refresh, access>>

\* The access token a worker mints from the user it read.
Minted(w) == [user |-> work[w].user, roles |-> work[w].roles,
              from |-> work[w].token, left |-> AccessTTL]

\* The refresh token is stored, and only then both tokens are handed out.
LoginMint(w) ==
  /\ work[w].at = "mint" /\ work[w].op = "login"
  /\ stored' = stored \cup {work[w].token}
  /\ refresh' = [refresh EXCEPT ![work[w].token] =
       [user |-> work[w].user, revoked |-> FALSE, left |-> RefreshTTL]]
  /\ access' = access \cup {Minted(w)}
  /\ Become(w, Idle)
  /\ UNCHANGED <<status, roles>>

\* POST /refresh: the row is read and must be valid now; it may be revoked or
\* expire before the request ends.
RefreshRead(w, t) ==
  /\ work[w].at = "idle"
  /\ t \in stored /\ IsValid(t)
  /\ Become(w, RefreshJob(refresh[t].user, t))
  /\ UNCHANGED <<status, roles, stored, refresh, access>>

\* Mutant: a refresh does not look at the status of the user.
RefreshAnyUser(w) ==
  /\ work[w].at = "user"
  /\ Become(w, MintJob(work[w]))
  /\ UNCHANGED <<status, roles, stored, refresh, access>>

\* Then the user is read, and refused unless active.
RefreshUser(w) ==
  /\ work[w].at = "user"
  /\ Become(w, IF Active(work[w].user)
               THEN MintJob(work[w])
               ELSE Idle)
  /\ UNCHANGED <<status, roles, stored, refresh, access>>

\* The end of a refresh after which the row of its token is r.
Refreshed(w, r) ==
  /\ work[w].at = "mint" /\ work[w].op = "refresh"
  /\ refresh' = [refresh EXCEPT ![work[w].token] = r]
  /\ access' = access \cup {Minted(w)}
  /\ Become(w, Idle)
  /\ UNCHANGED <<status, roles, stored>>

\* Mutants: the life of the refresh token starts anew; the row is saved whole
\* as it was when it was read, before any revocation.
RefreshSlides(w) == Refreshed(w, [refresh[work[w].token] EXCEPT !.left = RefreshTTL])
RefreshSavesRow(w) == Refreshed(w, [refresh[work[w].token] EXCEPT !.revoked = FALSE])

\* A new access token is handed out; the row is not touched: the same refresh
\* token goes back to the caller and keeps its expiry.
RefreshMint(w) == Refreshed(w, refresh[work[w].token])

\* POST /logout passes JWTAuth with any usable access token and names the
\* refresh token to revoke.
LogoutAccepted(w, t) ==
  /\ work[w].at = "idle"
  /\ access # {}
  /\ t \in stored
  /\ Become(w, RevokeJob(t))
  /\ UNCHANGED <<status, roles, stored, refresh, access>>

\* RevokeToken updates the one column, whatever it held.
Revoke(w) ==
  /\ work[w].at = "revoke"
  /\ refresh' = [refresh EXCEPT ![work[w].token].revoked = TRUE]
  /\ Become(w, Idle)
  /\ UNCHANGED <<status, roles, stored, access>>

\* JWTAuth and RequireRole: a usable access token minted with an admin role.
AdminToken == \E a \in access : a.roles \cap adminRoles # {}

\* The switch of UpdateUserStatus.
KnownStatus(s) == s \in Statuses

\* PATCH /users/{userId}: the user is read; an unknown status is refused.
StatusRead(w, u, s) ==
  /\ work[w].at = "idle"
  /\ AdminToken /\ KnownStatus(s)
  /\ Become(w, StatusJob(u, s, roles[u]))
  /\ UNCHANGED <<status, roles, stored, refresh, access>>

\* Mutant: the roles read with the user are saved with it.
StatusSaveRoles(w) ==
  /\ work[w].at = "save"
  /\ status' = [status EXCEPT ![work[w].user] = work[w].to]
  /\ roles' = [roles EXCEPT ![work[w].user] = work[w].roles]
  /\ Become(w, Idle)
  /\ UNCHANGED <<stored, refresh, access>>

\* userRepo.Update saves the row; fromDomainUser leaves the roles out, so the
\* join table keeps what was assigned meanwhile.  Tokens are not revoked.
StatusSave(w) ==
  /\ work[w].at = "save"
  /\ status' = [status EXCEPT ![work[w].user] = work[w].to]
  /\ Become(w, Idle)
  /\ UNCHANGED <<roles, stored, refresh, access>>

\* Mutant: the tenants of user and role are not compared.
AnyTenant(u, r) == TRUE

SameTenant(u, r) == tenantOf[u] = tenantOf[r]

\* POST /users/{userId}/roles: user and role are read and must have the same
\* tenant, which neither ever changes.
AssignRead(w, u, r) ==
  /\ work[w].at = "idle"
  /\ AdminToken /\ SameTenant(u, r)
  /\ Become(w, AssignJob(u, r))
  /\ UNCHANGED <<status, roles, stored, refresh, access>>

\* AssignToUser appends to the association.
Assign(w) ==
  /\ work[w].at = "assign"
  /\ roles' = [roles EXCEPT ![work[w].user] = @ \cup {work[w].role}]
  /\ Become(w, Idle)
  /\ UNCHANGED <<status, stored, refresh, access>>

\* A database error, a cancelled request or the death of the process.
Fail(w) ==
  /\ work[w].at # "idle"
  /\ Become(w, Idle)
  /\ UNCHANGED <<status, roles, stored, refresh, access>>

Older(row) == [row EXCEPT !.left = IF @ = 0 THEN 0 ELSE @ - 1]

\* A tick of the clock: an access token without life left is refused by jwt.
Tick ==
  /\ refresh' = [t \in Tokens |-> Older(refresh[t])]
  /\ access' = {Older(a) : a \in {b \in access : b.left > 1}}
  /\ UNCHANGED <<status, roles, stored, work>>

Accept(w) ==
  \/ \E u \in Users : LoginRead(w, u)
  \/ \E t \in Tokens : RefreshRead(w, t) \/ LogoutAccepted(w, t)
  \/ \E u \in Users, s \in Statuses \cup {"unknown"} : StatusRead(w, u, s)
  \/ \E u \in Users, r \in Roles : AssignRead(w, u, r)

Step(w) ==
  \/ LoginMint(w) \/ RefreshUser(w) \/ RefreshMint(w) \/ Revoke(w)
  \/ StatusSave(w) \/ Assign(w)

Next == Tick \/ \E w \in Workers : Accept(w) \/ Step(w) \/ Fail(w)

Spec == Init /\ [][Next]_vars

\* Time passes, and an accepted request ends: handlers do not wait for each
\* other, and the write timeout of the server bounds them.
FairSpec == Spec /\ WF_vars(Tick) /\ \A w \in Workers : WF_vars(Step(w) \/ Fail(w))

-----------------------------------------------------------------------------
\* What an access token claims still holds when it is used, long after the
\* roles were read: it has only roles its user holds, all of the user's
\* tenant, and it comes from a stored session of the same user.  Nothing the
\* concurrent admin operations save takes a role away.
ClaimsHold ==
  \A a \in access :
    /\ a.roles \subseteq roles[a.user]
    /\ a.from \in stored /\ refresh[a.from].user = a.user

\* No user holds, and no token claims, a role of another tenant.
RolesStayInTenant ==
  /\ \A u \in Users : \A r \in roles[u] : tenantOf[r] = tenantOf[u]
  /\ \A a \in access : \A r \in a.roles : tenantOf[r] = tenantOf[a.user]

\* A logout is final: whatever refreshes are in flight, no step makes a
\* revoked refresh token usable again or gives it to another user.
RevocationKept ==
  \A t \in stored : /\ t \in stored'
                    /\ refresh'[t].user = refresh[t].user
                    /\ refresh[t].revoked => refresh'[t].revoked
RevocationIsFinal == [][RevocationKept]_vars

\* Access tokens a step hands out: not there before, not merely older now.
NewTokens == access' \ (access \cup {Older(a) : a \in access})

\* A session is closed when its refresh token is revoked and the refreshes
\* that read it before have ended.  No access token is minted from a closed
\* session, and none of the requests still to come opens it again.
Closed(t) ==
  /\ t \in stored /\ refresh[t].revoked
  /\ \A w \in Workers : work[w].op = "refresh" => work[w].token # t
ClosedStays == \A t \in Tokens : Closed(t) => Closed(t)' /\ \A a \in NewTokens : a.from # t
LogoutCloses == [][ClosedStays]_vars

\* A user is shut out when it is not active and the requests that saw it
\* active have ended.  It gets no access token and stays shut out until its
\* status is active again, whatever refresh tokens it still holds.
ShutOut(u) == ~ Active(u) /\ \A w \in Workers : work[w].at = "mint" => work[w].user # u
ShutOutStays ==
  \A u \in Users : ShutOut(u) => (ShutOut(u) \/ Active(u))' /\ \A a \in NewTokens : a.user # u
SuspensionShutsOut == [][ShutOutStays]_vars

\* Every session ends: a refresh does not extend the life of its refresh
\* token, so from some moment on no access token of the session is usable.
SessionsEnd == \A t \in Tokens : <>[](\A a \in access : a.from # t)
=============================================================================
