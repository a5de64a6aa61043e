------------------------- MODULE AuthServiceProofs -------------------------
(***************************************************************************)
(* What holds of sessions for any number of requests, users, roles and     *)
(* refresh tokens and any token lives.  AuthService.tla has the properties.*)
(***************************************************************************)
EXTENDS AuthService, TLAPS

\* The jobs a worker may take up are of the declared type.
LEMMA IdleTyped == Idle \in Work
<1>1. (CHOOSE u \in Users : TRUE) \in Users
  BY AuthAssumption
<1>. QED  BY <1>1, AuthAssumption DEF Idle, Work

LEMMA JobsTyped ==
  /\ \A u \in Users, t \in Tokens, rs \in SUBSET Roles : LoginJob(u, t, rs) \in Work
  /\ \A u \in Users, t \in Tokens : RefreshJob(u, t) \in Work
  /\ \A t \in Tokens : RevokeJob(t) \in Work
  /\ \A u \in Users, s \in Statuses, rs \in SUBSET Roles : StatusJob(u, s, rs) \in Work
  /\ \A u \in Users, r \in Roles : AssignJob(u, r) \in Work
BY IdleTyped DEF Idle, Work, LoginJob, RefreshJob, RevokeJob, StatusJob, AssignJob

LEMMA MintTyped ==
  ASSUME roles \in [Users -> SUBSET Roles], NEW job \in Work
  PROVE  MintJob(job) \in Work
BY DEF Work, MintJob

\* The fields of a job: the step it waits for and what it needs there.
LEMMA JobFields ==
  /\ Idle.at = "idle" /\ Idle.op = "none" /\ Idle.token = NoToken
  /\ \A u \in Users, t \in Tokens, rs \in SUBSET Roles :
       /\ LoginJob(u, t, rs).at = "mint" /\ LoginJob(u, t, rs).op = "login"
       /\ LoginJob(u, t, rs).user = u /\ LoginJob(u, t, rs).token = t
       /\ LoginJob(u, t, rs).roles = rs
  /\ \A u \in Users, t \in Tokens :
       /\ RefreshJob(u, t).at = "user" /\ RefreshJob(u, t).op = "refresh"
       /\ RefreshJob(u, t).user = u /\ RefreshJob(u, t).token = t
  /\ \A t \in Tokens : /\ RevokeJob(t).at = "revoke" /\ RevokeJob(t).op = "none"
                        /\ RevokeJob(t).token = t
  /\ \A u \in Users, s \in Statuses, rs \in SUBSET Roles :
       /\ StatusJob(u, s, rs).at = "save" /\ StatusJob(u, s, rs).op = "none"
       /\ StatusJob(u, s, rs).token = NoToken
  /\ \A u \in Users, r \in Roles :
       /\ AssignJob(u, r).at = "assign" /\ AssignJob(u, r).op = "none"
       /\ AssignJob(u, r).user = u /\ AssignJob(u, r).role = r
       /\ AssignJob(u, r).token = NoToken
BY DEF Idle, LoginJob, RefreshJob, RevokeJob, StatusJob, AssignJob

LEMMA MintFields ==
  ASSUME NEW job \in Work
  PROVE  /\ MintJob(job).at = "mint" /\ MintJob(job).op = job.op
         /\ MintJob(job).user = job.user /\ MintJob(job).token = job.token
         /\ MintJob(job).roles = roles[job.user]
BY DEF Work, MintJob

LEMMA OlderTyped ==
  /\ \A row \in RefreshRow : Older(row) \in RefreshRow
  /\ \A a \in AccessToken : a.left > 1 => Older(a) \in AccessToken
BY AuthAssumption DEF Older, RefreshRow, AccessToken

\* A token that grows older stays the same token.
LEMMA OlderFields ==
  /\ \A row \in RefreshRow : /\ Older(row).user = row.user
                             /\ Older(row).revoked = row.revoked
  /\ \A a \in AccessToken : /\ Older(a).user = a.user /\ Older(a).roles = a.roles
                            /\ Older(a).from = a.from
BY DEF Older, RefreshRow, AccessToken

LEMMA TypeInit == Init => TypeOK
<1>1. NoRow \in RefreshRow
  <2>1. (CHOOSE u \in Users : TRUE) \in Users
    BY AuthAssumption
  <2>. QED  BY <2>1, AuthAssumption DEF NoRow, RefreshRow
<1>. QED  BY <1>1, IdleTyped, AuthAssumption DEF Init, TypeOK

-----------------------------------------------------------------------------
(***************************************************************************)
(* What a worker holds is what its next step relies on: a refresh has a    *)
(* stored token of its user, a login one nobody else stores, the roles of  *)
(* a token to be minted are held, a role to be assigned is of the tenant.  *)
(***************************************************************************)
JobSound(w) ==
  /\ work[w].at = "user" => work[w].op = "refresh"
  /\ work[w].at = "mint" => /\ work[w].op \in {"login", "refresh"}
                            /\ work[w].roles \subseteq roles[work[w].user]
  /\ work[w].at \notin {"user", "mint"} => work[w].op = "none"
  /\ work[w].op = "login" => /\ work[w].at = "mint"
                             /\ work[w].token \in Tokens \ stored
                             /\ \A v \in Workers : work[v].token = work[w].token => v = w
  /\ work[w].op = "refresh" => /\ work[w].token \in stored
                               /\ refresh[work[w].token].user = work[w].user
  /\ work[w].at = "revoke" => work[w].token \in stored
  /\ work[w].at = "assign" => /\ work[w].role \in Roles
                              /\ tenantOf[work[w].role] = tenantOf[work[w].user]

HeldInTenant == \A u \in Users : \A r \in roles[u] : tenantOf[r] = tenantOf[u]

AuthInv == TypeOK /\ (\A w \in Workers : JobSound(w)) /\ ClaimsHold /\ HeldInTenant

LEMMA AuthInit == Init => AuthInv
BY TypeInit, JobFields, AuthAssumption DEF AuthInv, Init, JobSound, ClaimsHold, HeldInTenant

LEMMA TypeStep == AuthInv /\ [Next]_vars => TypeOK'
<1>. SUFFICES ASSUME AuthInv, [Next]_vars PROVE TypeOK'
  OBVIOUS
<1>. USE DEF AuthInv, TypeOK
<1>0. CASE UNCHANGED vars
  BY <1>0 DEF vars
<1>1. CASE Tick
  BY <1>1, OlderTyped DEF Tick
<1>2. ASSUME NEW w \in Workers, NEW u \in Users, LoginRead(w, u)
      PROVE  TypeOK'
  <2>1. (CHOOSE t \in Fresh : TRUE) \in Tokens
    BY <1>2 DEF LoginRead, Fresh
  <2>. QED  BY <1>2, <2>1, JobsTyped DEF LoginRead, Become
<1>3. ASSUME NEW w \in Workers, LoginMint(w)
      PROVE  TypeOK'
  <2>1. work[w].token \in Tokens /\ work[w].user \in Users
    BY <1>3 DEF LoginMint, JobSound, Work
  <2>2. Minted(w) \in AccessToken
    BY <2>1, AuthAssumption DEF Minted, AccessToken, Work
  <2>3. [user |-> work[w].user, revoked |-> FALSE, left |-> RefreshTTL] \in RefreshRow
    BY <2>1, AuthAssumption DEF RefreshRow
  <2>. QED  BY <1>3, <2>1, <2>2, <2>3, IdleTyped DEF LoginMint, Become
<1>4. ASSUME NEW w \in Workers, NEW t \in Tokens, RefreshRead(w, t)
      PROVE  TypeOK'
  <2>1. refresh[t].user \in Users
    BY DEF RefreshRow
  <2>. QED  BY <1>4, <2>1, JobsTyped DEF RefreshRead, Become
<1>5. ASSUME NEW w \in Workers, RefreshUser(w)
      PROVE  TypeOK'
  <2>. QED  BY <1>5, IdleTyped, MintTyped DEF RefreshUser, Become
<1>6. ASSUME NEW w \in Workers, RefreshMint(w)
      PROVE  TypeOK'
  <2>1. work[w].token \in Tokens
    BY <1>6 DEF RefreshMint, Refreshed, JobSound
  <2>2. Minted(w) \in AccessToken
    BY <2>1, AuthAssumption DEF Minted, AccessToken, Work
  <2>. QED  BY <1>6, <2>1, <2>2, IdleTyped DEF RefreshMint, Refreshed, Become
<1>7. ASSUME NEW w \in Workers, NEW t \in Tokens, LogoutAccepted(w, t)
      PROVE  TypeOK'
  <2>. QED  BY <1>7, JobsTyped DEF LogoutAccepted, Become
<1>8. ASSUME NEW w \in Workers, Revoke(w)
      PROVE  TypeOK'
  <2>1. \A row \in RefreshRow : [row EXCEPT !.revoked = TRUE] \in RefreshRow
    BY DEF RefreshRow
  <2>. QED  BY <1>8, <2>1, IdleTyped DEF Revoke, Become
<1>9. ASSUME NEW w \in Workers, NEW u \in Users,
             NEW s \in Statuses \cup {"unknown"}, StatusRead(w, u, s)
      PROVE  TypeOK'
  <2>. QED  BY <1>9, JobsTyped DEF StatusRead, KnownStatus, Become
<1>10. ASSUME NEW w \in Workers, StatusSave(w)
      PROVE  TypeOK'
  <2>1. work[w].to \in Statuses
    BY DEF Work
  <2>. QED  BY <1>10, <2>1, IdleTyped DEF StatusSave, Become
<1>11. ASSUME NEW w \in Workers, NEW u \in Users, NEW r \in Roles, AssignRead(w, u, r)
      PROVE  TypeOK'
  <2>. QED  BY <1>11, JobsTyped DEF AssignRead, Become
<1>12. ASSUME NEW w \in Workers, Assign(w)
      PROVE  TypeOK'
  <2>1. work[w].role \in Roles
    BY <1>12 DEF Assign, JobSound
  <2>. QED  BY <1>12, <2>1, IdleTyped DEF Assign, Become
<1>13. ASSUME NEW w \in Workers, Fail(w)
      PROVE  TypeOK'
  BY <1>13, IdleTyped DEF Fail, Become
<1>. QED
  BY <1>0, <1>1, <1>2, <1>3, <1>4, <1>5, <1>6, <1>7, <1>8, <1>9, <1>10, <1>11, <1>12, <1>13
  DEF Next, Accept, Step

\* What one step of a worker leaves alone.
LEMMA OthersKeep ==
  ASSUME TypeOK, NEW w \in Workers, NEW job, Become(w, job)
  PROVE  work'[w] = job /\ \A v \in Workers : v # w => work'[v] = work[v]
BY DEF TypeOK, Become

\* A worker that rests has nothing to be wrong about.
LEMMA IdleSound ==
  ASSUME NEW w \in Workers, work'[w] = Idle
  PROVE  JobSound(w)'
BY JobFields DEF JobSound

\* A step of w does not invalidate what another worker holds if it takes no
\* role and no session away and does not touch the token the other stores.
LEMMA OtherSound ==
  ASSUME TypeOK, NEW v \in Workers, JobSound(v), NEW w \in Workers, v # w,
         \A x \in Workers : x # w => work'[x] = work[x],
         \A u \in Users : roles[u] \subseteq roles'[u],
         stored \subseteq stored',
         \A t \in stored : refresh'[t].user = refresh[t].user,
         work[v].op = "login" => work[v].token \notin stored' /\ work'[w].token # work[v].token
  PROVE  JobSound(v)'
<1>1. work'[v] = work[v] /\ work[v].user \in Users
  BY DEF TypeOK, Work
<1>2. work[v].op = "login" => \A x \in Workers : work'[x].token = work[v].token => x = v
  BY DEF JobSound
<1>. QED  BY <1>1, <1>2 DEF JobSound

LEMMA JobStep == AuthInv /\ [Next]_vars => \A v \in Workers : JobSound(v)'
<1>. SUFFICES ASSUME AuthInv, [Next]_vars, NEW v \in Workers PROVE JobSound(v)'
  OBVIOUS
<1>. USE DEF AuthInv
<1>0. CASE UNCHANGED vars
  BY <1>0 DEF vars, JobSound
<1>1. CASE Tick
  <2>1. \A t \in Tokens : refresh'[t].user = refresh[t].user
    BY <1>1, OlderFields DEF Tick, TypeOK
  <2>. QED  BY <1>1, <2>1 DEF Tick, JobSound, TypeOK
<1>2. ASSUME NEW w \in Workers, NEW u \in Users, LoginRead(w, u)
      PROVE  JobSound(v)'
  <2>. DEFINE t == CHOOSE x \in Fresh : TRUE
  <2>1. t \in Tokens \ stored /\ \A x \in Workers : work[x].token # t
    BY <1>2 DEF LoginRead, Fresh
  <2>2. work'[w] = LoginJob(u, t, roles[u]) /\ \A x \in Workers : x # w => work'[x] = work[x]
    BY <1>2, OthersKeep DEF LoginRead
  <2>. HIDE DEF t
  <2>3. /\ work'[w].at = "mint" /\ work'[w].op = "login" /\ work'[w].user = u
        /\ work'[w].token = t /\ work'[w].roles = roles[u]
    BY <2>1, <2>2, JobFields DEF TypeOK
  <2>4. UNCHANGED <<roles, stored, refresh>>
    BY <1>2 DEF LoginRead
  <2>5. JobSound(w)'
    BY <2>1, <2>2, <2>3, <2>4 DEF JobSound
  <2>. QED  BY <2>1, <2>2, <2>3, <2>4, <2>5, OtherSound DEF JobSound
<1>3. ASSUME NEW w \in Workers, LoginMint(w)
      PROVE  JobSound(v)'
  <2>1. work'[w] = Idle /\ \A x \in Workers : x # w => work'[x] = work[x]
    BY <1>3, OthersKeep DEF LoginMint
  <2>2. /\ \A x \in Users : roles[x] \subseteq roles'[x]
        /\ stored \subseteq stored'
        /\ \A x \in stored : refresh'[x].user = refresh[x].user
    BY <1>3 DEF LoginMint, TypeOK, JobSound
  <2>3. JobSound(w)'
    BY <2>1, IdleSound
  <2>4. v # w /\ work[v].op = "login" =>
          work[v].token \notin stored' /\ work'[w].token # work[v].token
    BY <1>3, <2>1, JobFields, AuthAssumption DEF LoginMint, JobSound
  <2>. QED  BY <2>1, <2>2, <2>3, <2>4, OtherSound
<1>4. ASSUME NEW w \in Workers, NEW t \in Tokens, RefreshRead(w, t)
      PROVE  JobSound(v)'
  <2>5. refresh[t].user \in Users
    BY DEF TypeOK, RefreshRow
  <2>1. work'[w] = RefreshJob(refresh[t].user, t) /\ \A x \in Workers : x # w => work'[x] = work[x]
    BY <1>4, OthersKeep DEF RefreshRead
  <2>2. /\ \A x \in Users : roles[x] \subseteq roles'[x]
        /\ stored \subseteq stored'
        /\ \A x \in stored : refresh'[x].user = refresh[x].user
    BY <1>4 DEF RefreshRead, TypeOK
  <2>3. JobSound(w)'
    BY <1>4, <2>1, JobFields, <2>5 DEF RefreshRead, JobSound, TypeOK
  <2>4. v # w /\ work[v].op = "login" =>
          work[v].token \notin stored' /\ work'[w].token # work[v].token
    BY <1>4, <2>1, JobFields, AuthAssumption, <2>5 DEF RefreshRead, JobSound
  <2>. QED  BY <2>1, <2>2, <2>3, <2>4, OtherSound
<1>5. ASSUME NEW w \in Workers, RefreshUser(w)
      PROVE  JobSound(v)'
  <2>1. /\ work'[w] = (IF Active(work[w].user) THEN MintJob(work[w]) ELSE Idle)
        /\ \A x \in Workers : x # w => work'[x] = work[x]
    BY <1>5, OthersKeep DEF RefreshUser
  <2>2. UNCHANGED <<roles, stored, refresh>> /\ work[w].at = "user"
    BY <1>5 DEF RefreshUser
  <2>3. work[w] \in Work /\ JobSound(w)
    BY DEF TypeOK
  <2>4. JobSound(w)'
    <3>1. CASE Active(work[w].user)
      <4>1. work'[w] = MintJob(work[w])
        BY <2>1, <3>1
      <4>. QED  BY <4>1, <2>2, <2>3, MintFields DEF JobSound, Work
    <3>2. CASE ~ Active(work[w].user)
      BY <2>1, <3>2, IdleSound
    <3>. QED  BY <3>1, <3>2
  <2>5. work[v].op = "login" => work[w].token # work[v].token \/ v = w
    BY DEF JobSound
  <2>6. work'[w].token = work[w].token \/ work'[w].token = NoToken
    BY <2>1, <2>3, MintFields, JobFields
  <2>7. work[v].op = "login" => work[v].token \notin stored /\ work[v].token \in Tokens
    BY DEF JobSound
  <2>. QED  BY <2>1, <2>2, <2>4, <2>5, <2>6, <2>7, OtherSound, AuthAssumption
<1>6. ASSUME NEW w \in Workers, RefreshMint(w)
      PROVE  JobSound(v)'
  <2>1. work'[w] = Idle /\ \A x \in Workers : x # w => work'[x] = work[x]
    BY <1>6, OthersKeep DEF RefreshMint, Refreshed
  <2>2. /\ \A x \in Users : roles[x] \subseteq roles'[x]
        /\ stored \subseteq stored'
        /\ \A x \in stored : refresh'[x].user = refresh[x].user
    BY <1>6 DEF RefreshMint, Refreshed, TypeOK
  <2>3. JobSound(w)'
    BY <2>1, IdleSound
  <2>4. v # w /\ work[v].op = "login" =>
          work[v].token \notin stored' /\ work'[w].token # work[v].token
    BY <1>6, <2>1, JobFields, AuthAssumption DEF RefreshMint, Refreshed, JobSound
  <2>. QED  BY <2>1, <2>2, <2>3, <2>4, OtherSound
<1>7. ASSUME NEW w \in Workers, NEW t \in Tokens, LogoutAccepted(w, t)
      PROVE  JobSound(v)'
  <2>1. work'[w] = RevokeJob(t) /\ \A x \in Workers : x # w => work'[x] = work[x]
    BY <1>7, OthersKeep DEF LogoutAccepted
  <2>2. /\ \A x \in Users : roles[x] \subseteq roles'[x]
        /\ stored \subseteq stored'
        /\ \A x \in stored : refresh'[x].user = refresh[x].user
    BY <1>7 DEF LogoutAccepted, TypeOK
  <2>3. JobSound(w)'
    BY <1>7, <2>1, JobFields DEF LogoutAccepted, JobSound, TypeOK
  <2>4. v # w /\ work[v].op = "login" =>
          work[v].token \notin stored' /\ work'[w].token # work[v].token
    BY <1>7, <2>1, JobFields, AuthAssumption DEF LogoutAccepted, JobSound
  <2>. QED  BY <2>1, <2>2, <2>3, <2>4, OtherSound
<1>8. ASSUME NEW w \in Workers, Revoke(w)
      PROVE  JobSound(v)'
  <2>1. work'[w] = Idle /\ \A x \in Workers : x # w => work'[x] = work[x]
    BY <1>8, OthersKeep DEF Revoke
  <2>2. /\ \A x \in Users : roles[x] \subseteq roles'[x]
        /\ stored \subseteq stored'
        /\ \A x \in stored : refresh'[x].user = refresh[x].user
    BY <1>8 DEF Revoke, TypeOK, RefreshRow
  <2>3. JobSound(w)'
    BY <2>1, IdleSound
  <2>4. v # w /\ work[v].op = "login" =>
          work[v].token \notin stored' /\ work'[w].token # work[v].token
    BY <1>8, <2>1, JobFields, AuthAssumption DEF Revoke, JobSound
  <2>. QED  BY <2>1, <2>2, <2>3, <2>4, OtherSound
<1>9. ASSUME NEW w \in Workers, NEW u \in Users,
             NEW s \in Statuses \cup {"unknown"}, StatusRead(w, u, s)
      PROVE  JobSound(v)'
  <2>1. work'[w] = StatusJob(u, s, roles[u]) /\ \A x \in Workers : x # w => work'[x] = work[x]
    BY <1>9, OthersKeep DEF StatusRead, KnownStatus
  <2>2. /\ \A x \in Users : roles[x] \subseteq roles'[x]
        /\ stored \subseteq stored'
        /\ \A x \in stored : refresh'[x].user = refresh[x].user
    BY <1>9 DEF StatusRead, KnownStatus, TypeOK
  <2>3. JobSound(w)'
    BY <1>9, <2>1, JobFields DEF StatusRead, JobSound, TypeOK, KnownStatus
  <2>4. v # w /\ work[v].op = "login" =>
          work[v].token \notin stored' /\ work'[w].token # work[v].token
    BY <1>9, <2>1, JobFields, AuthAssumption DEF StatusRead, KnownStatus, JobSound, TypeOK
  <2>. QED  BY <2>1, <2>2, <2>3, <2>4, OtherSound
<1>10. ASSUME NEW w \in Workers, StatusSave(w)
      PROVE  JobSound(v)'
  <2>1. work'[w] = Idle /\ \A x \in Workers : x # w => work'[x] = work[x]
    BY <1>10, OthersKeep DEF StatusSave
  <2>2. /\ \A x \in Users : roles[x] \subseteq roles'[x]
        /\ stored \subseteq stored'
        /\ \A x \in stored : refresh'[x].user = refresh[x].user
    BY <1>10 DEF StatusSave, TypeOK
  <2>3. JobSound(w)'
    BY <2>1, IdleSound
  <2>4. v # w /\ work[v].op = "login" =>
          work[v].token \notin stored' /\ work'[w].token # work[v].token
    BY <1>10, <2>1, JobFields, AuthAssumption DEF StatusSave, JobSound
  <2>. QED  BY <2>1, <2>2, <2>3, <2>4, OtherSound
<1>11. ASSUME NEW w \in Workers, NEW u \in Users, NEW r \in Roles, AssignRead(w, u, r)
      PROVE  JobSound(v)'
  <2>1. work'[w] = AssignJob(u, r) /\ \A x \in Workers : x # w => work'[x] = work[x]
    BY <1>11, OthersKeep DEF AssignRead
  <2>2. /\ \A x \in Users : roles[x] \subseteq roles'[x]
        /\ stored \subseteq stored'
        /\ \A x \in stored : refresh'[x].user = refresh[x].user
    BY <1>11 DEF AssignRead, TypeOK
  <2>3. JobSound(w)'
    BY <1>11, <2>1, JobFields DEF AssignRead, JobSound, TypeOK, SameTenant
  <2>4. v # w /\ work[v].op = "login" =>
          work[v].token \notin stored' /\ work'[w].token # work[v].token
    BY <1>11, <2>1, JobFields, AuthAssumption DEF AssignRead, JobSound
  <2>. QED  BY <2>1, <2>2, <2>3, <2>4, OtherSound
<1>12. ASSUME NEW w \in Workers, Assign(w)
      PROVE  JobSound(v)'
  <2>1. work'[w] = Idle /\ \A x \in Workers : x # w => work'[x] = work[x]
    BY <1>12, OthersKeep DEF Assign
  <2>2. /\ \A x \in Users : roles[x] \subseteq roles'[x]
        /\ stored \subseteq stored'
        /\ \A x \in stored : refresh'[x].user = refresh[x].user
    BY <1>12 DEF Assign, TypeOK
  <2>3. JobSound(w)'
    BY <2>1, IdleSound
  <2>4. v # w /\ work[v].op = "login" =>
          work[v].token \notin stored' /\ work'[w].token # work[v].token
    BY <1>12, <2>1, JobFields, AuthAssumption DEF Assign, JobSound
  <2>. QED  BY <2>1, <2>2, <2>3, <2>4, OtherSound
<1>13. ASSUME NEW w \in Workers, Fail(w)
      PROVE  JobSound(v)'
  <2>1. work'[w] = Idle /\ \A x \in Workers : x # w => work'[x] = work[x]
    BY <1>13, OthersKeep DEF Fail
  <2>2. /\ \A x \in Users : roles[x] \subseteq roles'[x]
        /\ stored \subseteq stored'
        /\ \A x \in stored : refresh'[x].user = refresh[x].user
    BY <1>13 DEF Fail, TypeOK
  <2>3. JobSound(w)'
    BY <2>1, IdleSound
  <2>4. v # w /\ work[v].op = "login" =>
          work[v].token \notin stored' /\ work'[w].token # work[v].token
    BY <1>13, <2>1, JobFields, AuthAssumption DEF Fail, JobSound
  <2>. QED  BY <2>1, <2>2, <2>3, <2>4, OtherSound
<1>. QED
  BY <1>0, <1>1, <1>2, <1>3, <1>4, <1>5, <1>6, <1>7, <1>8, <1>9, <1>10, <1>11, <1>12, <1>13
  DEF Next, Accept, Step

LEMMA ClaimsStep == AuthInv /\ [Next]_vars => ClaimsHold'
<1>. SUFFICES ASSUME AuthInv, [Next]_vars PROVE ClaimsHold'
  OBVIOUS
<1>. USE DEF AuthInv, TypeOK, ClaimsHold
<1>0. CASE UNCHANGED vars
  BY <1>0 DEF vars
<1>1. CASE Tick
  BY <1>1, OlderFields DEF Tick
<1>2. ASSUME NEW w \in Workers, NEW u \in Users, LoginRead(w, u)
      PROVE  ClaimsHold'
  BY <1>2 DEF LoginRead, Become
<1>3. ASSUME NEW w \in Workers, LoginMint(w)
      PROVE  ClaimsHold'
  <2>1. /\ Minted(w).user = work[w].user /\ Minted(w).from = work[w].token
        /\ Minted(w).roles = work[w].roles /\ Minted(w).roles \subseteq roles[work[w].user]
    BY <1>3 DEF Minted, JobSound, LoginMint
  <2>2. \A a \in access : a.from \in Tokens
    BY DEF AccessToken
  <2>. QED  BY <1>3, <2>1, <2>2 DEF LoginMint, JobSound
<1>4. ASSUME NEW w \in Workers, NEW t \in Tokens, RefreshRead(w, t)
      PROVE  ClaimsHold'
  BY <1>4 DEF RefreshRead, Become
<1>5. ASSUME NEW w \in Workers, RefreshUser(w)
      PROVE  ClaimsHold'
  BY <1>5 DEF RefreshUser, Become
<1>6. ASSUME NEW w \in Workers, RefreshMint(w)
      PROVE  ClaimsHold'
  <2>1. /\ Minted(w).user = work[w].user /\ Minted(w).from = work[w].token
        /\ Minted(w).roles = work[w].roles /\ Minted(w).roles \subseteq roles[work[w].user]
    BY <1>6 DEF Minted, JobSound, RefreshMint, Refreshed
  <2>2. \A a \in access : a.from \in Tokens
    BY DEF AccessToken
  <2>. QED  BY <1>6, <2>1, <2>2 DEF RefreshMint, Refreshed, JobSound
<1>7. ASSUME NEW w \in Workers, NEW t \in Tokens, LogoutAccepted(w, t)
      PROVE  ClaimsHold'
  BY <1>7 DEF LogoutAccepted, Become
<1>8. ASSUME NEW w \in Workers, Revoke(w)
      PROVE  ClaimsHold'
  <2>1. \A t \in Tokens : refresh'[t].user = refresh[t].user
    BY <1>8 DEF Revoke, RefreshRow
  <2>. QED  BY <1>8, <2>1 DEF Revoke
<1>9. ASSUME NEW w \in Workers, NEW u \in Users,
             NEW s \in Statuses \cup {"unknown"}, StatusRead(w, u, s)
      PROVE  ClaimsHold'
  BY <1>9 DEF StatusRead, Become
<1>10. ASSUME NEW w \in Workers, StatusSave(w)
      PROVE  ClaimsHold'
  BY <1>10 DEF StatusSave, Become
<1>11. ASSUME NEW w \in Workers, NEW u \in Users, NEW r \in Roles, AssignRead(w, u, r)
      PROVE  ClaimsHold'
  BY <1>11 DEF AssignRead, Become
<1>12. ASSUME NEW w \in Workers, Assign(w)
      PROVE  ClaimsHold'
  <2>1. \A u \in Users : roles[u] \subseteq roles'[u]
    BY <1>12 DEF Assign, Work
  <2>2. \A a \in access : a.user \in Users
    BY DEF AccessToken
  <2>. QED  BY <1>12, <2>1, <2>2 DEF Assign
<1>13. ASSUME NEW w \in Workers, Fail(w)
      PROVE  ClaimsHold'
  BY <1>13 DEF Fail, Become
<1>. QED
  BY <1>0, <1>1, <1>2, <1>3, <1>4, <1>5, <1>6, <1>7, <1>8, <1>9, <1>10, <1>11, <1>12, <1>13
  DEF Next, Accept, Step

LEMMA TenantStep == AuthInv /\ [Next]_vars => HeldInTenant'
<1>. SUFFICES ASSUME AuthInv, [Next]_vars PROVE HeldInTenant'
  OBVIOUS
<1>1. ASSUME NEW w \in Workers, Assign(w)
      PROVE  HeldInTenant'
  BY <1>1 DEF Assign, AuthInv, TypeOK, JobSound, HeldInTenant
<1>2. CASE UNCHANGED roles
  BY <1>2 DEF AuthInv, HeldInTenant
<1>. QED
  BY <1>1, <1>2 DEF Next, vars, Tick, Accept, Step, LoginRead, LoginMint, RefreshRead, RefreshUser,
     RefreshMint, Refreshed, LogoutAccepted, Revoke, StatusRead, StatusSave, AssignRead, Fail

LEMMA AuthInvariant == Spec => []AuthInv
<1>1. AuthInv /\ [Next]_vars => AuthInv'
  BY TypeStep, JobStep, ClaimsStep, TenantStep DEF AuthInv
<1>. QED  BY <1>1, AuthInit, PTL DEF Spec

-----------------------------------------------------------------------------
\* Whatever requests interleave, users, tokens and jobs stay within their types;
\* no status outside the known ones is ever saved.
THEOREM AuthTypeCorrect == Spec => []TypeOK
<1>1. AuthInv => TypeOK
  BY DEF AuthInv
<1>. QED  BY <1>1, AuthInvariant, PTL

\* An access token never claims a role its user does not hold, and always
\* comes from a stored session of that user.
THEOREM TokenClaimsHold == Spec => []ClaimsHold
<1>1. AuthInv => ClaimsHold
  BY DEF AuthInv
<1>. QED  BY <1>1, AuthInvariant, PTL

\* Roles do not cross tenants, in the join table or in a token.
THEOREM RolesKeptInTenant == Spec => []RolesStayInTenant
<1>1. AuthInv => RolesStayInTenant
  <2>1. AuthInv => \A a \in access : a.user \in Users
    BY DEF AuthInv, TypeOK, AccessToken
  <2>. QED  BY <2>1 DEF AuthInv, HeldInTenant, ClaimsHold, RolesStayInTenant
<1>. QED  BY <1>1, AuthInvariant, PTL

-----------------------------------------------------------------------------
\* Only a valid row gets a worker to refresh.
LEMMA RefreshTakenUp ==
  ASSUME AuthInv, [Next]_vars, NEW v \in Workers, work'[v].op = "refresh"
  PROVE  \/ work[v].op = "refresh" /\ work'[v].token = work[v].token
         \/ IsValid(work'[v].token)
<1>. DEFINE Goal == \/ work[v].op = "refresh" /\ work'[v].token = work[v].token
                    \/ IsValid(work'[v].token)
<1>. SUFFICES Goal
  OBVIOUS
<1>. USE DEF AuthInv, TypeOK
<1>0. CASE UNCHANGED vars
  BY <1>0 DEF vars
<1>1. CASE Tick
  BY <1>1 DEF Tick
<1>2. ASSUME NEW w \in Workers, NEW u \in Users, LoginRead(w, u)
      PROVE  Goal
  <2>1. /\ work'[w] = LoginJob(u, CHOOSE x \in Fresh : TRUE, roles[u])
        /\ \A x \in Workers : x # w => work'[x] = work[x]
    BY <1>2, OthersKeep DEF LoginRead
  <2>2. (CHOOSE x \in Fresh : TRUE) \in Tokens
    BY <1>2 DEF LoginRead, Fresh
  <2>. QED  BY <1>2, <2>1, JobFields, <2>2 DEF LoginRead
<1>3. ASSUME NEW w \in Workers, LoginMint(w)
      PROVE  Goal
  <2>1. /\ work'[w] = Idle
        /\ \A x \in Workers : x # w => work'[x] = work[x]
    BY <1>3, OthersKeep DEF LoginMint
  <2>. QED  BY <1>3, <2>1, JobFields DEF LoginMint
<1>4. ASSUME NEW w \in Workers, NEW t \in Tokens, RefreshRead(w, t)
      PROVE  Goal
  <2>1. /\ work'[w] = RefreshJob(refresh[t].user, t)
        /\ \A x \in Workers : x # w => work'[x] = work[x]
    BY <1>4, OthersKeep DEF RefreshRead
  <2>2. refresh[t].user \in Users
    BY DEF RefreshRow
  <2>. QED  BY <1>4, <2>1, JobFields, <2>2 DEF RefreshRead
<1>5. ASSUME NEW w \in Workers, RefreshUser(w)
      PROVE  Goal
  <2>1. /\ work'[w] = (IF Active(work[w].user) THEN MintJob(work[w]) ELSE Idle)
        /\ \A x \in Workers : x # w => work'[x] = work[x]
    BY <1>5, OthersKeep DEF RefreshUser
  <2>. QED  BY <1>5, <2>1, JobFields, MintFields DEF RefreshUser
<1>6. ASSUME NEW w \in Workers, RefreshMint(w)
      PROVE  Goal
  <2>1. /\ work'[w] = Idle
        /\ \A x \in Workers : x # w => work'[x] = work[x]
    BY <1>6, OthersKeep DEF RefreshMint, Refreshed
  <2>. QED  BY <1>6, <2>1, JobFields DEF RefreshMint, Refreshed
<1>7. ASSUME NEW w \in Workers, NEW t \in Tokens, LogoutAccepted(w, t)
      PROVE  Goal
  <2>1. /\ work'[w] = RevokeJob(t)
        /\ \A x \in Workers : x # w => work'[x] = work[x]
    BY <1>7, OthersKeep DEF LogoutAccepted
  <2>. QED  BY <1>7, <2>1, JobFields DEF LogoutAccepted
<1>8. ASSUME NEW w \in Workers, Revoke(w)
      PROVE  Goal
  <2>1. /\ work'[w] = Idle
        /\ \A x \in Workers : x # w => work'[x] = work[x]
    BY <1>8, OthersKeep DEF Revoke
  <2>. QED  BY <1>8, <2>1, JobFields DEF Revoke
<1>9. ASSUME NEW w \in Workers, NEW u \in Users,
             NEW s \in Statuses \cup {"unknown"}, StatusRead(w, u, s)
      PROVE  Goal
  <2>1. /\ work'[w] = StatusJob(u, s, roles[u])
        /\ \A x \in Workers : x # w => work'[x] = work[x]
    BY <1>9, OthersKeep DEF StatusRead
  <2>. QED  BY <1>9, <2>1, JobFields, AuthAssumption DEF StatusRead, KnownStatus
<1>10. ASSUME NEW w \in Workers, StatusSave(w)
      PROVE  Goal
  <2>1. /\ work'[w] = Idle
        /\ \A x \in Workers : x # w => work'[x] = work[x]
    BY <1>10, OthersKeep DEF StatusSave
  <2>. QED  BY <1>10, <2>1, JobFields DEF StatusSave
<1>11. ASSUME NEW w \in Workers, NEW u \in Users, NEW r \in Roles, AssignRead(w, u, r)
      PROVE  Goal
  <2>1. /\ work'[w] = AssignJob(u, r)
        /\ \A x \in Workers : x # w => work'[x] = work[x]
    BY <1>11, OthersKeep DEF AssignRead
  <2>. QED  BY <1>11, <2>1, JobFields DEF AssignRead
<1>12. ASSUME NEW w \in Workers, Assign(w)
      PROVE  Goal
  <2>1. /\ work'[w] = Idle
        /\ \A x \in Workers : x # w => work'[x] = work[x]
    BY <1>12, OthersKeep DEF Assign
  <2>. QED  BY <1>12, <2>1, JobFields DEF Assign
<1>13. ASSUME NEW w \in Workers, Fail(w)
      PROVE  Goal
  <2>1. /\ work'[w] = Idle
        /\ \A x \in Workers : x # w => work'[x] = work[x]
    BY <1>13, OthersKeep DEF Fail
  <2>. QED  BY <1>13, <2>1, JobFields DEF Fail
<1>. QED
  BY <1>0, <1>1, <1>2, <1>3, <1>4, <1>5, <1>6, <1>7, <1>8, <1>9, <1>10, <1>11, <1>12, <1>13
  DEF Next, Accept, Step

\* Only an active user gets a worker to mint.
LEMMA MintTakenUp ==
  ASSUME AuthInv, [Next]_vars, NEW v \in Workers, work'[v].at = "mint"
  PROVE  \/ work[v].at = "mint" /\ work'[v].user = work[v].user
         \/ Active(work'[v].user)
<1>. DEFINE Goal == \/ work[v].at = "mint" /\ work'[v].user = work[v].user
                    \/ Active(work'[v].user)
<1>. SUFFICES Goal
  OBVIOUS
<1>. USE DEF AuthInv, TypeOK
<1>0. CASE UNCHANGED vars
  BY <1>0 DEF vars
<1>1. CASE Tick
  BY <1>1 DEF Tick
<1>2. ASSUME NEW w \in Workers, NEW u \in Users, LoginRead(w, u)
      PROVE  Goal
  <2>1. /\ work'[w] = LoginJob(u, CHOOSE x \in Fresh : TRUE, roles[u])
        /\ \A x \in Workers : x # w => work'[x] = work[x]
    BY <1>2, OthersKeep DEF LoginRead
  <2>2. (CHOOSE x \in Fresh : TRUE) \in Tokens
    BY <1>2 DEF LoginRead, Fresh
  <2>. QED  BY <1>2, <2>1, JobFields, <2>2 DEF LoginRead
<1>3. ASSUME NEW w \in Workers, LoginMint(w)
      PROVE  Goal
  <2>1. /\ work'[w] = Idle
        /\ \A x \in Workers : x # w => work'[x] = work[x]
    BY <1>3, OthersKeep DEF LoginMint
  <2>. QED  BY <1>3, <2>1, JobFields DEF LoginMint
<1>4. ASSUME NEW w \in Workers, NEW t \in Tokens, RefreshRead(w, t)
      PROVE  Goal
  <2>1. /\ work'[w] = RefreshJob(refresh[t].user, t)
        /\ \A x \in Workers : x # w => work'[x] = work[x]
    BY <1>4, OthersKeep DEF RefreshRead
  <2>2. refresh[t].user \in Users
    BY DEF RefreshRow
  <2>. QED  BY <1>4, <2>1, JobFields, <2>2 DEF RefreshRead
<1>5. ASSUME NEW w \in Workers, RefreshUser(w)
      PROVE  Goal
  <2>1. /\ work'[w] = (IF Active(work[w].user) THEN MintJob(work[w]) ELSE Idle)
        /\ \A x \in Workers : x # w => work'[x] = work[x]
    BY <1>5, OthersKeep DEF RefreshUser
  <2>. QED  BY <1>5, <2>1, JobFields, MintFields DEF RefreshUser
<1>6. ASSUME NEW w \in Workers, RefreshMint(w)
      PROVE  Goal
  <2>1. /\ work'[w] = Idle
        /\ \A x \in Workers : x # w => work'[x] = work[x]
    BY <1>6, OthersKeep DEF RefreshMint, Refreshed
  <2>. QED  BY <1>6, <2>1, JobFields DEF RefreshMint, Refreshed
<1>7. ASSUME NEW w \in Workers, NEW t \in Tokens, LogoutAccepted(w, t)
      PROVE  Goal
  <2>1. /\ work'[w] = RevokeJob(t)
        /\ \A x \in Workers : x # w => work'[x] = work[x]
    BY <1>7, OthersKeep DEF LogoutAccepted
  <2>. QED  BY <1>7, <2>1, JobFields DEF LogoutAccepted
<1>8. ASSUME NEW w \in Workers, Revoke(w)
      PROVE  Goal
  <2>1. /\ work'[w] = Idle
        /\ \A x \in Workers : x # w => work'[x] = work[x]
    BY <1>8, OthersKeep DEF Revoke
  <2>. QED  BY <1>8, <2>1, JobFields DEF Revoke
<1>9. ASSUME NEW w \in Workers, NEW u \in Users,
             NEW s \in Statuses \cup {"unknown"}, StatusRead(w, u, s)
      PROVE  Goal
  <2>1. /\ work'[w] = StatusJob(u, s, roles[u])
        /\ \A x \in Workers : x # w => work'[x] = work[x]
    BY <1>9, OthersKeep DEF StatusRead
  <2>. QED  BY <1>9, <2>1, JobFields, AuthAssumption DEF StatusRead, KnownStatus
<1>10. ASSUME NEW w \in Workers, StatusSave(w)
      PROVE  Goal
  <2>1. /\ work'[w] = Idle
        /\ \A x \in Workers : x # w => work'[x] = work[x]
    BY <1>10, OthersKeep DEF StatusSave
  <2>. QED  BY <1>10, <2>1, JobFields DEF StatusSave
<1>11. ASSUME NEW w \in Workers, NEW u \in Users, NEW r \in Roles, AssignRead(w, u, r)
      PROVE  Goal
  <2>1. /\ work'[w] = AssignJob(u, r)
        /\ \A x \in Workers : x # w => work'[x] = work[x]
    BY <1>11, OthersKeep DEF AssignRead
  <2>. QED  BY <1>11, <2>1, JobFields DEF AssignRead
<1>12. ASSUME NEW w \in Workers, Assign(w)
      PROVE  Goal
  <2>1. /\ work'[w] = Idle
        /\ \A x \in Workers : x # w => work'[x] = work[x]
    BY <1>12, OthersKeep DEF Assign
  <2>. QED  BY <1>12, <2>1, JobFields DEF Assign
<1>13. ASSUME NEW w \in Workers, Fail(w)
      PROVE  Goal
  <2>1. /\ work'[w] = Idle
        /\ \A x \in Workers : x # w => work'[x] = work[x]
    BY <1>13, OthersKeep DEF Fail
  <2>. QED  BY <1>13, <2>1, JobFields DEF Fail
<1>. QED
  BY <1>0, <1>1, <1>2, <1>3, <1>4, <1>5, <1>6, <1>7, <1>8, <1>9, <1>10, <1>11, <1>12, <1>13
  DEF Next, Accept, Step

\* Access tokens come from the two steps that mint.
LEMMA TokensMinted ==
  ASSUME AuthInv, [Next]_vars, NEW a \in NewTokens
  PROVE  \E v \in Workers : /\ work[v].at = "mint"
                             /\ a.user = work[v].user /\ a.from = work[v].token
<1>1. ASSUME NEW w \in Workers, work[w].at = "mint", access' = access \cup {Minted(w)}
      PROVE  work[w].at = "mint" /\ a.user = work[w].user /\ a.from = work[w].token
  BY <1>1 DEF NewTokens, Minted
<1>2. CASE Tick
  BY <1>2 DEF Tick, NewTokens
<1>3. CASE UNCHANGED access
  BY <1>3 DEF NewTokens
<1>. QED
  BY <1>1, <1>2, <1>3 DEF Next, vars, Accept, Step, LoginRead, LoginMint, RefreshRead, RefreshUser,
     RefreshMint, Refreshed, LogoutAccepted, Revoke, StatusRead, StatusSave, AssignRead, Assign, Fail

\* No step removes a row, changes its user or takes a revocation back.
LEMMA RevocationStep == AuthInv /\ [Next]_vars => RevocationKept
<1>. SUFFICES ASSUME AuthInv, [Next]_vars PROVE RevocationKept
  OBVIOUS
<1>. USE DEF AuthInv, TypeOK
<1>1. CASE Tick
  BY <1>1, OlderFields DEF Tick, RevocationKept
<1>2. ASSUME NEW w \in Workers, LoginMint(w)
      PROVE  RevocationKept
  BY <1>2 DEF LoginMint, RevocationKept, JobSound
<1>3. ASSUME NEW w \in Workers, Revoke(w)
      PROVE  RevocationKept
  <2>1. \A t \in Tokens : /\ refresh'[t].user = refresh[t].user
                          /\ refresh[t].revoked => refresh'[t].revoked
    BY <1>3 DEF Revoke, RefreshRow
  <2>. QED  BY <1>3, <2>1 DEF Revoke, RevocationKept
<1>4. ASSUME NEW w \in Workers, RefreshMint(w)
      PROVE  RevocationKept
  BY <1>4 DEF RefreshMint, Refreshed, RevocationKept
<1>5. CASE UNCHANGED <<stored, refresh>>
  BY <1>5 DEF RevocationKept
<1>. QED
  BY <1>1, <1>2, <1>3, <1>4, <1>5 DEF Next, vars, Accept, Step, LoginRead, RefreshRead, RefreshUser,
     LogoutAccepted, StatusRead, StatusSave, AssignRead, Assign, Fail

\* A logout is final.
THEOREM LogoutIsFinal == Spec => RevocationIsFinal
<1>1. AuthInv /\ [Next]_vars => [RevocationKept]_vars
  BY RevocationStep
<1>. QED  BY <1>1, AuthInvariant, PTL DEF Spec, RevocationIsFinal

\* A session that is revoked and has no refresh in flight mints nothing more.
THEOREM ClosedSessionsStayClosed == Spec => LogoutCloses
<1>1. AuthInv /\ [Next]_vars => [ClosedStays]_vars
  <2>. SUFFICES ASSUME AuthInv, [Next]_vars, NEW t \in Tokens, Closed(t)
                PROVE  Closed(t)' /\ \A a \in NewTokens : a.from # t
    BY DEF ClosedStays
  <2>1. t \in stored' /\ refresh'[t].revoked
    BY RevocationStep DEF Closed, RevocationKept
  <2>2. ASSUME NEW v \in Workers, work'[v].op = "refresh"
        PROVE  work'[v].token # t
    BY <2>2, RefreshTakenUp DEF Closed, IsValid
  <2>3. ASSUME NEW a \in NewTokens
        PROVE  a.from # t
    <3>1. PICK v \in Workers : work[v].at = "mint" /\ a.from = work[v].token
      BY TokensMinted
    <3>. QED  BY <3>1 DEF Closed, AuthInv, JobSound
  <2>. QED  BY <2>1, <2>2, <2>3 DEF Closed
<1>. QED  BY <1>1, AuthInvariant, PTL DEF Spec, LogoutCloses

\* A user who is not active, with no request in flight that saw it active,
\* gets no access token.
THEOREM SuspendedStayOut == Spec => SuspensionShutsOut
<1>1. AuthInv /\ [Next]_vars => [ShutOutStays]_vars
  <2>. SUFFICES ASSUME AuthInv, [Next]_vars, NEW u \in Users, ShutOut(u)
                PROVE  (ShutOut(u) \/ Active(u))' /\ \A a \in NewTokens : a.user # u
    BY DEF ShutOutStays
  <2>1. ASSUME NEW v \in Workers, work'[v].at = "mint"
        PROVE  work'[v].user # u
    BY <2>1, MintTakenUp DEF ShutOut
  <2>2. ASSUME NEW a \in NewTokens
        PROVE  a.user # u
    BY TokensMinted DEF ShutOut
  <2>. QED  BY <2>1, <2>2 DEF ShutOut
<1>. QED  BY <1>1, AuthInvariant, PTL DEF Spec, SuspensionShutsOut

-----------------------------------------------------------------------------
(***************************************************************************)
(* Why every session ends, in the terms of single steps: time only takes   *)
(* from the life of a refresh token, and a token without life mints nothing.*)
(***************************************************************************)
\* A session has run out when its refresh token has expired and the refreshes
\* that read it before have ended.
RunOut(t) ==
  /\ t \in stored /\ refresh[t].left = 0
  /\ \A w \in Workers : work[w].op = "refresh" => work[w].token # t

NothingExtends ==
  \A t \in stored :
    /\ refresh'[t].left <= refresh[t].left
    /\ RunOut(t) => RunOut(t)' /\ \A a \in NewTokens : a.from # t

LEMMA OlderHasLess == \A row \in RefreshRow : Older(row).left <= row.left
BY AuthAssumption DEF Older, RefreshRow

\* The life of a stored refresh token never grows.
LEMMA LifeStep ==
  ASSUME AuthInv, [Next]_vars, NEW t \in stored
  PROVE  refresh'[t].left <= refresh[t].left
<1>. USE DEF AuthInv, TypeOK
<1>0. t \in Tokens /\ refresh[t] \in RefreshRow /\ refresh[t].left \in Nat
  BY AuthAssumption DEF RefreshRow
<1>1. CASE Tick
  BY <1>0, <1>1, OlderHasLess DEF Tick
<1>2. ASSUME NEW w \in Workers, LoginMint(w)
      PROVE  refresh'[t].left <= refresh[t].left
  <2>1. work[w].token # t
    BY <1>2 DEF LoginMint, JobSound
  <2>. QED  BY <1>0, <1>2, <2>1 DEF LoginMint
<1>3. ASSUME NEW w \in Workers, Revoke(w)
      PROVE  refresh'[t].left <= refresh[t].left
  <2>1. refresh'[t].left = refresh[t].left
    BY <1>0, <1>3 DEF Revoke, RefreshRow
  <2>. QED  BY <1>0, <2>1
<1>4. CASE UNCHANGED refresh
  BY <1>0, <1>4
<1>5. ASSUME NEW w \in Workers, RefreshMint(w)
      PROVE  refresh'[t].left <= refresh[t].left
  <2>1. refresh'[t].left = refresh[t].left
    BY <1>0, <1>5 DEF RefreshMint, Refreshed
  <2>. QED  BY <1>0, <2>1
<1>. QED
  BY <1>1, <1>2, <1>3, <1>4, <1>5 DEF Next, vars, Accept, Step, LoginRead, RefreshRead, RefreshUser,
     LogoutAccepted, StatusRead, StatusSave, AssignRead, Assign, Fail

\* No request extends a session: Refresh (auth_service.go) hands back the token
\* with the expiry it had, so its life only shrinks, and a session that has run
\* out stays so and mints no access token.  Fairness is needed only for time
\* to pass and for the refreshes in flight to end.
THEOREM SessionsRunOut == Spec => [][NothingExtends]_vars
<1>1. AuthInv /\ AuthInv' /\ [Next]_vars => [NothingExtends]_vars
  <2>. SUFFICES ASSUME AuthInv, AuthInv', [Next]_vars, NEW t \in stored
                PROVE  /\ refresh'[t].left <= refresh[t].left
                       /\ RunOut(t) => RunOut(t)' /\ \A a \in NewTokens : a.from # t
    BY DEF NothingExtends
  <2>1. refresh'[t].left <= refresh[t].left
    BY LifeStep
  <2>2. ASSUME RunOut(t)
        PROVE  RunOut(t)' /\ \A a \in NewTokens : a.from # t
    <3>1. t \in stored'
      BY RevocationStep DEF RevocationKept
    <3>2. refresh'[t].left = 0
      <4>1. t \in Tokens /\ refresh'[t] \in RefreshRow
        BY DEF AuthInv, TypeOK
      <4>2. refresh'[t].left \in Nat
        BY <4>1, AuthAssumption DEF RefreshRow
      <4>. QED  BY <2>1, <2>2, <4>2 DEF RunOut
    <3>3. ASSUME NEW v \in Workers, work'[v].op = "refresh"
          PROVE  work'[v].token # t
      BY <2>2, <3>3, RefreshTakenUp DEF RunOut, IsValid
    <3>4. ASSUME NEW a \in NewTokens
          PROVE  a.from # t
      <4>1. PICK v \in Workers : work[v].at = "mint" /\ a.from = work[v].token
        BY TokensMinted
      <4>. QED  BY <2>2, <4>1 DEF RunOut, AuthInv, JobSound
    <3>. QED  BY <3>1, <3>2, <3>3, <3>4 DEF RunOut
  <2>. QED  BY <2>1, <2>2
<1>. QED  BY <1>1, AuthInvariant, PTL DEF Spec
=============================================================================
