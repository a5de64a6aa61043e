SPECIFICATION FairSpec
CONSTANTS
  w1 = w1  w2 = w2
  root = root  member = member
  admin = admin  foreign = foreign
  t1 = t1  t2 = t2
  home = home  other = other
  NoToken = NoToken
  Workers <- TwoWorkers
  Statuses <- ActiveOrNot
  Users <- TwoUsers
  Roles <- TwoRoles
  tenantOf <- TenantOf
  adminRoles <- AdminOnly
  startRoles <- SeededRoles
  Tokens <- TwoTokens
  AccessTTL = 1
  RefreshTTL = 2
INVARIANT ClaimsHold
INVARIANT RolesStayInTenant
PROPERTY RevocationIsFinal
PROPERTY LogoutCloses
PROPERTY SuspensionShutsOut
PROPERTY SessionsEnd
