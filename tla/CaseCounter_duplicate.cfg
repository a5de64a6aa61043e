SPECIFICATION Spec
CONSTANTS
  r1 = r1  r2 = r2  r3 = r3  r4 = r4  r5 = r5
  busy = busy  quiet = quiet
  NoOne = NoOne
  Requests <- AllRequests
  Tenants <- AllTenants
  tenantOf <- TenantOfAll
  MaxConns = 2
INVARIANT UniqueCaseNumbers
