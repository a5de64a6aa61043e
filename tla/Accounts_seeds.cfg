SPECIFICATION Spec
CONSTANTS
  w1 = w1  w2 = w2
  s1 = s1  s2 = s2
  system = system  acme = acme
  admin = admin
  Workers <- TwoWorkers
  Seeds <- TwoSeeds
  Tenants <- TwoTenants
  System = system
  Emails <- OneEmail
  Admin = admin
  LastRole = 2
  MaxRuns = 2
SYMMETRY Symmetric
INVARIANT RefusalsExplained
INVARIANT CompletedSeed
 
