SPECIFICATION Spec
CONSTANTS
  w1 = w1  w2 = w2
  t1 = t1  t2 = t2
  acme = acme  beta = beta
  NoTenant = NoTenant
  Workers <- TwoWorkers
  Tenants <- TwoTenants
  Slugs <- TwoSlugs
  Plans <- ThreePlans
SYMMETRY Symmetric
INVARIANT PlanConsistent
INVARIANT AnswersTrue
PROPERTY SlugsClaimedOnce
PROPERTY LaterRequestsKeepInactive
