SPECIFICATION FairSpec
CONSTANTS
  t1 = t1  t2 = t2  q1 = q1
  Tabs <- TwoTabs
  Queries <- OneQuery
  pageOf <- PageOfAll
  MaxSessions = 2
INVARIANT TokensPaired
PROPERTY EveryCallSettles
PROPERTY SignOutEnds
PROPERTY RefusedReachesLogin
