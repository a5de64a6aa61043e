SPECIFICATION Spec
CONSTANTS
  w1 = w1  w2 = w2  c1 = c1
  Workers <- TwoWorkers
  Cases <- OneCase
  Statuses <- FourStatuses
  Edges <- TemplateEdges
  SLATicks = 1
  Contents = {"a"}
  MaxTime = 3
  MaxMoves = 2
SYMMETRY Symmetric
INVARIANT StatusReachable
INVARIANT BreachedOnlyWhenOverdue
INVARIANT StatusStamped
INVARIANT HistoryWasApplied
PROPERTY ImplementsLifecycle
