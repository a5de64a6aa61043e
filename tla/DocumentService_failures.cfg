SPECIFICATION Spec
CONSTANTS
  p1 = p1  p2 = p2
  w1 = w1  w2 = w2  w3 = w3
  d1 = d1  d2 = d2
  NoDoc = NoDoc
  Pods <- TwoPods
  Workers <- ThreeWorkers
  podOf <- PodOfWorker
  Docs <- TwoDocs
INVARIANT TypeOK
INVARIANT AcknowledgedKept
INVARIANT LeaksExplained
INVARIANT CountOneAhead
PROPERTY DeletedStaysDeleted
