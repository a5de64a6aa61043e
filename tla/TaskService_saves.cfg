SPECIFICATION Spec
CONSTANTS
  w1 = w1  w2 = w2
  c1 = c1
  t1 = t1
  m1 = m1
  this = this  that = that
  Nothing = Nothing
  Workers <- TwoWorkers
  Cases <- OneCase
  Tasks <- OneTask
  Comments <- OneComment
  Statuses <- SomeStatuses
  Contents <- TwoContents
  MaxTime = 3
  MaxValues = 4
SYMMETRY Symmetric
INVARIANT StampsSound
PROPERTY CompletionKept
