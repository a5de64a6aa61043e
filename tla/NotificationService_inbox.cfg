SPECIFICATION InboxSpec
CONSTANTS
  w1 = w1  w2 = w2  ann = ann  bob = bob
  NoUser = NoUser
  Workers <- TwoWorkers
  Users <- TwoUsers
  Ids <- ThreeIds
  Bulks <- OneOrTwo
  PageSize = 2
SYMMETRY Symmetric
INVARIANT InboxTypeOK
INVARIANT BulkStoresPrefix
PROPERTY DismissedContentGone
PROPERTY UnreadOnlyByRetry
