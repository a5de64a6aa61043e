SPECIFICATION Spec
CONSTANTS
  w1 = w1  w2 = w2
  f1 = f1
  title = title  amount = amount
  NoForm = NoForm
  Workers <- TwoWorkers
  Forms <- OneForm
  Names <- TwoNames
  FieldLists <- TwoLists
  MaxVersion = 3
  MaxValues = 4
  MaxSubmissions = 1
SYMMETRY Symmetric
INVARIANT SubmissionsFit
PROPERTY EditsOfCopies
PROPERTY PublicationsStay
