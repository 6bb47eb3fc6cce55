SPECIFICATION FairSpec
CONSTANTS
  Content = {a, b, x}
  EditContent = {a, b}
  ExternalContent = {x}
  NoHash = NoHash
  MaxRows = 2
  Budgets <- AloneBudgets
INVARIANT ConflictMeansRemoteChanged
CHECK_DEADLOCK FALSE
