SPECIFICATION FairSpec
CONSTANTS
  Content = {a, b, x}
  EditContent = {a, b}
  ExternalContent = {x}
  NoHash = NoHash
  MaxRows = 2
  Budgets <- ResolveBudgets
INVARIANT AcceptRemoteIsNotStale
CHECK_DEADLOCK FALSE
