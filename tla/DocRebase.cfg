SPECIFICATION FairSpec
CONSTANTS
  Content = {a, b, x}
  EditContent = {a, b}
  ExternalContent = {x}
  NoHash = NoHash
  MaxRows = 3
  Budgets <- RebaseBudgets
INVARIANT NextSaveIsRebased
CHECK_DEADLOCK FALSE
