SPECIFICATION FairSpec
CONSTANTS
  Content = {a, b, x}
  EditContent = {a, b}
  ExternalContent = {x}
  NoHash = NoHash
  MaxRows = 2
  Budgets <- PrefetchBudgets
PROPERTY EditsAreNotOverwritten
CHECK_DEADLOCK FALSE
