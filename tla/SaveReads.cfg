SPECIFICATION Spec
CONSTANTS
  Content = {a, b, x, y}
  EditContent = {a, b}
  ExternalContent = {x, y}
  NoHash = NoHash
  MaxRows = 2
  Budgets <- ReadBudgets
INVARIANTS NoBlindOverwrite RemoteHashIsReal DirtyHasSave
PROPERTY ClosedStaysClosed
CHECK_DEADLOCK FALSE
