SPECIFICATION Spec
CONSTANTS
  Content = {a, b, x}
  EditContent = {a, b}
  ExternalContent = {x}
  NoHash = NoHash
  MaxRows = 2
  Budgets <- WriteBudgets
INVARIANTS TypeOK AppliedWasInstalled DirtyHasSave NoBlindOverwrite
PROPERTY ClosedStaysClosed
CHECK_DEADLOCK FALSE
