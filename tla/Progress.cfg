SPECIFICATION ReplaySpec
CONSTANTS
  Content = {a, x}
  EditContent = {a}
  ExternalContent = {x}
  NoHash = NoHash
  MaxRows = 2
  ReplayLimit = 1
  Budgets <- ReplayBudgets
PROPERTIES SavesLeaveQueue FlushCommandDrains ReplayGoesOn
