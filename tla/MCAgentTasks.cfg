SPECIFICATION ApprovalSpec
CONSTANTS
  p = p
  a = a
  b = b
  none = none
  g1 = g1
  g2 = g2
  Task <- MCTask
  NoTask = none
  Deps <- MCDeps
  ParentOf <- MCParentOf
  GraphOf <- MCGraphOf
  MaxAttempts <- MCMaxAttempts
  MaxActive = 2
  TokenBudget = 3
  GraphTokens = 3
  GraphCost = 2
  Reports <- MCReports
  Background <- MCBackground
  Slot = {s1, s2}
SYMMETRY SlotSymmetry
CONSTRAINT
  Apart
INVARIANTS
  GrantsAreAnswered
  AskStaysOpen
  DependenciesFirst
  BudgetsBind
PROPERTIES
  CancellationReachesAll
  TaskGraphImplemented
