SPECIFICATION FairDispatchSpec
CONSTANTS
  p = p
  a = a
  none = none
  g1 = g1
  g2 = g2
  lead = lead
  peer = peer
  Session = {lead, peer}
  Supervised = {lead}
  Task <- Family
  NoTask = none
  Deps <- Independent
  ParentOf <- FamilyParentOf
  GraphOf <- FamilyGraphOf
  MaxAttempts <- FamilyMaxAttempts
  MaxActive = 1
  TokenBudget = 1
  GraphTokens = 1
  GraphCost = 1
  Reports <- FreeReports
  MaxCrashes = 0
INVARIANTS
  CapacityRespected
PROPERTIES
  EverySettles
