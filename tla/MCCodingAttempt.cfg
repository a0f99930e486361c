SPECIFICATION Spec
CONSTANTS
  n1 = n1
  n2 = n2
  n3 = n3
  n4 = n4
  g1 = g1
  g2 = g2
  Pairs <- TwoPairs
  Geometries = {g1, g2}
  MaxAttempts = 3
  Budgets <- SafetyBudgets
  Rank <- InOrder
INVARIANTS
  TypeOK
  LaneOwned
  InputKept
  EvidenceHasData
  BytesOwned
CHECK_DEADLOCK FALSE
