SPECIFICATION FairSpec
CONSTANTS
  n1 = n1
  n2 = n2
  n3 = n3
  n4 = n4
  g1 = g1
  g2 = g2
  Pairs <- TwoPairs
  Geometries = {g1, g2}
  MaxAttempts = 4
  Budgets <- LiveBudgets
  Rank <- InOrder
PROPERTIES
  LaneCovered
  BytesReleased
CHECK_DEADLOCK FALSE
