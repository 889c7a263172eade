SPECIFICATION FairSpec
CONSTANTS
  m = m
  l1 = l1
  l2 = l2
  a0 = a0
  a1 = a1
  a2 = a2
  Off = Off
  Main = m
  Leaves <- MCLeaves
  Aps <- MCAps
  NodeOf <- MCNodeOf
  Networks <- MCNetworks
  Start <- MCStart
  MaxAPs = 3
  Budgets <- MCBudgets
INVARIANTS TypeOK Tracked
PROPERTIES KeepsNeighbours Converges
