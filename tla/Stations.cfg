SPECIFICATION Spec
CONSTANTS
  m1 = m1
  m2 = m2
  i1 = i1
  i2 = i2
  h1 = h1
  h2 = h2
  None = None
  Macs = {m1, m2}
  Ifaces = {i1, i2}
  Handlers = {h1, h2}
  Budgets <- MCBudgets
SYMMETRY Symmetry
CHECK_DEADLOCK FALSE
INVARIANTS TypeOK OneGrant GrantedIsIsolated AccessFollows ParentFollows
