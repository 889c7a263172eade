SPECIFICATION Spec
CONSTANTS
  a1 = a1
  a2 = a2
  t1 = t1
  t2 = t2
  t3 = t3
  h1 = h1
  h2 = h2
  IPs = {a1, a2}
  Tokens = {t1, t2, t3}
  Handlers = {h1, h2}
  Retry = Retry
  None = None
  FirstPort = 2
  LastPort = 3
  LastWGPort = 2
  MTUs = {9}
  Budget <- ChangeBudget
SYMMETRY ChangeSymmetry
INVARIANTS TypeOK DistinctPorts OwnReply Agree NoOrphan
CHECK_DEADLOCK FALSE
