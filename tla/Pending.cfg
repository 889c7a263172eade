SPECIFICATION FairSpec
CONSTANTS
  a1 = a1
  a2 = a2
  t1 = t1
  t2 = t2
  t3 = t3
  h1 = h1
  h2 = h2
  IPs = {a1}
  Tokens = {t1, t2}
  Handlers = {h1}
  Retry = Retry
  None = None
  FirstPort = 2
  LastPort = 4
  LastWGPort = 3
  MTUs = {9}
  Budget <- PendingBudget
PROPERTY PendingCompletes
CHECK_DEADLOCK FALSE
