SPECIFICATION FairSpec
CONSTANTS
  MaxMTUs <- MCMaxMTUs
  Paths <- MCPaths
  Requests <- MCRequests
  Budget <- MCBudget
  MCChanges = 2
  MCLost = 1
  MCPath = 1
INVARIANTS TypeOK SearchSound Carries ClampFits
PROPERTY GetsMeasured
