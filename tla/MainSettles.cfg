SPECIFICATION FairSpec
CONSTANTS
  eth1 = eth1
  Count = 2
  WG = {}
  Parents = {eth1}
  ParentOf <- OneParent
  BaseMTU = 1
  WantMTU = 2
  JumboMTU = 4
  MaxMTU <- DriverLimit
  Budget <- SettleBudget
PROPERTIES MTURestored SecuredJoins InsecureLeaves
