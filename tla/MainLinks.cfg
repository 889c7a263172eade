SPECIFICATION Spec
CONSTANTS
  eth1 = eth1
  Count = 3
  WG = {2}
  Parents = {eth1}
  ParentOf <- OneParent
  BaseMTU = 1
  WantMTU = 2
  JumboMTU = 4
  MaxMTU <- DriverLimit
  Budget <- LinkBudget
INVARIANTS TypeOK BridgedIsPinned PortsIsolated RemovedIsGone OriginalKept
