----------------------------- MODULE MCLinkMTU -----------------------------
(* Interfaces that cannot, can a little and can carry larger frames, and one *)
(* whose driver does not say; wires from plain Ethernet to full jumbo frames. *)
EXTENDS LinkMTU

CONSTANTS MCChanges, MCLost, MCPath

MCBudget == [change |-> MCChanges, lost |-> MCLost, path |-> MCPath]
MCMaxMTUs == {0, 1500, 1600}
MCPaths == {1516, 9000}
MCRequests == {0, 1400}
=============================================================================
