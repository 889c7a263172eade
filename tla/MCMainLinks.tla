---------------------------- MODULE MCMainLinks ----------------------------
(* Small instances of MainLinks for TLC.                                   *)
EXTENDS MainLinks

CONSTANT eth1

OneParent == [l \in Leaves |-> eth1]
DriverLimit == [p \in {eth1} |-> 3]

Times(config, fault, upset, crash) ==
  [e \in Events |-> CASE e = "config" -> config [] e = "fault" -> fault
                      [] e = "upset" -> upset [] e = "crash" -> crash]

\* Two changes, and a failed call, an exit or a flush, and a crash anywhere.
LinkBudget == Times(2, 1, 1, 1)

\* The same without exits and flushes, for behaviours that have to settle.
SettleBudget == Times(2, 1, 0, 1)
=============================================================================
