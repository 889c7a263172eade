-------------------------- MODULE MCBackhaulChange --------------------------
(* Small instances of BackhaulChange for TLC.                              *)
EXTENDS BackhaulChange, TLC

CONSTANTS a1, a2, t1, t2, t3, h1, h2

Times(put, delete, set, tune, lost, crash, repair) ==
  [e \in Events |-> CASE e = "put" -> put [] e = "delete" -> delete [] e = "set" -> set
                      [] e = "tune" -> tune [] e = "lost" -> lost
                      [] e = "crash" -> crash [] e = "repair" -> repair]

ChangeBudget == Times(2, 1, 2, 1, 0, 0, 1)

\* Two requests, a list change and a pending entry against lost calls, a crash and
\* a leaf that is set up again.
PendingBudget == Times(2, 1, 2, 1, 1, 1, 1)

\* An entry, a delete and an enable.
DeleteBudget == Times(1, 1, 1, 0, 0, 0, 0)

ChangeSymmetry ==
  Permutations({h1, h2}) \cup Permutations({a1, a2}) \cup Permutations({t1, t2, t3})
=============================================================================
