-------------------------- MODULE MCStationAccess --------------------------
(* Two stations and two interfaces of a mesh node, for TLC.                *)
EXTENDS StationAccess, TLC

CONSTANTS m1, m2, i1, i2, h1, h2

Symmetry == Permutations({m1, m2}) \cup Permutations({i1, i2}) \cup Permutations({h1, h2})

Others == Events \ {"join"}

\* Three associations, or two of them and any two other events.
MCBudgets ==
  {f \in [Events -> 0..3] :
     \/ f["join"] = 3 /\ \A e \in Others : f[e] = 0
     \/ f["join"] = 2 /\ Cardinality({e \in Others : f[e] = 1}) = 2
                     /\ Cardinality({e \in Others : f[e] = 0}) = 2}
=============================================================================
