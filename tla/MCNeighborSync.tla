-------------------------- MODULE MCNeighborSync --------------------------
(* The neighbour reports of a main router and two leaves, for TLC.         *)
EXTENDS NeighborSync, TLC

CONSTANTS m, l1, l2, a0, a1, a2

MCLeaves == {l1, l2}
MCAps == {a0, a1, a2}
MCNodeOf == (a0 :> m) @@ (a1 :> l1) @@ (a2 :> l2)

MCNetworks ==
  [ssid : {"home", "guest"}, mgmt : {"wpa2"}, ciphers : {{"ccmp"}}]

MCStart == [ssid |-> "home", mgmt |-> "wpa2", ciphers |-> {"ccmp"}]

\* Any two outside events of different kinds, in any order; a rename not with an access
\* point that changes or a crash, but with another rename.
MCBudgets ==
  {f \in [Events -> 0..1] :
     /\ Cardinality({e \in Events : f[e] = 1}) = 2
     /\ f["ssid"] = 1 => f["ap"] = 0 /\ f["crash"] = 0}
    \cup {[e \in Events |-> IF e = "ssid" THEN 2 ELSE 0]}
=============================================================================
