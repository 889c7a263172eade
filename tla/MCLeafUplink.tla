---------------------------- MODULE MCLeafUplink ----------------------------
(* Small instances of LeafUplink for TLC.                                  *)
EXTENDS LeafUplink, TLC

CONSTANTS n1, n2, n3

RaceNonces == {n1, n2, n3}
RaceModes == [n \in RaceNonces |-> IF n = n3 THEN "wireguard" ELSE "macsec"]
RaceSymmetry == Permutations({n1, n2})

MixedNonces == {n1, n3}
MixedModes == [n \in MixedNonces |-> RaceModes[n]]

Times(enable, disable, lost, frame, toggle, fault, exit, crash, boot, any) ==
  [e \in Events |-> CASE e = "enable" -> enable [] e = "disable" -> disable
                      [] e = "lost" -> lost [] e = "wire" -> frame
                      [] e = "toggle" -> toggle [] e = "fault" -> fault
                      [] e = "exit" -> exit [] e = "crash" -> crash [] e = "boot" -> boot
                      [] e = "any" -> any]

\* Any four of: two enables, a call or the main router lost, a disable on the wire,
\* leaf mode off and on.
RaceBudget == Times(2, 0, 1, 1, 2, 0, 0, 0, 0, 4)

\* Any three of: an enable, a disable, a call or the main router lost, a failed call,
\* a participant's exit, a crash, a restart of the router or the base container.
FailureBudget == Times(1, 1, 1, 0, 0, 1, 1, 1, 1, 3)

WGNonces == {n1, n2}
WGModes == [n \in WGNonces |-> "wireguard"]

\* Disable and enable again, nothing else.
RekeyBudget == Times(2, 1, 0, 0, 0, 0, 0, 0, 0, 3)

\* Leaf mode off and on.
FlipBudget == Times(1, 0, 0, 0, 2, 0, 0, 0, 0, 3)
=============================================================================
