----------------------------- MODULE MainLinks -----------------------------
(***************************************************************************)
(* The main router's pass over its encrypted links: reconcileMain,         *)
(* reconcileMeshBridge (code/mesh_bridge.go) and the bookkeeping of raised *)
(* MTUs (raiseParentMTUTo, restoreUnusedMTU).  One goroutine runs it; what *)
(* comes in between are changes of the configuration, the tunnels, failed  *)
(* system calls, and crashes at every point where the kernel or the disk   *)
(* has changed and the manager's memory has not caught up.                 *)
(*                                                                         *)
(* The leaves are numbered in the order of config.LeafRouters.             *)
(***************************************************************************)
EXTENDS Integers

CONSTANTS
  Count,      \* number of leaf routers
  WG,         \* the leaves whose mode is WireGuard; the others use MACsec
  Parents,    \* interfaces that face leaf routers
  ParentOf,   \* the interface a leaf is behind
  BaseMTU,    \* MTU of an interface nobody has touched
  WantMTU,    \* macsecWantParent
  JumboMTU,   \* meshJumboMTU
  MaxMTU,     \* what the driver of an interface allows
  Budget      \* bound: how often each outside event may still happen

Leaves == 1..Count

\* A change of the configuration, a failed system call, something outside the plugin
\* going wrong, a crash.
Events == {"config", "fault", "upset", "crash"}

ASSUME LeafAssumption == Count \in Nat \ {0} /\ WG \subseteq Leaves /\ ParentOf \in [Leaves -> Parents]
ASSUME MTUAssumption ==
  /\ BaseMTU \in Nat \ {0} /\ WantMTU \in Nat /\ JumboMTU \in Nat
  /\ BaseMTU < WantMTU /\ WantMTU < JumboMTU
  /\ MaxMTU \in [Parents -> Nat] /\ \A p \in Parents : MaxMTU[p] >= BaseMTU
ASSUME LinkBudgetAssumption == Budget \in [Events -> Nat]

VARIABLES
  saved,       \* LeafMACsec of each leaf, as saved
  pc, at,      \* where the pass is, and at which leaf
  rcfg,        \* the pass's copy of saved
  keep,        \* desired, wgPeers and wgVX: the leaves whose tunnel stays
  list,        \* `links`, read once per pass
  members,     \* leaves whose status has a Member
  secured,     \* leaves whose status says Secured
  guarded,     \* reconcileMeshBridge got as far as its guard (err == nil)
  procs,       \* m.procs
  wgSeen,      \* m.wgSeen
  bridgeGone,  \* m.bridgeGone
  guardKnown,  \* m.bridgeGuard is not empty: this process has installed the guard
  loaded,      \* m.mtuLoaded
  orig,        \* m.origMTU, 0 where it has no entry
  inUse,       \* m.mtuInUse
  file,        \* macsec_mtu.json
  mtu,         \* MTU of each parent
  dev,         \* each leaf's tunnel interface: secY or VXLAN port
  bridge,      \* mshbr0 exists
  guard,       \* the pins in table mesh_bridge_guard
  left         \* what is left of Budget

pass   == <<pc, at, rcfg, keep, list, members, secured, guarded>>
memory == <<procs, wgSeen, bridgeGone, guardKnown, loaded, orig, inUse>>
kernel == <<mtu, dev, bridge, guard>>
vars   == <<saved, pass, memory, file, kernel, left>>

-----------------------------------------------------------------------------
Off == [on |-> FALSE, jumbo |-> FALSE]

AllOff == [l \in Leaves |-> Off]

Settings == {Off} \cup [on : {TRUE}, jumbo : BOOLEAN]

\* live: macsecLink.Forwarding, or a fresh handshake.  bridged: a port of mshbr0.
Devices == [up : BOOLEAN, live : BOOLEAN, bridged : BOOLEAN, isolated : BOOLEAN]

NoDev == [up |-> FALSE, live |-> FALSE, bridged |-> FALSE, isolated |-> FALSE]

NewDev == [NoDev EXCEPT !.up = TRUE]

Unbridged(d) == [d EXCEPT !.bridged = FALSE, !.isolated = FALSE]

\* What a pin says of the node's address: only from its port, or from nowhere.
Pins == {"none", "port", "block"}

NoGuard == [l \in Leaves |-> "none"]

\* The pass has not listed the secYs yet.
NoList == [read |-> FALSE, up |-> {}, live |-> {}]

NoMTU == [p \in Parents |-> 0]

Spend(e) == left[e] > 0 /\ left' = [left EXCEPT ![e] = @ - 1]

Fault == Spend("fault")

Here == ParentOf[at]

\* What raiseParentMTUTo aims at for the leaf at hand.
Target ==
  LET want == IF at \in WG THEN JumboMTU ELSE WantMTU
  IN  IF MaxMTU[Here] > 0 /\ MaxMTU[Here] < want THEN MaxMTU[Here] ELSE want

\* Nothing is left of a pass.
NoPass ==
  /\ at' = 1 /\ rcfg' = AllOff /\ keep' = {} /\ list' = NoList
  /\ members' = {} /\ secured' = {} /\ guarded' = FALSE /\ inUse' = {}

NextLeaf == pc' = "leaves" /\ at' = at + 1

NextPort == pc' = "ports" /\ at' = at + 1

-----------------------------------------------------------------------------
Init ==
  /\ saved = AllOff /\ pc = "idle" /\ at = 1 /\ rcfg = AllOff
  /\ keep = {} /\ list = NoList /\ members = {} /\ secured = {} /\ guarded = FALSE
  /\ procs = [l \in Leaves |-> "none"]
  /\ wgSeen = FALSE /\ bridgeGone = FALSE /\ guardKnown = FALSE /\ loaded = FALSE /\ orig = NoMTU /\ inUse = {}
  /\ file = NoMTU
  /\ mtu = [p \in Parents |-> BaseMTU] /\ dev = [l \in Leaves |-> NoDev]
  /\ bridge = FALSE /\ guard = NoGuard
  /\ left = Budget

-----------------------------------------------------------------------------
(* reconcileMain: the leaves one after the other.                          *)

\* Mutant: loadOrigMTU is not called.
PassLoadForgets ==
  /\ pc = "idle"
  /\ pc' = "leaves" /\ rcfg' = saved /\ loaded' = TRUE
  /\ UNCHANGED <<saved, at, keep, list, members, secured, guarded, inUse, procs, wgSeen, bridgeGone, guardKnown, orig, file, kernel, left>>

\* reconcile up to the loop.  The saved MTUs are read once per process.
PassLoad ==
  /\ pc = "idle"
  /\ pc' = "leaves" /\ rcfg' = saved
  /\ loaded' = TRUE /\ orig' = IF loaded THEN orig ELSE file
  /\ UNCHANGED <<saved, at, keep, list, members, secured, guarded, inUse, procs, wgSeen, bridgeGone, guardKnown, file, kernel, left>>

LeafOff ==
  /\ pc = "leaves" /\ at \in Leaves /\ ~rcfg[at].on
  /\ NextLeaf
  /\ UNCHANGED <<saved, rcfg, keep, list, members, secured, guarded, memory, file, kernel, left>>

\* The parent cannot be looked at: the leaf is enabled, but nothing is kept for it.
LeafMissing ==
  /\ pc = "leaves" /\ at \in Leaves /\ rcfg[at].on /\ Fault
  /\ NextLeaf
  /\ UNCHANGED <<saved, rcfg, keep, list, members, secured, guarded, memory, file, kernel>>

\* Mutant: every raise writes down the MTU it finds.
LeafBeginForgets ==
  LET raise == rcfg[at].jumbo /\ mtu[Here] < Target IN
  /\ pc = "leaves" /\ at \in Leaves /\ rcfg[at].on
  /\ inUse' = IF rcfg[at].jumbo THEN inUse \cup {Here} ELSE inUse
  /\ orig' = IF raise THEN [orig EXCEPT ![Here] = mtu[Here]] ELSE orig
  /\ file' = IF raise THEN orig' ELSE file
  /\ pc' = IF raise THEN "raise" ELSE "tunnel"
  /\ UNCHANGED <<saved, at, rcfg, keep, list, members, secured, guarded, procs, wgSeen, bridgeGone, guardKnown, loaded, kernel, left>>

\* With jumbo frames the parent's MTU is in use; before it is raised, the one it has
\* is written down, unless an older one is.
LeafBegin ==
  LET raise == rcfg[at].jumbo /\ mtu[Here] < Target
      first == raise /\ orig[Here] = 0
  IN
  /\ pc = "leaves" /\ at \in Leaves /\ rcfg[at].on
  /\ inUse' = IF rcfg[at].jumbo THEN inUse \cup {Here} ELSE inUse
  /\ orig' = IF first THEN [orig EXCEPT ![Here] = mtu[Here]] ELSE orig
  /\ file' = IF first THEN orig' ELSE file
  /\ pc' = IF raise THEN "raise" ELSE "tunnel"
  /\ UNCHANGED <<saved, at, rcfg, keep, list, members, secured, guarded, procs, wgSeen, bridgeGone, guardKnown, loaded, kernel, left>>

LeafRaise ==
  /\ pc = "raise"
  /\ \/ mtu' = [mtu EXCEPT ![Here] = Target] /\ UNCHANGED left
     \/ Fault /\ UNCHANGED mtu
  /\ pc' = "tunnel"
  /\ UNCHANGED <<saved, at, rcfg, keep, list, members, secured, guarded, memory, file, dev, bridge, guard>>

\* What the status says of a MACsec leaf comes from the list, which is read after
\* the first MACsec leaf's participant has been started, and only then.
Listed(now) ==
  IF list.read THEN list
  ELSE [read |-> TRUE, up |-> {l \in Leaves : now[l].up}, live |-> {l \in Leaves : now[l].live}]

Report(up, live) ==
  /\ members' = IF up THEN members \cup {at} ELSE members
  /\ secured' = IF live THEN secured \cup {at} ELSE secured

\* Mutant: the participant is not marked as desired.
LeafMACsecUndesired ==
  LET runs == procs[at] = "current" IN
  /\ pc = "tunnel" /\ at \notin WG
  /\ procs' = [procs EXCEPT ![at] = "current"]
  /\ dev' = IF runs THEN dev ELSE [dev EXCEPT ![at] = NoDev]
  /\ list' = Listed(dev') /\ Report(at \in list'.up, at \in list'.live)
  /\ NextLeaf
  /\ UNCHANGED <<saved, rcfg, keep, guarded, wgSeen, bridgeGone, guardKnown, loaded, orig, inUse, file, mtu, bridge, guard, left>>

\* ensureMKA: a participant with this configuration goes on; otherwise it and its
\* secY go, and a new one is started, which makes its secY in its own time.
LeafMACsec ==
  LET runs == procs[at] = "current" IN
  /\ pc = "tunnel" /\ at \notin WG
  /\ procs' = [procs EXCEPT ![at] = "current"]
  /\ dev' = IF runs THEN dev ELSE [dev EXCEPT ![at] = NoDev]
  /\ list' = Listed(dev') /\ Report(at \in list'.up, at \in list'.live)
  /\ keep' = keep \cup {at} /\ NextLeaf
  /\ UNCHANGED <<saved, rcfg, guarded, wgSeen, bridgeGone, guardKnown, loaded, orig, inUse, file, mtu, bridge, guard, left>>

\* The old secY stays, wpa_supplicant does not start, or the secYs cannot be listed.
LeafMACsecFails ==
  /\ pc = "tunnel" /\ at \notin WG /\ Fault
  /\ \/ /\ procs[at] # "current"
        /\ \/ procs' = [procs EXCEPT ![at] = "none"] /\ dev' = [dev EXCEPT ![at] = NoDev]
           \/ procs' = [procs EXCEPT ![at] = "current"] /\ UNCHANGED dev
        /\ list' = Listed(dev') /\ Report(at \in list'.up, at \in list'.live)
     \/ /\ ~list.read /\ list' = [NoList EXCEPT !.read = TRUE]
        /\ procs' = [procs EXCEPT ![at] = "current"]
        /\ dev' = IF procs[at] = "current" THEN dev ELSE [dev EXCEPT ![at] = NoDev]
        /\ UNCHANGED <<members, secured>>
  /\ keep' = keep \cup {at} /\ NextLeaf
  /\ UNCHANGED <<saved, rcfg, guarded, wgSeen, bridgeGone, guardKnown, loaded, orig, inUse, file, mtu, bridge, guard>>

\* restartIfStuck: a participant that is not secured is stopped (its timers are left
\* open) and started again by the next pass.
LeafStuck ==
  LET now == Listed(dev) IN
  /\ pc = "tunnel" /\ at \notin WG /\ procs[at] = "current" /\ at \notin now.live
  /\ list' = now /\ Report(at \in now.up, FALSE)
  /\ procs' = [procs EXCEPT ![at] = "none"]
  /\ \/ dev' = [dev EXCEPT ![at] = NoDev] /\ UNCHANGED left
     \/ Fault /\ dev[at].up /\ UNCHANGED dev
  /\ keep' = keep \cup {at} /\ NextLeaf
  /\ UNCHANGED <<saved, rcfg, guarded, wgSeen, bridgeGone, guardKnown, loaded, orig, inUse, file, mtu, bridge, guard>>

\* mainWGLeaf: peer and VXLAN port, made if they are not there.  The handshakes cannot
\* be read, or a call before that fails, with the port made or not.
LeafWG ==
  LET made == [dev EXCEPT ![at] = IF @.up THEN @ ELSE NewDev] IN
  /\ pc = "tunnel" /\ at \in WG
  /\ \/ dev' = made /\ Report(TRUE, dev'[at].live) /\ UNCHANGED left
     \/ Fault /\ dev' = made /\ Report(TRUE, FALSE)
     \/ Fault /\ dev' \in {dev, made} /\ UNCHANGED <<members, secured>>
  /\ keep' = keep \cup {at} /\ NextLeaf
  /\ UNCHANGED <<saved, rcfg, list, guarded, memory, file, mtu, bridge, guard>>

\* stopAllMKA: a participant that is not desired, and its secY, in the order of a Go
\* map.  It is forgotten even if the secY cannot be deleted.
StopMKA(l) ==
  /\ pc = "leaves" /\ at = Count + 1 /\ l \notin keep /\ procs[l] # "none"
  /\ procs' = [procs EXCEPT ![l] = "none"]
  /\ \/ dev' = [dev EXCEPT ![l] = NoDev] /\ UNCHANGED left
     \/ Fault /\ dev[l].up /\ UNCHANGED dev
  /\ UNCHANGED <<saved, pass, wgSeen, bridgeGone, guardKnown, loaded, orig, inUse, file, mtu, bridge, guard>>

LeavesDone ==
  /\ pc = "leaves" /\ at = Count + 1 /\ \A l \in Leaves \ keep : procs[l] = "none"
  /\ pc' = "cleanup"
  /\ UNCHANGED <<saved, at, rcfg, keep, list, members, secured, guarded, memory, file, kernel, left>>

\* Mutant: cleanupMainWG runs only while there are WireGuard leaves.
DoomedNow == {l \in WG \ keep : keep \cap WG # {}}

\* VXLAN ports that go: all that are not kept, if there are WireGuard leaves or were
\* in the last pass.
Doomed == {l \in WG \ keep : wgSeen \/ keep \cap WG # {}}

\* cleanupMainWG, one port after the other.
CleanupPort(l) ==
  /\ pc = "cleanup" /\ l \in Doomed /\ dev[l].up
  /\ dev' = [dev EXCEPT ![l] = NoDev]
  /\ UNCHANGED <<saved, pass, memory, file, mtu, bridge, guard, left>>

\* A port that could not be deleted stays.
CleanupDone ==
  /\ pc = "cleanup"
  /\ \/ (\A l \in Doomed : ~dev[l].up) /\ UNCHANGED left
     \/ (\E l \in Doomed : dev[l].up) /\ Fault
  /\ wgSeen' = (keep \cap WG # {})
  /\ pc' = "bridge" /\ keep' = {} /\ list' = NoList
  /\ UNCHANGED <<saved, at, rcfg, members, secured, guarded, procs, bridgeGone, guardKnown, loaded, orig, inUse, file, kernel>>

-----------------------------------------------------------------------------
(* reconcileMeshBridge                                                     *)

\* Nothing enabled: removeMeshBridge, once, and without looking at the results.
BridgeRemove ==
  LET gone == bridge' = FALSE /\ dev' = [l \in Leaves |-> Unbridged(dev[l])] IN
  /\ pc = "bridge" /\ \A l \in Leaves : ~rcfg[l].on
  /\ IF bridgeGone \/ ~(bridge \/ guardKnown) THEN UNCHANGED <<dev, bridge, guard, left>>
     ELSE \/ gone /\ guard' = NoGuard /\ UNCHANGED left
          \/ Fault /\ gone /\ UNCHANGED guard
          \/ Fault /\ guard' = NoGuard /\ UNCHANGED <<dev, bridge>>
  /\ bridgeGone' = TRUE /\ guardKnown' = FALSE
  /\ pc' = "restore"
  /\ UNCHANGED <<saved, at, rcfg, keep, list, members, secured, guarded, procs, wgSeen, loaded, orig, inUse, file, mtu>>

PinsOf(l) ==
  IF ~rcfg[l].on THEN "none" ELSE IF l \in members THEN "port" ELSE "block"

\* Mutant: the guard is installed with the bridge and not looked at again.
BridgeUpGuardOnce ==
  /\ pc = "bridge" /\ \E l \in Leaves : rcfg[l].on
  /\ bridge' = TRUE /\ guarded' = TRUE /\ guardKnown' = TRUE
  /\ guard' = IF guard = NoGuard /\ ~bridge THEN [l \in Leaves |-> PinsOf(l)] ELSE guard
  /\ bridgeGone' = FALSE
  /\ pc' = "ports" /\ at' = 1
  /\ UNCHANGED <<saved, rcfg, keep, list, members, secured, procs, wgSeen, loaded, orig, inUse, file, mtu, dev, left>>

\* Bridge, then guard; a failure of either keeps every port out.
BridgeUp ==
  /\ pc = "bridge" /\ \E l \in Leaves : rcfg[l].on
  /\ \/ /\ bridge' = TRUE /\ guard' = [l \in Leaves |-> PinsOf(l)]
        /\ guarded' = TRUE /\ guardKnown' = TRUE /\ UNCHANGED left
     \/ /\ Fault /\ guarded' = FALSE /\ UNCHANGED guard
        /\ \/ bridge' \in {bridge, TRUE} /\ UNCHANGED guardKnown
           \/ bridge' = TRUE /\ guardKnown' = FALSE
  /\ bridgeGone' = FALSE
  /\ pc' = "ports" /\ at' = 1
  /\ UNCHANGED <<saved, rcfg, keep, list, members, secured, procs, wgSeen, loaded, orig, inUse, file, mtu, dev>>

\* The port exists, and is to be in the bridge.
Belongs == at \in secured /\ guarded /\ dev[at].up

\* Mutant: the port is not isolated.
PortJoinOnly ==
  /\ pc = "ports" /\ at \in Leaves /\ rcfg[at].on /\ Belongs /\ ~dev[at].bridged
  /\ dev' = [dev EXCEPT ![at].bridged = TRUE] /\ NextPort
  /\ UNCHANGED <<saved, rcfg, keep, list, members, secured, guarded, memory, file, mtu, bridge, guard, left>>

\* The port of a secured link joins, if the guard is in place.
PortJoin ==
  /\ pc = "ports" /\ at \in Leaves /\ rcfg[at].on /\ Belongs /\ ~dev[at].bridged
  /\ \/ dev' = [dev EXCEPT ![at].bridged = TRUE] /\ pc' = "isolate" /\ UNCHANGED <<at, left>>
     \/ Fault /\ NextPort /\ UNCHANGED dev
  /\ UNCHANGED <<saved, rcfg, keep, list, members, secured, guarded, memory, file, mtu, bridge, guard>>

\* A port that cannot be isolated has to leave; that call may fail as well.
PortIsolate ==
  /\ pc = "isolate"
  /\ \/ dev' = [dev EXCEPT ![at].isolated = dev[at].bridged] /\ UNCHANGED left
     \/ Fault /\ dev' \in {dev, [dev EXCEPT ![at] = Unbridged(@)]}
  /\ NextPort
  /\ UNCHANGED <<saved, rcfg, keep, list, members, secured, guarded, memory, file, mtu, bridge, guard>>

\* Mutant: a port that is in the bridge stays in it.
PortLeaveNever ==
  /\ pc = "ports" /\ at \in Leaves /\ rcfg[at].on
  /\ ~Belongs /\ at \in members /\ dev[at].up /\ dev[at].bridged
  /\ NextPort
  /\ UNCHANGED <<saved, rcfg, keep, list, members, secured, guarded, memory, file, kernel, left>>

\* The port of a link that is not secured any more, or without a guard, leaves.
PortLeave ==
  /\ pc = "ports" /\ at \in Leaves /\ rcfg[at].on
  /\ ~Belongs /\ at \in members /\ dev[at].up /\ dev[at].bridged
  /\ \/ dev' = [dev EXCEPT ![at] = Unbridged(@)] /\ UNCHANGED left
     \/ Fault /\ UNCHANGED dev
  /\ NextPort
  /\ UNCHANGED <<saved, rcfg, keep, list, members, secured, guarded, memory, file, mtu, bridge, guard>>

\* Nothing to change: not enabled, in the bridge already, not secured and outside, or
\* a port the pass does not know.
PortKept ==
  /\ pc = "ports" /\ at \in Leaves
  /\ rcfg[at].on =>
       IF Belongs THEN dev[at].bridged ELSE ~(at \in members /\ dev[at].up /\ dev[at].bridged)
  /\ NextPort
  /\ UNCHANGED <<saved, rcfg, keep, list, members, secured, guarded, memory, file, kernel, left>>

PortsDone ==
  /\ pc = "ports" /\ at = Count + 1
  /\ pc' = "restore"
  /\ UNCHANGED <<saved, at, rcfg, keep, list, members, secured, guarded, memory, file, kernel, left>>

-----------------------------------------------------------------------------
(* restoreUnusedMTU                                                        *)

Unused == {p \in Parents : orig[p] # 0 /\ p \notin inUse}

\* The entry goes, whether the interface could be set back or not.
RestoreOne(p) ==
  /\ pc = "restore" /\ p \in Unused
  /\ \/ mtu' = [mtu EXCEPT ![p] = orig[p]] /\ UNCHANGED left
     \/ Fault /\ UNCHANGED mtu
  /\ orig' = [orig EXCEPT ![p] = 0]
  /\ UNCHANGED <<saved, pass, procs, wgSeen, bridgeGone, guardKnown, loaded, inUse, file, dev, bridge, guard>>

\* The pass returns; its locals go.
RestoreDone ==
  /\ pc = "restore" /\ Unused = {}
  /\ file' = orig
  /\ NoPass /\ pc' = "idle"
  /\ UNCHANGED <<saved, procs, wgSeen, bridgeGone, guardKnown, loaded, orig, kernel, left>>

PassStep ==
  \/ PassLoad \/ LeafOff \/ LeafMissing \/ LeafBegin \/ LeafRaise
  \/ LeafMACsec \/ LeafMACsecFails \/ LeafStuck \/ LeafWG
  \/ (\E l \in Leaves : StopMKA(l) \/ CleanupPort(l)) \/ LeavesDone \/ CleanupDone
  \/ BridgeRemove \/ BridgeUp
  \/ PortJoin \/ PortIsolate \/ PortLeave \/ PortKept \/ PortsDone
  \/ (\E p \in Parents : RestoreOne(p)) \/ RestoreDone

-----------------------------------------------------------------------------
(* The rest of the world.                                                  *)

\* macsecSetLeaf, macsecSetJumbo, leafRouter DELETE (module BackhaulChange).  An
\* association that is set up again has a new key, which a running participant does
\* not have.
Configure(l, c) ==
  /\ c # saved[l] /\ Spend("config")
  /\ saved' = [saved EXCEPT ![l] = c]
  /\ procs' = IF c.on /\ ~saved[l].on /\ procs[l] = "current"
                THEN [procs EXCEPT ![l] = "other"] ELSE procs
  /\ UNCHANGED <<pass, wgSeen, bridgeGone, guardKnown, loaded, orig, inUse, file, kernel>>

\* wpa_supplicant exits; its secY stays.
MKAExit(l) ==
  /\ procs[l] = "current" /\ Spend("upset")
  /\ procs' = [procs EXCEPT ![l] = "other"]
  /\ UNCHANGED <<saved, pass, wgSeen, bridgeGone, guardKnown, loaded, orig, inUse, file, kernel>>

\* wpa_supplicant makes its secY.
MKACreates(l) ==
  /\ l \notin WG /\ procs[l] = "current" /\ ~dev[l].up
  /\ dev' = [dev EXCEPT ![l] = NewDev]
  /\ UNCHANGED <<saved, pass, memory, file, mtu, bridge, guard, left>>

TunnelUp(l) ==
  /\ dev[l].up /\ ~dev[l].live /\ (l \in WG \/ procs[l] = "current")
  /\ dev' = [dev EXCEPT ![l].live = TRUE]
  /\ UNCHANGED <<saved, pass, memory, file, mtu, bridge, guard, left>>

TunnelDown(l) ==
  /\ dev[l].live
  /\ dev' = [dev EXCEPT ![l].live = FALSE]
  /\ UNCHANGED <<saved, pass, memory, file, mtu, bridge, guard, left>>

\* Somebody flushes the nftables rules.
Flush ==
  /\ guard # NoGuard /\ Spend("upset")
  /\ guard' = NoGuard
  /\ UNCHANGED <<saved, pass, memory, file, mtu, dev, bridge>>

ProcessLost ==
  /\ NoPass /\ pc' = "down"
  /\ procs' = [l \in Leaves |-> "none"]
  /\ wgSeen' = FALSE /\ bridgeGone' = FALSE /\ guardKnown' = FALSE /\ loaded' = FALSE /\ orig' = NoMTU

Crash ==
  /\ pc # "down" /\ Spend("crash")
  /\ ProcessLost
  /\ UNCHANGED <<saved, file, kernel>>

Reboot ==
  /\ Spend("crash")
  /\ ProcessLost
  /\ mtu' = [p \in Parents |-> BaseMTU] /\ dev' = [l \in Leaves |-> NoDev]
  /\ bridge' = FALSE /\ guard' = NoGuard
  /\ UNCHANGED <<saved, file>>

Start ==
  /\ pc = "down"
  /\ pc' = "idle"
  /\ UNCHANGED <<saved, at, rcfg, keep, list, members, secured, guarded, memory, file, kernel, left>>

-----------------------------------------------------------------------------
Next ==
  \/ PassStep
  \/ \E l \in Leaves, c \in Settings : Configure(l, c)
  \/ \E l \in Leaves : MKAExit(l) \/ MKACreates(l) \/ TunnelUp(l) \/ TunnelDown(l)
  \/ Flush \/ Crash \/ Reboot \/ Start

Spec == Init /\ [][Next]_vars

\* The manager's goroutine is woken by its ticker, the plugin is restarted.
Fairness == WF_vars(PassStep) /\ WF_vars(Start)

FairSpec == Spec /\ Fairness

-----------------------------------------------------------------------------
(* Properties.                                                             *)

\* Every variable keeps to its type; a port of mshbr0 is an interface that exists.
TypeOK ==
  /\ saved \in [Leaves -> Settings] /\ rcfg \in [Leaves -> Settings]
  /\ pc \in {"down", "idle", "leaves", "raise", "tunnel", "cleanup", "bridge", "ports", "isolate", "restore"}
  /\ at \in 1..(Count + 1) /\ (pc \in {"raise", "tunnel", "isolate"} => at \in Leaves)
  /\ keep \subseteq Leaves /\ secured \subseteq members /\ members \subseteq Leaves
  /\ pc \in {"leaves", "raise", "tunnel"} => members \subseteq keep
  /\ list.read \in BOOLEAN /\ list.up \subseteq Leaves /\ list.live \subseteq list.up
  /\ {guarded, wgSeen, bridgeGone, guardKnown, loaded, bridge} \subseteq BOOLEAN
  /\ procs \in [Leaves -> {"none", "current", "other"}]
  /\ orig \in [Parents -> Nat] /\ file \in [Parents -> Nat] /\ mtu \in [Parents -> Nat]
  /\ inUse \subseteq Parents
  /\ dev \in [Leaves -> Devices] /\ \A l \in Leaves : ~dev[l].up => dev[l] = NoDev
  /\ guard \in [Leaves -> Pins] /\ left \in [Events -> Nat]

Never(e) == left[e] = Budget[e]

\* The pass has settled what is to become of a leaf's port.
Settled(l) == pc = "restore" \/ (pc = "ports" /\ at > l)

\* How many calls have failed so far.
Failed == Budget["fault"] - left["fault"]

\* A node's address is pinned before its port joins mshbr0 and for as long as the
\* port is in it, wherever the plugin dies: a pass that has its guard has pinned every
\* enabled leaf, however many calls have failed, and one that could not load it has
\* every port leave (reconcileMeshBridge), which only a second failed call can
\* prevent.  Rules flushed by others are missing until the next pass.
BridgedIsPinned ==
  \A l \in Leaves :
    Settled(l) /\ rcfg[l].on /\ dev[l].bridged /\ Never("upset") /\ (guarded \/ Failed <= 1)
      => guard[l] # "none"

\* Nodes cannot talk to each other over mshbr0: every port in it is isolated, unless
\* the plugin died between the two calls, or calls failed.
PortsIsolated ==
  \A l \in Leaves : Settled(l) /\ dev[l].bridged /\ Never("crash") /\ Never("fault") => dev[l].isolated

\* stopAllMKA, cleanupMainWG: after them there is no tunnel to a leaf that the pass
\* found off, neither of a removed leaf nor of a disabled one.
RemovedIsGone ==
  \A l \in Leaves : pc = "restore" /\ ~rcfg[l].on /\ Never("crash") /\ Never("fault") => ~dev[l].up

\* A raised MTU can be set back: what the interface had is on disk before it is raised
\* and until it has been set back, across crashes and reboots.
OriginalKept ==
  \A p \in Parents : mtu[p] # BaseMTU /\ Never("fault") => file[p] = BaseMTU

Jumbo(p) == \E l \in Leaves : ParentOf[l] = p /\ saved[l].jumbo

\* restoreUnusedMTU: an interface that no jumbo link uses any more gets its MTU back,
\* also when the plugin was restarted in between.
MTURestored ==
  \A p \in Parents : <>[](~Jumbo(p) /\ Never("fault")) => <>[](mtu[p] = BaseMTU)

\* reconcileMeshBridge: a link that stays up carries the mesh, its port is in mshbr0 and its address pinned
\* to it, after failed calls and restarts too.
SecuredJoins ==
  \A l \in Leaves : <>[](saved[l].on /\ dev[l].live) => <>[](dev[l].bridged /\ guard[l] = "port")

\* A link that stays down does not, although the pass looks at a list that may be
\* older than the secY it has just replaced: its port is out of mshbr0 for good.
InsecureLeaves ==
  \A l \in Leaves : <>[](saved[l].on /\ ~dev[l].live) => <>[](~dev[l].bridged)
=============================================================================
