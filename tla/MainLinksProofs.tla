-------------------------- MODULE MainLinksProofs --------------------------
(***************************************************************************)
(* Proofs about MainLinks, for any number of leaf routers, any parents and *)
(* MTUs, and any number of outside events.                                 *)
(***************************************************************************)
EXTENDS MainLinks, TLAPS

-----------------------------------------------------------------------------
(* Inductive invariants.                                                   *)

PassPhases == {"leaves", "raise", "tunnel", "cleanup"}

CfgType == saved \in [Leaves -> Settings] /\ rcfg \in [Leaves -> Settings]

Lists == {ls \in [read : BOOLEAN, up : SUBSET Leaves, live : SUBSET Leaves] : ls.live \subseteq ls.up}

PlaceType ==
  /\ pc \in {"down", "idle", "leaves", "raise", "tunnel", "cleanup", "bridge", "ports", "isolate", "restore"}
  /\ at \in 1..(Count + 1) /\ (pc \in {"raise", "tunnel", "isolate"} => at \in Leaves)
  /\ pc \in {"idle", "down"} => at = 1

PassType ==
  /\ keep \subseteq Leaves /\ secured \subseteq members /\ members \subseteq Leaves
  /\ pc \in {"leaves", "raise", "tunnel"} => members \subseteq keep
  /\ list \in Lists
  /\ guarded \in BOOLEAN
  /\ pc \in {"idle", "down"} => members = {} /\ guarded = FALSE /\ list = NoList
  /\ pc \notin PassPhases => keep = {}

MemType ==
  /\ wgSeen \in BOOLEAN /\ bridgeGone \in BOOLEAN /\ guardKnown \in BOOLEAN /\ loaded \in BOOLEAN
  /\ procs \in [Leaves -> {"none", "current", "other"}]

MTUType ==
  /\ orig \in [Parents -> Nat] /\ file \in [Parents -> Nat] /\ mtu \in [Parents -> Nat]
  /\ inUse \subseteq Parents

DevType == dev \in [Leaves -> Devices] /\ \A l \in Leaves : ~dev[l].up => dev[l] = NoDev

GuardType == bridge \in BOOLEAN /\ guard \in [Leaves -> Pins]

LeftType == left \in [Events -> Nat] /\ \A e \in Events : left[e] <= Budget[e]

TypeInv ==
  CfgType /\ PlaceType /\ PassType /\ MemType /\ MTUType /\ DevType /\ GuardType /\ LeftType

\* A pass that has its guard has pinned every leaf it found enabled.
GuardInv ==
  /\ guarded => pc \in {"ports", "isolate", "restore"}
  /\ pc = "isolate" => guarded
  /\ guarded /\ Never("upset") => \A l \in Leaves : rcfg[l].on => guard[l] # "none"

\* The pass has dealt with the tunnel of a leaf.
Handled(l) == pc \in {"cleanup", "bridge"} \/ (pc \in PassPhases /\ l < at)

\* A pass without a failed call knows every bridged port of an enabled leaf, because
\* ports join only later: the list, however old, has them.
KnownInv ==
  Failed = 0 =>
    /\ pc \in PassPhases /\ list.read => \A l \in Leaves \ WG : dev[l].bridged => l \in list.up
    /\ \A l \in Leaves : Handled(l) /\ rcfg[l].on /\ dev[l].bridged => l \in members

\* A pass without its guard has had one failed call already, and lets ports only leave.
LeaveInv ==
  ~guarded =>
    /\ pc = "ports" => Failed >= 1
    /\ Failed <= 1 /\ pc = "ports" =>
         \A l \in Leaves : rcfg[l].on /\ dev[l].bridged => l \in members /\ at <= l
    /\ Failed <= 1 /\ pc = "restore" => \A l \in Leaves : ~(rcfg[l].on /\ dev[l].bridged)

PinInv == GuardInv /\ KnownInv /\ LeaveInv

\* Between the two calls a port is in the bridge and not yet isolated.
IsolatedInv ==
  Never("crash") /\ Never("fault") =>
    \A l \in Leaves : dev[l].bridged => dev[l].isolated \/ (pc = "isolate" /\ l = at)

KeptOn ==
  /\ \A l \in keep : rcfg[l].on
  /\ pc \in {"raise", "tunnel"} => rcfg[at].on

\* Every tunnel is one that stopAllMKA or cleanupMainWG will look for.
RememberedInv ==
  \A l \in Leaves : dev[l].up =>
    IF l \in WG THEN wgSeen \/ l \in keep ELSE procs[l] # "none"

\* stopAllMKA is through.
StoppedInv == pc = "cleanup" => \A l \in Leaves \ keep : procs[l] = "none"

GoneInv ==
  /\ KeptOn /\ StoppedInv
  /\ Never("crash") /\ Never("fault") =>
       /\ RememberedInv
       /\ pc \in {"bridge", "ports", "isolate", "restore"} =>
            \A l \in Leaves : ~rcfg[l].on => ~dev[l].up /\ procs[l] = "none"

\* The entry of an interface that restoreUnusedMTU has set back, in memory only.
SetBack(p) == pc = "restore" /\ orig[p] = 0 /\ mtu[p] = BaseMTU

\* What is written down is the MTU an interface had; memory and disk agree but for
\* the interfaces set back in this pass.
OriginalInv ==
  Never("fault") =>
    /\ \A p \in Parents : orig[p] \in {0, BaseMTU} /\ file[p] \in {0, BaseMTU}
    /\ \A p \in Parents : mtu[p] # BaseMTU => file[p] = BaseMTU
    /\ pc \notin {"idle", "down"} => loaded
    /\ loaded => \A p \in Parents : orig[p] = file[p] \/ SetBack(p)
    /\ pc = "raise" => file[Here] = BaseMTU

-----------------------------------------------------------------------------
(* Types.                                                                  *)

LEMMA DeviceTypes ==
  /\ NoDev \in Devices /\ NewDev \in Devices
  /\ ~NoDev.up /\ ~NoDev.live /\ ~NoDev.bridged /\ ~NoDev.isolated
  /\ NewDev.up /\ ~NewDev.live /\ ~NewDev.bridged /\ ~NewDev.isolated
  /\ \A d \in Devices :
       /\ Unbridged(d) \in Devices /\ (d = NoDev => Unbridged(d) = NoDev)
       /\ Unbridged(d).up = d.up /\ Unbridged(d).live = d.live
       /\ ~Unbridged(d).bridged /\ ~Unbridged(d).isolated
<1>1. NoDev \in Devices /\ ~NoDev.up /\ ~NoDev.live /\ ~NoDev.bridged /\ ~NoDev.isolated
  BY DEF NoDev, Devices
<1>2. NewDev \in Devices /\ NewDev.up /\ ~NewDev.live /\ ~NewDev.bridged /\ ~NewDev.isolated
  BY DEF NoDev, NewDev, Devices
<1>3. ASSUME NEW d \in Devices
      PROVE  /\ Unbridged(d) \in Devices
             /\ Unbridged(d).up = d.up /\ Unbridged(d).live = d.live
             /\ ~Unbridged(d).bridged /\ ~Unbridged(d).isolated
  BY DEF Devices, Unbridged
<1>4. Unbridged(NoDev) = NoDev
  BY <1>1 DEF Devices, Unbridged
<1> QED
  BY <1>1, <1>2, <1>3, <1>4

LEMMA OtherTypes ==
  /\ NoList \in Lists
  /\ ~NoList.read /\ NoList.up = {} /\ NoList.live = {}
  /\ AllOff \in [Leaves -> Settings] /\ \A l \in Leaves : ~AllOff[l].on
  /\ NoMTU \in [Parents -> Nat] /\ \A p \in Parents : NoMTU[p] = 0
  /\ NoGuard \in [Leaves -> Pins]
  /\ Count \in Nat \ {0} /\ 1 \in 1..(Count + 1)
  BY LeafAssumption DEF NoList, Lists, AllOff, Off, Settings, NoMTU, NoGuard, Pins

LEMMA InitTypes == Init => TypeInv
<1> SUFFICES ASSUME Init PROVE TypeInv
  OBVIOUS
<1> USE OtherTypes, DeviceTypes, LinkBudgetAssumption, MTUAssumption DEF Init
<1>1. CfgType /\ PlaceType /\ PassType
  BY DEF CfgType, PlaceType, PassType, PassPhases
<1>2. MemType /\ GuardType
  BY DEF MemType, GuardType
<1>3. MTUType /\ LeftType
  BY DEF MTUType, LeftType
<1>4. DevType
  BY DEF DevType
<1> QED
  BY <1>1, <1>2, <1>3, <1>4 DEF TypeInv

LEMMA TypesGiveTypeOK == TypeInv => TypeOK
<1> SUFFICES ASSUME TypeInv PROVE TypeOK
  OBVIOUS
<1>1. CfgType /\ PlaceType /\ PassType /\ MemType /\ MTUType /\ DevType /\ GuardType /\ LeftType
  BY DEF TypeInv
<1>2. list.read \in BOOLEAN /\ list.up \subseteq Leaves /\ list.live \subseteq list.up
  BY <1>1 DEF PassType, Lists
<1>3. {guarded, wgSeen, bridgeGone, guardKnown, loaded, bridge} \subseteq BOOLEAN
  BY <1>1, Zenon DEF PassType, MemType, GuardType
<1> QED
  BY <1>1, <1>2, <1>3 DEF TypeOK, CfgType, PlaceType, PassType, MemType, MTUType, DevType, GuardType, LeftType

-----------------------------------------------------------------------------
(* What a step changes, part by part.                                      *)

\* One outside event less.
LEMMA Spending ==
  ASSUME LeftType, NEW e \in Events, Spend(e)
  PROVE  /\ LeftType'
         /\ left'[e] < Budget[e] /\ left'[e] = left[e] - 1 /\ left[e] >= 1
         /\ \A d \in Events \ {e} : left'[d] = left[d]
<1>1. left[e] \in Nat /\ Budget[e] \in Nat /\ left[e] <= Budget[e] /\ left[e] > 0
  BY LinkBudgetAssumption DEF Spend, LeftType
<1>2. left'[e] = left[e] - 1 /\ \A d \in Events \ {e} : left'[d] = left[d]
  BY DEF Spend, LeftType
<1>3. left' \in [Events -> Nat]
  BY <1>1 DEF Spend, LeftType
<1>4. \A d \in Events : left'[d] <= Budget[d]
  BY <1>1, <1>2 DEF LeftType
<1> QED
  BY <1>1, <1>2, <1>3, <1>4 DEF LeftType

LEMMA FaultSpends ==
  ASSUME LeftType, Fault
  PROVE  /\ LeftType'
         /\ ~Never("fault")' /\ Failed' = Failed + 1 /\ Failed \in Nat
         /\ (\A d \in {"config", "upset", "crash"} : Never(d)' <=> Never(d))
<1>1. "fault" \in Events /\ Spend("fault")
  BY DEF Events, Fault
<1>2. /\ LeftType'
      /\ left'["fault"] < Budget["fault"] /\ left'["fault"] = left["fault"] - 1 /\ left["fault"] >= 1
      /\ \A d \in Events \ {"fault"} : left'[d] = left[d]
  BY <1>1, Spending
<1>3. left["fault"] \in Nat /\ Budget["fault"] \in Nat /\ left["fault"] <= Budget["fault"]
  BY <1>1, LinkBudgetAssumption DEF LeftType
<1>4. ~Never("fault")' /\ Failed' = Failed + 1 /\ Failed \in Nat
  BY <1>2, <1>3 DEF Never, Failed
<1>5. \A d \in {"config", "upset", "crash"} : Never(d)' <=> Never(d)
  BY <1>2 DEF Never, Events
<1> QED
  BY <1>2, <1>4, <1>5

LEMMA FailedType ==
  ASSUME LeftType
  PROVE  Failed \in Nat /\ (Failed = 0 <=> Never("fault"))
<1>1. "fault" \in Events
  BY DEF Events
<1> QED
  BY <1>1, LinkBudgetAssumption DEF Failed, Never, LeftType

\* What the MTU of the parent at hand is raised to.
LEMMA TargetType ==
  ASSUME at \in Leaves, MTUType
  PROVE  Here \in Parents /\ Target \in Nat /\ mtu[Here] \in Nat
<1>1. Here \in Parents
  BY LeafAssumption DEF Here
<1>2. MaxMTU[Here] \in Nat
  BY <1>1, MTUAssumption
<1> QED
  BY <1>1, <1>2, MTUAssumption DEF Target, MTUType

\* A pass step of which only the place in the pass is of interest.
LEMMA PlaceStep ==
  ASSUME PlaceType, [Next]_vars
  PROVE  PlaceType'
<1> USE OtherTypes DEF Leaves, PlaceType
<1>0. NextLeaf /\ at \in Leaves => PlaceType'
  BY DEF NextLeaf
<1>1. CASE PassLoad
  BY <1>1 DEF PassLoad
<1>2. CASE LeafOff \/ LeafMissing \/ LeafMACsec \/ LeafMACsecFails \/ LeafStuck \/ LeafWG
  <2>1. NextLeaf /\ at \in Leaves
    BY <1>2 DEF LeafOff, LeafMissing, LeafMACsec, LeafMACsecFails, LeafStuck, LeafWG
  <2> QED
    BY <1>0, <2>1
<1>3. CASE LeafBegin \/ LeafRaise \/ LeavesDone \/ CleanupDone
  BY <1>3 DEF LeafBegin, LeafRaise, LeavesDone, CleanupDone
<1>4. CASE BridgeRemove \/ BridgeUp
  BY <1>4 DEF BridgeRemove, BridgeUp
<1>5. CASE PortJoin \/ PortIsolate \/ PortLeave \/ PortKept \/ PortsDone
  BY <1>5 DEF PortJoin, PortIsolate, PortLeave, PortKept, PortsDone, NextPort
<1>6. CASE \E p \in Parents : RestoreOne(p)
  BY <1>6 DEF RestoreOne, pass
<1>7. CASE RestoreDone \/ Crash \/ Reboot
  BY <1>7 DEF RestoreDone, Crash, Reboot, ProcessLost, NoPass
<1>8. CASE \E l \in Leaves, c \in Settings : Configure(l, c)
  BY <1>8 DEF Configure, pass
<1>9. CASE \E l \in Leaves : MKAExit(l) \/ MKACreates(l) \/ TunnelUp(l) \/ TunnelDown(l) \/ StopMKA(l) \/ CleanupPort(l)
  BY <1>9 DEF MKAExit, MKACreates, TunnelUp, TunnelDown, StopMKA, CleanupPort, pass
<1>10. CASE Flush \/ Start \/ UNCHANGED vars
  BY <1>10 DEF Flush, Start, vars, pass
<1> QED
  BY <1>1, <1>2, <1>3, <1>4, <1>5, <1>6, <1>7, <1>8, <1>9, <1>10 DEF Next, PassStep

LEMMA CfgStep ==
  ASSUME CfgType, [Next]_vars
  PROVE  CfgType'
<1> USE OtherTypes DEF CfgType
<1>1. CASE PassLoad
  BY <1>1 DEF PassLoad
<1>2. CASE LeafOff \/ LeafMissing \/ LeafMACsec \/ LeafMACsecFails \/ LeafStuck \/ LeafWG
  BY <1>2 DEF LeafOff, LeafMissing, LeafMACsec, LeafMACsecFails, LeafStuck, LeafWG
<1>3. CASE LeafBegin \/ LeafRaise \/ LeavesDone \/ CleanupDone
  BY <1>3 DEF LeafBegin, LeafRaise, LeavesDone, CleanupDone
<1>4. CASE BridgeRemove \/ BridgeUp
  BY <1>4 DEF BridgeRemove, BridgeUp
<1>5. CASE PortJoin \/ PortIsolate \/ PortLeave \/ PortKept \/ PortsDone
  BY <1>5 DEF PortJoin, PortIsolate, PortLeave, PortKept, PortsDone
<1>6. CASE \E p \in Parents : RestoreOne(p)
  BY <1>6 DEF RestoreOne, pass
<1>7. CASE RestoreDone \/ Crash \/ Reboot
  BY <1>7 DEF RestoreDone, Crash, Reboot, ProcessLost, NoPass
<1>8. CASE \E l \in Leaves, c \in Settings : Configure(l, c)
  BY <1>8 DEF Configure, pass
<1>9. CASE \E l \in Leaves : MKAExit(l) \/ MKACreates(l) \/ TunnelUp(l) \/ TunnelDown(l) \/ StopMKA(l) \/ CleanupPort(l)
  BY <1>9 DEF MKAExit, MKACreates, TunnelUp, TunnelDown, StopMKA, CleanupPort, pass
<1>10. CASE Flush \/ Start \/ UNCHANGED vars
  BY <1>10 DEF Flush, Start, vars, pass
<1> QED
  BY <1>1, <1>2, <1>3, <1>4, <1>5, <1>6, <1>7, <1>8, <1>9, <1>10 DEF Next, PassStep

\* Every step spends at most one outside event.
LEMMA LeftStep ==
  ASSUME LeftType, [Next]_vars
  PROVE  LeftType' /\ \A e \in Events : left'[e] <= left[e]
<1> SUFFICES UNCHANGED left \/ \E e \in Events : Spend(e)
  <2>1. \A e \in Events : left[e] \in Nat
    BY DEF LeftType
  <2>2. CASE UNCHANGED left
    BY <2>1, <2>2 DEF LeftType
  <2>3. CASE \E e \in Events : Spend(e)
    <3>1. PICK e \in Events : Spend(e)
      BY <2>3
    <3>2. LeftType' /\ left'[e] = left[e] - 1 /\ \A d \in Events \ {e} : left'[d] = left[d]
      BY <3>1, Spending
    <3> QED
      BY <2>1, <3>2
  <2> QED
    BY <2>2, <2>3
<1> USE DEF Fault, Events
<1>1. CASE PassLoad
  BY <1>1 DEF PassLoad
<1>2. CASE LeafOff \/ LeafMissing \/ LeafMACsec \/ LeafMACsecFails \/ LeafStuck \/ LeafWG
  BY <1>2 DEF LeafOff, LeafMissing, LeafMACsec, LeafMACsecFails, LeafStuck, LeafWG
<1>3. CASE LeafBegin \/ LeafRaise \/ LeavesDone \/ CleanupDone
  BY <1>3 DEF LeafBegin, LeafRaise, LeavesDone, CleanupDone
<1>4. CASE BridgeRemove \/ BridgeUp
  BY <1>4 DEF BridgeRemove, BridgeUp
<1>5. CASE PortJoin \/ PortIsolate \/ PortLeave \/ PortKept \/ PortsDone
  BY <1>5 DEF PortJoin, PortIsolate, PortLeave, PortKept, PortsDone
<1>6. CASE \E p \in Parents : RestoreOne(p)
  BY <1>6 DEF RestoreOne
<1>7. CASE RestoreDone \/ Crash \/ Reboot
  BY <1>7 DEF RestoreDone, Crash, Reboot, Events
<1>8. CASE \E l \in Leaves, c \in Settings : Configure(l, c)
  BY <1>8 DEF Configure, Events
<1>9. CASE \E l \in Leaves : MKAExit(l) \/ MKACreates(l) \/ TunnelUp(l) \/ TunnelDown(l) \/ StopMKA(l) \/ CleanupPort(l)
  BY <1>9 DEF MKAExit, MKACreates, TunnelUp, TunnelDown, StopMKA, CleanupPort, Events
<1>10. CASE Flush \/ Start \/ UNCHANGED vars
  BY <1>10 DEF Flush, Start, vars, Events
<1> QED
  BY <1>1, <1>2, <1>3, <1>4, <1>5, <1>6, <1>7, <1>8, <1>9, <1>10 DEF Next, PassStep

LEMMA NeverBefore ==
  ASSUME LeftType, [Next]_vars
  PROVE  /\ \A e \in Events : Never(e)' => Never(e)
         /\ Failed \in Nat /\ Failed' \in Nat /\ Failed <= Failed'
         /\ (Fault => Failed' = Failed + 1)
         /\ (Failed = 0 <=> Never("fault")) /\ (Failed' = 0 <=> Never("fault")')
<1>1. LeftType' /\ \A e \in Events : left'[e] <= left[e]
  BY LeftStep
<1>2. \A e \in Events : left[e] \in Nat /\ left'[e] \in Nat /\ Budget[e] \in Nat /\ left[e] <= Budget[e] /\ left'[e] <= Budget[e]
  BY <1>1, LinkBudgetAssumption DEF LeftType
<1>3. "fault" \in Events
  BY DEF Events
<1> QED
  BY <1>1, <1>2, <1>3, FaultSpends DEF Never, Failed

\* A leaf's device is replaced by another one.
LEMMA DevPut ==
  ASSUME DevType, NEW l \in Leaves, NEW d \in Devices, ~d.up => d = NoDev,
         dev' = [dev EXCEPT ![l] = d]
  PROVE  DevType' /\ dev'[l] = d /\ \A k \in Leaves \ {l} : dev'[k] = dev[k]
  BY DEF DevType

LEMMA DevKinds ==
  ASSUME DevType, NEW l \in Leaves
  PROVE  /\ dev[l] \in Devices /\ dev[l] = [dev[l] EXCEPT !.up = @]
         /\ dev[l].bridged \/ dev[l].isolated \/ dev[l].live => dev[l].up
         /\ ~Unbridged(dev[l]).up => Unbridged(dev[l]) = NoDev
         /\ dev[l].up =>
              \A b \in BOOLEAN :
                /\ [dev[l] EXCEPT !.live = b] \in Devices /\ [dev[l] EXCEPT !.live = b].up
                /\ [dev[l] EXCEPT !.isolated = b] \in Devices /\ [dev[l] EXCEPT !.isolated = b].up
                /\ [dev[l] EXCEPT !.bridged = b] \in Devices /\ [dev[l] EXCEPT !.bridged = b].up
<1>1. dev[l] \in Devices /\ (~dev[l].up => dev[l] = NoDev)
  BY DEF DevType
<1> QED
  BY <1>1, DeviceTypes DEF Devices

\* What a step can do to a tunnel interface: leave it, delete it, make it, or change
\* one of its flags.
DevChange(old, new) ==
  \/ new = old
  \/ new = NoDev
  \/ ~old.up /\ new = NewDev
  \/ new = Unbridged(old)
  \/ old.up /\ \E b \in BOOLEAN : new = [old EXCEPT !.live = b]
  \/ old.up /\ new = [old EXCEPT !.isolated = old.bridged]

\* A port joins mshbr0.
Joins(l) ==
  /\ pc = "ports" /\ l = at /\ guarded /\ dev[l].up /\ dev'[l] = [dev[l] EXCEPT !.bridged = TRUE]
  /\ pc' = "isolate" /\ at' = at

LEMMA DevChanges ==
  ASSUME DevType, dev' = [l \in Leaves |-> dev'[l]],
         \A l \in Leaves : DevChange(dev[l], dev'[l]) \/ Joins(l)
  PROVE  DevType'
<1>1. ASSUME NEW l \in Leaves
      PROVE  dev'[l] \in Devices /\ (~dev'[l].up => dev'[l] = NoDev)
  <2>1. DevChange(dev[l], dev'[l]) \/ Joins(l)
    OBVIOUS
  <2>2. dev[l] \in Devices /\ (~dev[l].up => dev[l] = NoDev)
    BY DEF DevType
  <2>3. CASE dev'[l] = dev[l] \/ dev'[l] = NoDev \/ dev'[l] = NewDev \/ dev'[l] = Unbridged(dev[l])
    BY <2>2, <2>3, DevKinds, DeviceTypes
  <2>4. CASE dev[l].up /\ \E b \in BOOLEAN : dev'[l] = [dev[l] EXCEPT !.live = b]
    <3>1. PICK b \in BOOLEAN : dev'[l] = [dev[l] EXCEPT !.live = b]
      BY <2>4
    <3>2. [dev[l] EXCEPT !.live = b] \in Devices /\ [dev[l] EXCEPT !.live = b].up
      BY <2>4, DevKinds
    <3> QED
      BY <3>1, <3>2
  <2>5. CASE dev[l].up /\ dev'[l] = [dev[l] EXCEPT !.isolated = dev[l].bridged]
    BY <2>2, <2>5 DEF Devices
  <2>6. CASE dev[l].up /\ dev'[l] = [dev[l] EXCEPT !.bridged = TRUE]
    BY <2>6, DevKinds
  <2> QED
    BY <2>1, <2>3, <2>4, <2>5, <2>6 DEF DevChange, Joins
<1> QED
  BY <1>1 DEF DevType

LEMMA DevStep ==
  ASSUME PlaceType, DevType, [Next]_vars
  PROVE  DevType' /\ \A l \in Leaves : DevChange(dev[l], dev'[l]) \/ Joins(l)
<1> SUFFICES dev' = [l \in Leaves |-> dev'[l]] /\ \A l \in Leaves : DevChange(dev[l], dev'[l]) \/ Joins(l)
  BY DevChanges
<1>0. /\ dev = [l \in Leaves |-> dev[l]] /\ (pc \in {"tunnel", "isolate"} => at \in Leaves)
      /\ \A l \in Leaves : dev[l].bridged \in BOOLEAN /\ (dev[l].live => dev[l].up)
  BY DevKinds DEF DevType, PlaceType, Devices
<1>a. UNCHANGED dev => dev' = [l \in Leaves |-> dev'[l]] /\ \A l \in Leaves : DevChange(dev[l], dev'[l])
  BY <1>0 DEF DevChange
<1>b. ASSUME NEW k \in Leaves, NEW d, dev' = [dev EXCEPT ![k] = d], DevChange(dev[k], d)
      PROVE  dev' = [l \in Leaves |-> dev'[l]] /\ \A l \in Leaves : DevChange(dev[l], dev'[l])
  <2>1. dev'[k] = d /\ dev' = [l \in Leaves |-> dev'[l]] /\ \A l \in Leaves \ {k} : dev'[l] = dev[l]
    BY <1>0, <1>b
  <2> QED
    BY <1>b, <2>1 DEF DevChange
<1>c. \A l \in Leaves : DevChange(dev[l], NoDev) /\ DevChange(dev[l], Unbridged(dev[l])) /\ DevChange(dev[l], dev[l])
  BY DEF DevChange
<1>1. CASE LeafMACsec \/ LeafMACsecFails \/ LeafStuck
  <2>1. at \in Leaves /\ (UNCHANGED dev \/ dev' = [dev EXCEPT ![at] = NoDev])
    BY <1>0, <1>1 DEF LeafMACsec, LeafMACsecFails, LeafStuck
  <2> QED
    BY <1>a, <1>b, <1>c, <2>1
<1>2. CASE LeafWG
  <2>1. at \in Leaves /\ (UNCHANGED dev \/ dev' = [dev EXCEPT ![at] = IF dev[at].up THEN dev[at] ELSE NewDev])
    BY <1>0, <1>2 DEF LeafWG
  <2>2. DevChange(dev[at], IF dev[at].up THEN dev[at] ELSE NewDev)
    BY DEF DevChange
  <2> QED
    BY <1>a, <1>b, <2>1, <2>2
<1>3. ASSUME NEW k \in Leaves, StopMKA(k) \/ CleanupPort(k)
      PROVE  dev' = [l \in Leaves |-> dev'[l]] /\ \A l \in Leaves : DevChange(dev[l], dev'[l])
  <2>1. UNCHANGED dev \/ dev' = [dev EXCEPT ![k] = NoDev]
    BY <1>3 DEF StopMKA, CleanupPort
  <2> QED
    BY <1>a, <1>b, <1>c, <2>1
<1>4. CASE BridgeRemove
  <2>1. UNCHANGED dev \/ dev' = [l \in Leaves |-> Unbridged(dev[l])]
    BY <1>4 DEF BridgeRemove
  <2> QED
    BY <1>a, <2>1 DEF DevChange
<1>5. CASE PortJoin
  <2>1. CASE UNCHANGED dev
    BY <1>a, <2>1
  <2>2. CASE ~UNCHANGED dev
    <3>1. /\ pc = "ports" /\ at \in Leaves /\ guarded /\ dev[at].up /\ pc' = "isolate" /\ at' = at
          /\ dev' = [dev EXCEPT ![at] = [dev[at] EXCEPT !.bridged = TRUE]]
      BY <1>5, <2>2 DEF PortJoin, Belongs
    <3>2. dev'[at] = [dev[at] EXCEPT !.bridged = TRUE] /\ \A l \in Leaves \ {at} : dev'[l] = dev[l]
      BY <1>0, <3>1
    <3>3. dev' = [l \in Leaves |-> dev'[l]]
      BY <1>0, <3>1
    <3> QED
      BY <3>1, <3>2, <3>3 DEF DevChange, Joins
  <2> QED
    BY <2>1, <2>2
<1>6. CASE PortIsolate
  <2>1. /\ at \in Leaves
        /\ \/ UNCHANGED dev \/ dev' = [dev EXCEPT ![at] = Unbridged(dev[at])]
           \/ dev' = [dev EXCEPT ![at] = [dev[at] EXCEPT !.isolated = dev[at].bridged]]
    BY <1>0, <1>6 DEF PortIsolate
  <2>2. DevChange(dev[at], [dev[at] EXCEPT !.isolated = dev[at].bridged])
    <3>1. CASE dev[at].up
      BY <1>0, <2>1, <3>1 DEF DevChange
    <3>2. CASE ~dev[at].up
      <4>1. dev[at] = NoDev
        BY <2>1, <3>2 DEF DevType
      <4>2. [dev[at] EXCEPT !.isolated = dev[at].bridged] = NoDev
        BY <4>1, DeviceTypes DEF Devices
      <4> QED
        BY <4>2 DEF DevChange
    <3> QED
      BY <3>1, <3>2
  <2> QED
    BY <1>a, <1>b, <1>c, <2>1, <2>2
<1>7. CASE PortLeave
  <2>1. at \in Leaves /\ (UNCHANGED dev \/ dev' = [dev EXCEPT ![at] = Unbridged(dev[at])])
    BY <1>7 DEF PortLeave
  <2> QED
    BY <1>a, <1>b, <1>c, <2>1
<1>8. ASSUME NEW k \in Leaves, MKACreates(k) \/ TunnelUp(k) \/ TunnelDown(k)
      PROVE  dev' = [l \in Leaves |-> dev'[l]] /\ \A l \in Leaves : DevChange(dev[l], dev'[l])
  <2>1. CASE MKACreates(k)
    <3>1. dev' = [dev EXCEPT ![k] = NewDev] /\ DevChange(dev[k], NewDev)
      BY <2>1 DEF MKACreates, DevChange
    <3> QED
      BY <1>b, <3>1
  <2>2. CASE TunnelUp(k)
    <3>1. dev' = [dev EXCEPT ![k] = [dev[k] EXCEPT !.live = TRUE]] /\ dev[k].up
      BY <2>2 DEF TunnelUp
    <3>2. DevChange(dev[k], [dev[k] EXCEPT !.live = TRUE])
      BY <3>1 DEF DevChange
    <3> QED
      BY <1>b, <3>1, <3>2
  <2>3. CASE TunnelDown(k)
    <3>1. dev' = [dev EXCEPT ![k] = [dev[k] EXCEPT !.live = FALSE]] /\ dev[k].up
      BY <1>0, <2>3 DEF TunnelDown
    <3>2. DevChange(dev[k], [dev[k] EXCEPT !.live = FALSE])
      BY <3>1 DEF DevChange
    <3> QED
      BY <1>b, <3>1, <3>2
  <2> QED
    BY <1>8, <2>1, <2>2, <2>3
<1>9. CASE Reboot
  BY <1>9 DEF Reboot, DevChange
<1>10. CASE \/ PassLoad \/ LeafOff \/ LeafMissing \/ LeafBegin \/ LeafRaise \/ BridgeUp
            \/ LeavesDone \/ CleanupDone \/ PortKept \/ PortsDone \/ RestoreDone \/ Flush \/ Crash \/ Start \/ UNCHANGED vars
            \/ (\E p \in Parents : RestoreOne(p)) \/ (\E l \in Leaves, c \in Settings : Configure(l, c))
            \/ (\E l \in Leaves : MKAExit(l))
  <2>1. UNCHANGED dev
    BY <1>10 DEF PassLoad, LeafOff, LeafMissing, LeafBegin, LeafRaise, BridgeUp, LeavesDone, CleanupDone, PortKept, PortsDone,
       RestoreDone, Flush, Crash, Start, RestoreOne, Configure, MKAExit, vars, kernel
  <2> QED
    BY <1>a, <2>1
<1> QED
  BY <1>1, <1>2, <1>3, <1>4, <1>5, <1>6, <1>7, <1>8, <1>9, <1>10 DEF Next, PassStep

\* Only PortJoin brings a port into the bridge; one that stays in it stays isolated.
LEMMA BridgedStep ==
  ASSUME PlaceType, DevType, [Next]_vars, NEW l \in Leaves, dev'[l].bridged
  PROVE  (dev[l].bridged /\ (dev[l].isolated => dev'[l].isolated)) \/ Joins(l)
<1>1. DevChange(dev[l], dev'[l]) \/ Joins(l)
  BY DevStep
<1>2. dev[l] \in Devices
  BY DEF DevType
<1>3. CASE dev'[l] = dev[l] \/ dev'[l] = NoDev \/ dev'[l] = NewDev \/ dev'[l] = Unbridged(dev[l])
  BY <1>2, <1>3, DeviceTypes
<1>4. CASE \E b \in BOOLEAN : dev'[l] = [dev[l] EXCEPT !.live = b]
  BY <1>2, <1>4 DEF Devices
<1>5. CASE dev'[l] = [dev[l] EXCEPT !.isolated = dev[l].bridged]
  BY <1>2, <1>5 DEF Devices
<1> QED
  BY <1>1, <1>3, <1>4, <1>5 DEF DevChange

LEMMA PassStepTypes ==
  ASSUME PlaceType, PassType, DevType, [Next]_vars
  PROVE  PassType'
<1> USE DEF PassType, PassPhases
<1>0. /\ NoList \in Lists /\ list \in Lists /\ (pc \in {"raise", "tunnel", "isolate"} => at \in Leaves)
      /\ PlaceType'
  BY OtherTypes, PlaceStep DEF PlaceType
<1>a. ASSUME NEW now \in [Leaves -> Devices], \A l \in Leaves : now[l].live => now[l].up
      PROVE  Listed(now) \in Lists
  BY <1>0, <1>a DEF Listed, Lists
<1>b. dev' \in [Leaves -> Devices] /\ \A l \in Leaves : dev'[l].live => dev'[l].up
  BY DevStep, DeviceTypes DEF DevType
<1>c. dev \in [Leaves -> Devices] /\ \A l \in Leaves : dev[l].live => dev[l].up
  BY DeviceTypes DEF DevType
<1>d. ASSUME list' \in Lists, pc = "tunnel", NextLeaf, keep' = keep \cup {at}, UNCHANGED guarded,
             members' \in {members, members \cup {at}}, secured' \subseteq members'
      PROVE  PassType'
  BY <1>0, <1>d DEF NextLeaf
<1>e. ASSUME pc' = pc \/ (pc \notin PassPhases \cup {"idle", "down"} /\ pc' \notin PassPhases \cup {"idle", "down"})
                      \/ (pc = "idle" /\ pc' = "leaves")
                      \/ (pc \in PassPhases \ {"cleanup"} /\ pc' \in PassPhases)
                      \/ (pc = "down" /\ pc' = "idle"),
             UNCHANGED <<keep, list, members, secured, guarded>>
      PROVE  PassType'
  BY <1>e
<1>1. CASE LeafMACsec
  <2>1. list' \in Lists
    BY <1>1, <1>a, <1>b DEF LeafMACsec
  <2>2. (at \in list'.live) => (at \in list'.up)
    BY <2>1 DEF Lists
  <2>3. members' \in {members, members \cup {at}} /\ secured' \subseteq members'
    BY <1>1, <2>2 DEF LeafMACsec, Report
  <2> QED
    BY <1>1, <1>d, <2>1, <2>3 DEF LeafMACsec
<1>2. CASE LeafMACsecFails
  <2>1. list' = Listed(dev') \/ list' = [NoList EXCEPT !.read = TRUE]
    BY <1>2 DEF LeafMACsecFails
  <2>2. [NoList EXCEPT !.read = TRUE] \in Lists
    BY DEF Lists, NoList
  <2>3. list' \in Lists
    BY <1>a, <1>b, <2>1, <2>2
  <2>4. (at \in list'.live) => (at \in list'.up)
    BY <2>3 DEF Lists
  <2>5. members' \in {members, members \cup {at}} /\ secured' \subseteq members'
    BY <1>2, <2>4 DEF LeafMACsecFails, Report
  <2> QED
    BY <1>2, <1>d, <2>3, <2>5 DEF LeafMACsecFails
<1>3. CASE LeafStuck
  <2>1. list' \in Lists
    BY <1>3, <1>a, <1>c DEF LeafStuck
  <2>2. members' \in {members, members \cup {at}} /\ secured' \subseteq members'
    BY <1>3 DEF LeafStuck, Report
  <2> QED
    BY <1>3, <1>d, <2>1, <2>2 DEF LeafStuck
<1>4. CASE LeafWG
  <2>1. members' \in {members, members \cup {at}} /\ secured' \subseteq members' /\ list' \in Lists
    BY <1>0, <1>4 DEF LeafWG, Report
  <2> QED
    BY <1>4, <1>d, <2>1 DEF LeafWG
<1>5. CASE CleanupDone \/ BridgeUp
  BY <1>0, <1>5 DEF CleanupDone, BridgeUp
<1>6. CASE RestoreDone \/ Crash \/ Reboot
  BY <1>0, <1>6, OtherTypes DEF RestoreDone, Crash, Reboot, ProcessLost, NoPass
<1>7. CASE LeafOff \/ LeafMissing \/ LeafBegin \/ LeafRaise \/ PassLoad \/ LeavesDone \/ Start \/ UNCHANGED vars
  BY <1>7, <1>e DEF LeavesDone, LeafOff, LeafMissing, LeafBegin, LeafRaise, PassLoad, NextLeaf, Start, vars, pass
<1>8. CASE BridgeRemove \/ PortJoin \/ PortIsolate \/ PortLeave \/ PortKept \/ PortsDone
  BY <1>8, <1>e DEF BridgeRemove, PortJoin, PortIsolate, PortLeave, PortKept, PortsDone, NextPort
<1>9. CASE (\E p \in Parents : RestoreOne(p)) \/ (\E l \in Leaves, c \in Settings : Configure(l, c))
  BY <1>9, <1>e DEF RestoreOne, Configure, pass
<1>10. CASE (\E l \in Leaves : MKAExit(l) \/ MKACreates(l) \/ TunnelUp(l) \/ TunnelDown(l) \/ StopMKA(l) \/ CleanupPort(l)) \/ Flush
  BY <1>10, <1>e DEF MKAExit, MKACreates, TunnelUp, TunnelDown, StopMKA, CleanupPort, Flush, pass
<1> QED
  BY <1>1, <1>2, <1>3, <1>4, <1>5, <1>6, <1>7, <1>8, <1>9, <1>10 DEF Next, PassStep

LEMMA MemStep ==
  ASSUME PlaceType, MemType, [Next]_vars
  PROVE  MemType'
<1> USE DEF MemType
<1>0. pc \in {"raise", "tunnel", "isolate"} => at \in Leaves
  BY DEF PlaceType
<1>1. CASE PassLoad \/ LeafOff \/ LeafMissing \/ LeafBegin \/ LeafRaise \/ LeafWG
  BY <1>1 DEF PassLoad, LeafOff, LeafMissing, LeafBegin, LeafRaise, LeafWG, memory
<1>2. CASE LeafMACsec \/ LeafMACsecFails \/ LeafStuck
  <2>1. /\ UNCHANGED <<wgSeen, bridgeGone, guardKnown, loaded>>
        /\ procs' = [procs EXCEPT ![at] = "none"] \/ procs' = [procs EXCEPT ![at] = "current"]
    BY <1>2 DEF LeafMACsec, LeafMACsecFails, LeafStuck
  <2> QED
    BY <2>1
<1>3. CASE LeavesDone \/ CleanupDone
  BY <1>3 DEF LeavesDone, CleanupDone, memory
<1>4. CASE BridgeRemove \/ BridgeUp
  BY <1>4 DEF BridgeRemove, BridgeUp
<1>5. CASE PortJoin \/ PortIsolate \/ PortLeave \/ PortKept \/ PortsDone
  BY <1>5 DEF PortJoin, PortIsolate, PortLeave, PortKept, PortsDone, memory
<1>6. CASE (\E p \in Parents : RestoreOne(p)) \/ RestoreDone
  BY <1>6 DEF RestoreOne, RestoreDone
<1>7. CASE Crash \/ Reboot
  BY <1>7 DEF Crash, Reboot, ProcessLost
<1>8. CASE \E l \in Leaves, c \in Settings : Configure(l, c)
  <2>1. /\ UNCHANGED <<wgSeen, bridgeGone, guardKnown, loaded>>
        /\ procs' = procs \/ \E l \in Leaves : procs' = [procs EXCEPT ![l] = "other"]
    BY <1>8 DEF Configure
  <2> QED
    BY <2>1
<1>9. CASE \E l \in Leaves : MKAExit(l) \/ MKACreates(l) \/ TunnelUp(l) \/ TunnelDown(l) \/ StopMKA(l) \/ CleanupPort(l)
  BY <1>9 DEF MKAExit, MKACreates, TunnelUp, TunnelDown, StopMKA, CleanupPort, memory
<1>10. CASE Flush \/ Start \/ UNCHANGED vars
  BY <1>10 DEF Flush, Start, vars, memory
<1> QED
  BY <1>1, <1>2, <1>3, <1>4, <1>5, <1>6, <1>7, <1>8, <1>9, <1>10 DEF Next, PassStep

LEMMA MTUStep ==
  ASSUME PlaceType, MTUType, [Next]_vars
  PROVE  MTUType'
<1> USE DEF MTUType
<1>0. /\ pc \in {"raise", "tunnel", "isolate"} => at \in Leaves
      /\ at \in Leaves => Here \in Parents /\ Target \in Nat /\ mtu[Here] \in Nat
  BY TargetType DEF PlaceType
<1>1. CASE PassLoad \/ LeafOff \/ LeafMissing \/ LeafWG
  BY <1>1 DEF PassLoad, LeafOff, LeafMissing, LeafWG, memory, kernel
<1>2. CASE LeafBegin
  <2>1. orig' = orig \/ orig' = [orig EXCEPT ![Here] = mtu[Here]]
    BY <1>2 DEF LeafBegin
  <2>2. orig' \in [Parents -> Nat] /\ (file' = orig' \/ file' = file) /\ UNCHANGED mtu
    BY <1>0, <1>2, <2>1 DEF LeafBegin, kernel
  <2>3. inUse' \subseteq Parents
    BY <1>0, <1>2 DEF LeafBegin
  <2> QED
    BY <2>2, <2>3
<1>3. CASE LeafRaise
  BY <1>0, <1>3 DEF LeafRaise, memory
<1>4. CASE LeafMACsec \/ LeafMACsecFails \/ LeafStuck \/ LeavesDone \/ CleanupDone
  BY <1>4 DEF LeafMACsec, LeafMACsecFails, LeafStuck, LeavesDone, CleanupDone, memory, kernel
<1>5. CASE BridgeRemove \/ BridgeUp
  BY <1>5 DEF BridgeRemove, BridgeUp
<1>6. CASE PortJoin \/ PortIsolate \/ PortLeave \/ PortKept \/ PortsDone
  BY <1>6 DEF PortJoin, PortIsolate, PortLeave, PortKept, PortsDone, memory, kernel
<1>7. CASE \E p \in Parents : RestoreOne(p)
  BY <1>7 DEF RestoreOne
<1>8. CASE RestoreDone \/ Crash \/ Reboot
  BY <1>8, OtherTypes, MTUAssumption DEF RestoreDone, Crash, Reboot, ProcessLost, NoPass, kernel
<1>9. CASE (\E l \in Leaves, c \in Settings : Configure(l, c)) \/ Flush \/ Start \/ UNCHANGED vars
  BY <1>9 DEF Configure, Flush, Start, vars, memory, kernel
<1>10. CASE \E l \in Leaves : MKAExit(l) \/ MKACreates(l) \/ TunnelUp(l) \/ TunnelDown(l) \/ StopMKA(l) \/ CleanupPort(l)
  BY <1>10 DEF MKAExit, MKACreates, TunnelUp, TunnelDown, StopMKA, CleanupPort, memory, kernel
<1> QED
  BY <1>1, <1>2, <1>3, <1>4, <1>5, <1>6, <1>7, <1>8, <1>9, <1>10 DEF Next, PassStep

LEMMA GuardStep ==
  ASSUME GuardType, [Next]_vars
  PROVE  GuardType'
<1> USE DEF GuardType
<1>0. NoGuard \in [Leaves -> Pins] /\ [l \in Leaves |-> PinsOf(l)] \in [Leaves -> Pins]
  BY OtherTypes DEF PinsOf, Pins
<1>1. CASE PassLoad \/ LeafOff \/ LeafMissing \/ LeafBegin \/ LeafRaise \/ LeafWG
  BY <1>1 DEF PassLoad, LeafOff, LeafMissing, LeafBegin, LeafRaise, LeafWG, kernel
<1>2. CASE LeafMACsec \/ LeafMACsecFails \/ LeafStuck \/ LeavesDone \/ CleanupDone
  BY <1>2 DEF LeafMACsec, LeafMACsecFails, LeafStuck, LeavesDone, CleanupDone, kernel
<1>3. CASE BridgeRemove \/ BridgeUp
  BY <1>0, <1>3 DEF BridgeRemove, BridgeUp
<1>4. CASE PortJoin \/ PortIsolate \/ PortLeave \/ PortKept \/ PortsDone
  BY <1>4 DEF PortJoin, PortIsolate, PortLeave, PortKept, PortsDone, kernel
<1>5. CASE (\E p \in Parents : RestoreOne(p)) \/ RestoreDone
  BY <1>5 DEF RestoreOne, RestoreDone, kernel
<1>6. CASE Crash \/ Reboot \/ Flush \/ Start \/ UNCHANGED vars
  BY <1>0, <1>6 DEF Crash, Reboot, Flush, Start, kernel, vars
<1>7. CASE \E l \in Leaves, c \in Settings : Configure(l, c)
  BY <1>7 DEF Configure, kernel
<1>8. CASE \E l \in Leaves : MKAExit(l) \/ MKACreates(l) \/ TunnelUp(l) \/ TunnelDown(l) \/ StopMKA(l) \/ CleanupPort(l)
  BY <1>8 DEF MKAExit, MKACreates, TunnelUp, TunnelDown, StopMKA, CleanupPort, kernel
<1> QED
  BY <1>1, <1>2, <1>3, <1>4, <1>5, <1>6, <1>7, <1>8 DEF Next, PassStep

LEMMA TypesKept ==
  ASSUME TypeInv, [Next]_vars
  PROVE  TypeInv'
<1>1. CfgType /\ PlaceType /\ PassType /\ MemType /\ MTUType /\ DevType /\ GuardType /\ LeftType
  BY DEF TypeInv
<1>2. CfgType' /\ PlaceType' /\ PassType' /\ MemType' /\ MTUType' /\ DevType' /\ GuardType' /\ LeftType'
  BY <1>1, CfgStep, PlaceStep, PassStepTypes, MemStep, MTUStep, DevStep, GuardStep, LeftStep
<1> QED
  BY <1>2 DEF TypeInv

\* The variables of the pass, the memory, the kernel and the disk keep to their types,
\* and a port of mshbr0 is an interface that exists.
THEOREM LinkTypes == Spec => []TypeOK
<1>1. Spec => []TypeInv
  BY InitTypes, TypesKept, PTL DEF Spec
<1> QED
  BY <1>1, TypesGiveTypeOK, PTL

-----------------------------------------------------------------------------
(* A bridged port is pinned.                                               *)

LEMMA GuardKept ==
  ASSUME TypeInv, GuardInv, [Next]_vars
  PROVE  GuardInv'
<1> USE DEF GuardInv
<1>0. /\ Never("upset")' => Never("upset")
      /\ pc \in {"down", "idle", "leaves", "raise", "tunnel", "cleanup", "bridge"} => guarded = FALSE
  BY NeverBefore DEF TypeInv, PassType, Events
<1>a. ASSUME guarded = FALSE, UNCHANGED guarded, pc' # "isolate"
      PROVE  GuardInv'
  BY <1>a
<1>1. CASE PassLoad \/ LeafOff \/ LeafMissing \/ LeafBegin \/ LeafRaise
  BY <1>0, <1>1, <1>a DEF PassLoad, LeafOff, LeafMissing, LeafBegin, LeafRaise, NextLeaf
<1>2. CASE LeafMACsec \/ LeafMACsecFails \/ LeafStuck \/ LeafWG
  BY <1>0, <1>2, <1>a DEF LeafMACsec, LeafMACsecFails, LeafStuck, LeafWG, NextLeaf
<1>3. CASE LeavesDone \/ CleanupDone \/ BridgeRemove
  BY <1>0, <1>3, <1>a DEF LeavesDone, CleanupDone, BridgeRemove
<1>4. CASE BridgeUp
  <2>1. \/ guarded' = FALSE
        \/ UNCHANGED rcfg /\ guard' = [l \in Leaves |-> PinsOf(l)]
    BY <1>4 DEF BridgeUp
  <2>2. \A l \in Leaves : rcfg[l].on => PinsOf(l) # "none"
    BY DEF PinsOf
  <2> QED
    BY <1>4, <2>1, <2>2 DEF BridgeUp
<1>5. CASE PortJoin \/ PortIsolate \/ PortLeave \/ PortKept \/ PortsDone
  <2>1. UNCHANGED <<rcfg, guarded, guard>> /\ pc \in {"ports", "isolate"} /\ pc' \in {"ports", "isolate", "restore"}
    BY <1>5 DEF PortJoin, PortIsolate, PortLeave, PortKept, PortsDone, NextPort, kernel
  <2>2. pc' = "isolate" => guarded
    BY <1>5 DEF PortJoin, PortIsolate, PortLeave, PortKept, PortsDone, NextPort, Belongs
  <2> QED
    BY <1>0, <2>1, <2>2
<1>6. CASE \E p \in Parents : RestoreOne(p)
  BY <1>0, <1>6 DEF RestoreOne, pass
<1>7. CASE RestoreDone \/ Crash \/ Reboot
  BY <1>7 DEF RestoreDone, Crash, Reboot, ProcessLost, NoPass
<1>8. CASE Flush
  <2>1. LeftType /\ "upset" \in Events /\ Spend("upset")
    BY <1>8 DEF Flush, TypeInv, Events
  <2>2. left'["upset"] < Budget["upset"] /\ left'["upset"] \in Nat /\ Budget["upset"] \in Nat
    BY <2>1, Spending, LinkBudgetAssumption DEF LeftType
  <2>3. ~Never("upset")'
    BY <2>2 DEF Never
  <2> QED
    BY <1>8, <2>3 DEF Flush, pass
<1>9. CASE \E l \in Leaves, c \in Settings : Configure(l, c)
  BY <1>0, <1>9 DEF Configure, pass, kernel
<1>10. CASE \E l \in Leaves : MKAExit(l) \/ MKACreates(l) \/ TunnelUp(l) \/ TunnelDown(l) \/ StopMKA(l) \/ CleanupPort(l)
  BY <1>0, <1>10 DEF MKAExit, MKACreates, TunnelUp, TunnelDown, StopMKA, CleanupPort, pass, kernel
<1>11. CASE Start \/ UNCHANGED vars
  BY <1>0, <1>11, <1>a DEF Start, vars, pass, kernel
<1> QED
  BY <1>1, <1>2, <1>3, <1>4, <1>5, <1>6, <1>7, <1>8, <1>9, <1>10, <1>11 DEF Next, PassStep

LEMMA KnownKept ==
  ASSUME TypeInv, KnownInv, [Next]_vars
  PROVE  KnownInv'
<1> SUFFICES ASSUME Failed' = 0
             PROVE  /\ (pc \in PassPhases /\ list.read => \A l \in Leaves \ WG : dev[l].bridged => l \in list.up)'
                    /\ (\A l \in Leaves : Handled(l) /\ rcfg[l].on /\ dev[l].bridged => l \in members)'
  BY DEF KnownInv
<1> USE DEF PassPhases
<1>0. CfgType /\ PlaceType /\ PassType /\ DevType /\ LeftType /\ DevType'
  BY TypesKept DEF TypeInv
<1>1. Failed = 0 /\ ~Fault
  BY <1>0, NeverBefore
<1>2. /\ pc \in PassPhases /\ list.read => \A l \in Leaves \ WG : dev[l].bridged => l \in list.up
      /\ \A l \in Leaves : Handled(l) /\ rcfg[l].on /\ dev[l].bridged => l \in members
  BY <1>1 DEF KnownInv
<1>3. /\ (pc \in {"tunnel", "raise"} => at \in Leaves)
      /\ (pc = "idle" => at = 1 /\ ~list.read)
      /\ \A l \in Leaves : dev[l].bridged => dev[l].up
      /\ \A l \in Leaves : dev'[l].bridged => dev'[l].up
  BY <1>0, OtherTypes, DeviceTypes DEF PlaceType, PassType, DevType
<1>4. \A l \in Leaves : dev'[l].bridged => dev[l].bridged \/ (pc = "ports" /\ pc' = "isolate")
  BY <1>0, BridgedStep DEF Joins
<1>a. ASSUME pc' \notin PassPhases \cup {"bridge"}
      PROVE  /\ (pc \in PassPhases /\ list.read => \A l \in Leaves \ WG : dev[l].bridged => l \in list.up)'
             /\ (\A l \in Leaves : Handled(l) /\ rcfg[l].on /\ dev[l].bridged => l \in members)'
  BY <1>a DEF Handled
<1>b. ASSUME UNCHANGED pass
      PROVE  /\ (pc \in PassPhases /\ list.read => \A l \in Leaves \ WG : dev[l].bridged => l \in list.up)'
             /\ (\A l \in Leaves : Handled(l) /\ rcfg[l].on /\ dev[l].bridged => l \in members)'
  BY <1>2, <1>4, <1>b DEF Handled, pass
<1>c. ASSUME pc \in PassPhases, NextLeaf, at \in Leaves, UNCHANGED rcfg, members \subseteq members',
             dev[at].bridged /\ rcfg[at].on => at \in members',
             list'.read => \A l \in Leaves \ WG : dev'[l].bridged => l \in list'.up
      PROVE  /\ (pc \in PassPhases /\ list.read => \A l \in Leaves \ WG : dev[l].bridged => l \in list.up)'
             /\ (\A l \in Leaves : Handled(l) /\ rcfg[l].on /\ dev[l].bridged => l \in members)'
  <2>1. pc' = "leaves" /\ at' = at + 1 /\ at \in Leaves /\ Leaves \subseteq Nat
    BY <1>c DEF NextLeaf, Leaves
  <2>2. \A l \in Leaves : l < at' => l < at \/ l = at
    BY <2>1
  <2>3. \A l \in Leaves : Handled(l)' => Handled(l) \/ l = at
    BY <1>c, <2>1, <2>2 DEF Handled
  <2> QED
    BY <1>2, <1>4, <1>c, <2>1, <2>3
<1>5. CASE PassLoad
  <2>1. pc' = "leaves" /\ at' = 1 /\ ~list'.read /\ \A l \in Leaves : ~(l < 1)
    BY <1>3, <1>5 DEF PassLoad, Leaves
  <2> QED
    BY <2>1 DEF Handled
<1>6. CASE LeafOff
  BY <1>2, <1>4, <1>6, <1>c DEF LeafOff, kernel
<1>7. CASE LeafBegin \/ LeafRaise
  <2>1. pc \in PassPhases /\ pc' \in {"raise", "tunnel"} /\ UNCHANGED <<at, rcfg, list, members>>
    BY <1>7 DEF LeafBegin, LeafRaise
  <2> QED
    BY <1>2, <1>4, <2>1 DEF Handled
<1>8. CASE LeafMACsec
  <2>1. /\ pc = "tunnel" /\ at \in Leaves /\ at \notin WG /\ NextLeaf /\ UNCHANGED rcfg /\ members \subseteq members'
        /\ (at \in list'.up => at \in members') /\ list' = Listed(dev')
    BY <1>3, <1>8 DEF LeafMACsec, Report
  <2>2. dev' = dev \/ dev' = [dev EXCEPT ![at] = NoDev]
    BY <1>8 DEF LeafMACsec
  <2>3. \A l \in Leaves \ WG : dev'[l].bridged => l \in list'.up
    BY <1>2, <1>3, <1>4, <2>1 DEF Listed
  <2>4. dev[at].bridged /\ rcfg[at].on => at \in members' \/ ~dev'[at].bridged
    BY <2>1, <2>3
  <2>5. CASE dev' = dev
    BY <1>c, <2>1, <2>3, <2>5
  <2>6. CASE dev' = [dev EXCEPT ![at] = NoDev]
    <3>1. ~dev'[at].bridged /\ pc' = "leaves" /\ at' = at + 1 /\ at \in Nat /\ Leaves \subseteq Nat
      BY <1>0, <2>1, <2>6, DeviceTypes DEF DevType, NextLeaf, Leaves
    <3>2. \A l \in Leaves : Handled(l)' => Handled(l) \/ l = at
      BY <2>1, <3>1 DEF Handled
    <3> QED
      BY <1>2, <1>4, <2>1, <2>3, <3>1, <3>2
  <2> QED
    BY <2>2, <2>5, <2>6
<1>9. CASE LeafStuck
  <2>1. /\ pc = "tunnel" /\ at \in Leaves /\ at \notin WG /\ NextLeaf /\ UNCHANGED rcfg /\ members \subseteq members'
        /\ (at \in list'.up => at \in members') /\ list' = Listed(dev)
    BY <1>3, <1>9 DEF LeafStuck, Report
  <2>2. \A l \in Leaves \ WG : dev[l].bridged => l \in list'.up
    BY <1>2, <1>3, <2>1 DEF Listed
  <2> QED
    BY <1>4, <1>c, <2>1, <2>2
<1>10. CASE LeafWG
  <2>1. /\ pc = "tunnel" /\ at \in Leaves /\ NextLeaf /\ UNCHANGED <<rcfg, list>> /\ members \subseteq members'
        /\ at \in members'
    BY <1>1, <1>3, <1>10 DEF LeafWG, Report
  <2> QED
    BY <1>2, <1>4, <1>c, <2>1
<1>11. CASE LeavesDone
  <2>1. pc = "leaves" /\ at = Count + 1 /\ pc' = "cleanup" /\ UNCHANGED <<rcfg, members, list>>
    BY <1>11 DEF LeavesDone
  <2>2. \A l \in Leaves : Handled(l)
    BY <2>1, OtherTypes DEF Handled, Leaves
  <2> QED
    BY <1>2, <1>4, <2>1, <2>2
<1>17. CASE CleanupDone
  <2>1. pc = "cleanup" /\ pc' = "bridge" /\ UNCHANGED <<rcfg, members>>
    BY <1>17 DEF CleanupDone
  <2>2. \A l \in Leaves : Handled(l)
    BY <2>1 DEF Handled
  <2> QED
    BY <1>2, <1>4, <2>1, <2>2
<1>12. CASE LeafMissing \/ LeafMACsecFails
  BY <1>1, <1>12 DEF LeafMissing, LeafMACsecFails
<1>13. CASE BridgeRemove \/ BridgeUp \/ PortJoin \/ PortIsolate \/ PortLeave \/ PortKept \/ PortsDone
  BY <1>a, <1>13 DEF BridgeRemove, BridgeUp, PortJoin, PortIsolate, PortLeave, PortKept, PortsDone, NextPort
<1>14. CASE RestoreDone \/ Crash \/ Reboot \/ Start
  BY <1>a, <1>14 DEF RestoreDone, Crash, Reboot, Start, ProcessLost
<1>15. CASE (\E p \in Parents : RestoreOne(p)) \/ (\E l \in Leaves, c \in Settings : Configure(l, c)) \/ UNCHANGED vars
  BY <1>b, <1>15 DEF RestoreOne, Configure, vars
<1>16. CASE (\E l \in Leaves : MKAExit(l) \/ MKACreates(l) \/ TunnelUp(l) \/ TunnelDown(l) \/ StopMKA(l) \/ CleanupPort(l)) \/ Flush
  BY <1>b, <1>16 DEF MKAExit, MKACreates, TunnelUp, TunnelDown, StopMKA, CleanupPort, Flush
<1> QED
  BY <1>5, <1>6, <1>7, <1>8, <1>9, <1>10, <1>11, <1>12, <1>13, <1>14, <1>15, <1>16, <1>17 DEF Next, PassStep

LEMMA LeaveKept ==
  ASSUME TypeInv, GuardInv, KnownInv, LeaveInv, [Next]_vars
  PROVE  LeaveInv'
<1> SUFFICES ASSUME ~guarded'
             PROVE  /\ (pc = "ports" => Failed >= 1)'
                    /\ (Failed <= 1 /\ pc = "ports" =>
                          \A l \in Leaves : rcfg[l].on /\ dev[l].bridged => l \in members /\ at <= l)'
                    /\ (Failed <= 1 /\ pc = "restore" => \A l \in Leaves : ~(rcfg[l].on /\ dev[l].bridged))'
  BY DEF LeaveInv
<1>0. CfgType /\ PlaceType /\ PassType /\ DevType /\ LeftType
  BY DEF TypeInv
<1>1. Failed \in Nat /\ Failed' \in Nat /\ Failed <= Failed' /\ (Fault => Failed' = Failed + 1)
  BY <1>0, NeverBefore
<1>2. at \in Nat /\ Leaves \subseteq Nat /\ \A l \in Leaves : 1 <= l /\ l # Count + 1 /\ l <= Count
  BY <1>0, OtherTypes DEF PlaceType, Leaves
<1>3. \A l \in Leaves : dev[l].bridged => dev[l].up
  BY <1>0, DeviceTypes DEF DevType
<1>4. \A l \in Leaves : dev'[l].bridged => dev[l].bridged \/ (guarded /\ pc = "ports" /\ pc' = "isolate")
  BY <1>0, BridgedStep DEF Joins
<1>a. ASSUME pc' \notin {"ports", "restore"}
      PROVE  /\ (pc = "ports" => Failed >= 1)'
             /\ (Failed <= 1 /\ pc = "ports" =>
                   \A l \in Leaves : rcfg[l].on /\ dev[l].bridged => l \in members /\ at <= l)'
             /\ (Failed <= 1 /\ pc = "restore" => \A l \in Leaves : ~(rcfg[l].on /\ dev[l].bridged))'
  BY <1>a
<1>b. ASSUME UNCHANGED pass
      PROVE  /\ (pc = "ports" => Failed >= 1)'
             /\ (Failed <= 1 /\ pc = "ports" =>
                   \A l \in Leaves : rcfg[l].on /\ dev[l].bridged => l \in members /\ at <= l)'
             /\ (Failed <= 1 /\ pc = "restore" => \A l \in Leaves : ~(rcfg[l].on /\ dev[l].bridged))'
  <2>1. ~guarded /\ UNCHANGED <<pc, at, rcfg, members>>
    BY <1>b DEF pass
  <2> QED
    BY <1>1, <1>4, <2>1 DEF LeaveInv
<1>5. CASE BridgeRemove
  <2>1. pc' = "restore" /\ UNCHANGED rcfg /\ \A l \in Leaves : ~rcfg[l].on
    BY <1>5 DEF BridgeRemove
  <2> QED
    BY <2>1
<1>6. CASE BridgeUp
  <2>1. Fault /\ pc = "bridge" /\ pc' = "ports" /\ at' = 1 /\ UNCHANGED <<rcfg, members>>
    BY <1>6 DEF BridgeUp
  <2>2. Failed' >= 1 /\ (Failed' <= 1 => Failed = 0)
    BY <1>1, <2>1
  <2>3. \A l \in Leaves : Failed = 0 /\ rcfg[l].on /\ dev[l].bridged => l \in members
    BY <2>1 DEF KnownInv, Handled
  <2> QED
    BY <1>2, <1>4, <2>1, <2>2, <2>3
<1>7. CASE PortLeave
  <2>1. /\ pc = "ports" /\ pc' = "ports" /\ at' = at + 1 /\ UNCHANGED <<rcfg, members, guarded>>
        /\ at \in Leaves /\ (Fault \/ dev' = [dev EXCEPT ![at] = Unbridged(dev[at])])
    BY <1>7 DEF PortLeave, NextPort
  <2>2. Failed >= 1 /\ Failed' >= 1
    BY <1>1, <2>1 DEF LeaveInv
  <2>3. CASE Fault
    BY <1>1, <2>1, <2>2, <2>3
  <2>4. CASE dev' = [dev EXCEPT ![at] = Unbridged(dev[at])]
    <3>1. ~dev'[at].bridged
      BY <1>0, <2>1, <2>4, DeviceTypes DEF DevType
    <3>2. \A l \in Leaves : Failed' <= 1 /\ rcfg[l].on /\ dev'[l].bridged => l \in members /\ at <= l /\ l # at
      BY <1>1, <1>4, <2>1, <3>1 DEF LeaveInv
    <3> QED
      BY <1>2, <2>1, <2>2, <3>2
  <2> QED
    BY <2>1, <2>3, <2>4
<1>8. CASE PortKept
  <2>1. /\ pc = "ports" /\ pc' = "ports" /\ at' = at + 1 /\ UNCHANGED <<rcfg, members, guarded, dev>>
        /\ at \in Leaves /\ (rcfg[at].on => ~(at \in members /\ dev[at].up /\ dev[at].bridged))
    BY <1>8 DEF PortKept, NextPort, Belongs, kernel
  <2>2. Failed >= 1 /\ Failed' >= 1
    BY <1>1, <2>1 DEF LeaveInv
  <2>3. \A l \in Leaves : Failed' <= 1 /\ rcfg[l].on /\ dev[l].bridged => l \in members /\ at <= l /\ l # at
    BY <1>1, <1>3, <2>1 DEF LeaveInv
  <2> QED
    BY <1>2, <2>1, <2>2, <2>3
<1>9. CASE PortsDone
  <2>1. pc = "ports" /\ pc' = "restore" /\ at = Count + 1 /\ UNCHANGED <<rcfg, guarded, dev>>
    BY <1>9 DEF PortsDone, kernel
  <2>2. \A l \in Leaves : Failed <= 1 /\ rcfg[l].on /\ dev[l].bridged => at <= l
    BY <2>1 DEF LeaveInv
  <2> QED
    BY <1>1, <1>2, <2>1, <2>2, OtherTypes
<1>10. CASE PortJoin \/ PortIsolate
  <2>1. guarded /\ UNCHANGED guarded
    BY <1>10 DEF PortJoin, PortIsolate, Belongs, GuardInv
  <2> QED
    BY <2>1
<1>11. CASE PassLoad \/ LeafOff \/ LeafMissing \/ LeafBegin \/ LeafRaise \/ LeavesDone \/ CleanupDone
  BY <1>a, <1>11 DEF PassLoad, LeafOff, LeafMissing, LeafBegin, LeafRaise, LeavesDone, CleanupDone, NextLeaf
<1>12. CASE LeafMACsec \/ LeafMACsecFails \/ LeafStuck \/ LeafWG
  BY <1>a, <1>12 DEF LeafMACsec, LeafMACsecFails, LeafStuck, LeafWG, NextLeaf
<1>13. CASE RestoreDone \/ Crash \/ Reboot \/ Start
  BY <1>a, <1>13 DEF RestoreDone, Crash, Reboot, Start, ProcessLost
<1>14. CASE \E p \in Parents : RestoreOne(p)
  BY <1>b, <1>14 DEF RestoreOne
<1>15. CASE (\E l \in Leaves, c \in Settings : Configure(l, c)) \/ UNCHANGED vars
  BY <1>b, <1>15 DEF Configure, vars
<1>16. CASE (\E l \in Leaves : MKAExit(l) \/ MKACreates(l) \/ TunnelUp(l) \/ TunnelDown(l) \/ StopMKA(l) \/ CleanupPort(l)) \/ Flush
  BY <1>b, <1>16 DEF MKAExit, MKACreates, TunnelUp, TunnelDown, StopMKA, CleanupPort, Flush
<1> QED
  BY <1>5, <1>6, <1>7, <1>8, <1>9, <1>10, <1>11, <1>12, <1>13, <1>14, <1>15, <1>16 DEF Next, PassStep

LEMMA InitPins == Init => PinInv
<1> SUFFICES ASSUME Init PROVE PinInv
  OBVIOUS
<1>1. pc = "idle" /\ guarded = FALSE /\ dev = [l \in Leaves |-> NoDev]
  BY DEF Init
<1> QED
  BY <1>1, DeviceTypes DEF PinInv, GuardInv, KnownInv, LeaveInv, Handled, PassPhases

LEMMA PinsGiveBridgedIsPinned ==
  ASSUME TypeInv, PinInv
  PROVE  BridgedIsPinned
<1> SUFFICES ASSUME NEW l \in Leaves, Settled(l), rcfg[l].on, dev[l].bridged, Never("upset"), guarded \/ Failed <= 1
             PROVE  guard[l] # "none"
  BY DEF BridgedIsPinned
<1>1. CASE guarded
  BY <1>1 DEF PinInv, GuardInv
<1>2. CASE ~guarded
  <2>1. at \in Nat /\ l \in Nat
    BY DEF TypeInv, PlaceType, Leaves
  <2>2. CASE pc = "restore"
    BY <1>2, <2>2 DEF PinInv, LeaveInv
  <2>3. CASE pc = "ports" /\ at > l
    <3>1. at <= l
      BY <1>2, <2>3 DEF PinInv, LeaveInv
    <3> QED
      BY <2>1, <2>3, <3>1
  <2> QED
    BY <2>2, <2>3 DEF Settled
<1> QED
  BY <1>1, <1>2

\* No leaf's port is in mshbr0 without its address pinned once the pass has dealt with
\* it, wherever the plugin dies, unless somebody else flushed the rules or, without a
\* guard, a second call failed.
THEOREM MeshPinned == Spec => []BridgedIsPinned
<1>1. Init => TypeInv /\ PinInv
  BY InitTypes, InitPins
<1>2. TypeInv /\ PinInv /\ [Next]_vars => (TypeInv /\ PinInv)'
  BY TypesKept, GuardKept, KnownKept, LeaveKept DEF PinInv
<1>3. TypeInv /\ PinInv => BridgedIsPinned
  BY PinsGiveBridgedIsPinned
<1> QED
  BY <1>1, <1>2, <1>3, PTL DEF Spec

-----------------------------------------------------------------------------
(* A bridged port is isolated.                                             *)

LEMMA IsolationKept ==
  ASSUME TypeInv, IsolatedInv, [Next]_vars
  PROVE  IsolatedInv'
<1> SUFFICES ASSUME Never("crash")', Never("fault")', NEW l \in Leaves, dev'[l].bridged
             PROVE  dev'[l].isolated \/ (pc' = "isolate" /\ l = at')
  BY DEF IsolatedInv
<1>0. PlaceType /\ PassType /\ DevType /\ LeftType
  BY DEF TypeInv
<1>1. Never("crash") /\ Never("fault") /\ ~Fault
  BY <1>0, NeverBefore DEF Events
<1>2. CASE Joins(l)
  BY <1>2 DEF Joins
<1>3. CASE dev[l].bridged /\ (dev[l].isolated => dev'[l].isolated)
  <2>1. dev[l].isolated \/ (pc = "isolate" /\ l = at)
    BY <1>1, <1>3 DEF IsolatedInv
  <2>2. CASE dev[l].isolated
    BY <1>3, <2>2
  <2>3. CASE pc = "isolate" /\ l = at
    <3>1. CASE PortIsolate
      <4>1. dev' = [dev EXCEPT ![at].isolated = dev[at].bridged]
        BY <1>1, <3>1 DEF PortIsolate
      <4> QED
        BY <1>0, <1>3, <2>3, <4>1 DEF DevType, Devices
    <3>2. CASE Crash \/ Reboot
      <4>1. "crash" \in Events /\ Spend("crash")
        BY <3>2 DEF Crash, Reboot, Events
      <4>2. left'["crash"] < Budget["crash"] /\ left'["crash"] \in Nat /\ Budget["crash"] \in Nat
        BY <1>0, <4>1, Spending, LinkBudgetAssumption DEF LeftType
      <4> QED
        BY <4>2 DEF Never
    <3>3. CASE ~(PortIsolate \/ Crash \/ Reboot)
      <4>1. UNCHANGED pass
        <5>1. ~PassStep
          BY <2>3, <3>3 DEF PassStep, PassLoad, LeafOff, LeafMissing, LeafBegin, LeafRaise, LeafMACsec,
             LeafMACsecFails, LeafStuck, LeafWG, StopMKA, LeavesDone, CleanupPort, CleanupDone,
             BridgeRemove, BridgeUp, PortJoin, PortLeave,
             PortKept, PortsDone, RestoreOne, RestoreDone
        <5>2. ~Start
          BY <2>3 DEF Start
        <5> QED
          BY <3>3, <5>1, <5>2 DEF Next, Configure, MKAExit, MKACreates, TunnelUp, TunnelDown, Flush, vars
      <4> QED
        BY <2>3, <4>1 DEF pass
    <3> QED
      BY <3>1, <3>2, <3>3
  <2> QED
    BY <2>1, <2>2, <2>3
<1> QED
  BY <1>0, <1>2, <1>3, BridgedStep

\* A port that stays in mshbr0 is isolated, unless the plugin died between the two
\* calls, or calls failed.
THEOREM PortsStayIsolated == Spec => []PortsIsolated
<1>1. Init => TypeInv /\ IsolatedInv
  BY InitTypes, DeviceTypes DEF Init, IsolatedInv
<1>2. TypeInv /\ IsolatedInv /\ [Next]_vars => (TypeInv /\ IsolatedInv)'
  BY TypesKept, IsolationKept
<1>3. TypeInv /\ IsolatedInv => PortsIsolated
  BY DEF IsolatedInv, PortsIsolated, Settled
<1> QED
  BY <1>1, <1>2, <1>3, PTL DEF Spec

-----------------------------------------------------------------------------
(* A tunnel that is not wanted any more is found and deleted.              *)

\* No crash and no failed call so far.
Quiet == Never("crash") /\ Never("fault")

LEMMA QuietStep ==
  ASSUME LeftType, [Next]_vars, Quiet'
  PROVE  Quiet /\ ~Fault /\ ~Crash /\ ~Reboot
<1>1. Never("crash") /\ Never("fault") /\ ~Fault
  BY NeverBefore DEF Events, Quiet
<1>2. ASSUME Crash \/ Reboot PROVE FALSE
  <2>1. "crash" \in Events /\ Spend("crash")
    BY <1>2 DEF Crash, Reboot, Events
  <2>2. left'["crash"] < Budget["crash"] /\ left'["crash"] \in Nat /\ Budget["crash"] \in Nat
    BY <2>1, Spending, LinkBudgetAssumption DEF LeftType
  <2> QED
    BY <2>2 DEF Never, Quiet
<1> QED
  BY <1>1, <1>2 DEF Quiet

LEMMA KeptOnStep ==
  ASSUME TypeInv, KeptOn, [Next]_vars
  PROVE  KeptOn'
<1> USE DEF KeptOn
<1>0. PlaceType /\ PassType
  BY DEF TypeInv
<1>1. pc \notin PassPhases => keep = {}
  BY <1>0 DEF PassType
<1>2. CASE PassLoad
  BY <1>1, <1>2 DEF PassLoad, PassPhases
<1>3. CASE LeafOff \/ LeafMissing \/ LeafBegin \/ LeafRaise
  BY <1>3 DEF LeafOff, LeafMissing, LeafBegin, LeafRaise, NextLeaf
<1>4. CASE LeafMACsec \/ LeafMACsecFails \/ LeafStuck \/ LeafWG
  <2>1. rcfg[at].on /\ keep' = keep \cup {at} /\ UNCHANGED rcfg /\ pc' = "leaves"
    BY <1>4 DEF LeafMACsec, LeafMACsecFails, LeafStuck, LeafWG, NextLeaf
  <2> QED
    BY <2>1
<1>5. CASE LeavesDone \/ CleanupDone
  BY <1>5 DEF LeavesDone, CleanupDone
<1>6. CASE BridgeRemove \/ BridgeUp
  BY <1>6 DEF BridgeRemove, BridgeUp
<1>7. CASE PortJoin \/ PortIsolate \/ PortLeave \/ PortKept \/ PortsDone
  BY <1>7 DEF PortJoin, PortIsolate, PortLeave, PortKept, PortsDone, NextPort
<1>8. CASE RestoreDone \/ Crash \/ Reboot \/ Start
  BY <1>8 DEF RestoreDone, Crash, Reboot, Start, ProcessLost, NoPass
<1>9. CASE (\E p \in Parents : RestoreOne(p)) \/ (\E l \in Leaves, c \in Settings : Configure(l, c)) \/ UNCHANGED vars
  BY <1>9 DEF RestoreOne, Configure, vars, pass
<1>10. CASE (\E l \in Leaves : MKAExit(l) \/ MKACreates(l) \/ TunnelUp(l) \/ TunnelDown(l) \/ StopMKA(l) \/ CleanupPort(l)) \/ Flush
  BY <1>10 DEF MKAExit, MKACreates, TunnelUp, TunnelDown, StopMKA, CleanupPort, Flush, pass
<1> QED
  BY <1>2, <1>3, <1>4, <1>5, <1>6, <1>7, <1>8, <1>9, <1>10 DEF Next, PassStep

\* An interface appears only where a participant runs, or the pass keeps the tunnel;
\* a participant is forgotten only with its interface.
LEMMA TunnelStep ==
  ASSUME TypeInv, [Next]_vars, Quiet', RememberedInv
  PROVE  RememberedInv'
<1> SUFFICES ASSUME NEW l \in Leaves, dev'[l].up
             PROVE  IF l \in WG THEN wgSeen' \/ l \in keep' ELSE procs'[l] # "none"
  BY DEF RememberedInv
<1>0. PlaceType /\ PassType /\ MemType /\ DevType /\ LeftType /\ (pc = "tunnel" => at \in Leaves)
  BY DEF TypeInv, PlaceType
<1>q. Quiet /\ ~Fault /\ ~Crash /\ ~Reboot
  BY <1>0, QuietStep
<1>a. dev[l].up => IF l \in WG THEN wgSeen \/ l \in keep ELSE procs[l] # "none"
  BY DEF RememberedInv
<1>d. dev'[l].up => dev[l].up \/ dev'[l] = NewDev
  <2>1. DevChange(dev[l], dev'[l]) \/ Joins(l)
    BY <1>0, DevStep
  <2>2. dev[l] \in Devices
    BY <1>0 DEF DevType
  <2> QED
    BY <2>1, <2>2, DeviceTypes DEF DevChange, Joins, Devices
<1>b. ASSUME dev[l].up, keep \subseteq keep', UNCHANGED <<wgSeen, procs>>
      PROVE  IF l \in WG THEN wgSeen' \/ l \in keep' ELSE procs'[l] # "none"
  BY <1>a, <1>b
<1>1. CASE LeafMACsec
  <2>1. /\ procs' = [procs EXCEPT ![at] = "current"] /\ keep' = keep \cup {at} /\ UNCHANGED wgSeen /\ at \in Leaves
        /\ dev' = dev \/ dev' = [dev EXCEPT ![at] = NoDev]
    BY <1>0, <1>1 DEF LeafMACsec
  <2>2. dev[l].up
    BY <1>0, <2>1, DeviceTypes DEF DevType
  <2> QED
    BY <1>0, <1>a, <2>1, <2>2 DEF MemType
<1>2. CASE LeafStuck
  <2>1. /\ procs' = [procs EXCEPT ![at] = "none"] /\ keep' = keep \cup {at} /\ UNCHANGED wgSeen /\ at \in Leaves
        /\ dev' = [dev EXCEPT ![at] = NoDev]
    BY <1>0, <1>2, <1>q DEF LeafStuck
  <2>2. dev[l].up /\ l # at
    BY <1>0, <2>1, DeviceTypes DEF DevType
  <2> QED
    BY <1>0, <1>a, <2>1, <2>2 DEF MemType
<1>3. CASE LeafWG
  <2>1. /\ dev' = [dev EXCEPT ![at] = IF dev[at].up THEN dev[at] ELSE NewDev] /\ at \in WG
        /\ keep' = keep \cup {at} /\ UNCHANGED memory /\ at \in Leaves
    BY <1>0, <1>3, <1>q DEF LeafWG
  <2>2. l = at \/ dev[l].up
    BY <1>0, <2>1 DEF DevType
  <2> QED
    BY <1>a, <2>1, <2>2 DEF memory
<1>4. CASE CleanupDone
  <2>1. /\ UNCHANGED <<dev, procs>> /\ wgSeen' = (keep \cap WG # {}) /\ \A k \in Doomed : ~dev[k].up
    BY <1>4, <1>q DEF CleanupDone, kernel
  <2>2. l \in WG => l \in keep
    BY <1>a, <2>1 DEF Doomed
  <2> QED
    BY <1>a, <2>1, <2>2
<1>15. CASE \E k \in Leaves : StopMKA(k)
  <2>1. PICK k \in Leaves : StopMKA(k)
    BY <1>15
  <2>2. /\ procs' = [procs EXCEPT ![k] = "none"] /\ dev' = [dev EXCEPT ![k] = NoDev]
        /\ UNCHANGED <<wgSeen, keep>>
    BY <1>q, <2>1 DEF StopMKA, pass
  <2>3. dev[l].up /\ l # k
    BY <1>0, <2>2, DeviceTypes DEF DevType
  <2> QED
    BY <1>0, <1>a, <2>2, <2>3 DEF MemType
<1>16. CASE \E k \in Leaves : CleanupPort(k)
  <2>1. PICK k \in Leaves : CleanupPort(k)
    BY <1>16
  <2>2. dev' = [dev EXCEPT ![k] = NoDev] /\ UNCHANGED <<procs, wgSeen, keep>>
    BY <2>1 DEF CleanupPort, pass, memory
  <2>3. dev[l].up
    BY <1>0, <2>2, DeviceTypes DEF DevType
  <2> QED
    BY <1>b, <2>2, <2>3
<1>5. CASE LeafMissing \/ LeafMACsecFails \/ Crash \/ Reboot
  BY <1>5, <1>q DEF LeafMissing, LeafMACsecFails
<1>6. CASE \E k \in Leaves : MKACreates(k)
  <2>1. PICK k \in Leaves : MKACreates(k)
    BY <1>6
  <2>2. /\ k \notin WG /\ procs[k] = "current" /\ dev' = [dev EXCEPT ![k] = NewDev]
        /\ UNCHANGED <<procs, wgSeen, keep>>
    BY <2>1 DEF MKACreates, memory, pass
  <2>3. l = k \/ dev[l].up
    BY <1>0, <2>2 DEF DevType
  <2> QED
    BY <1>a, <2>2, <2>3
<1>7. CASE \E k \in Leaves, c \in Settings : Configure(k, c)
  <2>1. dev[l].up /\ UNCHANGED <<wgSeen, keep>> /\ \E k \in Leaves : procs' = [procs EXCEPT ![k] = "other"] \/ procs' = procs
    BY <1>7 DEF Configure, kernel, pass
  <2> QED
    BY <1>0, <1>a, <2>1 DEF MemType
<1>8. CASE \E k \in Leaves : MKAExit(k)
  <2>1. dev[l].up /\ UNCHANGED <<wgSeen, keep>> /\ \E k \in Leaves : procs' = [procs EXCEPT ![k] = "other"]
    BY <1>8 DEF MKAExit, kernel, pass
  <2> QED
    BY <1>0, <1>a, <2>1 DEF MemType
<1>9. CASE \E k \in Leaves : TunnelUp(k) \/ TunnelDown(k)
  <2>1. PICK k \in Leaves : TunnelUp(k) \/ TunnelDown(k)
    BY <1>9
  <2>2. UNCHANGED <<procs, wgSeen, keep>> /\ \E b \in BOOLEAN : dev' = [dev EXCEPT ![k] = [dev[k] EXCEPT !.live = b]]
    BY <2>1 DEF TunnelUp, TunnelDown, memory, pass
  <2>3. dev[l].up
    BY <1>0, <2>2 DEF DevType, Devices
  <2> QED
    BY <1>b, <2>2, <2>3
<1>10. CASE BridgeRemove
  <2>1. UNCHANGED <<procs, wgSeen, keep>> /\ (UNCHANGED dev \/ dev' = [k \in Leaves |-> Unbridged(dev[k])])
    BY <1>10 DEF BridgeRemove
  <2>2. dev[l].up
    BY <1>0, <2>1, DeviceTypes DEF DevType
  <2> QED
    BY <1>b, <2>1, <2>2
<1>11. CASE PortJoin \/ PortIsolate \/ PortLeave
  <2>1. /\ at \in Leaves /\ UNCHANGED <<procs, wgSeen, keep>>
        /\ \/ UNCHANGED dev \/ dev' = [dev EXCEPT ![at] = Unbridged(dev[at])]
           \/ dev' = [dev EXCEPT ![at] = [dev[at] EXCEPT !.bridged = TRUE]]
           \/ dev' = [dev EXCEPT ![at] = [dev[at] EXCEPT !.isolated = dev[at].bridged]]
    BY <1>0, <1>11 DEF PortJoin, PortIsolate, PortLeave, memory, PlaceType
  <2>2. dev[l].up
    BY <1>0, <2>1, DeviceTypes DEF DevType, Devices
  <2> QED
    BY <1>b, <2>1, <2>2
<1>12. CASE LeafOff \/ LeafBegin \/ LeafRaise \/ PassLoad \/ LeavesDone \/ BridgeUp \/ PortKept \/ PortsDone
  <2>1. UNCHANGED <<dev, procs, wgSeen, keep>>
    BY <1>12 DEF LeafOff, LeafBegin, LeafRaise, PassLoad, LeavesDone, BridgeUp, PortKept, PortsDone, memory, kernel
  <2> QED
    BY <1>b, <2>1
<1>13. CASE RestoreDone
  <2>1. UNCHANGED <<dev, procs, wgSeen>> /\ keep = {}
    BY <1>0, <1>13 DEF RestoreDone, kernel, PassType, PassPhases
  <2> QED
    BY <1>b, <2>1
<1>14. CASE (\E p \in Parents : RestoreOne(p)) \/ Flush \/ Start \/ UNCHANGED vars
  <2>1. UNCHANGED <<dev, procs, wgSeen, keep>>
    BY <1>14 DEF RestoreOne, Flush, Start, vars, memory, kernel, pass
  <2> QED
    BY <1>b, <2>1
<1> QED
  BY <1>1, <1>2, <1>3, <1>4, <1>5, <1>6, <1>7, <1>8, <1>9, <1>10, <1>11, <1>12, <1>13, <1>14,
     <1>15, <1>16 DEF Next, PassStep

\* After stopAllMKA and cleanupMainWG a leaf that the pass found off has neither an
\* interface nor a participant, and none can make one before the next pass.
LEMMA GoneStep ==
  ASSUME TypeInv, GoneInv, [Next]_vars, Quiet',
         pc' \in {"bridge", "ports", "isolate", "restore"}, NEW l \in Leaves, ~rcfg'[l].on
  PROVE  ~dev'[l].up /\ procs'[l] = "none"
<1>0. PlaceType /\ PassType /\ MemType /\ DevType /\ LeftType
  BY DEF TypeInv
<1>q. Quiet /\ ~Fault /\ ~Crash /\ ~Reboot
  BY <1>0, QuietStep
<1>a. /\ RememberedInv
      /\ pc \in {"bridge", "ports", "isolate", "restore"} /\ ~rcfg[l].on => ~dev[l].up /\ procs[l] = "none"
  BY <1>q DEF GoneInv, Quiet
<1>b. ASSUME dev[l].up \/ procs[l] # "none", UNCHANGED rcfg
      PROVE  pc \notin {"bridge", "ports", "isolate", "restore"}
  BY <1>a, <1>b
<1>c. dev[l] = NoDev => Unbridged(dev[l]) = NoDev
  BY DeviceTypes
<1>d. dev[l] \in Devices /\ (~dev[l].up => dev[l] = NoDev) /\ dev \in [Leaves -> Devices]
  BY <1>0 DEF DevType
<1>1. CASE CleanupDone
  <2>1. UNCHANGED <<dev, procs, rcfg>> /\ pc = "cleanup" /\ \A k \in Doomed : ~dev[k].up
    BY <1>1, <1>q DEF CleanupDone, kernel
  <2>2. l \notin keep
    BY <2>1 DEF GoneInv, KeptOn
  <2>3. procs[l] = "none"
    BY <2>1, <2>2 DEF GoneInv, StoppedInv
  <2>4. dev[l].up => l \in Doomed
    BY <1>a, <2>2, <2>3 DEF RememberedInv, Doomed
  <2> QED
    BY <2>1, <2>3, <2>4
<1>2. CASE BridgeRemove
  <2>1. /\ pc = "bridge" /\ UNCHANGED <<rcfg, procs>>
        /\ UNCHANGED dev \/ dev' = [k \in Leaves |-> Unbridged(dev[k])]
    BY <1>2 DEF BridgeRemove
  <2> QED
    BY <1>a, <1>d, <2>1, DeviceTypes
<1>3. CASE PortJoin \/ PortIsolate \/ PortLeave
  <2>1. /\ pc \in {"ports", "isolate"} /\ at \in Leaves /\ UNCHANGED <<rcfg, procs>>
        /\ \/ UNCHANGED dev \/ dev' = [dev EXCEPT ![at] = Unbridged(dev[at])]
           \/ dev' = [dev EXCEPT ![at] = [dev[at] EXCEPT !.bridged = TRUE]]
           \/ dev' = [dev EXCEPT ![at] = [dev[at] EXCEPT !.isolated = dev[at].bridged]]
    BY <1>0, <1>3 DEF PortJoin, PortIsolate, PortLeave, memory, PlaceType
  <2>2. dev'[l].up = dev[l].up
    BY <1>d, <2>1, DeviceTypes DEF Devices
  <2> QED
    BY <1>a, <2>1, <2>2
<1>4. CASE BridgeUp \/ PortKept \/ PortsDone
  <2>1. pc \in {"bridge", "ports"} /\ UNCHANGED <<rcfg, procs, dev>>
    BY <1>4 DEF BridgeUp, PortKept, PortsDone, memory, kernel
  <2> QED
    BY <1>a, <2>1
<1>5. CASE \E k \in Leaves : MKACreates(k) \/ TunnelUp(k) \/ TunnelDown(k)
  <2>1. PICK k \in Leaves : MKACreates(k) \/ TunnelUp(k) \/ TunnelDown(k)
    BY <1>5
  <2>2. UNCHANGED <<procs, rcfg, pc>> /\ (procs[k] = "current" \/ dev[k].up)
    BY <1>0, <2>1, DeviceTypes DEF MKACreates, TunnelUp, TunnelDown, memory, pass, DevType
  <2>3. l # k
    BY <1>a, <2>2
  <2>4. dev'[l] = dev[l]
    BY <1>d, <2>1, <2>3 DEF MKACreates, TunnelUp, TunnelDown
  <2> QED
    BY <1>a, <2>2, <2>4
<1>6. CASE \E k \in Leaves, c \in Settings : Configure(k, c)
  <2>1. /\ UNCHANGED <<pc, rcfg, dev>>
        /\ procs' = procs \/ \E k \in Leaves : procs[k] = "current" /\ procs' = [procs EXCEPT ![k] = "other"]
    BY <1>6 DEF Configure, kernel, pass
  <2> QED
    BY <1>0, <1>a, <2>1 DEF MemType
<1>7. CASE \E k \in Leaves : MKAExit(k)
  <2>1. UNCHANGED <<pc, rcfg, dev>> /\ \E k \in Leaves : procs[k] = "current" /\ procs' = [procs EXCEPT ![k] = "other"]
    BY <1>7 DEF MKAExit, kernel, pass
  <2> QED
    BY <1>0, <1>a, <2>1 DEF MemType
<1>8. CASE (\E p \in Parents : RestoreOne(p)) \/ Flush \/ UNCHANGED vars
  <2>1. UNCHANGED <<pc, rcfg, dev, procs>>
    BY <1>8 DEF RestoreOne, Flush, vars, memory, kernel, pass
  <2> QED
    BY <1>a, <2>1
<1>11. CASE \E k \in Leaves : StopMKA(k) \/ CleanupPort(k)
  BY <1>11 DEF StopMKA, CleanupPort, pass
<1>9. CASE PassLoad \/ LeafOff \/ LeafMissing \/ LeafBegin \/ LeafRaise \/ LeavesDone \/ RestoreDone \/ Start
  BY <1>9 DEF LeavesDone, PassLoad, LeafOff, LeafMissing, LeafBegin, LeafRaise, NextLeaf, RestoreDone, Start
<1>10. CASE LeafMACsec \/ LeafMACsecFails \/ LeafStuck \/ LeafWG
  BY <1>10 DEF LeafMACsec, LeafMACsecFails, LeafStuck, LeafWG, NextLeaf
<1> QED
  BY <1>1, <1>2, <1>3, <1>4, <1>5, <1>6, <1>7, <1>8, <1>9, <1>10, <1>11, <1>q DEF Next, PassStep

\* While cleanupMainWG is at work no participant is started.
LEMMA StoppedKept ==
  ASSUME TypeInv, StoppedInv, [Next]_vars
  PROVE  StoppedInv'
<1> SUFFICES ASSUME pc' = "cleanup" PROVE \A l \in Leaves \ keep' : procs'[l] = "none"
  BY DEF StoppedInv
<1>0. MemType
  BY DEF TypeInv
<1>1. CASE LeavesDone
  BY <1>1 DEF LeavesDone, memory
<1>2. ASSUME pc = "cleanup", UNCHANGED keep,
             \/ UNCHANGED procs
             \/ \E k \in Leaves : procs[k] = "current" /\ procs' = [procs EXCEPT ![k] = "other"]
      PROVE  \A l \in Leaves \ keep' : procs'[l] = "none"
  BY <1>0, <1>2 DEF StoppedInv, MemType
<1>3. CASE \E l \in Leaves, c \in Settings : Configure(l, c)
  BY <1>2, <1>3 DEF Configure, pass
<1>4. CASE \E l \in Leaves : MKAExit(l)
  BY <1>2, <1>4 DEF MKAExit, pass
<1>5. CASE \E l \in Leaves : MKACreates(l) \/ TunnelUp(l) \/ TunnelDown(l) \/ CleanupPort(l)
  BY <1>2, <1>5 DEF MKACreates, TunnelUp, TunnelDown, CleanupPort, pass, memory
<1>6. CASE Flush \/ UNCHANGED vars
  BY <1>2, <1>6 DEF Flush, vars, pass, memory
<1>7. CASE Crash \/ Reboot \/ Start
  BY <1>7 DEF Crash, Reboot, Start, ProcessLost
<1>8. CASE PassStep /\ ~LeavesDone /\ ~\E l \in Leaves : CleanupPort(l)
  BY <1>8 DEF PassStep, PassLoad, LeafOff, LeafMissing, LeafBegin, LeafRaise, LeafMACsec, LeafMACsecFails,
     LeafStuck, LeafWG, StopMKA, CleanupDone, BridgeRemove, BridgeUp, PortJoin, PortIsolate, PortLeave,
     PortKept, PortsDone, RestoreOne, RestoreDone, NextLeaf, NextPort, pass
<1> QED
  BY <1>1, <1>3, <1>4, <1>5, <1>6, <1>7, <1>8 DEF Next

LEMMA GoneKept ==
  ASSUME TypeInv, GoneInv, [Next]_vars
  PROVE  GoneInv'
<1>1. KeptOn' /\ StoppedInv'
  BY KeptOnStep, StoppedKept DEF GoneInv
<1>2. ASSUME Quiet' PROVE RememberedInv'
  <2>1. LeftType
    BY DEF TypeInv
  <2>2. RememberedInv
    BY <1>2, <2>1, QuietStep DEF GoneInv, Quiet
  <2> QED
    BY <1>2, <2>2, TunnelStep
<1>3. ASSUME Quiet', pc' \in {"bridge", "ports", "isolate", "restore"}, NEW l \in Leaves, ~rcfg'[l].on
      PROVE  ~dev'[l].up /\ procs'[l] = "none"
  BY <1>3, GoneStep
<1> QED
  BY <1>1, <1>2, <1>3 DEF GoneInv, Quiet

\* A leaf that the pass found off, removed or disabled, has no tunnel left when
\* stopAllMKA and cleanupMainWG are through, unless the plugin died or calls failed.
THEOREM RemovedStaysGone == Spec => []RemovedIsGone
<1>1. Init => TypeInv /\ GoneInv
  BY InitTypes, DeviceTypes DEF Init, GoneInv, KeptOn, StoppedInv, RememberedInv
<1>2. TypeInv /\ GoneInv /\ [Next]_vars => (TypeInv /\ GoneInv)'
  BY TypesKept, GoneKept
<1>3. TypeInv /\ GoneInv => RemovedIsGone
  BY DEF GoneInv, RemovedIsGone
<1> QED
  BY <1>1, <1>2, <1>3, PTL DEF Spec

-----------------------------------------------------------------------------
(* The MTU of a raised interface is on disk.                               *)

LEMMA OriginalStays ==
  ASSUME TypeInv, OriginalInv, [Next]_vars
  PROVE  OriginalInv'
<1> SUFFICES ASSUME Never("fault")'
             PROVE  /\ \A p \in Parents : orig'[p] \in {0, BaseMTU} /\ file'[p] \in {0, BaseMTU}
                    /\ \A p \in Parents : mtu'[p] # BaseMTU => file'[p] = BaseMTU
                    /\ pc' \notin {"idle", "down"} => loaded'
                    /\ loaded' => \A p \in Parents : orig'[p] = file'[p] \/ SetBack(p)'
                    /\ pc' = "raise" => file'[Here'] = BaseMTU
  BY DEF OriginalInv
<1>0. PlaceType /\ MTUType /\ LeftType /\ (pc \in {"raise", "tunnel"} => at \in Leaves)
  BY DEF TypeInv, PlaceType
<1>1. Never("fault") /\ ~Fault
  BY <1>0, NeverBefore DEF Events
<1>2. /\ \A p \in Parents : orig[p] \in {0, BaseMTU} /\ file[p] \in {0, BaseMTU}
      /\ \A p \in Parents : mtu[p] # BaseMTU => file[p] = BaseMTU
      /\ pc \notin {"idle", "down"} => loaded
      /\ loaded => \A p \in Parents : orig[p] = file[p] \/ SetBack(p)
      /\ pc = "raise" => file[Here] = BaseMTU
  BY <1>1 DEF OriginalInv
<1>3. BaseMTU \in Nat \ {0}
  BY MTUAssumption
<1> DEFINE Kept == /\ \A p \in Parents : orig'[p] \in {0, BaseMTU} /\ file'[p] \in {0, BaseMTU}
                   /\ \A p \in Parents : mtu'[p] # BaseMTU => file'[p] = BaseMTU
                   /\ pc' \notin {"idle", "down"} => loaded'
                   /\ loaded' => \A p \in Parents : orig'[p] = file'[p] \/ SetBack(p)'
                   /\ pc' = "raise" => file'[Here'] = BaseMTU
<1>a. ASSUME UNCHANGED <<orig, file, mtu, loaded>>, pc' # "raise",
             pc' \in {"idle", "down"} <=> pc \in {"idle", "down"}, pc # "restore" \/ pc' = "restore"
      PROVE  Kept
  BY <1>2, <1>a DEF SetBack
<1>b. ASSUME UNCHANGED <<orig, file, mtu, loaded, pc, at>>
      PROVE  Kept
  BY <1>2, <1>b DEF SetBack, Here
<1>4. CASE PassLoad
  BY <1>2, <1>4 DEF PassLoad, kernel, SetBack
<1>5. CASE LeafBegin
  <2>1. /\ loaded /\ UNCHANGED <<mtu, loaded, at>> /\ Here \in Parents /\ pc = "leaves"
        /\ pc' \in {"raise", "tunnel"} /\ Here' = Here
    BY <1>2, <1>5, LeafAssumption DEF LeafBegin, kernel, Here
  <2>2. \A p \in Parents : orig[p] = file[p]
    BY <1>2, <2>1 DEF SetBack
  <2>3. CASE pc' = "raise" /\ orig[Here] = 0
    <3>1. orig' = [orig EXCEPT ![Here] = mtu[Here]] /\ file' = orig'
      BY <1>5, <2>1, <2>3 DEF LeafBegin
    <3>2. mtu[Here] = BaseMTU
      BY <1>2, <1>3, <2>1, <2>2, <2>3
    <3>3. orig'[Here] = BaseMTU /\ \A p \in Parents \ {Here} : orig'[p] = orig[p]
      BY <1>0, <2>1, <3>1, <3>2 DEF MTUType
    <3> QED
      BY <1>2, <2>1, <2>2, <2>3, <3>1, <3>3
  <2>4. CASE ~(pc' = "raise" /\ orig[Here] = 0)
    <3>1. UNCHANGED <<orig, file>>
      BY <1>5, <2>1, <2>4 DEF LeafBegin
    <3>2. pc' = "raise" => file[Here] = BaseMTU
      BY <1>2, <2>1, <2>2, <2>4
    <3> QED
      BY <1>2, <2>1, <2>2, <3>1, <3>2
  <2> QED
    BY <2>3, <2>4
<1>6. CASE LeafRaise
  <2>1. /\ mtu' = [mtu EXCEPT ![Here] = Target] /\ UNCHANGED <<orig, file, loaded>> /\ pc' = "tunnel"
        /\ pc = "raise" /\ file[Here] = BaseMTU
    BY <1>1, <1>2, <1>6 DEF LeafRaise, memory
  <2>2. \A p \in Parents : mtu'[p] = mtu[p] \/ file[p] = BaseMTU
    BY <1>0, <2>1 DEF MTUType
  <2>3. \A p \in Parents : orig[p] = file[p]
    BY <1>2, <2>1 DEF SetBack
  <2> QED
    BY <1>2, <2>1, <2>2, <2>3
<1>7. CASE \E p \in Parents : RestoreOne(p)
  <2>1. PICK q \in Parents : RestoreOne(q)
    BY <1>7
  <2>2. /\ pc = "restore" /\ orig[q] # 0 /\ mtu' = [mtu EXCEPT ![q] = orig[q]] /\ orig' = [orig EXCEPT ![q] = 0]
        /\ UNCHANGED <<file, loaded, pc>>
    BY <1>1, <2>1 DEF RestoreOne, Unused, pass
  <2>3. orig[q] = BaseMTU
    BY <1>2, <2>2
  <2>4. mtu'[q] = BaseMTU /\ orig'[q] = 0 /\ \A p \in Parents \ {q} : mtu'[p] = mtu[p] /\ orig'[p] = orig[p]
    BY <1>0, <2>2, <2>3 DEF MTUType
  <2>5. SetBack(q)' /\ \A p \in Parents \ {q} : SetBack(p) => SetBack(p)'
    BY <2>2, <2>4 DEF SetBack
  <2> QED
    BY <1>2, <2>2, <2>4, <2>5
<1>8. CASE RestoreDone
  <2>1. file' = orig /\ UNCHANGED <<orig, mtu, loaded>> /\ pc' = "idle" /\ loaded
    BY <1>2, <1>8 DEF RestoreDone, kernel
  <2>2. \A p \in Parents : mtu[p] # BaseMTU => orig[p] = BaseMTU
    BY <1>2, <2>1 DEF SetBack
  <2> QED
    BY <1>2, <2>1, <2>2
<1>9. CASE Crash \/ Reboot
  <2>1. pc' = "down" /\ loaded' = FALSE /\ orig' = NoMTU /\ UNCHANGED file /\ (UNCHANGED mtu \/ mtu' = [p \in Parents |-> BaseMTU])
    BY <1>9 DEF Crash, Reboot, ProcessLost, kernel
  <2> QED
    BY <1>2, <2>1, OtherTypes
<1>10. CASE LeafOff \/ LeafMissing \/ LeafMACsec \/ LeafMACsecFails \/ LeafStuck \/ LeafWG
            \/ LeavesDone \/ CleanupDone
  <2>1. UNCHANGED <<orig, file, mtu, loaded>> /\ pc \in PassPhases /\ pc' \in {"leaves", "cleanup", "bridge"}
    BY <1>10 DEF LeafOff, LeafMissing, LeafMACsec, LeafMACsecFails, LeafStuck, LeafWG, LeavesDone, CleanupDone, NextLeaf,
       PassPhases, memory, kernel
  <2> QED
    BY <1>a, <2>1 DEF PassPhases
<1>11. CASE BridgeRemove \/ BridgeUp \/ PortJoin \/ PortIsolate \/ PortLeave \/ PortKept \/ PortsDone
  <2>1. UNCHANGED <<orig, file, mtu, loaded>> /\ pc \in {"bridge", "ports", "isolate"} /\ pc' \in {"ports", "isolate", "restore"}
    BY <1>11 DEF BridgeRemove, BridgeUp, PortJoin, PortIsolate, PortLeave, PortKept, PortsDone, NextPort, memory, kernel
  <2> QED
    BY <1>a, <2>1
<1>12. CASE (\E l \in Leaves, c \in Settings : Configure(l, c)) \/ Flush \/ UNCHANGED vars
  BY <1>b, <1>12 DEF Configure, Flush, vars, pass, memory, kernel
<1>13. CASE \E l \in Leaves : MKAExit(l) \/ MKACreates(l) \/ TunnelUp(l) \/ TunnelDown(l) \/ StopMKA(l) \/ CleanupPort(l)
  BY <1>b, <1>13 DEF MKAExit, MKACreates, TunnelUp, TunnelDown, StopMKA, CleanupPort, pass, memory, kernel
<1>14. CASE Start
  BY <1>a, <1>14 DEF Start, memory, kernel
<1> QED
  BY <1>4, <1>5, <1>6, <1>7, <1>8, <1>9, <1>10, <1>11, <1>12, <1>13, <1>14 DEF Next, PassStep

\* What an interface had before it was raised is on disk until it has been set back,
\* across crashes and reboots, as long as no call fails.
THEOREM OriginalMTUKept == Spec => []OriginalKept
<1>1. Init => TypeInv /\ OriginalInv
  BY InitTypes, OtherTypes DEF Init, OriginalInv
<1>2. TypeInv /\ OriginalInv /\ [Next]_vars => (TypeInv /\ OriginalInv)'
  BY TypesKept, OriginalStays
<1>3. TypeInv /\ OriginalInv => OriginalKept
  BY DEF OriginalInv, OriginalKept
<1> QED
  BY <1>1, <1>2, <1>3, PTL DEF Spec

=============================================================================
