# A TLA+ model of the SPR mesh extension

This directory holds a formal model of the mesh plugin: TLA+ modules translated
from the Go code (and from `mesh_rules.sh`), TLC configurations that check them on
small instances, and proofs that TLAPS checks for every instance. Paths below are
relative to the repository. `PROJECT.json` maps every definition to the source
lines it stands for.

## 1. The system

A *main router* serves *leaf routers* (mesh nodes). The backhaul between them may
be plaintext, MACsec (MKA run by `wpa_supplicant`) or WireGuard with a VXLAN
inside. One Go program runs on both kinds of node.

### Components

| Component | Source | State it keeps | Operations |
|---|---|---|---|
| Leaf side of the backhaul | `code/macsec_runtime.go`, `code/backhaul_wg.go` | saved association (`LeafMACsec`: enabled, confirmed, nonce, EnabledAt), flag file, `leafActive`, `procs`, `wgApplied`, `noEgress`; in the kernel: uplink's bridge, tunnel, guard table | `reconcile` → `reconcileLeaf`, `confirmOrRevert`, `teardownLeaf` |
| Peer handler on the leaf | `code/macsec_api.go` (`macsecPeer`) | the saved association | enable, update, disable |
| Control frames | `code/macsec_ctl.go` | `leafCtl` keys, `ctlOffAt` | `handleLeafCtl`, `ctlKeys`, `disableOverWire` |
| Boot script | `mesh_rules.sh` | reads the flag, builds br0 and the boot guard | one run per start of the base container |
| Leaf mode | `code/mesh.go` | marker file | `leafMode` |
| Backhaul changes | `code/macsec_api.go` | `LeafRouters[].MACsec`, ports, nonces; `macsecChangeMtx` | `macsecSetLeaf`, `macsecSetJumbo`, `macsecTestMTU`, `pushLeafUpdate`, `retryPendingMACsec` |
| Leaf registry | `code/mesh.go` | `LeafRouters`; `Configmtx` | `leafRouter` PUT and DELETE, `chainTrustForNodeTLS` |
| Main side of the backhaul | `code/macsec_runtime.go` | `procs`, `wgSeen`, `origMTU` and its file, `mtuInUse` | `reconcileMain`, `ensureMKA`, `stopAllMKA`, `restoreUnusedMTU` |
| Mesh bridge | `code/mesh_bridge.go` | `bridgeGone`, `bridgeGuard`; mshbr0, ports, guard table | `reconcileMeshBridge`, `removeMeshBridge` |
| Packet sizes | `code/macsec_api.go`, `code/macsec_ctl.go`, `code/macsec_runtime.go` | `LinkMTU`, `UnderlayMTU`, `Jumbo` at both ends; `mtuTesting`, `mtuRaised`, `mssMTU`; MTUs in the kernel | `testUnderlayMTU`, `probeFrame`, `jumboTestDue`, `maybeTestMTU`, `applyLinkMTU`, `applyMSSClamp` |
| Station events | `code/mesh.go` | the nftables map `bridge_access`; ports of br0 | `wifiConnect`, `wifiDisconnect`, `updateBridgeAccess`, `callParentAPI` |
| Neighbour reports | `code/mesh_neighbors.go` | neighbour lists of the access points, `neighbors.json` | `syncMeshNeighbors`, `meshApplyNeighbors` |
| Synchronisation, credentials, OTP, certificates, polls | `code/mesh.go` and others | configuration files | single calls |
| Primitives | `code/macsec.go` and others | none | key derivation, rendering, parsing, MTU arithmetic |

### How the parts interact

* The main router's handlers call `macsecPeer` of a leaf over HTTPS, authenticated
  by the pairing token. If a disable does not get through, signed control frames
  are repeated on the raw link.
* Handlers only write the configuration; the *manager goroutine* reads it in each
  pass and changes the kernel accordingly. `Configmtx` is taken to read the
  configuration and to save it, never across a whole pass or a whole change;
  `macsecChangeMtx` serialises the changes of the backhaul, but not those of the
  list of leaves.
* The flag file is how the plugin tells `mesh_rules.sh` that the raw uplink must
  not join br0.

### What is hard

* A pass and a change work on copies; the configuration, the role and the list of
  leaves change underneath. `macsecPeer` looks at the role first and saves after its
  probes, without a lock, also when nobody waits for it any more.
* A leaf cuts itself off if it encrypts and the main router does not. Hence the
  trial (`ApplyDelay`, `ConfirmTimeout`) and the revert; but once confirmed it has
  to fail closed, through crashes, reboots and failed calls.
* Requests, replies and frames are lost or arrive late; the same nonce may be sent
  again.
* Station reports are handled by concurrent requests that share the nftables map
  without a lock, and are published by goroutines that are not ordered.
* Neighbour lists are collected from nodes some of which do not answer, applied by
  commands some of which fail, and may outlive the call that sent them.
* A packet size is computed at one end, limited at the other, measured with frames
  that get lost, and applied by two managers in their own time.
* Kernel state (interfaces, bridge ports, MTUs, tables) outlives the process that has
  to clean it up.

The complete list is under `hazards` in `PROJECT.json`, each at its line and with
the properties that cover it.

### What makes each component correct

* Leaf: a confirmed uplink is never in br0 in plaintext; no key inherits the proof
  of another; an obeyed disable is final; every trial ends; the kernel follows the
  configuration in both directions.
* Changes and registry: distinct ports; a reply is saved at the leaf that gave it;
  both ends agree; no leaf is left encrypting alone; pending requests are carried
  out.
* Main side and bridge: ports in mshbr0 are pinned and isolated; tunnels of removed
  leaves go; MTUs are set back to what they were; links that are up are in the
  bridge, links that are down are not.
* Packet sizes: a measurement never exceeds what gets through; what both ends have
  applied fits the wire; a link with jumbo frames is measured in the end.
* Station events: an address passes only on an isolated port, on one interface, and
  after the last report the map is what the reports say.
* Neighbour reports: what is set is on record, a node that fails does not cost others
  theirs, and the tables converge.

## 2. Modules

| Module | Contents |
|---|---|
| `Association` | what a leaf promises about its uplink, without the means (abstract specification) |
| `LeafUplink` | a leaf: manager, peer handler, leaf mode, control listener, `mesh_rules.sh`, the main router reduced to its change and the nonce it has saved; implements `Association` |
| `LeafUplinkProofs` | theorems about `LeafUplink` |
| `AssociationProofs` | the proof that `LeafUplink` implements `Association` |
| `BackhaulChange` | the main router's handlers, registry and retry loop; a leaf reduced to what `macsecPeer` saves |
| `BackhaulChangeProofs` | theorems about `BackhaulChange` |
| `MainLinks` | the main router's pass over links, bridge and MTUs; a change reduced to the new setting |
| `MainLinksProofs` | theorems about `MainLinks` |
| `LinkMTU` | packet sizes of one link: changes, measurements, both ends' settings and interfaces |
| `LinkMTUProofs` | theorems about `LinkMTU` |
| `StationAccess` | stations of a node: the handlers, br0, `bridge_access`, the events published |
| `StationAccessProofs` | theorems about `StationAccess` |
| `NeighborSync` | rounds of the main router, the apply of each node, `setSSID` |
| `NeighborSyncProofs` | theorems about `NeighborSync` |
| `MC...` | instances for TLC, one per model |

The models meet where the code does. `BackhaulChange` and `LeafUplink` share
`macsecPeer` (`Accepts`/`Releases` on one side, `MainEnable` to `MainSave` on the
other); `LinkMTU` refines the payload of the calls `BackhaulChange` makes (`TuneCall`
there is `Push` here) for a list of leaves that does not change; `MainLinks` takes from
`BackhaulChange` only that a leaf's setting changes (`Configure`). `StationAccess` and
`NeighborSync` share nothing with the backhaul but the list of leaves and the role.

Operators whose comment begins with "Mutant:" are not part of a model. Each one is
a plausible bug of the definition that follows it; put in its place, it violates
the property named in `PROJECT.json`.

### LeafUplink

| Variables | Code |
|---|---|
| `leafMode`, `cfg`, `flag` | marker file, `config.LeafMACsec`, `mesh_macsec_required` |
| `pc`, `rcfg`, `secured`, `after` | locals of a pass and where it is; `pc = "down"`: no process |
| `leafActive`, `mka`, `wgApplied`, `noEgress` | fields of the manager |
| `ctlKey`, `ctlOff`, `hkey`, `hfirst` | `leafCtl`, `ctlOffAt`, the frame being handled and `first` |
| `wan`, `br0`, `tun`, `rest`, `guard` | the kernel; `rest`: a tunnel of the other kind that could not be removed |
| `spc`, `sreq` | the script and its `MACSEC_REQUIRED` |
| `mainKey`, `mpc`, `req`, `used` | the main router: what it has saved, its change under `macsecChangeMtx` |
| `late`, `wire` | `macsecPeer` handlers whose call was given up; disable frames on the way |
| `met`, `obeyed`, `stray`, `inherits`, `lapse` | history, read by properties only |

A pass goes `PassLoad`, `LeafActivate` (or `LeafWait`, or `LeafDisabled`),
`PassGuard`, `PassUnbridge`, `EnsureMACsec` (`EnsureMACsecOverOld` when the old secY
cannot be deleted) or `EnsureWG`, `JoinLive` or `JoinDown`, and then `Confirm`, `ConfirmNothing` or `Revert`. A teardown is
`TdTunnel`, `TdGuard`, `TdRejoin`, `TdFlag`. `MainRole`, `MainStat` and `MainClear`
are what `reconcileMain` does with leftovers of the leaf role. A pass is cut where
the kernel, a file or another actor's state changes, so that a crash, a handler or
the script can come in between. Keys, ports and public keys are determined by the
nonce. Times are ages that stop at the largest value the code tells apart.

A change of the main router goes through `mpc`: `MainEnable` or `MainDisable` is
`macsecPeer` getting past its check of the role ("asks"), `PeerEnable` or `PeerDisable`
its save ("told"), `MainSave` the main router's. In between leaf mode may change, the
plugin may die, and the client may give up (`CallLost`): then the handler goes on and
saves at any later time (`LateEnable`, `LateDisable`), while the main router goes on with
its next change. A disable that got no answer, or was refused, is repeated on the wire
("waits"); only at the end of that wait (`WireDone`) does the main router forget the
nonce. `MainCrash` is the end of its process during a disable: it restarts with the nonce
still saved and may send it again.

Two sets record what follows from that, and the two properties concerned exempt them.
`stray`: nonces asked for in a call that was given up while `macsecPeer` was at work, or
whose disable the main router did not live to save; the leaf may run them again after it
obeyed a frame. `inherits`: nonces whose participant was started although `deleteSecY`
had failed; the old secY passes for theirs.

`lapse` records the three situations in which the code does *not* keep the raw
uplink out of br0 although the association is confirmed, until the next pass that
unbridges the uplink clears it: the script acts on a flag that was set after it
read it; leaf mode changes, or the plugin dies, while a pass undoes the
association because leaf mode was off; a tunnel could not be removed. `FailClosed`,
`NoBypass` and `ConfirmedIsFlagged` hold outside a lapse, and the run
`leaf_mode_flip` shows one of the lapses.

### Association

`Association` has ten variables: the role, the stage of the association (off, on
trial, confirmed) and its key, whether the raw uplink is in the bridge, the requests
accepted and carried out, the key the main router holds, the frames it has signed and the
keys they have retired, and whether the promise is suspended. Passes, tunnels, guards, flag, crashes and the script are absent. The
refinement mapping stands at the end of `LeafUplink`:

| `Association` | `LeafUplink` |
|---|---|
| `role` | `leafMode` |
| `stage`, `key` | from `cfg.enabled` and `cfg.confirmed`; `cfg.nonce` |
| `door` | `"open"` when `wan = "br0"` |
| `asked`, `answered` | `req` while `mpc = "asks"`, and `late`; `req` while `mpc = "told"` |
| `held`, `signed`, `retired` | `mainKey`; `wire` and `hkey`; `obeyed` |
| `excused` | `lapse` |

It says which steps an association may take at all, which no invariant does: it is
enabled on trial only, at a request that was accepted in the role of a leaf (though it may
be carried out after the role has changed, as in the code); a request for a retired key is
accepted only if the main router still holds it; a confirmed association is never taken
back by a timeout, and only the main router's word or leaving leaf mode ends it.

### BackhaulChange

| Variables | Code |
|---|---|
| `leaves` | `config.LeafRouters` with `MACsec` and `MACsecPending` |
| `lock`, `job` | `macsecChangeMtx`, the locals of each request |
| `queue` | the copy of the list in `retryPendingMACsec` |
| `node`, `paired` | each leaf's saved association and own token |
| `nonces` | nonces that have reached a leaf, numbered |

A change is `SetBegin` (first `Configmtx` section), `EnableCall` or `DisableCall`
(the network), `SetSave` (second section); a tuning is `TuneBegin`, `TuneCall`,
`TuneSave`; a deletion is `DeleteBegin`, `DeleteRelease`, `DeleteRemove`. A call is
answered, refused because of the token, or lost on the way there or back.
`macsecChangeMtx` is `lock`; a request that finds it taken has not begun, which is
the same to everyone else.

### MainLinks

| Variables | Code |
|---|---|
| `saved`, `rcfg` | the setting of each leaf as saved, and the pass's copy |
| `pc`, `at`, `keep`, `list`, `members`, `secured`, `guarded` | the pass: which leaf, `desired`/`wgPeers`/`wgVX`, the one listing of secYs, the statuses |
| `procs`, `wgSeen`, `bridgeGone`, `guardKnown`, `loaded`, `orig`, `inUse` | fields of the manager |
| `file`, `mtu`, `dev`, `bridge`, `guard` | `macsec_mtu.json` and the kernel |

A pass takes the leaves in turn (`LeafOff`, `LeafMissing`, `LeafBegin`,
`LeafRaise`, then `LeafMACsec`, `LeafMACsecFails`, `LeafStuck` or `LeafWG`), removes
what it does not keep one by one (`StopMKA`, `LeavesDone`, then `CleanupPort`,
`CleanupDone` for WireGuard), brings the bridge up or down (`BridgeUp`,
`BridgeRemove`), moves the ports (`PortJoin`, `PortIsolate`, `PortLeave`,
`PortKept`) and sets MTUs back (`RestoreOne`, `RestoreDone`).

### LinkMTU

| Variables | Code |
|---|---|
| `mode`, `max`, `refuses`, `nic`, `path` | the association's mode, `MaxMTU`, what the drivers accept, the MTU of both interfaces, the wire |
| `conf` | `Jumbo`, `UnderlayMTU`, `LinkMTU` as saved at each end |
| `dev`, `mss`, `settled`, `testing` | MTU of secY or VXLAN port, `mssMTU`, `mtuRaised` older than `meshJumboSettle`, `mtuTesting` |
| `chg` | the change that holds `macsecChangeMtx`, with the locals of `testUnderlayMTU` |
| `late` | settings `macsecPeer` is still to save for calls that were given up |
| `guess`, `stale`, `moved`, `noise` | history, read by properties only |

`SetJumbo`, `EnableAgain` and `TestMTU` begin a change, `ProbeAnswered` and
`ProbeFails` are its probes, `Push` is the call to the leaf (`Peer` is what
`macsecPeer` makes of it) and the save; a leaf that takes longer than its caller waits saves
in `PeerLate`, after whatever has been sent since. `Reconcile` is a pass of either manager. The
constants and the arithmetic are the code's.

### StationAccess

| Variables | Code |
|---|---|
| `assoc`, `ghosts`, `reports` | hostapd: who is associated where, what it has not noticed yet, its events in order |
| `port`, `access` | br0 and the nftables map |
| `hand` | the request handlers: which command is next, `existingSet` |
| `leaf`, `creds` | leaf mode, parent credentials |
| `flight`, `parent` | goroutines of `callParentAPI`, the main router's picture |
| `fresh`, `lapse`, `missed` | history, read by properties only |

A connect goes `Handle`, `Join`, `Isolate`, `ReadMap`, `DeleteElement` for each element it
found, `DeletesDone`, `AddElement`; a disconnect the same without `Join`, `Isolate` and
`AddElement`. Each of these is one command, and each may fail on its own. `Publish` takes any of the events
under way, as the goroutines are not ordered.

### NeighborSync

| Variables | Code |
|---|---|
| `net`, `table` | hostapd of each access point: what it runs, the neighbours it has been given |
| `file`, `job` | `neighbors.json` and the `meshApplyNeighbors` of each node |
| `round`, `put` | `syncMeshNeighbors`, its PUT requests |
| `leaves`, `rename` | `LeafRouters`, the running `setSSID` handlers |
| `orphan` | history: neighbours set by an apply that ended before its save |

A round goes `RoundStart`, `Asked` or `AskFails` per leaf, `RoundApply`, `RoundSend`,
`RoundEnd`; an apply goes, for one access point after the other, `ApplySet` per neighbour, `ApplyRemove`
per obsolete one and `ApplyNext`, then `ApplySave`; or it ends with `ApplyFails` or
`ApplySaveFails`. `SetSSID` begins a rename, `SetSSIDCall` is its call for one access point;
several renames may overlap. A call the client has given up on (`PutLate`) goes
on at the other end.

## 3. What is checked

### Runs that pass

| Run | Instance | Properties |
|---|---|---|
| `leaf_races` | two MACsec and one WireGuard association; any four of: two enables, a call given up or the main router's process lost, a disable on the wire, two leaf mode changes | `TypeOK`, `FailClosed`, `ConfirmedIsFlagged`, `MACsecKeyProven`, `ObeyedDisableIsFinal`, `RevertAfterWindow`, `ImplementsAssociation` |
| `leaf_failures` | one association of each kind; any three of: an enable, a disable, a call given up or the main router's process lost, a failed system call, a participant's exit, a crash, a restart of the router or base container | `FailClosed`, `NoBypass`, and under fairness `SettlesClosed`, `SettlesOpen`, `ImplementsAssociationFairly` (with it: no association stays on trial) |
| `change` | two leaves and two ports, one of them for WireGuard; three tokens, two requests at a time and the retry loop; two registrations, a deletion, two changes, a tuning, a leaf paired again | `TypeOK`, `DistinctPorts`, `OwnReply`, `Agree`, `NoOrphan` |
| `pending` | one leaf, three ports; the same events with a lost call and a crash as well | under fairness `PendingCompletes` |
| `main_links` | two MACsec leaves and a WireGuard leaf on one parent; two changes, a failed call, an exit or a flush, a crash or reboot | `TypeOK`, `BridgedIsPinned`, `PortsIsolated`, `RemovedIsGone`, `OriginalKept` |
| `main_settles` | two MACsec leaves; two changes, a failed call, a crash or reboot | under fairness `MTURestored`, `SecuredJoins`, `InsecureLeaves` |
| `mtu` | both modes; interfaces that cannot carry more than 1500, up to 1600, or do not say (and then accept or refuse 9000); wires of 1516 and 9000; two changes, a call or probe that is lost or a setting saved late, another wire | `TypeOK`, `SearchSound`, `Carries`, `ClampFits`, and under fairness `GetsMeasured` |
| `stations` | two stations, two interfaces, two requests at a time; three associations, or two and any two of: a failed command, a lost event, leaf mode, credentials | `TypeOK`, `OneGrant`, `GrantedIsIsolated`, `AccessFollows`, `ParentFollows` |
| `neighbors` | a main router and two leaves with an access point each; two events of different kinds: an access point changes, a leaf is removed or added, a new SSID, a hostapd command or the save fails or an interface does not answer, a lost call, a late one, a crash (a new SSID not with a changing access point or a crash); or two new SSIDs | `TypeOK`, `Tracked`, `KeepsNeighbours`, and under fairness `Converges` |

Each property is stated in words above its definition. Some say less than one
might expect, because the code promises less:

* `ObeyedDisableIsFinal` exempts the keys in `stray`, `MACsecKeyProven` those in `inherits`
  (section 2, `LeafUplink`). In the first case the code does bring back, on trial, an
  association the listener has switched off: a `macsecPeer` past its check of the role
  saves whatever has happened since, and a main router that dies before it has forgotten
  a nonce sends it again. In the second it confirms an association on the secY of the one
  before, because `reconcileLeaf` takes the first secY with its SCI.
* `RevertAfterWindow` exempts with a lost reply: `confirmOrRevert`
  compares nonces and not `EnabledAt`, so that a nonce sent again during the pass
  can be taken back early.
* `SettlesOpen` exempts failed calls and further runs of the script: a teardown
  step that fails is logged and not tried again.
* `PortsIsolated` and `RemovedIsGone` exempt crashes and failed calls, `OriginalKept`
  and `MTURestored` failed calls: `SecuredJoins` and `InsecureLeaves` are the properties
  that hold after them too. `BridgedIsPinned` exempts somebody else flushing the
  rules until the next pass, and a pass that could not load its guard and then could not
  take a port out of mshbr0 either (two failed calls): such a port stays there without a
  pin until the next pass. For each there is a hazard in the list, without the property
  that exempts it.
* `OneGrant` and `AccessFollows` exempt what `lapse` records: requests about the same
  station or interface that overlap, a failed command, a report while leaf mode is
  off, and a disconnect that is handled after the station's next connect
  (`updateBridgeAccess` deletes by address *or* interface). `GrantedIsIsolated` has no
  such exception; it speaks of the present instance of an interface.
* `ParentFollows` exempts events that were dropped, lost, or overtook another one.
* `Tracked` and `Converges` exempt neighbours set by an apply that ended before its
  save, and those whose `REMOVE_NEIGHBOR` failed (`orphan`): one that is gone from the list before the next apply stays in
  hostapd until it restarts.
* `Carries` exempts a wire replaced since it was measured, ends that disagree about
  jumbo frames (after a lost reply), a setting the leaf saved after the call was given up
  (until the next call that gets through), and a MACsec link with jumbo frames on which an end
  holds a size that was not measured: `pushLeafUpdate` saves its own `LinkMTU` and ignores
  the leaf's reply, and measurements are started automatically for WireGuard links only.
  That includes a link that was measured and then enabled once more with the reply lost:
  the main router keeps the measured size, the leaf has saved the larger one of its
  interface, and a wire that carries less drops its full packets until the next measurement.
* `SearchSound` limits the result by what the interfaces can be raised to if a probe
  was lost or an interface changed during the search. A test that ran before the leaf
  raised its interface finds 1500, and that stands until somebody tests again or
  switches jumbo frames.
* `Agree` and `NoOrphan` exempt lost calls and crashes; `NoOrphan` also deletions
  (see `change_delete`).

### Runs that show a disagreement

Each checks one statement of a test or a comment, which TLC finds violated.

| Run | Statement | What the code does |
|---|---|---|
| `leaf_rekey_wg` | `KeyProven`: a new key does not inherit a confirmation (`code/macsec_api_test.go`) | `applyOnce` compares the path of the preshared key file, so that after a disable and an enable seen as one change the WireGuard peer keeps the old key and handshake, and the new association is confirmed |
| `leaf_mode_flip` | `ConfirmedNeverPlaintext`: a confirmed leaf does not weaken its uplink (`code/macsec_runtime_test.go`) | `teardownLeaf` reads leaf mode again; switched on in between, the uplink rejoins br0 while the association is confirmed |
| `change_delete` | `DeleteLeavesNoOrphan`: deleting a leaf releases it (`code/macsec_api_test.go`) | the release and the removal are two critical sections, an enable fits in between |

Two more places where the code does not do what a test or a comment suggests are
not checked by a run, as `BackhaulChange` shows them in two or three steps:

* `retryPendingMACsec` looks at `MACsecPending` only in its copy of the list
  (`RetryNext`): a leaf whose request is cancelled or carried out while the loop waits
  for `macsecChangeMtx` is enabled once more, in the default mode.
  `TestDisableCancelsPendingMACsec` (`code/macsec_api_test.go`) tests the case without
  the wait.
* `leafRouter` PUT replaces an entry only if address *and* token match (`Without`), so
  that a leaf registered again with a new token gets a second entry, while the comment
  at `code/mesh.go:751` speaks of partial matches. The first one stays the one every
  later change finds.

### Bounds

Every model has a constant `Budget`: how often each kind of outside event may still
happen. Nothing else is bounded: passes, ticks, tunnels going up and down and
frames repeated on the wire are unlimited. The hazards need one or two events of
one or two kinds at an awkward point of a pass, and the budgets put these events at
every point. Two enables make a key follow another; two leaf mode changes are
off-and-on; one lost reply makes the two ends disagree; one crash can hit every
point of a pass and the passes after it are complete. Events that need each other
are together in one run, and events that merely multiply the states are in different
ones (failed calls, crashes and restarts are in `leaf_failures`, races in `leaf_races`). Where a budget
says "any four of", the number of all events together is bounded as well (`"any"`). A
key change over an old secY that cannot be deleted (two enables and a failed call), a
second crash while a disable frame is handled, or no port left at all, is beyond the
runs and covered by the proofs.

Ages: `ApplyDelay = 1`, `ConfirmTimeout = 2`, `AckWindow = 1` are the smallest
values with an instant before, at and after each comparison (the code: 2 s, 3 min
and 30 s). Ports in `change`: 2 and 3, of which only 2 is in WireGuard's plan, so that
two leaves use them up, ports are reused, and a second WireGuard leaf is refused.
One measured MTU is enough, as it is only compared with "none". In `MainLinks` three
leaves make the listing of secYs older than a later participant and leave a
WireGuard leaf between the MACsec ones; MTUs 1, 2, 4 with a driver limit of 3
cover both the wanted value and the limit.

`LinkMTU` uses the code's numbers: 1516 lies between the size of Ethernet and what
MACsec adds to it, 1600 between that and a jumbo frame, and the search between 1500
and 9000 takes its ten steps. A requested `LinkMTU` of 1400 is below both modes' own. Two
changes suffice for on-and-off, measure-and-switch and enable-again; longer sequences
are what `LinkMTUProofs` is for. In
`StationAccess` three associations are a station that leaves and returns while the
other one takes its interface's name; every interleaving of two handlers, each with up
to five commands, is covered. `NeighborSync` draws two outside events of different
kinds; three access points on three nodes, two names and two sets of ciphers make a
list in which some are compatible and some are not, and `MaxAPs = 3` is the length of
the longest list (a limit below it only makes every node refuse).

Symmetry is used in the safety runs `leaf_races` (the two MACsec nonces),
`change` (addresses, tokens, requests) and `stations` (stations, interfaces,
requests), whose definitions treat these values alike
and never order them; never with liveness.

`CHECK_DEADLOCK FALSE` is set for `BackhaulChange` and `StationAccess` only: when the
requests of the budget are used up and nothing is pending, there is nothing to do.

### Fairness

* Passes go on: the manager's goroutine is woken by a ticker, and the
  `ip`, `wg` and `nft` commands it runs are assumed to return (`PassStep`).
* A handler that has been entered returns, as network calls have timeouts; the
  pending loop is a ticker as well.
* Rounds of `syncMeshNeighbors` and passes that start measurements come from tickers;
  their calls and probes have deadlines; a measurement that waits for
  `macsecChangeMtx` gets it.
* The script ends once started; the supervisor restarts a plugin that has died
  (`Start`); time passes (`Tick`).

There is no fairness for tunnels (they may never come up), requests, faults or
restarts. The liveness properties that need a stable environment say so in their
premise (`<>[](...) => ...`).

## 4. What is proved

`LeafUplinkProofs` and `AssociationProofs` prove about `LeafUplink`, for every set of nonces, every
assignment of modes, all delays and all budgets:

| Theorem | Statement |
|---|---|
| `TypeCorrect` | `Spec => []TypeOK` |
| `UplinkFailsClosed` | `Spec => [](FailClosed /\ NoBypass /\ ConfirmedIsFlagged)` |
| `TunnelNeverBypassed`, `ConfirmedAlwaysFlagged` | its second and third part on their own |
| `MACsecKeysProven` | `Spec => []MACsecKeyProven` |
| `ObeyedDisablesAreFinal` | `Spec => []ObeyedDisableIsFinal` |
| `RevertsAfterWindow` | `Spec => RevertAfterWindow` |
| `LeafImplementsAssociation` | `Spec => ImplementsAssociation`, that is, `Association`'s specification under the mapping of section 2 |

`StationAccessProofs` proves about `StationAccess`, for every set of stations,
interfaces, addresses and concurrent requests:

| Theorem | Statement |
|---|---|
| `StationTypes` | `Spec => []TypeOK` |
| `GrantsAreIsolated` | `Spec => []GrantedIsIsolated` |
| `OneGrantEach` | `Spec => []OneGrant` |
| `MapFollows` | `Spec => []AccessFollows` |
| `ParentsFollow` | `Spec => []ParentFollows` |

`BackhaulChangeProofs` proves about `BackhaulChange`, for any number of leaves, pairing
tokens and concurrent requests and every range of ports:

| Theorem | Statement |
|---|---|
| `BackhaulTypes` | `Spec => []TypeOK` |
| `PortsDistinct` | `Spec => []DistinctPorts` |
| `RepliesOwn` | `Spec => []OwnReply` |
| `LeavesAgree` | `Spec => []Agree` |
| `NoLeafOrphaned` | `Spec => []NoOrphan` |

`MainLinksProofs` proves about `MainLinks`, for any number of leaves of either mode,
any interfaces and driver limits:

| Theorem | Statement |
|---|---|
| `LinkTypes` | `Spec => []TypeOK` |
| `MeshPinned` | `Spec => []BridgedIsPinned` |
| `PortsStayIsolated` | `Spec => []PortsIsolated` |
| `RemovedStaysGone` | `Spec => []RemovedIsGone` |
| `OriginalMTUKept` | `Spec => []OriginalKept` |

`NeighborSyncProofs` proves about `NeighborSync`, for any nodes, access points, networks
and limit of a list:

| Theorem | Statement |
|---|---|
| `NeighborTypes` | `Spec => []TypeOK` |
| `NeighboursTracked` | `Spec => []Tracked` |
| `NeighboursKept` | `Spec => KeepsNeighbours` |

`LinkMTUProofs` proves about `LinkMTU`, for all driver limits, sizes the wire may carry
and link MTUs asked for, and any number of changes:

| Theorem | Statement |
|---|---|
| `SizesInRange` | `Spec => []TypeOK` |
| `SearchIsSound` | `Spec => []SearchSound` |
| `LinkCarries` | `Spec => []Carries` |
| `ClampAlwaysFits` | `Spec => []ClampFits` |

### Assumptions

All are named in the models and evaluated by TLC in every run of them; every model also
assumes that its budget counts in natural numbers.

| Model | Assumption | Says |
|---|---|---|
| `LeafUplink` | `KeyAssumption`, `ModeAssumption` | `None` and `Dead` are no nonces; each nonce has a mode |
| | `TimeAssumption` | delays are natural numbers, `ApplyDelay < ConfirmTimeout` |
| `StationAccess` | `NoneAssumption` | `None` is no interface and no address |
| `BackhaulChange` | `WorkerAssumption` | the retry loop is no request, `None` neither |
| | `PortAssumption`, `MTUAssumption` | `0 < FirstPort <= LastWGPort <= LastPort`; a measured MTU is not 0 |
| `MainLinks` | `LeafAssumption` | there is a leaf, and each is behind an interface |
| | `MTUAssumption` | `BaseMTU < WantMTU < JumboMTU`, and every driver allows `BaseMTU` |
| `NeighborSync` | `NodeAssumption`, `NetworkAssumption`, `BoundAssumption` | the main router is no leaf; an AP given another name still runs one of `Networks` |
| `LinkMTU` | `SizeAssumption` | sizes fit 16 bits; a wire carries 1500; a request is at least `MinLinkMTU` |

### Arguments

Each theorem rests on an inductive invariant, preserved by one case per action. TLC has
checked these invariants on the instances of section 3.

`LeafUplink` and `Association`, for any number of calls given up, failed calls, and ends
of either process:

* `TInv` is `TypeOK` with `PassInv`: where the pass is determines what its locals may
  be (an active pass works on an enabled association, so its nonce has a mode).
* `ClosedInv`: `FailClosed` alone is not inductive. A teardown puts the uplink back
  into br0 without looking at the configuration, so one needs that a teardown outside
  a change of role meets no confirmed association: its association was found off or
  has just been reverted, and `macsecPeer` only ever saves an unconfirmed one, which
  the pass that is now tearing down cannot confirm. The script decides by the flag,
  so the flag has to cover a confirmed association and a bridged tunnel; and the
  pass confirms on the strength of having unbridged the uplink earlier, so that has
  to last until the confirmation.
* `KeyInv` follows the key from the participant to the secY it made, to what the
  pass has seen of it, to the confirmation; a participant started on an old secY is in
  `inherits` from then on.
* `ObeyedInv`: a nonce that is on the wire, in the listener's hands or obeyed is one
  the main router is giving up under its mutex, or has dropped and, as nonces are fresh,
  never sends again, unless it is in `stray`; a handler that saves late, or a change that
  asks for it, is in `stray` too.
* `AgeInv`: as long as no call is lost, the association a pass has read is still the
  saved one, which is no younger, or one the main router is giving up or has dropped
  (`NoneLost`, `Gone`, `ReadInv`); fresh nonces keep that one from being enabled again
  with an age of its own.
* `LeafImplementsAssociation` adds nothing of its own: under the invariants above each
  action is a step of `Association` or leaves its variables alone. They are needed for
  `Confirm`, `Open` and `Leave`, whose conditions in `Association` speak of the present
  state while the pass goes by what it read earlier.

`StationAccess`:

* `IsolatedInv`: the map alone does not say why a port is isolated. `PortInv` adds
  that a connect handler past its `bridge link set ... isolated on` has an isolated
  port as long as that instance of the interface exists, and that the interface of
  nobody does not exist, so that a deletion cannot leave a later one with the port's
  grants.
* `GrantInv`: a handler that has read the map deletes what it read, which is enough
  only if nothing it should delete has appeared since. Outside a lapse it has not,
  because the other handlers at work are about other interfaces and addresses.
* `ArriveInv`: who is there is in the map, in the hands of a handler or in a report, and
  after that only disconnects follow about his address or interface, which would be
  lapses. `UseInv` and `LiveInv` say that a connect about a present instance is about
  who has the interface, so that its handler does not give up; `TodoInv`, that a handler
  deletes nothing unrelated to its event.
* `DepartInv`: what is in the map, or will be, without an association is deleted by an
  event that is still to be handled and that no report adding it follows.
* `PictureInv`: the last event about an association, among the reports or on its way to
  the main router, says whether there is one; without any the main router knows. Events
  may arrive in any order, so the last one has to be the only one when it arrives.

`BackhaulChange`. `macsecChangeMtx` covers a change from its first look at the list to its
save, but not `leafRouter` PUT and DELETE, which change the list in between:

* `TypeInv` says which jobs hold the mutex, so that there is at most one, and that only
  a leaf that has answered can have the newest nonce.
* `RepliesInv`: list entries are unique by address and token, and of those with one
  address the currently paired one is last (`KeysInv`). While a change is under way its
  answer is the leaf's own and keeps the leaf's port (`ReplyInv`), nobody else gives the
  leaf another association (`EntryStays`), and a leaf that answers at an address is alone
  there (`Sole`). Then what `FindAgain` finds at the end is the entry the change began
  with, or nothing. `DistinctPorts` and `OwnReply` follow one from the other: a port is
  free when it is chosen and still free when it is saved.
* `AgreeInv`: between its answer and the save a leaf runs what it has just been told
  (`CallInv`), at all other times what is saved for it (`SavedInv`).
* `OrphanInv`: a leaf that insists on its association has an entry that knows it
  (`ConfirmedInv`), and one whose association is about to be forgotten has been released
  before (`ForgottenInv`).

`MainLinks`. What a pass knows is a list it reads once and its copy of the settings:

* `PinInv`: a pass that has its guard has pinned every leaf it found enabled
  (`GuardInv`); one without a failed call knows every bridged port of an enabled leaf,
  however old its list (`KnownInv`), because ports join at its end only; one without its
  guard has had a failed call already and only lets ports leave (`LeaveInv`).
* `IsolatedInv`: between the two calls a port is in the bridge and not yet isolated.
* `GoneInv`: every tunnel is one that `stopAllMKA` or `cleanupMainWG` will look for
  (`RememberedInv`), a pass keeps only what is enabled in its copy (`KeptOn`), and once
  the participants that are not kept are gone no secY of theirs is left (`StoppedInv`).
* `OriginalInv`: what is written down is the MTU an interface had; memory and file
  differ only while a pass restores, and only for the interfaces it has set back.

`NeighborSync`:

* `RecordInv` goes by an AP's place in the running apply: before its turn its record is
  the one in the file, during it what was set so far is wanted, after it the record is the
  one the apply will save.
* `PartInv`: every list on its way or being applied has an AP of its receiver in it, so
  that "none of mine" never makes an apply clear a table.

`LinkMTU`:

* `SearchInv`: what path and interfaces carry is inside the window of the search, closed
  from both sides, unless the path changed or frames were lost meanwhile.
* `LinkInv`: each end's own interface, once raised, has room for its saved link MTU, and
  the link MTU of a WireGuard tunnel is the one its underlay implies. `ClampAlwaysFits`
  follows, as a device has the MTU of its setting (lemma `AppliedLink`).
* `CarryInv`: a setting that follows from a measurement fits the wire and both
  interfaces, at both ends, from the push to the leaf to the save.

Two invariants were false beyond the bounds of their runs and say since then what the
code does. When a second system call fails, a pass that could not load its guard may be
unable to take a port out of the bridge as well (`BridgedIsPinned` now allows for that).
With three changes, an unmeasured jumbo size that the leaf saved while its reply was
lost can survive at the leaf (`Carries`, whose history `guess` now covers it).

### What is only model-checked

Every safety invariant and every action property of the passing runs is a theorem, the
refinement of `Association` included. Liveness is not: `ENABLED` and fairness are beyond
the prover, so `SettlesClosed`, `SettlesOpen`, `ImplementsAssociationFairly`, `PendingCompletes`,
`MTURestored`, `SecuredJoins`, `InsecureLeaves`, `Converges` and `GetsMeasured` stay with
TLC, on the instances of section 3.

## 5. What is not modelled

* Contents of frames, keys, certificates and rules: a frame is the key that signs it,
  a guard is its kind, a token is who knows it.
* Route pins, `dhclient`, addresses and the static part of the firewall. (After a boot
  with the flag set `mesh_uplink_bridged` of `mesh_rules.sh` waits for a port named
  `macsec*` or the raw uplink, while a WireGuard leaf bridges `mshvx0`: `dhclient` is then
  not started.)
* `BackhaulChange` has calls that are lost on the way there or back, but no leaf that
  saves after its call was given up; that is in `LeafUplink` (`LateEnable`, `LateDisable`),
  `LinkMTU` (`PeerLate`) and `NeighborSync` (`PutLate`).
* Sizes outside `LinkMTU`: `LeafUplink` and `MainLinks` leave them to it, and it has one
  leaf, so that the minimum over all WireGuard leaves (`wgMainMTU`) is left out.
* `syncDevices` and `syncOTP`, which overwrite files of the leaf with those of the main
  router and keep nothing themselves; polls of stations and topology, which change
  nothing; `wifiConnectFailure`, which only publishes.
* Failures to write the configuration or the flag file, which the code logs or
  returns without undoing anything; a missing `wanif`.
* `MainLinks` begins on a main router without leftovers of the leaf role; those are
  in `LeafUplink`, where in turn the main router's own links are left out.
* `restartIfStuck` may act whenever a link is not secured: its timers are left open.
* Components with status `not_modelled` in `PROJECT.json`.

## 6. Plan

Done: all models and their runs; proofs about each of them.

Next, in this order:

1. An abstract specification of `BackhaulChange`, in which a change takes effect at the
   main router and the leaf in one step, and the refinement, checked and proved.
2. For the liveness properties, the safety part of their arguments as lemmas: what a
   pass without failures leaves behind (`LeafUplink`, `MainLinks`), and that a settled
   state is one a further pass does not change.
3. Handlers that save late in `BackhaulChange`, with several leaves.
