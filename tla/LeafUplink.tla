----------------------------- MODULE LeafUplink -----------------------------
(***************************************************************************)
(* The leaf side of the encrypted mesh backhaul: how one mesh node moves   *)
(* its uplink between a plaintext port of br0 and an encrypted tunnel.     *)
(*                                                                         *)
(* Four actors share the state.                                            *)
(*   - the manager goroutine: reconcile() in a loop, one pass at a time,   *)
(*     under m.mu (code/macsec_runtime.go);                                *)
(*   - HTTP handlers: macsecPeer (code/macsec_api.go), called by the main  *)
(*     router, and leafMode (code/mesh.go); macsecPeer looks at the role   *)
(*     first and saves under Configmtx after several commands, and it goes *)
(*     on when the main router has given the call up;                      *)
(*   - the control listener: handleLeafCtl (code/macsec_ctl.go), disable   *)
(*     frames on the raw uplink;                                           *)
(*   - mesh_rules.sh, run by the base container when it (re)starts.        *)
(* The manager takes Configmtx to read the configuration and again to      *)
(* confirm or revert it, never in between, so the handlers interleave with *)
(* every step of a pass.  A pass is split where another actor can come in. *)
(*                                                                         *)
(* Times are kept as ages (elapsed since EnabledAt, since ctlOffAt) that   *)
(* saturate at the largest value a comparison can tell apart.              *)
(***************************************************************************)
EXTENDS Integers

CONSTANTS
  Nonces,          \* KeyNonce values: one per association the main router sets up
  None,            \* no association, no key, no participant
  Dead,            \* a recorded MKA participant whose process has exited
  Stop,            \* a request to end the association, in place of a nonce
  ModeOf,          \* the backhaul mode an association is set up for
  ApplyDelay,      \* macsecApplyDelay, in ticks
  ConfirmTimeout,  \* macsecConfirmTimeout, in ticks
  AckWindow,       \* macsecCtlAckWindow, in ticks
  Budget           \* bound: how often each outside event may still happen

Modes == {"macsec", "wireguard"}

\* "any" counts the events of all kinds.
Events == {"enable", "disable", "lost", "wire", "toggle", "fault", "exit", "crash", "boot", "any"}

\* What the main router asks of macsecPeer: an association under a nonce, or none.
Requests == Nonces \cup {Stop}

ASSUME KeyAssumption ==
  /\ None \notin Nonces /\ Dead \notin Nonces /\ Stop \notin Nonces
  /\ None # Dead /\ None # Stop
ASSUME ModeAssumption == ModeOf \in [Nonces -> Modes]
ASSUME TimeAssumption ==
  /\ ApplyDelay \in Nat /\ ConfirmTimeout \in Nat /\ AckWindow \in Nat
  /\ ApplyDelay < ConfirmTimeout
ASSUME BudgetAssumption == Budget \in [Events -> Nat]

VARIABLES
  leafMode,    \* the marker file isLeafRouter() looks for
  cfg,         \* config.LeafMACsec as saved in the mesh configuration
  flag,        \* the mesh_macsec_required file, read by mesh_rules.sh
  pc,          \* where the manager's pass is; "down": the plugin is not running
  rcfg,        \* the pass's own copy of cfg, taken when it started
  secured,     \* the pass's `secured`
  after,       \* what follows the pass's teardown
  leafActive,  \* m.leafActive
  mka,         \* m.procs["leaf"]: the key of the recorded MKA participant
  wgApplied,   \* m.wgApplied holds the settings of the main router's peer
  noEgress,    \* m.noEgress
  ctlKey,      \* m.leafCtl
  ctlOff,      \* age of m.ctlOffAt, -1 for the zero time
  hkey,        \* key of the disable frame the control listener is handling
  hfirst,      \* handleLeafCtl's `first`, once it has been computed
  wan,         \* the bridge the raw uplink is a port of: "br0" or "none"
  br0,         \* br0 exists
  tun,         \* the tunnel interface: secY, or WireGuard peer with VXLAN port
  rest,        \* an older tunnel that could not be removed is still there too
  guard,       \* the netdev table mesh_macsec_guard
  spc,         \* where mesh_rules.sh is
  sreq,        \* MACSEC_REQUIRED of the running mesh_rules.sh
  mainKey,     \* the association the main router has saved for this leaf
  mpc,         \* where the main router's change is, under its macsecChangeMtx
  req,         \* what that change asks of macsecPeer
  late,        \* requests macsecPeer is still handling though they were given up
  wire,        \* key of the disable frames the main router repeats on the wire
  used,        \* nonces generated so far
  left,        \* what is left of Budget
  met,         \* history: keys under which the tunnel has really come up
  obeyed,      \* history: keys whose disable frame the listener has carried out
  stray,       \* history: keys a given-up request for which may be carried out at
               \* any time, or whose end the main router did not live to save
  inherits,    \* history: keys whose MKA participant was started on an old secY
  lapse        \* history: an outside change raced a decision already taken, or
               \* a tunnel could not be removed

disk    == <<leafMode, cfg, flag>>
pass    == <<pc, rcfg, secured, after>>
memory  == <<leafActive, mka, wgApplied, noEgress>>
control == <<ctlKey, ctlOff, hkey, hfirst>>
kernel  == <<wan, br0, tun, rest, guard>>
script  == <<spc, sreq>>
peer    == <<mainKey, mpc, req, late, wire, used>>
history == <<met, obeyed, stray, inherits, lapse>>
vars == <<disk, pass, memory, control, kernel, script, peer, left, history>>

-----------------------------------------------------------------------------
(* Configuration, tunnel and guard values.                                 *)

\* LeafSideMACsec.  EnabledAt is kept as its age; mode, port and the peer's
\* public key come with the nonce.
Configs ==
  [enabled : BOOLEAN, confirmed : BOOLEAN, nonce : Nonces \cup {None}, age : 0..ConfirmTimeout]

NewCfg(n) == [enabled |-> TRUE, confirmed |-> FALSE, nonce |-> n, age |-> 0]

NoCfg == [enabled |-> FALSE, confirmed |-> FALSE, nonce |-> None, age |-> 0]

\* The uplink's tunnel.  live: the secY forwards (macsecLink.Forwarding), or the
\* peer's last handshake is fresh (wgHandshakeFresh).  bridged: it is a port of br0.
Tunnels == [key : Nonces \cup {None}, live : BOOLEAN, bridged : BOOLEAN]

NoTun == [key |-> None, live |-> FALSE, bridged |-> FALSE]

NewTun(n) == [NoTun EXCEPT !.key = n]

\* "boot" is the table mesh_rules.sh writes.
Guards == [mode : Modes \cup {"none", "boot"}, egress : BOOLEAN]

NoGuard == [mode |-> "none", egress |-> FALSE]

BootGuard == [mode |-> "boot", egress |-> FALSE]

\* renderLeafGuard, renderLeafGuardWG: the table for an association's mode.
GuardFor(n, egress) == [mode |-> ModeOf[n], egress |-> egress]

IsWG(n) == n \in Nonces /\ ModeOf[n] = "wireguard"

\* A configuration one tick later.
Older(c) ==
  IF c.enabled /\ c.age < ConfirmTimeout THEN [c EXCEPT !.age = @ + 1] ELSE c

Spend(e) ==
  /\ left[e] > 0 /\ left["any"] > 0
  /\ left' = [left EXCEPT ![e] = @ - 1, !["any"] = @ - 1]

\* One step of the pass that needs a system call to fail.
Fault == Spend("fault")

\* reconcile() returns; the pass's locals go.
EndPass == pc' = "idle" /\ rcfg' = NoCfg /\ secured' = FALSE /\ after' = "idle"

GoTo(where) == pc' = where /\ UNCHANGED <<rcfg, secured, after>>

\* confirmOrRevert runs on every return once the pass is active; `secured` is
\* still FALSE when a step before it has failed.
GiveUp == pc' = "confirm" /\ secured' = FALSE /\ UNCHANGED <<rcfg, after>>

Teardown == {"td_tunnel", "td_guard", "td_rejoin", "td_flag"}

\* A pass that found leaf mode off is undoing an enabled association.
MainTeardown == pc \in Teardown \cup {"stat", "clear"} /\ after = "stat"

-----------------------------------------------------------------------------
Init ==
  /\ leafMode = TRUE /\ cfg = NoCfg /\ flag = FALSE
  /\ pc = "idle" /\ rcfg = NoCfg /\ secured = FALSE /\ after = "idle"
  /\ leafActive = FALSE /\ mka = None /\ wgApplied = FALSE /\ noEgress = FALSE
  /\ ctlKey = None /\ ctlOff = -1 /\ hkey = None /\ hfirst = FALSE
  /\ wan = "br0" /\ br0 = TRUE /\ tun = NoTun /\ rest = FALSE /\ guard = NoGuard
  /\ spc = "idle" /\ sreq = FALSE
  /\ mainKey = None /\ mpc = "free" /\ req = None
  /\ late = [r \in Requests |-> 0] /\ wire = None /\ used = {}
  /\ left = Budget
  /\ met = {} /\ obeyed = {} /\ stray = {} /\ inherits = {} /\ lapse = FALSE

-----------------------------------------------------------------------------
(* reconcile(): one pass of the manager.                                   *)

\* The configuration is read under Configmtx, before m.mu is taken.
PassLoad ==
  /\ pc = "idle"
  /\ pc' = "load" /\ rcfg' = cfg
  /\ UNCHANGED <<secured, after, disk, memory, control, kernel, script, peer, left, history>>

\* reconcileLeaf with the association off: undo whatever is still in place.
\* The control keys are kept while a disable frame may still be repeated.
LeafDisabled ==
  /\ pc = "load" /\ leafMode /\ ~rcfg.enabled
  /\ ctlKey' = IF ctlOff = -1 THEN None ELSE ctlKey
  /\ IF leafActive \/ flag \/ mka # None THEN GoTo("td_tunnel") ELSE EndPass
  /\ UNCHANGED <<ctlOff, hkey, hfirst, disk, memory, kernel, script, peer, left, history>>

\* The reply to the enable call has to leave over the plaintext uplink first.
MustWait(c) == ~leafActive /\ ~c.confirmed /\ c.age < ApplyDelay

LeafWait ==
  /\ pc = "load" /\ leafMode /\ rcfg.enabled /\ MustWait(rcfg)
  /\ EndPass
  /\ UNCHANGED <<disk, memory, control, kernel, script, peer, left, history>>

\* Mutant: the flag file is not written.
LeafActivateWithoutFlag ==
  /\ pc = "load" /\ leafMode /\ rcfg.enabled /\ ~MustWait(rcfg)
  /\ leafActive' = TRUE
  /\ GoTo("guard")
  /\ UNCHANGED <<disk, mka, wgApplied, noEgress, control, kernel, script, peer, left, history>>

LeafActivate ==
  /\ pc = "load" /\ leafMode /\ rcfg.enabled /\ ~MustWait(rcfg)
  /\ leafActive' = TRUE /\ flag' = TRUE
  /\ GoTo("guard")
  /\ UNCHANGED <<leafMode, cfg, mka, wgApplied, noEgress, control, kernel, script, peer, left, history>>

\* Mutant: the guard is installed for a new key only.
PassGuardOnce ==
  /\ pc = "guard"
  /\ guard' = IF ctlKey = rcfg.nonce THEN guard ELSE GuardFor(rcfg.nonce, ~noEgress)
  /\ GoTo("unbridge")
  /\ UNCHANGED <<disk, memory, control, wan, br0, tun, rest, script, peer, left, history>>

\* applyGuard and applyGuardWG: install the table for the pass's mode unless the
\* very same table is already loaded.  A failure of the full table gives up the
\* egress chain until the plugin restarts; a second one leaves the old table.
\* Neither stops the pass.
PassGuard ==
  /\ pc = "guard"
  /\ \/ guard' = GuardFor(rcfg.nonce, ~noEgress) /\ UNCHANGED <<noEgress, left>>
     \/ Fault /\ noEgress' = TRUE /\ guard' \in {guard, GuardFor(rcfg.nonce, FALSE)}
  /\ GoTo("unbridge")
  /\ UNCHANGED <<disk, leafActive, mka, wgApplied, control, wan, br0, tun, rest, script, peer, history>>

\* Mutant: the raw uplink stays where it is.
PassUnbridgeSkipped ==
  /\ pc = "unbridge"
  /\ ctlKey' = rcfg.nonce /\ ctlOff' = -1
  /\ GoTo("ensure")
  /\ UNCHANGED <<hkey, hfirst, disk, memory, kernel, script, peer, left, history>>

\* Take the raw uplink out of the bridge, then derive the keys and hand the
\* control keys of this association to the listener.
PassUnbridge ==
  /\ pc = "unbridge"
  /\ wan' = "none" /\ lapse' = FALSE
  /\ ctlKey' = rcfg.nonce /\ ctlOff' = -1
  /\ GoTo("ensure")
  /\ UNCHANGED <<hkey, hfirst, disk, memory, br0, tun, rest, guard, script, peer, left, met, obeyed, stray, inherits>>

\* The uplink is not found or cannot leave the bridge, or it has left the bridge
\* and the pairing token cannot be read.
PassUnbridgeFails ==
  /\ pc = "unbridge" /\ Fault
  /\ \/ UNCHANGED <<wan, lapse>>
     \/ wan' = "none" /\ lapse' = FALSE
  /\ GiveUp
  /\ UNCHANGED <<disk, memory, control, br0, tun, rest, guard, script, peer, met, obeyed, stray, inherits>>

\* The uplink's tunnel is a secY, not a WireGuard one.
HasSecY == tun.key \in Nonces /\ ~IsWG(tun.key)

\* Mutant: any running participant is kept.
KeepsAnyMKA == mka \in Nonces /\ ~IsWG(tun.key)

\* ensureMKA keeps a participant that runs with this very configuration.
KeepsMKA == mka = rcfg.nonce /\ ~IsWG(tun.key)

\* MACsec: remove a WireGuard tunnel, then ensureMKA.  A participant that is not
\* kept is stopped, its secY is deleted and a new one creates a new secY.  A
\* WireGuard tunnel that cannot be removed stays next to it.
EnsureMACsec ==
  /\ pc = "ensure" /\ ~IsWG(rcfg.nonce)
  /\ mka' = IF KeepsMKA THEN mka ELSE rcfg.nonce
  /\ tun' = IF KeepsMKA THEN tun ELSE NewTun(rcfg.nonce)
  /\ \/ rest' = FALSE /\ UNCHANGED left
     \/ IsWG(tun.key) /\ Fault /\ rest' = TRUE
  /\ wgApplied' = (wgApplied /\ ~IsWG(tun.key))
  /\ GoTo("join")
  /\ UNCHANGED <<disk, leafActive, noEgress, control, wan, br0, guard, script, peer, history>>

\* deleteSecY cannot list or delete the old secY, and says nothing: the new
\* participant is started on it.
EnsureMACsecOverOld ==
  /\ pc = "ensure" /\ ~IsWG(rcfg.nonce) /\ ~KeepsMKA /\ Fault
  /\ HasSecY \/ rest
  /\ mka' = rcfg.nonce
  /\ inherits' = inherits \cup {rcfg.nonce}
  /\ tun' \in IF HasSecY THEN {tun} ELSE [key : {rcfg.nonce}, live : BOOLEAN, bridged : BOOLEAN]
  /\ wgApplied' = (wgApplied /\ ~IsWG(tun.key))
  /\ GoTo("join")
  /\ UNCHANGED <<disk, leafActive, noEgress, control, wan, br0, rest, guard, script, peer, met, obeyed, stray, lapse>>

\* wpa_supplicant cannot be started: the old participant is gone, its secY too
\* unless it cannot be deleted.
EnsureMACsecFails ==
  /\ pc = "ensure" /\ ~IsWG(rcfg.nonce) /\ mka # rcfg.nonce /\ Fault
  /\ mka' = None /\ tun' \in {NoTun, tun} /\ rest' \in {FALSE, rest}
  /\ wgApplied' = (wgApplied /\ ~IsWG(tun.key))
  /\ GiveUp
  /\ UNCHANGED <<disk, leafActive, noEgress, control, wan, br0, guard, script, peer, history>>

\* A tunnel leafWG has just set up; where an older one has stayed it takes over
\* its port and its peer's last handshake.
NewWG ==
  [key : {rcfg.nonce}, live : {FALSE, rest}, bridged : {FALSE, rest}]

\* WireGuard: stop MKA and delete its secY, then leafWG.  applyOnce compares the
\* PATH of the preshared key file, not its content, so a peer that is already set
\* up keeps the key it has, and always keeps its last handshake.  (The port that
\* names the file is the same: the main router hands out the lowest free one.)
EnsureWG ==
  /\ pc = "ensure" /\ IsWG(rcfg.nonce)
  /\ mka' = None
  /\ IF IsWG(tun.key)
       THEN tun' = [tun EXCEPT !.key = IF wgApplied THEN @ ELSE rcfg.nonce]
       ELSE tun' \in NewWG
  /\ \/ rest' = FALSE /\ UNCHANGED left
     \/ HasSecY /\ Fault /\ rest' = TRUE
  /\ wgApplied' = TRUE
  /\ GoTo("join")
  /\ UNCHANGED <<disk, leafActive, noEgress, control, wan, br0, guard, script, peer, history>>

\* An ip or wg command fails before the tunnel is complete.
EnsureWGFails ==
  /\ pc = "ensure" /\ IsWG(rcfg.nonce) /\ Fault
  /\ mka' = None
  /\ tun' \in IF IsWG(tun.key) THEN {tun} ELSE {NoTun, tun}
  /\ rest' \in {FALSE, rest}
  /\ GiveUp
  /\ UNCHANGED <<disk, leafActive, wgApplied, noEgress, control, wan, br0, guard, script, peer, history>>

Joined(ok) == pc' = "confirm" /\ secured' = ok /\ UNCHANGED <<rcfg, after>>

\* A live tunnel joins br0, unless br0 is missing; or the tunnel cannot be looked
\* at (which leafWG passes over), or cannot join.
JoinLive ==
  /\ pc = "join" /\ tun.live
  /\ \/ (br0 \/ tun.bridged) /\ tun' = [tun EXCEPT !.bridged = TRUE] /\ Joined(TRUE) /\ UNCHANGED left
     \/ ~br0 /\ ~tun.bridged /\ UNCHANGED <<tun, left>> /\ Joined(FALSE)
     \/ Fault /\ UNCHANGED tun /\ (Joined(FALSE) \/ (IsWG(rcfg.nonce) /\ Joined(TRUE)))
  /\ UNCHANGED <<disk, memory, control, wan, br0, rest, guard, script, peer, history>>

\* An insecure secY leaves br0 unless it is administratively down or the call fails,
\* which is only logged; a stuck participant is stopped (restartIfStuck, whose
\* timers are left open) and its secY deleted.  A stale VXLAN port stays where it is.
JoinDown ==
  /\ pc = "join" /\ ~tun.live
  /\ \/ IsWG(rcfg.nonce) /\ UNCHANGED <<mka, tun, left>>
     \/ ~IsWG(rcfg.nonce) /\ tun' \in {tun, [tun EXCEPT !.bridged = FALSE]} /\ UNCHANGED <<mka, left>>
     \/ ~IsWG(rcfg.nonce) /\ mka' = None /\ tun' = NoTun /\ UNCHANGED left
     \/ ~IsWG(rcfg.nonce) /\ mka' = None /\ Fault /\ UNCHANGED tun
  /\ Joined(FALSE)
  /\ UNCHANGED <<disk, leafActive, wgApplied, noEgress, control, wan, br0, rest, guard, script, peer, history>>

-----------------------------------------------------------------------------
(* confirmOrRevert and teardownLeaf.                                       *)

\* Mutant: the saved configuration is not compared with the pass's.
MayConfirmBlind == TRUE

\* Under Configmtx the saved configuration is read again: only the association
\* this pass worked on is confirmed or reverted.
MayConfirm == cfg.enabled /\ cfg.nonce = rcfg.nonce

Confirm ==
  /\ pc = "confirm" /\ secured /\ ~rcfg.confirmed
  /\ cfg' = IF MayConfirm THEN [cfg EXCEPT !.confirmed = TRUE] ELSE cfg
  /\ EndPass
  /\ UNCHANGED <<leafMode, flag, memory, control, kernel, script, peer, left, history>>

\* Confirmed before, or not secured yet with time left.
ConfirmNothing ==
  /\ pc = "confirm"
  /\ rcfg.confirmed \/ (~secured /\ rcfg.age < ConfirmTimeout)
  /\ EndPass
  /\ UNCHANGED <<disk, memory, control, kernel, script, peer, left, history>>

\* Mutant: the nonces are not compared.
MayRevertAnyKey == cfg.enabled /\ ~cfg.confirmed

MayRevert == cfg.enabled /\ ~cfg.confirmed /\ cfg.nonce = rcfg.nonce

\* Mutant: the tunnel is torn down, the configuration stays.
RevertNotSaved ==
  /\ pc = "confirm" /\ ~secured /\ ~rcfg.confirmed /\ rcfg.age >= ConfirmTimeout
  /\ IF MayRevert THEN GoTo("td_tunnel") ELSE EndPass
  /\ UNCHANGED <<disk, memory, control, kernel, script, peer, left, history>>

Revert ==
  /\ pc = "confirm" /\ ~secured /\ ~rcfg.confirmed /\ rcfg.age >= ConfirmTimeout
  /\ IF MayRevert
       THEN cfg' = NoCfg /\ GoTo("td_tunnel")
       ELSE UNCHANGED cfg /\ EndPass
  /\ UNCHANGED <<leafMode, flag, memory, control, kernel, script, peer, left, history>>

\* Mutant: the tunnel is not removed.
TdTunnelKeepsIt ==
  /\ pc = "td_tunnel"
  /\ mka' = None /\ wgApplied' = FALSE
  /\ GoTo("td_guard")
  /\ UNCHANGED <<disk, leafActive, noEgress, control, kernel, script, peer, left, history>>

\* stopAllMKA, delete every secY on the uplink, teardownWG.  An interface that
\* cannot be listed or deleted stays.
TdTunnel ==
  /\ pc = "td_tunnel"
  /\ mka' = None /\ wgApplied' = FALSE
  /\ \/ tun' = NoTun /\ rest' = FALSE /\ UNCHANGED <<left, lapse>>
     \/ Fault /\ UNCHANGED <<tun, rest>> /\ lapse' = TRUE
  /\ GoTo("td_guard")
  /\ UNCHANGED <<disk, leafActive, noEgress, control, wan, br0, guard, script, peer, met, obeyed, stray, inherits>>

TdGuard ==
  /\ pc = "td_guard"
  /\ \/ guard' = NoGuard /\ UNCHANGED left
     \/ Fault /\ UNCHANGED guard
  /\ GoTo("td_rejoin")
  /\ UNCHANGED <<disk, memory, control, wan, br0, tun, rest, script, peer, history>>

\* Mutant: the raw uplink does not rejoin br0.
TdRejoinSkipped ==
  /\ pc = "td_rejoin"
  /\ GoTo("td_flag")
  /\ UNCHANGED <<disk, memory, control, kernel, script, peer, left, history>>

\* The uplink rejoins br0 if there is one and the node is a leaf NOW.
TdRejoin ==
  /\ pc = "td_rejoin"
  /\ \/ wan' = (IF leafMode /\ br0 THEN "br0" ELSE wan) /\ UNCHANGED left
     \/ leafMode /\ br0 /\ Fault /\ UNCHANGED wan       \* logged, not retried
  /\ GoTo("td_flag")
  /\ UNCHANGED <<disk, memory, control, br0, tun, rest, guard, script, peer, history>>

TdFlag ==
  /\ pc = "td_flag"
  /\ flag' = FALSE /\ leafActive' = FALSE
  /\ IF after = "stat" THEN GoTo("stat") ELSE EndPass
  /\ UNCHANGED <<leafMode, cfg, mka, wgApplied, noEgress, control, kernel, script, peer, left, history>>

-----------------------------------------------------------------------------
(* reconcileMain: what it does with leaf state after leaving leaf mode.    *)

MainRole ==
  /\ pc = "load" /\ ~leafMode
  /\ IF leafActive \/ flag \/ rcfg.enabled
       THEN /\ pc' = "td_tunnel"
            /\ after' = IF rcfg.enabled THEN "stat" ELSE "idle"
            /\ UNCHANGED <<rcfg, secured>>
       ELSE EndPass
  /\ UNCHANGED <<disk, memory, control, kernel, script, peer, left, history>>

MainStat ==
  /\ pc = "stat"
  /\ IF leafMode THEN EndPass ELSE GoTo("clear")
  /\ UNCHANGED <<disk, memory, control, kernel, script, peer, left, history>>

MainClear ==
  /\ pc = "clear"
  /\ cfg' = IF cfg.enabled THEN NoCfg ELSE cfg
  /\ EndPass
  /\ UNCHANGED <<leafMode, flag, memory, control, kernel, script, peer, left, history>>

PassStep ==
  \/ PassLoad \/ LeafDisabled \/ LeafWait \/ LeafActivate
  \/ PassGuard \/ PassUnbridge \/ PassUnbridgeFails
  \/ EnsureMACsec \/ EnsureMACsecOverOld \/ EnsureMACsecFails \/ EnsureWG \/ EnsureWGFails
  \/ JoinLive \/ JoinDown
  \/ Confirm \/ ConfirmNothing \/ Revert
  \/ TdTunnel \/ TdGuard \/ TdRejoin \/ TdFlag
  \/ MainRole \/ MainStat \/ MainClear

-----------------------------------------------------------------------------
(* The main router's calls and macsecPeer.  The main router makes one      *)
(* change at a time (macsecChangeMtx): "asks" until macsecPeer has saved,  *)
(* "told" until the main router has, "cut" when the call fails, "waits"    *)
(* while disableOverWire waits for an acknowledgement.                     *)

\* Mutant: a new key inherits the confirmation of the old one.
EnabledInherits(n) ==
  IF cfg.enabled THEN [cfg EXCEPT !.nonce = n] ELSE NewCfg(n)

\* macsecPeer with Enable: a new association, or an update of the one the leaf
\* has, which keeps its confirmation and its start.
Enabled(n) ==
  IF cfg.enabled /\ cfg.nonce = n THEN cfg ELSE NewCfg(n)

\* Mutant: a nonce used before may be used again.
MainMaySendAny(n) == TRUE

\* What enableLeafMACsec and pushLeafUpdate send: the nonce the main router has
\* saved, or a new one if it has none or changes the mode.
MainMaySend(n) ==
  \/ n = mainKey
  \/ n \notin used /\ (mainKey \in Nonces => ModeOf[n] # ModeOf[mainKey])

\* macsecPeer gets past its check of the role; commands come next, so that the
\* role may change before it saves.
MainEnable(n) ==
  /\ mpc = "free" /\ pc # "down" /\ leafMode /\ MainMaySend(n) /\ Spend("enable")
  /\ mpc' = "asks" /\ req' = n /\ used' = used \cup {n}
  /\ UNCHANGED <<disk, pass, memory, control, kernel, script, mainKey, late, wire, history>>

MainDisable ==
  /\ mpc = "free" /\ pc # "down" /\ leafMode /\ mainKey # None /\ Spend("disable")
  /\ mpc' = "asks" /\ req' = Stop
  /\ UNCHANGED <<disk, pass, memory, control, kernel, script, mainKey, late, wire, used, history>>

\* macsecPeer saves, under Configmtx, and answers.
PeerEnable(n) ==
  /\ mpc = "asks" /\ req = n /\ br0
  /\ cfg' = Enabled(n)
  /\ mpc' = "told"
  /\ UNCHANGED <<leafMode, flag, pass, memory, control, kernel, script, mainKey, req, late, wire, used,
                 left, history>>

PeerDisable ==
  /\ mpc = "asks" /\ req = Stop
  /\ cfg' = NoCfg
  /\ mpc' = "told"
  /\ UNCHANGED <<leafMode, flag, pass, memory, control, kernel, script, mainKey, req, late, wire, used,
                 left, history>>

\* br0 or the uplink is not there, or a probe fails.
PeerRefuses ==
  /\ mpc = "asks" /\ req \in Nonces
  /\ \/ ~br0 /\ UNCHANGED left
     \/ Fault
  /\ mpc' = "cut"
  /\ UNCHANGED <<disk, pass, memory, control, kernel, script, mainKey, req, late, wire, used, history>>

\* The main router has the answer and saves.
MainSave ==
  /\ mpc = "told"
  /\ mainKey' = (IF req = Stop THEN None ELSE req)
  /\ mpc' = "free" /\ req' = None
  /\ UNCHANGED <<disk, pass, memory, control, kernel, script, late, wire, used, left, history>>

\* The main router's client gives up (StandardTLSClient, 10 seconds), or its
\* process ends: the answer is lost, or macsecPeer goes on without the main router.
CallLost ==
  /\ mpc \in {"asks", "told"} /\ Spend("lost")
  /\ mpc' = "cut"
  /\ IF mpc = "asks"
       THEN late' = [late EXCEPT ![req] = @ + 1] /\ stray' = stray \cup ({req} \ {Stop})
       ELSE UNCHANGED <<late, stray>>
  /\ UNCHANGED <<disk, pass, memory, control, kernel, script, mainKey, req, wire, used, met, obeyed,
                 inherits, lapse>>

\* An enable call that has failed changes nothing.  After a disable call that has
\* failed a signed frame is repeated on the wire, if it can be sent at all.
CallFails ==
  /\ mpc = "cut"
  /\ IF req = Stop THEN mpc' = "waits" /\ wire' \in {wire, mainKey} ELSE mpc' = "free" /\ UNCHANGED wire
  /\ req' = None
  /\ UNCHANGED <<disk, pass, memory, control, kernel, script, mainKey, late, used, left, history>>

\* The same when macsecPeer cannot be reached or refuses the call.
WireDisable ==
  /\ mpc = "free" /\ mainKey # None /\ Spend("wire")
  /\ mpc' = "waits" /\ wire' \in {wire, mainKey}
  /\ UNCHANGED <<disk, pass, memory, control, kernel, script, mainKey, req, late, used, history>>

\* Acknowledged or not, the main router forgets the association in the end.
WireDone ==
  /\ mpc = "waits"
  /\ mpc' = "free" /\ mainKey' = None
  /\ UNCHANGED <<disk, pass, memory, control, kernel, script, req, late, wire, used, left, history>>

\* The last frame has been received or is lost.
WireEnds ==
  /\ wire # None
  /\ wire' = None
  /\ UNCHANGED <<disk, pass, memory, control, kernel, script, mainKey, mpc, req, late, used, left, history>>

\* The main router's process ends while it disables the association: it still has
\* it saved.  (While it enables one that is a call lost.)
MainCrash ==
  /\ mpc # "free" /\ req \notin Nonces /\ Spend("lost")
  /\ late' = (IF mpc = "asks" THEN [late EXCEPT ![Stop] = @ + 1] ELSE late)
  /\ stray' = (IF mpc = "waits" THEN stray \cup {mainKey} ELSE stray)
  /\ mpc' = "free" /\ req' = None
  /\ UNCHANGED <<disk, pass, memory, control, kernel, script, mainKey, wire, used, met, obeyed, inherits,
                 lapse>>

\* macsecPeer saves for a call the main router has given up.
LateEnable(n) ==
  /\ late[n] > 0 /\ br0
  /\ cfg' = Enabled(n)
  /\ late' = [late EXCEPT ![n] = @ - 1]
  /\ UNCHANGED <<leafMode, flag, pass, memory, control, kernel, script, mainKey, mpc, req, wire, used,
                 left, history>>

LateDisable ==
  /\ late[Stop] > 0
  /\ cfg' = NoCfg
  /\ late' = [late EXCEPT ![Stop] = @ - 1]
  /\ UNCHANGED <<leafMode, flag, pass, memory, control, kernel, script, mainKey, mpc, req, wire, used,
                 left, history>>

\* leafMode: PUT /leafMode/enable and /leafMode/disable.
LeafModeSet ==
  /\ pc # "down" /\ Spend("toggle")
  /\ leafMode' = ~leafMode
  /\ lapse' = (lapse \/ MainTeardown)
  /\ UNCHANGED <<cfg, flag, pass, memory, control, kernel, script, peer, met, obeyed, stray, inherits>>

-----------------------------------------------------------------------------
(* The control listener.                                                   *)

\* handleLeafCtl: a disable frame signed with the listener's key is acknowledged.
CtlFrame ==
  /\ pc # "down" /\ hkey = None
  /\ ctlKey # None /\ wire = ctlKey /\ ctlOff <= AckWindow
  /\ hkey' = ctlKey
  /\ UNCHANGED <<ctlKey, ctlOff, hfirst, disk, pass, memory, kernel, script, peer, left, history>>

\* Under ctlMu: only the first frame since the keys were installed goes further.
CtlMark ==
  /\ hkey # None /\ ~hfirst
  /\ IF ctlOff = -1 THEN ctlOff' = 0 /\ hfirst' = TRUE /\ UNCHANGED hkey
                    ELSE hkey' = None /\ UNCHANGED <<ctlOff, hfirst>>
  /\ UNCHANGED <<ctlKey, disk, pass, memory, kernel, script, peer, left, history>>

\* Under Configmtx: the association is switched off if it is the frame's.
CtlSave ==
  /\ hkey # None /\ hfirst
  /\ cfg' = IF cfg.enabled /\ cfg.nonce = hkey THEN NoCfg ELSE cfg
  /\ obeyed' = obeyed \cup {hkey}
  /\ hkey' = None /\ hfirst' = FALSE
  /\ UNCHANGED <<ctlKey, ctlOff, leafMode, flag, pass, memory, kernel, script, peer, left, met, stray, inherits, lapse>>

\* ctlKeys drops the keys once the acknowledgement window is over.
CtlExpire ==
  /\ ctlKey # None /\ ctlOff > AckWindow
  /\ ctlKey' = None
  /\ UNCHANGED <<ctlOff, hkey, hfirst, disk, pass, memory, kernel, script, peer, left, history>>

-----------------------------------------------------------------------------
(* Time, the tunnel, failures.                                             *)

Tick ==
  /\ cfg' = Older(cfg) /\ rcfg' = Older(rcfg)
  /\ ctlOff' = IF ctlOff \in 0..AckWindow THEN ctlOff + 1 ELSE ctlOff
  /\ <<cfg, rcfg, ctlOff>>' # <<cfg, rcfg, ctlOff>>
  /\ UNCHANGED <<leafMode, flag, pc, secured, after, memory, ctlKey, hkey, hfirst, kernel, script, peer, left, history>>

\* The key this end of the tunnel has: WireGuard's peer keeps its own, a secY has
\* that of the running participant, whoever made it.
Key == IF IsWG(tun.key) THEN tun.key ELSE mka

\* Both ends hold the same key: MKA or the handshake succeeds.
TunnelUp ==
  /\ tun.key # None /\ Key \in Nonces /\ Key = mainKey
  /\ ~(tun.live /\ tun.key = Key)
  /\ tun' = [tun EXCEPT !.key = Key, !.live = TRUE]
  /\ met' = met \cup {Key}
  /\ UNCHANGED <<disk, pass, memory, control, wan, br0, rest, guard, script, peer, left, obeyed, stray,
                 inherits, lapse>>

TunnelDown ==
  /\ tun.live
  /\ tun' = [tun EXCEPT !.live = FALSE]
  /\ UNCHANGED <<disk, pass, memory, control, wan, br0, rest, guard, script, peer, left, history>>

\* wpa_supplicant exits by itself; its secY stays.
MKAExit ==
  /\ mka \in Nonces /\ Spend("exit")
  /\ mka' = Dead
  /\ UNCHANGED <<disk, pass, leafActive, wgApplied, noEgress, control, kernel, script, peer, history>>

\* The plugin's process ends: its memory and its MKA participant are lost, as are
\* the calls and the disable frame it was handling, and maybe its last answer.
ProcessLost ==
  /\ \/ mpc # "asks" /\ UNCHANGED mpc
     \/ mpc \in {"asks", "told"} /\ mpc' = "cut"
  /\ late' = [r \in Requests |-> 0]
  /\ UNCHANGED <<mainKey, req, wire, used>>
  /\ pc' = "down" /\ rcfg' = NoCfg /\ secured' = FALSE /\ after' = "idle"
  /\ leafActive' = FALSE /\ mka' = None /\ wgApplied' = FALSE /\ noEgress' = FALSE
  /\ ctlKey' = None /\ ctlOff' = -1 /\ hkey' = None /\ hfirst' = FALSE
  /\ lapse' = (lapse \/ MainTeardown)

Crash ==
  /\ pc # "down" /\ Spend("crash")
  /\ ProcessLost
  /\ UNCHANGED <<disk, kernel, script, met, obeyed, stray, inherits>>

Start ==
  /\ pc = "down"
  /\ GoTo("idle")
  /\ UNCHANGED <<disk, memory, control, kernel, script, peer, left, history>>

\* The router restarts: interfaces and tables are gone, mesh_rules.sh will run.
Reboot ==
  /\ Spend("boot")
  /\ ProcessLost
  /\ wan' = "none" /\ br0' = FALSE /\ tun' = NoTun /\ rest' = FALSE /\ guard' = NoGuard
  /\ spc' = "read" /\ sreq' = FALSE
  /\ UNCHANGED <<disk, met, obeyed, stray, inherits>>

\* Only the base container restarts: mesh_rules.sh runs next to the plugin.
BaseRestart ==
  /\ spc = "idle" /\ Spend("boot")
  /\ spc' = "read" /\ UNCHANGED sreq
  /\ UNCHANGED <<disk, pass, memory, control, kernel, peer, history>>

-----------------------------------------------------------------------------
(* mesh_rules.sh                                                           *)

ScriptRead ==
  /\ spc = "read"
  /\ IF leafMode THEN spc' = "bridge" /\ sreq' = flag ELSE spc' = "idle" /\ UNCHANGED sreq
  /\ UNCHANGED <<disk, pass, memory, control, kernel, peer, left, history>>

\* Mutant: the script does not look at the flag.
ScriptBridgeAlways ==
  /\ spc = "bridge"
  /\ br0' = TRUE /\ wan' = "br0"
  /\ lapse' = (lapse \/ (flag /\ ~sreq))
  /\ spc' = "flush"
  /\ UNCHANGED <<sreq, disk, pass, memory, control, tun, rest, guard, peer, left, met, obeyed, stray, inherits>>

ScriptBridge ==
  /\ spc = "bridge"
  /\ br0' = TRUE
  /\ wan' = IF sreq THEN "none" ELSE "br0"
  /\ lapse' = (lapse \/ (flag /\ ~sreq))
  /\ spc' = "flush"
  /\ UNCHANGED <<sreq, disk, pass, memory, control, tun, rest, guard, peer, left, met, obeyed, stray, inherits>>

ScriptFlush ==
  /\ spc = "flush"
  /\ guard' = NoGuard
  /\ spc' = "guard"
  /\ UNCHANGED <<sreq, disk, pass, memory, control, wan, br0, tun, rest, peer, left, history>>

ScriptGuard ==
  /\ spc = "guard"
  /\ guard' = IF sreq THEN BootGuard ELSE guard
  /\ spc' = "idle" /\ sreq' = FALSE
  /\ UNCHANGED <<disk, pass, memory, control, wan, br0, tun, rest, peer, left, history>>

ScriptStep == ScriptRead \/ ScriptBridge \/ ScriptFlush \/ ScriptGuard

-----------------------------------------------------------------------------
Next ==
  \/ PassStep
  \/ \E n \in Nonces : MainEnable(n) \/ PeerEnable(n) \/ LateEnable(n)
  \/ MainDisable \/ PeerDisable \/ PeerRefuses \/ MainSave \/ CallLost \/ CallFails
  \/ WireDisable \/ WireDone \/ WireEnds \/ MainCrash \/ LateDisable \/ LeafModeSet
  \/ CtlFrame \/ CtlMark \/ CtlSave \/ CtlExpire
  \/ Tick \/ TunnelUp \/ TunnelDown
  \/ MKAExit \/ Crash \/ Start \/ Reboot \/ BaseRestart
  \/ ScriptStep

Spec == Init /\ [][Next]_vars

\* The manager's goroutine is always woken by its ticker, a handler that has been
\* entered returns, a script that has been started ends, the supervisor restarts
\* the plugin, and time passes.
Fairness ==
  /\ WF_vars(PassStep) /\ WF_vars(CtlMark \/ CtlSave) /\ WF_vars(ScriptStep)
  /\ WF_vars(Start) /\ WF_vars(Tick)

FairSpec == Spec /\ Fairness

-----------------------------------------------------------------------------
(* Properties.                                                             *)

\* A configuration that is enabled exactly when it has a nonce, and confirmed only
\* when it is enabled.
WellFormed(c) ==
  c \in Configs /\ (c.enabled <=> c.nonce \in Nonces) /\ (c.confirmed => c.enabled)

BooleansOK ==
  /\ leafMode \in BOOLEAN /\ flag \in BOOLEAN
  /\ secured \in BOOLEAN
  /\ hfirst \in BOOLEAN /\ leafActive \in BOOLEAN /\ wgApplied \in BOOLEAN /\ noEgress \in BOOLEAN
  /\ br0 \in BOOLEAN /\ rest \in BOOLEAN /\ sreq \in BOOLEAN /\ lapse \in BOOLEAN

\* Every variable keeps to its type; in particular a saved association always
\* has a nonce (macsecPeer refuses an enable without one) and a confirmed one is
\* enabled (code: LeafSideMACsec is only ever replaced as a whole).
TypeOK ==
  /\ BooleansOK
  /\ WellFormed(cfg) /\ WellFormed(rcfg)
  /\ pc \in {"down", "idle", "load", "guard", "unbridge", "ensure", "join", "confirm",
             "stat", "clear"} \cup Teardown
  /\ after \in {"idle", "stat"}
  /\ mka \in Nonces \cup {None, Dead}
  /\ ctlKey \in Nonces \cup {None} /\ hkey \in Nonces \cup {None}
  /\ ctlOff \in -1..(AckWindow + 1)
  /\ wan \in {"br0", "none"}
  /\ tun \in Tunnels /\ guard \in Guards
  /\ spc \in {"idle", "read", "bridge", "flush", "guard"}
  /\ mainKey \in Nonces \cup {None} /\ wire \in Nonces \cup {None}
  /\ mpc \in {"free", "asks", "told", "cut", "waits"}
  /\ req \in Requests \cup {None} /\ (req = None <=> mpc \in {"free", "waits"})
  /\ late \in [Requests -> Nat]
  /\ used \subseteq Nonces /\ met \subseteq Nonces /\ obeyed \subseteq Nonces
  /\ stray \subseteq Nonces /\ inherits \subseteq Nonces
  /\ left \in [Events -> Nat]

\* Fail closed: while a leaf runs a confirmed association its raw uplink is not a
\* port of br0, whatever fails, crashes or reboots.  The exception is a lapse,
\* until the next pass repairs it: mesh_rules.sh acting on a flag that was set
\* after it read it, leaf mode changing (or the plugin dying) under a teardown
\* that had seen it off, or a tunnel that could not be removed.
FailClosed == leafMode /\ cfg.confirmed /\ wan = "br0" => lapse

\* The raw uplink and the tunnel are never ports of br0 together (that would
\* carry the mesh around the encryption, and loop it), nor is there a tunnel left
\* over next to the uplink's, with the same exception.
NoBypass == wan = "br0" /\ (tun.bridged \/ rest) => lapse

\* A confirmed association survives a reboot: mesh_rules.sh finds the flag and
\* keeps the raw uplink out of br0 until the plugin is back.
ConfirmedIsFlagged == leafMode /\ cfg.confirmed => flag \/ lapse

\* A MACsec association is confirmed only after a secY protected by ITS key has
\* come up: neither the secY nor the confirmation of an older key is inherited,
\* however enable, disable and crash interleave with the pass.  The exception is a
\* secY that ensureMKA could not delete before it started the participant:
\* reconcileLeaf takes the first secY with its SCI for the participant's own.
MACsecKeyProven == cfg.confirmed /\ ~IsWG(cfg.nonce) => cfg.nonce \in met \cup inherits

\* The same for every mode: macsec_api_test.go says "new CAK inherited
\* confirmation" is an error.
KeyProven == cfg.confirmed => cfg.nonce \in met

\* Once the listener has carried out a disable frame, the leaf does not run that
\* association again: no pass that started earlier writes it back, and no update,
\* repeated request or lost answer brings it back.  Two things do: a macsecPeer
\* that was past its checks when the main router gave its call up, and a main router
\* whose process ended before it forgot the association.
ObeyedDisableIsFinal == cfg.enabled /\ cfg.nonce \in obeyed => cfg.nonce \in stray

\* A revert takes away only an association that has had its whole
\* ConfirmTimeout, never one enabled while the pass was running.  (After a lost
\* reply the main router may send the nonce the pass started with once more, and
\* confirmOrRevert compares nonces, not EnabledAt.)
RevertAfterWindow ==
  [][pc = "confirm" /\ cfg.enabled /\ ~cfg'.enabled /\ pc' = "td_tunnel"
       => cfg.age >= ConfirmTimeout \/ left["lost"] < Budget["lost"]]_vars

\* FailClosed without the exception: "confirmed leaf weakened its uplink" is a
\* failure of TestLeafConfirmedFailsClosed (macsec_runtime_test.go).
ConfirmedNeverPlaintext == ~(leafMode /\ cfg.confirmed /\ wan = "br0")

\* An association that stays confirmed ends up protected for good: uplink out of
\* br0, guard of its own mode loaded, although mesh_rules.sh flushes the rules.
SettlesClosed ==
  <>[](leafMode /\ cfg.confirmed)
    => <>[](wan = "none" /\ flag /\ cfg.enabled /\ guard.mode = ModeOf[cfg.nonce])

\* No system call has failed and mesh_rules.sh has not been run again.
Undisturbed == left["fault"] = Budget["fault"] /\ left["boot"] = Budget["boot"]

Open == wan = "br0" /\ tun = NoTun /\ ~rest /\ guard = NoGuard /\ ~flag

\* A leaf whose association stays off ends up in plaintext for good: uplink in
\* br0, no tunnel, guard or flag left over, however the disable arrived (HTTPS,
\* control frame, revert) and whatever pass it met.  (A system call that fails in
\* teardownLeaf is logged and never tried again: then there is nothing to promise.)
SettlesOpen == <>[](leafMode /\ ~cfg.enabled /\ Undisturbed) => <>[]Open

\* The association as the main router sees it.
Stage == IF ~cfg.enabled THEN "off" ELSE IF cfg.confirmed THEN "confirmed" ELSE "trial"
Door == IF wan = "br0" THEN "open" ELSE "shut"

A == INSTANCE Association WITH
  role <- leafMode,
  stage <- Stage,
  key <- cfg.nonce,
  door <- Door,
  asked <- {r \in Requests : (mpc = "asks" /\ req = r) \/ late[r] > 0},
  answered <- IF mpc = "told" THEN {req} ELSE {},
  held <- mainKey,
  signed <- {wire, hkey} \ {None},
  retired <- obeyed,
  excused <- lapse

\* The leaf implements Association: whatever the manager, the handlers, the control
\* listener and mesh_rules.sh do in between, an association is only ever enabled on
\* trial, confirmed behind a shut uplink, and once confirmed is given up on the main
\* router's word or with leaf mode, never by a pass that timed out.
ImplementsAssociation == A!Spec

\* The same with its fairness: no association stays on trial, it is confirmed,
\* released, or taken back after ConfirmTimeout.
ImplementsAssociationFairly == A!FairSpec
=============================================================================
