--------------------------- MODULE BackhaulChange ---------------------------
(***************************************************************************)
(* The main router's side of a backhaul change: the handlers that enable,  *)
(* disable and tune the encrypted link of a leaf router, register and      *)
(* remove leaf routers, and the loop that retries pending requests         *)
(* (code/macsec_api.go, code/mesh.go).                                     *)
(*                                                                         *)
(* A change takes macsecChangeMtx for its whole length, but Configmtx only *)
(* to read the configuration and again to save it: in between it calls the *)
(* leaf over the network.  leafRouter changes the list of leaves under     *)
(* Configmtx alone.  The leaf is reduced to what macsecPeer saves and to   *)
(* whether it has been confirmed; module LeafUplink has the rest.          *)
(***************************************************************************)
EXTENDS Integers, Sequences, FiniteSets

CONSTANTS
  IPs,         \* addresses of leaf routers
  Tokens,      \* pairing tokens
  Handlers,    \* concurrent HTTP requests to the main router
  Retry,       \* the goroutine of macsecPendingLoop
  None,        \* nobody holds macsecChangeMtx
  FirstPort,   \* macsecMainPortFirst
  LastPort,    \* macsecMainPortLast
  LastWGPort,  \* meshWGMaxPort
  MTUs,        \* what an MTU test can measure
  Budget       \* bound: how often each outside event may still happen

Modes == {"macsec", "wireguard"}

Events == {"put", "delete", "set", "tune", "lost", "crash", "repair"}

Workers == Handlers \cup {Retry}

ASSUME WorkerAssumption == Retry \notin Handlers /\ None \notin Workers
ASSUME PortAssumption ==
  /\ FirstPort \in Nat \ {0} /\ LastPort \in Nat /\ LastWGPort \in Nat
  /\ FirstPort <= LastWGPort /\ LastWGPort <= LastPort
ASSUME MTUAssumption == MTUs \subseteq Nat \ {0}
ASSUME ChangeBudgetAssumption == Budget \in [Events -> Nat]

VARIABLES
  leaves,  \* config.LeafRouters
  lock,    \* holder of macsecChangeMtx
  job,     \* what each worker is doing
  queue,   \* the rest of retryPendingMACsec's own copy of the list
  node,    \* what each leaf has saved: its LeafMACsec
  paired,  \* each leaf's own pairing token
  nonces,  \* nonces that have reached a leaf so far
  left     \* what is left of Budget

vars == <<leaves, lock, job, queue, node, paired, nonces, left>>

-----------------------------------------------------------------------------
(* LeafMACsec, as the main router saves it.  The KeyNonce is a number, 0    *)
(* when MACsec is nil.  mtu: UnderlayMTU.  from: the token of the leaf     *)
(* whose bridge MAC and public key the record holds.                       *)

Assoc(nonce, mode, port, jumbo, mtu, from) ==
  [nonce |-> nonce, mode |-> mode, port |-> port, jumbo |-> jumbo, mtu |-> mtu, from |-> from]

NoAssoc == Assoc(0, "macsec", 0, FALSE, 0, None)

Entry(ip, token, pending, mac) == [ip |-> ip, token |-> token, pending |-> pending, mac |-> mac]

Off == [nonce |-> 0, confirmed |-> FALSE, jumbo |-> FALSE, mtu |-> 0]

Idle == [at |-> "idle"]

Spend(e) == left[e] > 0 /\ left' = [left EXCEPT ![e] = @ - 1]

Ports == {leaves[i].mac.port : i \in DOMAIN leaves} \ {0}

\* allocateMACsecPort
FreePorts == (FirstPort..LastPort) \ Ports

LowestIn(S) == CHOOSE p \in S : \A q \in S : p <= q

\* findLeafByIP: the first match, 0 if there is none.
Find(ip) ==
  LET hits == {i \in DOMAIN leaves : leaves[i].ip = ip}
  IN  IF hits = {} THEN 0 ELSE LowestIn(hits)

\* Mutant: the leaf of a job is looked for by its address only.
FindAgainByIP(leaf) == Find(leaf.ip)

\* Where the leaf of a job is now, if it still is the same leaf (sameLeaf).
FindAgain(leaf) ==
  LET i == Find(leaf.ip) IN IF i # 0 /\ leaves[i].token = leaf.token THEN i ELSE 0

\* The elements of s at the positions in T, in their order: what a loop over s
\* appends that skips the others.
Rank(T, i) == Cardinality({j \in T : j <= i})

Keeping(s, T) == [k \in 1..Cardinality(T) |-> s[CHOOSE i \in T : Rank(T, i) = k]]

-----------------------------------------------------------------------------
Init ==
  /\ leaves = <<>> /\ lock = None /\ queue = <<>>
  /\ job = [w \in Workers |-> Idle]
  /\ node = [ip \in IPs |-> Off]
  /\ paired \in {f \in [IPs -> Tokens] : \A a, b \in IPs : f[a] = f[b] => a = b}
  /\ nonces = 0 /\ left = Budget

-----------------------------------------------------------------------------
(* The leaf: macsecPeer (code/macsec_api.go) behind its token check.       *)

\* A call counts only with the leaf's own pairing token.
Authentic(ip, token) == paired[ip] = token

\* An enable of the association it already has is an update that keeps the
\* confirmation.  Only WireGuard sends and saves the measured underlay MTU.
Accepts(ip, token, mac) ==
  /\ Authentic(ip, token)
  /\ node' = [node EXCEPT ![ip] =
       [nonce |-> mac.nonce, confirmed |-> @.confirmed /\ @.nonce = mac.nonce,
        jumbo |-> mac.jumbo, mtu |-> IF mac.mode = "wireguard" THEN mac.mtu ELSE 0]]
  /\ nonces' = IF mac.nonce > nonces THEN mac.nonce ELSE nonces

Releases(ip, token) == Authentic(ip, token) /\ node' = [node EXCEPT ![ip] = Off] /\ UNCHANGED nonces

Unanswered == UNCHANGED <<node, nonces>>

-----------------------------------------------------------------------------
(* macsecSetLeaf and enableLeafMACsec.                                     *)

\* Mutant: an early return forgets to unlock macsecChangeMtx.
FinishWithoutUnlock(w) == job' = [job EXCEPT ![w] = Idle] /\ UNCHANGED lock

Finish(w) == job' = [job EXCEPT ![w] = Idle] /\ lock' = None

GoOn(w, at) == job' = [job EXCEPT ![w].at = at] /\ UNCHANGED lock

\* The leaf keeps its port; otherwise it gets the lowest free one.
PortFor(leaf) == IF leaf.mac.port # 0 THEN leaf.mac.port ELSE LowestIn(FreePorts)

\* No port left, or none that WireGuard's address plan covers.
HasPort(leaf, mode) ==
  /\ leaf.mac.port # 0 \/ FreePorts # {}
  /\ mode = "wireguard" => PortFor(leaf) <= LastWGPort

\* The same mode keeps nonce and measured MTU; the jumbo setting stays anyway.
NextAssoc(leaf, mode) ==
  LET same == leaf.mac.nonce # 0 /\ leaf.mac.mode = mode
  IN  Assoc(IF same THEN leaf.mac.nonce ELSE nonces + 1, mode, PortFor(leaf),
            leaf.mac.jumbo, IF same THEN leaf.mac.mtu ELSE 0, leaf.token)

\* From the first Configmtx section to the call of the leaf.
SetBegin(w, ip, enable, mode) ==
  LET leaf == leaves[Find(ip)]
      next == IF enable THEN NextAssoc(leaf, mode) ELSE NoAssoc
      start(at) == [at |-> at, leaf |-> leaf, next |-> next]
  IN
  /\ lock = None /\ job[w] = Idle /\ Find(ip) # 0
  /\ enable => HasPort(leaf, mode)
  /\ lock' = w
  /\ job' = [job EXCEPT ![w] = start(IF enable THEN "enable"
                                     ELSE IF leaf.mac.nonce # 0 THEN "disable" ELSE "save")]
  /\ UNCHANGED <<leaves, node, paired, nonces>>

SetRequest(w, ip, enable, mode) ==
  /\ SetBegin(w, ip, enable, mode) /\ Spend("set") /\ UNCHANGED queue

\* The leaf accepts; refuses the token; or request or reply are lost.  Without an
\* answer nothing is saved.
EnableCall(w) ==
  LET leaf == job[w].leaf
      next == job[w].next
  IN
  /\ job[w].at = "enable"
  /\ \/ Accepts(leaf.ip, leaf.token, next) /\ GoOn(w, "save") /\ UNCHANGED left
     \/ ~Authentic(leaf.ip, leaf.token) /\ Unanswered /\ Finish(w) /\ UNCHANGED left
     \/ Spend("lost") /\ (Unanswered \/ Accepts(leaf.ip, leaf.token, next)) /\ Finish(w)
  /\ UNCHANGED <<leaves, queue, paired>>

\* Mutant: the leaf is not told.
DisableCallSkipped(w) ==
  /\ job[w].at = "disable"
  /\ Unanswered
  /\ GoOn(w, "save")
  /\ UNCHANGED <<leaves, queue, paired, left>>

\* Without an answer a signed frame is repeated for a while (disableOverWire), which
\* may reach the leaf or not; the change goes on in any case.
DisableCall(w) ==
  LET leaf == job[w].leaf IN
  /\ job[w].at = "disable"
  /\ \/ Releases(leaf.ip, leaf.token) /\ UNCHANGED left
     \/ ~Authentic(leaf.ip, leaf.token) /\ Unanswered /\ UNCHANGED left
     \/ Spend("lost") /\ (Unanswered \/ Releases(leaf.ip, leaf.token))
  /\ GoOn(w, "save")
  /\ UNCHANGED <<leaves, queue, paired>>

\* The second Configmtx section: the answer counts only if the list still has the
\* same leaf and nobody took the port.
SetSave(w) ==
  LET i == FindAgain(job[w].leaf)
      next == job[w].next
      clash == next.nonce # 0 /\ \E j \in DOMAIN leaves \ {i} : leaves[j].mac.port = next.port
  IN
  /\ job[w].at = "save"
  /\ leaves' = IF i = 0 \/ clash THEN leaves
               ELSE [leaves EXCEPT ![i].mac = next, ![i].pending = FALSE]
  /\ Finish(w)
  /\ UNCHANGED <<queue, node, paired, nonces, left>>

-----------------------------------------------------------------------------
(* retryPendingMACsec, every 20 seconds.                                   *)

NeedsRetry(e) == e.pending /\ e.mac.nonce = 0

RetryLoad ==
  /\ queue = <<>> /\ job[Retry] = Idle
  /\ \E i \in DOMAIN leaves : NeedsRetry(leaves[i])
  /\ queue' = Keeping(leaves, {i \in DOMAIN leaves : NeedsRetry(leaves[i])})
  /\ UNCHANGED <<leaves, lock, job, node, paired, nonces, left>>

\* One leaf of the copy: macsecSetLeaf with the default mode, WireGuard.
RetryNext ==
  /\ queue # <<>> /\ job[Retry] = Idle /\ lock = None
  /\ LET ip == Head(queue).ip IN
       IF Find(ip) # 0 /\ HasPort(leaves[Find(ip)], "wireguard")
         THEN SetBegin(Retry, ip, TRUE, "wireguard")
         ELSE UNCHANGED <<leaves, lock, job, node, paired, nonces>>
  /\ queue' = Tail(queue) /\ UNCHANGED left

-----------------------------------------------------------------------------
(* macsecSetJumbo, macsecTestMTU and pushLeafUpdate.                       *)

\* macsecSetJumbo: the other setting, nothing measured with it yet.
JumboFlipped(mac) == [mac EXCEPT !.jumbo = ~@, !.mtu = 0]

\* macsecTestMTU: what a test can find.
Measured(mac) == {[mac EXCEPT !.mtu = m] : m \in MTUs}

\* A handler, or the test that a pass starts by itself.
TuneBegin(w, ip) ==
  /\ lock = None /\ job[w] = Idle /\ Find(ip) # 0
  /\ LET leaf == leaves[Find(ip)] IN
       /\ leaf.mac.nonce # 0
       /\ \E next \in {JumboFlipped(leaf.mac)} \cup Measured(leaf.mac) :
            /\ next # leaf.mac
            /\ job' = [job EXCEPT ![w] = [at |-> "tune", leaf |-> leaf, next |-> next]]
  /\ lock' = w
  /\ Spend("tune")
  /\ UNCHANGED <<leaves, queue, node, paired, nonces>>

TuneCall(w) ==
  LET leaf == job[w].leaf
      next == job[w].next
  IN
  /\ job[w].at = "tune"
  /\ \/ Accepts(leaf.ip, leaf.token, next) /\ GoOn(w, "tuned") /\ UNCHANGED left
     \/ ~Authentic(leaf.ip, leaf.token) /\ Unanswered /\ Finish(w) /\ UNCHANGED left
     \/ Spend("lost") /\ (Unanswered \/ Accepts(leaf.ip, leaf.token, next)) /\ Finish(w)
  /\ UNCHANGED <<leaves, queue, paired>>

\* Mutant: the comparison of the nonces is inverted.
TuneSaveInverted(w) ==
  LET i == FindAgain(job[w].leaf) IN
  /\ job[w].at = "tuned"
  /\ leaves' = IF i # 0 /\ leaves[i].mac.nonce # job[w].next.nonce
                 THEN [leaves EXCEPT ![i].mac = job[w].next]
                 ELSE leaves
  /\ Finish(w)
  /\ UNCHANGED <<queue, node, paired, nonces, left>>

\* Saved only if the leaf still has the association that was tuned.
TuneSave(w) ==
  LET i == FindAgain(job[w].leaf) IN
  /\ job[w].at = "tuned"
  /\ leaves' = IF i # 0 /\ leaves[i].mac.nonce = job[w].next.nonce
                 THEN [leaves EXCEPT ![i].mac = job[w].next]
                 ELSE leaves
  /\ Finish(w)
  /\ UNCHANGED <<queue, node, paired, nonces, left>>

-----------------------------------------------------------------------------
(* leafRouter: PUT and DELETE.                                             *)

Matches(ip, token) == {i \in DOMAIN leaves : leaves[i].ip = ip /\ leaves[i].token = token}

\* Mutant: an enabled leaf stays in the list.
WithoutUnlessEnabled(ip, token) ==
  Keeping(leaves, {i \in DOMAIN leaves : i \notin Matches(ip, token) \/ leaves[i].mac.nonce # 0})

Without(ip, token) == Keeping(leaves, DOMAIN leaves \ Matches(ip, token))

\* chainTrustForNodeTLS: the certificate at this address comes with a digest that
\* only the holder of the token can make.
ChainTrust(ip, token) == paired[ip] = token

\* An entry with the same address and token is replaced, its association is kept.
Put(ip, token, pending) ==
  LET m == Matches(ip, token)
      mac == IF m = {} THEN NoAssoc ELSE leaves[CHOOSE i \in m : TRUE].mac
  IN
  /\ ChainTrust(ip, token) /\ Spend("put")
  /\ leaves' = Append(Without(ip, token), Entry(ip, token, pending /\ mac.nonce = 0, mac))
  /\ UNCHANGED <<lock, job, queue, node, paired, nonces>>

\* macsecReleaseLeaf up to its call.
DeleteBegin(w, ip, token) ==
  LET m == {i \in Matches(ip, token) : leaves[i].mac.nonce # 0}
      entry == Entry(ip, token, FALSE, NoAssoc)
  IN
  /\ lock = None /\ job[w] = Idle /\ Spend("delete")
  /\ IF m # {} THEN lock' = w ELSE UNCHANGED lock
  /\ job' = [job EXCEPT ![w] =
       [at |-> IF m # {} THEN "release" ELSE "remove", leaf |-> entry, next |-> NoAssoc]]
  /\ UNCHANGED <<leaves, queue, node, paired, nonces>>

\* Mutant: macsecChangeMtx is kept until after the removal.
DeleteReleaseKeepsLock(w) ==
  LET leaf == job[w].leaf IN
  /\ job[w].at = "release"
  /\ Releases(leaf.ip, leaf.token)
  /\ job' = [job EXCEPT ![w].at = "remove"]
  /\ UNCHANGED <<leaves, lock, queue, paired, left>>

\* A failed call is logged only; macsecChangeMtx is released here.
DeleteRelease(w) ==
  LET leaf == job[w].leaf IN
  /\ job[w].at = "release"
  /\ \/ Releases(leaf.ip, leaf.token) /\ UNCHANGED left
     \/ ~Authentic(leaf.ip, leaf.token) /\ Unanswered /\ UNCHANGED left
     \/ Spend("lost") /\ (Unanswered \/ Releases(leaf.ip, leaf.token))
  /\ job' = [job EXCEPT ![w].at = "remove"] /\ lock' = None
  /\ UNCHANGED <<leaves, queue, paired>>

DeleteRemove(w) ==
  /\ job[w].at = "remove"
  /\ leaves' = Without(job[w].leaf.ip, job[w].leaf.token)
  /\ job' = [job EXCEPT ![w] = Idle]
  /\ UNCHANGED <<lock, queue, node, paired, nonces, left>>

-----------------------------------------------------------------------------
(* The rest of the world.                                                  *)

\* The tunnel comes up while the leaf is on trial.
NodeConfirms(ip) ==
  /\ node[ip].nonce # 0 /\ ~node[ip].confirmed
  /\ \E i \in Matches(ip, paired[ip]) : leaves[i].mac.nonce = node[ip].nonce
  /\ node' = [node EXCEPT ![ip].confirmed = TRUE]
  /\ UNCHANGED <<leaves, lock, job, queue, paired, nonces, left>>

\* The tunnel does not come up in time (confirmOrRevert).
NodeReverts(ip) ==
  /\ node[ip].nonce # 0 /\ ~node[ip].confirmed
  /\ node' = [node EXCEPT ![ip] = Off]
  /\ UNCHANGED <<leaves, lock, job, queue, paired, nonces, left>>

\* The leaf is set up again with a token nobody has seen.
Repair(ip, token) ==
  /\ \A other \in IPs : paired[other] # token
  /\ \A i \in DOMAIN leaves : leaves[i].token # token
  /\ Spend("repair")
  /\ paired' = [paired EXCEPT ![ip] = token]
  /\ node' = [node EXCEPT ![ip] = Off]
  /\ UNCHANGED <<leaves, lock, job, queue, nonces>>

\* The main router's plugin ends and is started again.
Crash ==
  /\ Spend("crash")
  /\ \E w \in Workers : job[w] # Idle
  /\ lock' = None /\ queue' = <<>> /\ job' = [w \in Workers |-> Idle]
  /\ UNCHANGED <<leaves, node, paired, nonces>>

-----------------------------------------------------------------------------
WorkerStep(w) ==
  \/ EnableCall(w) \/ DisableCall(w) \/ SetSave(w)
  \/ TuneCall(w) \/ TuneSave(w)
  \/ DeleteRelease(w) \/ DeleteRemove(w)

Request(w) ==
  \E ip \in IPs :
    \/ \E enable \in BOOLEAN, mode \in Modes : SetRequest(w, ip, enable, mode)
    \/ TuneBegin(w, ip)
    \/ \E token \in Tokens : DeleteBegin(w, ip, token)

Next ==
  \/ \E w \in Workers : WorkerStep(w)
  \/ \E w \in Handlers : Request(w)
  \/ RetryLoad \/ RetryNext
  \/ \E ip \in IPs, token \in Tokens : (\E pending \in BOOLEAN : Put(ip, token, pending)) \/ Repair(ip, token)
  \/ \E ip \in IPs : NodeConfirms(ip) \/ NodeReverts(ip)
  \/ Crash

Spec == Init /\ [][Next]_vars

\* A request that has been entered runs to its end (every call has a timeout), and
\* the pending loop keeps running.
Fairness ==
  /\ \A w \in Workers : WF_vars(WorkerStep(w))
  /\ WF_vars(RetryLoad) /\ WF_vars(RetryNext)

FairSpec == Spec /\ Fairness

-----------------------------------------------------------------------------
(* Properties.                                                             *)

Assocs ==
  [nonce : 0..(nonces + 1), mode : Modes, port : {0} \cup FirstPort..LastPort, jumbo : BOOLEAN,
   mtu : {0} \cup MTUs, from : Tokens \cup {None}]

Entries == [ip : IPs, token : Tokens, pending : BOOLEAN, mac : Assocs]

\* Every variable keeps to its type, macsecChangeMtx is held exactly by a job that
\* needs it, and an entry has a port exactly when it has an association.
TypeOK ==
  /\ \A i \in DOMAIN leaves :
       leaves[i] \in Entries /\ leaves[i].mac.nonce <= nonces /\ (leaves[i].mac.port # 0 <=> leaves[i].mac.nonce # 0)
  /\ lock \in Workers \cup {None}
  /\ \A w \in Workers :
       /\ job[w].at \in {"idle", "enable", "disable", "save", "tune", "tuned", "release", "remove"}
       /\ job[w].at \notin {"idle", "remove"} <=> lock = w
       /\ job[w].at # "idle" => job[w].leaf \in Entries /\ job[w].next \in Assocs
  /\ \A i \in DOMAIN queue : queue[i] \in Entries
  /\ node \in [IPs -> [nonce : 0..nonces, confirmed : BOOLEAN, jumbo : BOOLEAN, mtu : {0} \cup MTUs]]
  /\ paired \in [IPs -> Tokens] /\ nonces \in Nat /\ left \in [Events -> Nat]

\* No two leaves share a port: it is the SCI of the main router's secY and the
\* tunnel's address and interface name (allocateMACsecPort and the check before
\* the save in macsecSetLeaf), whatever list changes meet the call.
DistinctPorts ==
  \A i, j \in DOMAIN leaves :
    i # j /\ leaves[i].mac.port # 0 => leaves[i].mac.port # leaves[j].mac.port

\* The bridge MAC and public key saved for a leaf are those of the very leaf they
\* are saved for, also when its address went to another leaf during the call
\* (sameLeaf in macsecSetLeaf and pushLeafUpdate).
OwnReply == \A i \in DOMAIN leaves :
  leaves[i].mac.nonce # 0 => leaves[i].mac.from = leaves[i].token

\* No call has been lost and the plugin has not crashed.
Calm == left["lost"] = Budget["lost"] /\ left["crash"] = Budget["crash"]

\* The main router and a leaf that it reaches agree: between the changes the leaf
\* runs the association saved for it, with the same jumbo setting and (WireGuard)
\* underlay MTU, or none because it took back an unconfirmed one.
Agree ==
  \A i \in DOMAIN leaves :
    LET e == leaves[i]
        n == node[e.ip]
    IN  Calm /\ lock = None /\ e.mac.nonce # 0 /\ paired[e.ip] = e.token /\ n.nonce # 0
          => /\ n.nonce = e.mac.nonce /\ n.jumbo = e.mac.jumbo
             /\ e.mac.mode = "wireguard" => n.mtu = e.mac.mtu

\* A leaf that insists on an encrypted uplink to a main router that has forgotten it.
Orphan(ip) ==
  /\ node[ip].confirmed
  /\ \A i \in Matches(ip, paired[ip]) : leaves[i].mac.nonce # node[ip].nonce

Resting == Calm /\ \A w \in Workers : job[w] = Idle

\* As long as no leaf is deleted, none is left behind.
NoOrphan == Resting /\ left["delete"] = Budget["delete"] => \A ip \in IPs : ~Orphan(ip)

\* Deleting a leaf releases it first: TestLeafRouterDeleteReleasesMACsec
\* (macsec_api_test.go) fails with "leaf not released".
DeleteLeavesNoOrphan == Resting => \A ip \in IPs : ~Orphan(ip)

\* The leaf that answers at an address waits for its encrypted link.
Waiting(ip) ==
  /\ Find(ip) # 0
  /\ LET e == leaves[Find(ip)]
     IN  NeedsRetry(e) /\ paired[ip] = e.token /\ HasPort(e, "wireguard")

\* A pending request is carried out or cancelled, although calls fail and the
\* plugin restarts (macsecPendingLoop).
PendingCompletes == \A ip \in IPs : Waiting(ip) ~> ~Waiting(ip)
=============================================================================
