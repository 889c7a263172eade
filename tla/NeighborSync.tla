---------------------------- MODULE NeighborSync ----------------------------
(***************************************************************************)
(* Neighbour reports of the mesh's access points (code/mesh_neighbors.go), *)
(* and setSSID (code/mesh.go), which changes what they are about.          *)
(*                                                                         *)
(* Once a minute, and after a change of the leaf list, the main router     *)
(* collects the BSSes of every node (syncMeshNeighbors) and hands the      *)
(* whole list to each of them, itself included; each node tells its own    *)
(* hostapd about the compatible ones and takes back those it had set       *)
(* before (meshApplyNeighbors).  What it has set is remembered in a file.  *)
(*                                                                         *)
(* hostapd restarts, access points change network, calls are lost or       *)
(* outlive the client's patience, plugins crash; the model takes one step  *)
(* per call to another process.                                            *)
(***************************************************************************)
EXTENDS Integers, FiniteSets

CONSTANTS
  Main,      \* the main router
  Leaves,    \* the nodes that may be registered as its leaves
  Aps,       \* AP interfaces of all nodes; stands for their BSSIDs too
  NodeOf,    \* the node an AP interface belongs to
  Networks,  \* what an AP can run: records [ssid, mgmt, ciphers]
  Start,     \* the one all APs run to begin with
  Off,       \* hostapd is not running, or not in state ENABLED
  MaxAPs,    \* longest list meshApplyNeighbors takes (128 in the code)
  Budgets    \* bound: how often each outside event may happen, one per scenario

Nodes == {Main} \cup Leaves

Events == {"ap", "member", "ssid", "fault", "lost", "late", "crash"}

ASSUME NodeAssumption == Main \notin Leaves /\ NodeOf \in [Aps -> Nodes] /\ Off \notin Networks
ASSUME NetworkAssumption == Start \in Networks /\ \A v, w \in Networks : [v EXCEPT !.ssid = w.ssid] \in Networks
ASSUME BoundAssumption == MaxAPs \in Nat /\ Budgets \subseteq [Events -> Nat]

VARIABLES
  net,      \* the network each AP runs, or Off
  table,    \* the neighbours set in each AP's hostapd
  file,     \* neighbors.json of each node: the neighbours it has set, per AP
  job,      \* the meshApplyNeighbors running at each node, under meshNeighborMu
  put,      \* PUT /neighbors requests on their way
  leaves,   \* config.LeafRouters of the main router
  round,    \* the main router's syncMeshNeighbors, under meshSyncMu
  rename,   \* the running setSSID handlers: APs still to be told, and the new SSID
  left,     \* what is left of the scenario's budget
  orphan    \* history: neighbours set by an apply that ended before its save, or
            \*   that hostapd failed to remove

radio == <<net, table>>
vars == <<net, table, file, job, put, leaves, round, rename, left, orphan>>

-----------------------------------------------------------------------------
ApsOf(n) == {a \in Aps : NodeOf[a] = n}

SSIDs == {w.ssid : w \in Networks}

\* MeshBSS: the network comes with its SSID and Security.
BSS == [ap : Aps, net : Networks]

\* meshNeighborKey
Keys == [bssid : Aps, ssid : SSIDs]

KeyOf(b) == [bssid |-> b.ap, ssid |-> b.net.ssid]

\* Same SSID and meshSecurityCompatible: one pairwise cipher in common is enough.
Compatible(v, w) ==
  /\ v.ssid = w.ssid /\ v.mgmt = w.mgmt
  /\ v.ciphers = w.ciphers \/ v.ciphers \cap w.ciphers # {}

\* Mutant: an AP is not told apart from its peers.
WantSelf(b, list) == {KeyOf(p) : p \in {q \in list : Compatible(q.net, b.net)}}

\* `want`: the neighbours of a local BSS in a list.
Want(b, list) == {KeyOf(p) : p \in {q \in list : q.ap # b.ap /\ Compatible(q.net, b.net)}}

\* meshLocalBSSes without the interfaces whose hostapd did not answer.
Inventory(n, silent) ==
  {[ap |-> a, net |-> net[a]] : a \in {x \in ApsOf(n) \ silent : net[x] # Off}}

NoFile == [a \in Aps |-> {}]

NoJob == [on |-> FALSE, list |-> {}, todo |-> {}, at |-> {}, done |-> {}, previous |-> NoFile]

NoRound == [pc |-> "idle", ask |-> {}, all |-> {}, reachable |-> {}, wait |-> {}]

Spend(e) == left[e] > 0 /\ left' = [left EXCEPT ![e] = @ - 1]

\* The interfaces of n that do not answer meshLocalBSSes.
Silent(n, silent) ==
  /\ silent \subseteq ApsOf(n)
  /\ IF silent = {} THEN UNCHANGED left ELSE Spend("fault")

-----------------------------------------------------------------------------
Init ==
  /\ net = [a \in Aps |-> Start]
  /\ table = NoFile /\ file = [n \in Nodes |-> NoFile]
  /\ job = [n \in Nodes |-> NoJob] /\ put = {}
  /\ leaves = Leaves
  /\ round = NoRound /\ rename = {}
  /\ left \in Budgets
  /\ orphan = NoFile

-----------------------------------------------------------------------------
(* meshApplyNeighbors                                                      *)

\* Mutant: the record of an interface that does not answer is dropped.
BeginForgetful(n, list, silent) ==
  LET locals == Inventory(n, silent) IN
  [NoJob EXCEPT !.on = TRUE, !.list = list, !.todo = locals,
   !.previous = [a \in Aps |-> IF \E b \in locals : b.ap = a THEN file[n][a] ELSE {}]]

\* The lock is taken, the list is short enough, the local BSSes and the file are
\* read.  The record of an interface that does not answer is kept as it is.
Begin(n, list, silent) ==
  [NoJob EXCEPT !.on = TRUE, !.list = list, !.todo = Inventory(n, silent), !.previous = file[n]]

TooMany(list) == Cardinality(list) > MaxAPs

\* The handler returns, and with it the main router's call if it still waits.
Return(n) ==
  /\ job' = [job EXCEPT ![n] = NoJob]
  /\ round' = [round EXCEPT !.wait = @ \ {n}]

\* ... before the file is written: what was set since is on no record.
Abort(n) ==
  /\ Return(n)
  /\ orphan' = [a \in Aps |-> IF NodeOf[a] = n THEN orphan[a] \cup (table'[a] \ file[n][a])
                                               ELSE orphan[a]]

\* The local BSSes have their turn one after the other.
Serves(n, b) == job[n].on /\ b \in job[n].todo /\ job[n].at \subseteq {b}

\* SET_NEIGHBOR for one that is wanted.
ApplySet(n, b, k) ==
  /\ Serves(n, b) /\ k \in Want(b, job[n].list) \ job[n].done /\ net[b.ap] # Off
  /\ table' = [table EXCEPT ![b.ap] = @ \cup {k}]
  /\ job' = [job EXCEPT ![n].at = {b}, ![n].done = @ \cup {k}]
  /\ UNCHANGED <<net, file, put, leaves, round, rename, left, orphan>>

\* It fails, carried out or not (hostapd may have gone since the BSS was read): those
\* before it stay set and the whole apply ends.
ApplyFails(n, b, k) ==
  /\ Serves(n, b) /\ k \in Want(b, job[n].list) \ job[n].done
  /\ \/ net[b.ap] = Off /\ UNCHANGED <<table, left>>
     \/ net[b.ap] # Off /\ Spend("fault") /\ table' \in {table, [table EXCEPT ![b.ap] = @ \cup {k}]}
  /\ Abort(n)
  /\ UNCHANGED <<net, file, put, leaves, rename>>

\* Mutant: neighbours that are no longer wanted stay.
ApplyRemoveNone(n, b, k) ==
  /\ Serves(n, b) /\ Want(b, job[n].list) \subseteq job[n].done
  /\ k \in job[n].previous[b.ap] \ Want(b, job[n].list)
  /\ job' = [job EXCEPT ![n].at = {b}, ![n].previous[b.ap] = @ \ {k}]
  /\ UNCHANGED <<radio, orphan, left>>
  /\ UNCHANGED <<net, file, put, leaves, round, rename>>

\* All wanted ones are set: REMOVE_NEIGHBOR for one of the previous record that is
\* not wanted.  When it fails that is ignored.
ApplyRemove(n, b, k) ==
  /\ Serves(n, b) /\ Want(b, job[n].list) \subseteq job[n].done
  /\ k \in job[n].previous[b.ap] \ Want(b, job[n].list)
  /\ job' = [job EXCEPT ![n].at = {b}, ![n].previous[b.ap] = @ \ {k}]
  /\ \/ table' = [table EXCEPT ![b.ap] = @ \ {k}] /\ UNCHANGED <<orphan, left>>
     \/ /\ k \in table[b.ap] /\ Spend("fault")
        /\ orphan' = [orphan EXCEPT ![b.ap] = @ \cup {k}] /\ UNCHANGED table
  /\ UNCHANGED <<net, file, put, leaves, round, rename>>

\* What is wanted goes on record, and the next local BSS has its turn.
ApplyNext(n, b) ==
  /\ Serves(n, b) /\ Want(b, job[n].list) \subseteq job[n].done
  /\ job[n].previous[b.ap] \subseteq Want(b, job[n].list)
  /\ job' = [job EXCEPT ![n].todo = @ \ {b}, ![n].at = {}, ![n].done = {},
                        ![n].previous[b.ap] = Want(b, job[n].list)]
  /\ UNCHANGED <<radio, file, put, leaves, round, rename, left, orphan>>

\* The file is written to a temporary name and renamed.
ApplySave(n) ==
  /\ job[n].on /\ job[n].todo = {}
  /\ file' = [file EXCEPT ![n] = job[n].previous]
  /\ orphan' = [a \in Aps |-> IF NodeOf[a] = n THEN orphan[a] \ job[n].previous[a] ELSE orphan[a]]
  /\ Return(n)
  /\ UNCHANGED <<radio, put, leaves, rename, left>>

ApplySaveFails(n) ==
  /\ job[n].on /\ job[n].todo = {} /\ Spend("fault")
  /\ UNCHANGED table
  /\ Abort(n)
  /\ UNCHANGED <<net, file, put, leaves, rename>>

ApplyStep(n) ==
  \/ \E b \in job[n].todo : ApplyNext(n, b) \/ \E k \in Keys : ApplySet(n, b, k) \/ ApplyFails(n, b, k) \/ ApplyRemove(n, b, k)
  \/ ApplySave(n) \/ ApplySaveFails(n)

-----------------------------------------------------------------------------
(* syncMeshNeighbors: one round of the main router.                        *)

\* Nothing is done while the main router's own Wi-Fi is restarting.
RoundSkip == round.pc = "idle" /\ Inventory(Main, {}) = {} /\ UNCHANGED vars

RoundStart(silent) ==
  /\ round.pc = "idle" /\ Silent(Main, silent)
  /\ Inventory(Main, silent) # {}
  /\ round' = [NoRound EXCEPT !.pc = "ask", !.ask = leaves, !.all = Inventory(Main, silent)]
  /\ UNCHANGED <<radio, file, job, put, leaves, rename, orphan>>

\* GET /bsses, meshBSSesHandler: a leaf without a BSS counts as unreachable.
Asked(l, silent) ==
  LET bsses == Inventory(l, silent) IN
  /\ round.pc = "ask" /\ l \in round.ask /\ Silent(l, silent)
  /\ round' = [round EXCEPT !.ask = @ \ {l}, !.all = @ \cup bsses,
                            !.reachable = IF bsses = {} THEN @ ELSE @ \cup {l}]
  /\ UNCHANGED <<radio, file, job, put, leaves, rename, orphan>>

AskFails(l) ==
  /\ round.pc = "ask" /\ l \in round.ask /\ Spend("lost")
  /\ round' = [round EXCEPT !.ask = @ \ {l}]
  /\ UNCHANGED <<radio, file, job, put, leaves, rename, orphan>>

\* The main router applies the list itself; a list that is too long is refused.
RoundApply(silent) ==
  /\ round.pc = "ask" /\ round.ask = {} /\ ~job[Main].on
  /\ round' = [round EXCEPT !.pc = "apply"]
  /\ IF TooMany(round.all) THEN silent = {} /\ UNCHANGED <<job, left>>
       ELSE Silent(Main, silent) /\ job' = [job EXCEPT ![Main] = Begin(Main, round.all, silent)]
  /\ UNCHANGED <<radio, file, put, leaves, rename, orphan>>

\* Mutant: every leaf is sent the list.
RoundSendAll ==
  /\ round.pc = "apply" /\ ~job[Main].on
  /\ put' = put \cup {[to |-> l, list |-> round.all] : l \in leaves}
  /\ round' = [round EXCEPT !.pc = "send", !.wait = leaves]
  /\ UNCHANGED <<radio, file, job, leaves, rename, left, orphan>>

\* An error of the local apply is only logged.
RoundSend ==
  /\ round.pc = "apply" /\ ~job[Main].on
  /\ put' = put \cup {[to |-> l, list |-> round.all] : l \in round.reachable}
  /\ round' = [round EXCEPT !.pc = "send", !.wait = round.reachable]
  /\ UNCHANGED <<radio, file, job, leaves, rename, left, orphan>>

RoundEnd ==
  /\ round.pc = "send" /\ round.wait = {}
  /\ round' = NoRound
  /\ UNCHANGED <<radio, file, job, put, leaves, rename, left, orphan>>

\* PUT /neighbors reaches the leaf: meshNeighborsHandler.
PutArrives(m, silent) ==
  /\ m \in put /\ ~job[m.to].on
  /\ put' = put \ {m}
  /\ IF TooMany(m.list)
       THEN silent = {} /\ Return(m.to) /\ UNCHANGED left
       ELSE /\ Silent(m.to, silent)
            /\ job' = [job EXCEPT ![m.to] = Begin(m.to, m.list, silent)]
            /\ UNCHANGED round
  /\ UNCHANGED <<radio, file, leaves, rename, orphan>>

PutLost(m) ==
  /\ m \in put /\ Spend("lost")
  /\ put' = put \ {m}
  /\ round' = [round EXCEPT !.wait = @ \ {m.to}]
  /\ UNCHANGED <<radio, file, job, leaves, rename, orphan>>

\* The client gives up after its timeout; request and handler go on.
PutLate(l) ==
  /\ l \in round.wait /\ Spend("late")
  /\ round' = [round EXCEPT !.wait = @ \ {l}]
  /\ UNCHANGED <<radio, file, job, put, leaves, rename, orphan>>

-----------------------------------------------------------------------------
(* setSSID, the leaf list, access points and crashes.                      *)

\* The leaf list is read once; every AP of a listed leaf is to be told.  Nothing keeps
\* two of them apart.
SetSSID(s) ==
  LET todo == {a \in Aps : NodeOf[a] \in leaves} IN
  /\ todo # {} /\ Spend("ssid")
  /\ rename' = rename \cup {[todo |-> todo, ssid |-> s]}
  /\ UNCHANGED <<radio, file, job, put, leaves, round, orphan>>

\* hostapd restarts with what it is told, or the call fails and the next AP follows.
SetSSIDCall(r, a) ==
  /\ r \in rename /\ a \in r.todo
  /\ rename' = (rename \ {r}) \cup {q \in {[r EXCEPT !.todo = @ \ {a}]} : q.todo # {}}
  /\ \/ /\ net[a] # Off
        /\ net' = [net EXCEPT ![a].ssid = r.ssid]
        /\ table' = [table EXCEPT ![a] = {}] /\ orphan' = [orphan EXCEPT ![a] = {}]
        /\ UNCHANGED left
     \/ net[a] = Off /\ UNCHANGED <<radio, orphan, left>>
     \/ Spend("lost") /\ UNCHANGED <<radio, orphan>>
  /\ UNCHANGED <<file, job, put, leaves, round>>

\* hostapd (re)starts on a network or stops: it forgets its neighbours.
ApChanges(a, w) ==
  /\ Spend("ap")
  /\ net' = [net EXCEPT ![a] = w]
  /\ table' = [table EXCEPT ![a] = {}] /\ orphan' = [orphan EXCEPT ![a] = {}]
  /\ UNCHANGED <<file, job, put, leaves, round, rename>>

\* leafRouter: a leaf is removed or registered again.
LeafListed(l) ==
  /\ Spend("member")
  /\ leaves' = IF l \in leaves THEN leaves \ {l} ELSE leaves \cup {l}
  /\ UNCHANGED <<radio, file, job, put, round, rename, orphan>>

\* The plugin of a node dies and is started again.
Crash(n) ==
  /\ Spend("crash")
  /\ job' = [job EXCEPT ![n] = NoJob]
  /\ put' = {m \in put : m.to # n}
  /\ round' = IF n = Main THEN NoRound ELSE [round EXCEPT !.wait = @ \ {n}]
  /\ rename' = IF n = Main THEN {} ELSE rename
  /\ orphan' = [a \in Aps |-> IF NodeOf[a] = n /\ job[n].on
                                THEN orphan[a] \cup (table[a] \ file[n][a]) ELSE orphan[a]]
  /\ UNCHANGED <<radio, file, leaves>>

-----------------------------------------------------------------------------
RoundStep ==
  \/ \E s \in SUBSET ApsOf(Main) : RoundStart(s) \/ RoundApply(s)
  \/ \E l \in Leaves : \E s \in SUBSET ApsOf(l) : Asked(l, s)
  \/ RoundSkip \/ RoundSend \/ RoundEnd

Arrives(l) == \E m \in put : m.to = l /\ \E s \in SUBSET ApsOf(l) : PutArrives(m, s)

Rename == \E r \in rename : \E a \in Aps : SetSSIDCall(r, a)

Next ==
  \/ RoundStep \/ \E l \in Leaves : AskFails(l) \/ PutLate(l) \/ LeafListed(l) \/ Arrives(l)
  \/ \E m \in put : PutLost(m)
  \/ \E n \in Nodes : ApplyStep(n) \/ Crash(n)
  \/ \E s \in SSIDs : SetSSID(s)
  \/ Rename
  \/ \E a \in Aps, w \in Networks \cup {Off} : ApChanges(a, w)

Spec == Init /\ [][Next]_vars

\* The ticker starts a round every minute, every call has a deadline, a handler
\* that was entered gets the lock and returns.
Fairness ==
  /\ WF_vars(RoundStep) /\ WF_vars(Rename)
  /\ \A l \in Leaves : WF_vars(Arrives(l))
  /\ \A n \in Nodes : WF_vars(ApplyStep(n))

FairSpec == Spec /\ Fairness

-----------------------------------------------------------------------------
(* Properties.                                                             *)

\* Types of the lists, tables and records; an AP is never its own neighbour,
\* although every list contains it.
TypeOK ==
  /\ net \in [Aps -> Networks \cup {Off}]
  /\ table \in [Aps -> SUBSET Keys] /\ orphan \in [Aps -> SUBSET Keys]
  /\ \A n \in Nodes : file[n] \in [Aps -> SUBSET Keys] /\ job[n].list \subseteq BSS
  /\ \A a \in Aps : \A k \in table[a] : k.bssid # a
  /\ leaves \subseteq Leaves
  /\ round.pc \in {"idle", "ask", "apply", "send"} /\ round.all \subseteq BSS
  /\ round.ask \cup round.reachable \cup round.wait \subseteq Leaves

\* What a node has set in hostapd is in its file whenever no apply is running, so
\* that a later apply can take it back; only an apply that ended before its save,
\* or a REMOVE_NEIGHBOR that failed, leaves something it does not know of.  In particular the record of an interface
\* that did not answer survives (meshApplyNeighbors writes back what it read).
Tracked ==
  \A a \in Aps : ~job[NodeOf[a]].on => table[a] \subseteq file[NodeOf[a]][a] \cup orphan[a]

\* A node takes a neighbour back only because of a list it is part of itself: a
\* leaf whose inventory could not be had is not sent the list without it
\* (`reachable` in syncMeshNeighbors), and keeps the neighbours it has.
KeepsNeighbours ==
  [][\A a \in Aps :
       LET n == NodeOf[a] IN
       job'[n] # job[n] /\ ~(table[a] \subseteq table'[a])
         => \E b \in job[n].list : NodeOf[b.ap] = n]_vars

\* What an AP should know: the compatible APs of the main router and its leaves.
Member(n) == n = Main \/ n \in leaves

Present == {[ap |-> a, net |-> net[a]] : a \in {x \in Aps : Member(NodeOf[x]) /\ net[x] # Off}}

Settled ==
  \A b \in Present :
    /\ Want(b, Present) \subseteq table[b.ap]
    /\ table[b.ap] \subseteq Want(b, Present) \cup orphan[b.ap]

\* Once nothing changes any more, every AP of the mesh ends up knowing exactly the
\* compatible APs of the mesh, whatever calls were lost, lists arrived late or out
\* of order, or interfaces were silent before; orphans of a failed apply or removal may stay.
\* (The main router needs an AP of its own: without one its rounds do nothing, and
\* with more than MaxAPs every node refuses the list.)
Converges ==
  <>[](Inventory(Main, {}) # {} /\ ~TooMany(Present)) => <>[]Settled
=============================================================================
