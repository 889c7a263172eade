---------------------------- MODULE StationAccess ----------------------------
(***************************************************************************)
(* Stations of a mesh node (code/mesh.go): wifiConnect and wifiDisconnect  *)
(* put a station's interface into br0, isolate it and keep the nft map     *)
(* bridge_access, which lets a station's address pass on its interface;    *)
(* each event is published to the main router.                             *)
(*                                                                         *)
(* The handlers run concurrently and take no lock: updateBridgeAccess      *)
(* reads the map, deletes what it has read and adds its own element with   *)
(* separate nft commands.  hostapd gives each station an interface of its  *)
(* own and reports its events in the order it notices them, which for a    *)
(* station that roams is the new association first.                        *)
(***************************************************************************)
EXTENDS Integers, Sequences, FiniteSets

CONSTANTS
  Macs,      \* stations
  Ifaces,    \* names of station interfaces
  Handlers,  \* requests the plugin handles at the same time
  None,      \* not associated
  Budgets    \* bound: how often each outside event may happen, one per scenario

Events == {"join", "role", "creds", "fault", "lost"}

ASSUME NoneAssumption == None \notin Ifaces /\ None \notin Macs
ASSUME BudgetAssumption == Budgets \subseteq [Events -> Nat]

VARIABLES
  assoc,    \* the interface each station is associated on
  ghosts,   \* associations a station has left without hostapd noticing yet
  port,     \* each interface: "absent", "free", "open" or "isolated" port of br0
  reports,  \* station events hostapd has reported, in order
  access,   \* the nft map bridge_access
  hand,     \* the handler of each request
  leaf,     \* isLeafRouter()
  creds,    \* parent credentials are configured
  flight,   \* events on their way to the main router
  parent,   \* stations the main router knows of at this node
  left,     \* what is left of the scenario's budget
  fresh,    \* history: grants given to the present instance of their interface
  lapse,    \* history: a report met another one about the same station or
            \* interface, was ignored, came after its successor, or a call failed
  missed    \* history: an event was not published or lost, or overtook another

air    == <<assoc, ghosts, reports>>
node   == <<port, access, hand, leaf, fresh, lapse>>
uplink == <<creds, flight, parent, missed>>
vars == <<air, node, uplink, left>>

-----------------------------------------------------------------------------
Grant(e) == <<e.iface, e.mac>>

\* WifiConnectEvent.  cur: the instance of the interface it is about still exists.
Report(kind, i, m) == [kind |-> kind, iface |-> i, mac |-> m, cur |-> TRUE]

NoEvent == [kind |-> "none", iface |-> None, mac |-> None, cur |-> FALSE]

Idle == [pc |-> "idle", ev |-> NoEvent, todo |-> {}]

Related(e, f) == e.iface = f.iface \/ e.mac = f.mac

\* Mutant: only the interface's element is looked for.
SharesIface(g, e) == g[1] = e.iface

\* An element of the map that updateBridgeAccess deletes for an event.
Shares(g, e) == g[1] = e.iface \/ g[2] = e.mac

Spend(e) == left[e] > 0 /\ left' = [left EXCEPT ![e] = @ - 1]

Used == {assoc[m] : m \in Macs} \cup {g[1] : g \in ghosts}

\* Interface i is deleted: what was about it is about an instance that is gone.
Deleted(i) ==
  /\ port' = [port EXCEPT ![i] = "absent"]
  /\ fresh' = {g \in fresh : g[1] # i}
  /\ hand' = [h \in Handlers |->
                IF hand[h].ev.iface = i THEN [hand[h] EXCEPT !.ev.cur = FALSE] ELSE hand[h]]

Outdated(i) == [k \in DOMAIN reports |->
                  IF reports[k].iface = i THEN [reports[k] EXCEPT !.cur = FALSE] ELSE reports[k]]

-----------------------------------------------------------------------------
Init ==
  /\ assoc = [m \in Macs |-> None] /\ ghosts = {} /\ reports = <<>>
  /\ port = [i \in Ifaces |-> "absent"] /\ access = {}
  /\ hand = [h \in Handlers |-> Idle] /\ leaf = TRUE
  /\ creds = TRUE /\ flight = <<>> /\ parent = {}
  /\ left \in Budgets
  /\ fresh = {} /\ lapse = FALSE /\ missed = FALSE

-----------------------------------------------------------------------------
(* hostapd                                                                 *)

\* A station associates, or moves to another access point of this node.
Associate(m, i) ==
  /\ i \notin Used /\ Spend("join")
  /\ assoc' = [assoc EXCEPT ![m] = i]
  /\ ghosts' = IF assoc[m] = None THEN ghosts ELSE ghosts \cup {<<assoc[m], m>>}
  /\ port' = [port EXCEPT ![i] = "free"]
  /\ reports' = Append(reports, Report("connect", i, m))
  /\ UNCHANGED <<access, hand, leaf, fresh, lapse, uplink>>

\* The station leaves, or the access point it left notices.
Leave(m) ==
  /\ assoc[m] # None
  /\ assoc' = [assoc EXCEPT ![m] = None] /\ UNCHANGED ghosts
  /\ Deleted(assoc[m])
  /\ reports' = Append(Outdated(assoc[m]), Report("disconnect", assoc[m], m))
  /\ UNCHANGED <<access, leaf, lapse, uplink, left>>

Notice(g) ==
  /\ g \in ghosts
  /\ ghosts' = ghosts \ {g} /\ UNCHANGED assoc
  /\ Deleted(g[1])
  /\ reports' = Append(Outdated(g[1]), Report("disconnect", g[1], g[2]))
  /\ UNCHANGED <<access, leaf, lapse, uplink, left>>

-----------------------------------------------------------------------------
(* wifiConnect, wifiDisconnect, updateBridgeAccess                         *)

Busy(h) == hand[h].pc # "idle"

GoTo(h, where) == hand' = [hand EXCEPT ![h].pc = where]

Done(h) == hand' = [hand EXCEPT ![h] = Idle]

\* A disconnect whose station is associated again, or whose interface is in use.
Overtaken(e) ==
  e.kind = "disconnect" /\ (assoc[e.mac] # None \/ \E m \in Macs : assoc[m] = e.iface)

\* Mutant: both handlers begin with the bridge.
HandleJoins(h) ==
  /\ reports # <<>> /\ ~Busy(h)
  /\ reports' = Tail(reports)
  /\ hand' = [hand EXCEPT ![h] = [pc |-> "join", ev |-> Head(reports), todo |-> {}]]
  /\ UNCHANGED <<assoc, ghosts, port, access, leaf, fresh, lapse, uplink, left>>

\* A request comes in.  Its event is published first, by a goroutine of its own.
Handle(h) ==
  LET e == Head(reports)
      p == IF e.kind = "connect" THEN "join" ELSE "read" IN
  /\ reports # <<>> /\ ~Busy(h)
  /\ reports' = Tail(reports)
  /\ hand' = IF leaf THEN [hand EXCEPT ![h] = [pc |-> p, ev |-> e, todo |-> {}]] ELSE hand
  /\ flight' = IF leaf THEN Append(flight, [e EXCEPT !.cur = FALSE]) ELSE flight
  /\ missed' = (missed \/ ~leaf)
  /\ lapse' = (lapse \/ ~leaf \/ Overtaken(e)
                \/ \E k \in Handlers : Busy(k) /\ Related(hand[k].ev, e))
  /\ UNCHANGED <<assoc, ghosts, port, access, leaf, fresh, creds, parent, left>>

\* ip link set master br0: nothing changes for a port that is in it already.
Join(h) ==
  LET i == hand[h].ev.iface IN
  /\ hand[h].pc = "join"
  /\ \/ /\ port[i] # "absent" /\ GoTo(h, "isolate")
        /\ port' = IF port[i] = "free" THEN [port EXCEPT ![i] = "open"] ELSE port
        /\ UNCHANGED <<left, lapse>>
     \/ port[i] = "absent" /\ Done(h) /\ UNCHANGED <<port, left, lapse>>
     \/ Spend("fault") /\ lapse' = TRUE /\ Done(h) /\ UNCHANGED port
  /\ UNCHANGED <<air, access, leaf, fresh, uplink>>

\* Mutant: a failure to isolate the port is not the end of it.
IsolateOrNot(h) ==
  LET i == hand[h].ev.iface IN
  /\ hand[h].pc = "isolate" /\ GoTo(h, "read")
  /\ \/ port[i] # "absent" /\ port' = [port EXCEPT ![i] = "isolated"] /\ UNCHANGED <<left, lapse>>
     \/ Spend("fault") /\ lapse' = TRUE /\ UNCHANGED port
  /\ UNCHANGED <<air, access, leaf, fresh, uplink>>

\* bridge link set isolated on: fails for an interface that is no port.  After a
\* failure the port stays in br0 and the map is left alone.
Isolate(h) ==
  LET i == hand[h].ev.iface IN
  /\ hand[h].pc = "isolate"
  /\ \/ /\ port[i] \in {"open", "isolated"} /\ GoTo(h, "read")
        /\ port' = [port EXCEPT ![i] = "isolated"] /\ UNCHANGED <<left, lapse>>
     \/ port[i] \in {"absent", "free"} /\ Done(h) /\ UNCHANGED <<port, left, lapse>>
     \/ Spend("fault") /\ lapse' = TRUE /\ Done(h) /\ UNCHANGED port
  /\ UNCHANGED <<air, access, leaf, fresh, uplink>>

\* getExistingBridgeSet: an nft call or answer that cannot be used is an empty map.
ReadMap(h) ==
  /\ hand[h].pc = "read"
  /\ \/ /\ hand' = [hand EXCEPT ![h].pc = "delete",
                                ![h].todo = {g \in access : Shares(g, hand[h].ev)}]
        /\ UNCHANGED <<left, lapse>>
     \/ Spend("fault") /\ lapse' = TRUE /\ GoTo(h, "delete")
  /\ UNCHANGED <<air, port, access, leaf, fresh, uplink>>

\* nft delete element, a command of its own for each element that was found.
\* Nobody looks whether it worked.
DeleteElement(h) ==
  \E g \in hand[h].todo :
    /\ hand[h].pc = "delete" /\ hand' = [hand EXCEPT ![h].todo = @ \ {g}]
    /\ \/ access' = access \ {g} /\ fresh' = fresh \ {g} /\ UNCHANGED <<left, lapse>>
       \/ Spend("fault") /\ lapse' = TRUE /\ UNCHANGED <<access, fresh>>
    /\ UNCHANGED <<air, port, leaf, uplink>>

\* Mutant: elements are deleted to make room only.
DeletesDoneForAdd(h) ==
  /\ hand[h].pc = "delete"
  /\ IF hand[h].ev.kind = "connect" THEN hand[h].todo = {} /\ GoTo(h, "add") ELSE Done(h)
  /\ UNCHANGED <<air, port, access, leaf, fresh, lapse, uplink, left>>

DeletesDone(h) ==
  /\ hand[h].pc = "delete" /\ hand[h].todo = {}
  /\ IF hand[h].ev.kind = "connect" THEN GoTo(h, "add") ELSE Done(h)
  /\ UNCHANGED <<air, port, access, leaf, fresh, lapse, uplink, left>>

\* nft add element: whether it worked is not looked at either.
AddElement(h) ==
  LET e == hand[h].ev IN
  /\ hand[h].pc = "add" /\ Done(h)
  /\ \/ /\ access' = access \cup {Grant(e)}
        /\ fresh' = IF e.cur THEN fresh \cup {Grant(e)} ELSE fresh
        /\ UNCHANGED <<left, lapse>>
     \/ Spend("fault") /\ lapse' = TRUE /\ UNCHANGED <<access, fresh>>
  /\ UNCHANGED <<air, port, leaf, uplink>>

HandlerStep(h) ==
  Join(h) \/ Isolate(h) \/ ReadMap(h) \/ DeleteElement(h) \/ DeletesDone(h) \/ AddElement(h)

-----------------------------------------------------------------------------
(* callParentAPI and the main router                                       *)

Without(s, k) == SubSeq(s, 1, k - 1) \o SubSeq(s, k + 1, Len(s))

\* Mutant: the parent is told of connections only.
PublishConnects(k) ==
  LET e == flight[k] IN
  /\ parent' = IF creds /\ e.kind = "connect" THEN parent \cup {Grant(e)} ELSE parent
  /\ flight' = Without(flight, k)
  /\ missed' = (missed \/ ~creds \/ \E j \in 1..(k - 1) : Related(flight[j], e))
  /\ UNCHANGED <<air, node, creds, left>>

\* The goroutine reads the credentials, gives up without them, and calls.  The
\* goroutines of two events are not ordered.
Publish(k) ==
  LET e == flight[k] IN
  /\ parent' = IF ~creds THEN parent
                 ELSE IF e.kind = "connect" THEN parent \cup {Grant(e)} ELSE parent \ {Grant(e)}
  /\ flight' = Without(flight, k)
  /\ missed' = (missed \/ ~creds \/ \E j \in 1..(k - 1) : Related(flight[j], e))
  /\ UNCHANGED <<air, node, creds, left>>

\* The call fails: it is logged and not repeated.
PublishLost(k) ==
  /\ Spend("lost") /\ missed' = TRUE
  /\ flight' = Without(flight, k)
  /\ UNCHANGED <<air, node, creds, parent>>

\* setParentCredentials, PUT and DELETE.
SetParentCredentials ==
  /\ Spend("creds")
  /\ creds' = ~creds
  /\ UNCHANGED <<air, node, flight, parent, missed>>

\* leafMode, PUT.
LeafModeSet ==
  /\ Spend("role")
  /\ leaf' = ~leaf
  /\ UNCHANGED <<air, port, access, hand, fresh, lapse, uplink>>

-----------------------------------------------------------------------------
Hostapd ==
  \/ \E m \in Macs : Leave(m) \/ \E i \in Ifaces : Associate(m, i)
  \/ \E g \in ghosts : Notice(g)

PublishAny == \E k \in DOMAIN flight : Publish(k)

Next ==
  \/ Hostapd
  \/ \E h \in Handlers : Handle(h) \/ HandlerStep(h)
  \/ PublishAny \/ \E k \in DOMAIN flight : PublishLost(k)
  \/ SetParentCredentials \/ LeafModeSet

Spec == Init /\ [][Next]_vars

-----------------------------------------------------------------------------
(* Properties.                                                             *)

\* Types of the map, the ports and the handlers; only a handler of a connect
\* works on a port.
TypeOK ==
  /\ assoc \in [Macs -> Ifaces \cup {None}]
  /\ port \in [Ifaces -> {"absent", "free", "open", "isolated"}]
  /\ access \subseteq Ifaces \X Macs /\ fresh \subseteq access /\ parent \subseteq Ifaces \X Macs
  /\ \A h \in Handlers :
       /\ hand[h].pc \in {"idle", "join", "isolate", "read", "delete", "add"}
       /\ hand[h].pc \in {"join", "isolate", "add"} => hand[h].ev.kind = "connect"

\* "if this iface or mac is in an existing key, remove it" (updateBridgeAccess): an
\* interface passes one address and an address passes on one interface, also while
\* requests about other stations and interfaces are handled.  Requests about the
\* same one that meet each other may leave two elements: the map is not locked.
OneGrant ==
  lapse \/ \A g, k \in access : g[1] = k[1] \/ g[2] = k[2] => g = k

\* "their vlan is joined with 'isolated on'" (ARCHITECTURE.md): an address is let
\* through only on a port of br0 that is isolated, whatever fails and whichever
\* requests meet; an element that outlived its interface is the one exception.
GrantedIsIsolated == \A g \in fresh : port[g[1]] = "isolated"

Quiet == reports = <<>> /\ \A h \in Handlers : ~Busy(h)

Associated == {<<assoc[m], m>> : m \in {n \in Macs : assoc[n] # None}}

\* Once all reports are handled the map holds exactly the associations there are:
\* nobody who left can pass, nobody who is there is kept out.  A disconnect that
\* is reported after the station's next association takes that one's element away
\* (it deletes by address OR interface), one of the lapses.
AccessFollows == Quiet => lapse \/ access = Associated

\* The main router's picture of the node follows as long as no event is lost or
\* overtakes another about the same station.
ParentFollows == Quiet /\ flight = <<>> => missed \/ parent = Associated \cup ghosts
=============================================================================
