------------------------- MODULE StationAccessProofs -------------------------
(***************************************************************************)
(* Proofs about StationAccess, for any number of stations, interfaces and  *)
(* concurrent requests, and any number of outside events.                  *)
(***************************************************************************)
EXTENDS StationAccess, SequenceTheorems, TLAPS

-----------------------------------------------------------------------------
(* Type correctness.                                                       *)

ReportSet == [kind : {"connect", "disconnect"}, iface : Ifaces, mac : Macs, cur : BOOLEAN]

Places == {"idle", "join", "isolate", "read", "delete", "add"}

Hands == [pc : Places, ev : ReportSet \cup {NoEvent}, todo : SUBSET (Ifaces \X Macs)]

\* What is reported and what is handled are reports of stations on interfaces.
EventInv ==
  /\ ghosts \subseteq Ifaces \X Macs
  /\ reports \in Seq(ReportSet) /\ flight \in Seq(ReportSet)
  /\ hand \in [Handlers -> Hands]
  /\ \A h \in Handlers : hand[h].pc # "idle" => hand[h].ev \in ReportSet

TInv == TypeOK /\ EventInv

USE DEF air, node, uplink

\* Marking a report as outdated changes nothing else.
LEMMA MarkedType ==
  ASSUME NEW r \in ReportSet
  PROVE  [r EXCEPT !.cur = FALSE] \in ReportSet
  BY DEF ReportSet

\* What is about no report stays that way.
LEMMA UnmarkedStays == [NoEvent EXCEPT !.cur = FALSE] = NoEvent
<1> DEFINE marked == [NoEvent EXCEPT !.cur = FALSE]
<1>1. NoEvent \in [kind : {"none"}, iface : {None}, mac : {None}, cur : {FALSE}]
  BY DEF NoEvent
<1>2. marked \in [kind : {"none"}, iface : {None}, mac : {None}, cur : {FALSE}]
  BY <1>1
<1> QED
  BY <1>1, <1>2

\* A report that is about an interface that is gone is still a report.
LEMMA OutdatedType ==
  ASSUME reports \in Seq(ReportSet), NEW i
  PROVE  Outdated(i) \in Seq(ReportSet)
<1>1. \A k \in 1..Len(reports) : reports[k] \in ReportSet
  OBVIOUS
<1>2. \A k \in 1..Len(reports) : Outdated(i)[k] \in ReportSet
  <2> SUFFICES ASSUME NEW k \in 1..Len(reports) PROVE Outdated(i)[k] \in ReportSet
    OBVIOUS
  <2> k \in DOMAIN reports
    BY LenProperties
  <2>1. Outdated(i)[k] = IF reports[k].iface = i THEN [reports[k] EXCEPT !.cur = FALSE] ELSE reports[k]
    BY DEF Outdated
  <2> QED
    BY <1>1, <2>1, MarkedType
<1>3. Outdated(i) = [k \in 1..Len(reports) |-> Outdated(i)[k]]
  BY DEF Outdated
<1>4. Outdated(i) \in [1..Len(reports) -> ReportSet]
  BY <1>2, <1>3
<1>5. Len(reports) \in Nat
  OBVIOUS
<1> QED
  BY <1>4, <1>5, SeqDef

\* Taking an element out of a sequence leaves a sequence.
LEMMA WithoutType ==
  ASSUME NEW S, NEW s \in Seq(S), NEW k \in DOMAIN s
  PROVE  Without(s, k) \in Seq(S)
<1>1. k \in 1..Len(s) /\ Len(s) \in Nat
  OBVIOUS
<1>2. SubSeq(s, 1, k - 1) \in Seq(S)
  BY <1>1, SubSeqProperties
<1>3. SubSeq(s, k + 1, Len(s)) \in Seq(S)
  BY <1>1, SubSeqProperties
<1> QED
  BY <1>2, <1>3, ConcatProperties DEF Without

\* What happens to the handlers when an interface is deleted keeps their types.
LEMMA DeletedHands ==
  ASSUME EventInv, NEW i, Deleted(i)
  PROVE  /\ hand' \in [Handlers -> Hands]
         /\ \A h \in Handlers :
              /\ hand'[h].pc = hand[h].pc /\ hand'[h].todo = hand[h].todo
              /\ hand'[h].ev.kind = hand[h].ev.kind /\ hand'[h].ev.iface = hand[h].ev.iface
              /\ hand'[h].ev.mac = hand[h].ev.mac
              /\ hand'[h].ev.cur => hand[h].ev.cur /\ hand[h].ev.iface # i
              /\ hand[h].ev \in ReportSet => hand'[h].ev \in ReportSet
<1>1. ASSUME NEW h \in Handlers
      PROVE  /\ hand'[h] \in Hands
             /\ hand'[h].pc = hand[h].pc /\ hand'[h].todo = hand[h].todo
             /\ hand'[h].ev.kind = hand[h].ev.kind /\ hand'[h].ev.iface = hand[h].ev.iface
             /\ hand'[h].ev.mac = hand[h].ev.mac
             /\ hand'[h].ev.cur => hand[h].ev.cur /\ hand[h].ev.iface # i
             /\ hand[h].ev \in ReportSet => hand'[h].ev \in ReportSet
  <2>1. hand[h] \in Hands
    BY DEF EventInv
  <2>2. CASE hand[h].ev.iface = i
    <3>1. hand'[h] = [hand[h] EXCEPT !.ev.cur = FALSE]
      BY <2>2 DEF Deleted
    <3>2. hand'[h] = [pc |-> hand[h].pc, ev |-> [hand[h].ev EXCEPT !.cur = FALSE], todo |-> hand[h].todo]
      BY <2>1, <3>1 DEF Hands
    <3>3. CASE hand[h].ev \in ReportSet
      <4>1. [hand[h].ev EXCEPT !.cur = FALSE] \in ReportSet
        BY <3>3, MarkedType
      <4>2. /\ hand'[h].ev.kind = hand[h].ev.kind /\ hand'[h].ev.iface = hand[h].ev.iface
            /\ hand'[h].ev.mac = hand[h].ev.mac /\ hand'[h].ev.cur = FALSE
        BY <3>2, <3>3 DEF ReportSet
      <4>3. hand'[h] \in Hands
        BY <2>1, <3>2, <4>1 DEF Hands
      <4> QED
        BY <3>2, <4>1, <4>2, <4>3
    <3>4. CASE hand[h].ev = NoEvent
      <4>1. [hand[h].ev EXCEPT !.cur = FALSE] = NoEvent
        BY <3>4, UnmarkedStays
      <4>2. hand'[h] = hand[h]
        BY <2>1, <3>2, <3>4, <4>1 DEF Hands
      <4> QED
        BY <2>1, <3>4, <4>2 DEF NoEvent
    <3> QED
      BY <2>1, <3>3, <3>4 DEF Hands
  <2>3. CASE hand[h].ev.iface # i
    <3>1. hand'[h] = hand[h]
      BY <2>3 DEF Deleted
    <3> QED
      BY <2>1, <2>3, <3>1
  <2> QED
    BY <2>2, <2>3
<1>2. hand' = [h \in Handlers |-> hand'[h]]
  BY DEF Deleted
<1> QED
  BY <1>1, <1>2

\* A handler goes on: the others, and what it is about, stay.
LEMMA GoToType ==
  ASSUME EventInv, NEW h \in Handlers, NEW p \in Places, GoTo(h, p)
  PROVE  /\ hand' \in [Handlers -> Hands]
         /\ hand'[h].pc = p /\ hand'[h].ev = hand[h].ev /\ hand'[h].todo = hand[h].todo
         /\ \A k \in Handlers : k # h => hand'[k] = hand[k]
<1>1. hand[h] \in Hands
  BY DEF EventInv
<1>2. [hand[h] EXCEPT !.pc = p] \in Hands
  BY <1>1 DEF Hands
<1>3. hand'[h] = [hand[h] EXCEPT !.pc = p]
  BY DEF GoTo, EventInv
<1>4. hand' \in [Handlers -> Hands] /\ \A k \in Handlers : k # h => hand'[k] = hand[k]
  BY <1>2 DEF GoTo, EventInv
<1> QED
  BY <1>1, <1>3, <1>4 DEF Hands

\* A handler returns.
LEMMA DoneType ==
  ASSUME EventInv, NEW h \in Handlers, Done(h)
  PROVE  /\ hand' \in [Handlers -> Hands] /\ hand'[h] = Idle
         /\ \A k \in Handlers : k # h => hand'[k] = hand[k]
<1>1. Idle \in Hands
  BY DEF Idle, Hands, Places
<1> QED
  BY <1>1 DEF Done, EventInv

\* A handler has one element less to delete.
LEMMA LessType ==
  ASSUME EventInv, NEW h \in Handlers, NEW g, hand' = [hand EXCEPT ![h].todo = @ \ {g}]
  PROVE  /\ hand' \in [Handlers -> Hands]
         /\ hand'[h].pc = hand[h].pc /\ hand'[h].ev = hand[h].ev /\ hand'[h].todo = hand[h].todo \ {g}
         /\ \A k \in Handlers : k # h => hand'[k] = hand[k]
<1>1. hand[h] \in Hands
  BY DEF EventInv
<1>2. [hand[h] EXCEPT !.todo = @ \ {g}] \in Hands
  BY <1>1 DEF Hands
<1>3. hand'[h] = [hand[h] EXCEPT !.todo = @ \ {g}]
  BY DEF EventInv
<1>4. hand' \in [Handlers -> Hands] /\ \A k \in Handlers : k # h => hand'[k] = hand[k]
  BY <1>2 DEF EventInv
<1> QED
  BY <1>1, <1>3, <1>4 DEF Hands

\* A step of a handler keeps the types of all of them.
LEMMA HandlerType ==
  ASSUME TInv, NEW h \in Handlers, HandlerStep(h)
  PROVE  EventInv' /\ \A k \in Handlers :
           /\ hand'[k].pc \in Places
           /\ hand'[k].pc \in {"join", "isolate", "add"} => hand'[k].ev.kind = "connect"
           /\ k # h => hand'[k] = hand[k]
<1>1. UNCHANGED <<ghosts, reports, flight>> /\ hand[h].ev \in ReportSet
  BY DEF HandlerStep, Join, Isolate, ReadMap, DeleteElement, DeletesDone, AddElement, TInv, EventInv
<1>2. CASE Done(h)
  <2>1. hand' \in [Handlers -> Hands] /\ hand'[h] = Idle /\ \A k \in Handlers : k # h => hand'[k] = hand[k]
    BY <1>2, DoneType DEF TInv
  <2> QED
    BY <1>1, <2>1 DEF TInv, EventInv, TypeOK, Idle, Places
<1>3. ASSUME NEW p \in Places, GoTo(h, p), p \in {"isolate", "add"} => hand[h].ev.kind = "connect", p # "join"
      PROVE  EventInv' /\ \A k \in Handlers :
               /\ hand'[k].pc \in Places
               /\ hand'[k].pc \in {"join", "isolate", "add"} => hand'[k].ev.kind = "connect"
               /\ k # h => hand'[k] = hand[k]
  <2>1. /\ hand' \in [Handlers -> Hands] /\ hand'[h].pc = p /\ hand'[h].ev = hand[h].ev
        /\ \A k \in Handlers : k # h => hand'[k] = hand[k]
    BY <1>3, GoToType DEF TInv
  <2> QED
    BY <1>1, <1>3, <2>1 DEF TInv, EventInv, TypeOK, Places
<1>4. CASE Join(h)
  <2>1. hand[h].ev.kind = "connect"
    BY <1>4 DEF Join, TInv, TypeOK
  <2> QED
    BY <1>2, <1>3, <1>4, <2>1 DEF Join, Places
<1>5. CASE Isolate(h)
  BY <1>2, <1>3, <1>5 DEF Isolate, Places
<1>6. CASE ReadMap(h)
  <2>1. CASE GoTo(h, "delete")
    BY <1>3, <2>1 DEF Places
  <2> DEFINE found == {g \in access : Shares(g, hand[h].ev)}
  <2>2. CASE hand' = [hand EXCEPT ![h].pc = "delete", ![h].todo = found]
    <3>1. hand[h] \in Hands /\ found \subseteq Ifaces \X Macs
      BY DEF TInv, EventInv, TypeOK
    <3>2. [hand[h] EXCEPT !.pc = "delete", !.todo = found] \in Hands
      BY <3>1 DEF Hands, Places
    <3>3. hand'[h] = [hand[h] EXCEPT !.pc = "delete", !.todo = found]
      BY <2>2 DEF TInv, EventInv
    <3>4. hand'[h].pc = "delete" /\ hand'[h].ev = hand[h].ev
      BY <3>1, <3>3 DEF Hands
    <3>5. hand' \in [Handlers -> Hands] /\ \A k \in Handlers : k # h => hand'[k] = hand[k]
      BY <2>2, <3>2 DEF TInv, EventInv
    <3> QED
      BY <1>1, <3>4, <3>5 DEF TInv, EventInv, TypeOK, Places
  <2> QED
    BY <1>6, <2>1, <2>2 DEF ReadMap
<1>7. CASE DeletesDone(h)
  BY <1>2, <1>3, <1>7 DEF DeletesDone, Places
<1>8. CASE AddElement(h)
  BY <1>2, <1>8 DEF AddElement
<1>9. CASE DeleteElement(h)
  <2>1. PICK g \in hand[h].todo : hand' = [hand EXCEPT ![h].todo = @ \ {g}]
    BY <1>9 DEF DeleteElement
  <2>2. /\ hand' \in [Handlers -> Hands] /\ hand'[h].pc = "delete" /\ hand'[h].ev = hand[h].ev
        /\ \A k \in Handlers : k # h => hand'[k] = hand[k]
    BY <1>9, <2>1, LessType DEF DeleteElement, TInv
  <2> QED
    BY <1>1, <2>2 DEF TInv, EventInv, TypeOK, Places
<1> QED
  BY <1>4, <1>5, <1>6, <1>7, <1>8, <1>9 DEF HandlerStep

\* The initial state is well typed.
LEMMA TypeInit == Init => TInv
<1> SUFFICES ASSUME Init PROVE TInv
  OBVIOUS
<1>1. reports \in Seq(ReportSet) /\ flight \in Seq(ReportSet)
  BY DEF Init
<1>2. \A h \in Handlers : hand[h] = Idle
  BY DEF Init
<1>3. hand \in [Handlers -> Hands]
  BY DEF Init, Idle, Hands, Places
<1>4. EventInv
  BY <1>1, <1>2, <1>3 DEF EventInv, Init, Idle
<1> QED
  BY <1>2, <1>4 DEF TInv, TypeOK, Init, Idle

\* Every step keeps the types.
LEMMA TypeStep == TInv /\ [Next]_vars => TInv'
<1> SUFFICES ASSUME TInv, [Next]_vars PROVE TInv'
  OBVIOUS
<1> USE DEF TInv
<1>1. ASSUME NEW m \in Macs, Leave(m) PROVE TInv'
  <2> DEFINE i == assoc[m]
  <2>1. i \in Ifaces
    BY <1>1 DEF Leave, TypeOK
  <2>2. Deleted(i) /\ assoc' = [assoc EXCEPT ![m] = None]
        /\ reports' = Append(Outdated(i), Report("disconnect", i, m))
    BY <1>1 DEF Leave
  <2>3. Report("disconnect", i, m) \in ReportSet
    BY <2>1 DEF Report, ReportSet
  <2>4. reports' \in Seq(ReportSet)
    BY <2>2, <2>3, OutdatedType, AppendProperties DEF EventInv
  <2>5. EventInv'
    BY <1>1, <2>2, <2>4, DeletedHands DEF EventInv, Leave
  <2>6. fresh' \subseteq fresh /\ port' \in [Ifaces -> {"absent", "free", "open", "isolated"}]
    BY <2>2 DEF Deleted, TypeOK
  <2>7. \A h \in Handlers : hand'[h].pc = hand[h].pc /\ hand'[h].ev.kind = hand[h].ev.kind
    BY <2>2, DeletedHands
  <2>8. assoc' \in [Macs -> Ifaces \cup {None}]
    BY <2>2 DEF TypeOK
  <2> QED
    BY <1>1, <2>5, <2>6, <2>7, <2>8 DEF TypeOK, Leave
<1>2. ASSUME NEW g \in ghosts, Notice(g) PROVE TInv'
  <2>1. g \in Ifaces \X Macs
    BY DEF EventInv
  <2>2. Deleted(g[1]) /\ reports' = Append(Outdated(g[1]), Report("disconnect", g[1], g[2]))
    BY <1>2 DEF Notice
  <2>3. Report("disconnect", g[1], g[2]) \in ReportSet
    BY <2>1 DEF Report, ReportSet
  <2>4. reports' \in Seq(ReportSet)
    BY <2>2, <2>3, OutdatedType, AppendProperties DEF EventInv
  <2>5. EventInv'
    BY <1>2, <2>2, <2>4, DeletedHands DEF EventInv, Notice
  <2>6. fresh' \subseteq fresh /\ port' \in [Ifaces -> {"absent", "free", "open", "isolated"}]
    BY <2>2 DEF Deleted, TypeOK
  <2>7. \A h \in Handlers : hand'[h].pc = hand[h].pc /\ hand'[h].ev.kind = hand[h].ev.kind
    BY <2>2, DeletedHands
  <2> QED
    BY <1>2, <2>5, <2>6, <2>7 DEF TypeOK, Notice
<1>3. ASSUME NEW m \in Macs, NEW i \in Ifaces, Associate(m, i) PROVE TInv'
  <2>1. Report("connect", i, m) \in ReportSet
    BY DEF Report, ReportSet
  <2>2. reports' \in Seq(ReportSet)
    BY <1>3, <2>1, AppendProperties DEF Associate, EventInv
  <2>3. ghosts' \subseteq Ifaces \X Macs
    BY <1>3 DEF Associate, EventInv, TypeOK
  <2> QED
    BY <1>3, <2>2, <2>3 DEF TypeOK, EventInv, Associate
<1>4. ASSUME NEW h \in Handlers, Handle(h) PROVE TInv'
  <2> DEFINE e == Head(reports)
  <2>1. e \in ReportSet /\ reports' \in Seq(ReportSet)
    BY <1>4, HeadTailProperties DEF Handle, EventInv
  <2>2. [e EXCEPT !.cur = FALSE] \in ReportSet
    BY <2>1 DEF ReportSet
  <2>3. flight' \in Seq(ReportSet)
    BY <1>4, <2>2, AppendProperties DEF Handle, EventInv
  <2>4. e.kind # "connect" => e.kind = "disconnect"
    BY <2>1 DEF ReportSet
  <2>5. [pc |-> IF e.kind = "connect" THEN "join" ELSE "read", ev |-> e, todo |-> {}] \in Hands
    BY <2>1 DEF Hands, Places
  <2>6. hand' \in [Handlers -> Hands]
    BY <1>4, <2>5 DEF Handle, EventInv
  <2>7. \A k \in Handlers : hand'[k] = hand[k] \/ (hand'[k].ev = e /\ hand'[k].pc = IF e.kind = "connect" THEN "join" ELSE "read")
    BY <1>4 DEF Handle, EventInv
  <2>8. EventInv'
    BY <1>4, <2>1, <2>3, <2>6, <2>7 DEF EventInv, Handle
  <2> QED
    BY <1>4, <2>7, <2>8 DEF TypeOK, Handle
<1>5. ASSUME NEW h \in Handlers, HandlerStep(h) PROVE TInv'
  <2>1. EventInv' /\ \A k \in Handlers :
          /\ hand'[k].pc \in Places
          /\ hand'[k].pc \in {"join", "isolate", "add"} => hand'[k].ev.kind = "connect"
    BY <1>5, HandlerType
  <2>2. Busy(h) => Grant(hand[h].ev) \in Ifaces \X Macs
    BY DEF Busy, Grant, EventInv, ReportSet
  <2>3. UNCHANGED <<assoc, parent>> /\ fresh' \subseteq access' /\ access' \subseteq Ifaces \X Macs
    BY <1>5, <2>2 DEF HandlerStep, Join, Isolate, ReadMap, DeleteElement, DeletesDone, AddElement, Busy, TypeOK
  <2>4. port' \in [Ifaces -> {"absent", "free", "open", "isolated"}]
    BY <1>5 DEF HandlerStep, Join, Isolate, ReadMap, DeleteElement, DeletesDone, AddElement, TypeOK
  <2> QED
    BY <2>1, <2>3, <2>4 DEF TypeOK, Places
<1>6. ASSUME NEW k \in DOMAIN flight, Publish(k) PROVE TInv'
  <2>1. flight[k] \in ReportSet
    BY DEF EventInv
  <2>2. Grant(flight[k]) \in Ifaces \X Macs
    BY <2>1 DEF Grant, ReportSet
  <2>3. flight' \in Seq(ReportSet)
    BY <1>6, WithoutType DEF Publish, EventInv
  <2> QED
    BY <1>6, <2>2, <2>3 DEF Publish, TypeOK, EventInv
<1>7. ASSUME NEW k \in DOMAIN flight, PublishLost(k) PROVE TInv'
  <2>1. flight' \in Seq(ReportSet)
    BY <1>7, WithoutType DEF PublishLost, EventInv
  <2> QED
    BY <1>7, <2>1 DEF PublishLost, TypeOK, EventInv
<1>8. CASE SetParentCredentials
  BY <1>8 DEF SetParentCredentials, TypeOK, EventInv
<1>9. CASE LeafModeSet
  BY <1>9 DEF LeafModeSet, TypeOK, EventInv
<1>10. CASE UNCHANGED vars
  BY <1>10 DEF vars, TypeOK, EventInv
<1> QED
  BY <1>1, <1>2, <1>3, <1>4, <1>5, <1>6, <1>7, <1>8, <1>9, <1>10 DEF Next, Hostapd, PublishAny

\* Types of the map, the ports and the handlers, for every set of stations and
\* interfaces.
THEOREM StationTypes == Spec => []TypeOK
<1>1. TInv => TypeOK
  BY DEF TInv
<1> QED
  BY <1>1, TypeInit, TypeStep, PTL DEF Spec

-----------------------------------------------------------------------------
(* An address is let through on isolated ports only.                       *)

\* An interface that is in use by nobody does not exist.  A handler of a connect
\* that is past isolating its port has it isolated, as long as that instance of
\* the interface exists.
PortInv ==
  /\ \A i \in Ifaces \ Used : port[i] = "absent"
  /\ \A h \in Handlers :
       hand[h].ev.cur /\ hand[h].ev.kind = "connect" /\ hand[h].pc \in {"read", "delete", "add"}
         => port[hand[h].ev.iface] = "isolated"

IsolatedInv == PortInv /\ GrantedIsIsolated

\* Nothing has been granted yet.
LEMMA IsolatedInit == Init => IsolatedInv
  BY DEF Init, IsolatedInv, PortInv, GrantedIsIsolated, Idle

\* An interface that is deleted takes its grants, and the handlers that are about
\* it, out of the invariant.
LEMMA IsolatedDeleted ==
  ASSUME TInv, IsolatedInv, NEW i, Deleted(i), Used \ {i} \subseteq Used'
  PROVE  IsolatedInv'
<1>1. \A j \in Ifaces : port'[j] = IF j = i THEN "absent" ELSE port[j]
  BY DEF Deleted, TInv, TypeOK
<1>2. ASSUME NEW h \in Handlers
      PROVE  /\ hand'[h].pc = hand[h].pc /\ hand'[h].ev.kind = hand[h].ev.kind
             /\ hand'[h].ev.iface = hand[h].ev.iface
             /\ hand'[h].ev.cur => hand[h].ev.cur /\ hand[h].ev.iface # i
             /\ hand[h].pc # "idle" => hand[h].ev.iface \in Ifaces
  BY DeletedHands DEF TInv, EventInv, ReportSet
<1>3. PortInv'
  BY <1>1, <1>2 DEF PortInv, IsolatedInv
<1>4. fresh' = {g \in fresh : g[1] # i} /\ \A g \in fresh : g[1] \in Ifaces
  BY DEF Deleted, TInv, TypeOK
<1>5. GrantedIsIsolated'
  BY <1>1, <1>4 DEF GrantedIsIsolated, IsolatedInv
<1> QED
  BY <1>3, <1>5 DEF IsolatedInv

\* Every step keeps it.
LEMMA IsolatedStep == TInv /\ TInv' /\ IsolatedInv /\ [Next]_vars => IsolatedInv'
<1> SUFFICES ASSUME TInv, TInv', IsolatedInv, [Next]_vars PROVE IsolatedInv'
  OBVIOUS
<1>1. ASSUME NEW m \in Macs, Leave(m) PROVE IsolatedInv'
  <2>1. Used \ {assoc[m]} \subseteq Used'
    BY <1>1 DEF Leave, Used, TInv, TypeOK
  <2> QED
    BY <1>1, <2>1, IsolatedDeleted DEF Leave
<1>2. ASSUME NEW g \in ghosts, Notice(g) PROVE IsolatedInv'
  <2>1. ghosts' = ghosts \ {g} /\ assoc' = assoc
    BY <1>2 DEF Notice
  <2>2. \A p \in ghosts : p[1] # g[1] => p \in ghosts'
    BY <2>1
  <2>3. ASSUME NEW i \in Used, i # g[1] PROVE i \in Used'
    <3>1. CASE \E m \in Macs : i = assoc[m]
      BY <2>1, <3>1 DEF Used
    <3>2. CASE \E p \in ghosts : i = p[1]
      <4>1. PICK p \in ghosts : i = p[1]
        BY <3>2
      <4>2. p \in ghosts'
        BY <2>2, <2>3, <4>1
      <4> QED
        BY <4>1, <4>2 DEF Used
    <3> QED
      BY <2>3, <3>1, <3>2 DEF Used
  <2>4. Used \ {g[1]} \subseteq Used'
    BY <2>3
  <2> QED
    BY <1>2, <2>4, IsolatedDeleted DEF Notice
<1>3. ASSUME NEW m \in Macs, NEW i \in Ifaces, Associate(m, i) PROVE IsolatedInv'
  <2>1. port[i] = "absent" /\ Used \ {None} \subseteq Used' /\ i \in Used'
    <3>1. port[i] = "absent"
      BY <1>3 DEF Associate, IsolatedInv, PortInv
    <3>2. assoc'[m] = i /\ \A n \in Macs : n # m => assoc'[n] = assoc[n]
      BY <1>3 DEF Associate, TInv, TypeOK
    <3>3. ghosts \subseteq ghosts' /\ (assoc[m] # None => <<assoc[m], m>> \in ghosts')
      BY <1>3 DEF Associate
    <3>4. i \in Used'
      BY <3>2 DEF Used
    <3>5. ASSUME NEW n \in Macs, assoc[n] # None PROVE assoc[n] \in Used'
      <4>1. CASE n = m
        <5>1. <<assoc[m], m>> \in ghosts' /\ <<assoc[m], m>>[1] = assoc[m]
          BY <3>3, <3>5, <4>1
        <5> QED
          BY <4>1, <5>1 DEF Used
      <4>2. CASE n # m
        BY <3>2, <4>2 DEF Used
      <4> QED
        BY <4>1, <4>2
    <3>6. \A g \in ghosts : g[1] \in Used'
      BY <3>3 DEF Used
    <3>7. Used \ {None} \subseteq Used'
      BY <3>5, <3>6 DEF Used
    <3> QED
      BY <3>1, <3>4, <3>7
  <2>2. \A j \in Ifaces : port'[j] = IF j = i THEN "free" ELSE port[j]
    BY <1>3 DEF Associate, TInv, TypeOK
  <2>3. \A j \in Ifaces : port[j] = "isolated" => port'[j] = "isolated"
    BY <2>1, <2>2
  <2>4. UNCHANGED <<hand, fresh>>
    BY <1>3 DEF Associate
  <2>5. \A g \in fresh : g[1] \in Ifaces
    BY DEF TInv, TypeOK
  <2>6. \A h \in Handlers : hand[h].pc # "idle" => hand[h].ev.iface \in Ifaces
    BY DEF TInv, EventInv, ReportSet
  <2>7. GrantedIsIsolated'
    BY <2>3, <2>4, <2>5 DEF GrantedIsIsolated, IsolatedInv
  <2>8. PortInv'
    BY <2>1, <2>2, <2>3, <2>4, <2>6, NoneAssumption DEF PortInv, IsolatedInv
  <2> QED
    BY <2>7, <2>8 DEF IsolatedInv
<1>4. ASSUME NEW h \in Handlers, Handle(h) PROVE IsolatedInv'
  <2>1. Head(reports) \in ReportSet
    BY <1>4, HeadTailProperties DEF Handle, TInv, EventInv
  <2>2. UNCHANGED <<assoc, ghosts, port, fresh>>
    BY <1>4 DEF Handle
  <2>3. ASSUME NEW k \in Handlers
        PROVE  hand'[k] = hand[k] \/ ~(hand'[k].ev.kind = "connect" /\ hand'[k].pc \in {"read", "delete", "add"})
    BY <1>4 DEF Handle, TInv, EventInv
  <2> QED
    BY <2>2, <2>3 DEF IsolatedInv, PortInv, GrantedIsIsolated, Used
<1>5. ASSUME NEW h \in Handlers, HandlerStep(h) PROVE IsolatedInv'
  <2> DEFINE e == hand[h].ev
  <2>1. e \in ReportSet /\ UNCHANGED <<assoc, ghosts>> /\ Used' = Used
    BY <1>5 DEF HandlerStep, Join, Isolate, ReadMap, DeleteElement, DeletesDone, AddElement, TInv, EventInv, Used
  <2>2. \A k \in Handlers : k # h => hand'[k] = hand[k]
    BY <1>5, HandlerType
  <2>3. \A k \in Handlers : hand[k].pc # "idle" => hand[k].ev.iface \in Ifaces
    BY DEF TInv, EventInv, ReportSet
  <2>4. \A j \in Ifaces : /\ port[j] = "isolated" => port'[j] = "isolated"
                          /\ port[j] = "absent" => port'[j] = "absent"
    BY <1>5 DEF HandlerStep, Join, Isolate, ReadMap, DeleteElement, DeletesDone, AddElement, TInv, TypeOK
  <2>5. fresh' \subseteq fresh \/ (hand[h].pc = "add" /\ e.cur /\ fresh' = fresh \cup {Grant(e)})
    BY <1>5 DEF HandlerStep, Join, Isolate, ReadMap, DeleteElement, DeletesDone, AddElement
  <2>6. hand[h].pc = "add" => e.kind = "connect"
    BY DEF TInv, TypeOK
  <2>7. GrantedIsIsolated'
    <3>1. \A g \in fresh : g[1] \in Ifaces /\ port[g[1]] = "isolated"
      BY DEF TInv, TypeOK, IsolatedInv, GrantedIsIsolated
    <3>2. hand[h].pc = "add" /\ e.cur => port[e.iface] = "isolated" /\ e.iface \in Ifaces
      BY <2>3, <2>6 DEF IsolatedInv, PortInv
    <3>3. Grant(e)[1] = e.iface
      BY DEF Grant
    <3> QED
      BY <2>4, <2>5, <3>1, <3>2, <3>3 DEF GrantedIsIsolated
  <2>8. \/ hand'[h].pc = "idle"
        \/ hand'[h].ev = e /\ hand'[h].pc = "isolate"
        \/ hand'[h].ev = e /\ hand[h].pc \in {"read", "delete", "add"}
        \/ hand'[h].ev = e /\ e.iface \in Ifaces /\ port'[e.iface] = "isolated"
    <3>1. CASE Done(h)
      BY <3>1, DoneType DEF TInv, Idle
    <3>2. CASE Join(h) /\ GoTo(h, "isolate")
      BY <3>2, GoToType DEF TInv, Places
    <3>3. CASE Isolate(h) /\ GoTo(h, "read") /\ port' = [port EXCEPT ![e.iface] = "isolated"]
      <4>1. e.iface \in Ifaces /\ port'[e.iface] = "isolated"
        BY <2>1, <3>3 DEF ReportSet, TInv, TypeOK
      <4> QED
        BY <3>3, <4>1, GoToType DEF TInv, Places
    <3>4. CASE ReadMap(h)
      BY <3>4 DEF ReadMap, GoTo, TInv, EventInv, Hands
    <3>5. CASE DeletesDone(h) /\ GoTo(h, "add")
      BY <3>5, GoToType DEF DeletesDone, TInv, Places
    <3>6. CASE DeleteElement(h)
      BY <3>6, LessType DEF DeleteElement, TInv
    <3> QED
      BY <1>5, <3>1, <3>2, <3>3, <3>4, <3>5, <3>6 DEF HandlerStep, Join, Isolate, DeletesDone, AddElement
  <2>9. PortInv'
    <3>1. \A j \in Ifaces \ Used' : port'[j] = "absent"
      BY <2>1, <2>4 DEF IsolatedInv, PortInv
    <3>2. ASSUME NEW k \in Handlers, hand'[k].ev.cur, hand'[k].ev.kind = "connect",
                 hand'[k].pc \in {"read", "delete", "add"}
          PROVE  port'[hand'[k].ev.iface] = "isolated"
      <4>1. CASE k # h
        BY <2>2, <2>3, <2>4, <3>2, <4>1 DEF IsolatedInv, PortInv
      <4>2. CASE k = h
        BY <2>3, <2>4, <2>8, <3>2, <4>2 DEF IsolatedInv, PortInv
      <4> QED
        BY <4>1, <4>2
    <3> QED
      BY <3>1, <3>2 DEF PortInv
  <2> QED
    BY <2>7, <2>9 DEF IsolatedInv
<1>6. CASE UNCHANGED <<assoc, ghosts, port, hand, fresh>>
  BY <1>6 DEF IsolatedInv, PortInv, GrantedIsIsolated, Used
<1> QED
  BY <1>1, <1>2, <1>3, <1>4, <1>5, <1>6
     DEF Next, Hostapd, PublishAny, Publish, PublishLost, SetParentCredentials, LeafModeSet, vars

\* "their vlan is joined with 'isolated on'" (ARCHITECTURE.md): wifiConnect never
\* lets an address through on a port that is not isolated, whatever fails and
\* however its commands meet those of other requests.
THEOREM GrantsAreIsolated == Spec => []GrantedIsIsolated
<1>1. IsolatedInv => GrantedIsIsolated
  BY DEF IsolatedInv
<1> QED
  BY <1>1, TypeInit, TypeStep, IsolatedInit, IsolatedStep, PTL DEF Spec

-----------------------------------------------------------------------------
(* One element per address and interface.                                  *)

\* Outside a lapse: handlers at work are about different stations and interfaces;
\* between its reading the map and its deleting, nothing that a handler has to
\* delete appears, and nothing until it has added its own.
GrantInv ==
  ~lapse =>
    /\ \A h, k \in Handlers : Busy(h) /\ Busy(k) /\ h # k => ~Related(hand[h].ev, hand[k].ev)
    /\ \A h \in Handlers : \A g \in access :
         Shares(g, hand[h].ev) => /\ hand[h].pc = "delete" => g \in hand[h].todo
                                  /\ hand[h].pc # "add"
    /\ OneGrant

\* The map is empty to begin with.
LEMMA GrantInit == Init => GrantInv
  BY DEF Init, GrantInv, OneGrant, Idle, Busy

\* Every step keeps it.
LEMMA GrantStep == TInv /\ TInv' /\ GrantInv /\ [Next]_vars => GrantInv'
<1> SUFFICES ASSUME TInv, TInv', GrantInv, [Next]_vars, ~lapse'
             PROVE  /\ \A h, k \in Handlers : Busy(h)' /\ Busy(k)' /\ h # k => ~Related(hand'[h].ev, hand'[k].ev)
                    /\ \A h \in Handlers : \A g \in access' :
                         Shares(g, hand'[h].ev) => /\ hand'[h].pc = "delete" => g \in hand'[h].todo
                                                   /\ hand'[h].pc # "add"
                    /\ \A g, k \in access' : g[1] = k[1] \/ g[2] = k[2] => g = k
  BY DEF GrantInv, OneGrant
<1> DEFINE Apart == \A h, k \in Handlers : Busy(h) /\ Busy(k) /\ h # k => ~Related(hand[h].ev, hand[k].ev)
           Seen == \A h \in Handlers : \A g \in access :
                     Shares(g, hand[h].ev) => /\ hand[h].pc = "delete" => g \in hand[h].todo
                                              /\ hand[h].pc # "add"
           Single == \A g, k \in access : g[1] = k[1] \/ g[2] = k[2] => g = k
<1>0. ~lapse /\ Apart /\ Seen /\ Single
  <2>1. ASSUME NEW h \in Handlers, Handle(h) PROVE ~lapse
    BY <2>1, Zenon DEF Handle
  <2>2. ASSUME NEW h \in Handlers, HandlerStep(h) PROVE ~lapse
    BY <2>2 DEF HandlerStep, Join, Isolate, ReadMap, DeleteElement, DeletesDone, AddElement
  <2>3. ASSUME UNCHANGED lapse PROVE ~lapse
    BY <2>3
  <2>4. ~lapse
    BY <2>1, <2>2, <2>3 DEF Next, Hostapd, PublishAny, Leave, Notice, Associate, Publish, PublishLost,
                            SetParentCredentials, LeafModeSet, vars
  <2> QED
    BY <2>4 DEF GrantInv, OneGrant
<1> SUFFICES Apart' /\ Seen' /\ Single'
  OBVIOUS
<1>1. ASSUME NEW i, Deleted(i), UNCHANGED access PROVE Apart' /\ Seen' /\ Single'
  <2>1. \A h \in Handlers :
          /\ hand'[h].pc = hand[h].pc /\ hand'[h].todo = hand[h].todo
          /\ hand'[h].ev.iface = hand[h].ev.iface /\ hand'[h].ev.mac = hand[h].ev.mac
    BY <1>1, DeletedHands DEF TInv
  <2> QED
    BY <1>0, <1>1, <2>1 DEF Busy, Related, Shares
<1>2. ASSUME NEW h \in Handlers, Handle(h) PROVE Apart' /\ Seen' /\ Single'
  <2> DEFINE e == Head(reports)
  <2>1. UNCHANGED access /\ leaf
    BY <1>2 DEF Handle, TInv, TypeOK
  <2>2. \A k \in Handlers : Busy(k) => ~Related(hand[k].ev, e)
    BY <1>2 DEF Handle
  <2>3. \A k \in Handlers :
          IF k = h THEN hand'[k].ev = e /\ hand'[k].pc \in {"join", "read"} ELSE hand'[k] = hand[k]
    BY <1>2, <2>1 DEF Handle, TInv, EventInv
  <2>4. Apart'
    BY <1>0, <2>2, <2>3 DEF Busy, Related
  <2>5. Seen'
    BY <1>0, <2>1, <2>3
  <2> QED
    BY <1>0, <2>1, <2>4, <2>5
<1>3. ASSUME NEW h \in Handlers, HandlerStep(h) PROVE Apart' /\ Seen' /\ Single'
  <2> DEFINE e == hand[h].ev
  <2>1. e \in ReportSet /\ Busy(h)
    BY <1>3 DEF HandlerStep, Join, Isolate, ReadMap, DeleteElement, DeletesDone, AddElement, TInv, EventInv, Busy
  <2>2. \A k \in Handlers : k # h => hand'[k] = hand[k]
    BY <1>3, HandlerType
  <2>3. hand'[h].pc = "idle" \/ (hand'[h].ev = e /\ hand'[h].pc # "idle")
    <3>1. CASE Done(h)
      BY <3>1, DoneType DEF TInv, Idle
    <3>2. ASSUME NEW p \in Places, GoTo(h, p) PROVE hand'[h].ev = e /\ hand'[h].pc = p
      BY <3>2, GoToType DEF TInv
    <3>3. CASE ReadMap(h)
      BY <3>3 DEF ReadMap, GoTo, TInv, EventInv, Hands
    <3>4. CASE DeleteElement(h)
      BY <3>4, LessType DEF DeleteElement, TInv
    <3> QED
      BY <1>3, <3>1, <3>2, <3>3, <3>4 DEF HandlerStep, Join, Isolate, DeletesDone, AddElement, Places
  <2>4. Apart'
    BY <1>0, <2>1, <2>2, <2>3 DEF Busy, Related
  <2>5. CASE Join(h) \/ Isolate(h)
    <3>1. hand'[h].pc \notin {"delete", "add"} /\ UNCHANGED access
      <4>1. CASE Done(h)
        BY <2>5, <4>1, DoneType DEF Join, Isolate, TInv, Idle
      <4>2. CASE GoTo(h, "isolate") \/ GoTo(h, "read")
        BY <2>5, <4>2, GoToType DEF Join, Isolate, TInv, Places
      <4> QED
        BY <2>5, <4>1, <4>2 DEF Join, Isolate
    <3> QED
      BY <1>0, <2>2, <2>4, <3>1
  <2>6. CASE ReadMap(h)
    <3>1. UNCHANGED access /\ hand'[h] = [hand[h] EXCEPT !.pc = "delete", !.todo = {g \in access : Shares(g, e)}]
      BY <2>6 DEF ReadMap, TInv, EventInv
    <3>2. hand'[h].ev = e /\ hand'[h].pc = "delete" /\ hand'[h].todo = {g \in access : Shares(g, e)}
      BY <3>1 DEF TInv, EventInv, Hands
    <3> QED
      BY <1>0, <2>2, <2>4, <3>1, <3>2
  <2>7. CASE DeletesDone(h)
    <3>1. UNCHANGED access /\ hand[h].pc = "delete" /\ hand[h].todo = {}
      BY <2>7 DEF DeletesDone
    <3>2. \A g \in access' : ~Shares(g, e)
      BY <1>0, <3>1
    <3>3. hand'[h].pc \in {"idle", "add"}
      <4>1. CASE Done(h)
        BY <4>1, DoneType DEF TInv, Idle
      <4>2. CASE GoTo(h, "add")
        BY <4>2, GoToType DEF TInv, Places
      <4> QED
        BY <2>7, <4>1, <4>2 DEF DeletesDone
    <3> QED
      BY <1>0, <2>2, <2>3, <2>4, <3>1, <3>2, <3>3
  <2>8. CASE AddElement(h)
    <3>1. access' = access \cup {Grant(e)} /\ hand[h].pc = "add" /\ hand'[h] = Idle
      BY <2>8, DoneType DEF AddElement, TInv
    <3>2. \A g \in access : ~Shares(g, e)
      BY <1>0, <3>1
    <3>3. Single'
      BY <1>0, <3>1, <3>2 DEF Shares, Grant
    <3>4. ASSUME NEW k \in Handlers, k # h, hand[k].pc # "idle" PROVE ~Shares(Grant(e), hand[k].ev)
      BY <1>0, <2>1, <3>4 DEF Busy, Related, Shares, Grant
    <3>5. Seen'
      BY <1>0, <2>2, <3>1, <3>4 DEF Idle
    <3> QED
      BY <2>4, <3>3, <3>5
  <2>9. CASE DeleteElement(h)
    <3>1. PICK g \in hand[h].todo : /\ hand' = [hand EXCEPT ![h].todo = @ \ {g}]
                                    /\ access' = access \ {g} \/ lapse'
      BY <2>9 DEF DeleteElement
    <3>2. access' = access \ {g} /\ hand[h].pc = "delete"
      BY <2>9, <3>1 DEF DeleteElement
    <3>3. hand'[h].pc = "delete" /\ hand'[h].ev = e /\ hand'[h].todo = hand[h].todo \ {g}
      BY <3>1, <3>2, LessType DEF TInv
    <3> QED
      BY <1>0, <2>2, <2>4, <3>2, <3>3
  <2> QED
    BY <1>3, <2>5, <2>6, <2>7, <2>8, <2>9 DEF HandlerStep
<1>4. CASE UNCHANGED <<hand, access>>
  BY <1>0, <1>4 DEF Busy
<1> QED
  BY <1>1, <1>2, <1>3, <1>4
     DEF Next, Hostapd, PublishAny, Leave, Notice, Associate, Publish, PublishLost, SetParentCredentials, LeafModeSet, vars

\* "if this iface or mac is in an existing key, remove it" (updateBridgeAccess):
\* an interface passes one address and an address passes on one interface, as long
\* as no two requests about the same one meet and no command fails.
THEOREM OneGrantEach == Spec => []OneGrant
<1>1. GrantInv => OneGrant
  BY DEF GrantInv, OneGrant
<1> QED
  BY <1>1, TypeInit, TypeStep, GrantInit, GrantStep, PTL DEF Spec

-----------------------------------------------------------------------------
(* The map follows the associations.                                       *)

\* Associations that have an interface, whether the station is still there or not.
Held == Associated \cup ghosts

\* Each interface belongs to one of them, and it exists.
UseInv ==
  /\ \A g, k \in Held : g[1] = k[1] => g = k
  /\ \A g \in ghosts : g \notin Associated
  /\ \A g \in Held : port[g[1]] # "absent"

\* A connect about the present instance of its interface.
Live(e) == e.kind = "connect" /\ e.cur

\* It is about the association that has the interface, its handler finds the
\* interface, and after joining finds it in the bridge.
LiveInv ==
  /\ \A k \in DOMAIN reports : Live(reports[k]) => Grant(reports[k]) \in Held
  /\ \A h \in Handlers : Live(hand[h].ev) =>
       /\ Grant(hand[h].ev) \in Held
       /\ hand[h].pc = "isolate" => port[hand[h].ev.iface] \in {"open", "isolated"}

\* A handler deletes only what shares something with its event.
TodoInv == \A h \in Handlers : \A g \in hand[h].todo : Shares(g, hand[h].ev)

\* After the first k reports only disconnects are about station or interface of g.
OnlyLeaves(g, k) ==
  \A j \in DOMAIN reports : j > k /\ Shares(g, reports[j]) => reports[j].kind = "disconnect"

\* An association is in the map, or on its way to it and nothing takes it away again.
Arrives(g) ==
  \/ \E k \in DOMAIN reports : Live(reports[k]) /\ Grant(reports[k]) = g /\ OnlyLeaves(g, k)
  \/ /\ OnlyLeaves(g, 0)
     /\ \/ \E h \in Handlers : Busy(h) /\ Live(hand[h].ev) /\ Grant(hand[h].ev) = g
        \/ g \in access /\ \A h \in Handlers : Busy(h) => ~Shares(g, hand[h].ev)

\* An event that adds g to the map, and one that certainly deletes it.
Adds(e, g) == e.kind = "connect" /\ Grant(e) = g

Clears(e, g) == Shares(g, e) /\ (e.kind = "disconnect" \/ (Live(e) /\ Grant(e) # g))

\* g is in the map or may get there.
Awaited(g) ==
  \/ g \in access
  \/ \E h \in Handlers : Busy(h) /\ Adds(hand[h].ev, g)
  \/ \E k \in DOMAIN reports : Adds(reports[k], g)

NotAdded(g, k) == \A j \in DOMAIN reports : j > k => ~Adds(reports[j], g)

\* It will be deleted, and not added again.
Departs(g) ==
  \/ \E k \in DOMAIN reports : Clears(reports[k], g) /\ NotAdded(g, k)
  \/ NotAdded(g, 0) /\ \E h \in Handlers : Busy(h) /\ Clears(hand[h].ev, g)

ArriveInv == ~lapse => \A g \in Associated : Arrives(g)

DepartInv == ~lapse => \A g \in (Ifaces \X Macs) \ Associated : Awaited(g) => Departs(g)

\* What an association consists of.
LEMMA AssociatedPairs ==
  ASSUME TInv
  PROVE  /\ Held \subseteq Ifaces \X Macs
         /\ \A m \in Macs : assoc[m] # None => <<assoc[m], m>> \in Associated
         /\ \A g \in Associated : g[2] \in Macs /\ assoc[g[2]] = g[1] /\ g[1] \in Ifaces /\ g = <<g[1], g[2]>>
<1>1. ASSUME NEW g \in Associated
      PROVE  g[2] \in Macs /\ assoc[g[2]] = g[1] /\ g[1] \in Ifaces /\ g = <<g[1], g[2]>>
  <2>1. PICK m \in Macs : assoc[m] # None /\ g = <<assoc[m], m>>
    BY DEF Associated
  <2> QED
    BY <2>1 DEF TInv, TypeOK
<1>2. \A m \in Macs : assoc[m] # None => <<assoc[m], m>> \in Associated
  BY DEF Associated
<1>3. Held \subseteq Ifaces \X Macs
  BY <1>1 DEF Held, TInv, EventInv
<1> QED
  BY <1>1, <1>2, <1>3

\* An interface is in use if and only if an association has it.
LEMMA UsedHeld ==
  ASSUME TInv, NEW i \in Ifaces
  PROVE  i \in Used <=> \E g \in Held : g[1] = i
<1>1. ASSUME i \in Used PROVE \E g \in Held : g[1] = i
  <2>1. CASE \E m \in Macs : i = assoc[m]
    <3>1. PICK m \in Macs : i = assoc[m]
      BY <2>1
    <3>2. <<i, m>> \in Associated
      BY <3>1, AssociatedPairs, NoneAssumption
    <3>3. <<i, m>>[1] = i
      OBVIOUS
    <3> QED
      BY <3>2, <3>3 DEF Held
  <2>2. CASE \E g \in ghosts : i = g[1]
    BY <2>2 DEF Held
  <2> QED
    BY <1>1, <2>1, <2>2 DEF Used
<1>2. ASSUME NEW g \in Held, g[1] = i PROVE i \in Used
  <2>1. CASE g \in Associated
    BY <1>2, <2>1, AssociatedPairs DEF Used
  <2>2. CASE g \in ghosts
    BY <1>2, <2>2 DEF Used
  <2> QED
    BY <2>1, <2>2 DEF Held
<1> QED
  BY <1>1, <1>2

\* Reports about an interface that is gone are marked, and stay what they are.
LEMMA OutdatedWorks ==
  ASSUME TInv, NEW i
  PROVE  /\ Outdated(i) \in Seq(ReportSet) /\ Len(Outdated(i)) = Len(reports)
         /\ DOMAIN Outdated(i) = DOMAIN reports
         /\ \A k \in DOMAIN reports :
              /\ Outdated(i)[k].kind = reports[k].kind
              /\ Outdated(i)[k].iface = reports[k].iface /\ Outdated(i)[k].mac = reports[k].mac
              /\ Outdated(i)[k].cur <=> reports[k].cur /\ reports[k].iface # i
<1>1. reports \in Seq(ReportSet) /\ Outdated(i) \in Seq(ReportSet)
  BY OutdatedType DEF TInv, EventInv
<1>2. DOMAIN Outdated(i) = DOMAIN reports
  BY DEF Outdated
<1>3. Len(Outdated(i)) = Len(reports)
  BY <1>1, <1>2
<1>4. ASSUME NEW k \in DOMAIN reports
      PROVE  /\ Outdated(i)[k].kind = reports[k].kind
             /\ Outdated(i)[k].iface = reports[k].iface /\ Outdated(i)[k].mac = reports[k].mac
             /\ Outdated(i)[k].cur <=> reports[k].cur /\ reports[k].iface # i
  <2>1. reports[k] \in ReportSet
    BY <1>1
  <2>2. Outdated(i)[k] = IF reports[k].iface = i THEN [reports[k] EXCEPT !.cur = FALSE] ELSE reports[k]
    BY DEF Outdated
  <2> QED
    BY <2>1, <2>2 DEF ReportSet
<1> QED
  BY <1>1, <1>2, <1>3, <1>4

\* A report is added at the end.
LEMMA AppendWorks ==
  ASSUME NEW S, NEW s \in Seq(S), NEW x \in S
  PROVE  /\ Append(s, x) \in Seq(S) /\ Len(s) \in Nat /\ DOMAIN s = 1..Len(s)
         /\ DOMAIN Append(s, x) = DOMAIN s \cup {Len(s) + 1}
         /\ Append(s, x)[Len(s) + 1] = x
         /\ \A k \in DOMAIN s : Append(s, x)[k] = s[k] /\ k \in Nat /\ k < Len(s) + 1 /\ k > 0
  BY AppendProperties

\* The first report is taken.
LEMMA TailWorks ==
  ASSUME NEW S, NEW s \in Seq(S), s # <<>>
  PROVE  /\ Tail(s) \in Seq(S) /\ Head(s) \in S /\ 1 \in DOMAIN s /\ Head(s) = s[1]
         /\ \A k \in DOMAIN Tail(s) : k \in Nat /\ k > 0 /\ k + 1 \in DOMAIN s /\ Tail(s)[k] = s[k + 1]
         /\ \A k \in DOMAIN s : k \in Nat /\ (k = 1 \/ (k > 1 /\ k - 1 \in DOMAIN Tail(s) /\ Tail(s)[k - 1] = s[k]))
  BY HeadTailProperties

-----------------------------------------------------------------------------
(* What hostapd does.                                                      *)

\* The association g ends and its interface goes.
Vacates(g) ==
  /\ g \in Held /\ Held' = Held \ {g} /\ Associated' = Associated \ {g} /\ ghosts' = ghosts \ {g}
  /\ Deleted(g[1])
  /\ reports' = Append(Outdated(g[1]), Report("disconnect", g[1], g[2]))
  /\ UNCHANGED <<access, lapse, flight, parent, missed>>

\* A station that leaves ends its association.
LEMMA LeaveVacates ==
  ASSUME TInv, UseInv, NEW m \in Macs, Leave(m)
  PROVE  Vacates(<<assoc[m], m>>)
<1> DEFINE g == <<assoc[m], m>>
<1>1. g \in Associated /\ g \notin ghosts
  BY AssociatedPairs DEF Leave, UseInv
<1>2. assoc' = [assoc EXCEPT ![m] = None] /\ ghosts' = ghosts
  BY DEF Leave
<1>3. \A n \in Macs : assoc'[n] = IF n = m THEN None ELSE assoc[n]
  BY <1>2 DEF TInv, TypeOK
<1>4. Associated' = Associated \ {g}
  BY <1>3 DEF Associated
<1> QED
  BY <1>1, <1>2, <1>4 DEF Leave, Vacates, Held

\* The access point a station has left notices.
LEMMA NoticeVacates ==
  ASSUME TInv, UseInv, NEW g \in ghosts, Notice(g)
  PROVE  Vacates(g)
<1>1. g \notin Associated /\ Associated' = Associated
  BY DEF UseInv, Notice, Associated
<1> QED
  BY <1>1 DEF Notice, Vacates, Held

\* A station takes a free interface; the one it had before is left behind.
LEMMA AssociateTakes ==
  ASSUME TInv, UseInv, NEW m \in Macs, NEW i \in Ifaces, Associate(m, i)
  PROVE  /\ Associated' = {g \in Associated : g[2] # m} \cup {<<i, m>>}
         /\ Held' = Held \cup {<<i, m>>}
         /\ \A g \in Held : g[1] # i
<1>1. \A g \in Held : g[1] # i
  BY UsedHeld DEF Associate
<1>2. \A n \in Macs : assoc'[n] = IF n = m THEN i ELSE assoc[n]
  BY DEF Associate, TInv, TypeOK
<1>3. i # None
  BY NoneAssumption
<1>4. Associated' = {g \in Associated : g[2] # m} \cup {<<i, m>>}
  BY <1>2, <1>3 DEF Associated
<1>5. {g \in Associated : g[2] = m} = IF assoc[m] = None THEN {} ELSE {<<assoc[m], m>>}
  <2>1. \A g \in Associated : g[2] = m => g = <<assoc[m], m>> /\ assoc[m] # None
    BY AssociatedPairs, NoneAssumption
  <2>2. assoc[m] # None => <<assoc[m], m>> \in Associated /\ <<assoc[m], m>>[2] = m
    BY AssociatedPairs
  <2> QED
    BY <2>1, <2>2
<1>6. ghosts' = ghosts \cup {g \in Associated : g[2] = m}
  BY <1>5 DEF Associate
<1> QED
  BY <1>1, <1>4, <1>6 DEF Held

-----------------------------------------------------------------------------
(* Interfaces, live reports, and what a handler deletes.                   *)

\* A step of a handler: it goes on with its event or is done with it.
LEMMA HandlerGoes ==
  ASSUME TInv, NEW h \in Handlers, HandlerStep(h)
  PROVE  /\ hand[h].ev \in ReportSet /\ Busy(h)
         /\ \/ hand'[h] = Idle
            \/ /\ hand'[h].ev = hand[h].ev /\ hand'[h].pc # "idle"
               /\ \A g \in hand'[h].todo : g \in hand[h].todo \/ Shares(g, hand[h].ev)
               /\ hand'[h].pc = "isolate" => port'[hand[h].ev.iface] \in {"open", "isolated"}
         /\ \A k \in Handlers : k # h => hand'[k] = hand[k]
         /\ UNCHANGED <<assoc, ghosts, reports, flight, parent, missed>>
         /\ \A j \in Ifaces : /\ port[j] # "absent" => port'[j] # "absent"
                              /\ port[j] \in {"open", "isolated"} => port'[j] \in {"open", "isolated"}
<1> DEFINE e == hand[h].ev
<1>1. e \in ReportSet /\ Busy(h) /\ UNCHANGED <<assoc, ghosts, reports, flight, parent, missed>>
  BY DEF HandlerStep, Join, Isolate, ReadMap, DeleteElement, DeletesDone, AddElement, TInv, EventInv, Busy
<1>2. \A k \in Handlers : k # h => hand'[k] = hand[k]
  BY HandlerType
<1>3. \A j \in Ifaces : /\ port[j] # "absent" => port'[j] # "absent"
                        /\ port[j] \in {"open", "isolated"} => port'[j] \in {"open", "isolated"}
  BY DEF HandlerStep, Join, Isolate, ReadMap, DeleteElement, DeletesDone, AddElement, TInv, TypeOK
<1>4. \/ hand'[h] = Idle
      \/ /\ hand'[h].ev = e /\ hand'[h].pc # "idle"
         /\ \A g \in hand'[h].todo : g \in hand[h].todo \/ Shares(g, e)
         /\ hand'[h].pc = "isolate" => port'[e.iface] \in {"open", "isolated"}
  <2>1. CASE Done(h)
    BY <2>1, DoneType DEF TInv
  <2>2. ASSUME NEW p \in Places, GoTo(h, p)
        PROVE  hand'[h].ev = e /\ hand'[h].pc = p /\ hand'[h].todo = hand[h].todo
    BY <2>2, GoToType DEF TInv
  <2>3. CASE Join(h) /\ GoTo(h, "isolate")
    <3>1. e.iface \in Ifaces /\ hand'[h].pc = "isolate"
      BY <1>1, <2>2, <2>3 DEF ReportSet, Places
    <3>2. port[e.iface] # "absent" /\ port' = IF port[e.iface] = "free" THEN [port EXCEPT ![e.iface] = "open"] ELSE port
      BY <2>3, <3>1, DoneType DEF Join, TInv, Idle
    <3>3. port'[e.iface] \in {"open", "isolated"}
      BY <3>1, <3>2 DEF TInv, TypeOK
    <3> QED
      BY <2>2, <2>3, <3>3 DEF Places
  <2>4. CASE ReadMap(h)
    <3>1. CASE GoTo(h, "delete")
      BY <2>2, <3>1 DEF Places
    <3> DEFINE found == {g \in access : Shares(g, e)}
    <3>2. CASE hand' = [hand EXCEPT ![h].pc = "delete", ![h].todo = found]
      <4>1. hand[h] \in Hands
        BY DEF TInv, EventInv
      <4>2. hand'[h] = [hand[h] EXCEPT !.pc = "delete", !.todo = found]
        BY <3>2 DEF TInv, EventInv
      <4>3. hand'[h].pc = "delete" /\ hand'[h].ev = e /\ hand'[h].todo = found
        BY <4>1, <4>2 DEF Hands
      <4> QED
        BY <4>3
    <3> QED
      BY <2>4, <3>1, <3>2 DEF ReadMap
  <2>5. CASE (Isolate(h) /\ GoTo(h, "read")) \/ (DeletesDone(h) /\ GoTo(h, "add"))
    BY <2>2, <2>5 DEF Places
  <2>6. CASE DeleteElement(h)
    BY <2>6, LessType DEF DeleteElement, TInv
  <2> QED
    BY <2>1, <2>3, <2>4, <2>5, <2>6 DEF HandlerStep, Join, Isolate, DeletesDone, AddElement
<1> QED
  BY <1>1, <1>2, <1>3, <1>4

\* What handling a report does to reports and handlers.
LEMMA HandleTakes ==
  ASSUME TInv, NEW h \in Handlers, Handle(h)
  PROVE  LET e == Head(reports) IN
         /\ reports # <<>> /\ reports' = Tail(reports) /\ e \in ReportSet /\ ~Busy(h)
         /\ IF leaf THEN /\ hand'[h].ev = e /\ hand'[h].pc \in {"join", "read"} /\ hand'[h].todo = {}
                         /\ flight' = Append(flight, [e EXCEPT !.cur = FALSE])
                    ELSE hand'[h] = hand[h] /\ lapse' /\ missed'
         /\ \A k \in Handlers : k # h => hand'[k] = hand[k]
         /\ UNCHANGED <<assoc, ghosts, port, access, parent>>
  BY HeadTailProperties DEF Handle, TInv, EventInv, TypeOK

\* The initial state.
LEMMA UseInit == Init => UseInv /\ LiveInv /\ TodoInv
<1> SUFFICES ASSUME Init PROVE UseInv /\ LiveInv /\ TodoInv
  OBVIOUS
<1>1. Associated = {} /\ Held = {}
  BY DEF Init, Associated, Held
<1>2. \A h \in Handlers : hand[h].ev.kind = "none" /\ hand[h].todo = {}
  BY DEF Init, Idle, NoEvent
<1> QED
  BY <1>1, <1>2 DEF Init, UseInv, LiveInv, TodoInv, Live

\* Each interface keeps belonging to one association.
LEMMA UseStep == TInv /\ UseInv /\ [Next]_vars => UseInv'
<1> SUFFICES ASSUME TInv, UseInv, [Next]_vars PROVE UseInv'
  OBVIOUS
<1>a. \A g \in Held : g[1] \in Ifaces
  BY AssociatedPairs
<1>1. ASSUME NEW g, Vacates(g) PROVE UseInv'
  <2>1. \A j \in Ifaces : port'[j] = IF j = g[1] THEN "absent" ELSE port[j]
    BY <1>1 DEF Vacates, Deleted, TInv, TypeOK
  <2> QED
    BY <1>a, <1>1, <2>1 DEF Vacates, UseInv
<1>2. ASSUME NEW m \in Macs, NEW i \in Ifaces, Associate(m, i) PROVE UseInv'
  <2>1. /\ Associated' = {g \in Associated : g[2] # m} \cup {<<i, m>>}
        /\ Held' = Held \cup {<<i, m>>}
        /\ \A g \in Held : g[1] # i
    BY <1>2, AssociateTakes
  <2>2. \A j \in Ifaces : port'[j] = IF j = i THEN "free" ELSE port[j]
    BY <1>2 DEF Associate, TInv, TypeOK
  <2>3. \A g, k \in Held' : g[1] = k[1] => g = k
    BY <2>1 DEF UseInv
  <2>4. ghosts' \subseteq ghosts \cup {<<assoc[m], m>>} /\ (assoc[m] = None => ghosts' = ghosts)
    BY <1>2 DEF Associate
  <2>5. ASSUME NEW g \in ghosts' PROVE g \notin Associated'
    <3>1. CASE g \in ghosts
      BY <2>1, <3>1 DEF UseInv, Held
    <3>2. CASE g = <<assoc[m], m>> /\ assoc[m] # None
      BY <2>1, <3>2, AssociatedPairs DEF Held
    <3> QED
      BY <2>4, <3>1, <3>2
  <2>6. \A g \in Held' : port'[g[1]] # "absent"
    BY <1>a, <2>1, <2>2 DEF UseInv
  <2> QED
    BY <2>3, <2>5, <2>6 DEF UseInv
<1>3. ASSUME NEW h \in Handlers, HandlerStep(h) PROVE UseInv'
  <2>1. UNCHANGED <<assoc, ghosts>> /\ \A j \in Ifaces : port[j] # "absent" => port'[j] # "absent"
    BY <1>3, HandlerGoes
  <2> QED
    BY <1>a, <2>1 DEF UseInv, Held, Associated
<1>4. CASE UNCHANGED <<assoc, ghosts, port>>
  BY <1>4 DEF UseInv, Held, Associated
<1> QED
  BY <1>1, <1>2, <1>3, <1>4, LeaveVacates, NoticeVacates
     DEF Next, Hostapd, Handle, PublishAny, Publish, PublishLost, SetParentCredentials, LeafModeSet, vars

\* Live reports stay about what has the interface.
LEMMA LiveStep == TInv /\ UseInv /\ LiveInv /\ [Next]_vars => LiveInv'
<1> SUFFICES ASSUME TInv, UseInv, LiveInv, [Next]_vars PROVE LiveInv'
  OBVIOUS
<1>a. \A g \in Held : g[1] \in Ifaces
  BY AssociatedPairs
<1>b. reports \in Seq(ReportSet)
  BY DEF TInv, EventInv
<1>1. ASSUME NEW g, Vacates(g) PROVE LiveInv'
  <2> DEFINE i == g[1]
             x == Report("disconnect", g[1], g[2])
  <2>1. i \in Ifaces /\ g[2] \in Macs /\ x \in ReportSet /\ ~Live(x)
    BY <1>1, AssociatedPairs DEF Vacates, Report, ReportSet, Live
  <2>2. \A k \in DOMAIN reports' :
          \/ k \in DOMAIN reports /\ reports'[k] = Outdated(i)[k]
          \/ reports'[k] = x
    BY <1>1, <2>1, AppendWorks, OutdatedWorks DEF Vacates
  <2>3. ASSUME NEW k \in DOMAIN reports', Live(reports'[k]) PROVE Grant(reports'[k]) \in Held'
    <3>1. k \in DOMAIN reports /\ reports'[k] = Outdated(i)[k]
      BY <2>1, <2>2, <2>3
    <3>2. Live(reports[k]) /\ reports[k].iface # i /\ Grant(reports'[k]) = Grant(reports[k])
      BY <2>3, <3>1, OutdatedWorks DEF Live, Grant
    <3>3. Grant(reports[k]) \in Held /\ Grant(reports[k])[1] # i
      BY <3>1, <3>2 DEF LiveInv, Grant
    <3> QED
      BY <1>1, <3>2, <3>3 DEF Vacates
  <2>4. ASSUME NEW h \in Handlers, Live(hand'[h].ev)
        PROVE  /\ Grant(hand'[h].ev) \in Held'
               /\ hand'[h].pc = "isolate" => port'[hand'[h].ev.iface] \in {"open", "isolated"}
    <3>1. /\ Live(hand[h].ev) /\ hand[h].ev.iface # i /\ Grant(hand'[h].ev) = Grant(hand[h].ev)
          /\ hand'[h].pc = hand[h].pc /\ hand'[h].ev.iface = hand[h].ev.iface
      BY <1>1, <2>4, DeletedHands DEF Vacates, Live, Grant, TInv
    <3>2. Grant(hand[h].ev) \in Held /\ Grant(hand[h].ev)[1] = hand[h].ev.iface
      BY <3>1 DEF LiveInv, Grant
    <3>3. port'[hand[h].ev.iface] = port[hand[h].ev.iface]
      BY <1>a, <1>1, <3>1, <3>2 DEF Vacates, Deleted, TInv, TypeOK
    <3> QED
      BY <1>1, <3>1, <3>2, <3>3 DEF Vacates, LiveInv
  <2> QED
    BY <2>3, <2>4 DEF LiveInv
<1>2. ASSUME NEW m \in Macs, NEW i \in Ifaces, Associate(m, i) PROVE LiveInv'
  <2> DEFINE x == Report("connect", i, m)
  <2>1. /\ Held' = Held \cup {<<i, m>>} /\ \A g \in Held : g[1] # i
        /\ reports' = Append(reports, x) /\ UNCHANGED hand
    BY <1>2, AssociateTakes DEF Associate
  <2>2. x \in ReportSet /\ Grant(x) = <<i, m>>
    BY DEF Report, ReportSet, Grant
  <2>3. \A k \in DOMAIN reports' : (k \in DOMAIN reports /\ reports'[k] = reports[k]) \/ reports'[k] = x
    BY <1>b, <2>1, <2>2, AppendWorks
  <2>4. \A j \in Ifaces : j # i => port'[j] = port[j]
    BY <1>2 DEF Associate, TInv, TypeOK
  <2>5. ASSUME NEW h \in Handlers, Live(hand[h].ev)
        PROVE  /\ Grant(hand[h].ev) \in Held'
               /\ hand[h].pc = "isolate" => port'[hand[h].ev.iface] \in {"open", "isolated"}
    <3>1. Grant(hand[h].ev) \in Held /\ Grant(hand[h].ev)[1] = hand[h].ev.iface
      BY <2>5 DEF LiveInv, Grant
    <3>2. hand[h].ev.iface \in Ifaces /\ hand[h].ev.iface # i
      BY <1>a, <2>1, <3>1
    <3> QED
      BY <2>1, <2>4, <2>5, <3>1, <3>2 DEF LiveInv
  <2> QED
    BY <2>1, <2>2, <2>3, <2>5 DEF LiveInv
<1>3. ASSUME NEW h \in Handlers, Handle(h) PROVE LiveInv'
  <2> DEFINE e == Head(reports)
  <2>1. /\ reports # <<>> /\ reports' = Tail(reports)
        /\ hand'[h] = hand[h] \/ (hand'[h].ev = e /\ hand'[h].pc \in {"join", "read"})
        /\ \A k \in Handlers : k # h => hand'[k] = hand[k]
        /\ UNCHANGED <<assoc, ghosts, port>>
    BY <1>3, HandleTakes
  <2>2. Held' = Held
    BY <2>1 DEF Held, Associated
  <2>3. Live(e) => Grant(e) \in Held
    BY <1>b, <2>1, TailWorks DEF LiveInv
  <2>4. \A k \in DOMAIN reports' : Live(reports'[k]) => Grant(reports'[k]) \in Held'
    BY <1>b, <2>1, <2>2, TailWorks DEF LiveInv
  <2>5. ASSUME NEW k \in Handlers, Live(hand'[k].ev)
        PROVE  /\ Grant(hand'[k].ev) \in Held'
               /\ hand'[k].pc = "isolate" => port'[hand'[k].ev.iface] \in {"open", "isolated"}
    <3>1. CASE hand'[k] = hand[k]
      BY <2>1, <2>2, <2>5, <3>1 DEF LiveInv
    <3>2. CASE k = h /\ hand'[h].ev = e /\ hand'[h].pc \in {"join", "read"}
      BY <2>2, <2>3, <2>5, <3>2
    <3> QED
      BY <2>1, <3>1, <3>2
  <2> QED
    BY <2>4, <2>5 DEF LiveInv
<1>4. ASSUME NEW h \in Handlers, HandlerStep(h) PROVE LiveInv'
  <2>1. /\ UNCHANGED <<assoc, ghosts, reports>>
        /\ \A k \in Handlers : k # h => hand'[k] = hand[k]
        /\ \/ hand'[h] = Idle
           \/ /\ hand'[h].ev = hand[h].ev
              /\ hand'[h].pc = "isolate" => port'[hand[h].ev.iface] \in {"open", "isolated"}
        /\ \A j \in Ifaces : port[j] \in {"open", "isolated"} => port'[j] \in {"open", "isolated"}
    BY <1>4, HandlerGoes
  <2>2. Held' = Held
    BY <2>1 DEF Held, Associated
  <2>3. ASSUME NEW k \in Handlers, Live(hand'[k].ev)
        PROVE  /\ Grant(hand'[k].ev) \in Held'
               /\ hand'[k].pc = "isolate" => port'[hand'[k].ev.iface] \in {"open", "isolated"}
    <3>1. CASE k # h
      <4>1. hand'[k] = hand[k] /\ Grant(hand[k].ev) \in Held /\ Grant(hand[k].ev)[1] = hand[k].ev.iface
        BY <2>1, <2>3, <3>1 DEF LiveInv, Grant
      <4> QED
        BY <1>a, <2>1, <2>2, <2>3, <4>1 DEF LiveInv
    <3>2. CASE k = h /\ hand'[h] = Idle
      BY <2>3, <3>2 DEF Idle, NoEvent, Live
    <3>3. CASE k = h /\ hand'[h].ev = hand[h].ev
      BY <2>1, <2>2, <2>3, <3>2, <3>3 DEF LiveInv
    <3> QED
      BY <2>1, <3>1, <3>2, <3>3
  <2> QED
    BY <2>1, <2>2, <2>3 DEF LiveInv
<1>5. CASE UNCHANGED <<assoc, ghosts, port, reports, hand>>
  BY <1>5 DEF LiveInv, Held, Associated
<1> QED
  BY <1>1, <1>2, <1>3, <1>4, <1>5, LeaveVacates, NoticeVacates
     DEF Next, Hostapd, PublishAny, Publish, PublishLost, SetParentCredentials, LeafModeSet, vars

\* A handler keeps deleting only what shares something with its event.
LEMMA TodoStep == TInv /\ TodoInv /\ [Next]_vars => TodoInv'
<1> SUFFICES ASSUME TInv, TodoInv, [Next]_vars PROVE TodoInv'
  OBVIOUS
<1>1. ASSUME NEW i, Deleted(i) PROVE TodoInv'
  BY <1>1, DeletedHands DEF TodoInv, Shares, TInv
<1>2. ASSUME NEW h \in Handlers, Handle(h) PROVE TodoInv'
  <2>1. /\ hand'[h] = hand[h] \/ hand'[h].todo = {}
        /\ \A k \in Handlers : k # h => hand'[k] = hand[k]
    BY <1>2, HandleTakes
  <2> QED
    BY <2>1 DEF TodoInv
<1>3. ASSUME NEW h \in Handlers, HandlerStep(h) PROVE TodoInv'
  <2>1. /\ \A k \in Handlers : k # h => hand'[k] = hand[k]
        /\ \/ hand'[h] = Idle
           \/ /\ hand'[h].ev = hand[h].ev
              /\ \A g \in hand'[h].todo : g \in hand[h].todo \/ Shares(g, hand[h].ev)
    BY <1>3, HandlerGoes
  <2>2. Idle.todo = {}
    BY DEF Idle
  <2> QED
    BY <2>1, <2>2 DEF TodoInv
<1>4. CASE UNCHANGED hand
  BY <1>4 DEF TodoInv
<1> QED
  BY <1>1, <1>2, <1>3, <1>4
     DEF Next, Hostapd, Leave, Notice, Associate, PublishAny, Publish, PublishLost, SetParentCredentials, LeafModeSet, vars

-----------------------------------------------------------------------------
(* Reports, handlers and the map, step by step.                            *)

\* No lapse is forgotten.
LEMMA LapseStays == [Next]_vars /\ ~lapse' => ~lapse
<1> SUFFICES ASSUME [Next]_vars, ~lapse' PROVE ~lapse
  OBVIOUS
<1>1. ASSUME NEW h \in Handlers, Handle(h) PROVE ~lapse
  BY <1>1, Zenon DEF Handle
<1>2. ASSUME NEW h \in Handlers, HandlerStep(h) PROVE ~lapse
  BY <1>2 DEF HandlerStep, Join, Isolate, ReadMap, DeleteElement, DeletesDone, AddElement
<1>3. CASE UNCHANGED lapse
  BY <1>3
<1> QED
  BY <1>1, <1>2, <1>3
     DEF Next, Hostapd, Leave, Notice, Associate, PublishAny, Publish, PublishLost, SetParentCredentials, LeafModeSet, vars

Same(e, f) == e.kind = f.kind /\ e.iface = f.iface /\ e.mac = f.mac

\* A report is new, the others are the ones there were.
Reported(x) ==
  /\ Len(reports) \in Nat
  /\ DOMAIN reports' = DOMAIN reports \cup {Len(reports) + 1} /\ reports'[Len(reports) + 1] = x
  /\ \A k \in DOMAIN reports : k \in Nat /\ 0 < k /\ k < Len(reports) + 1 /\ Same(reports'[k], reports[k])

\* The end of an association is reported; about its interface nothing is current any more.
LEMMA VacatesReports ==
  ASSUME TInv, NEW g, Vacates(g)
  PROVE  /\ Reported(Report("disconnect", g[1], g[2]))
         /\ \A k \in DOMAIN reports : reports[k].iface # g[1] => (reports'[k].cur <=> reports[k].cur)
         /\ \A h \in Handlers : /\ Same(hand'[h].ev, hand[h].ev) /\ hand'[h].pc = hand[h].pc
                                /\ hand[h].ev.iface # g[1] => hand'[h] = hand[h]
<1>1. g[1] \in Ifaces /\ g[2] \in Macs
  BY AssociatedPairs DEF Vacates
<1>2. Report("disconnect", g[1], g[2]) \in ReportSet
  BY <1>1 DEF Report, ReportSet
<1>3. /\ Outdated(g[1]) \in Seq(ReportSet) /\ Len(Outdated(g[1])) = Len(reports)
      /\ DOMAIN Outdated(g[1]) = DOMAIN reports
      /\ \A k \in DOMAIN reports :
           /\ Same(Outdated(g[1])[k], reports[k])
           /\ Outdated(g[1])[k].cur <=> reports[k].cur /\ reports[k].iface # g[1]
  BY OutdatedWorks DEF Same
<1>4. reports' = Append(Outdated(g[1]), Report("disconnect", g[1], g[2]))
  BY DEF Vacates
<1>5. /\ Reported(Report("disconnect", g[1], g[2]))
      /\ \A k \in DOMAIN reports : reports'[k] = Outdated(g[1])[k]
  BY <1>2, <1>3, <1>4, AppendWorks DEF Reported
<1>6. Deleted(g[1])
  BY DEF Vacates
<1>7. \A h \in Handlers : Same(hand'[h].ev, hand[h].ev) /\ hand'[h].pc = hand[h].pc
  BY <1>6, DeletedHands DEF Same, TInv
<1>8. \A h \in Handlers : hand[h].ev.iface # g[1] => hand'[h] = hand[h]
  BY <1>6 DEF Deleted
<1> QED
  BY <1>3, <1>5, <1>7, <1>8

\* A new association is reported, and nothing else happens.
LEMMA AssociateReports ==
  ASSUME TInv, NEW m \in Macs, NEW i \in Ifaces, Associate(m, i)
  PROVE  /\ Reported(Report("connect", i, m))
         /\ \A k \in DOMAIN reports : reports'[k] = reports[k]
         /\ UNCHANGED <<hand, access, lapse, flight, parent, missed>>
<1>1. Report("connect", i, m) \in ReportSet /\ reports \in Seq(ReportSet)
  BY DEF Report, ReportSet, TInv, EventInv
<1>2. reports' = Append(reports, Report("connect", i, m))
  BY DEF Associate
<1>3. \A k \in DOMAIN reports : reports'[k] = reports[k] /\ Same(reports'[k], reports[k])
  BY <1>1, <1>2, AppendWorks DEF Same
<1>4. Reported(Report("connect", i, m))
  BY <1>1, <1>2, <1>3, AppendWorks DEF Reported
<1> QED
  BY <1>3, <1>4 DEF Associate

\* The first report has been taken.
LEMMA HandleReports ==
  ASSUME TInv, NEW h \in Handlers, Handle(h)
  PROVE  /\ 1 \in DOMAIN reports /\ Head(reports) = reports[1]
         /\ \A k \in DOMAIN reports' : k \in Nat /\ k > 0 /\ k + 1 \in DOMAIN reports /\ reports'[k] = reports[k + 1]
         /\ \A k \in DOMAIN reports : k \in Nat /\ (k = 1 \/ (k > 1 /\ k - 1 \in DOMAIN reports' /\ reports'[k - 1] = reports[k]))
<1>1. reports \in Seq(ReportSet) /\ reports # <<>> /\ reports' = Tail(reports)
  BY HandleTakes DEF TInv, EventInv
<1> QED
  BY <1>1, TailWorks

\* Without a failed call, a handler goes on, gives up because its interface is
\* gone, or is through.
LEMMA HandlerMaps ==
  ASSUME TInv, UseInv, LiveInv, NEW h \in Handlers, HandlerStep(h), ~lapse'
  PROVE  \/ /\ hand'[h].ev = hand[h].ev /\ hand'[h].pc # "idle"
            /\ access' \subseteq access /\ access \ access' \subseteq hand[h].todo
         \/ /\ hand'[h] = Idle /\ hand[h].ev.kind = "connect" /\ ~hand[h].ev.cur
            /\ UNCHANGED access
         \/ /\ hand'[h] = Idle /\ hand[h].ev.kind = "disconnect" /\ hand[h].pc = "delete"
            /\ access' = access \ hand[h].todo
         \/ /\ hand'[h] = Idle /\ hand[h].ev.kind = "connect" /\ hand[h].pc = "add"
            /\ access' = access \cup {Grant(hand[h].ev)}
<1> DEFINE e == hand[h].ev
<1>1. e \in ReportSet /\ (hand[h].pc \in {"join", "isolate", "add"} => e.kind = "connect")
  BY HandlerGoes DEF TInv, TypeOK
<1>2. ASSUME Live(e) PROVE /\ port[e.iface] # "absent"
                           /\ hand[h].pc = "isolate" => port[e.iface] \in {"open", "isolated"}
  <2>1. Grant(e) \in Held /\ Grant(e)[1] = e.iface
    BY <1>2 DEF LiveInv, Grant
  <2> QED
    BY <1>2, <2>1 DEF LiveInv, UseInv
<1>3. ASSUME NEW p \in Places \ {"idle"}, GoTo(h, p) PROVE hand'[h].ev = e /\ hand'[h].pc # "idle"
  BY <1>3, GoToType DEF TInv
<1>4. Done(h) => hand'[h] = Idle
  BY DoneType DEF TInv
<1>5. CASE Join(h)
  BY <1>1, <1>2, <1>3, <1>4, <1>5 DEF Join, Live, Places
<1>6. CASE Isolate(h)
  BY <1>1, <1>2, <1>3, <1>4, <1>6 DEF Isolate, Live, Places
<1>7. CASE ReadMap(h)
  <2>1. UNCHANGED access
    BY <1>7 DEF ReadMap
  <2>2. hand'[h].pc # "idle"
    BY <1>7 DEF ReadMap, GoTo, TInv, EventInv, Hands
  <2>3. hand'[h].ev = e
    BY <2>2, HandlerGoes DEF Idle
  <2> QED
    BY <2>1, <2>2, <2>3
<1>8. CASE DeletesDone(h)
  BY <1>1, <1>3, <1>4, <1>8 DEF DeletesDone, Places, ReportSet
<1>9. CASE AddElement(h)
  BY <1>1, <1>4, <1>9 DEF AddElement
<1>10. CASE DeleteElement(h)
  <2>1. PICK g \in hand[h].todo : hand' = [hand EXCEPT ![h].todo = @ \ {g}] /\ access' = access \ {g}
    BY <1>10 DEF DeleteElement
  <2>2. hand'[h].ev = e /\ hand'[h].pc = "delete"
    BY <1>10, <2>1, LessType DEF DeleteElement, TInv
  <2> QED
    BY <2>1, <2>2
<1> QED
  BY <1>5, <1>6, <1>7, <1>8, <1>9, <1>10 DEF HandlerStep

-----------------------------------------------------------------------------
(* Who is there gets into the map.                                         *)

\* What is there stays in the map, or on its way to it.
LEMMA ArriveStep == TInv /\ UseInv /\ LiveInv /\ TodoInv /\ GrantInv /\ ArriveInv /\ [Next]_vars => ArriveInv'
<1> SUFFICES ASSUME TInv, UseInv, LiveInv, TodoInv, GrantInv, ArriveInv, [Next]_vars, ~lapse',
                    NEW g \in Associated'
             PROVE  Arrives(g)'
  BY DEF ArriveInv
<1>0. ~lapse
  BY LapseStays
<1>a. ASSUME g \in Associated PROVE Arrives(g) /\ g \in Held
  BY <1>0, <1>a DEF ArriveInv, Held
<1>1. ASSUME NEW v, Vacates(v) PROVE Arrives(g)'
  <2>1. g \in Associated /\ g # v /\ v \in Held
    BY <1>1 DEF Vacates
  <2>2. Arrives(g) /\ g[1] # v[1]
    BY <1>a, <2>1 DEF UseInv
  <2> DEFINE x == Report("disconnect", v[1], v[2])
  <2>3. /\ Reported(x) /\ x.kind = "disconnect"
        /\ \A k \in DOMAIN reports : reports[k].iface # v[1] => (reports'[k].cur <=> reports[k].cur)
        /\ \A h \in Handlers : /\ Same(hand'[h].ev, hand[h].ev) /\ hand'[h].pc = hand[h].pc
                               /\ hand[h].ev.iface # v[1] => hand'[h] = hand[h]
        /\ UNCHANGED access
    BY <1>1, VacatesReports DEF Report, Vacates
  <2>4. ASSUME NEW k \in Nat, OnlyLeaves(g, k) PROVE OnlyLeaves(g, k)'
    BY <2>3, <2>4 DEF OnlyLeaves, Reported, Same, Shares
  <2>5. ASSUME NEW k \in DOMAIN reports, Live(reports[k]), Grant(reports[k]) = g, OnlyLeaves(g, k)
        PROVE  Arrives(g)'
    <3>1. reports[k].iface # v[1]
      BY <2>2, <2>5 DEF Grant
    <3>2. k \in DOMAIN reports' /\ k \in Nat /\ Live(reports'[k]) /\ Grant(reports'[k]) = g
      BY <2>3, <2>5, <3>1 DEF Live, Grant, Reported, Same
    <3> QED
      BY <2>4, <2>5, <3>2 DEF Arrives
  <2>6. ASSUME OnlyLeaves(g, 0), NEW h \in Handlers, Busy(h), Live(hand[h].ev), Grant(hand[h].ev) = g
        PROVE  Arrives(g)'
    <3>1. hand'[h] = hand[h]
      BY <2>2, <2>3, <2>6 DEF Grant
    <3> QED
      BY <2>4, <2>6, <3>1 DEF Arrives, Busy
  <2>7. ASSUME OnlyLeaves(g, 0), g \in access, \A h \in Handlers : Busy(h) => ~Shares(g, hand[h].ev)
        PROVE  Arrives(g)'
    BY <2>3, <2>4, <2>7 DEF Arrives, Busy, Shares, Same
  <2> QED
    BY <2>2, <2>5, <2>6, <2>7 DEF Arrives
<1>2. ASSUME NEW m \in Macs, NEW i \in Ifaces, Associate(m, i) PROVE Arrives(g)'
  <2> DEFINE x == Report("connect", i, m)
  <2>1. /\ Associated' = {k \in Associated : k[2] # m} \cup {<<i, m>>}
        /\ \A k \in Held : k[1] # i
    BY <1>2, AssociateTakes
  <2>2. /\ Reported(x) /\ Live(x) /\ Grant(x) = <<i, m>> /\ x.iface = i /\ x.mac = m
        /\ \A k \in DOMAIN reports : reports'[k] = reports[k]
        /\ UNCHANGED <<hand, access>>
    BY <1>2, AssociateReports DEF Report, Live, Grant
  <2>3. CASE g = <<i, m>>
    <3>0. PICK n \in Nat : n = Len(reports) + 1
      BY <2>2 DEF Reported
    <3>1. n \in DOMAIN reports' /\ Live(reports'[n]) /\ Grant(reports'[n]) = g
      BY <2>2, <2>3, <3>0 DEF Reported
    <3>2. OnlyLeaves(g, n)'
      BY <2>2, <3>0 DEF OnlyLeaves, Reported
    <3> QED
      BY <3>1, <3>2 DEF Arrives
  <2>4. CASE g \in Associated /\ g[2] # m
    <3>1. Arrives(g) /\ ~Shares(g, x)
      BY <1>a, <2>1, <2>2, <2>4 DEF Shares
    <3>2. ASSUME NEW k \in Nat, OnlyLeaves(g, k) PROVE OnlyLeaves(g, k)'
      BY <2>2, <3>1, <3>2 DEF OnlyLeaves, Reported
    <3>3. ASSUME NEW k \in DOMAIN reports, Live(reports[k]), Grant(reports[k]) = g, OnlyLeaves(g, k)
          PROVE  Arrives(g)'
      <4>1. k \in DOMAIN reports' /\ k \in Nat /\ reports'[k] = reports[k]
        BY <2>2 DEF Reported
      <4> QED
        BY <3>2, <3>3, <4>1 DEF Arrives
    <3>4. CASE OnlyLeaves(g, 0)
      BY <2>2, <3>1, <3>2, <3>3, <3>4 DEF Arrives, Busy
    <3> QED
      BY <3>1, <3>3, <3>4 DEF Arrives
  <2> QED
    BY <2>1, <2>3, <2>4
<1>3. ASSUME NEW h \in Handlers, Handle(h) PROVE Arrives(g)'
  <2> DEFINE e == Head(reports)
  <2>1. /\ 1 \in DOMAIN reports /\ e = reports[1] /\ e \in ReportSet /\ ~Busy(h)
        /\ \A k \in DOMAIN reports' : k \in Nat /\ k > 0 /\ k + 1 \in DOMAIN reports /\ reports'[k] = reports[k + 1]
        /\ \A k \in DOMAIN reports : k \in Nat /\ (k = 1 \/ (k > 1 /\ k - 1 \in DOMAIN reports' /\ reports'[k - 1] = reports[k]))
    BY <1>3, HandleReports, HandleTakes
  <2>2. /\ hand'[h].ev = e /\ hand'[h].pc \in {"join", "read"}
        /\ \A k \in Handlers : k # h => hand'[k] = hand[k]
        /\ UNCHANGED <<assoc, access>>
    BY <1>3, HandleTakes
  <2>3. Associated' = Associated
    BY <2>2 DEF Associated
  <2>4. Arrives(g) /\ g[2] \in Macs /\ assoc[g[2]] = g[1] /\ g[1] \in Ifaces
    BY <1>a, <2>3, AssociatedPairs
  <2>5. Shares(g, e) => e.kind = "connect"
    <3>1. ~Overtaken(e)
      BY <1>3 DEF Handle
    <3>2. assoc[g[2]] # None
      BY <2>4, NoneAssumption
    <3> QED
      BY <2>1, <2>4, <3>1, <3>2 DEF Overtaken, Shares, ReportSet
  <2>6. ASSUME NEW k \in DOMAIN reports, k > 1, OnlyLeaves(g, k) PROVE OnlyLeaves(g, k - 1)'
    BY <2>1, <2>6 DEF OnlyLeaves, Shares
  <2>7. ASSUME OnlyLeaves(g, 0) \/ OnlyLeaves(g, 1) PROVE OnlyLeaves(g, 0)'
    BY <2>1, <2>7 DEF OnlyLeaves, Shares
  <2>8. ASSUME NEW k \in DOMAIN reports, Live(reports[k]), Grant(reports[k]) = g, OnlyLeaves(g, k)
        PROVE  Arrives(g)'
    <3>1. CASE k = 1
      BY <2>1, <2>2, <2>7, <2>8, <3>1 DEF Arrives, Busy
    <3>2. CASE k > 1
      BY <2>1, <2>6, <2>8, <3>2 DEF Arrives
    <3> QED
      BY <2>1, <3>1, <3>2
  <2>9. CASE OnlyLeaves(g, 0)
    <3>1. ~Shares(g, e)
      BY <2>1, <2>5, <2>9 DEF OnlyLeaves
    <3>2. ASSUME NEW k \in Handlers, Busy(k), Live(hand[k].ev), Grant(hand[k].ev) = g PROVE Arrives(g)'
      BY <2>1, <2>2, <2>7, <2>9, <3>2 DEF Arrives, Busy
    <3>3. ASSUME g \in access, \A k \in Handlers : Busy(k) => ~Shares(g, hand[k].ev) PROVE Arrives(g)'
      BY <2>2, <2>7, <2>9, <3>1, <3>3 DEF Arrives, Busy, Shares
    <3> QED
      BY <2>4, <2>8, <2>9, <3>2, <3>3 DEF Arrives
  <2> QED
    BY <2>4, <2>8, <2>9 DEF Arrives
<1>4. ASSUME NEW h \in Handlers, HandlerStep(h) PROVE Arrives(g)'
  <2> DEFINE e == hand[h].ev
  <2>1. /\ e \in ReportSet /\ Busy(h) /\ UNCHANGED <<assoc, reports>>
        /\ \A k \in Handlers : k # h => hand'[k] = hand[k]
    BY <1>4, HandlerGoes
  <2>2. Associated' = Associated
    BY <2>1 DEF Associated
  <2>3. Arrives(g)
    BY <1>a, <2>2
  <2>4. \A k \in Nat : OnlyLeaves(g, k) => OnlyLeaves(g, k)'
    BY <2>1 DEF OnlyLeaves, Shares
  <2>5. ASSUME NEW k \in DOMAIN reports, Live(reports[k]), Grant(reports[k]) = g, OnlyLeaves(g, k)
        PROVE  Arrives(g)'
    BY <2>1, <2>4, <2>5 DEF Arrives, OnlyLeaves, Shares
  <2>6. ASSUME OnlyLeaves(g, 0), NEW k \in Handlers, Busy(k), Live(hand[k].ev), Grant(hand[k].ev) = g
        PROVE  Arrives(g)'
    <3>1. CASE k # h
      BY <2>1, <2>4, <2>6, <3>1 DEF Arrives, Busy
    <3>2. CASE k = h /\ hand'[h].ev = e /\ hand'[h].pc # "idle"
      BY <2>4, <2>6, <3>2 DEF Arrives, Busy
    <3>3. CASE k = h /\ hand'[h] = Idle /\ access' = access \cup {Grant(e)}
      <4>1. \A j \in Handlers : Busy(j) /\ j # h => ~Shares(g, hand[j].ev)
        BY <1>0, <2>1, <2>6, <3>3 DEF GrantInv, Related, Shares, Grant
      <4>2. \A j \in Handlers : Busy(j)' => ~Shares(g, hand'[j].ev)
        BY <2>1, <3>3, <4>1 DEF Busy, Idle
      <4>3. g \in access'
        BY <2>6, <3>3
      <4> QED
        BY <2>4, <2>6, <4>2, <4>3 DEF Arrives, Shares
    <3> QED
      BY <1>4, <2>6, <3>1, <3>2, <3>3, HandlerMaps DEF Live
  <2>7. ASSUME OnlyLeaves(g, 0), g \in access, \A k \in Handlers : Busy(k) => ~Shares(g, hand[k].ev)
        PROVE  Arrives(g)'
    <3>1. g \notin hand[h].todo
      BY <2>1, <2>7 DEF TodoInv
    <3>2. g \in access' /\ (hand'[h] = Idle \/ hand'[h].ev = e)
      BY <1>4, <2>7, <3>1, HandlerMaps
    <3>3. \A k \in Handlers : Busy(k)' => ~Shares(g, hand'[k].ev)
      BY <2>1, <2>7, <3>2 DEF Busy, Idle
    <3> QED
      BY <2>4, <2>7, <3>2, <3>3 DEF Arrives, Shares
  <2> QED
    BY <2>3, <2>5, <2>6, <2>7 DEF Arrives
<1>5. CASE UNCHANGED <<assoc, reports, access, hand>>
  <2>1. Associated' = Associated
    BY <1>5 DEF Associated
  <2>2. Arrives(g)
    BY <1>a, <2>1
  <2> QED
    BY <1>5, <2>2 DEF Arrives, OnlyLeaves, Busy, Shares
<1> QED
  BY <1>1, <1>2, <1>3, <1>4, <1>5, LeaveVacates, NoticeVacates
     DEF Next, Hostapd, PublishAny, Publish, PublishLost, SetParentCredentials, LeafModeSet, vars

-----------------------------------------------------------------------------
(* Who is gone gets out of the map.                                        *)

\* What is not there leaves the map, and nothing that is still to come adds it again.
LEMMA DepartStep == TInv /\ UseInv /\ LiveInv /\ GrantInv /\ DepartInv /\ [Next]_vars => DepartInv'
<1> SUFFICES ASSUME TInv, UseInv, LiveInv, GrantInv, DepartInv, [Next]_vars, ~lapse',
                    NEW g \in Ifaces \X Macs, g \notin Associated', Awaited(g)'
             PROVE  Departs(g)'
  BY DEF DepartInv
<1>0. ~lapse
  BY LapseStays
<1>a. ASSUME g \notin Associated, Awaited(g) PROVE Departs(g)
  BY <1>0, <1>a DEF DepartInv
<1>1. ASSUME NEW v, Vacates(v) PROVE Departs(g)'
  <2> DEFINE x == Report("disconnect", v[1], v[2])
  <2>1. /\ Reported(x) /\ x.kind = "disconnect" /\ x.iface = v[1] /\ x.mac = v[2]
        /\ \A k \in DOMAIN reports : reports[k].iface # v[1] => (reports'[k].cur <=> reports[k].cur)
        /\ \A h \in Handlers : /\ Same(hand'[h].ev, hand[h].ev) /\ hand'[h].pc = hand[h].pc
                               /\ hand[h].ev.iface # v[1] => hand'[h] = hand[h]
        /\ UNCHANGED access
    BY <1>1, VacatesReports DEF Report, Vacates
  <2>2. CASE Shares(g, x)
    <3>1. PICK n \in Nat : n = Len(reports) + 1
      BY <2>1 DEF Reported
    <3>2. n \in DOMAIN reports' /\ Clears(reports'[n], g) /\ NotAdded(g, n)'
      BY <2>1, <2>2, <3>1 DEF Reported, Clears, NotAdded
    <3> QED
      BY <3>2 DEF Departs
  <2>3. CASE ~Shares(g, x)
    <3>1. v \in Held /\ g # v /\ g \notin Associated
      BY <1>1, <2>1, <2>3 DEF Vacates, Shares
    <3>2. Awaited(g)
      BY <2>1 DEF Awaited, Reported, Adds, Same, Grant, Busy
    <3>3. Departs(g)
      BY <1>a, <3>1, <3>2
    <3>4. ASSUME NEW k \in Nat, NotAdded(g, k) PROVE NotAdded(g, k)'
      BY <2>1, <3>4 DEF NotAdded, Reported, Adds, Same, Grant
    <3>5. ASSUME NEW e, Clears(e, g), Live(e) => Grant(e) \in Held
          PROVE  e.kind = "disconnect" \/ e.iface # v[1]
      <4>1. CASE Live(e) /\ e.iface = v[1]
        <5>1. Grant(e) = v
          BY <3>1, <3>5, <4>1 DEF UseInv, Grant
        <5> QED
          BY <2>1, <2>3, <3>5, <5>1 DEF Clears, Shares, Grant
      <4> QED
        BY <3>5, <4>1 DEF Clears
    <3>6. ASSUME NEW k \in DOMAIN reports, Clears(reports[k], g), NotAdded(g, k) PROVE Departs(g)'
      <4>1. reports[k].kind = "disconnect" \/ reports[k].iface # v[1]
        BY <3>5, <3>6 DEF LiveInv
      <4>2. k \in DOMAIN reports' /\ k \in Nat /\ Clears(reports'[k], g)
        BY <2>1, <3>6, <4>1 DEF Clears, Live, Grant, Reported, Same, Shares
      <4> QED
        BY <3>4, <3>6, <4>2 DEF Departs
    <3>7. ASSUME NotAdded(g, 0), NEW h \in Handlers, Busy(h), Clears(hand[h].ev, g) PROVE Departs(g)'
      <4>1. hand[h].ev.kind = "disconnect" \/ hand[h].ev.iface # v[1]
        BY <3>5, <3>7 DEF LiveInv
      <4>2. Clears(hand'[h].ev, g) /\ Busy(h)'
        BY <2>1, <3>7, <4>1 DEF Clears, Live, Grant, Same, Shares, Busy
      <4> QED
        BY <3>4, <3>7, <4>2 DEF Departs
    <3> QED
      BY <3>3, <3>6, <3>7 DEF Departs
  <2> QED
    BY <2>2, <2>3
<1>2. ASSUME NEW m \in Macs, NEW i \in Ifaces, Associate(m, i) PROVE Departs(g)'
  <2> DEFINE x == Report("connect", i, m)
  <2>1. Associated' = {k \in Associated : k[2] # m} \cup {<<i, m>>}
    BY <1>2, AssociateTakes
  <2>2. /\ Reported(x) /\ Live(x) /\ Grant(x) = <<i, m>> /\ x.iface = i /\ x.mac = m
        /\ \A k \in DOMAIN reports : reports'[k] = reports[k]
        /\ UNCHANGED <<hand, access>>
    BY <1>2, AssociateReports DEF Report, Live, Grant
  <2>3. g # <<i, m>>
    BY <2>1
  <2>4. CASE Shares(g, x)
    <3>1. PICK n \in Nat : n = Len(reports) + 1
      BY <2>2 DEF Reported
    <3>2. n \in DOMAIN reports' /\ Clears(reports'[n], g) /\ NotAdded(g, n)'
      BY <2>2, <2>3, <2>4, <3>1 DEF Reported, Clears, NotAdded
    <3> QED
      BY <3>2 DEF Departs
  <2>5. CASE ~Shares(g, x)
    <3>1. g \notin Associated
      BY <2>1, <2>2, <2>5 DEF Shares
    <3>2. Awaited(g)
      BY <2>2, <2>3 DEF Awaited, Reported, Adds, Busy
    <3>3. Departs(g)
      BY <1>a, <3>1, <3>2
    <3>4. ASSUME NEW k \in Nat, NotAdded(g, k) PROVE NotAdded(g, k)'
      BY <2>2, <2>3, <3>4 DEF NotAdded, Reported, Adds
    <3>5. ASSUME NEW k \in DOMAIN reports, Clears(reports[k], g), NotAdded(g, k) PROVE Departs(g)'
      <4>1. k \in DOMAIN reports' /\ k \in Nat /\ reports'[k] = reports[k]
        BY <2>2 DEF Reported
      <4> QED
        BY <3>4, <3>5, <4>1 DEF Departs
    <3>6. ASSUME NotAdded(g, 0), NEW h \in Handlers, Busy(h), Clears(hand[h].ev, g) PROVE Departs(g)'
      BY <2>2, <3>4, <3>6 DEF Departs, Busy
    <3> QED
      BY <3>3, <3>5, <3>6 DEF Departs
  <2> QED
    BY <2>4, <2>5
<1>3. ASSUME NEW h \in Handlers, Handle(h) PROVE Departs(g)'
  <2> DEFINE e == Head(reports)
  <2>1. /\ 1 \in DOMAIN reports /\ e = reports[1] /\ e \in ReportSet /\ ~Busy(h)
        /\ \A k \in DOMAIN reports' : k \in Nat /\ k > 0 /\ k + 1 \in DOMAIN reports /\ reports'[k] = reports[k + 1]
        /\ \A k \in DOMAIN reports : k \in Nat /\ (k = 1 \/ (k > 1 /\ k - 1 \in DOMAIN reports' /\ reports'[k - 1] = reports[k]))
    BY <1>3, HandleReports, HandleTakes
  <2>2. /\ hand'[h].ev = e /\ hand'[h].pc \in {"join", "read"}
        /\ \A k \in Handlers : k # h => hand'[k] = hand[k]
        /\ UNCHANGED <<assoc, access>>
    BY <1>3, HandleTakes
  <2>3. g \notin Associated
    BY <2>2 DEF Associated
  <2>4. Awaited(g)
    BY <2>1, <2>2 DEF Awaited, Busy
  <2>5. Departs(g)
    BY <1>a, <2>3, <2>4
  <2>6. ASSUME NEW k \in DOMAIN reports, k > 1, NotAdded(g, k) PROVE NotAdded(g, k - 1)'
    BY <2>1, <2>6 DEF NotAdded
  <2>7. ASSUME NotAdded(g, 0) \/ NotAdded(g, 1) PROVE NotAdded(g, 0)'
    BY <2>1, <2>7 DEF NotAdded
  <2>8. ASSUME NEW k \in DOMAIN reports, Clears(reports[k], g), NotAdded(g, k) PROVE Departs(g)'
    <3>1. CASE k = 1
      BY <2>1, <2>2, <2>7, <2>8, <3>1 DEF Departs, Busy
    <3>2. CASE k > 1
      BY <2>1, <2>6, <2>8, <3>2 DEF Departs
    <3> QED
      BY <2>1, <3>1, <3>2
  <2>9. ASSUME NotAdded(g, 0), NEW k \in Handlers, Busy(k), Clears(hand[k].ev, g) PROVE Departs(g)'
    BY <2>1, <2>2, <2>7, <2>9 DEF Departs, Busy
  <2> QED
    BY <2>5, <2>8, <2>9 DEF Departs
<1>4. ASSUME NEW h \in Handlers, HandlerStep(h) PROVE Departs(g)'
  <2> DEFINE e == hand[h].ev
  <2>1. /\ e \in ReportSet /\ Busy(h) /\ UNCHANGED <<assoc, reports>>
        /\ \A k \in Handlers : k # h => hand'[k] = hand[k]
    BY <1>4, HandlerGoes
  <2>2. g \notin Associated
    BY <2>1 DEF Associated
  <2>3. Awaited(g)
    BY <1>4, <2>1, HandlerMaps DEF Awaited, Adds, Busy, Idle
  <2>4. Departs(g)
    BY <1>a, <2>2, <2>3
  <2>5. \A k \in Nat : NotAdded(g, k) => NotAdded(g, k)'
    BY <2>1 DEF NotAdded
  <2>6. ASSUME NEW k \in DOMAIN reports, Clears(reports[k], g), NotAdded(g, k) PROVE Departs(g)'
    BY <2>1, <2>6 DEF Departs, NotAdded
  <2>7. ASSUME NotAdded(g, 0), NEW k \in Handlers, Busy(k), Clears(hand[k].ev, g) PROVE Departs(g)'
    <3>1. CASE k # h
      BY <2>1, <2>5, <2>7, <3>1 DEF Departs, Busy
    <3>2. CASE k = h /\ hand'[h].ev = e /\ hand'[h].pc # "idle"
      BY <2>5, <2>7, <3>2 DEF Departs, Busy
    <3>3. CASE k = h /\ hand'[h] = Idle /\ ~(e.kind = "connect" /\ ~e.cur)
      <4>1. g \notin access'
        BY <1>0, <1>4, <2>7, <3>3, HandlerMaps DEF GrantInv, Clears, Idle
      <4>2. \A j \in Handlers : Busy(j) /\ j # h => ~Adds(hand[j].ev, g)
        BY <1>0, <2>1, <2>7, <3>3 DEF GrantInv, Clears, Shares, Related, Adds, Grant
      <4>3. \A j \in Handlers : Busy(j)' => ~Adds(hand'[j].ev, g)
        BY <2>1, <3>3, <4>2 DEF Busy, Idle
      <4>4. \A j \in DOMAIN reports' : ~Adds(reports'[j], g)
        BY <2>1, <2>7 DEF NotAdded, TInv, EventInv
      <4> QED
        BY <4>1, <4>3, <4>4 DEF Awaited
    <3> QED
      BY <1>4, <2>7, <3>1, <3>2, <3>3, HandlerMaps DEF Clears, Live, Idle
  <2> QED
    BY <2>4, <2>6, <2>7 DEF Departs
<1>5. CASE UNCHANGED <<assoc, reports, access, hand>>
  <2>1. g \notin Associated /\ Awaited(g)
    BY <1>5 DEF Associated, Awaited, Busy
  <2>2. Departs(g)
    BY <1>a, <2>1
  <2> QED
    BY <1>5, <2>2 DEF Departs, NotAdded, Busy
<1> QED
  BY <1>1, <1>2, <1>3, <1>4, <1>5, LeaveVacates, NoticeVacates
     DEF Next, Hostapd, PublishAny, Publish, PublishLost, SetParentCredentials, LeafModeSet, vars

\* The initial state.
LEMMA FollowInit == Init => ArriveInv /\ DepartInv
<1> SUFFICES ASSUME Init PROVE ArriveInv /\ DepartInv
  OBVIOUS
<1>1. Associated = {} /\ access = {} /\ DOMAIN reports = {} /\ \A h \in Handlers : ~Busy(h)
  BY DEF Init, Associated, Idle, Busy
<1> QED
  BY <1>1 DEF ArriveInv, DepartInv, Awaited

\* Once all reports are handled, bridge_access holds exactly the associations there
\* are (wifiConnect, wifiDisconnect, updateBridgeAccess): nobody who left can pass
\* and nobody who is there is kept out, unless there was a lapse.
THEOREM MapFollows == Spec => []AccessFollows
<1>1. ASSUME TInv, ArriveInv, DepartInv, Quiet, ~lapse PROVE access = Associated
  <2>1. DOMAIN reports = {} /\ \A h \in Handlers : ~Busy(h)
    BY <1>1 DEF Quiet
  <2>2. \A g \in Associated : g \in access
    BY <1>1, <2>1 DEF ArriveInv, Arrives
  <2>3. ASSUME NEW g \in access, g \notin Associated PROVE FALSE
    <3>1. g \in Ifaces \X Macs
      BY <1>1 DEF TInv, TypeOK
    <3> QED
      BY <1>1, <2>1, <2>3, <3>1 DEF DepartInv, Awaited, Departs
  <2> QED
    BY <2>2, <2>3
<1>2. TInv /\ ArriveInv /\ DepartInv => AccessFollows
  BY <1>1 DEF AccessFollows
<1> QED
  BY <1>2, TypeInit, TypeStep, UseInit, UseStep, LiveStep, TodoStep, GrantInit, GrantStep,
     FollowInit, ArriveStep, DepartStep, PTL DEF Spec

-----------------------------------------------------------------------------
(* The main router's picture.                                              *)

\* What an event about g says is so.
Right(e, g) == e.kind = "connect" <=> g \in Held

NoneAfter(s, k, g) == \A j \in DOMAIN s : j > k => Grant(s[j]) # g

LastSays(s, g) == \E k \in DOMAIN s : Grant(s[k]) = g /\ Right(s[k], g) /\ NoneAfter(s, k, g)

\* The last event about an association, reported or already on its way to the main
\* router, says whether there is one; without any the main router knows.
Picture(g) ==
  \/ LastSays(reports, g)
  \/ NoneAfter(reports, 0, g) /\ LastSays(flight, g)
  \/ NoneAfter(reports, 0, g) /\ NoneAfter(flight, 0, g) /\ (g \in parent <=> g \in Held)

PictureInv == ~missed => \A g \in Ifaces \X Macs : Picture(g)

\* Nothing missed is forgotten.
LEMMA MissedStays == [Next]_vars /\ ~missed' => ~missed
<1> SUFFICES ASSUME [Next]_vars, ~missed' PROVE ~missed
  OBVIOUS
<1>1. ASSUME NEW h \in Handlers, Handle(h) PROVE ~missed
  BY <1>1, Zenon DEF Handle
<1>2. ASSUME NEW h \in Handlers, HandlerStep(h) PROVE ~missed
  BY <1>2 DEF HandlerStep, Join, Isolate, ReadMap, DeleteElement, DeletesDone, AddElement
<1>3. ASSUME NEW k \in DOMAIN flight, Publish(k) \/ PublishLost(k) PROVE ~missed
  BY <1>3, Zenon DEF Publish, PublishLost
<1>4. CASE UNCHANGED missed
  BY <1>4
<1> QED
  BY <1>1, <1>2, <1>3, <1>4
     DEF Next, Hostapd, Leave, Notice, Associate, PublishAny, SetParentCredentials, LeafModeSet, vars

\* An element is taken out of a sequence; those behind it move up.
LEMMA WithoutWorks ==
  ASSUME NEW S, NEW s \in Seq(S), NEW k \in DOMAIN s
  PROVE  LET t == Without(s, k) IN
         /\ \A j \in DOMAIN s : j \in Nat /\ j > 0 /\ (j < k => j \in DOMAIN t /\ t[j] = s[j])
                                /\ (j > k => j - 1 \in DOMAIN t /\ t[j - 1] = s[j])
         /\ \A j \in DOMAIN t : j \in Nat /\ j > 0 /\ IF j < k THEN j \in DOMAIN s /\ t[j] = s[j]
                                                      ELSE j + 1 \in DOMAIN s /\ t[j] = s[j + 1]
<1> DEFINE n == Len(s)
           a == SubSeq(s, 1, k - 1)
           b == SubSeq(s, k + 1, n)
           t == a \o b
<1>1. n \in Nat /\ k \in 1..n /\ DOMAIN s = 1..n
  OBVIOUS
<1>2. a \in Seq(S) /\ Len(a) = k - 1 /\ \A j \in 1..(k - 1) : a[j] = s[j]
  BY <1>1, SubSeqProperties
<1>3. b \in Seq(S) /\ Len(b) = n - k /\ \A j \in 1..(n - k) : b[j] = s[k + j]
  BY <1>1, SubSeqProperties
<1>4. /\ t \in Seq(S) /\ Len(t) = n - 1
      /\ \A j \in 1..(n - 1) : t[j] = IF j <= k - 1 THEN a[j] ELSE b[j - (k - 1)]
  <2>1. Len(a) + Len(b) = n - 1
    BY <1>1, <1>2, <1>3
  <2> HIDE DEF a, b
  <2>2. /\ t \in Seq(S) /\ Len(t) = Len(a) + Len(b)
        /\ \A j \in 1..(Len(a) + Len(b)) : t[j] = IF j <= Len(a) THEN a[j] ELSE b[j - Len(a)]
    BY <1>2, <1>3, ConcatProperties
  <2> QED
    BY <1>2, <2>1, <2>2
<1>5. DOMAIN t = 1..(n - 1)
  BY <1>4, LenProperties
<1>6. \A j \in 1..(n - 1) : t[j] = IF j < k THEN s[j] ELSE s[j + 1]
  <2> SUFFICES ASSUME NEW j \in 1..(n - 1) PROVE t[j] = IF j < k THEN s[j] ELSE s[j + 1]
    OBVIOUS
  <2>1. CASE j < k
    <3>1. j \in 1..(k - 1)
      BY <1>1, <2>1
    <3> QED
      BY <1>2, <1>4, <2>1, <3>1
  <2>2. CASE ~(j < k)
    <3>1. j - (k - 1) \in 1..(n - k) /\ k + (j - (k - 1)) = j + 1 /\ ~(j <= k - 1)
      BY <1>1, <2>2
    <3> QED
      BY <1>3, <1>4, <2>2, <3>1
  <2> QED
    BY <2>1, <2>2
<1>7. Without(s, k) = t
  BY DEF Without
<1> HIDE DEF t
<1>8. \A j \in DOMAIN s : /\ j \in Nat /\ j > 0
                          /\ j < k => j \in DOMAIN t /\ t[j] = s[j]
                          /\ j > k => j - 1 \in DOMAIN t /\ t[j - 1] = s[j]
  <2> SUFFICES ASSUME NEW j \in 1..n
               PROVE  /\ j < k => j \in 1..(n - 1) /\ t[j] = s[j]
                      /\ j > k => j - 1 \in 1..(n - 1) /\ t[j - 1] = s[j]
    BY <1>1, <1>5
  <2>1. CASE j < k
    BY <1>1, <1>6, <2>1
  <2>2. CASE j > k
    <3>1. j - 1 \in 1..(n - 1) /\ ~(j - 1 < k) /\ (j - 1) + 1 = j
      BY <1>1, <2>2
    <3>2. t[j - 1] = s[(j - 1) + 1]
      BY <1>6, <3>1
    <3> QED
      BY <2>2, <3>1, <3>2
  <2> QED
    BY <2>1, <2>2
<1>9. \A j \in DOMAIN t : /\ j \in Nat /\ j > 0
                          /\ IF j < k THEN j \in DOMAIN s /\ t[j] = s[j] ELSE j + 1 \in DOMAIN s /\ t[j] = s[j + 1]
  BY <1>1, <1>5, <1>6
<1> QED
  BY <1>7, <1>8, <1>9

\* A report that is right keeps the picture, of its association and of the others.
LEMMA ReportedPicture ==
  ASSUME NEW x, Reported(x), UNCHANGED <<flight, parent>>, NEW g, Picture(g),
         Grant(x) = g => (x.kind = "connect" <=> g \in Held'),
         Grant(x) # g => (g \in Held' <=> g \in Held)
  PROVE  Picture(g)'
<1>1. PICK n \in Nat : n = Len(reports) + 1
  BY DEF Reported
<1>2. /\ DOMAIN reports' = DOMAIN reports \cup {n} /\ reports'[n] = x
      /\ \A k \in DOMAIN reports : /\ k \in Nat /\ 0 < k /\ k < n
                                   /\ Grant(reports'[k]) = Grant(reports[k])
                                   /\ reports'[k].kind = reports[k].kind
  BY <1>1 DEF Reported, Same, Grant
<1>3. CASE Grant(x) = g
  <2>1. NoneAfter(reports, n, g)'
    BY <1>1, <1>2 DEF NoneAfter
  <2>2. LastSays(reports, g)'
    BY <1>2, <1>3, <2>1 DEF LastSays, Right
  <2> QED
    BY <2>2 DEF Picture
<1>4. CASE Grant(x) # g
  <2>1. ASSUME NEW k, NoneAfter(reports, k, g) PROVE NoneAfter(reports, k, g)'
    BY <1>2, <1>4, <2>1 DEF NoneAfter
  <2>2. LastSays(reports, g) => LastSays(reports, g)'
    BY <1>2, <1>4, <2>1 DEF LastSays, Right
  <2>3. LastSays(flight, g) => LastSays(flight, g)'
    BY <1>4 DEF LastSays, Right, NoneAfter, Grant
  <2>4. NoneAfter(flight, 0, g) => NoneAfter(flight, 0, g)'
    BY DEF NoneAfter, Grant
  <2> QED
    BY <1>4, <2>1, <2>2, <2>3, <2>4 DEF Picture
<1> QED
  BY <1>3, <1>4

\* A report that is handled goes behind those that are already on their way.
LEMMA HandledPicture ==
  ASSUME TInv, NEW h \in Handlers, Handle(h), ~missed', NEW g, Picture(g)
  PROVE  Picture(g)'
<1>1. /\ 1 \in DOMAIN reports /\ Head(reports) = reports[1]
      /\ \A k \in DOMAIN reports' : k \in Nat /\ k > 0 /\ k + 1 \in DOMAIN reports /\ reports'[k] = reports[k + 1]
      /\ \A k \in DOMAIN reports : k \in Nat /\ (k = 1 \/ (k > 1 /\ k - 1 \in DOMAIN reports' /\ reports'[k - 1] = reports[k]))
  BY HandleReports
<1>2. PICK e \in ReportSet : e = Head(reports)
  BY HandleTakes
<1>3. PICK f : f = [e EXCEPT !.cur = FALSE]
  OBVIOUS
<1>4. f \in ReportSet /\ f.kind = e.kind /\ Grant(f) = Grant(e)
  BY <1>3 DEF ReportSet, Grant
<1>5. flight' = Append(flight, f) /\ UNCHANGED <<assoc, ghosts, parent>> /\ flight \in Seq(ReportSet)
  BY <1>2, <1>3, HandleTakes DEF TInv, EventInv
<1>6. Held' = Held
  BY <1>5 DEF Held, Associated
<1>7. PICK n \in Nat : n = Len(flight) + 1
  BY <1>5
<1>8. /\ DOMAIN flight' = DOMAIN flight \cup {n} /\ flight'[n] = f
      /\ \A k \in DOMAIN flight : flight'[k] = flight[k] /\ k \in Nat /\ k < n
  BY <1>4, <1>5, <1>7, AppendWorks
<1>9. ASSUME NEW k \in DOMAIN reports, Grant(reports[k]) = g, Right(reports[k], g), NoneAfter(reports, k, g)
      PROVE  Picture(g)'
  <2>1. CASE k = 1
    <3>1. NoneAfter(reports, 0, g)'
      BY <1>1, <1>9, <2>1 DEF NoneAfter
    <3>2. Grant(f) = g /\ (f.kind = "connect" <=> g \in Held')
      BY <1>1, <1>2, <1>4, <1>6, <1>9, <2>1 DEF Right
    <3>3. NoneAfter(flight, n, g)'
      BY <1>7, <1>8 DEF NoneAfter
    <3>4. LastSays(flight, g)'
      BY <1>8, <3>2, <3>3 DEF LastSays, Right
    <3> QED
      BY <3>1, <3>4 DEF Picture
  <2>2. CASE k # 1
    <3>1. PICK i \in DOMAIN reports' : i = k - 1 /\ reports'[i] = reports[k]
      BY <1>1, <2>2
    <3>2. i \in Nat /\ k \in Nat
      BY <1>1, <3>1
    <3>3. NoneAfter(reports, i, g)'
      <4> SUFFICES ASSUME NEW j \in DOMAIN reports', j > i PROVE Grant(reports'[j]) # g
        BY DEF NoneAfter
      <4>1. j \in Nat /\ j + 1 \in DOMAIN reports /\ reports'[j] = reports[j + 1]
        BY <1>1
      <4>2. j + 1 > k
        BY <3>1, <3>2, <4>1
      <4> QED
        BY <1>9, <4>1, <4>2 DEF NoneAfter
    <3>4. LastSays(reports, g)'
      BY <1>6, <1>9, <3>1, <3>3 DEF LastSays, Right
    <3> QED
      BY <3>4 DEF Picture
  <2> QED
    BY <2>1, <2>2
<1>10. ASSUME NoneAfter(reports, 0, g),
              LastSays(flight, g) \/ (NoneAfter(flight, 0, g) /\ (g \in parent <=> g \in Held))
       PROVE  Picture(g)'
  <2>1. Grant(f) # g
    BY <1>1, <1>2, <1>4, <1>10 DEF NoneAfter
  <2>2. NoneAfter(reports, 0, g)'
    BY <1>1, <1>10 DEF NoneAfter
  <2>3. ASSUME NEW k, NoneAfter(flight, k, g) PROVE NoneAfter(flight, k, g)'
    BY <1>8, <2>1, <2>3 DEF NoneAfter
  <2>4. LastSays(flight, g) => LastSays(flight, g)'
    BY <1>6, <1>8, <2>3 DEF LastSays, Right
  <2> QED
    BY <1>5, <1>6, <1>10, <2>2, <2>3, <2>4 DEF Picture
<1> QED
  BY <1>9, <1>10 DEF Picture, LastSays

\* An event that arrives and has overtaken none leaves the picture right.
LEMMA PublishedPicture ==
  ASSUME TInv, NEW k \in DOMAIN flight, Publish(k), ~missed', NEW g, Picture(g)
  PROVE  Picture(g)'
<1>1. /\ flight \in Seq(ReportSet) /\ flight' = Without(flight, k)
      /\ creds /\ \A j \in 1..(k - 1) : ~Related(flight[j], flight[k])
      /\ UNCHANGED <<assoc, ghosts, reports>>
  BY DEF Publish, TInv, EventInv
<1>2. parent' = IF flight[k].kind = "connect" THEN parent \cup {Grant(flight[k])}
                                             ELSE parent \ {Grant(flight[k])}
  BY <1>1 DEF Publish
<1>3. Held' = Held
  BY <1>1 DEF Held, Associated
<1>4. /\ \A j \in DOMAIN flight : j \in Nat /\ j > 0 /\ (j < k => j \in DOMAIN flight' /\ flight'[j] = flight[j])
                                  /\ (j > k => j - 1 \in DOMAIN flight' /\ flight'[j - 1] = flight[j])
      /\ \A j \in DOMAIN flight' : j \in Nat /\ j > 0 /\ IF j < k THEN j \in DOMAIN flight /\ flight'[j] = flight[j]
                                                        ELSE j + 1 \in DOMAIN flight /\ flight'[j] = flight[j + 1]
  BY <1>1, WithoutWorks
<1>5. k \in Nat /\ k > 0
  BY <1>4
<1>6. /\ LastSays(reports, g) => LastSays(reports, g)'
      /\ NoneAfter(reports, 0, g) => NoneAfter(reports, 0, g)'
  BY <1>1, <1>3 DEF LastSays, NoneAfter, Right, Grant
<1>7. ASSUME NoneAfter(flight, 0, g) PROVE NoneAfter(flight, 0, g)' /\ Grant(flight[k]) # g
  BY <1>4, <1>5, <1>7 DEF NoneAfter
<1>8. ASSUME NEW n \in DOMAIN flight, Grant(flight[n]) = g, Right(flight[n], g), NoneAfter(flight, n, g)
      PROVE  LastSays(flight, g)' \/ (NoneAfter(flight, 0, g)' /\ (g \in parent' <=> g \in Held'))
  <2>0. n \in Nat /\ n > 0
    BY <1>4
  <2>1. CASE n < k
    <3>1. n \in DOMAIN flight' /\ flight'[n] = flight[n]
      BY <1>4, <2>1
    <3>2. NoneAfter(flight, n, g)'
      <4> SUFFICES ASSUME NEW j \in DOMAIN flight', j > n PROVE Grant(flight'[j]) # g
        BY DEF NoneAfter
      <4>1. j \in Nat
        BY <1>4
      <4>2. PICK i \in {j, j + 1} : i \in DOMAIN flight /\ flight'[j] = flight[i]
        BY <1>4
      <4>3. i > n
        BY <2>0, <4>1, <4>2
      <4> QED
        BY <1>8, <4>2, <4>3 DEF NoneAfter
    <3> QED
      BY <1>3, <1>8, <3>1, <3>2 DEF LastSays, Right
  <2>2. CASE n > k
    <3>1. PICK i \in DOMAIN flight' : i = n - 1 /\ flight'[i] = flight[n]
      BY <1>4, <2>2
    <3>2. i \in Nat /\ i >= k
      BY <1>4, <1>5, <2>0, <2>2, <3>1
    <3>3. NoneAfter(flight, i, g)'
      <4> SUFFICES ASSUME NEW j \in DOMAIN flight', j > i PROVE Grant(flight'[j]) # g
        BY DEF NoneAfter
      <4>1. j \in Nat /\ ~(j < k)
        BY <1>4, <1>5, <3>2
      <4>2. j + 1 \in DOMAIN flight /\ flight'[j] = flight[j + 1]
        BY <1>4, <4>1
      <4>3. j + 1 > n
        BY <2>0, <3>1, <4>1
      <4> QED
        BY <1>8, <4>2, <4>3 DEF NoneAfter
    <3> QED
      BY <1>3, <1>8, <3>1, <3>3 DEF LastSays, Right
  <2>3. CASE n = k
    <3>1. NoneAfter(flight, 0, g)'
      <4> SUFFICES ASSUME NEW j \in DOMAIN flight' PROVE Grant(flight'[j]) # g
        BY DEF NoneAfter
      <4>1. j \in Nat /\ j > 0
        BY <1>4
      <4>2. CASE j < k
        <5>1. flight'[j] = flight[j] /\ j \in 1..(k - 1)
          BY <1>4, <1>5, <4>1, <4>2
        <5>2. ~Related(flight[j], flight[k])
          BY <1>1, <5>1
        <5> QED
          BY <1>8, <2>3, <5>1, <5>2 DEF Related, Grant
      <4>3. CASE ~(j < k)
        <5>1. j + 1 \in DOMAIN flight /\ flight'[j] = flight[j + 1]
          BY <1>4, <4>3
        <5>2. j + 1 > n
          BY <1>5, <2>3, <4>1, <4>3
        <5> QED
          BY <1>8, <5>1, <5>2 DEF NoneAfter
      <4> QED
        BY <4>2, <4>3
    <3>2. g \in parent' <=> g \in Held'
      BY <1>2, <1>3, <1>8, <2>3 DEF Right
    <3> QED
      BY <3>1, <3>2
  <2> QED
    BY <1>5, <2>0, <2>1, <2>2, <2>3
<1>9. LastSays(flight, g) => LastSays(flight, g)' \/ (NoneAfter(flight, 0, g)' /\ (g \in parent' <=> g \in Held'))
  BY <1>8 DEF LastSays
<1> QED
  BY <1>2, <1>3, <1>6, <1>7, <1>9 DEF Picture

\* The initial state.
LEMMA PictureInit == Init => PictureInv
<1> SUFFICES ASSUME Init PROVE PictureInv
  OBVIOUS
<1>1. Held = {} /\ parent = {} /\ DOMAIN reports = {} /\ DOMAIN flight = {}
  BY DEF Init, Held, Associated
<1> QED
  BY <1>1 DEF PictureInv, Picture, NoneAfter

\* Each step, as long as nothing is missed.
LEMMA PictureStep == TInv /\ UseInv /\ PictureInv /\ [Next]_vars => PictureInv'
<1> SUFFICES ASSUME TInv, UseInv, PictureInv, [Next]_vars, ~missed', NEW g \in Ifaces \X Macs
             PROVE  Picture(g)'
  BY DEF PictureInv
<1>0. Picture(g)
  BY MissedStays DEF PictureInv
<1>1. ASSUME NEW v, Vacates(v) PROVE Picture(g)'
  <2>1. v = <<v[1], v[2]>>
    BY <1>1, AssociatedPairs DEF Vacates
  <2>2. PICK x : x = Report("disconnect", v[1], v[2])
    OBVIOUS
  <2>3. x.kind = "disconnect" /\ Grant(x) = v
    BY <2>1, <2>2 DEF Report, Grant
  <2>4. Reported(x) /\ UNCHANGED <<flight, parent>> /\ Held' = Held \ {v}
    BY <1>1, <2>2, VacatesReports DEF Vacates
  <2> QED
    BY <1>0, <2>3, <2>4, ReportedPicture
<1>2. ASSUME NEW m \in Macs, NEW i \in Ifaces, Associate(m, i) PROVE Picture(g)'
  <2>1. PICK x : x = Report("connect", i, m)
    OBVIOUS
  <2>2. x.kind = "connect" /\ Grant(x) = <<i, m>>
    BY <2>1 DEF Report, Grant
  <2>3. Reported(x) /\ UNCHANGED <<flight, parent>> /\ Held' = Held \cup {<<i, m>>}
    BY <1>2, <2>1, AssociateReports, AssociateTakes
  <2> QED
    BY <1>0, <2>2, <2>3, ReportedPicture
<1>3. ASSUME NEW h \in Handlers, Handle(h) PROVE Picture(g)'
  BY <1>0, <1>3, HandledPicture
<1>4. ASSUME NEW k \in DOMAIN flight, Publish(k) PROVE Picture(g)'
  BY <1>0, <1>4, PublishedPicture
<1>5. ASSUME UNCHANGED <<assoc, ghosts, reports, flight, parent>> PROVE Picture(g)'
  BY <1>0, <1>5 DEF Picture, LastSays, NoneAfter, Right, Held, Associated, Grant
<1>6. ASSUME NEW h \in Handlers, HandlerStep(h) PROVE Picture(g)'
  BY <1>5, <1>6, HandlerGoes
<1>7. ASSUME NEW k \in DOMAIN flight, PublishLost(k) PROVE FALSE
  BY <1>7 DEF PublishLost
<1> QED
  BY <1>1, <1>2, <1>3, <1>4, <1>5, <1>6, <1>7, LeaveVacates, NoticeVacates
     DEF Next, Hostapd, PublishAny, SetParentCredentials, LeafModeSet, vars

\* The main router knows exactly the stations there are (callParentAPI), those whose
\* leaving hostapd has not noticed included, once all reports are handled and all
\* calls have ended, unless an event was missed or overtook another.
THEOREM ParentsFollow == Spec => []ParentFollows
<1>1. ASSUME TInv, PictureInv, Quiet, flight = <<>>, ~missed PROVE parent = Held
  <2>1. DOMAIN reports = {} /\ DOMAIN flight = {}
    BY <1>1 DEF Quiet
  <2>2. \A g \in Ifaces \X Macs : g \in parent <=> g \in Held
    BY <1>1, <2>1 DEF PictureInv, Picture, LastSays
  <2>3. parent \subseteq Ifaces \X Macs /\ Held \subseteq Ifaces \X Macs
    BY <1>1, AssociatedPairs DEF TInv, TypeOK
  <2> QED
    BY <2>2, <2>3
<1>2. TInv /\ PictureInv => ParentFollows
  BY <1>1 DEF ParentFollows, Held
<1> QED
  BY <1>2, TypeInit, TypeStep, UseInit, UseStep, PictureInit, PictureStep, PTL DEF Spec
=============================================================================
