------------------------------ MODULE LinkMTU ------------------------------
(***************************************************************************)
(* Packet sizes on one encrypted link: what the main router and its leaf   *)
(* agree on, what they set on their interfaces, and how the main router    *)
(* measures what the wire between them carries.                            *)
(*                                                                         *)
(* A change (jumbo frames on or off, a measurement, enabling once more)    *)
(* runs on the main router under macsecChangeMtx: it computes a new        *)
(* setting, sends it to the leaf (macsecPeer) and saves it when the reply  *)
(* is there.  Each router's manager then applies what it has saved, in its *)
(* own time.  A measurement is a binary search with signed probe frames,   *)
(* each of which may get lost (code/macsec_ctl.go).                        *)
(*                                                                         *)
(* Sizes are those of the code.  Interfaces carry 1500 bytes to begin with.*)
(***************************************************************************)
EXTENDS Integers

CONSTANTS
  MaxMTUs,  \* what an interface can be raised to (0: the driver does not say)
  Paths,    \* the largest frame the wire between the two may carry
  Requests, \* link MTUs the user may ask for (0: none)
  Budget    \* bound: how often each outside event may still happen

Modes == {"macsec", "wireguard"}
Ends == {"main", "leaf"}
Events == {"change", "lost", "path"}

Overhead == 32  \* macsecOverhead
EthernetMTU == 1500  \* macsecEthernetMTU
MinLinkMTU == 1280  \* macsecMinLinkMTU
WGOverhead == 60  \* meshWGOverhead
VXOverhead == 50  \* meshVXLANOverhead
JumboMTU == 9000  \* meshJumboMTU
Precision == 8  \* where testUnderlayMTU's search ends

ASSUME SizeAssumption ==
  /\ MaxMTUs \subseteq {0} \cup (EthernetMTU..65535)
  /\ Paths \subseteq EthernetMTU..65535
  /\ Requests \subseteq {0} \cup (MinLinkMTU..65535)
ASSUME BudgetAssumption == Budget \in [Events -> Nat]

VARIABLES
  mode,     \* the mode of the association
  max,      \* MaxMTU of the interface at each end
  refuses,  \* the ends whose driver refuses a larger MTU
  nic,      \* its MTU
  path,     \* the largest frame the wire carries
  conf,     \* the saved setting: LeafMACsec at "main", LeafSideMACsec at "leaf"
  late,     \* settings macsecPeer is still to save for calls that were given up
  dev,      \* MTU of the tunnel's device at each end (secY, VXLAN port)
  mss,      \* m.mssMTU of the leaf
  settled,  \* meshJumboSettle is over since the main router's interface was raised
  testing,  \* m.mtuTesting: a measurement of the manager waits for the mutex
  chg,      \* the change that holds macsecChangeMtx
  left,     \* what is left of Budget
  guess,    \* history: a saved link MTU rests on interface properties alone,
            \*   or the leaf's setting comes from a call that was given up
  stale,    \* history: the wire has changed since it was last measured
  moved,    \* history: the wire has changed since this measurement began
  noise     \* history: it lost a probe, or an interface changed meanwhile

wires == <<mode, max, refuses, nic, path>>
ends == <<conf, late, dev, mss, settled>>
history == <<guess, stale, moved, noise>>
vars == <<wires, ends, testing, chg, left, history>>

-----------------------------------------------------------------------------
(* The arithmetic                                                          *)

Lower(a, b) == IF a < b THEN a ELSE b
Higher(a, b) == IF a > b THEN a ELSE b

\* Mutant: not limited to the size of Ethernet.
macsecCapableMTUUnlimited(parentMax) == parentMax - Overhead

macsecCapableMTU(parentMax) == Lower(parentMax - Overhead, EthernetMTU)

parentCapableMTU(e) == macsecCapableMTU(Higher(max[e], nic[e]))

macsecLinkMTU(local, peer) == Lower(Lower(local, peer), EthernetMTU)

wgInnerMTU(underlay) == Lower(underlay - WGOverhead - VXOverhead, EthernetMTU)

\* Mutant: a measured size is used without jumbo frames too.
meshUnderlayAlways(jumbo, mtu) == Higher(mtu, EthernetMTU)

meshUnderlay(jumbo, mtu) == IF jumbo THEN Higher(mtu, EthernetMTU) ELSE EthernetMTU

effectiveLinkMTU(jumbo, underlay, link) ==
  IF mode = "wireguard" THEN wgInnerMTU(meshUnderlay(jumbo, underlay))
  ELSE IF jumbo THEN link ELSE Lower(link, macsecCapableMTU(EthernetMTU))

Setting(jumbo, underlay, link) == [jumbo |-> jumbo, underlay |-> underlay, link |-> link]

\* Bytes the wire has to carry for a packet that fills the tunnel's device.
OnWire(size) == IF mode = "macsec" THEN size + Overhead ELSE size + WGOverhead + VXOverhead

\* The largest frame that gets from one end to the other and back.
Carried == Lower(path, Lower(nic["main"], nic["leaf"]))

Spend(e) == left[e] > 0 /\ left' = [left EXCEPT ![e] = @ - 1]

NoChange == [pc |-> "idle", auto |-> FALSE, kind |-> "none", next |-> Setting(FALSE, 0, 0), lo |-> 0, hi |-> 0]

-----------------------------------------------------------------------------
\* An association that was enabled without jumbo frames and applied.
Init ==
  /\ mode \in Modes
  /\ max \in [Ends -> MaxMTUs] /\ nic = [e \in Ends |-> EthernetMTU] /\ path \in Paths
  /\ LET link == IF mode = "wireguard" THEN wgInnerMTU(EthernetMTU) ELSE macsecCapableMTU(EthernetMTU) IN
       /\ conf = [e \in Ends |-> Setting(FALSE, 0, link)]
       /\ dev = [e \in Ends |-> link] /\ mss = link /\ late = {}
  /\ refuses \in SUBSET {e \in Ends : max[e] = 0}
  /\ settled = TRUE /\ testing = FALSE /\ chg = NoChange
  /\ left = Budget
  /\ guess = FALSE /\ stale = FALSE /\ moved = FALSE /\ noise = FALSE

-----------------------------------------------------------------------------
(* Changes on the main router                                              *)

\* pushLeafUpdate and enableLeafMACsec send a setting; one that is the saved one
\* already is not sent by pushLeafUpdate.
Send(kind, next) ==
  chg' = IF next = conf["main"] /\ kind # "enable" THEN NoChange
           ELSE [NoChange EXCEPT !.pc = "push", !.auto = chg.auto, !.kind = kind, !.next = next]

\* macsecSetJumbo
SetJumbo(jumbo) ==
  LET link == IF mode = "wireguard" THEN wgInnerMTU(meshUnderlay(jumbo, 0))
              ELSE IF jumbo THEN parentCapableMTU("main") ELSE macsecCapableMTU(EthernetMTU) IN
  /\ chg.pc = "idle" /\ conf["main"].jumbo # jumbo /\ Spend("change")
  /\ Send("jumbo", Setting(jumbo, 0, link))
  /\ UNCHANGED <<wires, ends, testing, history>>

\* macsecSetLeaf for a leaf that is enabled already: the same association, sized
\* anew from the interfaces and the MTU the user may ask for (0: none).
EnableAgain(requested) ==
  LET local == IF conf["main"].jumbo THEN parentCapableMTU("main") ELSE macsecCapableMTU(EthernetMTU) IN
  /\ chg.pc = "idle" /\ Spend("change")
  /\ Send("enable", [conf["main"] EXCEPT !.link = IF requested = 0 THEN local ELSE Lower(local, requested)])
  /\ UNCHANGED <<wires, ends, testing, history>>

\* macsecPeer: what the leaf makes of a setting.
Peer(next) ==
  IF mode = "wireguard"
    THEN Setting(next.jumbo, next.underlay, wgInnerMTU(meshUnderlay(next.jumbo, next.underlay)))
    ELSE Setting(next.jumbo, 0, macsecLinkMTU(IF next.jumbo THEN parentCapableMTU("leaf")
                                              ELSE macsecCapableMTU(EthernetMTU), next.link))

\* What the main router saves: pushLeafUpdate takes nothing from the reply,
\* enableLeafMACsec takes the leaf's limit.
Saved(next, reply) ==
  IF chg.kind # "enable" THEN next
  ELSE [next EXCEPT !.link = IF mode = "wireguard"
                               THEN wgInnerMTU(meshUnderlay(next.jumbo, next.underlay)) ELSE reply.link]

\* The call gets through, its reply is lost, or the request is; or the leaf takes
\* longer than macsecCallLeaf waits, and saves the setting later.
Push ==
  LET reply == Peer(chg.next)
      guessed == mode = "macsec" /\ chg.next.jumbo /\ chg.kind # "test" IN
  /\ chg.pc = "push"
  /\ chg' = NoChange
  /\ \/ /\ conf' = [main |-> Saved(chg.next, reply), leaf |-> reply]
        /\ guess' = guessed
        /\ stale' = IF chg.kind = "test" THEN moved ELSE stale
        /\ UNCHANGED <<late, left>>
     \/ /\ Spend("lost") /\ conf' = [conf EXCEPT !["leaf"] = reply]
        /\ guess' = (guess \/ guessed) /\ UNCHANGED <<late, stale>>
     \/ Spend("lost") /\ late' \in {late, late \cup {chg.next}} /\ UNCHANGED <<conf, guess, stale>>
  /\ UNCHANGED <<wires, dev, mss, settled, testing, moved, noise>>

\* macsecPeer saves what the main router has given up on, whatever it has sent since.
PeerLate(next) ==
  /\ next \in late
  /\ conf' = [conf EXCEPT !["leaf"] = Peer(next)] /\ late' = late \ {next}
  /\ guess' = TRUE
  /\ UNCHANGED <<wires, dev, mss, settled, testing, chg, left, stale, moved, noise>>

-----------------------------------------------------------------------------
(* testUnderlayMTU                                                         *)

Probing == {"first", "top", "search"}

\* What testUnderlayMTU tries for; it looks at the interface once.
Top == Lower(nic["main"], JumboMTU)

\* macsecTestMTU gets the mutex: called by the user, or by maybeTestMTU's goroutine.
TestMTU(auto) ==
  /\ chg.pc = "idle"
  /\ IF auto THEN testing /\ testing' = FALSE /\ UNCHANGED left
             ELSE Spend("change") /\ UNCHANGED testing
  /\ chg' = [NoChange EXCEPT !.pc = "first", !.kind = "test", !.auto = auto, !.hi = Top]
  /\ moved' = FALSE /\ noise' = FALSE
  /\ UNCHANGED <<wires, ends, guess, stale>>

\* The size of the probe that is sent next.
Size == CASE chg.pc = "first" -> EthernetMTU [] chg.pc = "top" -> chg.hi [] OTHER -> (chg.lo + chg.hi) \div 2

\* macsecTestMTU goes on with the result.
Measured(mtu) ==
  Send("test", Setting(conf["main"].jumbo, mtu,
                       effectiveLinkMTU(conf["main"].jumbo, mtu, macsecCapableMTU(mtu))))

\* Mutant: the search returns its upper end.
NarrowHigh(lo, hi) ==
  IF hi - lo > Precision THEN chg' = [chg EXCEPT !.pc = "search", !.lo = lo, !.hi = hi]
                         ELSE Measured(hi)

\* The search goes on, or its lower end is the result.
Narrow(lo, hi) ==
  IF hi - lo > Precision THEN chg' = [chg EXCEPT !.pc = "search", !.lo = lo, !.hi = hi]
                         ELSE Measured(lo)

\* probeFrame: an answer of the same size came back.
ProbeAnswered ==
  /\ chg.pc \in Probing /\ Size <= Carried
  /\ CASE chg.pc = "first"  -> IF chg.hi <= EthernetMTU THEN Measured(EthernetMTU)
                                                        ELSE chg' = [chg EXCEPT !.pc = "top"]
       [] chg.pc = "top"    -> Measured(chg.hi)
       [] chg.pc = "search" -> Narrow(Size, chg.hi)
  /\ UNCHANGED <<wires, ends, testing, left, history>>

\* Mutant: a measurement that fails leaves its entry in m.mtuTesting.
ProbeFailsForever ==
  /\ chg.pc \in Probing
  /\ \/ Size > Carried /\ UNCHANGED <<left, noise>>
     \/ Spend("lost") /\ noise' = TRUE
  /\ CASE chg.pc = "first"  -> chg' = [NoChange EXCEPT !.auto = chg.auto]
       [] chg.pc = "top"    -> Narrow(EthernetMTU, chg.hi)
       [] chg.pc = "search" -> Narrow(chg.lo, Size)
  /\ UNCHANGED <<wires, ends, testing, guess, stale, moved>>

\* No answer to two attempts: the frame is too large, or got lost.  Without an
\* answer to the first one there is no measurement.
ProbeFails ==
  /\ chg.pc \in Probing
  /\ \/ Size > Carried /\ UNCHANGED <<left, noise>>
     \/ Spend("lost") /\ noise' = TRUE
  /\ CASE chg.pc = "first"  -> chg' = NoChange
       [] chg.pc = "top"    -> Narrow(EthernetMTU, chg.hi)
       [] chg.pc = "search" -> Narrow(chg.lo, Size)
  /\ UNCHANGED <<wires, ends, testing, guess, stale, moved>>

-----------------------------------------------------------------------------
(* The managers apply what is saved                                        *)

\* What raiseParentMTUTo aims at.
Reach(e) ==
  LET target == IF mode = "wireguard" THEN JumboMTU ELSE EthernetMTU + Overhead IN
  IF e \in refuses THEN EthernetMTU ELSE IF max[e] > 0 THEN Lower(max[e], target) ELSE target

\* raiseParentMTUTo and restoreUnusedMTU
Raised(e) == IF conf[e].jumbo THEN Higher(nic[e], Reach(e)) ELSE EthernetMTU

\* applyLinkMTU, ensureVXLAN, over an interface whose MTU is parent
Device(e, parent) ==
  IF mode = "wireguard" THEN wgInnerMTU(meshUnderlay(conf[e].jumbo, conf[e].underlay))
  ELSE LET target == Lower(conf[e].link, parent - Overhead) IN
       IF target < MinLinkMTU THEN dev[e] ELSE target

\* Mutant: a clamp that is there is left as it is.
ClampOnce == IF mss = 0 THEN effectiveLinkMTU(conf["leaf"].jumbo, conf["leaf"].underlay, conf["leaf"].link) ELSE mss

\* applyMSSClamp of the leaf: only below the size of Ethernet.
Clamp ==
  LET link == effectiveLinkMTU(conf["leaf"].jumbo, conf["leaf"].underlay, conf["leaf"].link) IN
  IF link \in MinLinkMTU..(EthernetMTU - 1) THEN link ELSE 0

\* jumboTestDue, of a link that is secured
jumboTestDue ==
  /\ conf["main"].jumbo /\ conf["main"].underlay = 0
  /\ settled' /\ ~testing /\ ~chg.auto

\* One pass of the manager at e.  When it raises the main router's interface the
\* link has to settle anew; a restored MTU forgets that.  The main router has its
\* WireGuard links measured (maybeTestMTU).
Reconcile(e) ==
  /\ nic' = [nic EXCEPT ![e] = Raised(e)]
  /\ dev' = [dev EXCEPT ![e] = Device(e, Raised(e))]
  /\ mss' = IF e = "leaf" THEN Clamp ELSE mss
  /\ settled' = IF e = "leaf" THEN settled
                ELSE nic'[e] < nic[e] \/ (settled /\ nic'[e] = nic[e])
  /\ testing' = (testing \/ (e = "main" /\ mode = "wireguard" /\ jumboTestDue))
  /\ noise' = (noise \/ nic' # nic)
  /\ UNCHANGED <<mode, max, refuses, path, conf, late, chg, left, guess, stale, moved>>

\* meshJumboSettle is over.
Settle == ~settled /\ settled' = TRUE
          /\ UNCHANGED <<wires, conf, late, dev, mss, testing, chg, left, history>>

\* A switch or a cable is replaced.
PathChanges ==
  /\ Spend("path") /\ path' \in Paths \ {path}
  /\ stale' = TRUE /\ moved' = TRUE
  /\ UNCHANGED <<mode, max, refuses, nic, ends, testing, chg, guess, noise>>

-----------------------------------------------------------------------------
Change ==
  \/ \E jumbo \in BOOLEAN : SetJumbo(jumbo)
  \/ \E requested \in Requests : EnableAgain(requested)
  \/ TestMTU(FALSE)

ChangeStep == Push \/ ProbeAnswered \/ ProbeFails

Next ==
  \/ Change \/ ChangeStep \/ TestMTU(TRUE)
  \/ \E e \in Ends : Reconcile(e)
  \/ \E next \in late : PeerLate(next)
  \/ Settle \/ PathChanges

Spec == Init /\ [][Next]_vars

\* Managers run their passes, a change that holds the mutex ends (every call and
\* every probe has a deadline), one that waits for it gets it, time passes.
Fairness ==
  /\ WF_vars(ChangeStep) /\ WF_vars(TestMTU(TRUE)) /\ WF_vars(Settle)
  /\ \A e \in Ends : WF_vars(Reconcile(e))

FairSpec == Spec /\ Fairness

-----------------------------------------------------------------------------
(* Properties                                                              *)

\* The main router and its leaf hold settings the other's checks accept: link
\* MTUs from MinLinkMTU to EthernetMTU, a measured underlay from EthernetMTU to
\* JumboMTU (macsecPeer refuses others, which would stop every later change).
TypeOK ==
  /\ nic \in [Ends -> EthernetMTU..JumboMTU]
  /\ \A e \in Ends :
       /\ conf[e].link \in MinLinkMTU..EthernetMTU /\ dev[e] \in MinLinkMTU..EthernetMTU
       /\ conf[e].underlay \in {0} \cup (EthernetMTU..JumboMTU)
  /\ mss \in {0} \cup (MinLinkMTU..(EthernetMTU - 1))
  /\ chg.pc = "search" => chg.lo < chg.hi /\ chg.hi <= JumboMTU

\* A measurement (testUnderlayMTU) never claims more than the wire and both
\* interfaces can carry, whatever probes get lost and whatever the leaf does to
\* its interface meanwhile; when nothing disturbs it, it closes in on what they
\* do carry and ends within Precision of it.
SearchSound ==
  LET result == chg.pc = "push" /\ chg.kind = "test" IN
  ~moved =>
    /\ chg.pc = "search" => /\ chg.lo <= Lower(path, Lower(Reach("main"), Reach("leaf")))
                            /\ noise \/ (chg.lo <= Carried /\ Carried < chg.hi)
    /\ result => /\ chg.next.underlay <= Lower(path, Lower(Reach("main"), Reach("leaf")))
                 /\ noise \/ Carried - chg.next.underlay \in 0..Precision

\* Both managers have applied what is saved, and nothing is under way.
Applied ==
  /\ chg.pc = "idle"
  /\ \A e \in Ends : nic[e] = Raised(e) /\ dev[e] = Device(e, nic[e])
  /\ mss = Clamp

InStep == conf["main"].jumbo = conf["leaf"].jumbo

\* Once both ends have applied settings that agree on jumbo frames, a packet that
\* fills the device at either end gets through, unless the wire has changed since
\* it was measured, the leaf's setting is one it saved after the call was given up,
\* or (MACsec with jumbo frames) an end holds a size that was not measured, be it
\* one whose reply was lost: no other sequence of switching,
\* measuring, enabling again and lost replies leaves a size behind that an
\* interface or the wire drops.
Carries ==
  Applied /\ InStep /\ ~guess /\ ~stale => \A e \in Ends : OnWire(dev[e]) <= Carried

\* The leaf's MSS clamp (none for full-size packets) lets through no segment that
\* the device at either end has no room for, once both have applied settings that
\* agree, late or not: a clamp that outlives its setting, or is missing after one, black-holes
\* the long packets of every client.
ClampFits ==
  Applied /\ InStep /\ conf["main"].link = conf["leaf"].link =>
    \A e \in Ends : (IF mss = 0 THEN EthernetMTU ELSE mss) <= dev[e]

\* A WireGuard link that is given jumbo frames, and keeps them, gets measured,
\* however many probes and replies are lost on the way: a measurement that fails
\* is not the last one (maybeTestMTU).
GetsMeasured ==
  (mode = "wireguard" /\ conf["main"].jumbo) ~> (conf["main"].underlay # 0 \/ ~conf["main"].jumbo)
=============================================================================
