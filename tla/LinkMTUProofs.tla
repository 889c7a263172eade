---------------------------- MODULE LinkMTUProofs ----------------------------
(***************************************************************************)
(* Proofs about LinkMTU, for all limits of the two interfaces, all wires,  *)
(* all sizes the user may ask for and any number of outside events.        *)
(*                                                                         *)
(*   TypeInv    sizes stay in the range the other end accepts              *)
(*   SearchInv  the window of the search lies around what the wire carries *)
(*   LinkInv    a saved link MTU fits the interface of the end that saved  *)
(*              it, once raised                                            *)
(*   CarryInv   a saved size that rests on a measurement fits both         *)
(*              interfaces and the wire                                    *)
(***************************************************************************)
EXTENDS LinkMTU, TLAPS

-----------------------------------------------------------------------------
(* The inductive invariants                                                *)

Links == MinLinkMTU..EthernetMTU
Frames == EthernetMTU..JumboMTU
Underlays == {0} \cup Frames
Widths == 0..JumboMTU

Settings == [jumbo : BOOLEAN, underlay : Underlays, link : Links]

\* A change, or none, whose setting is empty.
Changes ==
  [pc : {"idle", "push"} \cup Probing, auto : BOOLEAN, kind : {"none", "jumbo", "enable", "test"},
   next : [jumbo : BOOLEAN, underlay : Underlays, link : {0} \cup Links], lo : Widths, hi : Widths]

WireType ==
  /\ mode \in Modes /\ max \in [Ends -> MaxMTUs] /\ path \in Paths
  /\ refuses \subseteq {e \in Ends : max[e] = 0}

\* An interface is never raised above what raiseParentMTUTo aims at.
NicType == nic \in [Ends -> Frames] /\ \A e \in Ends : nic[e] <= Reach(e)

ConfType ==
  /\ conf \in [Ends -> Settings] /\ late \subseteq Settings /\ dev \in [Ends -> Links]
  /\ mss \in {0} \cup (MinLinkMTU..(EthernetMTU - 1))

ChangeType ==
  /\ chg \in Changes
  /\ chg.pc = "push" => chg.next \in Settings /\ chg.kind # "none"
  /\ chg.pc \in Probing => chg.kind = "test" /\ chg.hi \in Frames /\ chg.hi <= Reach("main")
  /\ chg.pc = "top" => chg.hi > EthernetMTU
  /\ chg.pc = "search" => chg.lo >= EthernetMTU /\ chg.hi - chg.lo > Precision

TypeInv == WireType /\ NicType /\ ConfType /\ ChangeType

\* What both interfaces, once raised, and the wire carry.
Wire == Lower(path, Lower(Reach("main"), Reach("leaf")))

\* Before the first size that fails, the search tries what the interface has.
StartInv == chg.pc \in {"first", "top"} /\ ~noise => chg.hi = nic["main"]

\* SearchSound, with the window closed from both sides.
WindowInv ==
  ~moved =>
    /\ chg.pc = "search" => chg.lo <= Wire /\ (noise \/ (chg.lo <= Carried /\ Carried < chg.hi))
    /\ chg.pc = "push" /\ chg.kind = "test" =>
         chg.next.underlay <= Wire /\ (noise \/ Carried - chg.next.underlay \in 0..Precision)

SearchInv == StartInv /\ WindowInv

\* The link MTU that goes with a setting of a WireGuard tunnel.
Inner(c) == wgInnerMTU(meshUnderlay(c.jumbo, c.underlay))

\* A link MTU that the interface at e has room for.
Roomy(c, e) ==
  /\ mode = "macsec" => c.link + Overhead <= Reach(e) /\ (c.jumbo \/ c.link + Overhead <= EthernetMTU)

LinkInv ==
  /\ \A e \in Ends : Roomy(conf[e], e) /\ (mode = "wireguard" => conf[e].link = Inner(conf[e]))
  /\ chg.pc = "push" =>
       /\ Roomy(chg.next, "main")
       /\ mode = "wireguard" /\ chg.kind # "enable" => chg.next.link = Inner(chg.next)

\* A setting the wire has room for.
Fits(c) ==
  IF mode = "wireguard" THEN c.underlay <= Wire ELSE c.jumbo => c.link + Overhead <= Wire

CarryInv ==
  /\ moved => stale
  /\ ~stale => /\ mode = "wireguard" \/ ~guess => Fits(conf["main"])
               /\ ~guess => Fits(conf["leaf"])
  /\ chg.pc = "push" =>
       CASE chg.kind = "jumbo"  -> chg.next.underlay = 0
         [] chg.kind = "enable" -> chg.next.underlay = conf["main"].underlay
         [] OTHER -> mode = "macsec" /\ chg.next.jumbo => chg.next.link + Overhead <= chg.next.underlay

-----------------------------------------------------------------------------
(* Sizes                                                                   *)

\* The smaller and the larger of two sizes.
LEMMA LowerHigher ==
  ASSUME NEW a \in Int, NEW b \in Int
  PROVE  /\ Lower(a, b) \in {a, b} /\ Lower(a, b) <= a /\ Lower(a, b) <= b
         /\ Higher(a, b) \in {a, b} /\ Higher(a, b) >= a /\ Higher(a, b) >= b
  BY DEF Lower, Higher

\* What is assumed of the sizes, in the form the proofs need.
LEMMA GivenSizes ==
  /\ \A m \in MaxMTUs : m \in Int /\ (m = 0 \/ m >= EthernetMTU)
  /\ \A p \in Paths : p \in Int /\ p >= EthernetMTU
  /\ \A r \in Requests : r \in Int /\ (r = 0 \/ r >= MinLinkMTU)
<1>1. ASSUME NEW m \in MaxMTUs PROVE m \in Int /\ (m = 0 \/ m >= EthernetMTU)
  <2>1. m \in {0} \cup (EthernetMTU..65535)
    BY SizeAssumption
  <2>2. CASE m = 0
    BY <2>2
  <2>3. CASE m \in EthernetMTU..65535
    BY <2>3 DEF EthernetMTU
  <2> QED
    BY <2>1, <2>2, <2>3
<1>2. ASSUME NEW m \in Paths PROVE m \in Int /\ m >= EthernetMTU
  <2>1. m \in EthernetMTU..65535
    BY SizeAssumption
  <2> QED
    BY <2>1 DEF EthernetMTU
<1>3. ASSUME NEW m \in Requests PROVE m \in Int /\ (m = 0 \/ m >= MinLinkMTU)
  <2>1. m \in {0} \cup (MinLinkMTU..65535)
    BY SizeAssumption
  <2>2. CASE m = 0
    BY <2>2
  <2>3. CASE m \in MinLinkMTU..65535
    BY <2>3 DEF MinLinkMTU
  <2> QED
    BY <2>1, <2>2, <2>3
<1> QED
  BY <1>1, <1>2, <1>3

\* What it means to be a size of an interface, and of a link.
LEMMA InRange ==
  /\ \A n : n \in Frames <=> n \in Int /\ n >= 1500 /\ n <= 9000
  /\ \A n : n \in Links <=> n \in Int /\ n >= 1280 /\ n <= 1500
  /\ \A n : n \in Underlays <=> n = 0 \/ n \in Frames
  /\ \A n \in Frames : n \in Widths
  /\ \A n \in Widths : n \in Int /\ n <= 9000
<1>1. \A n : n \in Frames <=> n \in Int /\ n >= 1500 /\ n <= 9000
  <2>1. ASSUME NEW n \in Frames PROVE n \in Int /\ n >= 1500 /\ n <= 9000
    BY DEF Frames, EthernetMTU, JumboMTU
  <2>2. ASSUME NEW n \in Int, n >= 1500, n <= 9000 PROVE n \in Frames
    BY <2>2 DEF Frames, EthernetMTU, JumboMTU
  <2> QED
    BY <2>1, <2>2
<1>2. \A n : n \in Links <=> n \in Int /\ n >= 1280 /\ n <= 1500
  BY DEF Links, EthernetMTU, MinLinkMTU
<1>3. \A n : n \in Underlays <=> n = 0 \/ n \in Frames
  BY DEF Underlays
<1>4. ASSUME NEW n \in Frames PROVE n \in Widths
  BY DEF Frames, Widths, EthernetMTU, JumboMTU
<1>5. ASSUME NEW n \in Widths PROVE n \in Int /\ n <= 9000
  BY DEF Widths, JumboMTU
<1> QED
  BY <1>1, <1>2, <1>3, <1>4, <1>5

\* What MACsec leaves of an interface of at least the size of Ethernet.
LEMMA CapableLink ==
  ASSUME NEW n \in Int, n >= EthernetMTU
  PROVE  macsecCapableMTU(n) \in Links /\ macsecCapableMTU(n) + Overhead <= n
  BY DEF macsecCapableMTU, Links, Lower, EthernetMTU, MinLinkMTU, Overhead

\* What WireGuard and VXLAN leave of an underlay of at least the size of Ethernet.
LEMMA InnerLink ==
  ASSUME NEW n \in Int, n >= EthernetMTU
  PROVE  wgInnerMTU(n) \in Links /\ wgInnerMTU(n) + WGOverhead + VXOverhead <= n
  BY DEF wgInnerMTU, Links, Lower, EthernetMTU, MinLinkMTU, WGOverhead, VXOverhead

\* The underlay of a setting is at least the size of Ethernet.
LEMMA UnderlayFrame ==
  ASSUME NEW jumbo, NEW u \in Underlays
  PROVE  /\ meshUnderlay(jumbo, u) \in Frames
         /\ meshUnderlay(jumbo, u) \in {EthernetMTU, u}
         /\ ~jumbo => meshUnderlay(jumbo, u) = EthernetMTU
  BY DEF meshUnderlay, Underlays, Frames, Higher, EthernetMTU, JumboMTU

\* The link MTU of a WireGuard tunnel is one.
LEMMA InnerType ==
  ASSUME NEW c, c.underlay \in Underlays
  PROVE  Inner(c) \in Links
<1> DEFINE m == meshUnderlay(c.jumbo, c.underlay)
<1>1. m \in Frames
  BY UnderlayFrame
<1>2. m \in Int /\ m >= EthernetMTU
  <2> HIDE DEF m
  <2> QED
    BY <1>1, InRange DEF EthernetMTU
<1> QED
  BY <1>2, InnerLink DEF Inner

\* Neither end aims below the size of Ethernet or above a jumbo frame.
LEMMA ReachFrame ==
  ASSUME WireType, NEW e \in Ends
  PROVE  Reach(e) \in Frames
<1>1. max[e] \in Int /\ (max[e] = 0 \/ max[e] >= EthernetMTU)
  BY GivenSizes DEF WireType
<1>2. ASSUME NEW m \in Int, m >= EthernetMTU, NEW t \in Int, t >= EthernetMTU, t <= JumboMTU
      PROVE  Lower(m, t) \in Frames /\ t \in Frames /\ EthernetMTU \in Frames
  <2>1. t \in Frames /\ EthernetMTU \in Frames
    BY <1>2, InRange DEF EthernetMTU, JumboMTU
  <2>2. Lower(m, t) \in Int /\ Lower(m, t) >= 1500 /\ Lower(m, t) <= 9000
    BY <1>2 DEF Lower, EthernetMTU, JumboMTU
  <2> QED
    BY <2>1, <2>2, InRange
<1>3. /\ JumboMTU \in Int /\ JumboMTU >= EthernetMTU /\ JumboMTU <= JumboMTU
      /\ EthernetMTU + Overhead \in Int /\ EthernetMTU + Overhead >= EthernetMTU
      /\ EthernetMTU + Overhead <= JumboMTU /\ EthernetMTU \in Int /\ EthernetMTU >= EthernetMTU
  BY DEF JumboMTU, EthernetMTU, Overhead
<1> DEFINE t == IF mode = "wireguard" THEN JumboMTU ELSE EthernetMTU + Overhead
<1>4. t \in Int /\ t >= EthernetMTU /\ t <= JumboMTU
  BY <1>3
<1>5. Reach(e) = IF e \in refuses THEN EthernetMTU ELSE IF max[e] > 0 THEN Lower(max[e], t) ELSE t
  BY DEF Reach
<1> HIDE DEF t
<1>6. CASE max[e] = 0
  BY <1>2, <1>3, <1>4, <1>5, <1>6
<1>7. CASE max[e] >= EthernetMTU
  <2>1. Lower(max[e], t) \in Frames /\ t \in Frames /\ EthernetMTU \in Frames
    BY <1>1, <1>2, <1>4, <1>7
  <2> QED
    BY <1>5, <2>1
<1> QED
  BY <1>1, <1>6, <1>7

\* Both ends are ends.
LEMMA TheEnds == "main" \in Ends /\ "leaf" \in Ends /\ (\A e \in Ends : e \in {"main", "leaf"})
  BY DEF Ends

\* The wire carries at least the size of Ethernet.
LEMMA WireFrame ==
  ASSUME WireType
  PROVE  Wire \in Frames /\ Wire <= path /\ (\A e \in Ends : Wire <= Reach(e))
<1>1. path \in Int /\ path >= 1500
  BY GivenSizes DEF WireType, EthernetMTU
<1>2. Reach("main") \in Frames /\ Reach("leaf") \in Frames
  BY ReachFrame, TheEnds
<1>3. ASSUME NEW p \in Int, p >= 1500, NEW a \in Frames, NEW b \in Frames
      PROVE  LET w == Lower(p, Lower(a, b)) IN w \in Frames /\ w <= p /\ w <= a /\ w <= b
  BY <1>3 DEF Lower, Frames, EthernetMTU, JumboMTU
<1>4. Wire \in Frames /\ Wire <= path /\ Wire <= Reach("main") /\ Wire <= Reach("leaf")
  BY <1>1, <1>2, <1>3 DEF Wire
<1> QED
  BY <1>4, TheEnds

\* So does what is between the two interfaces as they are, which is no more.
LEMMA CarriedFrame ==
  ASSUME WireType, NicType
  PROVE  Carried \in Frames /\ Carried <= Wire /\ Carried <= nic["main"] /\ Carried <= nic["leaf"]
<1>1. path \in Int /\ path >= 1500
  BY GivenSizes DEF WireType, EthernetMTU
<1>2. /\ nic["main"] \in Frames /\ nic["leaf"] \in Frames
      /\ Reach("main") \in Frames /\ Reach("leaf") \in Frames
      /\ nic["main"] <= Reach("main") /\ nic["leaf"] <= Reach("leaf")
  BY ReachFrame, TheEnds DEF NicType
<1>3. ASSUME NEW p \in Int, p >= 1500, NEW m \in Frames, NEW n \in Frames,
             NEW a \in Frames, NEW b \in Frames, m <= a, n <= b
      PROVE  LET c == Lower(p, Lower(m, n)) IN c \in Frames /\ c <= Lower(p, Lower(a, b)) /\ c <= m /\ c <= n
  BY <1>3 DEF Lower, Frames, EthernetMTU, JumboMTU
<1> QED
  BY <1>1, <1>2, <1>3 DEF Carried, Wire

\* An interface is raised to what it reaches, or set back.
LEMMA RaisedFrame ==
  ASSUME TypeInv, NEW e \in Ends
  PROVE  /\ Raised(e) \in Frames /\ Raised(e) <= Reach(e)
         /\ Raised(e) = IF conf[e].jumbo THEN Reach(e) ELSE EthernetMTU
<1>1. nic[e] \in Frames /\ nic[e] <= Reach(e) /\ Reach(e) \in Frames
  BY ReachFrame DEF TypeInv, NicType
<1>2. ASSUME NEW n \in Frames, NEW r \in Frames, n <= r
      PROVE  Higher(n, r) = r /\ EthernetMTU \in Frames /\ EthernetMTU <= r /\ r <= r
  BY <1>2 DEF Higher, Frames, EthernetMTU, JumboMTU
<1> QED
  BY <1>1, <1>2 DEF Raised

\* What MACsec leaves of an interface fits it once raised.
LEMMA ParentLink ==
  ASSUME TypeInv, NEW e \in Ends
  PROVE  /\ parentCapableMTU(e) \in Links
         /\ mode = "macsec" => parentCapableMTU(e) + Overhead <= Reach(e)
<1>1. max[e] \in Int /\ (max[e] = 0 \/ max[e] >= EthernetMTU)
  BY GivenSizes DEF TypeInv, WireType
<1>2. e \in refuses => max[e] = 0
  BY DEF TypeInv, WireType
<1>3. nic[e] \in Frames /\ nic[e] <= Reach(e) /\ Reach(e) \in Frames
  BY ReachFrame DEF TypeInv, NicType
<1>4. nic[e] \in Int /\ nic[e] >= EthernetMTU
  BY <1>3, InRange DEF EthernetMTU
<1>5. Higher(max[e], nic[e]) \in Int /\ Higher(max[e], nic[e]) >= EthernetMTU
  <2>1. ASSUME NEW a \in Int, NEW b \in Int, b >= EthernetMTU
        PROVE  Higher(a, b) \in Int /\ Higher(a, b) >= EthernetMTU
    BY <2>1 DEF Higher, EthernetMTU
  <2> QED
    BY <1>1, <1>4, <2>1
<1>6. parentCapableMTU(e) \in Links
  BY <1>5, CapableLink DEF parentCapableMTU
<1>7. ASSUME mode = "macsec" PROVE parentCapableMTU(e) + Overhead <= Reach(e)
  <2>1. CASE max[e] = 0
    <3>1. ASSUME NEW n \in Frames, NEW r \in Frames, n <= r
          PROVE  macsecCapableMTU(Higher(0, n)) + Overhead <= r
      BY <3>1 DEF macsecCapableMTU, Lower, Higher, Frames, EthernetMTU, JumboMTU, Overhead
    <3> QED
      BY <1>3, <2>1, <3>1 DEF parentCapableMTU
  <2>2. CASE max[e] >= EthernetMTU
    <3>1. Reach(e) = Lower(max[e], EthernetMTU + Overhead)
      <4>1. max[e] # 0 /\ max[e] > 0
        BY <1>1, <2>2 DEF EthernetMTU
      <4> QED
        BY <1>2, <1>7, <4>1 DEF Reach
    <3>2. ASSUME NEW m \in Int, NEW n \in Frames, m >= EthernetMTU, n <= Lower(m, EthernetMTU + Overhead)
          PROVE  macsecCapableMTU(Higher(m, n)) + Overhead <= Lower(m, EthernetMTU + Overhead)
      BY <3>2 DEF macsecCapableMTU, Lower, Higher, Frames, EthernetMTU, JumboMTU, Overhead
    <3> QED
      BY <1>1, <1>3, <2>2, <3>1, <3>2 DEF parentCapableMTU
  <2> QED
    BY <1>1, <2>1, <2>2
<1> QED
  BY <1>6, <1>7

-----------------------------------------------------------------------------
(* Settings                                                                *)

\* The size of a link, of either mode, stays in range.
LEMMA EffectiveLink ==
  ASSUME NEW jumbo, NEW u \in Underlays, NEW link \in Links
  PROVE  /\ effectiveLinkMTU(jumbo, u, link) \in Links
         /\ mode # "wireguard" => /\ effectiveLinkMTU(jumbo, u, link) <= link
                                  /\ jumbo \/ effectiveLinkMTU(jumbo, u, link) + Overhead <= EthernetMTU
         /\ mode = "wireguard" => effectiveLinkMTU(jumbo, u, link) = wgInnerMTU(meshUnderlay(jumbo, u))
<1>1. wgInnerMTU(meshUnderlay(jumbo, u)) \in Links
  <2> DEFINE m == meshUnderlay(jumbo, u)
  <2>1. m \in Frames
    BY UnderlayFrame
  <2> HIDE DEF m
  <2>2. m \in Int /\ m >= EthernetMTU
    BY <2>1, InRange DEF EthernetMTU
  <2>3. wgInnerMTU(m) \in Links
    BY <2>2, InnerLink
  <2> QED
    BY <2>3 DEF m
<1>2. /\ Lower(link, macsecCapableMTU(EthernetMTU)) \in Links
      /\ Lower(link, macsecCapableMTU(EthernetMTU)) <= link
      /\ Lower(link, macsecCapableMTU(EthernetMTU)) + Overhead <= EthernetMTU
      /\ link <= link
  BY DEF macsecCapableMTU, Links, Lower, EthernetMTU, MinLinkMTU, Overhead
<1> QED
  BY <1>1, <1>2 DEF effectiveLinkMTU

\* What is put into a setting is in it.
LEMMA SettingFields ==
  ASSUME NEW jumbo, NEW u, NEW link
  PROVE  /\ Setting(jumbo, u, link).jumbo = jumbo /\ Setting(jumbo, u, link).underlay = u
         /\ Setting(jumbo, u, link).link = link
         /\ jumbo \in BOOLEAN /\ u \in Underlays /\ link \in Links => Setting(jumbo, u, link) \in Settings
  BY DEF Setting, Settings

\* The fields of a setting.
LEMMA SettingsFields ==
  ASSUME NEW c \in Settings
  PROVE  c.jumbo \in BOOLEAN /\ c.underlay \in Underlays /\ c.link \in Links
  BY DEF Settings

\* Zero, for no measured size, is an underlay.
LEMMA ZeroUnderlay == 0 \in Underlays
  BY DEF Underlays

\* The settings both ends hold.
LEMMA ConfFields ==
  ASSUME TypeInv, NEW e \in Ends
  PROVE  conf[e] \in Settings /\ conf[e].jumbo \in BOOLEAN /\ conf[e].underlay \in Underlays /\ conf[e].link \in Links
<1>1. conf[e] \in Settings
  BY DEF TypeInv, ConfType
<1> QED
  BY <1>1, SettingsFields

\* The smaller of two link MTUs is one.
LEMMA LowerLink ==
  ASSUME NEW a \in Links, NEW b \in Links
  PROVE  Lower(a, b) \in Links /\ Lower(a, b) <= a /\ Lower(a, b) <= b
  BY DEF Lower, Links, EthernetMTU, MinLinkMTU

\* What MACsec leaves of plain Ethernet.
LEMMA PlainLink == macsecCapableMTU(EthernetMTU) \in Links /\ macsecCapableMTU(EthernetMTU) + Overhead <= EthernetMTU
  BY DEF macsecCapableMTU, Lower, Links, EthernetMTU, MinLinkMTU, Overhead

\* What the two ends of a MACsec link agree on is at most what either offers.
LEMMA AgreedLink ==
  ASSUME NEW a \in Links, NEW b \in Links
  PROVE  macsecLinkMTU(a, b) = Lower(a, b)
  BY DEF macsecLinkMTU, Lower, Links, EthernetMTU, MinLinkMTU

\* What the leaf makes of a setting: another one, of the same kind, that asks for
\* no more than it was offered and has room on the leaf's interface.
LEMMA PeerSetting ==
  ASSUME TypeInv, NEW next \in Settings
  PROVE  /\ Peer(next) \in Settings /\ Peer(next).jumbo = next.jumbo
         /\ mode = "wireguard" => Peer(next).underlay = next.underlay /\ Peer(next).link = Inner(next)
         /\ mode = "macsec" => /\ Peer(next).link <= next.link
                               /\ Peer(next).link + Overhead <= IF next.jumbo THEN Reach("leaf") ELSE EthernetMTU
<1>1. next.jumbo \in BOOLEAN /\ next.underlay \in Underlays /\ next.link \in Links
  BY SettingsFields
<1>2. mode \in Modes /\ "leaf" \in Ends
  BY TheEnds DEF TypeInv, WireType
<1>3. CASE mode = "wireguard"
  <2>1. Peer(next) = Setting(next.jumbo, next.underlay, Inner(next))
    BY <1>3 DEF Peer, Inner
  <2>2. Inner(next) \in Links
    BY <1>1, InnerType
  <2> QED
    BY <1>1, <1>3, <2>1, <2>2, SettingFields
<1>4. CASE mode = "macsec"
  <2> DEFINE own == IF next.jumbo THEN parentCapableMTU("leaf") ELSE macsecCapableMTU(EthernetMTU)
             limit == IF next.jumbo THEN Reach("leaf") ELSE EthernetMTU
  <2>1. own \in Links /\ own + Overhead <= limit
    BY <1>2, <1>4, ParentLink, PlainLink
  <2>2. limit \in Int
    BY <1>2, ReachFrame, InRange DEF TypeInv, EthernetMTU
  <2>3. Peer(next) = Setting(next.jumbo, 0, macsecLinkMTU(own, next.link))
    BY <1>4 DEF Peer
  <2> HIDE DEF own, limit
  <2>4. macsecLinkMTU(own, next.link) \in Links /\ macsecLinkMTU(own, next.link) <= own
        /\ macsecLinkMTU(own, next.link) <= next.link
    BY <1>1, <2>1, AgreedLink, LowerLink
  <2>5. macsecLinkMTU(own, next.link) + Overhead <= limit
    <3> DEFINE l == macsecLinkMTU(own, next.link)
    <3>1. l \in Int /\ own \in Int /\ l <= own
      BY <2>1, <2>4, InRange
    <3> HIDE DEF l
    <3>2. l + Overhead <= limit
      BY <2>1, <2>2, <3>1 DEF Overhead
    <3> QED
      BY <3>2 DEF l
  <2>6. /\ Peer(next).jumbo = next.jumbo /\ Peer(next).link = macsecLinkMTU(own, next.link)
        /\ Peer(next) \in Settings
    BY <1>1, <2>3, <2>4, SettingFields, ZeroUnderlay
  <2> QED
    BY <1>4, <2>4, <2>5, <2>6 DEF limit
<1> QED
  BY <1>2, <1>3, <1>4 DEF Modes

-----------------------------------------------------------------------------
(* What a step of a change makes of it                                     *)

Pushed(kind, next) == [pc |-> "push", auto |-> chg.auto, kind |-> kind, next |-> next, lo |-> 0, hi |-> 0]

Searching(lo, hi) == [chg EXCEPT !.pc = "search", !.lo = lo, !.hi = hi]

\* The setting that goes with a measured size.
MeasuredSetting(next, mtu) ==
  /\ next \in Settings /\ next.underlay = mtu /\ next.jumbo = conf["main"].jumbo
  /\ mode = "macsec" => next.link + Overhead <= mtu /\ (next.jumbo \/ next.link + Overhead <= EthernetMTU)
  /\ mode = "wireguard" => next.link = Inner(next)

\* A measurement that is over: its result is the saved one, or is sent.
Result(mtu) ==
  \/ chg' = NoChange
  \/ \E next : chg' = Pushed("test", next) /\ MeasuredSetting(next, mtu)

\* No change is under way.
LEMMA NoChangeFields ==
  /\ NoChange \in Changes /\ NoChange.pc = "idle" /\ NoChange.pc # "push" /\ NoChange.pc \notin Probing
  /\ NoChange.auto = FALSE
  BY DEF NoChange, Changes, Setting, Probing, Links, Underlays, Frames, Widths, MinLinkMTU, EthernetMTU, JumboMTU

\* A setting that is sent.
LEMMA PushedFields ==
  ASSUME chg.auto \in BOOLEAN, NEW kind \in {"jumbo", "enable", "test"}, NEW next \in Settings
  PROVE  LET p == Pushed(kind, next) IN
         /\ p \in Changes /\ p.pc = "push" /\ p.pc # "idle" /\ p.pc \notin Probing
         /\ p.kind = kind /\ p.kind # "none" /\ p.next = next
<1>1. next.jumbo \in BOOLEAN /\ next.underlay \in Underlays /\ next.link \in {0} \cup Links
  BY SettingsFields
<1>2. next \in [jumbo : BOOLEAN, underlay : Underlays, link : {0} \cup Links]
  BY <1>1 DEF Settings
<1>3. 0 \in Widths
  BY DEF Widths, JumboMTU
<1> QED
  BY <1>2, <1>3 DEF Pushed, Changes, Probing

\* A window that is searched.
LEMMA SearchingFields ==
  ASSUME chg \in Changes, NEW lo \in Frames, NEW hi \in Frames
  PROVE  LET s == Searching(lo, hi) IN
         /\ s \in Changes /\ s.pc = "search" /\ s.pc \in Probing
         /\ s.kind = chg.kind /\ s.lo = lo /\ s.hi = hi
<1>1. lo \in Widths /\ hi \in Widths
  BY InRange
<1>2. LET s == Searching(lo, hi) IN s.pc = "search" /\ s.kind = chg.kind /\ s.lo = lo /\ s.hi = hi
  BY DEF Searching, Changes
<1>3. Searching(lo, hi) \in Changes
  BY <1>1 DEF Searching, Changes, Probing
<1> QED
  BY <1>2, <1>3 DEF Probing

\* pushLeafUpdate sends a setting, or nothing.
LEMMA SendEffect ==
  ASSUME chg \in Changes, NEW kind, NEW next, Send(kind, next)
  PROVE  chg' = NoChange \/ chg' = Pushed(kind, next)
<1>1. CASE chg' = NoChange
  BY <1>1
<1>2. CASE chg' = [NoChange EXCEPT !.pc = "push", !.auto = chg.auto, !.kind = kind, !.next = next]
  BY <1>2 DEF NoChange, Pushed
<1> QED
  BY <1>1, <1>2 DEF Send

\* What macsecTestMTU makes of a measured size.
LEMMA MeasuredEffect ==
  ASSUME TypeInv, NEW mtu \in Frames, Measured(mtu)
  PROVE  Result(mtu)
<1> DEFINE j == conf["main"].jumbo
           l == effectiveLinkMTU(j, mtu, macsecCapableMTU(mtu))
           n == Setting(j, mtu, l)
<1>1. chg \in Changes /\ mode \in Modes
  BY DEF TypeInv, ChangeType, WireType
<1>2. j \in BOOLEAN /\ mtu \in Underlays /\ mtu \in Int /\ mtu >= EthernetMTU
  <2>1. j \in BOOLEAN
    BY ConfFields, TheEnds
  <2>2. mtu \in Underlays /\ mtu \in Int /\ mtu >= EthernetMTU
    BY InRange DEF EthernetMTU
  <2> QED
    BY <2>1, <2>2
<1>3. Send("test", n)
  BY DEF Measured
<1> DEFINE c == macsecCapableMTU(mtu)
<1>4. c \in Links /\ c + Overhead <= mtu
  BY <1>2, CapableLink
<1> HIDE DEF c, j
<1>5. /\ l \in Links
      /\ mode # "wireguard" => l <= c /\ (j \/ l + Overhead <= EthernetMTU)
      /\ mode = "wireguard" => l = wgInnerMTU(meshUnderlay(j, mtu))
  BY <1>2, <1>4, EffectiveLink DEF c
<1> HIDE DEF l
<1>6. n \in Settings /\ n.jumbo = j /\ n.underlay = mtu /\ n.link = l
  BY <1>2, <1>5, SettingFields
<1> HIDE DEF n
<1>7. mode = "wireguard" => n.link = Inner(n)
  BY <1>5, <1>6 DEF Inner
<1>8. mode = "macsec" => n.link + Overhead <= mtu /\ (n.jumbo \/ n.link + Overhead <= EthernetMTU)
  <2>1. ASSUME mode = "macsec" PROVE l + Overhead <= mtu
    <3>1. l \in Int /\ c \in Int /\ l <= c
      BY <1>4, <1>5, <2>1, InRange
    <3> QED
      BY <1>2, <1>4, <3>1 DEF Overhead
  <2> QED
    BY <1>5, <1>6, <2>1
<1>9. MeasuredSetting(n, mtu)
  BY <1>6, <1>7, <1>8 DEF MeasuredSetting, j
<1> QED
  BY <1>1, <1>3, <1>9, SendEffect DEF Result

\* The search goes on in its window, or ends with the lower end.
LEMMA NarrowEffect ==
  ASSUME TypeInv, NEW lo \in Frames, NEW hi \in Frames, Narrow(lo, hi)
  PROVE  \/ hi - lo > Precision /\ chg' = Searching(lo, hi)
         \/ hi - lo <= Precision /\ Result(lo)
<1>1. chg \in Changes /\ lo \in Int /\ hi \in Int
  BY InRange DEF TypeInv, ChangeType
<1>2. CASE hi - lo > Precision
  BY <1>1, <1>2 DEF Narrow, Searching
<1>3. CASE ~(hi - lo > Precision)
  <2>1. hi - lo <= Precision
    BY <1>1, <1>3 DEF Precision
  <2> QED
    BY <1>3, <2>1, MeasuredEffect DEF Narrow
<1> QED
  BY <1>2, <1>3

\* The size in the middle of a window.
LEMMA Middle ==
  ASSUME NEW lo \in Frames, NEW hi \in Frames, hi - lo > Precision
  PROVE  LET mid == (lo + hi) \div 2 IN mid \in Frames /\ lo < mid /\ mid < hi
<1>1. lo \in Int /\ hi \in Int /\ lo >= 1500 /\ hi <= 9000 /\ hi - lo > 8
  BY InRange DEF Precision
<1>2. LET mid == (lo + hi) \div 2 IN mid \in Int /\ lo < mid /\ mid < hi
  BY <1>1
<1> DEFINE mid == (lo + hi) \div 2
<1>3. mid \in Int /\ lo < mid /\ mid < hi
  BY <1>2
<1> HIDE DEF mid
<1>4. mid >= 1500 /\ mid <= 9000
  BY <1>1, <1>3
<1>5. mid \in Frames
  BY <1>3, <1>4, InRange
<1> QED
  BY <1>3, <1>5 DEF mid

\* The window of a search.
LEMMA Window ==
  ASSUME TypeInv, chg.pc = "search"
  PROVE  chg.lo \in Frames /\ chg.hi \in Frames /\ chg.hi - chg.lo > Precision
<1>1. /\ chg.hi \in Frames /\ chg.hi - chg.lo > Precision /\ chg.lo >= EthernetMTU
  BY DEF TypeInv, ChangeType, Probing
<1>2. chg.lo \in Widths
  BY DEF TypeInv, ChangeType, Changes
<1>3. chg.lo \in Int /\ chg.lo >= 1500 /\ chg.lo <= 9000
  BY <1>1, <1>2, InRange DEF EthernetMTU
<1> QED
  BY <1>1, <1>3, InRange

\* An answer: to the first probe, to the one with the interface's own size, or to
\* one in the window.
LEMMA AnsweredEffect ==
  ASSUME TypeInv, ProbeAnswered
  PROVE  \/ chg.pc = "first" /\ chg.hi <= EthernetMTU /\ EthernetMTU <= Carried /\ Result(EthernetMTU)
         \/ chg.pc = "first" /\ ~(chg.hi <= EthernetMTU) /\ chg' = [chg EXCEPT !.pc = "top"]
         \/ chg.pc = "top" /\ chg.hi <= Carried /\ Result(chg.hi)
         \/ /\ chg.pc = "search"
            /\ \E mid \in Frames : /\ chg.lo < mid /\ mid < chg.hi /\ mid <= Carried
                                   /\ \/ chg.hi - mid > Precision /\ chg' = Searching(mid, chg.hi)
                                      \/ chg.hi - mid <= Precision /\ Result(mid)
<1>1. chg.pc \in {"first", "top", "search"} /\ Size <= Carried
  BY DEF ProbeAnswered, Probing
<1>2. CASE chg.pc = "first"
  <2>1. EthernetMTU \in Frames
    BY InRange DEF EthernetMTU
  <2>2. Size = EthernetMTU
    BY <1>2 DEF Size
  <2>3. IF chg.hi <= EthernetMTU THEN Measured(EthernetMTU) ELSE chg' = [chg EXCEPT !.pc = "top"]
    BY <1>2 DEF ProbeAnswered
  <2> QED
    BY <1>1, <1>2, <2>1, <2>2, <2>3, MeasuredEffect
<1>3. CASE chg.pc = "top"
  <2>1. chg.hi \in Frames
    BY <1>3 DEF TypeInv, ChangeType, Probing
  <2>2. Size = chg.hi
    BY <1>3 DEF Size
  <2>3. Measured(chg.hi)
    BY <1>3 DEF ProbeAnswered
  <2> QED
    BY <1>1, <1>3, <2>1, <2>2, <2>3, MeasuredEffect
<1>4. CASE chg.pc = "search"
  <2> DEFINE mid == (chg.lo + chg.hi) \div 2
  <2>1. chg.lo \in Frames /\ chg.hi \in Frames /\ chg.hi - chg.lo > Precision
    BY <1>4, Window
  <2>2. mid \in Frames /\ chg.lo < mid /\ mid < chg.hi
    BY <2>1, Middle
  <2>3. Size = mid
    BY <1>4 DEF Size
  <2> HIDE DEF mid
  <2>4. Narrow(mid, chg.hi)
    BY <1>4, <2>3 DEF ProbeAnswered
  <2> QED
    BY <1>1, <1>4, <2>1, <2>2, <2>3, <2>4, NarrowEffect
<1> QED
  BY <1>1, <1>2, <1>3, <1>4

\* No answer: the measurement is over, or the size that was tried is the upper end.
LEMMA FailsEffect ==
  ASSUME TypeInv, ProbeFails
  PROVE  \/ chg' = NoChange
         \/ /\ chg.pc \in {"top", "search"}
            /\ \E lo \in Frames, hi \in Frames :
                 /\ lo < hi /\ hi <= chg.hi /\ lo = (IF chg.pc = "top" THEN EthernetMTU ELSE chg.lo)
                 /\ noise' \/ ~(hi <= Carried)
                 /\ \/ hi - lo > Precision /\ chg' = Searching(lo, hi)
                    \/ hi - lo <= Precision /\ Result(lo)
<1>1. chg.pc \in {"first", "top", "search"} /\ (noise' \/ Size > Carried)
  BY DEF ProbeFails, Probing
<1>2. CASE chg.pc = "first"
  BY <1>2 DEF ProbeFails
<1>3. Carried \in Int
  BY CarriedFrame, InRange DEF TypeInv
<1>4. CASE chg.pc = "top"
  <2>1. chg.hi \in Frames /\ chg.hi > EthernetMTU /\ EthernetMTU \in Frames /\ chg.hi \in Int
    <3>1. chg.hi \in Frames /\ chg.hi > EthernetMTU
      BY <1>4 DEF TypeInv, ChangeType, Probing
    <3> QED
      BY <3>1, InRange DEF EthernetMTU
  <2>2. Size = chg.hi
    BY <1>4 DEF Size
  <2>3. Narrow(EthernetMTU, chg.hi)
    BY <1>4 DEF ProbeFails
  <2>4. EthernetMTU < chg.hi /\ chg.hi <= chg.hi /\ (noise' \/ ~(chg.hi <= Carried))
    BY <1>1, <1>3, <2>1, <2>2 DEF EthernetMTU
  <2> QED
    BY <1>4, <2>1, <2>3, <2>4, NarrowEffect
<1>5. CASE chg.pc = "search"
  <2> DEFINE mid == (chg.lo + chg.hi) \div 2
  <2>1. chg.lo \in Frames /\ chg.hi \in Frames /\ chg.hi - chg.lo > Precision
    BY <1>5, Window
  <2>2. mid \in Frames /\ chg.lo < mid /\ mid < chg.hi
    BY <2>1, Middle
  <2>3. Size = mid
    BY <1>5 DEF Size
  <2>4. mid \in Int /\ chg.hi \in Int
    BY <2>1, <2>2, InRange
  <2>5. Narrow(chg.lo, Size)
    BY <1>5 DEF ProbeFails
  <2> HIDE DEF mid
  <2>6. mid <= chg.hi /\ (noise' \/ ~(mid <= Carried))
    BY <1>1, <1>3, <2>2, <2>3, <2>4
  <2>7. Narrow(chg.lo, mid)
    BY <2>3, <2>5
  <2> QED
    BY <1>5, <2>1, <2>2, <2>6, <2>7, NarrowEffect
<1> QED
  BY <1>1, <1>2, <1>4, <1>5

\* macsecSetJumbo sends a setting without a measured size.
LEMMA SetJumboEffect ==
  ASSUME TypeInv, NEW jumbo \in BOOLEAN, SetJumbo(jumbo)
  PROVE  \/ chg' = NoChange
         \/ \E next \in Settings :
              /\ chg' = Pushed("jumbo", next) /\ next.underlay = 0 /\ Roomy(next, "main")
              /\ mode = "wireguard" => next.link = Inner(next)
<1> DEFINE l == IF mode = "wireguard" THEN wgInnerMTU(meshUnderlay(jumbo, 0))
                ELSE IF jumbo THEN parentCapableMTU("main") ELSE macsecCapableMTU(EthernetMTU)
           n == Setting(jumbo, 0, l)
<1>1. chg \in Changes /\ mode \in Modes /\ "main" \in Ends
  BY TheEnds DEF TypeInv, ChangeType, WireType
<1>2. l \in Links
  <2>1. CASE mode = "wireguard"
    <3>1. Inner(Setting(jumbo, 0, 0)) \in Links
      BY SettingFields, ZeroUnderlay, InnerType
    <3> QED
      BY <2>1, <3>1, SettingFields DEF Inner
  <2>2. CASE mode # "wireguard"
    BY <1>1, <2>2, ParentLink, PlainLink
  <2> QED
    BY <2>1, <2>2
<1>3. mode = "macsec" => l + Overhead <= (IF jumbo THEN Reach("main") ELSE EthernetMTU)
  BY <1>1, ParentLink, PlainLink
<1>4. mode = "wireguard" => l = wgInnerMTU(meshUnderlay(jumbo, 0))
  OBVIOUS
<1>5. Send("jumbo", n)
  BY DEF SetJumbo
<1> HIDE DEF l
<1>6. n \in Settings /\ n.jumbo = jumbo /\ n.underlay = 0 /\ n.link = l
  BY <1>2, SettingFields, ZeroUnderlay
<1> HIDE DEF n
<1>7. mode = "wireguard" => n.link = Inner(n)
  BY <1>4, <1>6 DEF Inner
<1>8. Roomy(n, "main")
  <2>1. EthernetMTU <= Reach("main") /\ Reach("main") \in Int /\ l \in Int
    BY <1>1, <1>2, ReachFrame, InRange DEF EthernetMTU, TypeInv
  <2>2. CASE jumbo
    BY <1>3, <1>6, <2>2 DEF Roomy
  <2>3. CASE ~jumbo
    <3>1. mode = "macsec" => l + Overhead <= EthernetMTU
      BY <1>3, <2>3
    <3>2. mode = "macsec" => l + Overhead <= Reach("main")
      BY <2>1, <3>1 DEF EthernetMTU, Overhead
    <3> QED
      BY <1>6, <3>1, <3>2 DEF Roomy
  <2> QED
    BY <2>2, <2>3
<1> QED
  BY <1>1, <1>5, <1>6, <1>7, <1>8, SendEffect

\* enableLeafMACsec sends the saved setting with a link MTU of its own.
LEMMA EnableEffect ==
  ASSUME TypeInv, NEW requested \in Requests, EnableAgain(requested)
  PROVE  \E next \in Settings :
           /\ chg' = Pushed("enable", next) /\ Roomy(next, "main")
           /\ next.jumbo = conf["main"].jumbo /\ next.underlay = conf["main"].underlay
<1> DEFINE j == conf["main"].jumbo
           local == IF j THEN parentCapableMTU("main") ELSE macsecCapableMTU(EthernetMTU)
           l == IF requested = 0 THEN local ELSE Lower(local, requested)
           n == [conf["main"] EXCEPT !.link = l]
<1>1. chg \in Changes /\ mode \in Modes /\ "main" \in Ends /\ conf["main"] \in Settings
  BY TheEnds, ConfFields DEF TypeInv, ChangeType, WireType
<1>2. local \in Links /\ (mode = "macsec" => local + Overhead <= (IF j THEN Reach("main") ELSE EthernetMTU))
  BY <1>1, ParentLink, PlainLink
<1>3. Send("enable", n)
  BY DEF EnableAgain
<1>4. Reach("main") \in Int /\ EthernetMTU <= Reach("main")
  BY <1>1, ReachFrame, InRange DEF EthernetMTU, TypeInv
<1> HIDE DEF local
<1>5. l \in Links /\ l <= local
  <2>1. requested \in Int /\ (requested = 0 \/ requested >= 1280)
    BY GivenSizes DEF MinLinkMTU
  <2>2. local \in Int /\ local >= 1280 /\ local <= 1500
    BY <1>2, InRange
  <2>3. ASSUME NEW r \in Int, r >= 1280, NEW c \in Int, c >= 1280, c <= 1500
        PROVE  Lower(c, r) \in Int /\ Lower(c, r) >= 1280 /\ Lower(c, r) <= 1500 /\ Lower(c, r) <= c
    BY <2>3 DEF Lower
  <2>4. CASE requested = 0
    BY <1>2, <2>2, <2>4
  <2>5. CASE requested # 0
    <3>1. l = Lower(local, requested) /\ requested >= 1280
      BY <2>1, <2>5
    <3>2. /\ Lower(local, requested) \in Int /\ Lower(local, requested) >= 1280
          /\ Lower(local, requested) <= 1500 /\ Lower(local, requested) <= local
      BY <2>1, <2>2, <2>3, <3>1
    <3> HIDE DEF l
    <3> QED
      BY <3>1, <3>2, InRange
  <2> QED
    BY <2>4, <2>5
<1> HIDE DEF l
<1>6. n \in Settings /\ n.jumbo = j /\ n.underlay = conf["main"].underlay /\ n.link = l
  BY <1>1, <1>5 DEF Settings
<1> HIDE DEF n
<1>7. Roomy(n, "main")
  <2>1. l \in Int /\ local \in Int
    BY <1>2, <1>5, InRange
  <2>2. mode = "macsec" => l + Overhead <= (IF j THEN Reach("main") ELSE EthernetMTU)
    BY <1>2, <1>4, <1>5, <2>1 DEF Overhead, EthernetMTU
  <2>3. mode = "macsec" => l + Overhead <= Reach("main")
    BY <1>4, <2>1, <2>2 DEF Overhead, EthernetMTU
  <2> QED
    BY <1>6, <2>2, <2>3 DEF Roomy
<1>8. chg' = Pushed("enable", n)
  BY <1>3 DEF Send, NoChange, Pushed
<1> QED
  BY <1>6, <1>7, <1>8

\* A measurement begins with what the main router's interface has.
LEMMA TestEffect ==
  ASSUME TypeInv, NEW auto, auto \in BOOLEAN, TestMTU(auto)
  PROVE  chg' \in Changes /\ chg'.pc = "first" /\ chg'.kind = "test" /\ chg'.hi = nic["main"]
<1>1. nic["main"] \in Frames
  BY TheEnds DEF TypeInv, NicType
<1>2. ASSUME NEW n \in Frames PROVE Lower(n, JumboMTU) = n
  BY DEF Lower, Frames, EthernetMTU, JumboMTU
<1>3. Top = nic["main"] /\ Top \in Widths
  BY <1>1, <1>2, InRange DEF Top
<1>4. chg' = [NoChange EXCEPT !.pc = "first", !.kind = "test", !.auto = auto, !.hi = Top]
  BY DEF TestMTU
<1>5. NoChange \in Changes
  BY NoChangeFields
<1> QED
  BY <1>3, <1>4, <1>5 DEF Changes, Probing

\* What Push saves at each end.
LEMMA PushEffect ==
  ASSUME TypeInv, Push
  PROVE  /\ chg.pc = "push" /\ chg.next \in Settings /\ chg' = NoChange
         /\ \/ conf' = [main |-> Saved(chg.next, Peer(chg.next)), leaf |-> Peer(chg.next)]
            \/ conf' = [conf EXCEPT !["leaf"] = Peer(chg.next)]
            \/ conf' = conf
         /\ late' \subseteq late \cup {chg.next}
         /\ UNCHANGED <<wires, dev, mss, settled, testing, moved, noise>>
  BY DEF Push, TypeInv, ChangeType

\* What the main router saves.
LEMMA SavedSetting ==
  ASSUME TypeInv, NEW next \in Settings
  PROVE  LET s == Saved(next, Peer(next)) IN
         /\ s \in Settings /\ s.jumbo = next.jumbo /\ s.underlay = next.underlay
         /\ chg.kind # "enable" => s = next
         /\ chg.kind = "enable" /\ mode = "wireguard" => s.link = Inner(next)
         /\ chg.kind = "enable" /\ mode # "wireguard" => s.link = Peer(next).link
<1>1. Peer(next).link \in Links /\ Inner(next) \in Links
  BY PeerSetting, SettingsFields, InnerType
<1>2. CASE chg.kind # "enable"
  BY <1>2 DEF Saved
<1>3. CASE chg.kind = "enable"
  <2> DEFINE l == IF mode = "wireguard" THEN Inner(next) ELSE Peer(next).link
  <2>1. Saved(next, Peer(next)) = [next EXCEPT !.link = l]
    BY <1>3 DEF Saved, Inner
  <2>2. l \in Links
    BY <1>1
  <2> HIDE DEF l
  <2>3. [next EXCEPT !.link = l] \in Settings
    BY <2>2 DEF Settings
  <2>4. LET s == [next EXCEPT !.link = l] IN s.jumbo = next.jumbo /\ s.underlay = next.underlay /\ s.link = l
    BY DEF Settings
  <2>5. LET s == Saved(next, Peer(next)) IN
        s \in Settings /\ s.jumbo = next.jumbo /\ s.underlay = next.underlay /\ s.link = l
    BY <2>1, <2>3, <2>4
  <2> QED
    BY <1>3, <2>5 DEF l
<1> QED
  BY <1>2, <1>3

-----------------------------------------------------------------------------
(* Sizes stay in range                                                     *)

\* The steps that are neither a change's nor a manager's.
Outside == Settle \/ PathChanges \/ UNCHANGED vars

\* A setting that is saved late is one that was sent.
LEMMA LateEffect ==
  ASSUME TypeInv, NEW next \in late, PeerLate(next)
  PROVE  /\ next \in Settings /\ conf' = [conf EXCEPT !["leaf"] = Peer(next)] /\ conf'["main"] = conf["main"]
         /\ conf'["leaf"] = Peer(next) /\ guess' = TRUE /\ late' \subseteq late
         /\ UNCHANGED <<wires, dev, mss, settled, testing, chg, left, stale, moved, noise>>
<1>1. conf \in [Ends -> Settings] /\ late \subseteq Settings
  BY DEF TypeInv, ConfType
<1>2. conf' = [conf EXCEPT !["leaf"] = Peer(next)]
  BY DEF PeerLate
<1>3. conf'["main"] = conf["main"] /\ conf'["leaf"] = Peer(next)
  BY <1>1, <1>2, TheEnds
<1> QED
  BY <1>1, <1>2, <1>3 DEF PeerLate

\* What a step can be.
LEMMA Steps ==
  ASSUME [Next]_vars
  PROVE  \/ \E jumbo \in BOOLEAN : SetJumbo(jumbo)
         \/ \E requested \in Requests : EnableAgain(requested)
         \/ TestMTU(FALSE) \/ TestMTU(TRUE)
         \/ Push \/ ProbeAnswered \/ ProbeFails
         \/ \E e \in Ends : Reconcile(e)
         \/ \E next \in late : PeerLate(next)
         \/ Outside
  BY DEF Next, Change, ChangeStep, Outside

\* Modes and limits stay, and with them what the interfaces can be raised to.
LEMMA WireStep ==
  ASSUME WireType, [Next]_vars
  PROVE  /\ WireType' /\ UNCHANGED <<mode, max, refuses>>
         /\ Reach("main")' = Reach("main") /\ Reach("leaf")' = Reach("leaf")
         /\ \A e \in Ends : Reach(e)' = Reach(e)
<1>1. UNCHANGED <<mode, max, refuses>> /\ (path' = path \/ path' \in Paths)
  BY Steps DEF SetJumbo, EnableAgain, TestMTU, Push, PeerLate, ProbeAnswered, ProbeFails, Reconcile, Outside, Settle,
     PathChanges, vars, wires
<1>2. WireType'
  BY <1>1 DEF WireType
<1> QED
  BY <1>1, <1>2 DEF Reach

\* A pass leaves sizes in range.
LEMMA ReconcileType ==
  ASSUME TypeInv, NEW e \in Ends, Reconcile(e)
  PROVE  /\ Device(e, Raised(e)) \in Links /\ Clamp \in {0} \cup (MinLinkMTU..(EthernetMTU - 1))
         /\ mode = "wireguard" => Device(e, Raised(e)) = Inner(conf[e])
<1>1. conf[e].underlay \in Underlays /\ conf[e].link \in Links /\ dev[e] \in Links
  BY ConfFields DEF TypeInv, ConfType
<1>2. CASE mode = "wireguard"
  <2>1. Device(e, Raised(e)) = Inner(conf[e]) /\ Inner(conf[e]) \in Links
    BY <1>1, <1>2, InnerType DEF Device, Inner
  <2> QED
    BY <1>2, <2>1 DEF Clamp
<1>3. CASE mode # "wireguard"
  <2> DEFINE t == Lower(conf[e].link, Raised(e) - Overhead)
  <2>1. Raised(e) \in Int
    BY RaisedFrame, InRange
  <2>2. ASSUME NEW l \in Links, NEW p \in Int
        PROVE  Lower(l, p - Overhead) \in Int /\ Lower(l, p - Overhead) <= 1500
    BY DEF Lower, Links, EthernetMTU, MinLinkMTU, Overhead
  <2>3. t \in Int /\ t <= 1500
    BY <1>1, <2>1, <2>2
  <2>4. Device(e, Raised(e)) = IF t < MinLinkMTU THEN dev[e] ELSE t
    BY <1>3 DEF Device
  <2> HIDE DEF t
  <2>5. ~(t < MinLinkMTU) => t \in Links
    BY <2>3, InRange DEF MinLinkMTU
  <2>6. Device(e, Raised(e)) \in Links
    BY <1>1, <2>4, <2>5
  <2> QED
    BY <1>3, <2>6 DEF Clamp
<1> QED
  BY <1>2, <1>3

\* No step raises an interface further than it reaches.
LEMMA NicStep ==
  ASSUME TypeInv, [Next]_vars
  PROVE  NicType'
<1>1. \A e \in Ends : Reach(e)' = Reach(e)
  BY WireStep DEF TypeInv
<1>2. CASE UNCHANGED nic
  BY <1>1, <1>2 DEF TypeInv, NicType
<1>3. ASSUME NEW e \in Ends, Reconcile(e) PROVE NicType'
  <2>1. nic' = [nic EXCEPT ![e] = Raised(e)]
    BY <1>3 DEF Reconcile
  <2>2. Raised(e) \in Frames /\ Raised(e) <= Reach(e)
    BY RaisedFrame
  <2>3. nic \in [Ends -> Frames] /\ \A d \in Ends : nic[d] <= Reach(d)
    BY DEF TypeInv, NicType
  <2> QED
    BY <1>1, <2>1, <2>2, <2>3 DEF NicType
<1> QED
  BY <1>2, <1>3, Steps DEF SetJumbo, EnableAgain, TestMTU, Push, PeerLate, ProbeAnswered, ProbeFails, Outside, Settle,
     PathChanges, vars, wires

\* What is saved and what is applied stays in range.
LEMMA ConfStep ==
  ASSUME TypeInv, [Next]_vars
  PROVE  ConfType'
<1>1. CASE UNCHANGED <<conf, late, dev, mss>>
  BY <1>1 DEF TypeInv, ConfType
<1>2. CASE Push
  <2>1. chg.next \in Settings /\ late' \subseteq late \cup {chg.next} /\ UNCHANGED <<dev, mss>>
    BY <1>2, PushEffect
  <2>2. Peer(chg.next) \in Settings /\ Saved(chg.next, Peer(chg.next)) \in Settings
    BY <2>1, PeerSetting, SavedSetting
  <2>3. conf \in [Ends -> Settings]
    BY DEF TypeInv, ConfType
  <2>4. conf' \in [Ends -> Settings]
    <3>1. CASE conf' = [main |-> Saved(chg.next, Peer(chg.next)), leaf |-> Peer(chg.next)]
      BY <2>2, <3>1 DEF Ends
    <3>2. CASE conf' = [conf EXCEPT !["leaf"] = Peer(chg.next)]
      BY <2>2, <2>3, <3>2
    <3> QED
      BY <1>2, <2>3, <3>1, <3>2, PushEffect
  <2> QED
    BY <2>1, <2>4 DEF TypeInv, ConfType
<1>3. ASSUME NEW e \in Ends, Reconcile(e) PROVE ConfType'
  <2>1. dev' = [dev EXCEPT ![e] = Device(e, Raised(e))] /\ UNCHANGED <<conf, late>> /\ (mss' = Clamp \/ mss' = mss)
    BY <1>3 DEF Reconcile
  <2>2. Device(e, Raised(e)) \in Links /\ Clamp \in {0} \cup (MinLinkMTU..(EthernetMTU - 1))
    BY <1>3, ReconcileType
  <2>3. dev' \in [Ends -> Links]
    BY <2>1, <2>2 DEF TypeInv, ConfType
  <2> QED
    BY <2>1, <2>2, <2>3 DEF TypeInv, ConfType
<1>4. ASSUME NEW next \in late, PeerLate(next) PROVE ConfType'
  <2>1. /\ next \in Settings /\ conf' = [conf EXCEPT !["leaf"] = Peer(next)] /\ late' \subseteq late
        /\ UNCHANGED <<dev, mss>>
    BY <1>4, LateEffect
  <2>2. Peer(next) \in Settings
    BY <2>1, PeerSetting
  <2> QED
    BY <2>1, <2>2 DEF TypeInv, ConfType
<1> QED
  BY <1>1, <1>2, <1>3, <1>4, Steps DEF SetJumbo, EnableAgain, TestMTU, ProbeAnswered, ProbeFails, Outside, Settle,
     PathChanges, vars, ends

\* A change that is none, or is sent, is in range whatever it is about.
LEMMA Ended ==
  ASSUME TypeInv,
         \/ chg' = NoChange
         \/ \E kind \in {"jumbo", "enable", "test"}, next \in Settings : chg' = Pushed(kind, next)
  PROVE  ChangeType'
<1>1. CASE chg' = NoChange
  BY <1>1, NoChangeFields DEF ChangeType, Probing
<1>2. ASSUME NEW kind \in {"jumbo", "enable", "test"}, NEW next \in Settings, chg' = Pushed(kind, next)
      PROVE  ChangeType'
  <2>1. chg.auto \in BOOLEAN
    BY DEF TypeInv, ChangeType, Changes
  <2> QED
    BY <1>2, <2>1, PushedFields DEF ChangeType, Probing
<1> QED
  BY <1>1, <1>2

\* So is the result of a measurement.
LEMMA ResultType ==
  ASSUME TypeInv, NEW mtu, Result(mtu)
  PROVE  ChangeType'
<1>1. CASE chg' = NoChange
  BY <1>1, Ended
<1>2. ASSUME NEW next, chg' = Pushed("test", next), MeasuredSetting(next, mtu) PROVE ChangeType'
  <2>1. next \in Settings /\ "test" \in {"jumbo", "enable", "test"}
    BY <1>2 DEF MeasuredSetting
  <2> QED
    BY <1>2, <2>1, Ended
<1> QED
  BY <1>1, <1>2 DEF Result

\* The window of a search stays within what the interface reaches.
LEMMA ChangeTypeStep ==
  ASSUME TypeInv, [Next]_vars
  PROVE  ChangeType'
<1>1. Reach("main")' = Reach("main") /\ Reach("main") \in Frames
  BY WireStep, ReachFrame, TheEnds DEF TypeInv
<1>2. CASE UNCHANGED chg
  BY <1>1, <1>2 DEF TypeInv, ChangeType
<1>3. ASSUME NEW jumbo \in BOOLEAN, SetJumbo(jumbo) PROVE ChangeType'
  BY <1>3, SetJumboEffect, Ended
<1>4. ASSUME NEW requested \in Requests, EnableAgain(requested) PROVE ChangeType'
  BY <1>4, EnableEffect, Ended
<1>5. ASSUME NEW auto, auto \in BOOLEAN, TestMTU(auto) PROVE ChangeType'
  <2>1. nic["main"] \in Frames /\ nic["main"] <= Reach("main")
    BY TheEnds DEF TypeInv, NicType
  <2>2. chg' \in Changes /\ chg'.pc = "first" /\ chg'.kind = "test" /\ chg'.hi = nic["main"]
    BY <1>5, TestEffect
  <2> QED
    BY <1>1, <2>1, <2>2 DEF ChangeType
<1>6. CASE Push
  BY <1>6, PushEffect, Ended
<1>7. ASSUME chg.pc \in Probing, NEW lo \in Frames, NEW hi \in Frames, hi - lo > Precision, hi <= chg.hi,
             chg' = Searching(lo, hi)
      PROVE  ChangeType'
  <2>1. chg \in Changes /\ chg.kind = "test" /\ chg.hi <= Reach("main") /\ chg.hi \in Frames
    BY <1>7 DEF TypeInv, ChangeType
  <2>2. /\ chg' \in Changes /\ chg'.pc = "search" /\ chg'.kind = "test" /\ chg'.lo = lo /\ chg'.hi = hi
    BY <1>7, <2>1, SearchingFields
  <2>3. lo >= EthernetMTU /\ hi <= Reach("main")
    <3>1. lo \in Int /\ lo >= 1500 /\ hi \in Int /\ chg.hi \in Int /\ Reach("main") \in Int
      BY <1>1, <2>1, InRange
    <3> QED
      BY <1>7, <2>1, <3>1 DEF EthernetMTU
  <2> QED
    BY <1>1, <1>7, <2>2, <2>3 DEF ChangeType
<1>8. CASE ProbeAnswered
  <2>1. CASE chg.pc = "first" /\ ~(chg.hi <= EthernetMTU) /\ chg' = [chg EXCEPT !.pc = "top"]
    <3>1. chg \in Changes /\ chg.kind = "test" /\ chg.hi \in Frames /\ chg.hi <= Reach("main")
      BY <2>1 DEF TypeInv, ChangeType, Probing
    <3>2. chg.hi > EthernetMTU
      BY <2>1, <3>1, InRange DEF EthernetMTU
    <3>3. chg' \in Changes /\ chg'.pc = "top" /\ chg'.kind = chg.kind /\ chg'.hi = chg.hi
      BY <2>1, <3>1 DEF Changes, Probing
    <3> QED
      BY <1>1, <3>1, <3>2, <3>3 DEF ChangeType
  <2>2. ASSUME chg.pc = "search", NEW mid \in Frames, chg.hi - mid > Precision, chg' = Searching(mid, chg.hi)
        PROVE  ChangeType'
    <3>1. chg.hi \in Frames /\ chg.hi \in Int /\ chg.pc \in Probing
      BY <2>2, Window, InRange DEF Probing
    <3>2. chg.hi <= chg.hi
      BY <3>1
    <3> QED
      BY <1>7, <2>2, <3>1, <3>2
  <2> QED
    BY <1>8, <2>1, <2>2, AnsweredEffect, ResultType
<1>9. CASE ProbeFails
  <2>1. ASSUME chg.pc \in {"top", "search"}, NEW lo \in Frames, NEW hi \in Frames, hi <= chg.hi,
               hi - lo > Precision, chg' = Searching(lo, hi)
        PROVE  ChangeType'
    BY <1>7, <2>1 DEF Probing
  <2> QED
    BY <1>9, <2>1, FailsEffect, ResultType, Ended
<1> QED
  BY <1>2, <1>3, <1>4, <1>5, <1>6, <1>8, <1>9, Steps DEF Reconcile, PeerLate, Outside, Settle, PathChanges, vars

\* At the start nothing has been raised.
LEMMA TypeInit ==
  ASSUME Init
  PROVE  TypeInv
<1> DEFINE l == IF mode = "wireguard" THEN wgInnerMTU(EthernetMTU) ELSE macsecCapableMTU(EthernetMTU)
<1>1. WireType
  BY DEF Init, WireType
<1>2. l \in Links
  <2>1. EthernetMTU \in Int /\ EthernetMTU >= EthernetMTU
    BY DEF EthernetMTU
  <2> QED
    BY <2>1, InnerLink, CapableLink
<1>3. /\ conf = [e \in Ends |-> Setting(FALSE, 0, l)] /\ dev = [e \in Ends |-> l] /\ mss = l /\ late = {}
      /\ nic = [e \in Ends |-> EthernetMTU] /\ chg = NoChange
  BY DEF Init
<1>4. l \in MinLinkMTU..(EthernetMTU - 1)
  BY DEF wgInnerMTU, macsecCapableMTU, Lower, EthernetMTU, MinLinkMTU, WGOverhead, VXOverhead, Overhead
<1> HIDE DEF l
<1>5. Setting(FALSE, 0, l) \in Settings
  BY <1>2, SettingFields, ZeroUnderlay
<1>6. ConfType
  BY <1>2, <1>3, <1>4, <1>5 DEF ConfType
<1>7. NicType
  <2>1. ASSUME NEW e \in Ends PROVE EthernetMTU \in Frames /\ EthernetMTU <= Reach(e)
    BY <1>1, ReachFrame, InRange DEF EthernetMTU
  <2>2. "main" \in Ends
    BY TheEnds
  <2> QED
    BY <1>3, <2>1, <2>2 DEF NicType
<1>8. ChangeType
  BY <1>3, NoChangeFields DEF ChangeType, Probing
<1> QED
  BY <1>1, <1>6, <1>7, <1>8 DEF TypeInv

\* The main router and its leaf never hold a size the other one's checks refuse.
THEOREM SizesInRange == Spec => []TypeOK
<1>1. Init => TypeInv
  BY TypeInit
<1>2. TypeInv /\ [Next]_vars => TypeInv'
  <2> SUFFICES ASSUME TypeInv, [Next]_vars PROVE TypeInv'
    OBVIOUS
  <2> QED
    BY WireStep, NicStep, ConfStep, ChangeTypeStep DEF TypeInv
<1>3. ASSUME TypeInv PROVE TypeOK
  <2>1. nic \in [Ends -> EthernetMTU..JumboMTU]
    BY <1>3 DEF TypeInv, NicType, Frames
  <2>2. ASSUME NEW e \in Ends
        PROVE  /\ conf[e].link \in MinLinkMTU..EthernetMTU /\ dev[e] \in MinLinkMTU..EthernetMTU
               /\ conf[e].underlay \in {0} \cup (EthernetMTU..JumboMTU)
    BY <1>3, ConfFields DEF TypeInv, ConfType, Links, Underlays, Frames
  <2>3. ASSUME chg.pc = "search" PROVE chg.lo < chg.hi /\ chg.hi <= JumboMTU
    <3>1. chg.lo \in Int /\ chg.hi \in Int /\ chg.hi <= 9000 /\ chg.hi - chg.lo > 8
      BY <1>3, <2>3, Window, InRange DEF Precision
    <3> QED
      BY <3>1 DEF JumboMTU
  <2>4. mss \in {0} \cup (MinLinkMTU..(EthernetMTU - 1))
    BY <1>3 DEF TypeInv, ConfType
  <2> QED
    BY <2>1, <2>2, <2>3, <2>4 DEF TypeOK
<1> QED
  BY <1>1, <1>2, <1>3, PTL DEF Spec

-----------------------------------------------------------------------------
(* A measurement claims no more than there is                              *)

\* The wire and the interfaces are what they were.
LEMMA SameWire ==
  ASSUME TypeInv, [Next]_vars, path' = path
  PROVE  Wire' = Wire /\ (nic' = nic => Carried' = Carried)
<1>1. Reach("main")' = Reach("main") /\ Reach("leaf")' = Reach("leaf")
  BY WireStep DEF TypeInv
<1> QED
  BY <1>1 DEF Wire, Carried

\* The sizes the proofs compare.
LEMMA WireSizes ==
  ASSUME TypeInv
  PROVE  /\ Carried \in Int /\ Wire \in Int /\ 1500 <= Carried /\ Carried <= Wire
         /\ nic["main"] \in Int /\ Carried <= nic["main"]
<1>1. Carried \in Frames /\ Wire \in Frames /\ nic["main"] \in Frames
  BY CarriedFrame, WireFrame, TheEnds DEF TypeInv, NicType
<1> QED
  BY <1>1, CarriedFrame, InRange DEF TypeInv

\* A change that is not a measurement has no window.
LEMMA NoWindow ==
  ASSUME chg'.pc \notin Probing, chg'.pc = "push" => chg'.kind # "test"
  PROVE  SearchInv'
  BY DEF SearchInv, StartInv, WindowInv, Probing

\* The result of a measurement that ends within Precision below what is carried.
LEMMA ResultWindow ==
  ASSUME TypeInv, NEW mtu \in Frames, Result(mtu), Wire' = Wire, Carried' = Carried,
         ~moved' => mtu <= Wire /\ (noise' \/ Carried - mtu \in 0..Precision)
  PROVE  SearchInv'
<1>1. CASE chg' = NoChange
  BY <1>1, NoChangeFields, NoWindow
<1>2. ASSUME NEW next, chg' = Pushed("test", next), MeasuredSetting(next, mtu) PROVE SearchInv'
  <2>1. chg.auto \in BOOLEAN /\ next \in Settings /\ next.underlay = mtu
    BY <1>2 DEF TypeInv, ChangeType, Changes, MeasuredSetting
  <2>2. chg'.pc = "push" /\ chg'.next = next /\ chg'.pc \notin Probing
    BY <1>2, <2>1, PushedFields
  <2> QED
    BY <2>1, <2>2 DEF SearchInv, StartInv, WindowInv, Probing
<1> QED
  BY <1>1, <1>2 DEF Result

\* A window of which the lower end is carried and, undisturbed, the upper one is not.
LEMMA SearchingWindow ==
  ASSUME TypeInv, NEW lo \in Frames, NEW hi \in Frames, chg' = Searching(lo, hi), Wire' = Wire, Carried' = Carried,
         ~moved' => lo <= Wire /\ (noise' \/ (lo <= Carried /\ Carried < hi))
  PROVE  SearchInv'
<1>1. chg'.pc = "search" /\ chg'.lo = lo /\ chg'.hi = hi
  BY SearchingFields DEF TypeInv, ChangeType
<1> QED
  BY <1>1 DEF SearchInv, StartInv, WindowInv

\* One of the two comes out of every probe.
LEMMA NarrowWindow ==
  ASSUME TypeInv, NEW lo \in Frames, NEW hi \in Frames, Wire' = Wire, Carried' = Carried,
         ~moved' => lo <= Wire /\ (noise' \/ (lo <= Carried /\ Carried < hi)),
         \/ hi - lo > Precision /\ chg' = Searching(lo, hi)
         \/ hi - lo <= Precision /\ Result(lo)
  PROVE  SearchInv'
<1>1. CASE chg' = Searching(lo, hi)
  BY <1>1, SearchingWindow
<1>2. CASE hi - lo <= Precision /\ Result(lo)
  <2>1. ASSUME lo <= Carried, Carried < hi PROVE Carried - lo \in 0..Precision
    <3>1. lo \in Int /\ hi \in Int /\ Carried \in Int
      BY WireSizes, InRange
    <3> QED
      BY <1>2, <2>1, <3>1 DEF Precision
  <2> QED
    BY <1>2, <2>1, ResultWindow
<1> QED
  BY <1>1, <1>2

\* The answer to a probe closes the window from below.
LEMMA AnsweredWindow ==
  ASSUME TypeInv, SearchInv, [Next]_vars, ProbeAnswered
  PROVE  SearchInv'
<1>1. path' = path /\ nic' = nic /\ moved' = moved /\ noise' = noise
  BY DEF ProbeAnswered, wires, history
<1>2. Wire' = Wire /\ Carried' = Carried
  BY <1>1, SameWire
<1>3. CASE chg.pc = "first" /\ chg.hi <= EthernetMTU /\ EthernetMTU <= Carried /\ Result(EthernetMTU)
  <2>1. EthernetMTU \in Frames /\ EthernetMTU <= Wire
    BY <1>3, WireSizes, InRange DEF EthernetMTU
  <2>2. noise \/ Carried - EthernetMTU \in 0..Precision
    <3>1. ASSUME ~noise PROVE Carried - EthernetMTU \in 0..Precision
      <4>1. Carried <= EthernetMTU
        BY <1>3, <3>1, WireSizes DEF SearchInv, StartInv, EthernetMTU
      <4> QED
        BY <1>3, <4>1, WireSizes DEF EthernetMTU, Precision
    <3> QED
      BY <3>1
  <2> QED
    BY <1>1, <1>2, <1>3, <2>1, <2>2, ResultWindow
<1>4. CASE chg.pc = "first" /\ chg' = [chg EXCEPT !.pc = "top"]
  <2>1. chg'.pc = "top" /\ chg'.hi = chg.hi
    BY <1>4 DEF TypeInv, ChangeType, Changes
  <2> QED
    BY <1>1, <1>4, <2>1 DEF SearchInv, StartInv, WindowInv
<1>5. CASE chg.pc = "top" /\ chg.hi <= Carried /\ Result(chg.hi)
  <2>1. chg.hi \in Frames /\ chg.hi \in Int
    BY <1>5, InRange DEF TypeInv, ChangeType, Probing
  <2>2. chg.hi <= Wire
    BY <1>5, <2>1, WireSizes
  <2>3. noise \/ Carried - chg.hi \in 0..Precision
    <3>1. ASSUME ~noise PROVE Carried - chg.hi \in 0..Precision
      <4>1. Carried <= chg.hi
        BY <1>5, <3>1, WireSizes DEF SearchInv, StartInv
      <4> QED
        BY <1>5, <2>1, <4>1, WireSizes DEF Precision
    <3> QED
      BY <3>1
  <2> QED
    BY <1>1, <1>2, <1>5, <2>1, <2>2, <2>3, ResultWindow
<1>6. ASSUME chg.pc = "search", NEW mid \in Frames, chg.lo < mid, mid < chg.hi, mid <= Carried,
             \/ chg.hi - mid > Precision /\ chg' = Searching(mid, chg.hi)
             \/ chg.hi - mid <= Precision /\ Result(mid)
      PROVE  SearchInv'
  <2>1. chg.hi \in Frames
    BY <1>6, Window
  <2>2. mid <= Wire
    BY <1>6, WireSizes, InRange
  <2>3. ~moved => noise \/ (mid <= Carried /\ Carried < chg.hi)
    BY <1>6 DEF SearchInv, WindowInv
  <2> QED
    BY <1>1, <1>2, <1>6, <2>1, <2>2, <2>3, NarrowWindow
<1> QED
  BY <1>3, <1>4, <1>5, <1>6, AnsweredEffect

\* A probe without an answer closes it from above, unless it got lost.
LEMMA FailsWindow ==
  ASSUME TypeInv, SearchInv, [Next]_vars, ProbeFails
  PROVE  SearchInv'
<1>1. path' = path /\ nic' = nic /\ moved' = moved /\ (noise => noise')
  BY DEF ProbeFails, wires
<1>2. Wire' = Wire /\ Carried' = Carried
  BY <1>1, SameWire
<1>3. CASE chg' = NoChange
  BY <1>3, NoChangeFields, NoWindow
<1>4. ASSUME chg.pc \in {"top", "search"}, NEW lo \in Frames, NEW hi \in Frames, hi <= chg.hi,
             lo = (IF chg.pc = "top" THEN EthernetMTU ELSE chg.lo), noise' \/ ~(hi <= Carried),
             \/ hi - lo > Precision /\ chg' = Searching(lo, hi)
             \/ hi - lo <= Precision /\ Result(lo)
      PROVE  SearchInv'
  <2>1. ~(hi <= Carried) => Carried < hi
    BY WireSizes, InRange
  <2>2. CASE chg.pc = "top"
    <3>1. lo <= Carried /\ lo <= Wire
      BY <1>4, <2>2, WireSizes DEF EthernetMTU
    <3> QED
      BY <1>1, <1>2, <1>4, <2>1, <3>1, NarrowWindow
  <2>3. CASE chg.pc = "search"
    <3>1. lo = chg.lo
      BY <1>4, <2>3
    <3>2. ~moved => lo <= Wire /\ (noise \/ lo <= Carried)
      BY <2>3, <3>1 DEF SearchInv, WindowInv
    <3>3. ~moved' => lo <= Wire /\ (noise' \/ (lo <= Carried /\ Carried < hi))
      BY <1>1, <1>4, <2>1, <3>2
    <3> QED
      BY <1>2, <1>4, <3>3, NarrowWindow
  <2> QED
    BY <1>4, <2>2, <2>3
<1> QED
  BY <1>3, <1>4, FailsEffect

\* Every step keeps the window around what is carried.
LEMMA SearchStep ==
  ASSUME TypeInv, SearchInv, [Next]_vars
  PROVE  SearchInv'
<1>1. ASSUME NEW jumbo \in BOOLEAN, SetJumbo(jumbo) PROVE SearchInv'
  <2>1. chg' = NoChange \/ \E next \in Settings : chg' = Pushed("jumbo", next)
    BY <1>1, SetJumboEffect
  <2>2. chg.auto \in BOOLEAN /\ "jumbo" \in {"jumbo", "enable", "test"} /\ "jumbo" # "test"
    BY DEF TypeInv, ChangeType, Changes
  <2> QED
    BY <2>1, <2>2, NoChangeFields, PushedFields, NoWindow
<1>2. ASSUME NEW requested \in Requests, EnableAgain(requested) PROVE SearchInv'
  <2>1. \E next \in Settings : chg' = Pushed("enable", next)
    BY <1>2, EnableEffect
  <2>2. chg.auto \in BOOLEAN /\ "enable" \in {"jumbo", "enable", "test"} /\ "enable" # "test"
    BY DEF TypeInv, ChangeType, Changes
  <2> QED
    BY <2>1, <2>2, PushedFields, NoWindow
<1>3. ASSUME NEW auto, auto \in BOOLEAN, TestMTU(auto) PROVE SearchInv'
  <2>1. chg'.pc = "first" /\ chg'.hi = nic["main"]
    BY <1>3, TestEffect
  <2>2. nic' = nic
    BY <1>3 DEF TestMTU, wires
  <2> QED
    BY <2>1, <2>2 DEF SearchInv, StartInv, WindowInv
<1>4. CASE Push
  BY <1>4, PushEffect, NoChangeFields, NoWindow
<1>5. ASSUME NEW e \in Ends, Reconcile(e) PROVE SearchInv'
  <2>1. path' = path /\ chg' = chg /\ moved' = moved /\ (noise => noise') /\ (~noise' => nic' = nic)
    BY <1>5 DEF Reconcile
  <2>2. Wire' = Wire /\ (nic' = nic => Carried' = Carried)
    BY <2>1, SameWire
  <2>3. StartInv'
    BY <2>1 DEF SearchInv, StartInv
  <2>4. WindowInv'
    <3>1. CASE noise'
      BY <2>1, <2>2, <3>1 DEF SearchInv, WindowInv
    <3>2. CASE ~noise'
      BY <2>1, <2>2, <3>2 DEF SearchInv, WindowInv
    <3> QED
      BY <3>1, <3>2
  <2> QED
    BY <2>3, <2>4 DEF SearchInv
<1>6. CASE PathChanges
  BY <1>6 DEF PathChanges, SearchInv, StartInv, WindowInv
<1>7. CASE Settle \/ UNCHANGED vars \/ \E next \in late : PeerLate(next)
  <2>1. path' = path /\ nic' = nic /\ chg' = chg /\ moved' = moved /\ noise' = noise
    BY <1>7 DEF Settle, PeerLate, vars, wires, history
  <2>2. Wire' = Wire /\ Carried' = Carried
    BY <2>1, SameWire
  <2> QED
    BY <2>1, <2>2 DEF SearchInv, StartInv, WindowInv
<1> QED
  BY <1>1, <1>2, <1>3, <1>4, <1>5, <1>6, <1>7, AnsweredWindow, FailsWindow, Steps DEF Outside

\* testUnderlayMTU never claims more than the wire and both interfaces can carry,
\* and undisturbed it ends within Precision of what they do.
THEOREM SearchIsSound == Spec => []SearchSound
<1>1. Init => TypeInv /\ SearchInv
  <2>1. ASSUME Init PROVE SearchInv
    <3>1. chg.pc = "idle"
      BY <2>1, NoChangeFields DEF Init
    <3> QED
      BY <3>1 DEF SearchInv, StartInv, WindowInv
  <2> QED
    BY <2>1, TypeInit
<1>2. TypeInv /\ SearchInv /\ [Next]_vars => (TypeInv /\ SearchInv)'
  BY WireStep, NicStep, ConfStep, ChangeTypeStep, SearchStep DEF TypeInv
<1>3. SearchInv => SearchSound
  BY DEF SearchInv, WindowInv, SearchSound, Wire
<1> QED
  BY <1>1, <1>2, <1>3, PTL DEF Spec

-----------------------------------------------------------------------------
(* Saved link MTUs fit the interfaces                                      *)

\* A setting that is right for the end that saves it.
Sound(c, e) == Roomy(c, e) /\ (mode = "wireguard" => c.link = Inner(c))

\* The mode stays, and so does what an interface can be raised to.
LEMMA SoundKept ==
  ASSUME TypeInv, [Next]_vars, NEW e \in Ends
  PROVE  mode' = mode /\ Reach(e)' = Reach(e)
  BY WireStep DEF TypeInv

\* What the leaf makes of a setting has room there, whenever it saves it.
LEMMA PeerSound ==
  ASSUME TypeInv, NEW n \in Settings
  PROVE  Sound(Peer(n), "leaf")
<1> DEFINE p == Peer(n)
<1>1. mode \in Modes
  BY DEF TypeInv, WireType
<1>2. /\ p \in Settings /\ p.jumbo = n.jumbo
      /\ mode = "wireguard" => p.underlay = n.underlay /\ p.link = Inner(n)
      /\ mode = "macsec" => p.link + Overhead <= IF n.jumbo THEN Reach("leaf") ELSE EthernetMTU
  BY PeerSetting
<1>3. p.link \in Int
  BY <1>2, SettingsFields, InRange
<1>4. Reach("leaf") \in Int /\ EthernetMTU <= Reach("leaf")
  BY ReachFrame, TheEnds, InRange DEF EthernetMTU, TypeInv
<1> HIDE DEF p
<1>5. CASE mode = "wireguard"
  <2>1. Inner(p) = Inner(n)
    BY <1>2, <1>5 DEF Inner
  <2> QED
    BY <1>2, <1>5, <2>1 DEF Sound, Roomy, p
<1>6. CASE mode = "macsec"
  <2>1. p.link + Overhead <= Reach("leaf")
    BY <1>2, <1>3, <1>4, <1>6 DEF Overhead, EthernetMTU
  <2>2. p.jumbo \/ p.link + Overhead <= EthernetMTU
    BY <1>2, <1>6
  <2> QED
    BY <1>6, <2>1, <2>2 DEF Sound, Roomy, p
<1> QED
  BY <1>1, <1>5, <1>6 DEF Modes

\* What both ends save has room there.
LEMMA PushSound ==
  ASSUME TypeInv, LinkInv, chg.pc = "push"
  PROVE  Sound(Peer(chg.next), "leaf") /\ Sound(Saved(chg.next, Peer(chg.next)), "main")
<1> DEFINE n == chg.next
           p == Peer(n)
           s == Saved(n, p)
<1>1. n \in Settings /\ mode \in Modes
  BY DEF TypeInv, ChangeType, WireType
<1>2. p \in Settings /\ (mode = "macsec" => p.link <= n.link)
  BY <1>1, PeerSetting
<1>3. /\ s \in Settings /\ s.jumbo = n.jumbo /\ s.underlay = n.underlay
      /\ chg.kind # "enable" => s = n
      /\ chg.kind = "enable" /\ mode = "wireguard" => s.link = Inner(n)
      /\ chg.kind = "enable" /\ mode # "wireguard" => s.link = p.link
  BY <1>1, SavedSetting
<1>4. Roomy(n, "main") /\ (mode = "wireguard" /\ chg.kind # "enable" => n.link = Inner(n))
  BY DEF LinkInv
<1>5. n.link \in Int /\ p.link \in Int /\ Reach("main") \in Int
  BY <1>1, <1>2, SettingsFields, ReachFrame, TheEnds, InRange DEF TypeInv
<1>6. Sound(p, "leaf")
  BY <1>1, PeerSound
<1> HIDE DEF n, p, s
<1>7. Sound(s, "main")
  <2>1. CASE chg.kind # "enable"
    BY <1>3, <1>4, <2>1 DEF Sound
  <2>2. CASE chg.kind = "enable" /\ mode = "wireguard"
    <3>1. Inner(s) = Inner(n)
      BY <1>3 DEF Inner
    <3> QED
      BY <1>3, <2>2, <3>1 DEF Sound, Roomy
  <2>3. CASE chg.kind = "enable" /\ mode = "macsec"
    <3>1. s.link = p.link /\ p.link <= n.link
      BY <1>2, <1>3, <2>3
    <3>2. n.link + Overhead <= Reach("main") /\ (n.jumbo \/ n.link + Overhead <= EthernetMTU)
      BY <1>4, <2>3 DEF Roomy
    <3>3. p.link + Overhead <= Reach("main") /\ (n.jumbo \/ p.link + Overhead <= EthernetMTU)
      BY <1>5, <3>1, <3>2 DEF Overhead, EthernetMTU
    <3> QED
      BY <1>3, <2>3, <3>1, <3>3 DEF Sound, Roomy
  <2> QED
    BY <1>1, <2>1, <2>2, <2>3 DEF Modes
<1> QED
  BY <1>6, <1>7 DEF n, p, s

\* A probe sends a setting only when the measurement ends, within what the main
\* router's interface reaches.
LEMMA ProbeResult ==
  ASSUME TypeInv, ProbeAnswered \/ ProbeFails
  PROVE  chg'.pc # "push" \/ \E mtu \in Frames : mtu <= Reach("main") /\ Result(mtu)
<1>1. chg \in Changes /\ chg.hi \in Frames /\ chg.hi <= Reach("main") /\ Reach("main") \in Frames
  BY ReachFrame, TheEnds DEF TypeInv, ChangeType, ProbeAnswered, ProbeFails
<1>2. EthernetMTU \in Frames /\ EthernetMTU <= Reach("main")
  BY <1>1, InRange DEF EthernetMTU
<1>3. ASSUME NEW lo \in Frames, lo < chg.hi PROVE lo <= Reach("main")
  BY <1>1, <1>3, InRange
<1>4. ASSUME NEW lo \in Frames, NEW hi \in Frames, chg' = Searching(lo, hi) PROVE chg'.pc # "push"
  <2>1. chg'.pc = "search"
    BY <1>1, <1>4, SearchingFields
  <2> QED
    BY <2>1
<1>5. CASE ProbeAnswered
  <2>1. CASE chg' = [chg EXCEPT !.pc = "top"]
    BY <1>1, <2>1 DEF Changes
  <2>2. ASSUME NEW mid \in Frames, mid < chg.hi, chg' = Searching(mid, chg.hi) \/ Result(mid)
        PROVE  chg'.pc # "push" \/ \E mtu \in Frames : mtu <= Reach("main") /\ Result(mtu)
    BY <1>1, <1>3, <1>4, <2>2
  <2> QED
    BY <1>1, <1>2, <1>5, <2>1, <2>2, AnsweredEffect
<1>6. CASE ProbeFails
  <2>1. CASE chg' = NoChange
    BY <2>1, NoChangeFields
  <2>2. ASSUME NEW lo \in Frames, NEW hi \in Frames, lo < hi, hi <= chg.hi,
               chg' = Searching(lo, hi) \/ Result(lo)
        PROVE  chg'.pc # "push" \/ \E mtu \in Frames : mtu <= Reach("main") /\ Result(mtu)
    <3>1. lo < chg.hi
      BY <1>1, <2>2, InRange
    <3> QED
      BY <1>3, <1>4, <2>2, <3>1
  <2> QED
    BY <1>6, <2>1, <2>2, FailsEffect
<1> QED
  BY <1>5, <1>6

\* A setting that is sent has room at the main router.
ChangeLink ==
  chg.pc = "push" =>
    /\ Roomy(chg.next, "main")
    /\ mode = "wireguard" /\ chg.kind # "enable" => chg.next.link = Inner(chg.next)

\* It had when it was made.
LEMMA SentSound ==
  ASSUME TypeInv, [Next]_vars, NEW kind \in {"jumbo", "enable", "test"}, NEW next \in Settings,
         chg' = Pushed(kind, next), Roomy(next, "main"),
         mode = "wireguard" /\ kind # "enable" => next.link = Inner(next)
  PROVE  ChangeLink'
<1>1. chg'.next = next /\ chg'.kind = kind
  BY PushedFields DEF TypeInv, ChangeType, Changes
<1>2. mode' = mode /\ Reach("main")' = Reach("main")
  BY SoundKept, TheEnds
<1> QED
  BY <1>1, <1>2 DEF ChangeLink, Roomy, Inner

\* Every step keeps that.
LEMMA ChangeLinkStep ==
  ASSUME TypeInv, LinkInv, [Next]_vars
  PROVE  ChangeLink'
<1>1. mode' = mode /\ Reach("main")' = Reach("main")
  BY SoundKept, TheEnds
<1>2. CASE chg' = chg
  BY <1>1, <1>2 DEF LinkInv, ChangeLink, Roomy, Inner
<1>3. CASE chg'.pc # "push"
  BY <1>3 DEF ChangeLink
<1>4. ASSUME NEW jumbo \in BOOLEAN, SetJumbo(jumbo) PROVE ChangeLink'
  BY <1>3, <1>4, SetJumboEffect, SentSound, NoChangeFields
<1>5. ASSUME NEW requested \in Requests, EnableAgain(requested) PROVE ChangeLink'
  BY <1>5, EnableEffect, SentSound
<1>6. ASSUME NEW auto, auto \in BOOLEAN, TestMTU(auto) PROVE ChangeLink'
  BY <1>3, <1>6, TestEffect
<1>7. CASE Push
  BY <1>3, <1>7, PushEffect, NoChangeFields
<1>8. CASE ProbeAnswered \/ ProbeFails
  <2>1. ASSUME NEW mtu \in Frames, mtu <= Reach("main"), NEW next, chg' = Pushed("test", next), MeasuredSetting(next, mtu)
        PROVE  ChangeLink'
    <3>1. next \in Settings /\ "test" \in {"jumbo", "enable", "test"} /\ mode \in Modes
      BY <2>1 DEF MeasuredSetting, TypeInv, WireType
    <3>2. next.link \in Int /\ mtu \in Int /\ Reach("main") \in Int
      BY <3>1, SettingsFields, ReachFrame, TheEnds, InRange DEF TypeInv
    <3>3. mode = "macsec" => next.link + Overhead <= Reach("main")
      BY <2>1, <3>2 DEF MeasuredSetting, Overhead
    <3>4. Roomy(next, "main")
      BY <2>1, <3>3 DEF MeasuredSetting, Roomy
    <3> QED
      BY <2>1, <3>1, <3>4, SentSound DEF MeasuredSetting
  <2> QED
    BY <1>3, <1>8, <2>1, ProbeResult, NoChangeFields DEF Result
<1> QED
  BY <1>2, <1>4, <1>5, <1>6, <1>7, <1>8, Steps DEF Reconcile, PeerLate, Outside, Settle, PathChanges, vars

\* Every step keeps the saved link MTUs within what the interfaces reach.
LEMMA LinkStep ==
  ASSUME TypeInv, LinkInv, [Next]_vars
  PROVE  LinkInv'
<1>1. mode' = mode /\ \A e \in Ends : Reach(e)' = Reach(e)
  BY SoundKept, TheEnds
<1>2. \A e \in Ends : Sound(conf[e], e)
  BY DEF LinkInv, Sound
<1>3. ASSUME NEW e \in Ends PROVE Sound(conf[e], e)'
  <2>1. CASE conf' = conf
    BY <1>1, <1>2, <2>1 DEF Sound, Roomy, Inner
  <2>2. CASE Push
    <3>1. Sound(Peer(chg.next), "leaf") /\ Sound(Saved(chg.next, Peer(chg.next)), "main")
      BY <2>2, PushEffect, PushSound
    <3>2. \E c : conf'[e] = c /\ Sound(c, e)
      <4>1. CASE conf' = [main |-> Saved(chg.next, Peer(chg.next)), leaf |-> Peer(chg.next)]
        BY <3>1, <4>1, TheEnds
      <4>2. CASE conf' = [conf EXCEPT !["leaf"] = Peer(chg.next)]
        <5>1. conf \in [Ends -> Settings] /\ e \in {"main", "leaf"}
          BY TheEnds DEF TypeInv, ConfType
        <5> QED
          BY <1>2, <3>1, <4>2, <5>1
      <4> QED
        BY <1>2, <2>2, <4>1, <4>2, PushEffect
    <3>3. PICK c : conf'[e] = c /\ Sound(c, e)
      BY <3>2
    <3> QED
      BY <1>1, <3>3 DEF Sound, Roomy, Inner
  <2>3. ASSUME NEW next \in late, PeerLate(next) PROVE Sound(conf[e], e)'
    <3>1. Sound(Peer(next), "leaf") /\ conf'["leaf"] = Peer(next) /\ conf'["main"] = conf["main"]
      BY <2>3, LateEffect, PeerSound
    <3>2. PICK c : conf'[e] = c /\ Sound(c, e)
      BY <1>2, <3>1, TheEnds
    <3> QED
      BY <1>1, <3>2 DEF Sound, Roomy, Inner
  <2> QED
    BY <2>1, <2>2, <2>3, Steps DEF SetJumbo, EnableAgain, TestMTU, ProbeAnswered, ProbeFails, Reconcile, Outside,
       Settle, PathChanges, vars, ends
<1> QED
  BY <1>3, ChangeLinkStep DEF LinkInv, ChangeLink, Sound

-----------------------------------------------------------------------------
(* What has been measured gets through                                     *)

\* A setting that fits the wire does so as long as the wire stays.
LEMMA FitsKept ==
  ASSUME TypeInv, [Next]_vars, path' = path, NEW c, Fits(c)
  PROVE  IF mode' = "wireguard" THEN c.underlay <= Wire' ELSE c.jumbo => c.link + Overhead <= Wire'
<1>1. Wire' = Wire /\ mode' = mode
  BY SameWire, SoundKept, TheEnds
<1> QED
  BY <1>1 DEF Fits

\* What the leaf makes of a setting that fits does, and what the main router saves.
LEMMA SavedFits ==
  ASSUME TypeInv, NEW next \in Settings, Fits(next)
  PROVE  Fits(Peer(next)) /\ Fits(Saved(next, Peer(next)))
<1> DEFINE p == Peer(next)
           s == Saved(next, p)
<1>1. mode \in Modes /\ Wire \in Int
  BY WireFrame, InRange DEF TypeInv, WireType
<1>2. /\ p \in Settings /\ p.jumbo = next.jumbo
      /\ mode = "wireguard" => p.underlay = next.underlay
      /\ mode = "macsec" => p.link <= next.link
  BY PeerSetting
<1>3. /\ s \in Settings /\ s.jumbo = next.jumbo /\ s.underlay = next.underlay
      /\ mode = "macsec" => s = next \/ s.link = p.link
  BY SavedSetting
<1>4. next.link \in Int /\ p.link \in Int
  BY <1>2, SettingsFields, InRange
<1> HIDE DEF p, s
<1>5. CASE mode = "wireguard"
  BY <1>2, <1>3, <1>5 DEF Fits, p, s
<1>6. CASE mode = "macsec"
  <2>1. next.jumbo => p.link + Overhead <= Wire
    BY <1>1, <1>2, <1>4, <1>6 DEF Fits, Overhead
  <2>2. Fits(p)
    BY <1>2, <1>6, <2>1 DEF Fits
  <2>3. Fits(s)
    BY <1>3, <1>6, <2>1 DEF Fits
  <2> QED
    BY <2>2, <2>3 DEF p, s
<1> QED
  BY <1>1, <1>5, <1>6 DEF Modes

\* A setting that is sent fits, if it was measured on this wire, if it repeats a
\* WireGuard setting that fits, or if there is no measured size in it.
LEMMA SentFits ==
  ASSUME TypeInv, SearchInv, CarryInv, chg.pc = "push",
         chg.kind = "test" => ~moved,
         mode = "wireguard" /\ chg.kind = "enable" => ~stale,
         mode = "macsec" => ~chg.next.jumbo \/ chg.kind = "test"
  PROVE  Fits(chg.next)
<1>1. mode \in Modes /\ chg.next \in Settings /\ chg.kind \in {"jumbo", "enable", "test"}
  BY DEF TypeInv, ChangeType, Changes, WireType
<1>2. chg.next.link \in Int /\ Wire \in Int /\ Wire >= 1500
  BY <1>1, SettingsFields, WireFrame, InRange DEF TypeInv
<1>3. CASE chg.kind = "test"
  <2>1. chg.next.underlay <= Wire
    BY <1>3 DEF SearchInv, WindowInv
  <2>2. chg.next.underlay \in Int
    BY <1>1, SettingsFields, InRange
  <2>3. mode = "macsec" /\ chg.next.jumbo => chg.next.link + Overhead <= chg.next.underlay
    BY <1>3 DEF CarryInv
  <2>4. mode = "macsec" /\ chg.next.jumbo => chg.next.link + Overhead <= Wire
    BY <1>2, <2>1, <2>2, <2>3 DEF Overhead
  <2> QED
    BY <1>1, <2>1, <2>4 DEF Fits, Modes
<1>4. CASE chg.kind = "jumbo"
  <2>1. chg.next.underlay = 0
    BY <1>4 DEF CarryInv
  <2>2. chg.next.underlay <= Wire
    BY <1>2, <2>1
  <2> QED
    BY <1>1, <1>4, <2>2 DEF Fits, Modes
<1>5. CASE chg.kind = "enable"
  <2>1. CASE mode = "wireguard"
    <3>1. Fits(conf["main"]) /\ chg.next.underlay = conf["main"].underlay
      BY <1>5, <2>1, TheEnds DEF CarryInv
    <3> QED
      BY <2>1, <3>1 DEF Fits
  <2>2. CASE mode = "macsec"
    BY <1>5, <2>2 DEF Fits
  <2> QED
    BY <1>1, <2>1, <2>2 DEF Modes
<1> QED
  BY <1>1, <1>3, <1>4, <1>5

\* Whoever keeps what is saved, on the same wire, keeps what fits.
FitInv == ~stale => /\ mode = "wireguard" \/ ~guess => Fits(conf["main"])
                    /\ ~guess => Fits(conf["leaf"])

\* The saved sizes fit the wire after a call to the leaf, whatever of it gets lost.
LEMMA PushFits ==
  ASSUME TypeInv, SearchInv, CarryInv, [Next]_vars, Push
  PROVE  FitInv'
<1> DEFINE n == chg.next
           p == Peer(n)
           s == Saved(n, p)
           guessed == mode = "macsec" /\ n.jumbo /\ chg.kind # "test"
<1>1. chg.pc = "push" /\ n \in Settings /\ path' = path /\ mode' = mode /\ moved' = moved
  BY PushEffect DEF wires
<1>2. mode \in Modes /\ (moved => stale)
  BY DEF TypeInv, WireType, CarryInv
<1>3. \/ /\ conf' = [main |-> s, leaf |-> p] /\ guess' = guessed
         /\ stale' = (IF chg.kind = "test" THEN moved ELSE stale)
      \/ /\ conf' = [conf EXCEPT !["leaf"] = p] /\ guess' = (guess \/ guessed) /\ stale' = stale
      \/ conf' = conf /\ guess' = guess /\ stale' = stale
  BY DEF Push
<1>4. ASSUME ~guessed \/ mode = "wireguard", chg.kind = "test" => ~moved, chg.kind # "test" => ~stale
      PROVE  Fits(p) /\ Fits(s)
  <2>1. mode = "macsec" => ~n.jumbo \/ chg.kind = "test"
    BY <1>4
  <2>2. Fits(n)
    BY <1>1, <1>4, <2>1, SentFits
  <2> QED
    BY <1>1, <2>2, SavedFits
<1>5. SUFFICES ASSUME ~stale'
               PROVE  /\ mode = "wireguard" \/ ~guess' => \E c : conf'["main"] = c /\ Fits(c)
                      /\ ~guess' => \E c : conf'["leaf"] = c /\ Fits(c)
  BY <1>1, FitsKept DEF FitInv, Fits
<1>6. CASE conf' = [main |-> s, leaf |-> p] /\ guess' = guessed
           /\ stale' = (IF chg.kind = "test" THEN moved ELSE stale)
  <2>1. ~guess' \/ mode = "wireguard" => Fits(p) /\ Fits(s)
    BY <1>4, <1>5, <1>6
  <2>2. conf'["main"] = s /\ conf'["leaf"] = p
    BY <1>6
  <2> QED
    BY <2>1, <2>2
<1>7. CASE conf' = [conf EXCEPT !["leaf"] = p] /\ guess' = (guess \/ guessed) /\ stale' = stale
  <2>1. ~guess' => Fits(p)
    BY <1>2, <1>4, <1>5, <1>7
  <2>2. mode = "wireguard" \/ ~guess' => Fits(conf["main"])
    BY <1>5, <1>7 DEF CarryInv
  <2>3. conf'["main"] = conf["main"] /\ conf'["leaf"] = p
    BY <1>7, TheEnds DEF TypeInv, ConfType
  <2> QED
    BY <2>1, <2>2, <2>3
<1>8. CASE conf' = conf /\ guess' = guess /\ stale' = stale
  BY <1>5, <1>8 DEF CarryInv
<1> QED
  BY <1>3, <1>6, <1>7, <1>8

\* Every other step leaves the saved sizes alone, or the wire is another one.
LEMMA FitStep ==
  ASSUME TypeInv, SearchInv, CarryInv, [Next]_vars
  PROVE  FitInv'
<1>1. CASE stale'
  BY <1>1 DEF FitInv
<1>2. CASE path' = path /\ conf' = conf /\ stale' = stale /\ guess' = guess
  <2>1. mode' = mode
    BY SoundKept, TheEnds
  <2> QED
    BY <1>2, <2>1, FitsKept DEF CarryInv, FitInv, Fits
<1>3. CASE PathChanges
  BY <1>1, <1>3 DEF PathChanges
<1>4. ASSUME NEW next \in late, PeerLate(next) PROVE FitInv'
  <2>1. conf'["main"] = conf["main"] /\ guess' = TRUE /\ stale' = stale /\ path' = path
    BY <1>4, LateEffect DEF wires
  <2>2. mode' = mode
    BY SoundKept, TheEnds
  <2>3. ~stale /\ mode = "wireguard" => Fits(conf["main"])
    BY DEF CarryInv
  <2> QED
    BY <2>1, <2>2, <2>3, FitsKept DEF FitInv, Fits
<1> QED
  BY <1>2, <1>3, <1>4, PushFits, Steps DEF SetJumbo, EnableAgain, TestMTU, ProbeAnswered, ProbeFails, Reconcile, Outside,
     Settle, vars, ends, wires, history

\* What is sent is about the setting the main router has.
ChangeFit ==
  chg.pc = "push" =>
    CASE chg.kind = "jumbo"  -> chg.next.underlay = 0
      [] chg.kind = "enable" -> chg.next.underlay = conf["main"].underlay
      [] OTHER -> mode = "macsec" /\ chg.next.jumbo => chg.next.link + Overhead <= chg.next.underlay

\* The main router's setting stays until the reply is there.
LEMMA ChangeFitStep ==
  ASSUME TypeInv, CarryInv, [Next]_vars
  PROVE  ChangeFit'
<1>1. mode' = mode /\ chg.auto \in BOOLEAN
  BY SoundKept, TheEnds DEF TypeInv, ChangeType, Changes
<1>2. CASE chg' = chg /\ conf'["main"] = conf["main"]
  BY <1>1, <1>2 DEF CarryInv, ChangeFit
<1>3. CASE chg'.pc # "push"
  BY <1>3 DEF ChangeFit
<1>4. ASSUME NEW jumbo \in BOOLEAN, SetJumbo(jumbo) PROVE ChangeFit'
  <2>1. ASSUME NEW next \in Settings, chg' = Pushed("jumbo", next), next.underlay = 0 PROVE ChangeFit'
    <3>1. chg'.kind = "jumbo" /\ chg'.next = next
      BY <1>1, <2>1, PushedFields
    <3> QED
      BY <2>1, <3>1 DEF ChangeFit
  <2> QED
    BY <1>3, <1>4, <2>1, SetJumboEffect, NoChangeFields
<1>5. ASSUME NEW requested \in Requests, EnableAgain(requested) PROVE ChangeFit'
  <2>1. PICK next \in Settings : chg' = Pushed("enable", next) /\ next.underlay = conf["main"].underlay
    BY <1>5, EnableEffect
  <2>2. chg'.kind = "enable" /\ chg'.next = next /\ conf' = conf
    BY <1>1, <1>5, <2>1, PushedFields DEF EnableAgain, ends
  <2> QED
    BY <2>1, <2>2 DEF ChangeFit
<1>6. ASSUME NEW auto, auto \in BOOLEAN, TestMTU(auto) PROVE ChangeFit'
  BY <1>3, <1>6, TestEffect
<1>7. CASE Push
  BY <1>3, <1>7, PushEffect, NoChangeFields
<1>8. CASE ProbeAnswered \/ ProbeFails
  <2>1. ASSUME NEW mtu \in Frames, NEW next, chg' = Pushed("test", next), MeasuredSetting(next, mtu)
        PROVE  ChangeFit'
    <3>1. next \in Settings /\ next.underlay = mtu /\ (mode = "macsec" => next.link + Overhead <= mtu)
      BY <2>1 DEF MeasuredSetting
    <3>2. chg'.kind = "test" /\ chg'.next = next
      BY <1>1, <2>1, <3>1, PushedFields
    <3> QED
      BY <1>1, <3>1, <3>2 DEF ChangeFit
  <2> QED
    BY <1>3, <1>8, <2>1, ProbeResult, NoChangeFields DEF Result
<1> QED
  BY <1>2, <1>4, <1>5, <1>6, <1>7, <1>8, LateEffect, Steps DEF Reconcile, Outside, Settle, PathChanges, vars, ends

\* A wire that changes during a measurement has changed since the one before.
LEMMA CarryStep ==
  ASSUME TypeInv, SearchInv, CarryInv, [Next]_vars
  PROVE  CarryInv'
<1>1. (moved => stale)'
  <2>1. moved => stale
    BY DEF CarryInv
  <2> QED
    <3>1. CASE moved' = FALSE \/ stale' = TRUE \/ (moved' = moved /\ stale' = stale)
      BY <2>1, <3>1
    <3>2. CASE Push
      <4>1. moved' = moved /\ (stale' = stale \/ stale' = moved)
        BY <3>2 DEF Push
      <4> QED
        BY <2>1, <4>1
    <3> QED
      BY <3>1, <3>2, Steps DEF SetJumbo, EnableAgain, TestMTU, PeerLate, ProbeAnswered, ProbeFails, Reconcile, Outside,
         Settle, PathChanges, vars, history
<1> QED
  BY <1>1, FitStep, ChangeFitStep DEF CarryInv, FitInv, ChangeFit

\* All four together.
LinkMTUInv == TypeInv /\ SearchInv /\ LinkInv /\ CarryInv

\* They hold at the start and are kept.
LEMMA LinkMTUInvariant == Spec => []LinkMTUInv
<1>1. ASSUME Init PROVE LinkMTUInv
  <2> DEFINE l == IF mode = "wireguard" THEN wgInnerMTU(EthernetMTU) ELSE macsecCapableMTU(EthernetMTU)
             c == Setting(FALSE, 0, l)
  <2>1. TypeInv /\ chg.pc = "idle" /\ ~moved
    BY <1>1, TypeInit, NoChangeFields DEF Init
  <2>2. SearchInv
    BY <2>1 DEF SearchInv, StartInv, WindowInv
  <2>3. \A e \in Ends : conf[e] = c
    BY <1>1 DEF Init
  <2>4. mode = "macsec" => l + Overhead <= EthernetMTU
    BY PlainLink
  <2>5. mode = "wireguard" => l = wgInnerMTU(EthernetMTU)
    OBVIOUS
  <2>6. l \in Int
    <3>1. EthernetMTU \in Int /\ EthernetMTU >= EthernetMTU
      BY DEF EthernetMTU
    <3>2. l \in Links
      BY <3>1, InnerLink, CapableLink
    <3> HIDE DEF l
    <3> QED
      BY <3>2, InRange
  <2> HIDE DEF l
  <2>7. c.jumbo = FALSE /\ c.underlay = 0 /\ c.link = l
    BY DEF Setting
  <2> HIDE DEF c
  <2>8. meshUnderlay(FALSE, 0) = EthernetMTU
    BY DEF meshUnderlay
  <2>9. mode = "wireguard" => c.link = Inner(c)
    BY <2>5, <2>7, <2>8 DEF Inner
  <2>10. ASSUME NEW e \in Ends PROVE Roomy(c, e)
    <3>1. EthernetMTU <= Reach(e) /\ Reach(e) \in Int
      BY <2>1, ReachFrame, InRange DEF EthernetMTU, TypeInv
    <3>2. mode = "macsec" => l + Overhead <= Reach(e)
      BY <2>4, <2>6, <3>1 DEF EthernetMTU, Overhead
    <3> QED
      BY <2>4, <2>7, <3>2 DEF Roomy
  <2>11. LinkInv
    BY <2>1, <2>3, <2>9, <2>10 DEF LinkInv
  <2>12. 0 <= Wire
    BY <2>1, WireFrame, InRange DEF TypeInv
  <2>13. Fits(c)
    BY <2>7, <2>12 DEF Fits
  <2>14. CarryInv
    BY <2>1, <2>3, <2>13, TheEnds DEF CarryInv
  <2> QED
    BY <2>1, <2>2, <2>11, <2>14 DEF LinkMTUInv
<1>2. LinkMTUInv /\ [Next]_vars => LinkMTUInv'
  <2> SUFFICES ASSUME LinkMTUInv, [Next]_vars PROVE LinkMTUInv'
    OBVIOUS
  <2>1. TypeInv'
    BY WireStep, NicStep, ConfStep, ChangeTypeStep DEF TypeInv, LinkMTUInv
  <2>2. SearchInv' /\ LinkInv' /\ CarryInv'
    BY SearchStep, LinkStep, CarryStep DEF LinkMTUInv
  <2> QED
    BY <2>1, <2>2 DEF LinkMTUInv
<1> QED
  BY <1>1, <1>2, PTL DEF Spec

\* Once both managers have applied what is saved, a device has the size that is
\* saved for it, and a full frame of it fits an interface that stays as it is.
LEMMA AppliedLink ==
  ASSUME TypeInv, LinkInv, Applied, NEW e \in Ends
  PROVE  /\ dev[e] = conf[e].link /\ nic[e] = (IF conf[e].jumbo THEN Reach(e) ELSE EthernetMTU)
<1>1. conf[e].link \in Links /\ mode \in Modes /\ Roomy(conf[e], e)
  BY ConfFields DEF TypeInv, WireType, LinkInv
<1>2. nic[e] = (IF conf[e].jumbo THEN Reach(e) ELSE EthernetMTU) /\ dev[e] = Device(e, nic[e])
  BY RaisedFrame DEF Applied
<1>3. CASE mode = "wireguard"
  BY <1>2, <1>3 DEF Device, LinkInv, Inner
<1>4. CASE mode = "macsec"
  <2>1. nic[e] \in Frames /\ Reach(e) \in Frames
    BY ReachFrame DEF TypeInv, NicType
  <2>2. conf[e].link + Overhead <= nic[e]
    BY <1>1, <1>2, <1>4 DEF Roomy
  <2>3. ASSUME NEW l \in Links, NEW n \in Frames, l + Overhead <= n
        PROVE  Lower(l, n - Overhead) = l /\ ~(l < MinLinkMTU)
    BY <2>3 DEF Lower, Links, Frames, EthernetMTU, JumboMTU, MinLinkMTU, Overhead
  <2>4. Lower(conf[e].link, nic[e] - Overhead) = conf[e].link /\ ~(conf[e].link < MinLinkMTU)
    BY <1>1, <2>1, <2>2, <2>3
  <2> QED
    BY <1>2, <1>4, <2>4 DEF Device
<1> QED
  BY <1>1, <1>3, <1>4 DEF Modes

\* A full packet of either end gets through, on the wire that was measured.
THEOREM LinkCarries == Spec => []Carries
<1>1. ASSUME LinkMTUInv PROVE Carries
  <2> SUFFICES ASSUME Applied, InStep, ~guess, ~stale, NEW e \in Ends
               PROVE  OnWire(dev[e]) <= Carried
    BY DEF Carries
  <2> DEFINE j == conf["main"].jumbo
             l == conf[e].link
  <2>1. TypeInv /\ SearchInv /\ LinkInv /\ CarryInv
    BY <1>1 DEF LinkMTUInv
  <2>2. dev[e] = l /\ conf[e].jumbo = j /\ \A d \in Ends : nic[d] = (IF j THEN Reach(d) ELSE EthernetMTU)
    BY <2>1, AppliedLink, TheEnds DEF InStep
  <2>3. l \in Int /\ mode \in Modes /\ Carried \in Int /\ Carried >= 1500 /\ Wire \in Int /\ Wire >= 1500
    BY <2>1, ConfFields, WireSizes, WireFrame, InRange DEF TypeInv, WireType
  <2>4. j => Carried = Wire
    BY <2>2, TheEnds DEF Carried, Wire
  <2>5. Fits(conf[e]) /\ Roomy(conf[e], e)
    BY <2>1, TheEnds DEF CarryInv, LinkInv
  <2>6. CASE mode = "macsec"
    <3>1. CASE j
      BY <2>2, <2>3, <2>4, <2>5, <2>6, <3>1 DEF Fits, OnWire
    <3>2. CASE ~j
      <4>1. l + Overhead <= EthernetMTU
        BY <2>2, <2>5, <2>6, <3>2 DEF Roomy
      <4>2. l + Overhead <= Carried
        BY <2>3, <4>1 DEF EthernetMTU, Overhead
      <4> QED
        BY <2>2, <2>6, <4>2 DEF OnWire
    <3> QED
      BY <3>1, <3>2
  <2>7. CASE mode = "wireguard"
    <3> DEFINE m == meshUnderlay(j, conf[e].underlay)
    <3>1. l = wgInnerMTU(m)
      BY <2>1, <2>2, <2>7 DEF LinkInv, Inner
    <3>2. m \in Frames /\ m \in {EthernetMTU, conf[e].underlay} /\ (~j => m = EthernetMTU)
      BY <2>1, ConfFields, UnderlayFrame
    <3> HIDE DEF m
    <3>3. m \in Int /\ m >= EthernetMTU
      BY <3>2, InRange DEF EthernetMTU
    <3>4. m <= Carried
      <4>1. CASE m = EthernetMTU
        BY <2>3, <4>1 DEF EthernetMTU
      <4>2. CASE m # EthernetMTU
        BY <2>4, <2>5, <2>7, <3>2, <4>2 DEF Fits
      <4> QED
        BY <4>1, <4>2
    <3>5. l + WGOverhead + VXOverhead <= m
      BY <3>1, <3>3, InnerLink
    <3>6. l + WGOverhead + VXOverhead <= Carried
      BY <2>3, <3>3, <3>4, <3>5 DEF WGOverhead, VXOverhead
    <3> QED
      BY <2>2, <2>7, <3>6 DEF OnWire
  <2> QED
    BY <2>3, <2>6, <2>7 DEF Modes
<1> QED
  BY <1>1, LinkMTUInvariant, PTL

\* The leaf's clamp is the size of its device, or none for full-size packets.
THEOREM ClampAlwaysFits == Spec => []ClampFits
<1>1. ASSUME LinkMTUInv PROVE ClampFits
  <2> DEFINE l == conf["leaf"].link
             link == effectiveLinkMTU(conf["leaf"].jumbo, conf["leaf"].underlay, l)
  <2> SUFFICES ASSUME Applied, conf["main"].link = l, NEW e \in Ends
               PROVE  (IF mss = 0 THEN EthernetMTU ELSE mss) <= dev[e]
    BY DEF ClampFits
  <2>1. TypeInv /\ LinkInv
    BY <1>1 DEF LinkMTUInv
  <2>2. dev[e] = l /\ l \in Links /\ mode \in Modes
    BY <2>1, AppliedLink, ConfFields, TheEnds DEF TypeInv, WireType
  <2>3. link = l
    <3>1. CASE mode = "wireguard"
      BY <2>1, <3>1, TheEnds DEF LinkInv, Inner, effectiveLinkMTU
    <3>2. CASE mode = "macsec" /\ conf["leaf"].jumbo
      BY <3>2 DEF effectiveLinkMTU
    <3>3. CASE mode = "macsec" /\ ~conf["leaf"].jumbo
      <4>1. l + Overhead <= EthernetMTU
        BY <2>1, <3>3, TheEnds DEF LinkInv, Roomy
      <4>2. Lower(l, macsecCapableMTU(EthernetMTU)) = l
        BY <2>2, <4>1 DEF Lower, macsecCapableMTU, Links, EthernetMTU, MinLinkMTU, Overhead
      <4> QED
        BY <3>3, <4>2 DEF effectiveLinkMTU
    <3> QED
      BY <2>2, <3>1, <3>2, <3>3 DEF Modes
  <2>4. mss = IF l \in MinLinkMTU..(EthernetMTU - 1) THEN l ELSE 0
    BY <2>3 DEF Applied, Clamp
  <2>5. ASSUME NEW a \in Links
        PROVE  LET m == IF a \in MinLinkMTU..(EthernetMTU - 1) THEN a ELSE 0 IN
               (IF m = 0 THEN EthernetMTU ELSE m) <= a
    BY DEF Links, EthernetMTU, MinLinkMTU
  <2> QED
    BY <2>2, <2>4, <2>5
<1> QED
  BY <1>1, LinkMTUInvariant, PTL
=============================================================================
