------------------------ MODULE BackhaulChangeProofs ------------------------
(***************************************************************************)
(* Proofs about BackhaulChange, for any number of leaf routers, tokens,    *)
(* concurrent requests and ports, and any number of outside events.        *)
(***************************************************************************)
EXTENDS BackhaulChange, SequenceTheorems, FiniteSetTheorems, WellFoundedInduction, TLAPS

-----------------------------------------------------------------------------
(* Lemmas about the operators of the model.                                *)

\* A set of natural numbers has a least element.
LEMMA LeastNumber ==
  ASSUME NEW S \in SUBSET Nat, S # {}
  PROVE  \E m \in S : \A n \in S : m <= n
<1> DEFINE less == {ss \in Nat \X Nat : ss[1] < ss[2]}
<1>1. IsWellFoundedOn(less, Nat)
  BY NatLessThanWellFounded DEF OpToRel
<1>2. PICK m \in S : \A n \in S : <<n, m>> \notin less
  BY <1>1, WFMin
<1>3. \A n \in S : ~(n < m)
  BY <1>2
<1> QED
  BY <1>3

LEMMA LowestIsIn ==
  ASSUME NEW S \in SUBSET Nat, S # {}
  PROVE  LowestIn(S) \in S /\ \A n \in S : LowestIn(S) <= n
  BY LeastNumber DEF LowestIn

\* How many of the positions in T come up to i.
LEMMA RankFinite ==
  ASSUME NEW n \in Nat, NEW T \in SUBSET (1..n)
  PROVE  /\ T \subseteq 1..n /\ IsFiniteSet(T) /\ Cardinality(T) \in Nat
         /\ \A i \in Nat : IsFiniteSet({j \in T : j <= i}) /\ Rank(T, i) \in Nat
<1>1. T \subseteq 1..n
  OBVIOUS
<1>0. IsFiniteSet(1..n)
  BY FS_Interval
<1>2. IsFiniteSet(T)
  BY <1>0, <1>1, FS_Subset
<1>3. \A i \in Nat : {j \in T : j <= i} \subseteq T
  OBVIOUS
<1>4. \A i \in Nat : IsFiniteSet({j \in T : j <= i})
  BY <1>2, <1>3, FS_Subset
<1> QED
  BY <1>1, <1>2, <1>4, FS_CardinalityType DEF Rank

LEMMA RankEnds ==
  ASSUME NEW n \in Nat, NEW T \in SUBSET (1..n)
  PROVE  Rank(T, 0) = 0 /\ Rank(T, n) = Cardinality(T)
<1>1. \A j \in T : ~(j <= 0) /\ j <= n
  BY RankFinite
<1>2. {j \in T : j <= 0} = {} /\ {j \in T : j <= n} = T
  BY <1>1, Zenon
<1> QED
  BY <1>2, FS_EmptySet DEF Rank

\* A position in T ranks one above the position before it.
LEMMA RankUp ==
  ASSUME NEW n \in Nat, NEW T \in SUBSET (1..n), NEW i \in Nat \ {0}
  PROVE  /\ i - 1 \in Nat /\ Rank(T, i - 1) \in Nat
         /\ Rank(T, i) = IF i \in T THEN Rank(T, i - 1) + 1 ELSE Rank(T, i - 1)
<1>1. i - 1 \in Nat /\ \A j \in T : j <= i <=> j <= i - 1 \/ j = i
  BY RankFinite
<1>2. CASE i \in T
  <2>1. {j \in T : j <= i} = {j \in T : j <= i - 1} \cup {i}
    BY <1>1, <1>2, Zenon
  <2>2. i \notin {j \in T : j <= i - 1}
    OBVIOUS
  <2>3. IsFiniteSet({j \in T : j <= i - 1}) /\ Rank(T, i - 1) \in Nat
    BY <1>1, RankFinite
  <2> QED
    BY <1>1, <1>2, <2>1, <2>2, <2>3, FS_AddElement DEF Rank
<1>3. CASE i \notin T
  <2>1. {j \in T : j <= i} = {j \in T : j <= i - 1}
    BY <1>1, <1>3, Zenon
  <2> QED
    BY <1>1, <1>3, <2>1, RankFinite DEF Rank
<1> QED
  BY <1>2, <1>3

LEMMA RankMonotone ==
  ASSUME NEW n \in Nat, NEW T \in SUBSET (1..n), NEW i \in Nat, NEW j \in Nat, i <= j
  PROVE  Rank(T, i) <= Rank(T, j)
<1>1. \A k \in T : k <= i => k <= j
  BY RankFinite
<1>2. {k \in T : k <= i} \subseteq {k \in T : k <= j}
  BY <1>1
<1> QED
  BY <1>2, RankFinite, FS_Subset DEF Rank

\* The positions in T have the ranks from 1 to their number, each one its own.
LEMMA RankOnto ==
  ASSUME NEW n \in Nat, NEW T \in SUBSET (1..n), NEW k \in 1..Cardinality(T)
  PROVE  \E i \in T : Rank(T, i) = k
<1> DEFINE high == {i \in Nat : Rank(T, i) >= k}
<1>0. Cardinality(T) \in Nat
  BY RankFinite
<1>1. n \in high /\ 0 \notin high
  BY <1>0, RankEnds
<1>2. PICK m \in high : \A i \in high : m <= i
  BY <1>1, LeastNumber
<1>3. m \in Nat \ {0} /\ m - 1 \notin high /\ Rank(T, m) >= k
  BY <1>1, <1>2
<1>4. /\ m - 1 \in Nat /\ Rank(T, m - 1) \in Nat
      /\ Rank(T, m) = IF m \in T THEN Rank(T, m - 1) + 1 ELSE Rank(T, m - 1)
  BY <1>3, RankUp
<1>5. Rank(T, m - 1) < k
  BY <1>3, <1>4
<1> QED
  BY <1>3, <1>4, <1>5

LEMMA RankDistinct ==
  ASSUME NEW n \in Nat, NEW T \in SUBSET (1..n), NEW i \in T, NEW j \in T, i < j
  PROVE  Rank(T, i) < Rank(T, j)
<1>1. i \in Nat /\ j \in Nat \ {0} /\ j - 1 \in Nat /\ i <= j - 1
  BY RankFinite
<1>2. Rank(T, i) <= Rank(T, j - 1) /\ Rank(T, i) \in Nat
  BY <1>1, RankFinite, RankMonotone
<1>3. Rank(T, j - 1) \in Nat /\ Rank(T, j) = Rank(T, j - 1) + 1
  BY <1>1, RankUp
<1> QED
  BY <1>2, <1>3

\* Keeping a part of a sequence: the elements kept, each once, in their order.
Embeds(f, part, s, T) ==
  /\ f \in [DOMAIN part -> T]
  /\ \A k \in DOMAIN part : part[k] = s[f[k]]
  /\ \A k, l \in DOMAIN part : k < l => f[k] < f[l]
  /\ \A i \in T : \E k \in DOMAIN part : f[k] = i

LEMMA KeepingWorks ==
  ASSUME NEW S, NEW s \in Seq(S), NEW T \in SUBSET DOMAIN s
  PROVE  Keeping(s, T) \in Seq(S) /\ \E f : Embeds(f, Keeping(s, T), s, T)
<1> DEFINE n == Len(s)
           r == Cardinality(T)
           f == [k \in 1..r |-> CHOOSE i \in T : Rank(T, i) = k]
<1>1. n \in Nat /\ T \in SUBSET (1..n) /\ DOMAIN s = 1..n
  BY LenProperties
<1>2. r \in Nat
  BY <1>1, RankFinite
<1>3. \A k \in 1..r : f[k] \in T /\ Rank(T, f[k]) = k
  BY <1>1, RankOnto
<1>4. Keeping(s, T) = [k \in 1..r |-> s[f[k]]]
  BY DEF Keeping
<1>5. Keeping(s, T) \in Seq(S)
  <2>1. \A k \in 1..r : s[f[k]] \in S
    BY <1>1, <1>3, ElementOfSeq
  <2>2. Keeping(s, T) \in [1..r -> S]
    BY <1>4, <2>1
  <2> QED
    BY <1>2, <2>2, SeqDef
<1>6. \A k, l \in 1..r : k < l => f[k] < f[l]
  <2> SUFFICES ASSUME NEW k \in 1..r, NEW l \in 1..r, k < l, ~(f[k] < f[l]) PROVE FALSE
    OBVIOUS
  <2>1. f[k] \in T /\ f[l] \in T /\ Rank(T, f[k]) = k /\ Rank(T, f[l]) = l
    BY <1>3
  <2>2. f[k] \in Nat /\ f[l] \in Nat /\ f[l] <= f[k]
    BY <1>1, <2>1
  <2>3. Rank(T, f[l]) <= Rank(T, f[k])
    BY <1>1, <2>2, RankMonotone
  <2> QED
    BY <2>1, <2>3
<1>7. \A i \in T : \E k \in 1..r : f[k] = i
  <2> SUFFICES ASSUME NEW i \in T PROVE \E k \in 1..r : f[k] = i
    OBVIOUS
  <2>1. i \in Nat \ {0} /\ i <= n
    BY <1>1
  <2>2. Rank(T, i - 1) \in Nat /\ Rank(T, i) = Rank(T, i - 1) + 1
    BY <1>1, <2>1, RankUp
  <2>3. Rank(T, i) <= Rank(T, n) /\ Rank(T, n) = r
    BY <1>1, <2>1, RankMonotone, RankEnds
  <2>4. Rank(T, i) \in 1..r
    BY <1>2, <2>1, <2>2, <2>3
  <2>5. f[Rank(T, i)] \in T /\ Rank(T, f[Rank(T, i)]) = Rank(T, i)
    BY <1>3, <2>4
  <2>6. f[Rank(T, i)] \in Nat
    BY <1>1, <2>5
  <2>7. ~(i < f[Rank(T, i)]) /\ ~(f[Rank(T, i)] < i)
    <3>1. i < f[Rank(T, i)] => Rank(T, i) < Rank(T, f[Rank(T, i)])
      BY <1>1, <2>5, RankDistinct
    <3>2. f[Rank(T, i)] < i => Rank(T, f[Rank(T, i)]) < Rank(T, i)
      BY <1>1, <2>5, RankDistinct
    <3> QED
      BY <2>4, <2>5, <3>1, <3>2
  <2> QED
    BY <2>1, <2>4, <2>6, <2>7
<1>8. f \in [1..r -> T] /\ DOMAIN Keeping(s, T) = 1..r
  BY <1>3, <1>4
<1> HIDE DEF f
<1> QED
  BY <1>3, <1>4, <1>5, <1>6, <1>7, <1>8 DEF Embeds

\* findLeafByIP finds the first entry with an address.
LEMMA FindWorks ==
  ASSUME NEW S, leaves \in Seq(S), NEW ip
  PROVE  /\ Find(ip) \in Nat
         /\ Find(ip) = 0 => \A i \in DOMAIN leaves : leaves[i].ip # ip
         /\ Find(ip) # 0 => /\ Find(ip) \in DOMAIN leaves /\ leaves[Find(ip)].ip = ip
                            /\ \A i \in DOMAIN leaves : leaves[i].ip = ip => Find(ip) <= i
<1> DEFINE hits == {i \in DOMAIN leaves : leaves[i].ip = ip}
<1>1. DOMAIN leaves \subseteq Nat \ {0}
  BY LenProperties
<1>2. hits \in SUBSET Nat /\ 0 \notin hits
  BY <1>1
<1>3. CASE hits = {}
  BY <1>3 DEF Find
<1>4. CASE hits # {}
  <2>1. LowestIn(hits) \in hits /\ \A n \in hits : LowestIn(hits) <= n
    BY <1>2, <1>4, LowestIsIn
  <2>2. Find(ip) = LowestIn(hits)
    BY <1>4 DEF Find
  <2> QED
    BY <1>2, <2>1, <2>2
<1> QED
  BY <1>3, <1>4

\* The leaf of a job, looked for again, is the first entry at its address.
LEMMA FindAgainWorks ==
  ASSUME NEW S, leaves \in Seq(S), NEW leaf, FindAgain(leaf) # 0
  PROVE  /\ FindAgain(leaf) = Find(leaf.ip) /\ FindAgain(leaf) \in DOMAIN leaves
         /\ leaves[FindAgain(leaf)].ip = leaf.ip /\ leaves[FindAgain(leaf)].token = leaf.token
<1>1. FindAgain(leaf) = Find(leaf.ip) /\ leaves[Find(leaf.ip)].token = leaf.token
  BY DEF FindAgain
<1> QED
  BY <1>1, FindWorks

-----------------------------------------------------------------------------
(* Types and the lock.                                                     *)

AssocSet ==
  [nonce : Nat, mode : Modes, port : {0} \cup FirstPort..LastPort, jumbo : BOOLEAN,
   mtu : {0} \cup MTUs, from : Tokens \cup {None}]

EntrySet == [ip : IPs, token : Tokens, pending : BOOLEAN, mac : AssocSet]

NodeSet == [nonce : Nat, confirmed : BOOLEAN, jumbo : BOOLEAN, mtu : {0} \cup MTUs]

Stages == {"enable", "disable", "save", "tune", "tuned", "release", "remove"}

JobSet == [at : Stages, leaf : EntrySet, next : AssocSet]

\* An association made of at most n nonces, with a port as soon as there is one.
Proper(mac, n) == mac.nonce <= n /\ (mac.port # 0 <=> mac.nonce # 0)

LeavesInv == leaves \in Seq(EntrySet) /\ \A i \in DOMAIN leaves : Proper(leaves[i].mac, nonces)

\* Only a leaf that has answered can have the newest nonce.
JobInv(w) ==
  /\ job[w] \in {Idle} \cup JobSet
  /\ lock = w <=> job[w].at \notin {"idle", "remove"}
  /\ job[w].at # "idle" =>
       /\ Proper(job[w].leaf.mac, nonces)
       /\ Proper(job[w].next, nonces + 1)
       /\ job[w].at \in {"disable", "save", "tuned"} => job[w].next.nonce <= nonces

JobsInv == job \in [Workers -> {Idle} \cup JobSet] /\ \A w \in Workers : JobInv(w)

QueueInv == queue \in Seq(EntrySet) /\ \A i \in DOMAIN queue : queue[i].mac.nonce <= nonces

NodeInv == node \in [IPs -> NodeSet] /\ \A ip \in IPs : node[ip].nonce <= nonces

RestInv ==
  /\ lock \in Workers \cup {None} /\ paired \in [IPs -> Tokens] /\ nonces \in Nat
  /\ left \in [Events -> Nat] /\ \A e \in Events : left[e] <= Budget[e]

TypeInv == LeavesInv /\ JobsInv /\ QueueInv /\ NodeInv /\ RestInv

LEMMA TypeInvImplies == TypeInv => TypeOK
<1> SUFFICES ASSUME TypeInv PROVE TypeOK
  OBVIOUS
<1> USE DEF TypeInv
<1>1. \A mac \in AssocSet : mac.nonce <= nonces + 1 => mac \in Assocs
  BY DEF RestInv, AssocSet, Assocs
<1>2. \A e \in EntrySet : e.mac.nonce <= nonces => e \in Entries
  <2>1. \A e \in EntrySet : e.mac \in AssocSet /\ (e.mac.nonce <= nonces => e.mac.nonce <= nonces + 1)
    BY DEF EntrySet, AssocSet, RestInv
  <2> QED
    BY <1>1, <2>1 DEF EntrySet, Entries
<1>3. \A i \in DOMAIN leaves :
        leaves[i] \in Entries /\ leaves[i].mac.nonce <= nonces /\ (leaves[i].mac.port # 0 <=> leaves[i].mac.nonce # 0)
  BY <1>2, ElementOfSeq DEF LeavesInv, Proper
<1>4. ASSUME NEW w \in Workers
      PROVE  /\ job[w].at \in {"idle", "enable", "disable", "save", "tune", "tuned", "release", "remove"}
             /\ job[w].at \notin {"idle", "remove"} <=> lock = w
             /\ job[w].at # "idle" => job[w].leaf \in Entries /\ job[w].next \in Assocs
  <2>1. JobInv(w)
    BY DEF JobsInv
  <2>2. job[w].at \in Stages \cup {"idle"} /\ (job[w].at # "idle" => job[w] \in JobSet)
    BY <2>1 DEF JobInv, JobSet, Idle
  <2>3. job[w].at # "idle" => job[w].leaf \in EntrySet /\ job[w].next \in AssocSet
    BY <2>2 DEF JobSet
  <2> QED
    BY <1>1, <1>2, <2>1, <2>2, <2>3 DEF JobInv, Proper, Stages
<1>5. \A i \in DOMAIN queue : queue[i] \in Entries
  BY <1>2, ElementOfSeq DEF QueueInv
<1>6. node \in [IPs -> [nonce : 0..nonces, confirmed : BOOLEAN, jumbo : BOOLEAN, mtu : {0} \cup MTUs]]
  BY DEF NodeInv, NodeSet, RestInv
<1> QED
  BY <1>3, <1>4, <1>5, <1>6 DEF TypeOK, RestInv

-----------------------------------------------------------------------------
(* What the list operations keep.                                          *)

\* The list without the entries of an address and token: the others, in order.
LEMMA WithoutWorks ==
  ASSUME leaves \in Seq(EntrySet), NEW ip, NEW token
  PROVE  /\ Without(ip, token) \in Seq(EntrySet)
         /\ \E f : Embeds(f, Without(ip, token), leaves, DOMAIN leaves \ Matches(ip, token))
<1> DEFINE T == DOMAIN leaves \ Matches(ip, token)
<1>1. T \in SUBSET DOMAIN leaves
  OBVIOUS
<1> HIDE DEF T
<1>2. Keeping(leaves, T) \in Seq(EntrySet) /\ \E f : Embeds(f, Keeping(leaves, T), leaves, T)
  BY <1>1, KeepingWorks
<1> QED
  BY <1>2 DEF Without, T

\* Every entry of the list after a change that keeps entries or adds them comes
\* from one with the same key and association, or has no association yet.
Comes(new) ==
  \A k \in DOMAIN new :
    \/ \E i \in DOMAIN leaves : /\ new[k].ip = leaves[i].ip /\ new[k].token = leaves[i].token
                                /\ new[k].mac = leaves[i].mac
    \/ new[k].mac = NoAssoc

LEMMA WithoutComes ==
  ASSUME leaves \in Seq(EntrySet), NEW ip, NEW token
  PROVE  Comes(Without(ip, token))
<1>1. PICK f : Embeds(f, Without(ip, token), leaves, DOMAIN leaves \ Matches(ip, token))
  BY WithoutWorks
<1>2. \A k \in DOMAIN Without(ip, token) : f[k] \in DOMAIN leaves /\ Without(ip, token)[k] = leaves[f[k]]
  BY <1>1 DEF Embeds
<1> QED
  BY <1>2 DEF Comes

\* PUT: the others stay, and the entry is the last one.
LEMMA PutWorks ==
  ASSUME leaves \in Seq(EntrySet), NEW ip \in IPs, NEW token \in Tokens, NEW pending \in BOOLEAN,
         Put(ip, token, pending), NoAssoc \in AssocSet
  PROVE  LET W == Without(ip, token)
             e == leaves'[Len(W) + 1]
         IN  /\ paired[ip] = token
             /\ W \in Seq(EntrySet) /\ leaves' \in Seq(EntrySet) /\ DOMAIN leaves' = 1..(Len(W) + 1)
             /\ \A k \in DOMAIN W : leaves'[k] = W[k]
             /\ e.ip = ip /\ e.token = token
             /\ \/ Matches(ip, token) = {} /\ e.mac = NoAssoc
                \/ \E i \in Matches(ip, token) : e.mac = leaves[i].mac
             /\ Comes(leaves')
<1> DEFINE W == Without(ip, token)
           m == Matches(ip, token)
           mac == IF m = {} THEN NoAssoc ELSE leaves[CHOOSE i \in m : TRUE].mac
           e == Entry(ip, token, pending /\ mac.nonce = 0, mac)
<1>1. paired[ip] = token /\ leaves' = Append(W, e)
  BY DEF Put, ChainTrust
<1>2. W \in Seq(EntrySet)
  BY WithoutWorks
<1>3. m \subseteq DOMAIN leaves /\ \A i \in m : leaves[i].ip = ip /\ leaves[i].token = token
  BY DEF Matches
<1>4. (m = {} /\ mac = NoAssoc) \/ \E i \in m : mac = leaves[i].mac
  OBVIOUS
<1>5. mac \in AssocSet
  <2>0. \A i \in DOMAIN leaves : leaves[i] \in EntrySet
    BY ElementOfSeq
  <2>1. \A i \in m : leaves[i].mac \in AssocSet
    BY <1>3, <2>0 DEF EntrySet
  <2> QED
    BY <1>4, <2>1
<1> HIDE DEF W, m, mac
<1>6. e \in EntrySet /\ e.ip = ip /\ e.token = token /\ e.mac = mac
  BY <1>5 DEF EntrySet, Entry
<1> HIDE DEF e
<1>7. /\ leaves' \in Seq(EntrySet) /\ DOMAIN leaves' = 1..(Len(W) + 1) /\ leaves'[Len(W) + 1] = e
      /\ \A k \in DOMAIN W : leaves'[k] = W[k]
  BY <1>1, <1>2, <1>6, AppendProperties, LenProperties
<1>8. Comes(leaves')
  <2>1. Comes(W)
    BY WithoutComes DEF W
  <2>2. SUFFICES ASSUME NEW k \in DOMAIN leaves'
                 PROVE  \/ \E i \in DOMAIN leaves : /\ leaves'[k].ip = leaves[i].ip
                                                    /\ leaves'[k].token = leaves[i].token
                                                    /\ leaves'[k].mac = leaves[i].mac
                        \/ leaves'[k].mac = NoAssoc
    BY DEF Comes
  <2>3. k \in DOMAIN W \/ leaves'[k] = e
    BY <1>2, <1>7, LenProperties
  <2>4. CASE k \in DOMAIN W
    BY <1>7, <2>1, <2>4 DEF Comes
  <2>5. CASE leaves'[k] = e
    BY <1>3, <1>4, <1>6, <2>5
  <2> QED
    BY <2>3, <2>4, <2>5
<1> QED
  BY <1>1, <1>2, <1>4, <1>6, <1>7, <1>8 DEF W, m

-----------------------------------------------------------------------------
(* Types are kept.                                                         *)

LEMMA NoAssocTyped == NoAssoc \in AssocSet /\ NoAssoc.nonce = 0 /\ NoAssoc.port = 0
  BY DEF NoAssoc, Assoc, AssocSet, Modes

\* The leaf of a list is typed.
LEMMA LeafTyped ==
  ASSUME LeavesInv, NEW i \in DOMAIN leaves
  PROVE  leaves[i] \in EntrySet /\ leaves[i].mac \in AssocSet /\ Proper(leaves[i].mac, nonces)
<1>1. leaves[i] \in EntrySet
  BY ElementOfSeq DEF LeavesInv
<1> QED
  BY <1>1 DEF LeavesInv, EntrySet

\* What macsecSetLeaf is about to send: a port of its own, and the nonce of the
\* association it renews or a fresh one.
LEMMA NextAssocTyped ==
  ASSUME LeavesInv, RestInv, NEW i \in DOMAIN leaves, NEW mode \in Modes, HasPort(leaves[i], mode)
  PROVE  LET leaf == leaves[i]
             next == NextAssoc(leaf, mode)
         IN  /\ next \in AssocSet /\ Proper(next, nonces + 1) /\ next.nonce # 0 /\ next.from = leaf.token
             /\ leaf.mac.port # 0 => next.port = leaf.mac.port
<1> DEFINE leaf == leaves[i]
           next == NextAssoc(leaf, mode)
<1>1. leaf \in EntrySet /\ leaf.mac \in AssocSet /\ Proper(leaf.mac, nonces)
  BY LeafTyped
<1>2. PortFor(leaf) \in FirstPort..LastPort /\ PortFor(leaf) # 0
      /\ (leaf.mac.port # 0 => PortFor(leaf) = leaf.mac.port)
  <2>1. CASE leaf.mac.port # 0
    BY <1>1, <2>1 DEF PortFor, AssocSet
  <2>2. CASE leaf.mac.port = 0
    <3>1. FreePorts # {} /\ FreePorts \in SUBSET Nat
      BY <2>2, PortAssumption DEF HasPort, FreePorts
    <3>2. LowestIn(FreePorts) \in FreePorts
      BY <3>1, LowestIsIn
    <3> QED
      BY <2>2, <3>2, PortAssumption DEF PortFor, FreePorts
  <2> QED
    BY <2>1, <2>2
<1>3. /\ next.nonce \in Nat \ {0} /\ next.nonce <= nonces + 1 /\ next.mode = mode
      /\ next.port = PortFor(leaf) /\ next.jumbo = leaf.mac.jumbo /\ next.mtu \in {0} \cup MTUs
      /\ next.from = leaf.token
  BY <1>1 DEF NextAssoc, Assoc, AssocSet, Proper, RestInv
<1>4. next \in AssocSet
  <2>1. leaf.mac.jumbo \in BOOLEAN /\ leaf.token \in Tokens
    BY <1>1 DEF EntrySet, AssocSet
  <2>2. next = [nonce |-> next.nonce, mode |-> next.mode, port |-> next.port, jumbo |-> next.jumbo,
                mtu |-> next.mtu, from |-> next.from]
    BY DEF NextAssoc, Assoc
  <2> QED
    BY <1>2, <1>3, <2>1, <2>2 DEF AssocSet
<1> QED
  BY <1>2, <1>3, <1>4 DEF Proper

\* A list that keeps entries stays well-formed.
LEMMA ComesTyped ==
  ASSUME LeavesInv, RestInv, leaves' \in Seq(EntrySet), Comes(leaves'), nonces' = nonces
  PROVE  LeavesInv'
<1>1. ASSUME NEW k \in DOMAIN leaves' PROVE Proper(leaves'[k].mac, nonces)
  BY LeafTyped, NoAssocTyped DEF Comes, Proper, RestInv
<1> QED
  BY <1>1 DEF LeavesInv

\* Fewer nonces never are.
LEMMA MoreNonces ==
  ASSUME LeavesInv, QueueInv, RestInv, nonces' \in Nat, nonces <= nonces', UNCHANGED <<leaves, queue>>
  PROVE  LeavesInv' /\ QueueInv'
<1>1. \A i \in DOMAIN leaves : leaves[i].mac.nonce \in Nat /\ leaves[i].mac.nonce <= nonces
  BY LeafTyped DEF AssocSet, Proper
<1>2. \A i \in DOMAIN queue : queue[i].mac.nonce \in Nat /\ queue[i].mac.nonce <= nonces
  <2>1. \A i \in DOMAIN queue : queue[i] \in EntrySet
    BY ElementOfSeq DEF QueueInv
  <2> QED
    BY <2>1 DEF QueueInv, EntrySet, AssocSet
<1>3. \A i \in DOMAIN leaves : leaves[i].mac.nonce <= nonces'
  BY <1>1 DEF RestInv
<1>4. \A i \in DOMAIN queue : queue[i].mac.nonce <= nonces'
  BY <1>2 DEF RestInv
<1> QED
  BY <1>3, <1>4 DEF LeavesInv, QueueInv, Proper

\* A job of the worker that starts it, goes on with it or ends it.
LEMMA JobsChange ==
  ASSUME JobsInv, RestInv, NEW w \in Workers, NEW new \in {Idle} \cup JobSet, job' = [job EXCEPT ![w] = new],
         nonces' \in Nat, nonces <= nonces',
         new.at # "idle" => /\ Proper(new.leaf.mac, nonces') /\ Proper(new.next, nonces' + 1)
                            /\ new.at \in {"disable", "save", "tuned"} => new.next.nonce <= nonces',
         lock' = w <=> new.at \notin {"idle", "remove"},
         \A v \in Workers \ {w} : lock' = v <=> lock = v
  PROVE  JobsInv'
<1>1. job' \in [Workers -> {Idle} \cup JobSet] /\ job'[w] = new /\ \A v \in Workers \ {w} : job'[v] = job[v]
  BY DEF JobsInv
<1>2. JobInv(w)'
  BY <1>1 DEF JobInv
<1>3. ASSUME NEW v \in Workers \ {w} PROVE JobInv(v)'
  <2>1. JobInv(v) /\ job'[v] = job[v]
    BY <1>1 DEF JobsInv
  <2>2. CASE job[v].at = "idle"
    BY <1>1, <2>1, <2>2 DEF JobInv
  <2>3. CASE job[v].at # "idle"
    <3>1. job[v] \in JobSet
      BY <2>1, <2>3 DEF JobInv, Idle
    <3>2. job[v].leaf.mac.nonce \in Nat /\ job[v].next.nonce \in Nat
      BY <3>1 DEF JobSet, EntrySet, AssocSet
    <3>3. Proper(job[v].leaf.mac, nonces') /\ Proper(job[v].next, nonces' + 1)
      BY <2>1, <2>3, <3>2 DEF JobInv, Proper, RestInv
    <3>4. job[v].at \in {"disable", "save", "tuned"} => job[v].next.nonce <= nonces'
      BY <2>1, <2>3, <3>2 DEF JobInv, RestInv
    <3> QED
      BY <1>1, <2>1, <2>3, <3>3, <3>4 DEF JobInv
  <2> QED
    BY <2>2, <2>3
<1> QED
  BY <1>1, <1>2, <1>3 DEF JobsInv

\* Every step uses up what it spends of the bounds.
LEMMA SpendTyped ==
  ASSUME RestInv, NEW e \in Events, Spend(e)
  PROVE  left' \in [Events -> Nat] /\ (\A d \in Events : left'[d] <= Budget[d]) /\ left'[e] # Budget[e]
<1>1. left \in [Events -> Nat] /\ left[e] > 0 /\ left' = [left EXCEPT ![e] = @ - 1]
  BY DEF RestInv, Spend
<1>2. left'[e] = left[e] - 1 /\ left' \in [Events -> Nat]
  BY <1>1
<1>3. \A d \in Events \ {e} : left'[d] = left[d]
  BY <1>1
<1> QED
  BY <1>1, <1>2, <1>3, ChangeBudgetAssumption DEF RestInv

\* A leaf that accepts, releases or does not answer.
LEMMA NodeChange ==
  ASSUME NodeInv, RestInv, NEW ip \in IPs, NEW token, NEW mac \in AssocSet, mac.nonce <= nonces + 1,
         Accepts(ip, token, mac) \/ Releases(ip, token) \/ Unanswered
  PROVE  /\ NodeInv' /\ nonces' \in Nat /\ nonces <= nonces'
         /\ Accepts(ip, token, mac) => mac.nonce <= nonces'
<1>1. nonces \in Nat /\ mac.nonce \in Nat /\ Off \in NodeSet
  BY DEF RestInv, AssocSet, NodeSet, Off
<1>2. CASE Unanswered
  BY <1>1, <1>2 DEF Unanswered, Accepts, NodeInv
<1>3. CASE Releases(ip, token)
  <2>1. node' = [node EXCEPT ![ip] = Off] /\ nonces' = nonces /\ Off.nonce = 0
    BY <1>3 DEF Releases, Off
  <2> QED
    BY <1>1, <2>1 DEF Accepts, NodeInv
<1>4. CASE Accepts(ip, token, mac)
  <2> DEFINE new == [nonce |-> mac.nonce,
                     confirmed |-> node[ip].confirmed /\ node[ip].nonce = mac.nonce,
                     jumbo |-> mac.jumbo, mtu |-> IF mac.mode = "wireguard" THEN mac.mtu ELSE 0]
  <2>1. node' = [node EXCEPT ![ip] = new] /\ nonces' = IF mac.nonce > nonces THEN mac.nonce ELSE nonces
    BY <1>4 DEF Accepts
  <2>2. new \in NodeSet /\ new.nonce = mac.nonce
    BY <1>1 DEF AssocSet, NodeSet
  <2> HIDE DEF new
  <2>3. nonces' \in Nat /\ nonces <= nonces' /\ mac.nonce <= nonces'
    BY <1>1, <2>1
  <2>4. node' \in [IPs -> NodeSet] /\ node'[ip] = new /\ \A a \in IPs \ {ip} : node'[a] = node[a]
    BY <2>1, <2>2 DEF NodeInv
  <2>5. \A a \in IPs : node[a].nonce \in Nat
    BY DEF NodeInv, NodeSet
  <2> QED
    BY <1>1, <2>2, <2>3, <2>4, <2>5 DEF NodeInv
<1> QED
  BY <1>2, <1>3, <1>4

\* The lock goes to a new job and comes back with its end.
LEMMA SetBeginTyped ==
  ASSUME LeavesInv, JobsInv, RestInv, NEW w \in Workers, NEW ip \in IPs, NEW enable \in BOOLEAN, NEW mode \in Modes,
         SetBegin(w, ip, enable, mode)
  PROVE  /\ JobsInv' /\ lock' = w /\ lock = None /\ job[w] = Idle /\ UNCHANGED <<leaves, node, paired, nonces>>
         /\ Find(ip) \in DOMAIN leaves /\ Find(ip) # 0 /\ job'[w] \in JobSet /\ job'[w].leaf = leaves[Find(ip)]
         /\ (enable => HasPort(leaves[Find(ip)], mode))
         /\ job'[w].next = IF enable THEN NextAssoc(leaves[Find(ip)], mode) ELSE NoAssoc
         /\ job'[w].at = IF enable THEN "enable" ELSE IF leaves[Find(ip)].mac.nonce # 0 THEN "disable" ELSE "save"
         /\ \A v \in Workers \ {w} : job'[v] = job[v]
<1> DEFINE leaf == leaves[Find(ip)]
           next == IF enable THEN NextAssoc(leaf, mode) ELSE NoAssoc
           stage == IF enable THEN "enable" ELSE IF leaf.mac.nonce # 0 THEN "disable" ELSE "save"
           new == [at |-> stage, leaf |-> leaf, next |-> next]
<1>1. /\ lock = None /\ job[w] = Idle /\ Find(ip) # 0 /\ (enable => HasPort(leaf, mode)) /\ lock' = w
      /\ job' = [job EXCEPT ![w] = new] /\ UNCHANGED <<leaves, node, paired, nonces>>
  BY DEF SetBegin
<1>2. Find(ip) \in DOMAIN leaves
  BY <1>1, FindWorks DEF LeavesInv
<1>3. leaf \in EntrySet /\ leaf.mac \in AssocSet /\ Proper(leaf.mac, nonces)
  BY <1>2, LeafTyped
<1>4. next \in AssocSet /\ Proper(next, nonces + 1) /\ (~enable => next.nonce <= nonces)
  <2>1. CASE enable
    BY <1>1, <1>2, <2>1, NextAssocTyped
  <2>2. CASE ~enable
    BY <2>2, NoAssocTyped DEF Proper, RestInv
  <2> QED
    BY <2>1, <2>2
<1>5. stage \in Stages /\ stage \notin {"idle", "remove", "tune", "tuned"} /\ (stage \in {"disable", "save"} => ~enable)
  BY DEF Stages
<1> HIDE DEF next, leaf, stage
<1>6. new \in JobSet /\ new.leaf = leaf /\ new.next = next /\ new.at = stage
  BY <1>3, <1>4, <1>5 DEF JobSet
<1> HIDE DEF new
<1>7. None \notin Workers
  BY WorkerAssumption
<1>8. JobsInv'
  <2>1. nonces' \in Nat /\ nonces <= nonces' /\ nonces' = nonces
    BY <1>1 DEF RestInv
  <2>2. new.at # "idle" => /\ Proper(new.leaf.mac, nonces') /\ Proper(new.next, nonces' + 1)
                           /\ new.at \in {"disable", "save", "tuned"} => new.next.nonce <= nonces'
    BY <1>3, <1>4, <1>5, <1>6, <2>1
  <2>3. (lock' = w <=> new.at \notin {"idle", "remove"}) /\ \A v \in Workers \ {w} : lock' = v <=> lock = v
    BY <1>1, <1>5, <1>6, <1>7
  <2> QED
    BY <1>1, <1>6, <2>1, <2>2, <2>3, JobsChange
<1>9. job'[w] = new /\ \A v \in Workers \ {w} : job'[v] = job[v]
  BY <1>1 DEF JobsInv
<1> QED
  BY <1>1, <1>2, <1>6, <1>8, <1>9 DEF next, leaf, stage

LEMMA JobTyped ==
  ASSUME JobsInv, NEW w \in Workers, job[w].at # "idle"
  PROVE  /\ job[w] \in JobSet /\ job[w].at \in Stages /\ job[w].leaf \in EntrySet /\ job[w].next \in AssocSet
         /\ job[w].leaf.ip \in IPs /\ job[w].leaf.token \in Tokens /\ job[w].leaf.mac \in AssocSet
         /\ Proper(job[w].leaf.mac, nonces) /\ Proper(job[w].next, nonces + 1)
         /\ job[w].at \in {"disable", "save", "tuned"} => job[w].next.nonce <= nonces
         /\ lock = w <=> job[w].at # "remove"
<1>1. JobInv(w)
  BY DEF JobsInv
<1>2. job[w] \in JobSet
  BY <1>1 DEF JobInv, Idle
<1> QED
  BY <1>1, <1>2 DEF JobInv, JobSet, EntrySet

\* A job that goes on to a stage of its own, with or without the lock.
LEMMA GoesOn ==
  ASSUME JobsInv, RestInv, NEW w \in Workers, job[w].at # "idle", NEW stage \in Stages,
         job' = [job EXCEPT ![w].at = stage], nonces' \in Nat, nonces <= nonces',
         stage \in {"disable", "save", "tuned"} => job[w].next.nonce <= nonces',
         lock' = w <=> stage # "remove",
         \A v \in Workers \ {w} : lock' = v <=> lock = v
  PROVE  /\ JobsInv' /\ job'[w].at = stage /\ job'[w].leaf = job[w].leaf /\ job'[w].next = job[w].next
         /\ \A v \in Workers \ {w} : job'[v] = job[v]
<1> DEFINE new == [job[w] EXCEPT !.at = stage]
<1>1. job[w] \in JobSet /\ Proper(job[w].leaf.mac, nonces) /\ Proper(job[w].next, nonces + 1)
      /\ job[w].next \in AssocSet /\ job[w].leaf.mac \in AssocSet
  BY JobTyped
<1>2. new \in JobSet /\ new.at = stage /\ new.leaf = job[w].leaf /\ new.next = job[w].next
  BY <1>1 DEF JobSet
<1>3. job' = [job EXCEPT ![w] = new]
  OBVIOUS
<1> HIDE DEF new
<1>4. Proper(new.leaf.mac, nonces') /\ Proper(new.next, nonces' + 1)
  <2>1. job[w].next.nonce \in Nat /\ job[w].leaf.mac.nonce \in Nat
    BY <1>1 DEF AssocSet
  <2> QED
    BY <1>1, <1>2, <2>1 DEF Proper, RestInv
<1>5. JobsInv'
  <2>1. new.at # "idle" => /\ Proper(new.leaf.mac, nonces') /\ Proper(new.next, nonces' + 1)
                           /\ new.at \in {"disable", "save", "tuned"} => new.next.nonce <= nonces'
    BY <1>2, <1>4
  <2>2. lock' = w <=> new.at \notin {"idle", "remove"}
    BY <1>2 DEF Stages
  <2> QED
    BY <1>2, <1>3, <2>1, <2>2, JobsChange
<1>6. job'[w] = new /\ \A v \in Workers \ {w} : job'[v] = job[v]
  BY <1>3 DEF JobsInv
<1> QED
  BY <1>2, <1>5, <1>6

\* A job that ends.
LEMMA Ends ==
  ASSUME JobsInv, RestInv, NEW w \in Workers, job' = [job EXCEPT ![w] = Idle],
         nonces' \in Nat, nonces <= nonces', lock' # w,
         \A v \in Workers \ {w} : lock' = v <=> lock = v
  PROVE  JobsInv' /\ job'[w] = Idle /\ \A v \in Workers \ {w} : job'[v] = job[v]
<1>1. Idle.at = "idle" /\ Idle \in {Idle} \cup JobSet
  BY DEF Idle
<1>2. JobsInv'
  BY <1>1, JobsChange, Zenon
<1> QED
  BY <1>2 DEF JobsInv

\* Finish gives the lock back, GoOn keeps it.
LEMMA FinishTyped ==
  ASSUME JobsInv, RestInv, NEW w \in Workers, job[w].at # "idle", job[w].at # "remove", Finish(w),
         nonces' \in Nat, nonces <= nonces'
  PROVE  JobsInv' /\ lock = w /\ lock' = None /\ job'[w] = Idle /\ \A v \in Workers \ {w} : job'[v] = job[v]
<1>1. lock = w /\ lock' = None /\ job' = [job EXCEPT ![w] = Idle] /\ None \notin Workers
  BY JobTyped, WorkerAssumption DEF Finish
<1>2. lock' # w /\ \A v \in Workers \ {w} : lock' = v <=> lock = v
  BY <1>1
<1> QED
  BY <1>1, <1>2, Ends

LEMMA GoOnTyped ==
  ASSUME JobsInv, RestInv, NEW w \in Workers, job[w].at # "idle", job[w].at # "remove",
         NEW stage \in Stages, stage # "remove", GoOn(w, stage), nonces' \in Nat, nonces <= nonces',
         stage \in {"disable", "save", "tuned"} => job[w].next.nonce <= nonces'
  PROVE  /\ JobsInv' /\ lock = w /\ lock' = w
         /\ job'[w].at = stage /\ job'[w].leaf = job[w].leaf /\ job'[w].next = job[w].next
         /\ \A v \in Workers \ {w} : job'[v] = job[v]
<1>1. lock = w /\ lock' = w /\ job' = [job EXCEPT ![w].at = stage]
  BY JobTyped DEF GoOn
<1> QED
  BY <1>1, GoesOn

\* A call: what it can do to the leaf and to the job (EnableCall, TuneCall).
LEMMA CallTyped ==
  ASSUME TypeInv, NEW w \in Workers, EnableCall(w) \/ TuneCall(w)
  PROVE  /\ TypeInv' /\ lock = w /\ UNCHANGED <<leaves, queue, paired>>
         /\ \A v \in Workers \ {w} : job'[v] = job[v]
         /\ \/ /\ Accepts(job[w].leaf.ip, job[w].leaf.token, job[w].next) /\ UNCHANGED left
               /\ lock' = w /\ job'[w].at = IF job[w].at = "enable" THEN "save" ELSE "tuned"
               /\ job'[w].leaf = job[w].leaf /\ job'[w].next = job[w].next
            \/ /\ ~Authentic(job[w].leaf.ip, job[w].leaf.token) /\ Unanswered /\ UNCHANGED left
               /\ lock' = None /\ job'[w] = Idle
            \/ Spend("lost") /\ lock' = None /\ job'[w] = Idle
<1> DEFINE leaf == job[w].leaf
           next == job[w].next
           stage == IF job[w].at = "enable" THEN "save" ELSE "tuned"
<1> USE DEF TypeInv
<1>1. /\ job[w].at \in {"enable", "tune"} /\ UNCHANGED <<leaves, queue, paired>>
      /\ \/ Accepts(leaf.ip, leaf.token, next) /\ GoOn(w, stage) /\ UNCHANGED left
         \/ ~Authentic(leaf.ip, leaf.token) /\ Unanswered /\ Finish(w) /\ UNCHANGED left
         \/ Spend("lost") /\ (Unanswered \/ Accepts(leaf.ip, leaf.token, next)) /\ Finish(w)
  BY DEF EnableCall, TuneCall
<1>2. leaf.ip \in IPs /\ next \in AssocSet /\ Proper(next, nonces + 1) /\ lock = w
  BY <1>1, JobTyped
<1>3. NodeInv' /\ nonces' \in Nat /\ nonces <= nonces' /\ (Accepts(leaf.ip, leaf.token, next) => next.nonce <= nonces')
  BY <1>1, <1>2, NodeChange DEF Proper
<1>4. LeavesInv' /\ QueueInv'
  BY <1>1, <1>3, MoreNonces
<1>5. CASE Accepts(leaf.ip, leaf.token, next) /\ GoOn(w, stage) /\ UNCHANGED left
  <2>1. /\ JobsInv' /\ lock' = w /\ job'[w].at = stage /\ job'[w].leaf = leaf /\ job'[w].next = next
        /\ \A v \in Workers \ {w} : job'[v] = job[v]
    BY <1>1, <1>3, <1>5, GoOnTyped DEF Stages
  <2>2. RestInv'
    BY <1>1, <1>3, <1>5, <2>1 DEF RestInv
  <2> QED
    BY <1>1, <1>2, <1>3, <1>4, <1>5, <2>1, <2>2
<1>6. CASE ~Authentic(leaf.ip, leaf.token) /\ Unanswered /\ Finish(w) /\ UNCHANGED left
  <2>1. JobsInv' /\ lock' = None /\ job'[w] = Idle /\ \A v \in Workers \ {w} : job'[v] = job[v]
    BY <1>1, <1>3, <1>6, FinishTyped
  <2>2. RestInv'
    BY <1>1, <1>3, <1>6, <2>1 DEF RestInv
  <2> QED
    BY <1>1, <1>2, <1>3, <1>4, <1>6, <2>1, <2>2
<1>7. CASE Spend("lost") /\ (Unanswered \/ Accepts(leaf.ip, leaf.token, next)) /\ Finish(w)
  <2>1. JobsInv' /\ lock' = None /\ job'[w] = Idle /\ \A v \in Workers \ {w} : job'[v] = job[v]
    BY <1>1, <1>3, <1>7, FinishTyped
  <2>2. RestInv'
    BY <1>1, <1>3, <1>7, <2>1, SpendTyped DEF RestInv, Events
  <2> QED
    BY <1>1, <1>2, <1>3, <1>4, <1>7, <2>1, <2>2
<1> QED
  BY <1>1, <1>5, <1>6, <1>7

\* A release: what it can do to the leaf and to the job (DisableCall, DeleteRelease).
LEMMA ReleaseTyped ==
  ASSUME TypeInv, NEW w \in Workers, DisableCall(w) \/ DeleteRelease(w)
  PROVE  /\ TypeInv' /\ lock = w /\ UNCHANGED <<leaves, queue, paired>>
         /\ \A v \in Workers \ {w} : job'[v] = job[v]
         /\ job'[w].at = IF job[w].at = "disable" THEN "save" ELSE "remove"
         /\ job'[w].leaf = job[w].leaf /\ job'[w].next = job[w].next
         /\ \/ Releases(job[w].leaf.ip, job[w].leaf.token) /\ UNCHANGED left
            \/ ~Authentic(job[w].leaf.ip, job[w].leaf.token) /\ Unanswered /\ UNCHANGED left
            \/ Spend("lost") /\ (Unanswered \/ Releases(job[w].leaf.ip, job[w].leaf.token))
<1> DEFINE leaf == job[w].leaf
           next == job[w].next
           stage == IF job[w].at = "disable" THEN "save" ELSE "remove"
<1> USE DEF TypeInv
<1>1. /\ job[w].at \in {"disable", "release"} /\ UNCHANGED <<leaves, queue, paired>>
      /\ \/ Releases(leaf.ip, leaf.token) /\ UNCHANGED left
         \/ ~Authentic(leaf.ip, leaf.token) /\ Unanswered /\ UNCHANGED left
         \/ Spend("lost") /\ (Unanswered \/ Releases(leaf.ip, leaf.token))
      /\ job' = [job EXCEPT ![w].at = stage] /\ lock' = IF job[w].at = "disable" THEN lock ELSE None
  BY DEF DisableCall, DeleteRelease, GoOn
<1>2. leaf.ip \in IPs /\ next \in AssocSet /\ Proper(next, nonces + 1) /\ lock = w
  BY <1>1, JobTyped
<1>3. NodeInv' /\ nonces' = nonces /\ nonces \in Nat
  <2>1. NoAssoc \in AssocSet /\ NoAssoc.nonce <= nonces + 1
    BY NoAssocTyped DEF RestInv
  <2>2. NodeInv'
    BY <1>1, <1>2, <2>1, NodeChange
  <2> QED
    BY <1>1, <2>2 DEF Releases, Unanswered, RestInv
<1>4. LeavesInv' /\ QueueInv'
  BY <1>1, <1>3, MoreNonces
<1>5. /\ JobsInv' /\ job'[w].at = stage /\ job'[w].leaf = leaf /\ job'[w].next = next
      /\ \A v \in Workers \ {w} : job'[v] = job[v]
  <2>1. lock' = (IF stage = "save" THEN w ELSE None) /\ None \notin Workers /\ stage \in Stages
    BY <1>1, <1>2, WorkerAssumption DEF Stages
  <2>2. (lock' = w <=> stage # "remove") /\ \A v \in Workers \ {w} : lock' = v <=> lock = v
    BY <1>2, <2>1
  <2>3. stage \in {"disable", "save", "tuned"} => next.nonce <= nonces'
    BY <1>1, <1>3, JobTyped
  <2>4. job[w].at # "idle" /\ nonces' \in Nat /\ nonces <= nonces'
    BY <1>1, <1>3
  <2> HIDE DEF stage
  <2> QED
    BY <1>1, <2>1, <2>2, <2>3, <2>4, GoesOn
<1>6. RestInv'
  <2>1. lock' \in Workers \cup {None}
    BY <1>1, <1>2
  <2>2. left' \in [Events -> Nat] /\ \A e \in Events : left'[e] <= Budget[e]
    BY <1>1, SpendTyped DEF RestInv, Events
  <2> QED
    BY <1>1, <1>3, <2>1, <2>2 DEF RestInv
<1> QED
  BY <1>1, <1>2, <1>3, <1>4, <1>5, <1>6

\* The entry at a position gets another association.
Updated(i, mac) ==
  /\ i \in DOMAIN leaves /\ DOMAIN leaves' = DOMAIN leaves
  /\ leaves'[i].ip = leaves[i].ip /\ leaves'[i].token = leaves[i].token /\ leaves'[i].mac = mac
  /\ \A j \in DOMAIN leaves \ {i} : leaves'[j] = leaves[j]

LEMMA UpdateTyped ==
  ASSUME LeavesInv, RestInv, nonces' = nonces, NEW i \in DOMAIN leaves, NEW mac \in AssocSet, Proper(mac, nonces),
         \/ leaves' = [leaves EXCEPT ![i].mac = mac, ![i].pending = FALSE]
         \/ leaves' = [leaves EXCEPT ![i].mac = mac]
  PROVE  LeavesInv' /\ Updated(i, mac)
<1>1. PICK e \in EntrySet :
        /\ leaves' = [leaves EXCEPT ![i] = e]
        /\ e.ip = leaves[i].ip /\ e.token = leaves[i].token /\ e.mac = mac
  <2>1. leaves[i] \in EntrySet
    BY LeafTyped
  <2>2. CASE leaves' = [leaves EXCEPT ![i].mac = mac, ![i].pending = FALSE]
    <3> DEFINE e == [leaves[i] EXCEPT !.mac = mac, !.pending = FALSE]
    <3>1. e \in EntrySet /\ e.ip = leaves[i].ip /\ e.token = leaves[i].token /\ e.mac = mac
      BY <2>1 DEF EntrySet
    <3>2. leaves' = [leaves EXCEPT ![i] = e]
      BY <2>2
    <3> HIDE DEF e
    <3> QED
      BY <3>1, <3>2
  <2>3. CASE leaves' = [leaves EXCEPT ![i].mac = mac]
    <3> DEFINE e == [leaves[i] EXCEPT !.mac = mac]
    <3>1. e \in EntrySet /\ e.ip = leaves[i].ip /\ e.token = leaves[i].token /\ e.mac = mac
      BY <2>1 DEF EntrySet
    <3>2. leaves' = [leaves EXCEPT ![i] = e]
      BY <2>3
    <3> HIDE DEF e
    <3> QED
      BY <3>1, <3>2
  <2> QED
    BY <2>2, <2>3
<1>2. leaves' \in Seq(EntrySet)
  BY <1>1, ExceptSeq DEF LeavesInv
<1>3. Updated(i, mac)
  BY <1>1, LenProperties, ExceptSeq DEF Updated, LeavesInv
<1>4. \A j \in DOMAIN leaves' : Proper(leaves'[j].mac, nonces)
  BY <1>3, LeafTyped DEF Updated
<1> QED
  BY <1>2, <1>3, <1>4 DEF LeavesInv

\* A save: what it can do to the list and to the job (SetSave, TuneSave).
LEMMA SaveTyped ==
  ASSUME TypeInv, NEW w \in Workers, SetSave(w) \/ TuneSave(w)
  PROVE  /\ TypeInv' /\ lock = w /\ lock' = None /\ UNCHANGED <<queue, node, paired, nonces, left>>
         /\ job'[w] = Idle /\ \A v \in Workers \ {w} : job'[v] = job[v]
         /\ leaves' = leaves \/ Updated(FindAgain(job[w].leaf), job[w].next)
<1> DEFINE leaf == job[w].leaf
           next == job[w].next
           i == FindAgain(leaf)
<1> USE DEF TypeInv
<1>1. /\ job[w].at \in {"save", "tuned"} /\ UNCHANGED <<queue, node, paired, nonces, left>> /\ Finish(w)
      /\ \/ leaves' = leaves
         \/ i # 0 /\ (\/ leaves' = [leaves EXCEPT ![i].mac = next, ![i].pending = FALSE]
                      \/ leaves' = [leaves EXCEPT ![i].mac = next])
  BY DEF SetSave, TuneSave
<1>2. next \in AssocSet /\ Proper(next, nonces)
  BY <1>1, JobTyped DEF Proper
<1>3. nonces' \in Nat /\ nonces <= nonces' /\ nonces' = nonces
  BY <1>1 DEF RestInv
<1>4. /\ JobsInv' /\ lock = w /\ lock' = None /\ job'[w] = Idle
      /\ \A v \in Workers \ {w} : job'[v] = job[v]
  BY <1>1, <1>3, FinishTyped
<1>5. LeavesInv' /\ (leaves' = leaves \/ Updated(i, next))
  <2>1. CASE leaves' = leaves
    BY <1>3, <2>1 DEF LeavesInv
  <2>2. CASE /\ i # 0
             /\ \/ leaves' = [leaves EXCEPT ![i].mac = next, ![i].pending = FALSE]
                \/ leaves' = [leaves EXCEPT ![i].mac = next]
    <3>1. i \in DOMAIN leaves
      BY <2>2, FindAgainWorks DEF LeavesInv
    <3> HIDE DEF i, next
    <3> QED
      BY <1>2, <1>3, <2>2, <3>1, UpdateTyped
  <2> QED
    BY <1>1, <2>1, <2>2
<1>6. QueueInv' /\ NodeInv' /\ RestInv'
  BY <1>1, <1>4 DEF QueueInv, NodeInv, RestInv
<1> QED
  BY <1>1, <1>4, <1>5, <1>6

LEMMA RemoveTyped ==
  ASSUME TypeInv, NEW w \in Workers, DeleteRemove(w)
  PROVE  /\ TypeInv' /\ job[w].at = "remove" /\ UNCHANGED <<lock, queue, node, paired, nonces, left>>
         /\ leaves' = Without(job[w].leaf.ip, job[w].leaf.token) /\ Comes(leaves')
         /\ job'[w] = Idle /\ \A v \in Workers \ {w} : job'[v] = job[v]
<1> USE DEF TypeInv
<1>1. /\ job[w].at = "remove" /\ UNCHANGED <<lock, queue, node, paired, nonces, left>>
      /\ leaves' = Without(job[w].leaf.ip, job[w].leaf.token) /\ job' = [job EXCEPT ![w] = Idle]
  BY DEF DeleteRemove
<1>2. lock' # w /\ lock' = lock
  BY <1>1, JobTyped
<1>3. nonces' \in Nat /\ nonces <= nonces' /\ nonces' = nonces
  BY <1>1 DEF RestInv
<1>4. JobsInv' /\ job'[w] = Idle /\ \A v \in Workers \ {w} : job'[v] = job[v]
  BY <1>1, <1>2, <1>3, Ends
<1>5. leaves' \in Seq(EntrySet) /\ Comes(leaves')
  BY <1>1, WithoutWorks, WithoutComes DEF LeavesInv
<1>6. LeavesInv'
  BY <1>3, <1>5, ComesTyped
<1>7. QueueInv' /\ NodeInv' /\ RestInv'
  BY <1>1 DEF QueueInv, NodeInv, RestInv
<1> QED
  BY <1>1, <1>4, <1>5, <1>6, <1>7

\* A change begins: macsecSetLeaf of a handler, or of the pending loop.
LEMMA BeginTyped ==
  ASSUME TypeInv, NEW w \in Workers, NEW ip \in IPs, NEW enable \in BOOLEAN, NEW mode \in Modes,
         SetBegin(w, ip, enable, mode), QueueInv',
         left' \in [Events -> Nat], \A e \in Events : left'[e] <= Budget[e]
  PROVE  TypeInv'
<1> USE DEF TypeInv
<1>1. JobsInv' /\ lock' = w /\ UNCHANGED <<leaves, node, paired, nonces>>
  BY SetBeginTyped
<1> QED
  BY <1>1 DEF LeavesInv, NodeInv, RestInv

LEMMA TuneBeginTyped ==
  ASSUME TypeInv, NEW w \in Workers, NEW ip \in IPs, TuneBegin(w, ip)
  PROVE  /\ TypeInv' /\ lock' = w /\ lock = None /\ job[w] = Idle /\ UNCHANGED <<leaves, queue, node, paired, nonces>>
         /\ Find(ip) \in DOMAIN leaves /\ Find(ip) # 0 /\ Spend("tune")
         /\ job'[w] \in JobSet /\ job'[w].at = "tune" /\ job'[w].leaf = leaves[Find(ip)]
         /\ leaves[Find(ip)].mac.nonce # 0
         /\ job'[w].next.nonce = leaves[Find(ip)].mac.nonce /\ job'[w].next.port = leaves[Find(ip)].mac.port
         /\ job'[w].next.from = leaves[Find(ip)].mac.from
         /\ \A v \in Workers \ {w} : job'[v] = job[v]
<1> DEFINE leaf == leaves[Find(ip)]
<1> USE DEF TypeInv
<1>1. /\ lock = None /\ job[w] = Idle /\ Find(ip) # 0 /\ leaf.mac.nonce # 0 /\ lock' = w /\ Spend("tune")
      /\ UNCHANGED <<leaves, queue, node, paired, nonces>>
  BY DEF TuneBegin
<1>2. PICK next \in {JumboFlipped(leaf.mac)} \cup Measured(leaf.mac) :
        job' = [job EXCEPT ![w] = [at |-> "tune", leaf |-> leaf, next |-> next]]
  BY DEF TuneBegin
<1>3. Find(ip) \in DOMAIN leaves
  BY <1>1, FindWorks DEF LeavesInv
<1>4. leaf \in EntrySet /\ leaf.mac \in AssocSet /\ Proper(leaf.mac, nonces)
  BY <1>3, LeafTyped
<1> HIDE DEF leaf
<1>5. /\ next \in AssocSet /\ next.nonce = leaf.mac.nonce /\ next.port = leaf.mac.port
      /\ next.from = leaf.mac.from
  <2>1. next = JumboFlipped(leaf.mac) \/ \E m \in MTUs : next = [leaf.mac EXCEPT !.mtu = m]
    BY DEF Measured
  <2>2. \A m \in MTUs \cup {0} : [leaf.mac EXCEPT !.mtu = m] \in AssocSet
    BY <1>4 DEF AssocSet
  <2>3. JumboFlipped(leaf.mac) \in AssocSet
    BY <1>4 DEF AssocSet, JumboFlipped
  <2>4. /\ JumboFlipped(leaf.mac).nonce = leaf.mac.nonce /\ JumboFlipped(leaf.mac).port = leaf.mac.port
        /\ JumboFlipped(leaf.mac).from = leaf.mac.from
    BY <1>4 DEF AssocSet, JumboFlipped
  <2>5. \A m \in MTUs : LET n == [leaf.mac EXCEPT !.mtu = m]
                        IN n.nonce = leaf.mac.nonce /\ n.port = leaf.mac.port /\ n.from = leaf.mac.from
    BY <1>4 DEF AssocSet
  <2> QED
    BY <2>1, <2>2, <2>3, <2>4, <2>5
<1> DEFINE new == [at |-> "tune", leaf |-> leaf, next |-> next]
<1>6. new \in JobSet /\ new.at = "tune" /\ new.leaf = leaf /\ new.next = next
  BY <1>4, <1>5 DEF JobSet, Stages
<1>7. job' = [job EXCEPT ![w] = new] /\ lock' = w /\ lock = None /\ None \notin Workers
  BY <1>1, <1>2, WorkerAssumption
<1> HIDE DEF new
<1>8. nonces' \in Nat /\ nonces <= nonces' /\ nonces' = nonces
  BY <1>1 DEF RestInv
<1>9. Proper(next, nonces + 1)
  <2>1. next.nonce \in Nat /\ nonces \in Nat
    BY <1>5 DEF AssocSet, RestInv
  <2> QED
    BY <1>4, <1>5, <2>1 DEF Proper
<1>10. JobsInv'
  <2>1. new.at # "idle" => /\ Proper(new.leaf.mac, nonces') /\ Proper(new.next, nonces' + 1)
                           /\ new.at \in {"disable", "save", "tuned"} => new.next.nonce <= nonces'
    BY <1>4, <1>6, <1>8, <1>9
  <2>2. (lock' = w <=> new.at \notin {"idle", "remove"}) /\ \A v \in Workers \ {w} : lock' = v <=> lock = v
    BY <1>6, <1>7
  <2> QED
    BY <1>6, <1>7, <1>8, <2>1, <2>2, JobsChange
<1>11. job'[w] = new /\ \A v \in Workers \ {w} : job'[v] = job[v]
  BY <1>7 DEF JobsInv
<1>12. left' \in [Events -> Nat] /\ \A e \in Events : left'[e] <= Budget[e]
  BY <1>1, SpendTyped DEF Events
<1>13. LeavesInv' /\ QueueInv' /\ NodeInv' /\ RestInv'
  BY <1>1, <1>12 DEF LeavesInv, QueueInv, NodeInv, RestInv
<1> QED
  BY <1>1, <1>3, <1>5, <1>6, <1>10, <1>11, <1>13 DEF leaf

LEMMA DeleteBeginTyped ==
  ASSUME TypeInv, NEW w \in Workers, NEW ip \in IPs, NEW token \in Tokens, DeleteBegin(w, ip, token)
  PROVE  /\ TypeInv' /\ lock = None /\ job[w] = Idle /\ Spend("delete") /\ UNCHANGED <<leaves, queue, node, paired, nonces>>
         /\ job'[w].at \in {"release", "remove"} /\ \A v \in Workers \ {w} : job'[v] = job[v]
<1> USE DEF TypeInv
<1> DEFINE held == {i \in Matches(ip, token) : leaves[i].mac.nonce # 0} # {}
           stage == IF held THEN "release" ELSE "remove"
           entry == Entry(ip, token, FALSE, NoAssoc)
           new == [at |-> stage, leaf |-> entry, next |-> NoAssoc]
<1>1. /\ lock = None /\ job[w] = Idle /\ Spend("delete") /\ UNCHANGED <<leaves, queue, node, paired, nonces>>
      /\ lock' = (IF held THEN w ELSE lock) /\ job' = [job EXCEPT ![w] = new] /\ None \notin Workers
  BY WorkerAssumption DEF DeleteBegin
<1>2. stage \in {"release", "remove"} /\ lock' = (IF stage = "release" THEN w ELSE lock)
  BY <1>1
<1> HIDE DEF stage, held
<1>3. new \in JobSet /\ new.at = stage /\ new.leaf.mac = NoAssoc /\ new.next = NoAssoc
  BY <1>2, NoAssocTyped DEF JobSet, Stages, EntrySet, Entry
<1> HIDE DEF new
<1>4. nonces' \in Nat /\ nonces <= nonces' /\ nonces' = nonces
  BY <1>1 DEF RestInv
<1>5. JobsInv'
  <2>1. new.at # "idle" => /\ Proper(new.leaf.mac, nonces') /\ Proper(new.next, nonces' + 1)
                           /\ new.at \in {"disable", "save", "tuned"} => new.next.nonce <= nonces'
    BY <1>2, <1>3, <1>4, NoAssocTyped DEF Proper
  <2>2. (lock' = w <=> new.at \notin {"idle", "remove"}) /\ \A v \in Workers \ {w} : lock' = v <=> lock = v
    BY <1>1, <1>2, <1>3
  <2> QED
    BY <1>1, <1>3, <1>4, <2>1, <2>2, JobsChange
<1>6. job'[w] = new /\ \A v \in Workers \ {w} : job'[v] = job[v]
  BY <1>1 DEF JobsInv
<1>7. left' \in [Events -> Nat] /\ \A e \in Events : left'[e] <= Budget[e]
  BY <1>1, SpendTyped DEF Events
<1>8. LeavesInv' /\ QueueInv' /\ NodeInv' /\ RestInv'
  BY <1>1, <1>2, <1>7 DEF LeavesInv, QueueInv, NodeInv, RestInv
<1> QED
  BY <1>1, <1>2, <1>3, <1>5, <1>6, <1>8

LEMMA RetryTyped ==
  ASSUME TypeInv, RetryLoad \/ RetryNext
  PROVE  /\ TypeInv' /\ UNCHANGED <<leaves, node, paired, nonces, left>>
         /\ \/ UNCHANGED <<lock, job>>
            \/ \E ip \in IPs : SetBegin(Retry, ip, TRUE, "wireguard")
<1> USE DEF TypeInv
<1>0. Retry \in Workers
  BY DEF Workers
<1>1. CASE RetryLoad
  <2> DEFINE T == {i \in DOMAIN leaves : NeedsRetry(leaves[i])}
  <2>1. queue' = Keeping(leaves, T) /\ UNCHANGED <<leaves, lock, job, node, paired, nonces, left>>
    BY <1>1 DEF RetryLoad
  <2>2. T \in SUBSET DOMAIN leaves
    OBVIOUS
  <2> HIDE DEF T
  <2>3. queue' \in Seq(EntrySet) /\ \E f : Embeds(f, queue', leaves, T)
    BY <2>1, <2>2, KeepingWorks DEF LeavesInv
  <2>4. \A k \in DOMAIN queue' : \E i \in DOMAIN leaves : queue'[k] = leaves[i]
    BY <2>2, <2>3 DEF Embeds
  <2>5. \A k \in DOMAIN queue' : queue'[k].mac.nonce <= nonces
    BY <2>4, LeafTyped DEF Proper
  <2>6. QueueInv'
    BY <2>1, <2>3, <2>5 DEF QueueInv
  <2> QED
    BY <2>1, <2>6 DEF LeavesInv, JobsInv, JobInv, NodeInv, RestInv
<1>2. CASE RetryNext
  <2> DEFINE ip == Head(queue).ip
  <2>1. queue # <<>> /\ queue' = Tail(queue) /\ UNCHANGED left
        /\ (SetBegin(Retry, ip, TRUE, "wireguard") \/ UNCHANGED <<leaves, lock, job, node, paired, nonces>>)
    BY <1>2 DEF RetryNext
  <2>2. Head(queue) \in EntrySet /\ Tail(queue) \in Seq(EntrySet)
    BY <2>1, HeadTailProperties DEF QueueInv
  <2>3. \A k \in DOMAIN Tail(queue) : k + 1 \in DOMAIN queue /\ Tail(queue)[k] = queue[k + 1]
    BY <2>1, HeadTailProperties, LenProperties DEF QueueInv
  <2>4. nonces' = nonces
    BY <2>1 DEF SetBegin
  <2>5. QueueInv'
    BY <2>1, <2>2, <2>3, <2>4 DEF QueueInv
  <2>6. ip \in IPs /\ "wireguard" \in Modes
    BY <2>2 DEF EntrySet, Modes
  <2> HIDE DEF ip
  <2>7. CASE SetBegin(Retry, ip, TRUE, "wireguard")
    <3>1. left' \in [Events -> Nat] /\ \A e \in Events : left'[e] <= Budget[e]
      BY <2>1 DEF RestInv
    <3>2. TypeInv'
      BY <1>0, <2>5, <2>6, <2>7, <3>1, BeginTyped
    <3>3. UNCHANGED <<leaves, node, paired, nonces>>
      BY <2>7 DEF SetBegin
    <3> QED
      BY <2>1, <2>6, <2>7, <3>2, <3>3
  <2>8. CASE UNCHANGED <<leaves, lock, job, node, paired, nonces>>
    BY <2>1, <2>5, <2>8 DEF LeavesInv, JobsInv, JobInv, NodeInv, RestInv
  <2> QED
    BY <2>1, <2>7, <2>8
<1> QED
  BY <1>1, <1>2

LEMMA PutTyped ==
  ASSUME TypeInv, NEW ip \in IPs, NEW token \in Tokens, NEW pending \in BOOLEAN, Put(ip, token, pending)
  PROVE  TypeInv' /\ Spend("put") /\ UNCHANGED <<lock, job, queue, node, paired, nonces>>
<1> USE DEF TypeInv
<1>1. Spend("put") /\ UNCHANGED <<lock, job, queue, node, paired, nonces>>
  BY DEF Put
<1>2. leaves' \in Seq(EntrySet) /\ Comes(leaves')
  BY PutWorks, NoAssocTyped DEF LeavesInv
<1>3. LeavesInv'
  BY <1>1, <1>2, ComesTyped
<1>4. left' \in [Events -> Nat] /\ \A e \in Events : left'[e] <= Budget[e]
  BY <1>1, SpendTyped DEF Events
<1> QED
  BY <1>1, <1>3, <1>4 DEF JobsInv, JobInv, QueueInv, NodeInv, RestInv

\* The steps outside the main router's plugin, and its end.
LEMMA WorldTyped ==
  ASSUME TypeInv,
         \/ Crash
         \/ \E ip \in IPs : NodeConfirms(ip) \/ NodeReverts(ip) \/ \E token \in Tokens : Repair(ip, token)
  PROVE  TypeInv' /\ UNCHANGED <<leaves, nonces>>
<1> USE DEF TypeInv
<1>0. Off \in NodeSet /\ Off.nonce = 0
  BY DEF NodeSet, Off
<1>1. ASSUME NEW ip \in IPs, NodeConfirms(ip) \/ NodeReverts(ip)
      PROVE  TypeInv' /\ UNCHANGED <<leaves, nonces>>
  <2>1. PICK new \in NodeSet : node' = [node EXCEPT ![ip] = new] /\ new.nonce <= nonces
    <3>1. CASE NodeReverts(ip)
      <4>1. node' = [node EXCEPT ![ip] = Off] /\ Off.nonce <= nonces
        BY <1>0, <3>1 DEF NodeReverts, RestInv
      <4> QED
        BY <1>0, <4>1, Zenon
    <3>2. CASE NodeConfirms(ip)
      <4> DEFINE new == [node[ip] EXCEPT !.confirmed = TRUE]
      <4>1. new \in NodeSet /\ new.nonce = node[ip].nonce
        BY DEF NodeInv, NodeSet
      <4>2. node' = [node EXCEPT ![ip] = new]
        BY <3>2 DEF NodeConfirms
      <4> HIDE DEF new
      <4> QED
        BY <4>1, <4>2 DEF NodeInv
    <3> QED
      BY <1>1, <3>1, <3>2
  <2>2. UNCHANGED <<leaves, lock, job, queue, paired, nonces, left>>
    BY <1>1 DEF NodeConfirms, NodeReverts
  <2>3. NodeInv'
    BY <2>1, <2>2 DEF NodeInv
  <2> QED
    BY <2>2, <2>3 DEF LeavesInv, JobsInv, JobInv, QueueInv, RestInv
<1>2. ASSUME NEW ip \in IPs, NEW token \in Tokens, Repair(ip, token)
      PROVE  TypeInv' /\ UNCHANGED <<leaves, nonces>>
  <2>1. /\ Spend("repair") /\ paired' = [paired EXCEPT ![ip] = token] /\ node' = [node EXCEPT ![ip] = Off]
        /\ UNCHANGED <<leaves, lock, job, queue, nonces>>
    BY <1>2 DEF Repair
  <2>2. left' \in [Events -> Nat] /\ \A e \in Events : left'[e] <= Budget[e]
    BY <2>1, SpendTyped DEF Events
  <2>3. NodeInv' /\ paired' \in [IPs -> Tokens]
    BY <1>0, <2>1 DEF NodeInv, RestInv
  <2> QED
    BY <2>1, <2>2, <2>3 DEF LeavesInv, JobsInv, JobInv, QueueInv, RestInv
<1>3. ASSUME Crash PROVE TypeInv' /\ UNCHANGED <<leaves, nonces>>
  <2>1. /\ Spend("crash") /\ lock' = None /\ queue' = <<>> /\ job' = [w \in Workers |-> Idle]
        /\ UNCHANGED <<leaves, node, paired, nonces>> /\ None \notin Workers
    BY <1>3, WorkerAssumption DEF Crash
  <2>2. left' \in [Events -> Nat] /\ \A e \in Events : left'[e] <= Budget[e]
    BY <2>1, SpendTyped DEF Events
  <2>3. JobsInv'
    BY <2>1 DEF JobsInv, JobInv, Idle
  <2>4. QueueInv'
    BY <2>1, EmptySeq DEF QueueInv
  <2> QED
    BY <2>1, <2>2, <2>3, <2>4 DEF LeavesInv, NodeInv, RestInv
<1> QED
  BY <1>1, <1>2, <1>3

LEMMA TypeInit == Init => TypeInv
<1> SUFFICES ASSUME Init PROVE TypeInv
  OBVIOUS
<1>1. LeavesInv /\ QueueInv
  BY EmptySeq DEF Init, LeavesInv, QueueInv
<1>2. JobsInv
  BY WorkerAssumption DEF Init, JobsInv, JobInv, Idle
<1>3. NodeInv
  BY DEF Init, NodeInv, NodeSet, Off
<1>4. RestInv
  BY ChangeBudgetAssumption DEF Init, RestInv
<1> QED
  BY <1>1, <1>2, <1>3, <1>4 DEF TypeInv

LEMMA TypeStep == TypeInv /\ [Next]_vars => TypeInv'
<1> SUFFICES ASSUME TypeInv, [Next]_vars PROVE TypeInv'
  OBVIOUS
<1>1. CASE UNCHANGED vars
  BY <1>1 DEF vars, TypeInv, LeavesInv, JobsInv, JobInv, QueueInv, NodeInv, RestInv
<1>2. ASSUME NEW w \in Workers, WorkerStep(w) PROVE TypeInv'
  BY <1>2, CallTyped, ReleaseTyped, SaveTyped, RemoveTyped DEF WorkerStep
<1>3. ASSUME NEW w \in Handlers, Request(w) PROVE TypeInv'
  <2>1. w \in Workers
    BY DEF Workers
  <2>2. ASSUME NEW ip \in IPs, NEW enable \in BOOLEAN, NEW mode \in Modes, SetRequest(w, ip, enable, mode)
        PROVE  TypeInv'
    <3>1. SetBegin(w, ip, enable, mode) /\ Spend("set") /\ UNCHANGED queue /\ nonces' = nonces
      BY <2>2 DEF SetRequest, SetBegin
    <3>2. QueueInv'
      BY <3>1 DEF TypeInv, QueueInv
    <3>3. left' \in [Events -> Nat] /\ \A e \in Events : left'[e] <= Budget[e]
      BY <3>1, SpendTyped DEF Events, TypeInv
    <3> QED
      BY <2>1, <3>1, <3>2, <3>3, BeginTyped
  <2> QED
    BY <1>3, <2>1, <2>2, TuneBeginTyped, DeleteBeginTyped DEF Request
<1>4. ASSUME RetryLoad \/ RetryNext PROVE TypeInv'
  BY <1>4, RetryTyped
<1>5. ASSUME NEW ip \in IPs, NEW token \in Tokens, NEW pending \in BOOLEAN, Put(ip, token, pending) PROVE TypeInv'
  BY <1>5, PutTyped
<1>6. ASSUME \/ Crash
             \/ \E ip \in IPs : NodeConfirms(ip) \/ NodeReverts(ip) \/ \E token \in Tokens : Repair(ip, token)
      PROVE  TypeInv'
  BY <1>6, WorldTyped
<1> QED
  BY <1>1, <1>2, <1>3, <1>4, <1>5, <1>6 DEF Next

\* Every variable keeps to its type and macsecChangeMtx is held by exactly the job
\* that needs it, whatever requests, pending loop, crashes and lost calls do.
THEOREM BackhaulTypes == Spec => []TypeOK
<1>1. Spec => []TypeInv
  BY TypeInit, TypeStep, PTL DEF Spec
<1> QED
  BY <1>1, TypeInvImplies, PTL

-----------------------------------------------------------------------------
(* What a step can do to the list and to the change that is under way.     *)

SameLeaf(e, leaf) == e.ip = leaf.ip /\ e.token = leaf.token

Changing(w) == job[w].at \in {"enable", "disable", "save", "tune", "tuned"}

Removes == \E w \in Workers : DeleteRemove(w)

Puts == \E ip \in IPs, token \in Tokens, pending \in BOOLEAN : Put(ip, token, pending)

Repairs == \E ip \in IPs, token \in Tokens : Repair(ip, token)

Saves == \E w \in Workers : /\ SetSave(w) \/ TuneSave(w)
                            /\ Updated(FindAgain(job[w].leaf), job[w].next)

LEMMA ListStep ==
  ASSUME TypeInv, [Next]_vars
  PROVE  \/ UNCHANGED leaves /\ (UNCHANGED paired \/ Repairs)
         \/ UNCHANGED paired /\ (Saves \/ Removes \/ Puts)
<1>1. CASE UNCHANGED vars
  BY <1>1 DEF vars
<1>2. ASSUME NEW w \in Workers, WorkerStep(w)
      PROVE  UNCHANGED paired /\ (UNCHANGED leaves \/ Saves \/ Removes)
  BY <1>2, CallTyped, ReleaseTyped, SaveTyped, RemoveTyped DEF WorkerStep, Saves, Removes
<1>3. ASSUME NEW w \in Handlers, Request(w) PROVE UNCHANGED <<leaves, paired>>
  BY <1>3 DEF Request, SetRequest, SetBegin, TuneBegin, DeleteBegin
<1>4. ASSUME RetryLoad \/ RetryNext PROVE UNCHANGED <<leaves, paired>>
  BY <1>4, RetryTyped
<1>5. ASSUME NEW ip \in IPs, NEW token \in Tokens, NEW pending \in BOOLEAN, Put(ip, token, pending)
      PROVE  UNCHANGED paired /\ Puts
  BY <1>5 DEF Put, Puts
<1>6. ASSUME \/ Crash
             \/ \E ip \in IPs : NodeConfirms(ip) \/ NodeReverts(ip)
      PROVE  UNCHANGED <<leaves, paired>>
  BY <1>6 DEF Crash, NodeConfirms, NodeReverts
<1>7. ASSUME NEW ip \in IPs, NEW token \in Tokens, Repair(ip, token) PROVE UNCHANGED leaves /\ Repairs
  BY <1>7 DEF Repair, Repairs
<1> QED
  BY <1>1, <1>2, <1>3, <1>4, <1>5, <1>6, <1>7 DEF Next

\* The change of a worker goes on.
Continues(w) ==
  /\ Changing(w) /\ job'[w].leaf = job[w].leaf /\ job'[w].next = job[w].next
  /\ \/ job'[w].at = job[w].at
     \/ job[w].at \in {"enable", "disable"} /\ job'[w].at = "save"
     \/ job[w].at = "tune" /\ job'[w].at = "tuned"

Begins(w) ==
  \E ip \in IPs :
    \/ TuneBegin(w, ip)
    \/ \E enable \in BOOLEAN, mode \in Modes : SetBegin(w, ip, enable, mode)

\* While a change is under way nothing is saved for any leaf.
LEMMA ChangeStep ==
  ASSUME TypeInv, [Next]_vars, NEW v \in Workers, Changing(v)'
  PROVE  \/ Continues(v) /\ (UNCHANGED leaves \/ Removes \/ Puts)
         \/ Begins(v) /\ UNCHANGED <<leaves, paired>>
<1> USE DEF TypeInv
<1>0. TypeInv' /\ lock' = v /\ lock' # None
  <2>1. TypeInv'
    BY TypeStep
  <2>2. JobInv(v)'
    BY <2>1 DEF JobsInv
  <2> QED
    BY <2>1, <2>2, WorkerAssumption DEF Changing, JobInv
<1>1. ASSUME job'[v] = job[v] PROVE Continues(v)
  BY <1>1 DEF Continues, Changing
<1>2. ASSUME UNCHANGED vars PROVE Continues(v) /\ UNCHANGED leaves
  BY <1>1, <1>2 DEF vars
<1>3. ASSUME NEW w \in Workers, EnableCall(w) \/ TuneCall(w) PROVE Continues(v) /\ UNCHANGED leaves
  <2>1. CASE v = w
    <3>1. job[w].at \in {"enable", "tune"}
      BY <1>3 DEF EnableCall, TuneCall
    <3>2. /\ UNCHANGED leaves /\ job'[w].leaf = job[w].leaf /\ job'[w].next = job[w].next
          /\ job'[w].at = IF job[w].at = "enable" THEN "save" ELSE "tuned"
      BY <1>0, <1>3, <2>1, CallTyped
    <3> QED
      BY <2>1, <3>1, <3>2 DEF Continues, Changing
  <2>2. CASE v # w
    BY <1>1, <1>3, <2>2, CallTyped
  <2> QED
    BY <2>1, <2>2
<1>4. ASSUME NEW w \in Workers, DisableCall(w) \/ DeleteRelease(w) PROVE Continues(v) /\ UNCHANGED leaves
  <2>1. CASE v = w
    <3>1. /\ UNCHANGED leaves /\ job'[w].leaf = job[w].leaf /\ job'[w].next = job[w].next
          /\ job'[w].at = IF job[w].at = "disable" THEN "save" ELSE "remove"
      BY <1>4, ReleaseTyped
    <3>2. job[w].at = "disable"
      BY <2>1, <3>1 DEF Changing
    <3> QED
      BY <2>1, <3>1, <3>2 DEF Continues, Changing
  <2>2. CASE v # w
    BY <1>1, <1>4, <2>2, ReleaseTyped
  <2> QED
    BY <2>1, <2>2
<1>5. ASSUME NEW w \in Workers, SetSave(w) \/ TuneSave(w) PROVE FALSE
  BY <1>0, <1>5, SaveTyped
<1>6. ASSUME NEW w \in Workers, DeleteRemove(w) PROVE Continues(v) /\ Removes
  <2>1. v # w
    BY <1>6, RemoveTyped DEF Changing, Idle
  <2> QED
    BY <1>1, <1>6, <2>1, RemoveTyped DEF Removes
<1>7. ASSUME NEW w \in Workers, NEW ip \in IPs, NEW enable \in BOOLEAN, NEW mode \in Modes,
             SetBegin(w, ip, enable, mode)
      PROVE  Begins(v) /\ UNCHANGED <<leaves, paired>>
  <2>1. lock' = w
    BY <1>7 DEF SetBegin
  <2> QED
    BY <1>0, <1>7, <2>1 DEF Begins, SetBegin
<1>8. ASSUME NEW w \in Handlers, Request(w)
      PROVE  (Continues(v) \/ Begins(v)) /\ UNCHANGED <<leaves, paired>>
  <2>0. w \in Workers
    BY DEF Workers
  <2>1. ASSUME NEW ip \in IPs, TuneBegin(w, ip) PROVE Begins(v) /\ UNCHANGED <<leaves, paired>>
    <3>1. lock' = w
      BY <2>1 DEF TuneBegin
    <3> QED
      BY <1>0, <2>1, <3>1 DEF Begins, TuneBegin
  <2>2. ASSUME NEW ip \in IPs, NEW token \in Tokens, DeleteBegin(w, ip, token)
        PROVE  Continues(v) /\ UNCHANGED <<leaves, paired>>
    <3>1. v # w
      BY <2>0, <2>2, DeleteBeginTyped DEF Changing
    <3> QED
      BY <1>1, <2>0, <2>2, <3>1, DeleteBeginTyped
  <2> QED
    BY <1>7, <1>8, <2>0, <2>1, <2>2 DEF Request, SetRequest
<1>9. ASSUME RetryLoad \/ RetryNext PROVE (Continues(v) \/ Begins(v)) /\ UNCHANGED <<leaves, paired>>
  <2>1. Retry \in Workers /\ "wireguard" \in Modes
    BY DEF Workers, Modes
  <2> QED
    BY <1>1, <1>7, <1>9, <2>1, RetryTyped
<1>10. ASSUME Puts PROVE Continues(v) /\ Puts
  BY <1>1, <1>10 DEF Puts, Put
<1>11. ASSUME \E ip \in IPs : NodeConfirms(ip) \/ NodeReverts(ip) \/ \E token \in Tokens : Repair(ip, token)
       PROVE  Continues(v) /\ UNCHANGED leaves
  BY <1>1, <1>11 DEF NodeConfirms, NodeReverts, Repair
<1>12. ASSUME Crash PROVE FALSE
  BY <1>0, <1>12 DEF Crash
<1> QED
  BY <1>2, <1>3, <1>4, <1>5, <1>6, <1>8, <1>9, <1>10, <1>11, <1>12 DEF Next, WorkerStep, Puts

-----------------------------------------------------------------------------
(* Keys of the list: an address and token name one entry, and the leaf that  *)
(* answers at an address comes after the others with that address.         *)

UniqueKeys == \A i, j \in DOMAIN leaves : SameLeaf(leaves[i], leaves[j]) => i = j

PairedLast ==
  \A i, j \in DOMAIN leaves : i < j /\ leaves[i].ip = leaves[j].ip => leaves[i].token # paired[leaves[i].ip]

KeysInv == UniqueKeys /\ PairedLast

\* A list without some entries has the keys of the others, in order.
LEMMA WithoutKeys ==
  ASSUME TypeInv, NEW ip, NEW token
  PROVE  LET W == Without(ip, token)
         IN  \E f \in [DOMAIN W -> DOMAIN leaves] :
               /\ \A k \in DOMAIN W : W[k] = leaves[f[k]] /\ ~(W[k].ip = ip /\ W[k].token = token)
               /\ \A k, l \in DOMAIN W : (k < l => f[k] < f[l]) /\ (f[k] = f[l] => k = l)
               /\ \A i \in DOMAIN leaves : ~(leaves[i].ip = ip /\ leaves[i].token = token)
                    => \E k \in DOMAIN W : f[k] = i
<1> DEFINE W == Without(ip, token)
           T == DOMAIN leaves \ Matches(ip, token)
<1>1. leaves \in Seq(EntrySet) /\ W \in Seq(EntrySet) /\ \E f : Embeds(f, W, leaves, T)
  BY WithoutWorks DEF TypeInv, LeavesInv
<1>2. PICK f : Embeds(f, W, leaves, T)
  BY <1>1
<1>3. \A i \in DOMAIN leaves : i \in T <=> ~(leaves[i].ip = ip /\ leaves[i].token = token)
  BY DEF Matches
<1>4. DOMAIN W \subseteq Nat /\ DOMAIN leaves \subseteq Nat /\ T \subseteq DOMAIN leaves
  BY <1>1, LenProperties
<1> HIDE DEF W, T
<1>5. f \in [DOMAIN W -> DOMAIN leaves]
  BY <1>2, <1>4 DEF Embeds
<1>6. \A k \in DOMAIN W : W[k] = leaves[f[k]] /\ ~(W[k].ip = ip /\ W[k].token = token)
  BY <1>2, <1>3, <1>4 DEF Embeds
<1>7. ASSUME NEW k \in DOMAIN W, NEW l \in DOMAIN W PROVE (k < l => f[k] < f[l]) /\ (f[k] = f[l] => k = l)
  <2>1. k \in Nat /\ l \in Nat /\ f[k] \in Nat /\ f[l] \in Nat
    BY <1>4, <1>5
  <2>2. (k < l => f[k] < f[l]) /\ (l < k => f[l] < f[k])
    BY <1>2 DEF Embeds
  <2> QED
    BY <2>1, <2>2
<1>8. \A i \in DOMAIN leaves : ~(leaves[i].ip = ip /\ leaves[i].token = token) => \E k \in DOMAIN W : f[k] = i
  BY <1>2, <1>3 DEF Embeds
<1> QED
  BY <1>5, <1>6, <1>7, <1>8 DEF W

\* What is left of PUT: its own entry comes last, the others are without it.
LEMMA PutKeys ==
  ASSUME TypeInv, NEW ip \in IPs, NEW token \in Tokens, NEW pending \in BOOLEAN, Put(ip, token, pending)
  PROVE  \E n \in Nat \ {0} :
           /\ DOMAIN leaves' = 1..n /\ paired[ip] = token /\ leaves'[n].ip = ip /\ leaves'[n].token = token
           /\ DOMAIN Without(ip, token) = 1..(n - 1)
           /\ \A k \in DOMAIN Without(ip, token) : leaves'[k] = Without(ip, token)[k]
           /\ \/ Matches(ip, token) = {} /\ leaves'[n].mac = NoAssoc
              \/ \E i \in Matches(ip, token) : leaves'[n].mac = leaves[i].mac
<1> DEFINE W == Without(ip, token)
           n == Len(W) + 1
<1>1. W \in Seq(EntrySet) /\ leaves \in Seq(EntrySet)
  BY WithoutWorks DEF TypeInv, LeavesInv
<1>2. Len(W) \in Nat /\ DOMAIN W = 1..Len(W)
  BY <1>1, LenProperties
<1>3. n \in Nat \ {0} /\ DOMAIN W = 1..(n - 1)
  BY <1>2
<1>4. /\ paired[ip] = token /\ DOMAIN leaves' = 1..n
      /\ \A k \in DOMAIN W : leaves'[k] = W[k]
      /\ leaves'[n].ip = ip /\ leaves'[n].token = token
      /\ \/ Matches(ip, token) = {} /\ leaves'[n].mac = NoAssoc
         \/ \E i \in Matches(ip, token) : leaves'[n].mac = leaves[i].mac
  BY <1>1, PutWorks, NoAssocTyped
<1> HIDE DEF n
<1> QED
  BY <1>3, <1>4

LEMMA KeysKept ==
  ASSUME KeysInv, DOMAIN leaves' = DOMAIN leaves, UNCHANGED paired,
         \A i \in DOMAIN leaves : leaves'[i].ip = leaves[i].ip /\ leaves'[i].token = leaves[i].token
  PROVE  KeysInv'
<1>1. UniqueKeys'
  BY DEF KeysInv, UniqueKeys, SameLeaf
<1>2. PairedLast'
  BY DEF KeysInv, PairedLast
<1> QED
  BY <1>1, <1>2 DEF KeysInv

LEMMA UpdatedKeys ==
  ASSUME NEW i, NEW mac, Updated(i, mac)
  PROVE  /\ DOMAIN leaves' = DOMAIN leaves
         /\ \A j \in DOMAIN leaves : leaves'[j].ip = leaves[j].ip /\ leaves'[j].token = leaves[j].token
  BY DEF Updated

LEMMA KeysStep ==
  ASSUME TypeInv, KeysInv, [Next]_vars
  PROVE  KeysInv'
<1>1. CASE UNCHANGED <<leaves, paired>>
  BY <1>1 DEF KeysInv, UniqueKeys, PairedLast, SameLeaf
<1>2. ASSUME NEW ip \in IPs, NEW token \in Tokens, Repair(ip, token) PROVE KeysInv'
  <2>1. /\ UNCHANGED leaves /\ paired' = [paired EXCEPT ![ip] = token]
        /\ \A i \in DOMAIN leaves : leaves[i].token # token
    BY <1>2 DEF Repair
  <2>2. \A i \in DOMAIN leaves : leaves[i].ip \in IPs
    BY LeafTyped DEF TypeInv, EntrySet
  <2>3. paired \in [IPs -> Tokens]
    BY DEF TypeInv, RestInv
  <2>4. \A i \in DOMAIN leaves : leaves[i].token # paired[leaves[i].ip] => leaves[i].token # paired'[leaves[i].ip]
    BY <2>1, <2>2, <2>3
  <2>5. PairedLast'
    BY <2>1, <2>4 DEF KeysInv, PairedLast
  <2> QED
    BY <2>1, <2>5 DEF KeysInv, UniqueKeys, SameLeaf
<1>3. ASSUME Saves, UNCHANGED paired PROVE KeysInv'
  BY <1>3, UpdatedKeys, KeysKept DEF Saves
<1>4. ASSUME NEW ip, NEW token, leaves' = Without(ip, token), UNCHANGED paired PROVE KeysInv'
  <2>1. PICK f \in [DOMAIN leaves' -> DOMAIN leaves] :
          /\ \A k \in DOMAIN leaves' : leaves'[k] = leaves[f[k]]
          /\ \A k, l \in DOMAIN leaves' : (k < l => f[k] < f[l]) /\ (f[k] = f[l] => k = l)
    BY <1>4, WithoutKeys
  <2>2. UniqueKeys'
    BY <2>1 DEF KeysInv, UniqueKeys, SameLeaf
  <2>3. PairedLast'
    BY <1>4, <2>1 DEF KeysInv, PairedLast
  <2> QED
    BY <2>2, <2>3 DEF KeysInv
<1>5. ASSUME NEW ip \in IPs, NEW token \in Tokens, NEW pending \in BOOLEAN, Put(ip, token, pending), UNCHANGED paired
      PROVE  KeysInv'
  <2> DEFINE W == Without(ip, token)
  <2>1. PICK n \in Nat \ {0} :
           /\ DOMAIN leaves' = 1..n /\ paired[ip] = token /\ leaves'[n].ip = ip /\ leaves'[n].token = token
           /\ DOMAIN W = 1..(n - 1) /\ \A k \in DOMAIN W : leaves'[k] = W[k]
    BY <1>5, PutKeys
  <2>2. PICK f \in [DOMAIN W -> DOMAIN leaves] :
          /\ \A k \in DOMAIN W : W[k] = leaves[f[k]] /\ ~(W[k].ip = ip /\ W[k].token = token)
          /\ \A k, l \in DOMAIN W : (k < l => f[k] < f[l]) /\ (f[k] = f[l] => k = l)
    BY WithoutKeys
  <2> HIDE DEF W
  <2>3. \A k \in DOMAIN leaves' : k = n \/ k \in DOMAIN W
    BY <2>1
  <2>4. ASSUME NEW k \in DOMAIN leaves', NEW l \in DOMAIN leaves', SameLeaf(leaves'[k], leaves'[l]) PROVE k = l
    <3>1. k \in DOMAIN W /\ l \in DOMAIN W => k = l
      BY <2>1, <2>2, <2>4 DEF KeysInv, UniqueKeys, SameLeaf
    <3>2. k \in DOMAIN W => ~(leaves'[k].ip = ip /\ leaves'[k].token = token)
      BY <2>1, <2>2
    <3>3. l \in DOMAIN W => ~(leaves'[l].ip = ip /\ leaves'[l].token = token)
      BY <2>1, <2>2
    <3> QED
      BY <2>1, <2>3, <2>4, <3>1, <3>2, <3>3 DEF SameLeaf
  <2>5. ASSUME NEW k \in DOMAIN leaves', NEW l \in DOMAIN leaves', k < l, leaves'[k].ip = leaves'[l].ip
        PROVE  leaves'[k].token # paired[leaves'[k].ip]
    <3>1. k \in DOMAIN W
      BY <2>1, <2>3, <2>5
    <3>2. CASE l \in DOMAIN W
      BY <2>1, <2>2, <2>5, <3>1, <3>2 DEF KeysInv, PairedLast
    <3>3. CASE l = n
      BY <2>1, <2>2, <2>5, <3>1, <3>3
    <3> QED
      BY <2>3, <3>2, <3>3
  <2> QED
    BY <1>5, <2>4, <2>5 DEF KeysInv, UniqueKeys, PairedLast
<1>6. ASSUME Removes, UNCHANGED paired PROVE KeysInv'
  BY <1>4, <1>6 DEF Removes, DeleteRemove
<1> QED
  BY <1>1, <1>2, <1>3, <1>5, <1>6, ListStep DEF Repairs, Puts

-----------------------------------------------------------------------------
(* The change that is under way and the leaf's entry.                      *)

\* The answer is the leaf's own and keeps its port, and a tuned association is the
\* one the leaf has.
ReplyInv(w) ==
  LET leaf == job[w].leaf
      next == job[w].next
  IN
  Changing(w) =>
    /\ next.nonce # 0 => next.from = leaf.token /\ (leaf.mac.nonce # 0 => next.port = leaf.mac.port)
    /\ job[w].at \in {"tune", "tuned"} => next.nonce # 0 /\ next.nonce = leaf.mac.nonce
    /\ job[w].at = "enable" => next.nonce # 0
    /\ job[w].at = "disable" => next.nonce = 0

\* Nobody else gives the leaf another association meanwhile.
EntryStays(w) ==
  Changing(w) =>
    \A i \in DOMAIN leaves : SameLeaf(leaves[i], job[w].leaf) /\ leaves[i].mac.nonce # 0
                               => leaves[i].mac = job[w].leaf.mac

\* A leaf that answers at its address is the only one there.
Sole(w) ==
  Changing(w) =>
    \A i, j \in DOMAIN leaves :
      /\ SameLeaf(leaves[i], job[w].leaf) /\ leaves[i].mac.nonce # 0
      /\ leaves[i].token = paired[leaves[i].ip] /\ leaves[j].ip = leaves[i].ip
      => j = i

ChangeInv == \A w \in Workers : ReplyInv(w) /\ EntryStays(w) /\ Sole(w)

RepliesInv == KeysInv /\ ChangeInv /\ DistinctPorts /\ OwnReply

\* At its beginning a change knows the leaf's entry.
LEMMA BeginsWell ==
  ASSUME TypeInv, KeysInv, OwnReply, NEW w \in Workers, Begins(w), UNCHANGED <<leaves, paired>>
  PROVE  (ReplyInv(w) /\ EntryStays(w) /\ Sole(w))'
<1> USE DEF TypeInv
<1>1. PICK ip \in IPs :
         \/ TuneBegin(w, ip)
         \/ \E enable \in BOOLEAN, mode \in Modes : SetBegin(w, ip, enable, mode)
  BY DEF Begins
<1> DEFINE leaf == leaves[Find(ip)]
<1>2. Find(ip) \in DOMAIN leaves /\ job'[w].leaf = leaf
  BY <1>1, TuneBeginTyped, SetBeginTyped
<1>3. leaf.ip = ip /\ \A i \in DOMAIN leaves : leaves[i].ip = ip => Find(ip) <= i
  BY <1>2, FindWorks, LenProperties DEF LeavesInv
<1>4. ReplyInv(w)'
  <2>1. CASE TuneBegin(w, ip)
    <3>1. /\ job'[w].at = "tune" /\ job'[w].next.nonce = leaf.mac.nonce /\ leaf.mac.nonce # 0
          /\ job'[w].next.port = leaf.mac.port /\ job'[w].next.from = leaf.mac.from
      BY <2>1, TuneBeginTyped
    <3>2. leaf.mac.from = leaf.token
      BY <1>2, <3>1 DEF OwnReply
    <3> QED
      BY <1>2, <3>1, <3>2 DEF ReplyInv
  <2>2. ASSUME NEW enable \in BOOLEAN, NEW mode \in Modes, SetBegin(w, ip, enable, mode) PROVE ReplyInv(w)'
    <3>1. /\ enable => HasPort(leaf, mode)
          /\ job'[w].next = (IF enable THEN NextAssoc(leaf, mode) ELSE NoAssoc)
          /\ job'[w].at = IF enable THEN "enable" ELSE IF leaf.mac.nonce # 0 THEN "disable" ELSE "save"
      BY <2>2, SetBeginTyped
    <3>2. CASE enable
      <4>1. /\ job'[w].next.nonce # 0 /\ job'[w].next.from = leaf.token
            /\ leaf.mac.port # 0 => job'[w].next.port = leaf.mac.port
        BY <1>2, <3>1, <3>2, NextAssocTyped
      <4>2. leaf.mac.nonce # 0 => leaf.mac.port # 0
        BY <1>2, LeafTyped DEF Proper
      <4> QED
        BY <1>2, <3>1, <3>2, <4>1, <4>2 DEF ReplyInv
    <3>3. CASE ~enable
      BY <1>2, <3>1, <3>3, NoAssocTyped DEF ReplyInv
    <3> QED
      BY <3>2, <3>3
  <2> QED
    BY <1>1, <2>1, <2>2
<1>5. \A i \in DOMAIN leaves : SameLeaf(leaves[i], leaf) => i = Find(ip)
  BY <1>2 DEF KeysInv, UniqueKeys
<1>6. EntryStays(w)'
  BY <1>2, <1>5 DEF EntryStays
<1>7. Sole(w)'
  <2> SUFFICES ASSUME NEW i \in DOMAIN leaves, NEW j \in DOMAIN leaves, SameLeaf(leaves[i], leaf),
                      leaves[i].token = paired[leaves[i].ip], leaves[j].ip = leaves[i].ip
               PROVE  j = i
    BY <1>2 DEF Sole
  <2>1. i = Find(ip) /\ i <= j
    BY <1>3, <1>5
  <2>2. ~(i < j)
    BY DEF KeysInv, PairedLast
  <2>3. i \in Nat /\ j \in Nat
    BY LenProperties DEF LeavesInv
  <2> QED
    BY <2>1, <2>2, <2>3
<1> QED
  BY <1>4, <1>6, <1>7

LEMMA ChangesComes ==
  ASSUME TypeInv, [Next]_vars, Removes \/ Puts
  PROVE  Comes(leaves')
  BY RemoveTyped, PutWorks, NoAssocTyped DEF Removes, Puts, TypeInv, LeavesInv

LEMMA ContinuesWell ==
  ASSUME TypeInv, KeysInv, [Next]_vars, NEW w \in Workers, ReplyInv(w), EntryStays(w), Sole(w),
         Continues(w), UNCHANGED leaves \/ Removes \/ Puts
  PROVE  (ReplyInv(w) /\ EntryStays(w) /\ Sole(w))'
<1>1. Changing(w) /\ job'[w].leaf = job[w].leaf /\ job'[w].next = job[w].next
  BY DEF Continues
<1>2. ReplyInv(w)'
  BY <1>1 DEF ReplyInv, Continues
<1>3. EntryStays(w)'
  <2>1. CASE UNCHANGED leaves
    BY <1>1, <2>1 DEF EntryStays, SameLeaf
  <2>2. CASE Removes \/ Puts
    <3>1. Comes(leaves')
      BY <2>2, ChangesComes
    <3> QED
      BY <1>1, <3>1, NoAssocTyped DEF EntryStays, SameLeaf, Comes
  <2> QED
    BY <2>1, <2>2
<1>4. Sole(w)'
  <2>1. CASE UNCHANGED <<leaves, paired>>
    BY <1>1, <2>1 DEF Sole, SameLeaf
  <2>2. ASSUME NEW ip \in IPs, NEW token \in Tokens, Repair(ip, token) PROVE Sole(w)'
    <3>1. /\ UNCHANGED leaves /\ paired' = [paired EXCEPT ![ip] = token]
          /\ \A i \in DOMAIN leaves : leaves[i].token # token
      BY <2>2 DEF Repair
    <3>2. \A i \in DOMAIN leaves : leaves[i].ip \in IPs
      BY LeafTyped DEF TypeInv, EntrySet
    <3>3. \A i \in DOMAIN leaves : leaves[i].token = paired'[leaves[i].ip] => leaves[i].token = paired[leaves[i].ip]
      BY <3>1, <3>2 DEF TypeInv, RestInv
    <3> QED
      BY <1>1, <3>1, <3>3 DEF Sole, SameLeaf
  <2>3. ASSUME NEW ip, NEW token, leaves' = Without(ip, token), UNCHANGED paired PROVE Sole(w)'
    <3>1. PICK f \in [DOMAIN leaves' -> DOMAIN leaves] :
            /\ \A k \in DOMAIN leaves' : leaves'[k] = leaves[f[k]]
            /\ \A k, l \in DOMAIN leaves' : f[k] = f[l] => k = l
      BY <2>3, WithoutKeys
    <3> QED
      BY <1>1, <2>3, <3>1 DEF Sole, SameLeaf
  <2>4. ASSUME NEW ip \in IPs, NEW token \in Tokens, NEW pending \in BOOLEAN, Put(ip, token, pending), UNCHANGED paired
        PROVE  Sole(w)'
    <3> DEFINE W == Without(ip, token)
    <3>1. PICK n \in Nat \ {0} :
           /\ DOMAIN leaves' = 1..n /\ paired[ip] = token /\ leaves'[n].ip = ip /\ leaves'[n].token = token
           /\ DOMAIN W = 1..(n - 1) /\ \A k \in DOMAIN W : leaves'[k] = W[k]
           /\ \/ Matches(ip, token) = {} /\ leaves'[n].mac = NoAssoc
              \/ \E i \in Matches(ip, token) : leaves'[n].mac = leaves[i].mac
      BY <2>4, PutKeys
    <3>2. PICK f \in [DOMAIN W -> DOMAIN leaves] :
            /\ \A k \in DOMAIN W : W[k] = leaves[f[k]] /\ ~(W[k].ip = ip /\ W[k].token = token)
            /\ \A k, l \in DOMAIN W : f[k] = f[l] => k = l
      BY WithoutKeys
    <3> HIDE DEF W
    <3>3. SUFFICES ASSUME NEW i \in DOMAIN leaves', NEW j \in DOMAIN leaves',
                          SameLeaf(leaves'[i], job[w].leaf), leaves'[i].mac.nonce # 0,
                          leaves'[i].token = paired[leaves'[i].ip], leaves'[j].ip = leaves'[i].ip
                   PROVE  j = i
      BY <1>1, <2>4 DEF Sole
    <3>4. \A k \in DOMAIN leaves' : k = n \/ k \in DOMAIN W
      BY <3>1
    <3>5. \A k \in DOMAIN W : /\ leaves'[k] = leaves[f[k]] /\ f[k] \in DOMAIN leaves
                              /\ ~(leaves'[k].ip = ip /\ leaves'[k].token = token)
      BY <3>1, <3>2
    <3>6. CASE i \in DOMAIN W /\ j \in DOMAIN W
      BY <1>1, <3>2, <3>3, <3>5, <3>6 DEF Sole
    <3>7. CASE i \in DOMAIN W /\ j = n
      BY <3>1, <3>3, <3>5, <3>7
    <3>8. CASE i = n /\ j \in DOMAIN W
      <4>1. PICK k \in DOMAIN leaves : leaves[k].ip = ip /\ leaves[k].token = token /\ leaves'[n].mac = leaves[k].mac
        BY <3>1, <3>3, <3>8, NoAssocTyped DEF Matches
      <4>2. f[j] = k
        BY <1>1, <3>1, <3>3, <3>5, <3>8, <4>1 DEF Sole, SameLeaf
      <4> QED
        BY <3>5, <3>8, <4>1, <4>2
    <3> QED
      BY <3>4, <3>6, <3>7, <3>8
  <2>5. (Removes => \E ip, token : leaves' = Without(ip, token))
    BY DEF Removes, DeleteRemove
  <2> QED
    BY <2>1, <2>2, <2>3, <2>4, <2>5, ListStep DEF Repairs, Puts, Removes, DeleteRemove, Put
<1> QED
  BY <1>2, <1>3, <1>4

\* What is saved for a leaf is its own answer, and its port is free.
LEMMA SavesWell ==
  ASSUME TypeInv, RepliesInv, Saves
  PROVE  (DistinctPorts /\ OwnReply)'
<1>1. PICK w \in Workers : /\ SetSave(w) \/ TuneSave(w)
                           /\ Updated(FindAgain(job[w].leaf), job[w].next)
  BY DEF Saves
<1> DEFINE leaf == job[w].leaf
           next == job[w].next
           i == FindAgain(leaf)
<1>2. Changing(w) /\ ReplyInv(w) /\ EntryStays(w)
  BY <1>1 DEF SetSave, TuneSave, Changing, RepliesInv, ChangeInv
<1>3. /\ i \in DOMAIN leaves /\ DOMAIN leaves' = DOMAIN leaves
      /\ leaves'[i].ip = leaves[i].ip /\ leaves'[i].token = leaves[i].token /\ leaves'[i].mac = next
      /\ \A j \in DOMAIN leaves \ {i} : leaves'[j] = leaves[j]
  BY <1>1 DEF Updated
<1>4. leaves[i].ip = leaf.ip /\ leaves[i].token = leaf.token
  <2>1. i # 0
    BY <1>3, LenProperties DEF TypeInv, LeavesInv
  <2> QED
    BY <2>1, FindAgainWorks DEF TypeInv, LeavesInv
<1>5. Proper(next, nonces + 1)
  BY <1>1, JobTyped DEF TypeInv, SetSave, TuneSave
<1>6. OwnReply'
  BY <1>2, <1>3, <1>4 DEF ReplyInv, OwnReply, RepliesInv
<1>7. \A j \in DOMAIN leaves \ {i} : next.port # 0 => leaves[j].mac.port # next.port
  <2>1. CASE SetSave(w) /\ (next.nonce = 0 \/ \A j \in DOMAIN leaves \ {i} : leaves[j].mac.port # next.port)
    BY <1>5, <2>1 DEF Proper
  <2>2. CASE leaves' = leaves
    BY <1>3, <2>2 DEF DistinctPorts, RepliesInv
  <2>3. CASE TuneSave(w) /\ leaves[i].mac.nonce = next.nonce
    <3>1. next.nonce # 0 /\ next.nonce = leaf.mac.nonce /\ next.port = leaf.mac.port
      BY <1>2, <2>3 DEF ReplyInv, TuneSave
    <3>2. leaves[i].mac = leaf.mac
      BY <1>2, <1>3, <1>4, <2>3, <3>1 DEF EntryStays, SameLeaf
    <3> QED
      BY <1>3, <3>1, <3>2 DEF DistinctPorts, RepliesInv
  <2> QED
    BY <1>1, <2>1, <2>2, <2>3 DEF SetSave, TuneSave
<1>8. DistinctPorts'
  BY <1>3, <1>7 DEF DistinctPorts, RepliesInv
<1> QED
  BY <1>6, <1>8

LEMMA RepliesStep ==
  ASSUME TypeInv, RepliesInv, [Next]_vars
  PROVE  RepliesInv'
<1>1. KeysInv'
  BY KeysStep DEF RepliesInv
<1>2. ASSUME NEW w \in Workers PROVE (ReplyInv(w) /\ EntryStays(w) /\ Sole(w))'
  <2>1. CASE ~Changing(w)'
    BY <2>1 DEF ReplyInv, EntryStays, Sole
  <2>2. CASE Changing(w)'
    BY <2>2, ChangeStep, BeginsWell, ContinuesWell DEF RepliesInv, ChangeInv
  <2> QED
    BY <2>1, <2>2
<1>3. (DistinctPorts /\ OwnReply)'
  <2>1. CASE UNCHANGED leaves
    BY <2>1 DEF DistinctPorts, OwnReply, RepliesInv
  <2>2. CASE Removes \/ Puts
    <3>1. Comes(leaves')
      BY <2>2, ChangesComes
    <3>2. OwnReply'
      BY <3>1, NoAssocTyped DEF Comes, OwnReply, RepliesInv
    <3>3. ASSUME NEW k \in DOMAIN leaves', NEW l \in DOMAIN leaves', k # l, leaves'[k].mac.port # 0
          PROVE  leaves'[k].mac.port # leaves'[l].mac.port
      <4>1. CASE leaves'[l].mac = NoAssoc
        BY <3>3, <4>1, NoAssocTyped
      <4>2. CASE leaves'[l].mac # NoAssoc
        <5>1. PICK i \in DOMAIN leaves : /\ leaves'[k].ip = leaves[i].ip /\ leaves'[k].token = leaves[i].token
                                         /\ leaves'[k].mac = leaves[i].mac
          BY <3>1, <3>3, NoAssocTyped DEF Comes
        <5>2. PICK j \in DOMAIN leaves : /\ leaves'[l].ip = leaves[j].ip /\ leaves'[l].token = leaves[j].token
                                         /\ leaves'[l].mac = leaves[j].mac
          BY <3>1, <4>2 DEF Comes
        <5>3. i # j
          BY <1>1, <3>3, <5>1, <5>2 DEF KeysInv, UniqueKeys, SameLeaf
        <5> QED
          BY <3>3, <5>1, <5>2, <5>3 DEF DistinctPorts, RepliesInv
      <4> QED
        BY <4>1, <4>2
    <3> QED
      BY <3>2, <3>3 DEF DistinctPorts
  <2> QED
    BY <2>1, <2>2, SavesWell, ListStep
<1> QED
  BY <1>1, <1>2, <1>3 DEF RepliesInv, ChangeInv

LEMMA RepliesInit == Init => RepliesInv
<1> SUFFICES ASSUME Init PROVE RepliesInv
  OBVIOUS
<1>1. DOMAIN leaves = {} /\ \A w \in Workers : ~Changing(w)
  BY DEF Init, Changing, Idle
<1> QED
  BY <1>1 DEF RepliesInv, KeysInv, UniqueKeys, PairedLast, ChangeInv, ReplyInv, EntryStays, Sole,
              DistinctPorts, OwnReply

LEMMA RepliesAlways == Spec => [](TypeInv /\ RepliesInv)
  BY TypeInit, TypeStep, RepliesInit, RepliesStep, PTL DEF Spec

\* No two leaves ever share a port, although the list changes while a leaf is being
\* asked: the check before the save in macsecSetLeaf, and a tuned association that
\* is saved only on the leaf that still has it.
THEOREM PortsDistinct == Spec => []DistinctPorts
  BY RepliesAlways, PTL DEF RepliesInv

\* The identity saved for a leaf is its own, although its address may have gone to
\* another leaf during the call (sameLeaf).
THEOREM RepliesOwn == Spec => []OwnReply
  BY RepliesAlways, PTL DEF RepliesInv

-----------------------------------------------------------------------------
(* Main router and leaf agree.                                             *)

\* The leaf runs this association, or none.
Runs(n, mac) ==
  n.nonce # 0 => /\ n.nonce = mac.nonce /\ n.jumbo = mac.jumbo
                 /\ mac.mode = "wireguard" => n.mtu = mac.mtu

Saving(w) == job[w].at \in {"save", "tuned"}

\* Between its answer and the save a leaf runs what it has been told.
CallInv(w) ==
  LET leaf == job[w].leaf
      next == job[w].next
  IN  Calm /\ Saving(w) /\ paired[leaf.ip] = leaf.token /\ next.nonce # 0 => Runs(node[leaf.ip], next)

\* Otherwise it runs what is saved for it.
SavedInv ==
  Calm => \A i \in DOMAIN leaves :
            LET e == leaves[i]
            IN  /\ paired[e.ip] = e.token /\ e.mac.nonce # 0
                /\ \A w \in Workers : ~(Saving(w) /\ SameLeaf(e, job[w].leaf))
                => Runs(node[e.ip], e.mac)

AgreeInv == (\A w \in Workers : CallInv(w)) /\ SavedInv

LEMMA StepCases ==
  ASSUME TypeInv, [Next]_vars
  PROVE  \/ UNCHANGED <<leaves, lock, job, node, paired, left>>
         \/ \E w \in Workers : EnableCall(w) \/ TuneCall(w)
         \/ \E w \in Workers : DisableCall(w)
         \/ \E w \in Workers : SetSave(w) \/ TuneSave(w)
         \/ \E w \in Workers : DeleteRelease(w) \/ DeleteRemove(w)
         \/ \E w \in Workers : Begins(w) /\ (UNCHANGED left \/ Spend("set") \/ Spend("tune"))
         \/ \E w \in Workers, ip \in IPs, token \in Tokens : DeleteBegin(w, ip, token)
         \/ Puts \/ Repairs \/ Crash
         \/ \E ip \in IPs : NodeConfirms(ip) \/ NodeReverts(ip)
<1>1. ASSUME NEW w \in Handlers, Request(w)
      PROVE  \/ \E v \in Workers : Begins(v) /\ (Spend("set") \/ Spend("tune"))
             \/ \E v \in Workers, ip \in IPs, token \in Tokens : DeleteBegin(v, ip, token)
  <2>1. w \in Workers
    BY DEF Workers
  <2> QED
    BY <1>1, <2>1 DEF Request, SetRequest, Begins, TuneBegin
<1>2. ASSUME RetryLoad \/ RetryNext
      PROVE  \/ UNCHANGED <<leaves, lock, job, node, paired, left>>
             \/ \E w \in Workers : Begins(w) /\ UNCHANGED left
  <2>1. Retry \in Workers /\ "wireguard" \in Modes
    BY DEF Workers, Modes
  <2> QED
    BY <1>2, <2>1, RetryTyped DEF Begins
<1> QED
  BY <1>1, <1>2 DEF Next, WorkerStep, Puts, Repairs, vars

\* What has been spent stays spent.
LEMMA CalmBefore ==
  ASSUME TypeInv, [Next]_vars
  PROVE  \A e \in Events : left'[e] = Budget[e] => left[e] = Budget[e]
<1>1. \A e \in Events : left[e] \in Nat /\ left[e] <= Budget[e] /\ Budget[e] \in Nat
  BY ChangeBudgetAssumption DEF TypeInv, RestInv
<1>2. ASSUME NEW d \in Events, Spend(d) PROVE \A e \in Events : left'[e] <= left[e]
  BY <1>1, <1>2 DEF Spend, TypeInv, RestInv
<1>3. UNCHANGED left \/ \E d \in Events : Spend(d)
  <2>1. ASSUME NEW w \in Workers, EnableCall(w) \/ TuneCall(w) PROVE UNCHANGED left \/ Spend("lost")
    BY <2>1 DEF EnableCall, TuneCall
  <2>2. ASSUME NEW w \in Workers, DisableCall(w) PROVE UNCHANGED left \/ Spend("lost")
    BY <2>2 DEF DisableCall
  <2>3. ASSUME NEW w \in Workers, SetSave(w) \/ TuneSave(w) PROVE UNCHANGED left
    BY <2>3 DEF SetSave, TuneSave
  <2>4. ASSUME NEW w \in Workers, DeleteRelease(w) \/ DeleteRemove(w) PROVE UNCHANGED left \/ Spend("lost")
    BY <2>4 DEF DeleteRelease, DeleteRemove
  <2>5. ASSUME \/ Puts \/ Repairs \/ Crash
               \/ \E ip \in IPs : NodeConfirms(ip) \/ NodeReverts(ip)
               \/ \E w \in Workers, ip \in IPs, token \in Tokens : DeleteBegin(w, ip, token)
        PROVE  UNCHANGED left \/ Spend("put") \/ Spend("repair") \/ Spend("crash") \/ Spend("delete")
    BY <2>5 DEF Puts, Put, Repairs, Repair, Crash, NodeConfirms, NodeReverts, DeleteBegin
  <2> QED
    BY <2>1, <2>2, <2>3, <2>4, <2>5, StepCases DEF Events
<1>4. \A e \in Events : left'[e] <= left[e]
  BY <1>1, <1>2, <1>3
<1>5. \A e \in Events : left'[e] = Budget[e] => left[e] >= Budget[e]
  BY <1>4
<1> QED
  BY <1>1, <1>5

\* Only one worker at a time saves.
LEMMA OneSaves ==
  ASSUME TypeInv, NEW w \in Workers, lock = w, NEW v \in Workers, Changing(v)
  PROVE  v = w
  BY DEF TypeInv, JobsInv, JobInv, Changing

LEMMA SavingChanges ==
  ASSUME NEW w \in Workers, Saving(w) PROVE Changing(w)
  BY DEF Saving, Changing

\* A leaf that has accepted runs what it has been told, the others what they did.
LEMMA AcceptRuns ==
  ASSUME TypeInv, NEW ip \in IPs, NEW token, NEW mac \in AssocSet, Accepts(ip, token, mac)
  PROVE  /\ paired[ip] = token /\ Runs(node'[ip], mac) /\ node'[ip].nonce = mac.nonce
         /\ node'[ip].confirmed => node[ip].confirmed /\ node[ip].nonce = mac.nonce
         /\ \A a \in IPs \ {ip} : node'[a] = node[a]
<1> DEFINE new == [nonce |-> mac.nonce, confirmed |-> node[ip].confirmed /\ node[ip].nonce = mac.nonce,
                   jumbo |-> mac.jumbo, mtu |-> IF mac.mode = "wireguard" THEN mac.mtu ELSE 0]
<1>1. node' = [node EXCEPT ![ip] = new] /\ paired[ip] = token
  BY DEF Accepts, Authentic
<1>2. node'[ip] = new /\ \A a \in IPs \ {ip} : node'[a] = node[a]
  BY <1>1 DEF TypeInv, NodeInv
<1>3. /\ new.nonce = mac.nonce /\ (new.confirmed => node[ip].confirmed /\ node[ip].nonce = mac.nonce)
      /\ Runs(new, mac)
  BY DEF Runs
<1> QED
  BY <1>1, <1>2, <1>3

\* What the steps of the leaf do to it.
Stays(ip) ==
  node'[ip].nonce = node[ip].nonce /\ node'[ip].jumbo = node[ip].jumbo /\ node'[ip].mtu = node[ip].mtu

LEMMA StaysRuns ==
  ASSUME NEW ip \in IPs, Stays(ip) \/ node'[ip] = Off, NEW mac, Runs(node[ip], mac)
  PROVE  Runs(node'[ip], mac)
  BY DEF Stays, Runs, Off

LEMMA LeafOnly ==
  ASSUME TypeInv, NEW ip \in IPs, NodeConfirms(ip) \/ NodeReverts(ip)
  PROVE  /\ UNCHANGED <<leaves, lock, job, queue, paired, nonces, left>>
         /\ \A a \in IPs : Stays(a) \/ node'[a] = Off
<1>1. ASSUME NodeReverts(ip) PROVE \A a \in IPs : Stays(a) \/ node'[a] = Off
  BY <1>1 DEF NodeReverts, Stays, TypeInv, NodeInv
<1>2. ASSUME NodeConfirms(ip) PROVE \A a \in IPs : Stays(a)
  <2> DEFINE new == [node[ip] EXCEPT !.confirmed = TRUE]
  <2>1. node' = [node EXCEPT ![ip] = new]
    BY <1>2 DEF NodeConfirms
  <2>2. new.nonce = node[ip].nonce /\ new.jumbo = node[ip].jumbo /\ new.mtu = node[ip].mtu
    BY DEF TypeInv, NodeInv, NodeSet
  <2>3. node'[ip] = new /\ \A a \in IPs \ {ip} : node'[a] = node[a]
    BY <2>1 DEF TypeInv, NodeInv
  <2> HIDE DEF new
  <2> QED
    BY <2>2, <2>3 DEF Stays
<1> QED
  BY <1>1, <1>2 DEF NodeConfirms, NodeReverts

\* A step that neither tells a leaf anything new nor saves what it has been told.
LEMMA AgreeKept ==
  ASSUME TypeInv, AgreeInv, Calm,
         \A ip \in IPs : Stays(ip) \/ node'[ip] = Off,
         \A ip \in IPs : paired'[ip] = paired[ip] \/ node'[ip] = Off,
         \A v \in Workers : Saving(v)' => \/ job'[v].next.nonce = 0
                                          \/ job'[v] = job[v] /\ job[v].leaf.ip \in IPs,
         \A v \in Workers : Saving(v) => job'[v] = job[v],
         Comes(leaves') \/ UNCHANGED leaves,
         \A i \in DOMAIN leaves' : leaves'[i].ip \in IPs
  PROVE  AgreeInv'
<1>1. ASSUME NEW v \in Workers PROVE CallInv(v)'
  <2> SUFFICES ASSUME Saving(v)', paired'[job'[v].leaf.ip] = job'[v].leaf.token, job'[v].next.nonce # 0
               PROVE  Runs(node'[job'[v].leaf.ip], job'[v].next)
    BY DEF CallInv
  <2>1. job'[v] = job[v] /\ job[v].leaf.ip \in IPs /\ Saving(v)
    BY DEF Saving
  <2>2. CASE node'[job[v].leaf.ip] = Off
    BY <2>1, <2>2 DEF Runs, Off
  <2>3. CASE Stays(job[v].leaf.ip) /\ paired'[job[v].leaf.ip] = paired[job[v].leaf.ip]
    <3>1. Runs(node[job[v].leaf.ip], job[v].next)
      BY <2>1, <2>3 DEF AgreeInv, CallInv
    <3> QED
      BY <2>1, <2>3, <3>1, StaysRuns
  <2> QED
    BY <2>1, <2>2, <2>3
<1>2. SavedInv'
  <2> SUFFICES ASSUME NEW i \in DOMAIN leaves',
                      paired'[leaves'[i].ip] = leaves'[i].token, leaves'[i].mac.nonce # 0,
                      \A v \in Workers : ~(Saving(v)' /\ SameLeaf(leaves'[i], job'[v].leaf))
               PROVE  Runs(node'[leaves'[i].ip], leaves'[i].mac)
    BY DEF SavedInv
  <2>1. PICK j \in DOMAIN leaves : /\ leaves'[i].ip = leaves[j].ip /\ leaves'[i].token = leaves[j].token
                                   /\ leaves'[i].mac = leaves[j].mac
    BY NoAssocTyped DEF Comes
  <2>2. \A v \in Workers : ~(Saving(v) /\ SameLeaf(leaves[j], job[v].leaf))
    BY <2>1 DEF SameLeaf, Saving
  <2>3. leaves[j].ip \in IPs
    BY <2>1
  <2>4. CASE node'[leaves[j].ip] = Off
    BY <2>1, <2>4 DEF Runs, Off
  <2>5. CASE Stays(leaves[j].ip) /\ paired'[leaves[j].ip] = paired[leaves[j].ip]
    <3>1. Runs(node[leaves[j].ip], leaves[j].mac)
      BY <2>1, <2>2, <2>5 DEF AgreeInv, SavedInv
    <3> QED
      BY <2>1, <2>3, <2>5, <3>1, StaysRuns
  <2> QED
    BY <2>3, <2>4, <2>5
<1> QED
  BY <1>1, <1>2 DEF AgreeInv

\* The leaf accepts.
LEMMA AgreeCall ==
  ASSUME TypeInv, AgreeInv, Calm, NEW w \in Workers, EnableCall(w) \/ TuneCall(w),
         Accepts(job[w].leaf.ip, job[w].leaf.token, job[w].next), lock' = w,
         job'[w].at = IF job[w].at = "enable" THEN "save" ELSE "tuned"
  PROVE  AgreeInv'
<1> DEFINE leaf == job[w].leaf
           next == job[w].next
<1>1. /\ TypeInv' /\ UNCHANGED <<leaves, paired>> /\ \A v \in Workers \ {w} : job'[v] = job[v]
      /\ lock = w
  BY CallTyped
<1>2. job'[w].leaf = leaf /\ job'[w].next = next /\ ~Saving(w) /\ Saving(w)'
  <2>1. ~(job'[w] = Idle) /\ job[w].at \in {"enable", "tune"}
    BY DEF Idle, EnableCall, TuneCall
  <2> QED
    BY <2>1, CallTyped DEF Saving
<1>3. leaf.ip \in IPs /\ next \in AssocSet
  BY <1>1, JobTyped DEF EnableCall, TuneCall, TypeInv
<1>4. paired[leaf.ip] = leaf.token /\ Runs(node'[leaf.ip], next) /\ \A a \in IPs \ {leaf.ip} : node'[a] = node[a]
  BY <1>3, AcceptRuns
<1>5. \A v \in Workers \ {w} : ~Saving(v) /\ ~Saving(v)'
  <2>1. \A v \in Workers : Saving(v) => v = w
    BY <1>1, OneSaves, SavingChanges
  <2> QED
    BY <1>1, <2>1 DEF Saving
<1>6. \A v \in Workers : CallInv(v)'
  BY <1>2, <1>4, <1>5 DEF CallInv
<1>7. SavedInv'
  <2> SUFFICES ASSUME NEW i \in DOMAIN leaves, paired[leaves[i].ip] = leaves[i].token, leaves[i].mac.nonce # 0,
                      ~SameLeaf(leaves[i], leaf)
               PROVE  Runs(node'[leaves[i].ip], leaves[i].mac)
    BY <1>1, <1>2 DEF SavedInv
  <2>1. leaves[i].ip \in IPs /\ leaves[i].ip # leaf.ip
    BY <1>4, LeafTyped DEF SameLeaf, TypeInv, EntrySet
  <2>2. \A v \in Workers : ~Saving(v)
    BY <1>2, <1>5
  <2> QED
    BY <1>4, <2>1, <2>2 DEF AgreeInv, SavedInv
<1> QED
  BY <1>6, <1>7 DEF AgreeInv

\* If the leaf still answers at its address, what it has been told is saved.
LEMMA SaveFinds ==
  ASSUME TypeInv, RepliesInv, NEW w \in Workers, SetSave(w) \/ TuneSave(w),
         NEW j \in DOMAIN leaves, SameLeaf(leaves[j], job[w].leaf), leaves[j].mac.nonce # 0,
         paired[leaves[j].ip] = leaves[j].token
  PROVE  j = FindAgain(job[w].leaf) /\ Updated(j, job[w].next)
<1> DEFINE leaf == job[w].leaf
           next == job[w].next
<1>1. Changing(w) /\ ReplyInv(w) /\ EntryStays(w) /\ Sole(w)
  BY DEF SetSave, TuneSave, Changing, RepliesInv, ChangeInv
<1>2. j \in Nat \ {0} /\ leaves[j].ip = leaf.ip /\ leaves[j].token = leaf.token
  BY LenProperties DEF TypeInv, LeavesInv, SameLeaf
<1>3. Find(leaf.ip) = j
  <2>1. /\ Find(leaf.ip) = 0 => \A i \in DOMAIN leaves : leaves[i].ip # leaf.ip
        /\ Find(leaf.ip) # 0 => Find(leaf.ip) \in DOMAIN leaves /\ leaves[Find(leaf.ip)].ip = leaf.ip
    BY FindWorks DEF TypeInv, LeavesInv
  <2> QED
    BY <1>1, <1>2, <2>1 DEF Sole
<1>4. FindAgain(leaf) = j
  BY <1>2, <1>3 DEF FindAgain
<1>5. leaves[j].mac = leaf.mac /\ leaf.mac.nonce # 0
  BY <1>1 DEF EntryStays
<1>6. leaf.mac.port # 0
  BY <1>5, LeafTyped DEF TypeInv, Proper
<1>7. next \in AssocSet /\ Proper(next, nonces)
  BY JobTyped DEF SetSave, TuneSave, TypeInv, Proper
<1>8. CASE SetSave(w)
  <2>1. ~(next.nonce # 0 /\ \E k \in DOMAIN leaves \ {j} : leaves[k].mac.port = next.port)
    BY <1>1, <1>5, <1>6 DEF ReplyInv, RepliesInv, DistinctPorts
  <2>2. leaves' = [leaves EXCEPT ![j].mac = next, ![j].pending = FALSE] /\ nonces' = nonces
    BY <1>2, <1>4, <1>8, <2>1 DEF SetSave
  <2> HIDE DEF next
  <2> QED
    BY <1>4, <1>7, <2>2, UpdateTyped DEF TypeInv, next
<1>9. CASE TuneSave(w)
  <2>1. leaves[j].mac.nonce = next.nonce
    BY <1>1, <1>5, <1>9 DEF ReplyInv, TuneSave
  <2>2. leaves' = [leaves EXCEPT ![j].mac = next] /\ nonces' = nonces
    BY <1>2, <1>4, <1>9, <2>1 DEF TuneSave
  <2> HIDE DEF next
  <2> QED
    BY <1>4, <1>7, <2>2, UpdateTyped DEF TypeInv, next
<1> QED
  BY <1>8, <1>9

LEMMA AgreeSave ==
  ASSUME TypeInv, RepliesInv, AgreeInv, Calm, NEW w \in Workers, SetSave(w) \/ TuneSave(w)
  PROVE  AgreeInv'
<1> DEFINE leaf == job[w].leaf
           next == job[w].next
           i == FindAgain(leaf)
<1>1. /\ lock = w /\ UNCHANGED <<node, paired>> /\ job'[w] = Idle /\ \A v \in Workers \ {w} : job'[v] = job[v]
      /\ leaves' = leaves \/ Updated(i, next)
  BY SaveTyped
<1>2. Saving(w) /\ \A v \in Workers \ {w} : ~Saving(v)
  <2>1. \A v \in Workers : Saving(v) => v = w
    BY <1>1, OneSaves, SavingChanges
  <2> QED
    BY <2>1 DEF Saving, SetSave, TuneSave
<1>3. \A v \in Workers : ~Saving(v)'
  BY <1>1, <1>2 DEF Saving, Idle
<1>4. SavedInv'
  <2> SUFFICES ASSUME NEW j \in DOMAIN leaves', paired[leaves'[j].ip] = leaves'[j].token, leaves'[j].mac.nonce # 0
               PROVE  Runs(node[leaves'[j].ip], leaves'[j].mac)
    BY <1>1 DEF SavedInv
  <2>1. j \in DOMAIN leaves /\ leaves'[j].ip = leaves[j].ip /\ leaves'[j].token = leaves[j].token
    BY <1>1 DEF Updated
  <2>2. CASE Updated(i, next) /\ j = i
    <3>1. leaves[i].ip = leaf.ip /\ leaves[i].token = leaf.token /\ leaves'[i].mac = next
      <4>1. i # 0
        BY <2>1, <2>2, LenProperties DEF TypeInv, LeavesInv
      <4> QED
        BY <2>2, <4>1, FindAgainWorks DEF TypeInv, LeavesInv, Updated
    <3>2. paired[leaf.ip] = leaf.token /\ next.nonce # 0
      BY <2>1, <2>2, <3>1
    <3> QED
      BY <1>2, <2>1, <2>2, <3>1, <3>2 DEF AgreeInv, CallInv
  <2>3. CASE ~(Updated(i, next) /\ j = i)
    <3>1. leaves'[j] = leaves[j]
      BY <1>1, <2>1, <2>3 DEF Updated
    <3>2. ~SameLeaf(leaves[j], leaf)
      BY <2>1, <2>3, <3>1, SaveFinds
    <3> QED
      BY <1>2, <2>1, <3>1, <3>2 DEF AgreeInv, SavedInv
  <2> QED
    BY <2>2, <2>3
<1> QED
  BY <1>3, <1>4 DEF AgreeInv, CallInv

LEMMA AgreeStep ==
  ASSUME TypeInv, RepliesInv, AgreeInv, [Next]_vars
  PROVE  AgreeInv'
<1> SUFFICES ASSUME Calm' PROVE AgreeInv'
  BY DEF AgreeInv, CallInv, SavedInv
<1>1. Calm
  BY CalmBefore DEF Calm, Events
<1>2. ~Spend("lost") /\ ~Spend("crash")
  BY SpendTyped DEF Calm, Events, TypeInv
<1>3. TypeInv'
  BY TypeStep
<1>4. \A i \in DOMAIN leaves' : leaves'[i].ip \in IPs
  <2>1. \A i \in DOMAIN leaves' : leaves'[i] \in EntrySet
    BY <1>3, ElementOfSeq DEF TypeInv, LeavesInv
  <2> QED
    BY <2>1 DEF EntrySet
<1>5. \A v \in Workers : Saving(v) => job[v].leaf.ip \in IPs
  BY JobTyped DEF Saving, TypeInv
<1>6. ASSUME UNCHANGED <<node, paired>> PROVE \A ip \in IPs : Stays(ip) /\ paired'[ip] = paired[ip]
  BY <1>6 DEF Stays
<1>7. CASE UNCHANGED <<leaves, lock, job, node, paired, left>>
  BY <1>1, <1>4, <1>5, <1>6, <1>7, AgreeKept DEF Saving
<1>8. ASSUME NEW w \in Workers, EnableCall(w) \/ TuneCall(w) PROVE AgreeInv'
  <2>1. CASE /\ Accepts(job[w].leaf.ip, job[w].leaf.token, job[w].next)
             /\ lock' = w /\ job'[w].at = IF job[w].at = "enable" THEN "save" ELSE "tuned"
    BY <1>1, <1>8, <2>1, AgreeCall
  <2>2. CASE Unanswered /\ job'[w] = Idle
    <3>1. UNCHANGED <<leaves, paired, node>> /\ \A v \in Workers \ {w} : job'[v] = job[v]
      BY <1>8, <2>2, CallTyped DEF Unanswered
    <3>2. ~Saving(w) /\ ~Saving(w)'
      BY <1>8, <2>2 DEF Saving, Idle, EnableCall, TuneCall
    <3>3. \A v \in Workers : (Saving(v) \/ Saving(v)') => job'[v] = job[v]
      BY <3>1, <3>2
    <3> QED
      BY <1>1, <1>4, <1>5, <1>6, <3>1, <3>3, AgreeKept DEF Saving
  <2> QED
    BY <1>2, <1>8, <2>1, <2>2, CallTyped
<1>9. ASSUME NEW w \in Workers, DisableCall(w) \/ DeleteRelease(w) PROVE AgreeInv'
  <2>1. /\ UNCHANGED <<leaves, paired>> /\ \A v \in Workers \ {w} : job'[v] = job[v]
        /\ job'[w].at = IF job[w].at = "disable" THEN "save" ELSE "remove"
        /\ job'[w].next = job[w].next
        /\ Releases(job[w].leaf.ip, job[w].leaf.token) \/ Unanswered
    BY <1>9, ReleaseTyped
  <2>2. \A ip \in IPs : Stays(ip) \/ node'[ip] = Off
    BY <2>1 DEF Stays, Releases, Unanswered, TypeInv, NodeInv
  <2>3. ~Saving(w) /\ (Saving(w)' => job'[w].next.nonce = 0)
    <3>1. job[w].at \in {"disable", "release"}
      BY <1>9 DEF DisableCall, DeleteRelease
    <3>2. job[w].at = "disable" => job[w].next.nonce = 0
      BY DEF RepliesInv, ChangeInv, ReplyInv, Changing
    <3> QED
      BY <2>1, <3>1, <3>2 DEF Saving
  <2>4. \A v \in Workers : /\ Saving(v) => job'[v] = job[v]
                           /\ Saving(v)' => job'[v] = job[v] \/ job'[v].next.nonce = 0
    BY <2>1, <2>3
  <2> QED
    BY <1>1, <1>4, <1>5, <2>1, <2>2, <2>4, AgreeKept DEF Saving
<1>10. ASSUME NEW w \in Workers, SetSave(w) \/ TuneSave(w) PROVE AgreeInv'
  BY <1>1, <1>10, AgreeSave
<1>11. ASSUME NEW w \in Workers, DeleteRemove(w) PROVE AgreeInv'
  <2>1. /\ UNCHANGED <<node, paired>> /\ Comes(leaves') /\ job[w].at = "remove" /\ job'[w] = Idle
        /\ \A v \in Workers \ {w} : job'[v] = job[v]
    BY <1>11, RemoveTyped
  <2>2. \A v \in Workers : (Saving(v) \/ Saving(v)') => job'[v] = job[v]
    BY <2>1 DEF Saving, Idle
  <2> QED
    BY <1>1, <1>4, <1>5, <1>6, <2>1, <2>2, AgreeKept DEF Saving
<1>12. ASSUME NEW w \in Workers, Begins(w) PROVE AgreeInv'
  <2>1. /\ UNCHANGED <<leaves, node, paired>> /\ job[w] = Idle /\ \A v \in Workers \ {w} : job'[v] = job[v]
        /\ job'[w].at \in {"tune", "enable", "disable"} \/ job'[w].next = NoAssoc
    BY <1>12, SetBeginTyped, TuneBeginTyped DEF Begins, TypeInv
  <2>2. ~Saving(w) /\ (Saving(w)' => job'[w].next.nonce = 0)
    BY <2>1, NoAssocTyped DEF Saving, Idle
  <2>3. \A v \in Workers : /\ Saving(v) => job'[v] = job[v]
                           /\ Saving(v)' => job'[v] = job[v] \/ job'[v].next.nonce = 0
    BY <2>1, <2>2
  <2> QED
    BY <1>1, <1>4, <1>5, <1>6, <2>1, <2>3, AgreeKept DEF Saving
<1>13. ASSUME NEW w \in Workers, NEW ip \in IPs, NEW token \in Tokens, DeleteBegin(w, ip, token) PROVE AgreeInv'
  <2>1. /\ UNCHANGED <<leaves, node, paired>> /\ job[w] = Idle /\ job'[w].at \in {"release", "remove"}
        /\ \A v \in Workers \ {w} : job'[v] = job[v]
    BY <1>13, DeleteBeginTyped
  <2>2. \A v \in Workers : (Saving(v) \/ Saving(v)') => job'[v] = job[v]
    BY <2>1 DEF Saving, Idle
  <2> QED
    BY <1>1, <1>4, <1>5, <1>6, <2>1, <2>2, AgreeKept DEF Saving
<1>14. ASSUME Puts PROVE AgreeInv'
  <2>1. UNCHANGED <<job, node, paired>> /\ Comes(leaves')
    BY <1>14, ChangesComes, PutTyped DEF Puts
  <2> QED
    BY <1>1, <1>4, <1>5, <1>6, <2>1, AgreeKept DEF Saving
<1>15. ASSUME NEW ip \in IPs, NEW token \in Tokens, Repair(ip, token) PROVE AgreeInv'
  <2>1. /\ UNCHANGED <<leaves, job>> /\ paired' = [paired EXCEPT ![ip] = token] /\ node' = [node EXCEPT ![ip] = Off]
    BY <1>15 DEF Repair
  <2>2. \A a \in IPs : /\ Stays(a) \/ node'[a] = Off
                       /\ paired'[a] = paired[a] \/ node'[a] = Off
    BY <2>1 DEF TypeInv, NodeInv, RestInv, Stays
  <2> QED
    BY <1>1, <1>4, <1>5, <2>1, <2>2, AgreeKept DEF Saving
<1>16. ASSUME NEW ip \in IPs, NodeConfirms(ip) \/ NodeReverts(ip) PROVE AgreeInv'
  <2>1. UNCHANGED <<leaves, job, paired>> /\ \A a \in IPs : Stays(a) \/ node'[a] = Off
    BY <1>16, LeafOnly
  <2> QED
    BY <1>1, <1>4, <1>5, <2>1, AgreeKept DEF Saving
<1>17. ~Crash
  BY <1>2 DEF Crash
<1> QED
  BY <1>7, <1>8, <1>9, <1>10, <1>11, <1>12, <1>13, <1>14, <1>15, <1>16, <1>17, StepCases DEF Repairs

LEMMA AgreeInit == Init => AgreeInv
<1> SUFFICES ASSUME Init PROVE AgreeInv
  OBVIOUS
<1>1. DOMAIN leaves = {} /\ \A w \in Workers : ~Saving(w)
  BY DEF Init, Saving, Idle
<1> QED
  BY <1>1 DEF AgreeInv, CallInv, SavedInv

LEMMA AgreeImplies ==
  ASSUME TypeInv, AgreeInv
  PROVE  Agree
<1> SUFFICES ASSUME NEW i \in DOMAIN leaves, Calm, lock = None, leaves[i].mac.nonce # 0,
                    paired[leaves[i].ip] = leaves[i].token, node[leaves[i].ip].nonce # 0
             PROVE  /\ node[leaves[i].ip].nonce = leaves[i].mac.nonce /\ node[leaves[i].ip].jumbo = leaves[i].mac.jumbo
                    /\ leaves[i].mac.mode = "wireguard" => node[leaves[i].ip].mtu = leaves[i].mac.mtu
  BY DEF Agree
<1>1. \A w \in Workers : ~Saving(w)
  BY WorkerAssumption DEF TypeInv, JobsInv, JobInv, Saving
<1>2. Runs(node[leaves[i].ip], leaves[i].mac)
  BY <1>1 DEF AgreeInv, SavedInv
<1> QED
  BY <1>2 DEF Runs

LEMMA AgreeAlways == Spec => [](TypeInv /\ RepliesInv /\ AgreeInv)
  BY TypeInit, TypeStep, RepliesInit, RepliesStep, AgreeInit, AgreeStep, PTL DEF Spec

\* While no call is lost, a leaf that the main router reaches runs what is saved
\* for it, or took it back: whatever list changes, repairs and other requests come
\* between the call of the leaf and the save.
THEOREM LeavesAgree == Spec => []Agree
  BY AgreeAlways, AgreeImplies, PTL

-----------------------------------------------------------------------------
(* No leaf is left behind.                                                 *)

Kept == Calm /\ left["delete"] = Budget["delete"]

\* The leaf's entry has the association it insists on.
Known(ip) == \E i \in DOMAIN leaves : /\ leaves[i].ip = ip /\ leaves[i].token = paired[ip]
                                      /\ leaves[i].mac.nonce = node[ip].nonce

ConfirmedInv == \A ip \in IPs : node[ip].confirmed => node[ip].nonce # 0 /\ Known(ip)

\* A leaf whose association is about to be forgotten has been released, or its entry
\* had none.
ForgottenInv(w) ==
  LET leaf == job[w].leaf IN
  job[w].at = "save" /\ job[w].next.nonce = 0 /\ paired[leaf.ip] = leaf.token
    => ~node[leaf.ip].confirmed /\ (node[leaf.ip].nonce = 0 \/ leaf.mac.nonce = 0)

OrphanInv ==
  Kept => /\ \A w \in Workers : job[w].at \notin {"release", "remove"} /\ ForgottenInv(w)
          /\ ConfirmedInv

\* A confirmed leaf does not become unknown when its entry stays.
LEMMA ConfirmedKept ==
  ASSUME ConfirmedInv, UNCHANGED <<leaves, paired>>,
         \A ip \in IPs : node'[ip].confirmed => node[ip].confirmed /\ node'[ip].nonce = node[ip].nonce
  PROVE  ConfirmedInv'
<1> SUFFICES ASSUME NEW ip \in IPs, node'[ip].confirmed PROVE node'[ip].nonce # 0 /\ Known(ip)'
  BY DEF ConfirmedInv
<1>1. node[ip].confirmed /\ node'[ip].nonce = node[ip].nonce /\ node[ip].nonce # 0 /\ Known(ip)
  BY DEF ConfirmedInv
<1> QED
  BY <1>1 DEF Known

LEMMA OrphanCall ==
  ASSUME TypeInv, RepliesInv, OrphanInv, Kept, NEW w \in Workers, EnableCall(w) \/ TuneCall(w), ~Spend("lost")
  PROVE  OrphanInv'
<1> DEFINE leaf == job[w].leaf
           next == job[w].next
<1>1. /\ lock = w /\ UNCHANGED <<leaves, paired>> /\ \A v \in Workers \ {w} : job'[v] = job[v]
      /\ \/ /\ Accepts(leaf.ip, leaf.token, next)
            /\ job'[w].at = IF job[w].at = "enable" THEN "save" ELSE "tuned"
            /\ job'[w].next = next
         \/ Unanswered /\ job'[w] = Idle
  BY CallTyped
<1>2. leaf.ip \in IPs /\ next \in AssocSet
  BY JobTyped DEF EnableCall, TuneCall, TypeInv
<1>3. job[w].at \in {"enable", "tune"} /\ next.nonce # 0
  <2>1. job[w].at \in {"enable", "tune"}
    BY DEF EnableCall, TuneCall
  <2> QED
    BY <2>1 DEF RepliesInv, ChangeInv, ReplyInv, Changing
<1>4. \A v \in Workers \ {w} : job'[v].at \notin {"release", "remove", "save"}
  <2>1. \A v \in Workers \ {w} : ~Changing(v)
    BY <1>1, OneSaves
  <2> QED
    BY <1>1, <2>1 DEF Changing, OrphanInv
<1>5. /\ job'[w].at \notin {"release", "remove"}
      /\ job'[w].at = "save" => job'[w].next.nonce # 0
  BY <1>1, <1>3 DEF Idle
<1>6. ConfirmedInv'
  <2>1. CASE Accepts(leaf.ip, leaf.token, next)
    <3>1. /\ node'[leaf.ip].nonce = next.nonce
          /\ node'[leaf.ip].confirmed => node[leaf.ip].confirmed /\ node[leaf.ip].nonce = next.nonce
          /\ \A a \in IPs \ {leaf.ip} : node'[a] = node[a]
      BY <1>2, <2>1, AcceptRuns
    <3>2. \A a \in IPs : node'[a].confirmed => node[a].confirmed /\ node'[a].nonce = node[a].nonce
      BY <3>1
    <3> QED
      BY <1>1, <3>2, ConfirmedKept DEF OrphanInv
  <2>2. CASE Unanswered
    BY <1>1, <2>2, ConfirmedKept DEF OrphanInv, Unanswered
  <2> QED
    BY <1>1, <2>1, <2>2
<1> QED
  BY <1>4, <1>5, <1>6 DEF OrphanInv, ForgottenInv

LEMMA OrphanDisable ==
  ASSUME TypeInv, RepliesInv, OrphanInv, Kept, NEW w \in Workers, DisableCall(w), ~Spend("lost")
  PROVE  OrphanInv'
<1> DEFINE leaf == job[w].leaf
<1>1. /\ lock = w /\ UNCHANGED <<leaves, paired>> /\ \A v \in Workers \ {w} : job'[v] = job[v]
      /\ job'[w].at = "save" /\ job'[w].leaf = leaf
      /\ Releases(leaf.ip, leaf.token) \/ (~Authentic(leaf.ip, leaf.token) /\ Unanswered)
  BY ReleaseTyped DEF DisableCall
<1>2. leaf.ip \in IPs
  BY JobTyped DEF DisableCall, TypeInv
<1>3. \A v \in Workers \ {w} : job'[v].at \notin {"release", "remove", "save"}
  <2>1. \A v \in Workers \ {w} : ~Changing(v)
    BY <1>1, OneSaves
  <2> QED
    BY <1>1, <2>1 DEF Changing, OrphanInv
<1>4. \A a \in IPs : node'[a] = Off \/ node'[a] = node[a]
  BY <1>1 DEF Releases, Unanswered, TypeInv, NodeInv
<1>5. paired[leaf.ip] = leaf.token => node'[leaf.ip] = Off
  BY <1>1, <1>2 DEF Releases, Authentic, TypeInv, NodeInv
<1>6. ForgottenInv(w)'
  BY <1>1, <1>5 DEF ForgottenInv, Off
<1>7. ConfirmedInv'
  BY <1>1, <1>4, ConfirmedKept DEF OrphanInv, Off
<1> QED
  BY <1>1, <1>3, <1>6, <1>7 DEF OrphanInv, ForgottenInv

LEMMA OrphanSave ==
  ASSUME TypeInv, RepliesInv, AgreeInv, OrphanInv, Kept, NEW w \in Workers, SetSave(w) \/ TuneSave(w)
  PROVE  OrphanInv'
<1> DEFINE leaf == job[w].leaf
           next == job[w].next
           i == FindAgain(leaf)
<1>1. /\ lock = w /\ UNCHANGED <<node, paired>> /\ job'[w] = Idle /\ \A v \in Workers \ {w} : job'[v] = job[v]
      /\ leaves' = leaves \/ Updated(i, next)
  BY SaveTyped
<1>2. Saving(w) /\ Changing(w) /\ ReplyInv(w)
  BY DEF SetSave, TuneSave, Saving, Changing, RepliesInv, ChangeInv
<1>3. \A v \in Workers : job'[v].at \notin {"release", "remove", "save"}
  <2>1. \A v \in Workers \ {w} : ~Changing(v)
    BY <1>1, OneSaves
  <2> QED
    BY <1>1, <2>1 DEF Changing, OrphanInv, Idle
<1>4. ASSUME NEW ip \in IPs, node[ip].confirmed PROVE node[ip].nonce # 0 /\ Known(ip)'
  <2>1. node[ip].nonce # 0 /\ Known(ip)
    BY <1>4 DEF OrphanInv, ConfirmedInv
  <2>2. PICK k \in DOMAIN leaves : /\ leaves[k].ip = ip /\ leaves[k].token = paired[ip]
                                   /\ leaves[k].mac.nonce = node[ip].nonce
    BY <2>1 DEF Known
  <2>3. CASE leaves'[k] = leaves[k] /\ DOMAIN leaves' = DOMAIN leaves
    BY <1>1, <2>1, <2>2, <2>3 DEF Known
  <2>4. CASE Updated(i, next) /\ k = i
    <3>1. leaves[i].ip = leaf.ip /\ leaves[i].token = leaf.token
      <4>1. i # 0
        BY <2>2, <2>4, LenProperties DEF TypeInv, LeavesInv
      <4> QED
        BY <4>1, FindAgainWorks DEF TypeInv, LeavesInv
    <3>2. paired[leaf.ip] = leaf.token /\ leaf.ip = ip
      BY <2>2, <2>4, <3>1
    <3>3. next.nonce # 0
      <4>1. job[w].at = "tuned" => next.nonce # 0
        BY <1>2 DEF ReplyInv
      <4>2. job[w].at = "save" => next.nonce # 0
        BY <1>4, <3>2 DEF OrphanInv, ForgottenInv
      <4> QED
        BY <1>2, <4>1, <4>2 DEF Saving
    <3>4. node[ip].nonce = next.nonce
      BY <1>2, <2>1, <3>2, <3>3 DEF Kept, AgreeInv, CallInv, Runs
    <3>5. k \in DOMAIN leaves' /\ leaves'[k].ip = ip /\ leaves'[k].token = paired[ip] /\ leaves'[k].mac = next
      BY <2>2, <2>4 DEF Updated
    <3> QED
      BY <1>1, <2>1, <3>4, <3>5 DEF Known
  <2> QED
    BY <1>1, <2>2, <2>3, <2>4 DEF Updated
<1> QED
  BY <1>1, <1>3, <1>4 DEF OrphanInv, ForgottenInv, ConfirmedInv

LEMMA OrphanBegin ==
  ASSUME TypeInv, RepliesInv, OrphanInv, Kept, NEW w \in Workers, Begins(w)
  PROVE  OrphanInv'
<1>1. /\ UNCHANGED <<leaves, node, paired>> /\ job[w] = Idle /\ lock' = w
      /\ \A v \in Workers \ {w} : job'[v] = job[v]
  BY SetBeginTyped, TuneBeginTyped DEF Begins, TypeInv
<1>2. \A v \in Workers \ {w} : job'[v].at \notin {"release", "remove"} /\ ForgottenInv(v)'
  BY <1>1 DEF OrphanInv, ForgottenInv
<1>3. ConfirmedInv'
  BY <1>1, ConfirmedKept DEF OrphanInv
<1>4. job'[w].at \notin {"release", "remove"} /\ ForgottenInv(w)'
  <2>1. ASSUME NEW ip \in IPs, TuneBegin(w, ip) PROVE job'[w].at = "tune"
    BY <2>1, TuneBeginTyped
  <2>2. ASSUME NEW ip \in IPs, NEW enable \in BOOLEAN, NEW mode \in Modes, SetBegin(w, ip, enable, mode)
        PROVE  job'[w].at \notin {"release", "remove"} /\ ForgottenInv(w)'
    <3> DEFINE leaf == leaves[Find(ip)]
    <3>1. /\ Find(ip) \in DOMAIN leaves /\ job'[w].leaf = leaf
          /\ job'[w].at = IF enable THEN "enable" ELSE IF leaf.mac.nonce # 0 THEN "disable" ELSE "save"
      BY <2>2, SetBeginTyped DEF TypeInv
    <3>2. leaf.ip \in IPs
      BY <3>1, LeafTyped DEF TypeInv, EntrySet
    <3>3. ASSUME job'[w].at = "save", paired[leaf.ip] = leaf.token PROVE ~node[leaf.ip].confirmed /\ leaf.mac.nonce = 0
      <4>1. leaf.mac.nonce = 0
        BY <3>1, <3>3
      <4>2. ASSUME node[leaf.ip].confirmed PROVE FALSE
        <5>1. PICK k \in DOMAIN leaves : /\ leaves[k].ip = leaf.ip /\ leaves[k].token = paired[leaf.ip]
                                         /\ leaves[k].mac.nonce # 0
          BY <3>2, <4>2 DEF OrphanInv, ConfirmedInv, Known
        <5>2. k = Find(ip)
          BY <3>1, <3>3, <5>1 DEF RepliesInv, KeysInv, UniqueKeys, SameLeaf
        <5> QED
          BY <4>1, <5>1, <5>2
      <4> QED
        BY <4>1, <4>2
    <3> QED
      BY <1>1, <3>1, <3>3 DEF ForgottenInv
  <2> QED
    BY <2>1, <2>2 DEF Begins, ForgottenInv
<1> QED
  BY <1>2, <1>3, <1>4 DEF OrphanInv

LEMMA OrphanPut ==
  ASSUME TypeInv, RepliesInv, OrphanInv, Kept,
         NEW a \in IPs, NEW token \in Tokens, NEW pending \in BOOLEAN, Put(a, token, pending)
  PROVE  OrphanInv'
<1> DEFINE W == Without(a, token)
<1>1. UNCHANGED <<job, node, paired>>
  BY PutTyped
<1>2. PICK n \in Nat \ {0} :
         /\ DOMAIN leaves' = 1..n /\ leaves'[n].ip = a /\ leaves'[n].token = token
         /\ DOMAIN W = 1..(n - 1) /\ \A k \in DOMAIN W : leaves'[k] = W[k]
         /\ \/ Matches(a, token) = {} /\ leaves'[n].mac = NoAssoc
            \/ \E i \in Matches(a, token) : leaves'[n].mac = leaves[i].mac
  BY PutKeys
<1>3. PICK f \in [DOMAIN W -> DOMAIN leaves] :
        /\ \A k \in DOMAIN W : W[k] = leaves[f[k]]
        /\ \A i \in DOMAIN leaves : ~(leaves[i].ip = a /\ leaves[i].token = token) => \E k \in DOMAIN W : f[k] = i
  BY WithoutKeys
<1> HIDE DEF W
<1>4. ASSUME NEW ip \in IPs, node[ip].confirmed PROVE node[ip].nonce # 0 /\ Known(ip)'
  <2>1. node[ip].nonce # 0 /\ Known(ip)
    BY <1>4 DEF OrphanInv, ConfirmedInv
  <2>2. PICK i \in DOMAIN leaves : /\ leaves[i].ip = ip /\ leaves[i].token = paired[ip]
                                   /\ leaves[i].mac.nonce = node[ip].nonce
    BY <2>1 DEF Known
  <2>3. \E k \in DOMAIN leaves' : /\ leaves'[k].ip = ip /\ leaves'[k].token = paired[ip]
                                  /\ leaves'[k].mac.nonce = node[ip].nonce
    <3>1. CASE leaves[i].ip = a /\ leaves[i].token = token
      <4>1. i \in Matches(a, token) /\ \A k \in Matches(a, token) : k = i
        BY <2>2, <3>1 DEF Matches, RepliesInv, KeysInv, UniqueKeys, SameLeaf
      <4>2. leaves'[n].mac = leaves[i].mac /\ n \in DOMAIN leaves'
        BY <1>2, <4>1
      <4> QED
        BY <1>2, <2>2, <3>1, <4>2
    <3>2. CASE ~(leaves[i].ip = a /\ leaves[i].token = token)
      <4>1. PICK k \in DOMAIN W : f[k] = i
        BY <1>3, <3>2
      <4>2. leaves'[k] = leaves[i] /\ k \in DOMAIN leaves'
        BY <1>2, <1>3, <4>1
      <4> QED
        BY <2>2, <4>2
    <3> QED
      BY <3>1, <3>2
  <2> QED
    BY <1>1, <2>1, <2>3 DEF Known
<1> QED
  BY <1>1, <1>4 DEF OrphanInv, ForgottenInv, ConfirmedInv

LEMMA OrphanLeaf ==
  ASSUME TypeInv, RepliesInv, OrphanInv, Kept, NEW ip \in IPs, NodeConfirms(ip) \/ NodeReverts(ip)
  PROVE  OrphanInv'
<1>1. UNCHANGED <<leaves, job, paired>>
  BY DEF NodeConfirms, NodeReverts
<1>2. \A a \in IPs \ {ip} : node'[a] = node[a]
  BY DEF NodeConfirms, NodeReverts, TypeInv, NodeInv
<1>3. CASE NodeReverts(ip)
  <2>1. node'[ip] = Off
    BY <1>3 DEF NodeReverts, TypeInv, NodeInv
  <2>2. ConfirmedInv'
    BY <1>1, <1>2, <2>1, ConfirmedKept DEF OrphanInv, Off
  <2>3. \A w \in Workers : ForgottenInv(w)'
    <3> SUFFICES ASSUME NEW w \in Workers, job[w].at = "save" PROVE ForgottenInv(w)'
      BY <1>1 DEF ForgottenInv
    <3>1. job[w].leaf.ip \in IPs
      BY JobTyped DEF TypeInv
    <3> QED
      BY <1>1, <1>2, <2>1, <3>1 DEF OrphanInv, ForgottenInv, Off
  <2> QED
    BY <1>1, <2>2, <2>3 DEF OrphanInv
<1>4. CASE NodeConfirms(ip)
  <2>1. node'[ip].nonce = node[ip].nonce /\ node[ip].nonce # 0
    BY <1>4 DEF NodeConfirms, TypeInv, NodeInv, NodeSet
  <2>2. PICK i \in DOMAIN leaves : /\ leaves[i].ip = ip /\ leaves[i].token = paired[ip]
                                   /\ leaves[i].mac.nonce = node[ip].nonce
    BY <1>4 DEF NodeConfirms, Matches
  <2>3. ConfirmedInv'
    <3> SUFFICES ASSUME NEW a \in IPs, node'[a].confirmed PROVE node'[a].nonce # 0 /\ Known(a)'
      BY DEF ConfirmedInv
    <3>1. CASE a = ip
      BY <1>1, <2>1, <2>2, <3>1 DEF Known
    <3>2. CASE a # ip
      BY <1>1, <1>2, <3>2 DEF OrphanInv, ConfirmedInv, Known
    <3> QED
      BY <3>1, <3>2
  <2>4. \A w \in Workers : ForgottenInv(w)'
    <3> SUFFICES ASSUME NEW w \in Workers, job[w].at = "save", job[w].next.nonce = 0,
                        paired[job[w].leaf.ip] = job[w].leaf.token
                 PROVE  ForgottenInv(w)'
      BY <1>1 DEF ForgottenInv
    <3> DEFINE leaf == job[w].leaf
    <3>1. leaf.ip \in IPs
      BY JobTyped DEF TypeInv
    <3>2. ~node[leaf.ip].confirmed /\ (node[leaf.ip].nonce = 0 \/ leaf.mac.nonce = 0)
      BY DEF OrphanInv, ForgottenInv
    <3>3. leaf.ip # ip
      <4> SUFFICES ASSUME leaf.ip = ip PROVE FALSE
        OBVIOUS
      <4>1. SameLeaf(leaves[i], leaf) /\ leaves[i].mac.nonce # 0 /\ leaf.mac.nonce = 0
        BY <2>1, <2>2, <3>2 DEF SameLeaf
      <4>2. EntryStays(w) /\ Changing(w)
        BY DEF RepliesInv, ChangeInv, Changing
      <4> QED
        BY <4>1, <4>2 DEF EntryStays
    <3> QED
      BY <1>1, <1>2, <3>1, <3>2, <3>3 DEF ForgottenInv
  <2> QED
    BY <1>1, <2>3, <2>4 DEF OrphanInv
<1> QED
  BY <1>3, <1>4

LEMMA OrphanRepair ==
  ASSUME TypeInv, OrphanInv, Kept, NEW ip \in IPs, NEW token \in Tokens, Repair(ip, token)
  PROVE  OrphanInv'
<1>1. /\ UNCHANGED <<leaves, job>> /\ paired' = [paired EXCEPT ![ip] = token] /\ node' = [node EXCEPT ![ip] = Off]
  BY DEF Repair
<1>2. /\ node'[ip] = Off
      /\ \A a \in IPs \ {ip} : paired'[a] = paired[a] /\ node'[a] = node[a]
  BY <1>1 DEF TypeInv, NodeInv, RestInv
<1>3. ConfirmedInv'
  <2> SUFFICES ASSUME NEW a \in IPs, node'[a].confirmed PROVE node'[a].nonce # 0 /\ Known(a)'
    BY DEF ConfirmedInv
  <2>1. a # ip
    BY <1>2 DEF Off
  <2> QED
    BY <1>1, <1>2, <2>1 DEF OrphanInv, ConfirmedInv, Known
<1>4. \A w \in Workers : ForgottenInv(w)'
  <2> SUFFICES ASSUME NEW w \in Workers, job[w].at = "save" PROVE ForgottenInv(w)'
    BY <1>1 DEF ForgottenInv
  <2>1. job[w].leaf.ip \in IPs
    BY JobTyped DEF TypeInv
  <2> QED
    BY <1>1, <1>2, <2>1 DEF OrphanInv, ForgottenInv, Off
<1> QED
  BY <1>1, <1>3, <1>4 DEF OrphanInv

LEMMA OrphanStep ==
  ASSUME TypeInv, RepliesInv, AgreeInv, OrphanInv, [Next]_vars
  PROVE  OrphanInv'
<1> SUFFICES ASSUME Kept' PROVE OrphanInv'
  BY DEF OrphanInv
<1>1. Kept
  BY CalmBefore DEF Kept, Calm, Events
<1>2. ~Spend("lost") /\ ~Spend("crash") /\ ~Spend("delete")
  BY SpendTyped DEF Kept, Calm, Events, TypeInv
<1>3. CASE UNCHANGED <<leaves, lock, job, node, paired, left>>
  BY <1>1, <1>3 DEF OrphanInv, ForgottenInv, ConfirmedInv, Known
<1>4. ASSUME NEW w \in Workers, DeleteRelease(w) \/ DeleteRemove(w) PROVE FALSE
  BY <1>1, <1>4 DEF OrphanInv, DeleteRelease, DeleteRemove
<1>5. ASSUME NEW w \in Workers, NEW ip \in IPs, NEW token \in Tokens, DeleteBegin(w, ip, token) PROVE FALSE
  BY <1>2, <1>5 DEF DeleteBegin
<1>6. ~Crash
  BY <1>2 DEF Crash
<1> QED
  BY <1>1, <1>2, <1>3, <1>4, <1>5, <1>6, StepCases, OrphanCall, OrphanDisable, OrphanSave, OrphanBegin,
     OrphanPut, OrphanLeaf, OrphanRepair DEF Puts, Repairs

LEMMA OrphanInit == Init => OrphanInv
  BY DEF Init, OrphanInv, ForgottenInv, ConfirmedInv, Idle, Off

LEMMA OrphanImplies ==
  ASSUME OrphanInv
  PROVE  NoOrphan
  BY DEF OrphanInv, Kept, NoOrphan, Resting, Orphan, ConfirmedInv, Known, Matches

\* As long as no leaf is deleted and no call is lost, no leaf insists on an
\* association that the main router has forgotten.
THEOREM NoLeafOrphaned == Spec => []NoOrphan
<1>1. Spec => []OrphanInv
  BY TypeInit, TypeStep, RepliesInit, RepliesStep, AgreeInit, AgreeStep, OrphanInit, OrphanStep, PTL DEF Spec
<1> QED
  BY <1>1, OrphanImplies, PTL
=============================================================================
