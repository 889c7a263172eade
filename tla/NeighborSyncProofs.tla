------------------------- MODULE NeighborSyncProofs -------------------------
(***************************************************************************)
(* Proofs about NeighborSync, for any number of leaves, access points and  *)
(* networks, any limit on the length of a list, and any outside events.    *)
(***************************************************************************)
EXTENDS NeighborSync, TLAPS

-----------------------------------------------------------------------------
(* Inductive invariants.                                                   *)

Records == [Aps -> SUBSET Keys]

Jobs == [on : BOOLEAN, list : SUBSET BSS, todo : SUBSET BSS, at : SUBSET BSS, done : SUBSET Keys,
         previous : Records]

Rounds == [pc : {"idle", "ask", "apply", "send"}, ask : SUBSET Leaves, all : SUBSET BSS,
           reachable : SUBSET Leaves, wait : SUBSET Leaves]

RadioType ==
  /\ net \in [Aps -> Networks \cup {Off}]
  /\ table \in Records /\ orphan \in Records
  /\ \A a \in Aps : net[a] = Off => table[a] = {}
  /\ \A a \in Aps : \A k \in table[a] : k.bssid # a

JobType == job \in [Nodes -> Jobs] /\ file \in [Nodes -> Records] /\ put \subseteq [to : Leaves, list : SUBSET BSS]

RoundType == round \in Rounds /\ leaves \subseteq Leaves

RenameType == rename \subseteq [todo : SUBSET Aps, ssid : SSIDs]

\* An apply goes through the APs of its own node, each of them once, and has set
\* only what is wanted at the one it is at.
TodoInv ==
  \A n \in Nodes :
    /\ \A b \in job[n].todo : NodeOf[b.ap] = n
    /\ \A b, c \in job[n].todo : b.ap = c.ap => b = c
    /\ \A b \in job[n].at : b \in job[n].todo /\ job[n].done \subseteq Want(b, job[n].list)
    /\ job[n].at = {} => job[n].done = {}

TypeInv == RadioType /\ JobType /\ RoundType /\ RenameType /\ TodoInv

\* What hostapd has been told, by an AP's state: no apply is running, or the running
\* one still knows what it has not taken back, and what it has set where it is.  An
\* AP that is still to do has its old record, less what has been taken back.
Pending(a) == \E b \in job[NodeOf[a]].todo : b.ap = a

Set(a) == IF \E b \in job[NodeOf[a]].at : b.ap = a THEN job[NodeOf[a]].done ELSE {}

Recorded(a) ==
  LET n == NodeOf[a] IN
  IF job[n].on THEN /\ table[a] \subseteq job[n].previous[a] \cup orphan[a] \cup Set(a)
                    /\ Pending(a) => job[n].previous[a] \subseteq file[n][a]
  ELSE table[a] \subseteq file[n][a] \cup orphan[a]

RecordInv == \A a \in Aps : Recorded(a)

\* A list that a node has a part in.
Part(n, list) == \E b \in list : NodeOf[b.ap] = n

PartInv ==
  /\ round.pc # "idle" => Part(Main, round.all)
  /\ \A l \in round.reachable : Part(l, round.all)
  /\ \A m \in put : Part(m.to, m.list)
  /\ \A n \in Nodes : job[n].on => Part(n, job[n].list)

-----------------------------------------------------------------------------
(* The operators of the model.                                             *)

LEMMA InventoryWorks ==
  ASSUME RadioType, NEW n \in Nodes, NEW silent
  PROVE  /\ Inventory(n, silent) \subseteq BSS
         /\ \A b \in Inventory(n, silent) : b.ap \in Aps /\ NodeOf[b.ap] = n
         /\ \A b, c \in Inventory(n, silent) : b.ap = c.ap => b = c
         /\ Inventory(n, silent) # {} => Part(n, Inventory(n, silent))
<1>1. \A a \in Aps : net[a] # Off => net[a] \in Networks
  BY DEF RadioType
<1>2. ASSUME NEW b \in Inventory(n, silent)
      PROVE  b \in BSS /\ b.ap \in Aps /\ NodeOf[b.ap] = n /\ b = [ap |-> b.ap, net |-> net[b.ap]]
  <2>1. PICK a \in Aps : NodeOf[a] = n /\ net[a] # Off /\ b = [ap |-> a, net |-> net[a]]
    BY <1>2 DEF Inventory, ApsOf
  <2> QED
    BY <1>1, <2>1 DEF BSS
<1>3. \A b, c \in Inventory(n, silent) : b.ap = c.ap => b = c
  BY <1>2
<1> QED
  BY <1>2, <1>3 DEF Part

LEMMA WantWorks ==
  ASSUME NEW list \in SUBSET BSS, NEW b
  PROVE  Want(b, list) \subseteq Keys /\ \A k \in Want(b, list) : k.bssid # b.ap
<1> SUFFICES ASSUME NEW k \in Want(b, list) PROVE k \in Keys /\ k.bssid # b.ap
  OBVIOUS
<1>1. PICK p \in list : p.ap # b.ap /\ k = KeyOf(p)
  BY DEF Want
<1>2. p.ap \in Aps /\ p.net \in Networks
  BY DEF BSS
<1>3. p.net.ssid \in SSIDs
  BY <1>2 DEF SSIDs
<1> QED
  BY <1>1, <1>2, <1>3 DEF KeyOf, Keys

LEMMA EmptyTypes ==
  /\ NoFile \in Records /\ \A a \in Aps : NoFile[a] = {}
  /\ NoJob \in Jobs /\ NoJob.on = FALSE /\ NoJob.todo = {} /\ NoJob.list = {}
  /\ NoJob.at = {} /\ NoJob.done = {}
  /\ NoRound \in Rounds /\ NoRound.pc = "idle" /\ NoRound.reachable = {}
<1>1. NoFile \in Records /\ \A a \in Aps : NoFile[a] = {}
  BY DEF NoFile, Records
<1> QED
  BY <1>1 DEF NoJob, Jobs, NoRound, Rounds

LEMMA BeginWorks ==
  ASSUME RadioType, JobType, NEW n \in Nodes, NEW list \in SUBSET BSS, NEW silent
  PROVE  /\ Begin(n, list, silent) \in Jobs
         /\ Begin(n, list, silent).on /\ Begin(n, list, silent).list = list
         /\ Begin(n, list, silent).previous = file[n]
         /\ Begin(n, list, silent).todo = Inventory(n, silent)
         /\ Begin(n, list, silent).at = {} /\ Begin(n, list, silent).done = {}
<1>1. NoJob \in Jobs /\ NoJob.at = {} /\ NoJob.done = {}
  BY EmptyTypes
<1>2. Inventory(n, silent) \in SUBSET BSS /\ file[n] \in Records
  BY InventoryWorks DEF JobType
<1> QED
  BY <1>1, <1>2 DEF Begin, Jobs

-----------------------------------------------------------------------------
(* Types.                                                                  *)

\* The apply of node n is at b, or may begin with it, and goes on with it.
Does(n, b) ==
  /\ n \in Nodes /\ job[n] \in Jobs /\ job[n].on /\ b \in job[n].todo /\ b \in BSS /\ b.ap \in Aps /\ NodeOf[b.ap] = n
  /\ job[n].at \subseteq {b} /\ job[n].done \subseteq Want(b, job[n].list)
  /\ Want(b, job[n].list) \subseteq Keys /\ job[n].previous \in Records
  /\ job' \in [Nodes -> Jobs] /\ \A k \in Nodes \ {n} : job'[k] = job[k]
  /\ job'[n].on /\ job'[n].list = job[n].list

\* One more neighbour is set, one is taken back, or the BSS is done.
Sets(n, b, k) ==
  /\ job'[n].todo = job[n].todo /\ job'[n].at = {b} /\ job'[n].done = job[n].done \cup {k}
  /\ job'[n].previous = job[n].previous

Removes(n, b, k) ==
  /\ job'[n].todo = job[n].todo /\ job'[n].at = {b} /\ job'[n].done = job[n].done
  /\ job'[n].previous = [job[n].previous EXCEPT ![b.ap] = @ \ {k}]

Finishes(n, b) ==
  /\ job'[n].todo = job[n].todo \ {b} /\ job'[n].at = {} /\ job'[n].done = {}
  /\ job'[n].previous = [job[n].previous EXCEPT ![b.ap] = Want(b, job[n].list)]

Applies(n, b) == ApplyNext(n, b) \/ \E k \in Keys : ApplySet(n, b, k) \/ ApplyRemove(n, b, k)

LEMMA DoesWorks ==
  ASSUME JobType, TodoInv, NEW n \in Nodes, NEW b, Applies(n, b)
  PROVE  /\ Does(n, b)
         /\ \A k : ApplySet(n, b, k) => Sets(n, b, k)
         /\ \A k : ApplyRemove(n, b, k) => Removes(n, b, k)
         /\ ApplyNext(n, b) => Finishes(n, b)
<1> DEFINE want == Want(b, job[n].list)
           j == job[n]
           at1 == [j EXCEPT !.at = {b}]
<1>1. job \in [Nodes -> Jobs] /\ j \in Jobs /\ j.on /\ b \in j.todo /\ j.at \subseteq {b}
  BY DEF JobType, Applies, ApplyNext, ApplySet, ApplyRemove, Serves
<1>2. j.list \subseteq BSS /\ j.todo \subseteq BSS /\ j.at \subseteq BSS /\ j.done \subseteq Keys /\ j.previous \in Records
  BY <1>1 DEF Jobs
<1>3. want \subseteq Keys
  BY <1>2, WantWorks
<1>4. b \in BSS /\ b.ap \in Aps /\ NodeOf[b.ap] = n
  BY <1>1, <1>2 DEF BSS, TodoInv
<1>5. j.done \subseteq want
  BY <1>1 DEF TodoInv
<1>6. /\ at1 \in Jobs /\ at1.on = j.on /\ at1.list = j.list /\ at1.todo = j.todo /\ at1.at = {b}
      /\ at1.done = j.done /\ at1.previous = j.previous
  BY <1>1, <1>4 DEF Jobs
<1> HIDE DEF at1
<1>7. ASSUME NEW k, ApplySet(n, b, k) PROVE Does(n, b) /\ Sets(n, b, k)
  <2> DEFINE new == [at1 EXCEPT !.done = j.done \cup {k}]
  <2>1. k \in want
    BY <1>7 DEF ApplySet
  <2>2. /\ new \in Jobs /\ new.on = j.on /\ new.list = j.list /\ new.todo = j.todo /\ new.at = {b}
        /\ new.done = j.done \cup {k} /\ new.previous = j.previous
    BY <1>2, <1>3, <1>6, <2>1 DEF Jobs
  <2> HIDE DEF new
  <2>3. job' = [[job EXCEPT ![n] = at1] EXCEPT ![n] = new]
    BY <1>1, <1>6, <1>7 DEF ApplySet, new, at1
  <2>4. job' \in [Nodes -> Jobs] /\ job'[n] = new /\ \A d \in Nodes \ {n} : job'[d] = job[d]
    BY <1>1, <1>6, <2>2, <2>3
  <2> QED
    BY <1>1, <1>2, <1>3, <1>4, <1>5, <2>2, <2>4 DEF Does, Sets
<1>8. ASSUME NEW k, ApplyRemove(n, b, k) PROVE Does(n, b) /\ Removes(n, b, k)
  <2> DEFINE prev == [j.previous EXCEPT ![b.ap] = @ \ {k}]
             new == [at1 EXCEPT !.previous = prev]
  <2>1. prev \in Records
    BY <1>2, <1>4 DEF Records
  <2> HIDE DEF prev
  <2>2. /\ new \in Jobs /\ new.on = j.on /\ new.list = j.list /\ new.todo = j.todo /\ new.at = {b}
        /\ new.done = j.done /\ new.previous = prev
    BY <1>6, <2>1 DEF Jobs
  <2>5. new = [at1 EXCEPT !.previous[b.ap] = @ \ {k}]
    BY <1>6 DEF prev, Jobs
  <2> HIDE DEF new
  <2>3. job' = [[job EXCEPT ![n] = at1] EXCEPT ![n] = new]
    BY <1>1, <1>6, <1>8, <2>5 DEF ApplyRemove, at1
  <2>4. job' \in [Nodes -> Jobs] /\ job'[n] = new /\ \A d \in Nodes \ {n} : job'[d] = job[d]
    BY <1>1, <1>6, <2>2, <2>3
  <2> QED
    BY <1>1, <1>2, <1>3, <1>4, <1>5, <2>2, <2>4 DEF Does, Removes, prev
<1>9. ASSUME ApplyNext(n, b) PROVE Does(n, b) /\ Finishes(n, b)
  <2> DEFINE prev == [j.previous EXCEPT ![b.ap] = want]
             mid == [j EXCEPT !.todo = j.todo \ {b}, !.at = {}, !.done = {}]
             new == [mid EXCEPT !.previous = prev]
  <2>1. prev \in Records
    BY <1>2, <1>3, <1>4 DEF Records
  <2> HIDE DEF prev
  <2>2. /\ mid \in Jobs /\ mid.on = j.on /\ mid.list = j.list /\ mid.todo = j.todo \ {b} /\ mid.at = {}
        /\ mid.done = {} /\ mid.previous = j.previous
    BY <1>1, <1>2 DEF Jobs
  <2> HIDE DEF mid
  <2>3. /\ new \in Jobs /\ new.on = j.on /\ new.list = j.list /\ new.todo = j.todo \ {b} /\ new.at = {}
        /\ new.done = {} /\ new.previous = prev
    BY <2>1, <2>2 DEF Jobs
  <2>4. new = [mid EXCEPT !.previous[b.ap] = want]
    BY <2>2 DEF prev, Jobs
  <2> HIDE DEF new, want
  <2>5. job' = [[job EXCEPT ![n] = mid] EXCEPT ![n] = new]
    BY <1>1, <1>9, <2>2, <2>4 DEF ApplyNext, mid, want
  <2>6. job' \in [Nodes -> Jobs] /\ job'[n] = new /\ \A d \in Nodes \ {n} : job'[d] = job[d]
    BY <1>1, <2>2, <2>3, <2>5
  <2> QED
    BY <1>1, <1>2, <1>3, <1>4, <1>5, <2>3, <2>6 DEF Does, Finishes, prev, want
<1> QED
  BY <1>7, <1>8, <1>9 DEF Applies

LEMMA AbortWorks ==
  ASSUME NEW n \in Nodes, Abort(n), file \in [Nodes -> Records], table' \in Records, orphan \in Records
  PROVE  /\ orphan' \in Records
         /\ \A a \in Aps : orphan[a] \subseteq orphan'[a]
         /\ \A a \in Aps : NodeOf[a] = n => table'[a] \subseteq file[n][a] \cup orphan'[a]
  BY DEF Abort, Records

LEMMA RadioKept ==
  ASSUME RadioType, JobType, RenameType, TodoInv, [Next]_vars
  PROVE  RadioType'
<1> USE DEF RadioType
<1>0. UNCHANGED <<radio, orphan>> => RadioType'
  BY DEF radio
<1>1. ASSUME NEW n \in Nodes, NEW b, Applies(n, b) PROVE RadioType'
  <2>1. Does(n, b)
    BY <1>1, DoesWorks
  <2>2. job[n].list \in SUBSET BSS /\ b.ap \in Aps /\ job[n].previous \in Records
    BY <2>1 DEF Does, Jobs
  <2>3. Want(b, job[n].list) \subseteq Keys /\ \A k \in Want(b, job[n].list) : k.bssid # b.ap
    BY <2>2, WantWorks
  <2>4. CASE ApplyNext(n, b)
    BY <1>0, <2>4 DEF ApplyNext
  <2>5. ASSUME NEW k, ApplySet(n, b, k) PROVE RadioType'
    <3>1. /\ k \in Keys /\ k.bssid # b.ap /\ net[b.ap] # Off /\ UNCHANGED <<net, orphan>>
          /\ table' = [table EXCEPT ![b.ap] = @ \cup {k}]
      BY <2>3, <2>5 DEF ApplySet
    <3> QED
      BY <2>2, <3>1 DEF Records
  <2>6. ASSUME NEW k, ApplyRemove(n, b, k) PROVE RadioType'
    <3>1. /\ UNCHANGED net
          /\ \/ table' = [table EXCEPT ![b.ap] = @ \ {k}] /\ UNCHANGED orphan
             \/ UNCHANGED table /\ k \in table[b.ap] /\ orphan' = [orphan EXCEPT ![b.ap] = @ \cup {k}]
      BY <2>6 DEF ApplyRemove
    <3> QED
      BY <2>2, <3>1 DEF Records
  <2> QED
    BY <1>1, <2>4, <2>5, <2>6 DEF Applies
<1>2. ASSUME NEW n \in Nodes, NEW b, NEW k, ApplyFails(n, b, k) PROVE RadioType'
  <2> DEFINE want == Want(b, job[n].list)
  <2>1. /\ job[n].list \in SUBSET BSS /\ b \in job[n].todo /\ job[n].todo \subseteq BSS
        /\ file \in [Nodes -> Records] /\ k \in want
    BY <1>2 DEF JobType, Jobs, ApplyFails, Serves
  <2>2. k \in Keys /\ k.bssid # b.ap /\ b.ap \in Aps
    BY <2>1, WantWorks DEF BSS
  <2>3. /\ UNCHANGED net
        /\ \/ UNCHANGED table
           \/ net[b.ap] # Off /\ table' = [table EXCEPT ![b.ap] = @ \cup {k}]
    BY <1>2 DEF ApplyFails
  <2> HIDE DEF want
  <2>4. /\ table' \in Records
        /\ \A a \in Aps : net'[a] = Off => table'[a] = {}
        /\ \A a \in Aps : \A q \in table'[a] : q.bssid # a
    BY <2>2, <2>3 DEF Records
  <2>5. orphan' \in Records
    BY <1>2, <2>1, <2>4, AbortWorks DEF ApplyFails
  <2> QED
    BY <2>3, <2>4, <2>5
<1>3. ASSUME NEW n \in Nodes, ApplySave(n) \/ ApplySaveFails(n) \/ Crash(n) PROVE RadioType'
  <2>1. UNCHANGED radio /\ file \in [Nodes -> Records]
    BY <1>3 DEF ApplySave, ApplySaveFails, Crash, radio, JobType
  <2>2. CASE ApplySaveFails(n)
    <3>1. orphan' \in Records
      BY <2>1, <2>2, AbortWorks DEF ApplySaveFails, radio
    <3> QED
      BY <2>1, <3>1 DEF radio
  <2>3. CASE ApplySave(n) \/ Crash(n)
    <3>1. orphan' \in Records
      BY <2>1, <2>3 DEF ApplySave, Crash, Records
    <3> QED
      BY <2>1, <3>1 DEF radio
  <2> QED
    BY <1>3, <2>2, <2>3
<1>4. ASSUME NEW r \in rename, NEW a \in Aps, SetSSIDCall(r, a) PROVE RadioType'
  <2>1. CASE UNCHANGED <<radio, orphan>>
    BY <1>0, <2>1
  <2>2. CASE ~UNCHANGED <<radio, orphan>>
    <3>1. /\ net[a] # Off /\ net' = [net EXCEPT ![a].ssid = r.ssid]
          /\ table' = [table EXCEPT ![a] = {}] /\ orphan' = [orphan EXCEPT ![a] = {}]
      BY <1>4, <2>2 DEF SetSSIDCall
    <3>2. net[a] \in Networks /\ r.ssid \in SSIDs
      BY <3>1 DEF RenameType
    <3>3. [net[a] EXCEPT !.ssid = r.ssid] \in Networks
      BY <3>2, NetworkAssumption DEF SSIDs
    <3>4. net' = [net EXCEPT ![a] = [net[a] EXCEPT !.ssid = r.ssid]]
      BY <3>1
    <3> QED
      BY <3>1, <3>3, <3>4 DEF Records
  <2> QED
    BY <2>1, <2>2
<1>5. ASSUME NEW a \in Aps, NEW w \in Networks \cup {Off}, ApChanges(a, w) PROVE RadioType'
  BY <1>5 DEF ApChanges, Records
<1>6. CASE RoundStep
  BY <1>0, <1>6 DEF RoundStep, RoundStart, RoundApply, Asked, RoundSkip, RoundSend, RoundEnd, vars
<1>7. ASSUME NEW l \in Leaves, AskFails(l) \/ PutLate(l) \/ LeafListed(l) \/ Arrives(l) PROVE RadioType'
  BY <1>0, <1>7 DEF AskFails, PutLate, LeafListed, Arrives, PutArrives
<1>8. ASSUME NEW m \in put, PutLost(m) PROVE RadioType'
  BY <1>0, <1>8 DEF PutLost
<1>9. CASE (\E s \in SSIDs : SetSSID(s)) \/ UNCHANGED vars
  BY <1>0, <1>9 DEF SetSSID, vars
<1> QED
  BY <1>1, <1>2, <1>3, <1>4, <1>5, <1>6, <1>7, <1>8, <1>9 DEF Next, ApplyStep, Applies, Rename

\* The job of a node is replaced.
LEMMA JobPut ==
  ASSUME JobType, TodoInv, NEW n \in Nodes, NEW j \in Jobs, job' = [job EXCEPT ![n] = j],
         file' \in [Nodes -> Records], put' \subseteq put,
         \A b \in j.todo : NodeOf[b.ap] = n, \A b, c \in j.todo : b.ap = c.ap => b = c,
         j.at = {}, j.done = {}
  PROVE  JobType' /\ TodoInv'
<1>1. job' \in [Nodes -> Jobs] /\ job'[n] = j /\ \A k \in Nodes \ {n} : job'[k] = job[k]
  BY DEF JobType
<1> QED
  BY <1>1 DEF JobType, TodoInv

LEMMA JobsKept ==
  ASSUME TypeInv, [Next]_vars
  PROVE  JobType' /\ TodoInv'
<1>0. RadioType /\ JobType /\ TodoInv /\ RoundType /\ file \in [Nodes -> Records] /\ job \in [Nodes -> Jobs]
  BY DEF TypeInv, JobType
<1>a. UNCHANGED <<file, job>> /\ put' \subseteq put => JobType' /\ TodoInv'
  BY <1>0 DEF JobType, TodoInv
<1>b. ASSUME NEW n \in Nodes, Return(n), UNCHANGED file, put' \subseteq put PROVE JobType' /\ TodoInv'
  BY <1>0, <1>b, JobPut, EmptyTypes DEF Return
<1>1. ASSUME NEW n \in Nodes, NEW b, Applies(n, b) PROVE JobType' /\ TodoInv'
  <2>1. Does(n, b) /\ UNCHANGED <<file, put>>
    BY <1>0, <1>1, DoesWorks DEF Applies, ApplyNext, ApplySet, ApplyRemove
  <2>2. JobType' /\ job'[n].list = job[n].list /\ \A k \in Nodes \ {n} : job'[k] = job[k]
    BY <1>0, <2>1 DEF Does, JobType
  <2>3. /\ \A c \in job[n].todo : NodeOf[c.ap] = n
        /\ \A c, d \in job[n].todo : c.ap = d.ap => c = d
        /\ b \in job[n].todo /\ job[n].done \subseteq Want(b, job[n].list)
    BY <1>0, <2>1 DEF TodoInv, Does
  <2>4. CASE ApplyNext(n, b)
    <3>1. job'[n].todo \subseteq job[n].todo /\ job'[n].at = {} /\ job'[n].done = {}
      BY <1>0, <1>1, <2>4, DoesWorks DEF Finishes
    <3> QED
      BY <1>0, <2>2, <2>3, <3>1 DEF TodoInv
  <2>5. ASSUME NEW k, ApplySet(n, b, k) \/ ApplyRemove(n, b, k) PROVE JobType' /\ TodoInv'
    <3>1. job'[n].todo = job[n].todo /\ job'[n].at = {b} /\ job'[n].done \subseteq Want(b, job'[n].list)
      <4>1. CASE ApplySet(n, b, k)
        <5>1. Sets(n, b, k) /\ k \in Want(b, job[n].list)
          BY <1>0, <1>1, <4>1, DoesWorks DEF ApplySet
        <5> QED
          BY <2>2, <2>3, <5>1 DEF Sets
      <4>2. CASE ApplyRemove(n, b, k)
        <5>1. Removes(n, b, k)
          BY <1>0, <1>1, <4>2, DoesWorks
        <5> QED
          BY <2>2, <2>3, <5>1 DEF Removes
      <4> QED
        BY <2>5, <4>1, <4>2
    <3>2. ASSUME NEW d \in Nodes, d # n PROVE job'[d] = job[d]
      BY <2>2, <3>2
    <3>3. /\ \A c \in job'[n].todo : NodeOf[c.ap] = n
          /\ \A c, d \in job'[n].todo : c.ap = d.ap => c = d
          /\ \A c \in job'[n].at : c \in job'[n].todo /\ job'[n].done \subseteq Want(c, job'[n].list)
          /\ job'[n].at # {}
      BY <2>3, <3>1
    <3>4. TodoInv'
      <4>1. ASSUME NEW d \in Nodes
            PROVE  /\ \A c \in job'[d].todo : NodeOf[c.ap] = d
                   /\ \A c, e \in job'[d].todo : c.ap = e.ap => c = e
                   /\ \A c \in job'[d].at : c \in job'[d].todo /\ job'[d].done \subseteq Want(c, job'[d].list)
                   /\ job'[d].at = {} => job'[d].done = {}
        <5>1. CASE d = n
          BY <3>3, <5>1
        <5>2. CASE d # n
          BY <1>0, <3>2, <5>2 DEF TodoInv
        <5> QED
          BY <5>1, <5>2
      <4> QED
        BY <4>1 DEF TodoInv, Want
    <3> QED
      BY <2>2, <3>4
  <2> QED
    BY <1>1, <2>4, <2>5 DEF Applies
<1>2. ASSUME NEW n \in Nodes, NEW b, NEW k, ApplyFails(n, b, k) PROVE JobType' /\ TodoInv'
  BY <1>b, <1>2 DEF ApplyFails, Abort
<1>3. ASSUME NEW n \in Nodes, ApplySave(n) PROVE JobType' /\ TodoInv'
  <2>1. job' = [job EXCEPT ![n] = NoJob] /\ file' = [file EXCEPT ![n] = job[n].previous] /\ UNCHANGED put
    BY <1>3 DEF ApplySave, Return
  <2>2. file' \in [Nodes -> Records]
    BY <1>0, <2>1 DEF Jobs
  <2> QED
    BY <1>0, <2>1, <2>2, JobPut, EmptyTypes
<1>4. ASSUME NEW n \in Nodes, ApplySaveFails(n) PROVE JobType' /\ TodoInv'
  BY <1>b, <1>4 DEF ApplySaveFails, Abort
<1>5. ASSUME NEW n \in Nodes, Crash(n) PROVE JobType' /\ TodoInv'
  <2>1. job' = [job EXCEPT ![n] = NoJob] /\ UNCHANGED file /\ put' \subseteq put
    BY <1>5 DEF Crash
  <2> QED
    BY <1>0, <2>1, JobPut, EmptyTypes
<1>6. ASSUME NEW s, RoundApply(s) PROVE JobType' /\ TodoInv'
  <2>1. CASE TooMany(round.all)
    BY <1>6, <1>a, <2>1 DEF RoundApply
  <2>2. CASE ~TooMany(round.all)
    <3> DEFINE new == Begin(Main, round.all, s)
    <3>1. job' = [job EXCEPT ![Main] = new] /\ UNCHANGED <<file, put>> /\ Main \in Nodes
      BY <1>6, <2>2 DEF RoundApply, Nodes
    <3>2. round.all \in SUBSET BSS
      BY <1>0 DEF RoundType, Rounds
    <3>3. /\ new \in Jobs
          /\ new.todo = Inventory(Main, s) /\ new.at = {} /\ new.done = {}
      BY <1>0, <3>1, <3>2, BeginWorks
    <3>4. /\ \A b \in Inventory(Main, s) : NodeOf[b.ap] = Main
          /\ \A b, c \in Inventory(Main, s) : b.ap = c.ap => b = c
      BY <1>0, <3>1, InventoryWorks
    <3> HIDE DEF new
    <3>5. /\ \A b \in new.todo : NodeOf[b.ap] = Main
          /\ \A b, c \in new.todo : b.ap = c.ap => b = c
      BY <3>3, <3>4
    <3>6. file' \in [Nodes -> Records] /\ put' \subseteq put
      BY <1>0, <3>1
    <3> QED
      BY <1>0, <3>1, <3>3, <3>5, <3>6, JobPut
  <2> QED
    BY <2>1, <2>2
<1>7. ASSUME NEW m \in put, NEW s, PutArrives(m, s) PROVE JobType' /\ TodoInv'
  <2>1. m.to \in Leaves /\ m.list \in SUBSET BSS /\ m.to \in Nodes
    BY <1>0 DEF JobType, Nodes
  <2>2. CASE TooMany(m.list)
    BY <1>b, <1>7, <2>1, <2>2 DEF PutArrives
  <2>3. CASE ~TooMany(m.list)
    <3> DEFINE new == Begin(m.to, m.list, s)
    <3>1. job' = [job EXCEPT ![m.to] = new] /\ UNCHANGED file /\ put' \subseteq put
      BY <1>7, <2>3 DEF PutArrives
    <3>3. /\ new \in Jobs
          /\ new.todo = Inventory(m.to, s) /\ new.at = {} /\ new.done = {}
      <4>1. ASSUME NEW k \in Nodes, NEW list \in SUBSET BSS, NEW begin, begin = Begin(k, list, s)
            PROVE  begin \in Jobs /\ begin.todo = Inventory(k, s) /\ begin.at = {} /\ begin.done = {}
        BY <1>0, <4>1, BeginWorks
      <4> QED
        BY <2>1, <4>1
    <3>4. /\ \A b \in Inventory(m.to, s) : NodeOf[b.ap] = m.to
          /\ \A b, c \in Inventory(m.to, s) : b.ap = c.ap => b = c
      BY <1>0, <2>1, InventoryWorks
    <3> HIDE DEF new
    <3>5. /\ \A b \in new.todo : NodeOf[b.ap] = m.to
          /\ \A b, c \in new.todo : b.ap = c.ap => b = c
      BY <3>3, <3>4
    <3>6. file' \in [Nodes -> Records] /\ put' \subseteq put
      BY <1>0, <3>1
    <3> QED
      BY <1>0, <2>1, <3>1, <3>3, <3>5, <3>6, JobPut
  <2> QED
    BY <2>2, <2>3
<1>8. CASE RoundSend
  <2>1. /\ put' = put \cup {[to |-> l, list |-> round.all] : l \in round.reachable} /\ UNCHANGED <<file, job>>
        /\ round.reachable \subseteq Leaves /\ round.all \subseteq BSS
    BY <1>0, <1>8 DEF RoundSend, RoundType, Rounds
  <2> QED
    BY <1>0, <2>1 DEF JobType, TodoInv
<1>9. CASE (\E s : RoundStart(s)) \/ (\E l, s : Asked(l, s)) \/ RoundSkip \/ RoundEnd
  BY <1>9, <1>a DEF RoundStart, Asked, RoundSkip, RoundEnd, vars
<1>10. ASSUME NEW l \in Leaves, AskFails(l) \/ PutLate(l) \/ LeafListed(l) PROVE JobType' /\ TodoInv'
  BY <1>10, <1>a DEF AskFails, PutLate, LeafListed
<1>11. ASSUME NEW m \in put, PutLost(m) PROVE JobType' /\ TodoInv'
  BY <1>11, <1>a DEF PutLost
<1>12. CASE (\E r, a : SetSSIDCall(r, a)) \/ (\E a, w : ApChanges(a, w)) \/ (\E s : SetSSID(s)) \/ UNCHANGED vars
  BY <1>12, <1>a DEF SetSSIDCall, ApChanges, SetSSID, vars
<1> QED
  BY <1>1, <1>2, <1>3, <1>4, <1>5, <1>6, <1>7, <1>8, <1>9, <1>10, <1>11, <1>12
     DEF Next, ApplyStep, Applies, Rename, RoundStep, Arrives

LEMMA RoundKept ==
  ASSUME TypeInv, [Next]_vars
  PROVE  RoundType' /\ RenameType'
<1> USE DEF RoundType, RenameType
<1>0. RadioType /\ RoundType /\ RenameType /\ round \in Rounds
  BY DEF TypeInv
<1>a. UNCHANGED <<leaves, round, rename>> => RoundType' /\ RenameType'
  BY <1>0
<1>b. \A S \in SUBSET Leaves :
        /\ [round EXCEPT !.ask = S] \in Rounds /\ [round EXCEPT !.wait = S] \in Rounds
        /\ [round EXCEPT !.pc = "send", !.wait = S] \in Rounds
  BY <1>0 DEF Rounds
<1>c. ASSUME NEW S \in SUBSET Leaves, UNCHANGED <<leaves, rename>>,
             round' = [round EXCEPT !.wait = S] \/ round' = [round EXCEPT !.ask = S]
      PROVE  RoundType' /\ RenameType'
  BY <1>0, <1>b, <1>c
<1>d. \A s : \A n \in Nodes : Inventory(n, s) \in SUBSET BSS
  BY <1>0, InventoryWorks
<1>e. round.wait \subseteq Leaves /\ round.ask \subseteq Leaves /\ round.reachable \subseteq Leaves /\ round.all \subseteq BSS
  BY <1>0 DEF Rounds
<1>f. \A x : round.wait \ {x} \in SUBSET Leaves /\ round.ask \ {x} \in SUBSET Leaves
  BY <1>e
<1>1. ASSUME NEW n \in Nodes, Return(n), UNCHANGED <<leaves, rename>> PROVE RoundType' /\ RenameType'
  <2>1. round' = [round EXCEPT !.wait = round.wait \ {n}] /\ round.wait \ {n} \in SUBSET Leaves
    BY <1>1, <1>f DEF Return
  <2> QED
    BY <1>1, <1>c, <2>1
<1>2. ASSUME NEW n \in Nodes, ApplyStep(n) PROVE RoundType' /\ RenameType'
  <2>1. CASE \E b : Applies(n, b)
    BY <1>a, <2>1 DEF Applies, ApplyNext, ApplySet, ApplyRemove
  <2>2. CASE ApplySave(n) \/ ApplySaveFails(n) \/ \E b, k : ApplyFails(n, b, k)
    BY <1>1, <2>2 DEF ApplySave, ApplySaveFails, ApplyFails, Abort
  <2> QED
    BY <1>2, <2>1, <2>2 DEF ApplyStep, Applies
<1>3. ASSUME NEW s, RoundStart(s) PROVE RoundType' /\ RenameType'
  <2>1. round' = [NoRound EXCEPT !.pc = "ask", !.ask = leaves, !.all = Inventory(Main, s)] /\ UNCHANGED <<leaves, rename>>
    BY <1>3 DEF RoundStart
  <2>2. Inventory(Main, s) \in SUBSET BSS
    BY <1>d DEF Nodes
  <2> QED
    BY <1>0, <2>1, <2>2 DEF NoRound, Rounds
<1>4. ASSUME NEW l \in Leaves, NEW s, Asked(l, s) PROVE RoundType' /\ RenameType'
  <2>1. /\ UNCHANGED <<leaves, rename>>
        /\ round' = [round EXCEPT !.ask = @ \ {l}, !.all = @ \cup Inventory(l, s),
                                  !.reachable = IF Inventory(l, s) = {} THEN @ ELSE @ \cup {l}]
    BY <1>4 DEF Asked
  <2>2. Inventory(l, s) \in SUBSET BSS
    BY <1>d DEF Nodes
  <2> QED
    BY <1>0, <2>1, <2>2 DEF Rounds
<1>5. ASSUME NEW s, RoundApply(s) PROVE RoundType' /\ RenameType'
  BY <1>0, <1>5 DEF RoundApply, Rounds
<1>6. CASE RoundSend
  BY <1>0, <1>6, <1>b, <1>e DEF RoundSend
<1>7. CASE RoundEnd \/ RoundSkip
  BY <1>0, <1>7, EmptyTypes DEF RoundEnd, RoundSkip, vars
<1>8. ASSUME NEW l \in Leaves, AskFails(l) \/ PutLate(l) PROVE RoundType' /\ RenameType'
  <2>1. /\ UNCHANGED <<leaves, rename>>
        /\ round' = [round EXCEPT !.wait = round.wait \ {l}] \/ round' = [round EXCEPT !.ask = round.ask \ {l}]
    BY <1>8 DEF AskFails, PutLate
  <2>2. round.wait \ {l} \in SUBSET Leaves /\ round.ask \ {l} \in SUBSET Leaves
    BY <1>f
  <2> QED
    BY <1>c, <2>1, <2>2
<1>9. ASSUME NEW l \in Leaves, LeafListed(l) PROVE RoundType' /\ RenameType'
  BY <1>0, <1>9 DEF LeafListed
<1>10. ASSUME NEW m \in put, PutLost(m) PROVE RoundType' /\ RenameType'
  <2> DEFINE S == round.wait \ {m.to}
  <2>1. round' = [round EXCEPT !.wait = S] /\ UNCHANGED <<leaves, rename>>
    BY <1>10 DEF PutLost
  <2>2. S \in SUBSET Leaves
    BY <1>f
  <2> HIDE DEF S
  <2> QED
    BY <1>c, <2>1, <2>2
<1>11. ASSUME NEW m \in put, NEW s, PutArrives(m, s) PROVE RoundType' /\ RenameType'
  <2>1. m.to \in Nodes
    BY DEF TypeInv, JobType, Nodes
  <2> QED
    BY <1>1, <1>11, <1>a, <2>1 DEF PutArrives
<1>12. ASSUME NEW n \in Nodes, Crash(n) PROVE RoundType' /\ RenameType'
  BY <1>0, <1>12, <1>b, <1>f, EmptyTypes DEF Crash
<1>13. ASSUME NEW s \in SSIDs, SetSSID(s) PROVE RoundType' /\ RenameType'
  <2> DEFINE todo == {a \in Aps : NodeOf[a] \in leaves}
  <2>1. rename' = rename \cup {[todo |-> todo, ssid |-> s]} /\ UNCHANGED <<leaves, round>>
    BY <1>13 DEF SetSSID
  <2>2. todo \in SUBSET Aps
    OBVIOUS
  <2> HIDE DEF todo
  <2> QED
    BY <1>0, <2>1, <2>2
<1>14. ASSUME NEW r \in rename, NEW a, SetSSIDCall(r, a) PROVE RoundType' /\ RenameType'
  <2>1. rename' \subseteq rename \cup {[r EXCEPT !.todo = @ \ {a}]} /\ UNCHANGED <<leaves, round>>
    BY <1>14 DEF SetSSIDCall
  <2>2. [r EXCEPT !.todo = @ \ {a}] \in [todo : SUBSET Aps, ssid : SSIDs]
    BY <1>0
  <2> QED
    BY <1>0, <2>1, <2>2
<1>15. CASE (\E a, w : ApChanges(a, w)) \/ UNCHANGED vars
  BY <1>15, <1>a DEF ApChanges, vars
<1> QED
  BY <1>2, <1>3, <1>4, <1>5, <1>6, <1>7, <1>8, <1>9, <1>10, <1>11, <1>12, <1>13, <1>14, <1>15
     DEF Next, Rename, RoundStep, Arrives

LEMMA InitTypes == Init => TypeInv
<1> SUFFICES ASSUME Init PROVE TypeInv
  OBVIOUS
<1> USE EmptyTypes, NodeAssumption, NetworkAssumption DEF Init
<1>1. RadioType
  BY DEF RadioType
<1>2. JobType /\ TodoInv
  BY DEF JobType, TodoInv
<1>3. RoundType /\ RenameType
  BY DEF RoundType, RenameType
<1> QED
  BY <1>1, <1>2, <1>3 DEF TypeInv

LEMMA TypesKept ==
  ASSUME TypeInv, [Next]_vars
  PROVE  TypeInv'
  BY RadioKept, JobsKept, RoundKept DEF TypeInv

\* The records, tables and lists keep to their types, and an AP is never told that it
\* is its own neighbour.
THEOREM NeighborTypes == Spec => []TypeOK
<1>1. TypeInv => TypeOK
  BY DEF TypeInv, TypeOK, RadioType, JobType, RoundType, Records, Jobs, Rounds
<1> QED
  BY <1>1, InitTypes, TypesKept, PTL DEF Spec

-----------------------------------------------------------------------------
(* What is set in hostapd is on record.                                    *)

\* Nothing that concerns an AP has changed.
LEMMA RecordSame ==
  ASSUME NEW a \in Aps, Recorded(a), table'[a] = table[a], orphan'[a] = orphan[a],
         file'[NodeOf[a]] = file[NodeOf[a]], job'[NodeOf[a]] = job[NodeOf[a]]
  PROVE  Recorded(a)'
  BY DEF Recorded, Pending, Set

LEMMA RecordsKept ==
  ASSUME TypeInv, RecordInv, [Next]_vars
  PROVE  RecordInv'
<1> SUFFICES ASSUME NEW a \in Aps PROVE Recorded(a)'
  BY DEF RecordInv
<1> DEFINE n == NodeOf[a]
<1>0. /\ RadioType /\ JobType /\ TodoInv /\ RoundType
      /\ n \in Nodes /\ Recorded(a) /\ job \in [Nodes -> Jobs] /\ file \in [Nodes -> Records]
      /\ table \in Records /\ orphan \in Records
  BY NodeAssumption DEF TypeInv, RecordInv, JobType, RadioType
<1>a. UNCHANGED <<radio, orphan, file, job>> => Recorded(a)'
  BY <1>0, RecordSame DEF radio
<1>b. ASSUME NEW k \in Nodes, k # n, job' = [job EXCEPT ![k] = job'[k]], UNCHANGED <<file, radio, orphan>>
      PROVE  Recorded(a)'
  BY <1>0, <1>b, RecordSame DEF radio
\* Without a running apply: what is set is on file or orphaned.
<1>c. ASSUME ~job'[n].on, table'[a] \subseteq file'[n][a] \cup orphan'[a]
      PROVE  Recorded(a)'
  BY <1>c DEF Recorded
<1>d. /\ table[a] \subseteq Keys
      /\ job[n].on => table[a] \subseteq file[n][a] \cup orphan[a] \cup table[a]
      /\ ~job[n].on => table[a] \subseteq file[n][a] \cup orphan[a]
  BY <1>0 DEF Recorded, Records
<1>1. ASSUME NEW k \in Nodes, NEW b, Applies(k, b) PROVE Recorded(a)'
  <2>1. Does(k, b) /\ UNCHANGED file
    BY <1>0, <1>1, DoesWorks DEF Applies, ApplyNext, ApplySet, ApplyRemove
  <2> DEFINE want == Want(b, job[k].list)
  <2>2. CASE k # n
    <3>1. job'[n] = job[n] /\ b.ap # a
      BY <1>0, <2>1, <2>2 DEF Does
    <3>2. table'[a] = table[a] /\ orphan'[a] = orphan[a]
      BY <1>0, <1>1, <2>1, <3>1 DEF Applies, ApplyNext, ApplySet, ApplyRemove, Records, radio
    <3> QED
      BY <1>0, <2>1, <3>1, <3>2, RecordSame
  <2>3. CASE k = n /\ b.ap # a
    <3>1. table'[a] = table[a] /\ orphan'[a] = orphan[a]
      BY <1>0, <1>1, <2>1, <2>3 DEF Applies, ApplyNext, ApplySet, ApplyRemove, Records, radio
    <3> DEFINE Same == /\ job'[n].at \subseteq {b} /\ job'[n].previous[a] = job[n].previous[a]
                       /\ \A c : c # b => (c \in job'[n].todo <=> c \in job[n].todo)
    <3>2. job[n].on /\ job'[n].on /\ job[n].at \subseteq {b} /\ Same
      <4>1. job[n].on /\ job'[n].on /\ job[n].at \subseteq {b} /\ job[n].previous \in Records
        BY <2>1, <2>3 DEF Does
      <4>2. CASE ApplyNext(n, b)
        <5>1. Finishes(n, b)
          BY <1>0, <1>1, <2>3, <4>2, DoesWorks
        <5> QED
          BY <2>3, <4>1, <5>1 DEF Finishes, Records
      <4>3. ASSUME NEW q, ApplySet(n, b, q) PROVE Same
        <5>1. Sets(n, b, q)
          BY <1>0, <1>1, <2>3, <4>3, DoesWorks
        <5> QED
          BY <2>3, <4>1, <5>1 DEF Sets, Records
      <4>4. ASSUME NEW q, ApplyRemove(n, b, q) PROVE Same
        <5>1. Removes(n, b, q)
          BY <1>0, <1>1, <2>3, <4>4, DoesWorks
        <5> QED
          BY <2>3, <4>1, <5>1 DEF Removes, Records
      <4> QED
        BY <1>1, <2>3, <4>1, <4>2, <4>3, <4>4 DEF Applies
    <3>3. Set(a) = {} /\ Set(a)' = {} /\ (Pending(a)' <=> Pending(a))
      BY <2>3, <3>2 DEF Set, Pending
    <3> QED
      BY <1>0, <2>1, <3>1, <3>2, <3>3 DEF Recorded
  <2>4. CASE k = n /\ b.ap = a
    <3>1. /\ job[n].on /\ job'[n].on /\ Pending(a) /\ job[n].previous \in Records
          /\ job[n].at \subseteq {b} /\ job[n].done \subseteq want
      BY <2>1, <2>4 DEF Does, Pending
    <3>2. /\ table[a] \subseteq job[n].previous[a] \cup orphan[a] \cup Set(a)
          /\ job[n].previous[a] \subseteq file[n][a]
      BY <1>0, <3>1 DEF Recorded
    <3>3. Set(a) \subseteq job[n].done
      BY DEF Set
    <3> HIDE DEF want
    <3>4. CASE ApplyNext(n, b)
      <4>1. /\ job'[n].todo = job[n].todo \ {b} /\ job'[n].at = {}
            /\ job'[n].previous = [job[n].previous EXCEPT ![b.ap] = want]
        BY <1>0, <1>1, <2>4, <3>4, DoesWorks DEF Finishes, want
      <4>2. job[n].previous[a] \subseteq want /\ UNCHANGED <<table, orphan>>
        BY <2>4, <3>4 DEF ApplyNext, radio, want
      <4>3. job'[n].previous[a] = want
        BY <2>4, <3>1, <4>1 DEF Records
      <4>4. ~Pending(a)'
        BY <1>0, <2>1, <2>4, <4>1 DEF Pending, TodoInv, Does
      <4>5. table'[a] \subseteq job'[n].previous[a] \cup orphan'[a]
        BY <3>1, <3>2, <3>3, <4>2, <4>3
      <4> QED
        BY <3>1, <4>4, <4>5 DEF Recorded
    <3>5. ASSUME NEW q, ApplySet(n, b, q) PROVE Recorded(a)'
      <4>1. Sets(n, b, q) /\ table' = [table EXCEPT ![b.ap] = @ \cup {q}] /\ UNCHANGED orphan
        BY <1>0, <1>1, <2>4, <3>5, DoesWorks DEF ApplySet
      <4>2. table'[a] = table[a] \cup {q} /\ Set(a)' = job[n].done \cup {q}
        BY <1>0, <2>4, <4>1 DEF Sets, Records, Set
      <4> QED
        BY <2>1, <3>1, <3>2, <3>3, <4>1, <4>2 DEF Recorded, Sets
    <3>6. ASSUME NEW q, ApplyRemove(n, b, q) PROVE Recorded(a)'
      <4>1. /\ Removes(n, b, q)
            /\ \/ table' = [table EXCEPT ![b.ap] = @ \ {q}] /\ UNCHANGED orphan
               \/ UNCHANGED table /\ orphan' = [orphan EXCEPT ![b.ap] = @ \cup {q}]
        BY <1>0, <1>1, <2>4, <3>6, DoesWorks DEF ApplyRemove
      <4>2. /\ \/ table'[a] = table[a] \ {q} /\ orphan'[a] = orphan[a]
               \/ table'[a] = table[a] /\ orphan'[a] = orphan[a] \cup {q}
            /\ Set(a)' = job[n].done /\ job'[n].previous[a] = job[n].previous[a] \ {q}
        BY <1>0, <2>4, <3>1, <4>1 DEF Removes, Records, Set
      <4> QED
        BY <2>1, <3>1, <3>2, <3>3, <4>2 DEF Recorded
    <3> QED
      BY <1>1, <2>4, <3>4, <3>5, <3>6 DEF Applies
  <2> QED
    BY <2>2, <2>3, <2>4
<1>2. ASSUME NEW k \in Nodes, Abort(k), UNCHANGED file, table' \in Records,
             NodeOf[a] # k => table'[a] = table[a]
      PROVE  Recorded(a)'
  <2>1. job' = [job EXCEPT ![k] = NoJob]
    BY <1>2 DEF Abort, Return
  <2>2. CASE n = k
    <3>1. table'[a] \subseteq file[n][a] \cup orphan'[a]
      BY <1>0, <1>2, <2>2, AbortWorks
    <3>2. ~job'[n].on
      BY <1>0, <2>1, <2>2, EmptyTypes
    <3> QED
      BY <1>2, <1>c, <3>1, <3>2
  <2>3. CASE n # k
    <3>1. job'[n] = job[n] /\ orphan'[a] = orphan[a] /\ table'[a] = table[a]
      BY <1>0, <1>2, <2>1, <2>3 DEF Abort
    <3> QED
      BY <1>0, <1>2, <3>1, RecordSame
  <2> QED
    BY <2>2, <2>3
<1>3. ASSUME NEW k \in Nodes, NEW b, NEW q, ApplyFails(k, b, q) PROVE Recorded(a)'
  <2>1. b \in job[k].todo /\ Abort(k) /\ UNCHANGED file
    BY <1>3 DEF ApplyFails, Serves
  <2>2. NodeOf[b.ap] = k /\ table' \in Records
    BY <1>0, <2>1, RadioKept DEF TodoInv, TypeInv, RadioType
  <2>3. a # b.ap => table'[a] = table[a]
    BY <1>0, <1>3 DEF ApplyFails, Records
  <2> QED
    BY <1>2, <2>1, <2>2, <2>3
<1>4. ASSUME NEW k \in Nodes, ApplySaveFails(k) PROVE Recorded(a)'
  BY <1>0, <1>2, <1>4 DEF ApplySaveFails
<1>5. ASSUME NEW k \in Nodes, ApplySave(k) PROVE Recorded(a)'
  <2>1. /\ job[k].on /\ job[k].todo = {} /\ file' = [file EXCEPT ![k] = job[k].previous] /\ UNCHANGED table
        /\ job' = [job EXCEPT ![k] = NoJob]
        /\ orphan'[a] = IF n = k THEN orphan[a] \ job[k].previous[a] ELSE orphan[a]
    BY <1>5 DEF ApplySave, Return, radio
  <2>2. CASE n = k
    <3>1. table[a] \subseteq job[n].previous[a] \cup orphan[a]
      <4>1. Set(a) = {}
        BY <1>0, <2>1, <2>2 DEF TodoInv, Set
      <4> QED
        BY <1>0, <2>1, <2>2, <4>1 DEF Recorded
    <3>2. ~job'[n].on /\ file'[n] = job[n].previous
      BY <1>0, <2>1, <2>2, EmptyTypes
    <3>3. table'[a] \subseteq file'[n][a] \cup orphan'[a]
      BY <2>1, <2>2, <3>1, <3>2
    <3> QED
      BY <1>c, <3>2, <3>3
  <2>3. CASE n # k
    BY <1>0, <2>1, <2>3, RecordSame
  <2> QED
    BY <2>2, <2>3
<1>6. ASSUME NEW k \in Nodes, Crash(k) PROVE Recorded(a)'
  <2>1. /\ UNCHANGED <<table, file>> /\ job' = [job EXCEPT ![k] = NoJob]
        /\ orphan'[a] = IF n = k /\ job[k].on THEN orphan[a] \cup (table[a] \ file[k][a]) ELSE orphan[a]
    BY <1>6 DEF Crash, radio
  <2>2. CASE n = k
    <3>1. ~job'[n].on
      BY <1>0, <2>1, <2>2, EmptyTypes
    <3>2. table[a] \subseteq file[n][a] \cup orphan'[a]
      BY <1>d, <2>1, <2>2
    <3> QED
      BY <1>c, <2>1, <3>1, <3>2
  <2>3. CASE n # k
    BY <1>0, <2>1, <2>3, RecordSame
  <2> QED
    BY <2>2, <2>3
<1>7. ASSUME NEW k \in Nodes, NEW list \in SUBSET BSS, NEW s, ~job[k].on,
             job' = [job EXCEPT ![k] = Begin(k, list, s)], UNCHANGED <<file, radio, orphan>>
      PROVE  Recorded(a)'
  <2> DEFINE new == Begin(k, list, s)
  <2>1. new.on /\ new.previous = file[k] /\ new \in Jobs /\ new.at = {}
    BY <1>0, BeginWorks
  <2> HIDE DEF new
  <2>2. CASE n = k
    <3>1. job'[n] = new
      BY <1>0, <1>7, <2>2 DEF new
    <3>2. table'[a] \subseteq file'[n][a] \cup orphan'[a] /\ job'[n].previous[a] = file'[n][a]
      BY <1>7, <1>d, <2>1, <2>2, <3>1 DEF radio
    <3> QED
      BY <2>1, <3>1, <3>2 DEF Recorded
  <2>3. CASE n # k
    <3>1. job'[n] = job[n]
      BY <1>0, <1>7, <2>3
    <3> QED
      BY <1>0, <1>7, <3>1, RecordSame DEF radio
  <2> QED
    BY <2>2, <2>3
<1>8. ASSUME NEW s, RoundApply(s) PROVE Recorded(a)'
  <2>1. ~job[Main].on /\ UNCHANGED <<file, radio, orphan>> /\ Main \in Nodes /\ round.all \in SUBSET BSS
    BY <1>0, <1>8 DEF RoundApply, Nodes, RoundType, Rounds
  <2>2. UNCHANGED job \/ job' = [job EXCEPT ![Main] = Begin(Main, round.all, s)]
    BY <1>8 DEF RoundApply
  <2> QED
    BY <1>7, <1>a, <2>1, <2>2
<1>9. ASSUME NEW m \in put, NEW s, PutArrives(m, s) PROVE Recorded(a)'
  <2>1. m.to \in Nodes /\ m.list \in SUBSET BSS /\ ~job[m.to].on /\ UNCHANGED <<file, radio, orphan>>
    BY <1>0, <1>9 DEF PutArrives, JobType, Nodes
  <2>2. job' = [job EXCEPT ![m.to] = NoJob] \/ job' = [job EXCEPT ![m.to] = Begin(m.to, m.list, s)]
    BY <1>9 DEF PutArrives, Return
  <2>3. CASE job' = [job EXCEPT ![m.to] = NoJob]
    <3>1. CASE n = m.to
      <4>1. ~job'[n].on
        BY <1>0, <2>3, <3>1, EmptyTypes
      <4> QED
        BY <1>c, <1>d, <2>1, <3>1, <4>1 DEF radio
    <3>2. CASE n # m.to
      <4>1. job'[n] = job[n]
        BY <1>0, <2>3, <3>2
      <4> QED
        BY <1>0, <2>1, <4>1, RecordSame DEF radio
    <3> QED
      BY <3>1, <3>2
  <2> QED
    BY <1>7, <2>1, <2>2, <2>3
<1>10. ASSUME NEW x \in Aps, UNCHANGED <<file, job>>,
              UNCHANGED <<radio, orphan>> \/ (table' = [table EXCEPT ![x] = {}] /\ orphan' = [orphan EXCEPT ![x] = {}])
       PROVE  Recorded(a)'
  <2>1. CASE UNCHANGED <<radio, orphan>>
    BY <1>10, <1>a, <2>1
  <2>2. CASE table' = [table EXCEPT ![x] = {}] /\ orphan' = [orphan EXCEPT ![x] = {}]
    <3>1. CASE x = a
      <4>1. table'[a] = {}
        BY <1>0, <2>2, <3>1 DEF Records
      <4> QED
        BY <1>0, <1>10, <4>1 DEF Recorded, Pending, Set
    <3>2. CASE x # a
      <4>1. table'[a] = table[a] /\ orphan'[a] = orphan[a]
        BY <1>0, <2>2, <3>2 DEF Records
      <4> QED
        BY <1>0, <1>10, <4>1, RecordSame
    <3> QED
      BY <3>1, <3>2
  <2> QED
    BY <1>10, <2>1, <2>2
<1>11. ASSUME NEW x \in Aps, (\E r : SetSSIDCall(r, x)) \/ \E w : ApChanges(x, w) PROVE Recorded(a)'
  BY <1>10, <1>11 DEF SetSSIDCall, ApChanges
<1>12. CASE (\E s : RoundStart(s)) \/ (\E l, s : Asked(l, s)) \/ RoundSkip \/ RoundSend \/ RoundEnd
  BY <1>12, <1>a DEF RoundStart, Asked, RoundSkip, RoundSend, RoundEnd, vars, radio
<1>13. CASE (\E l : AskFails(l) \/ PutLate(l) \/ LeafListed(l)) \/ (\E m \in put : PutLost(m))
            \/ (\E s : SetSSID(s)) \/ UNCHANGED vars
  BY <1>13, <1>a DEF AskFails, PutLate, LeafListed, PutLost, SetSSID, vars, radio
<1> QED
  BY <1>1, <1>3, <1>4, <1>5, <1>6, <1>8, <1>9, <1>11, <1>12, <1>13
     DEF Next, ApplyStep, Applies, Rename, RoundStep, Arrives

\* What a node has set in hostapd is in its file when no apply is running, or was left
\* behind by an apply that ended before its save.
THEOREM NeighboursTracked == Spec => []Tracked
<1>1. Init => RecordInv
  BY EmptyTypes, NodeAssumption DEF Init, RecordInv, Recorded, Pending
<1>2. TypeInv /\ RecordInv => Tracked
  BY DEF RecordInv, Recorded, Tracked
<1> QED
  BY <1>1, <1>2, InitTypes, TypesKept, RecordsKept, PTL DEF Spec

-----------------------------------------------------------------------------
(* A node takes a neighbour back only for a list it has a part in.         *)

LEMMA PartGrows ==
  ASSUME NEW n, NEW list, NEW more, Part(n, list), list \subseteq more
  PROVE  Part(n, more)
  BY DEF Part

LEMMA PartsKept ==
  ASSUME TypeInv, PartInv, [Next]_vars
  PROVE  PartInv'
<1> USE DEF PartInv
<1>0. /\ RadioType /\ JobType /\ TodoInv /\ RoundType
      /\ job \in [Nodes -> Jobs] /\ round \in Rounds /\ Main \in Nodes /\ Leaves \subseteq Nodes
  BY DEF TypeInv, JobType, RoundType, Nodes
<1>r. /\ round.pc # "idle" => Part(Main, round.all)
      /\ \A l \in round.reachable : Part(l, round.all)
      /\ \A n \in Nodes : job[n].on => Part(n, job[n].list)
  OBVIOUS
\* A round that only loses an entry of ask or wait.
<1>a. \A S : /\ [round EXCEPT !.ask = S].pc = round.pc /\ [round EXCEPT !.ask = S].all = round.all
             /\ [round EXCEPT !.ask = S].reachable = round.reachable
             /\ [round EXCEPT !.wait = S].pc = round.pc /\ [round EXCEPT !.wait = S].all = round.all
             /\ [round EXCEPT !.wait = S].reachable = round.reachable
  BY <1>0 DEF Rounds
<1> DEFINE SameRound == round'.pc = round.pc /\ round'.all = round.all /\ round'.reachable = round.reachable
           NoPass == round'.pc = "idle" /\ round'.reachable = {}
<1>b. (SameRound \/ NoPass) /\ put' \subseteq put /\ (\A n \in Nodes : job'[n].on => Part(n, job'[n].list)) => PartInv'
  BY <1>r
<1>c. ASSUME NEW n \in Nodes, job' = [job EXCEPT ![n] = NoJob]
      PROVE  \A k \in Nodes : job'[k].on => Part(k, job'[k].list)
  BY <1>0, <1>c, <1>r, EmptyTypes
<1>d. \A n \in Nodes : Return(n) => SameRound
  BY <1>a DEF Return
<1>e. UNCHANGED round => SameRound
  OBVIOUS
<1>f. NoRound.pc = "idle" /\ NoRound.reachable = {}
  BY EmptyTypes
<1>g. UNCHANGED job => \A n \in Nodes : job'[n].on => Part(n, job'[n].list)
  BY <1>r
<1>h. \A s : \A n \in Nodes : Inventory(n, s) # {} => Part(n, Inventory(n, s))
  BY <1>0, InventoryWorks
<1> HIDE DEF PartInv
<1>1. ASSUME NEW n \in Nodes, NEW b, Applies(n, b) PROVE PartInv'
  <2>1. Does(n, b) /\ UNCHANGED <<round, put>>
    BY <1>0, <1>1, DoesWorks DEF Applies, ApplyNext, ApplySet, ApplyRemove
  <2>2. \A k \in Nodes : job'[k].on => Part(k, job'[k].list)
    BY <1>r, <2>1 DEF Does
  <2> QED
    BY <1>b, <1>e, <2>1, <2>2
<1>2. ASSUME NEW n \in Nodes, Return(n), put' \subseteq put PROVE PartInv'
  <2>1. job' = [job EXCEPT ![n] = NoJob]
    BY <1>2 DEF Return
  <2>2. SameRound
    BY <1>2, <1>d
  <2> QED
    BY <1>2, <1>b, <1>c, <2>1, <2>2
<1>3. ASSUME NEW n \in Nodes, ApplySave(n) \/ ApplySaveFails(n) \/ \E b, k : ApplyFails(n, b, k) PROVE PartInv'
  <2>1. Return(n) /\ put' \subseteq put
    BY <1>3 DEF ApplySave, ApplySaveFails, ApplyFails, Abort
  <2> QED
    BY <1>2, <2>1
<1>4. ASSUME NEW n \in Nodes, Crash(n) PROVE PartInv'
  <2>1. job' = [job EXCEPT ![n] = NoJob] /\ put' \subseteq put
    BY <1>4 DEF Crash
  <2>2. SameRound \/ NoPass
    BY <1>4, <1>a, <1>f DEF Crash
  <2> QED
    BY <1>b, <1>c, <2>1, <2>2
<1>5. ASSUME NEW s, RoundStart(s) PROVE PartInv'
  <2>1. /\ round' = [NoRound EXCEPT !.pc = "ask", !.ask = leaves, !.all = Inventory(Main, s)]
        /\ Inventory(Main, s) # {} /\ UNCHANGED <<job, put>>
    BY <1>5 DEF RoundStart
  <2>2. round'.all = Inventory(Main, s) /\ round'.reachable = {}
    BY <2>1, <1>f DEF NoRound
  <2>3. Part(Main, round'.all)
    BY <1>0, <1>h, <2>1, <2>2
  <2> QED
    BY <1>r, <2>1, <2>2, <2>3 DEF PartInv
<1>6. ASSUME NEW l \in Leaves, NEW s, Asked(l, s) PROVE PartInv'
  <2> DEFINE bsses == Inventory(l, s)
  <2>1. /\ round' = [round EXCEPT !.ask = @ \ {l}, !.all = @ \cup bsses,
                                  !.reachable = IF bsses = {} THEN @ ELSE @ \cup {l}]
        /\ UNCHANGED <<job, put>>
    BY <1>6 DEF Asked
  <2>2. bsses # {} => Part(l, bsses)
    BY <1>0, <1>h
  <2> HIDE DEF bsses
  <2>3. /\ round'.pc = round.pc /\ round'.all = round.all \cup bsses
        /\ round'.reachable = IF bsses = {} THEN round.reachable ELSE round.reachable \cup {l}
    BY <1>0, <2>1 DEF Rounds
  <2>4. \A k \in round'.reachable : Part(k, round'.all)
    BY <1>r, <2>2, <2>3, PartGrows
  <2>5. round'.pc # "idle" => Part(Main, round'.all)
    BY <1>r, <2>3, PartGrows
  <2> QED
    BY <1>r, <2>1, <2>4, <2>5 DEF PartInv
<1>7. ASSUME NEW n \in Nodes, NEW list \in SUBSET BSS, NEW s, Part(n, list),
             job' = [job EXCEPT ![n] = Begin(n, list, s)]
      PROVE  \A k \in Nodes : job'[k].on => Part(k, job'[k].list)
  <2> DEFINE new == Begin(n, list, s)
  <2>1. new.list = list
    BY <1>0, BeginWorks
  <2> HIDE DEF new
  <2>2. job'[n] = new /\ \A k \in Nodes \ {n} : job'[k] = job[k]
    BY <1>0, <1>7 DEF new
  <2> QED
    BY <1>7, <1>r, <2>1, <2>2
<1>8. ASSUME NEW s, RoundApply(s) PROVE PartInv'
  <2>1. /\ round.pc = "ask" /\ round' = [round EXCEPT !.pc = "apply"] /\ UNCHANGED put
        /\ UNCHANGED job \/ job' = [job EXCEPT ![Main] = Begin(Main, round.all, s)]
    BY <1>8 DEF RoundApply
  <2>2. Part(Main, round.all) /\ round.all \in SUBSET BSS
    BY <1>0, <1>r, <2>1 DEF Rounds
  <2>3. \A k \in Nodes : job'[k].on => Part(k, job'[k].list)
    BY <1>0, <1>7, <1>g, <2>1, <2>2
  <2>4. round'.all = round.all /\ round'.reachable = round.reachable
    BY <1>0, <2>1 DEF Rounds
  <2> QED
    BY <1>r, <2>1, <2>2, <2>3, <2>4 DEF PartInv
<1>9. CASE RoundSend
  <2>1. /\ put' = put \cup {[to |-> l, list |-> round.all] : l \in round.reachable}
        /\ round.pc = "apply" /\ UNCHANGED job
        /\ round' = [round EXCEPT !.pc = "send", !.wait = round.reachable]
    BY <1>9 DEF RoundSend
  <2>2. round'.all = round.all /\ round'.reachable = round.reachable
    BY <1>0, <2>1 DEF Rounds
  <2>3. \A m \in put' : Part(m.to, m.list)
    <3>1. ASSUME NEW m \in put' PROVE Part(m.to, m.list)
      <4>1. CASE m \in put
        BY <4>1 DEF PartInv
      <4>2. CASE \E l \in round.reachable : m = [to |-> l, list |-> round.all]
        BY <1>r, <4>2
      <4> QED
        BY <2>1, <4>1, <4>2
    <3> QED
      BY <3>1
  <2> QED
    BY <1>r, <2>1, <2>2, <2>3 DEF PartInv
<1>10. CASE RoundEnd
  BY <1>10, <1>b, <1>f, <1>g DEF RoundEnd
<1>11. ASSUME NEW m \in put, NEW s, PutArrives(m, s) PROVE PartInv'
  <2>1. m.to \in Nodes /\ m.list \in SUBSET BSS /\ put' \subseteq put /\ Part(m.to, m.list)
    BY <1>0, <1>11 DEF PutArrives, JobType, PartInv
  <2>2. Return(m.to) \/ (UNCHANGED round /\ job' = [job EXCEPT ![m.to] = Begin(m.to, m.list, s)])
    BY <1>11 DEF PutArrives
  <2>3. CASE Return(m.to)
    BY <1>2, <2>1, <2>3
  <2>4. CASE UNCHANGED round /\ job' = [job EXCEPT ![m.to] = Begin(m.to, m.list, s)]
    BY <1>7, <1>b, <1>e, <2>1, <2>4
  <2> QED
    BY <2>2, <2>3, <2>4
<1>12. ASSUME NEW l, AskFails(l) \/ PutLate(l) PROVE PartInv'
  <2>1. SameRound /\ UNCHANGED <<job, put>>
    BY <1>12, <1>a DEF AskFails, PutLate
  <2> QED
    BY <1>b, <1>g, <2>1
<1>13. ASSUME NEW m \in put, PutLost(m) PROVE PartInv'
  <2>1. SameRound /\ UNCHANGED job /\ put' \subseteq put
    BY <1>13, <1>a DEF PutLost
  <2> QED
    BY <1>b, <1>g, <2>1
<1>14. CASE \/ RoundSkip \/ (\E l : LeafListed(l)) \/ (\E s : SetSSID(s)) \/ (\E r, x : SetSSIDCall(r, x))
            \/ (\E x, w : ApChanges(x, w)) \/ UNCHANGED vars
  <2>1. UNCHANGED <<round, job, put>>
    BY <1>14 DEF RoundSkip, LeafListed, SetSSID, SetSSIDCall, ApChanges, vars
  <2> QED
    BY <1>b, <1>e, <1>g, <2>1
<1> QED
  BY <1>1, <1>3, <1>4, <1>5, <1>6, <1>8, <1>9, <1>10, <1>11, <1>12, <1>13, <1>14
     DEF Next, ApplyStep, Applies, Rename, RoundStep, Arrives

\* A step that takes a neighbour from an AP and changes its node's apply is a step of
\* that apply for that AP.
LEMMA RemovalIsOwn ==
  ASSUME TypeInv, [Next]_vars, NEW a \in Aps, job'[NodeOf[a]] # job[NodeOf[a]],
         ~(table[a] \subseteq table'[a])
  PROVE  job[NodeOf[a]].on
<1> DEFINE n == NodeOf[a]
<1>0. /\ RadioType /\ JobType /\ TodoInv
      /\ n \in Nodes /\ job \in [Nodes -> Jobs] /\ table \in Records
  BY NodeAssumption DEF TypeInv, JobType, RadioType
<1>a. ~UNCHANGED table /\ ~UNCHANGED job
  OBVIOUS
<1>1. ASSUME NEW k \in Nodes, NEW b, Applies(k, b) PROVE job[n].on
  <2>1. Does(k, b)
    BY <1>0, <1>1, DoesWorks
  <2>2. k = n
    BY <1>0, <2>1 DEF Does
  <2> QED
    BY <2>1, <2>2 DEF Does
<1>2. ASSUME NEW k \in Nodes, NEW b, NEW q, ApplyFails(k, b, q) PROVE job[n].on
  <2>1. job[k].on /\ job' = [job EXCEPT ![k] = NoJob]
    BY <1>2 DEF ApplyFails, Serves, Abort, Return
  <2>2. k = n
    BY <1>0, <2>1
  <2> QED
    BY <2>1, <2>2
<1>3. ASSUME NEW k \in Nodes, ApplySave(k) \/ ApplySaveFails(k) \/ Crash(k) PROVE FALSE
  BY <1>3, <1>a DEF ApplySave, ApplySaveFails, Crash, radio
<1>4. CASE RoundStep \/ \E l : AskFails(l) \/ PutLate(l) \/ LeafListed(l) \/ Arrives(l)
  BY <1>4, <1>a DEF RoundStep, RoundStart, RoundApply, Asked, RoundSkip, RoundSend, RoundEnd,
     AskFails, PutLate, LeafListed, Arrives, PutArrives, radio, vars
<1>5. CASE (\E m \in put : PutLost(m)) \/ (\E s : SetSSID(s)) \/ UNCHANGED vars
  BY <1>5, <1>a DEF PutLost, SetSSID, radio, vars
<1>6. CASE (\E r, x : SetSSIDCall(r, x)) \/ (\E x, w : ApChanges(x, w))
  BY <1>6, <1>a DEF SetSSIDCall, ApChanges
<1> QED
  BY <1>1, <1>2, <1>3, <1>4, <1>5, <1>6 DEF Next, ApplyStep, Applies, Rename

\* A node takes a neighbour back only because of a list it is part of itself.
THEOREM NeighboursKept == Spec => KeepsNeighbours
<1>1. Init => TypeInv /\ PartInv
  BY InitTypes, EmptyTypes DEF Init, PartInv
<1>2. TypeInv /\ PartInv /\ [Next]_vars => (TypeInv /\ PartInv)'
  BY TypesKept, PartsKept
<1>3. TypeInv /\ PartInv /\ [Next]_vars =>
        [\A a \in Aps :
           LET n == NodeOf[a] IN
           job'[n] # job[n] /\ ~(table[a] \subseteq table'[a])
             => \E b \in job[n].list : NodeOf[b.ap] = n]_vars
  <2> SUFFICES ASSUME TypeInv, PartInv, [Next]_vars, NEW a \in Aps,
                      job'[NodeOf[a]] # job[NodeOf[a]], ~(table[a] \subseteq table'[a])
               PROVE  \E b \in job[NodeOf[a]].list : NodeOf[b.ap] = NodeOf[a]
    OBVIOUS
  <2>1. job[NodeOf[a]].on /\ NodeOf[a] \in Nodes
    BY RemovalIsOwn, NodeAssumption
  <2> QED
    BY <2>1 DEF PartInv, Part
<1> QED
  BY <1>1, <1>2, <1>3, PTL DEF Spec, KeepsNeighbours

=============================================================================
