---------------------------- MODULE Association ----------------------------
(***************************************************************************)
(* What a leaf promises about its uplink, without the passes, tunnels,     *)
(* guards, crashes and scripts that LeafUplink keeps it with.              *)
(*                                                                         *)
(* An association starts on trial.  It is confirmed or taken back, never   *)
(* left on trial for good; once confirmed it is given up on the main       *)
(* router's word only, or by leaving leaf mode.  While it is confirmed the *)
(* raw uplink stays out of the bridge.                                     *)
(*                                                                         *)
(* The main router's word is a request the leaf accepts while it is in its *)
(* role and carries out later, or a signed frame.  A key retired by a      *)
(* frame is accepted again only if the main router still holds it.         *)
(*                                                                         *)
(* `excused` is the environment's: the promise about the uplink is         *)
(* suspended while it holds.                                               *)
(***************************************************************************)
CONSTANTS Nonces, None, Stop

Requests == Nonces \cup {Stop}

VARIABLES
  role,      \* the router is a leaf
  stage,     \* "off", "trial" or "confirmed"
  key,       \* the nonce of the association, None when it is off
  door,      \* "open": the raw uplink is a port of the bridge
  asked,     \* requests accepted and not yet carried out
  answered,  \* requests carried out whose answer is on its way
  held,      \* the key the main router has saved for this leaf
  signed,    \* keys of the disable frames on their way
  retired,   \* keys retired by a signed frame
  excused    \* the promise about the uplink is suspended

calls == <<asked, answered, held, signed>>
vars == <<role, stage, key, door, calls, retired, excused>>

Init ==
  /\ role = TRUE /\ stage = "off" /\ key = None /\ door = "open"
  /\ asked = {} /\ answered = {} /\ held = None /\ signed = {}
  /\ retired = {} /\ excused = FALSE

\* Nothing may open the uplink of a leaf under a confirmed association.
MayBeOpen(r, s, e) == r /\ s = "confirmed" => e

Off == stage' = "off" /\ key' = None

\* A request is accepted by a leaf only, and never for a retired key the main
\* router does not hold.
Accept(r) ==
  /\ role
  /\ IF r = Stop THEN held # None ELSE r = held \/ r \notin retired
  /\ asked' = asked \cup {r}
  /\ UNCHANGED <<role, stage, key, door, answered, held, signed, retired, excused>>

\* A request is carried out; it may have been made more than once, and its answer
\* may have no taker.
Carry(r) ==
  /\ r \in asked
  /\ asked' \in {asked, asked \ {r}}
  /\ answered' \in {answered, answered \cup {r}}
  /\ UNCHANGED <<role, door, held, signed, retired, excused>>

\* An association is set up, or the one there is updated, which stays as it is.
Enable(n) ==
  /\ Carry(n)
  /\ stage' = (IF n = key THEN stage ELSE "trial") /\ key' = n

\* The main router learns that a request was carried out.
Learn(r) ==
  /\ r \in answered
  /\ answered' = answered \ {r}
  /\ held' = (IF r = Stop THEN None ELSE r)
  /\ UNCHANGED <<role, stage, key, door, asked, signed, retired, excused>>

Confirm ==
  /\ stage = "trial" /\ stage' = "confirmed"
  /\ door = "open" => MayBeOpen(role, "confirmed", excused)
  /\ UNCHANGED <<role, key, door, calls, retired, excused>>

TakeBack ==
  /\ stage = "trial" /\ Off
  /\ UNCHANGED <<role, door, calls, retired, excused>>

\* The main router ends the association: with a request, ...
Release == Carry(Stop) /\ Off

\* ... or with a frame signed with the key it holds, after which it forgets the
\* key, whether the frame is obeyed or not.
Sign ==
  /\ held # None /\ signed' \subseteq signed \cup {held}
  /\ UNCHANGED <<role, stage, key, door, asked, answered, held, retired, excused>>

Forget ==
  /\ held' = None
  /\ UNCHANGED <<role, stage, key, door, asked, answered, signed, retired, excused>>

Obey(n) ==
  /\ n \in signed
  /\ signed' \in {signed, signed \ {n}}
  /\ retired' = retired \cup {n}
  /\ IF key = n THEN Off ELSE UNCHANGED <<stage, key>>
  /\ UNCHANGED <<role, door, asked, answered, held, excused>>

SwitchRole ==
  /\ role' = ~role /\ excused' \in {excused, TRUE}
  /\ door = "open" => MayBeOpen(role', stage, excused')
  /\ UNCHANGED <<stage, key, door, calls, retired>>

\* A router that is no leaf drops its association.
Leave ==
  /\ ~role \/ excused
  /\ Off
  /\ UNCHANGED <<role, door, calls, retired, excused>>

\* Requests, answers and frames may get lost.
Less ==
  /\ asked' \subseteq asked /\ answered' \subseteq answered /\ signed' \subseteq signed
  /\ UNCHANGED held

\* The leaf shuts its uplink, or restarts with the uplink shut.
Shut ==
  /\ door' = "shut" /\ excused' \in BOOLEAN
  /\ Less
  /\ UNCHANGED <<role, stage, key, retired>>

Open ==
  /\ door' = "open" /\ excused' \in {excused, TRUE}
  /\ MayBeOpen(role, stage, excused')
  /\ UNCHANGED <<role, stage, key, calls, retired>>

\* Something gets lost, or goes wrong in a way that suspends the promise.
Lose ==
  /\ Less
  /\ excused' \in {excused, TRUE}
  /\ UNCHANGED <<role, stage, key, door, retired>>

Next ==
  \/ \E r \in Requests : Accept(r) \/ Learn(r)
  \/ \E n \in Nonces : Enable(n) \/ Obey(n)
  \/ Confirm \/ TakeBack \/ Release \/ Sign \/ Forget \/ Leave
  \/ SwitchRole \/ Shut \/ Open \/ Lose

Spec == Init /\ [][Next]_vars

\* No association stays on trial.
FairSpec == Spec /\ WF_vars(Confirm \/ TakeBack)
=============================================================================
