------------------------- MODULE AssociationProofs -------------------------
(***************************************************************************)
(* LeafUplink implements Association: every step of the manager, the       *)
(* handlers, the control listener and mesh_rules.sh is a step of the       *)
(* association, or leaves it as it is.                                     *)
(***************************************************************************)
EXTENDS LeafUplinkProofs

USE DEF disk, pass, memory, control, kernel, script, peer, history

\* What of the leaf's state the association is made of.
Calls == <<mainKey, mpc, req, late, wire, hkey>>
Seen == <<leafMode, cfg, wan, Calls, obeyed, lapse>>

USE DEF Calls

\* A step that changes none of it is a stutter of the association.
LEMMA SeenStutters == UNCHANGED Seen => UNCHANGED A!vars
  BY DEF Seen, A!vars, A!calls, Stage, Door

\* The initial state is an initial state of the association.
LEMMA AssociationInit == Init => A!Init
<1> SUFFICES ASSUME Init PROVE A!Init
  OBVIOUS
<1>1. {r \in Requests : (mpc = "asks" /\ req = r) \/ late[r] > 0} = {}
  BY DEF Init
<1> QED
  BY <1>1 DEF Init, A!Init, Stage, Door, NoCfg

\* The calls the association knows of.
Asked == {r \in Requests : (mpc = "asks" /\ req = r) \/ late[r] > 0}
Answered == IF mpc = "told" THEN {req} ELSE {}
Signed == {wire, hkey} \ {None}

\* Calls and frames that may have got lost.
LEMMA CallsLost ==
  ASSUME Asked' \subseteq Asked, Answered' \subseteq Answered, Signed' \subseteq Signed,
         UNCHANGED mainKey
  PROVE  A!Less
  BY DEF A!Less, Asked, Answered, Signed

\* Steps of the pass that touch neither the saved configuration nor the uplink.
LEMMA QuietPass ==
  ASSUME \/ PassLoad \/ LeafDisabled \/ LeafWait \/ LeafActivate \/ PassGuard
         \/ EnsureMACsec \/ EnsureMACsecOverOld \/ EnsureMACsecFails \/ EnsureWG \/ EnsureWGFails \/ JoinLive
         \/ JoinDown \/ ConfirmNothing \/ TdGuard \/ TdFlag \/ MainRole
         \/ MainStat
  PROVE  UNCHANGED Seen
<1> USE DEF Seen
<1>1. CASE PassLoad
  BY <1>1 DEF PassLoad
<1>2. CASE LeafDisabled
  BY <1>2 DEF LeafDisabled, EndPass, GoTo
<1>3. CASE LeafWait
  BY <1>3 DEF LeafWait, EndPass
<1>4. CASE LeafActivate
  BY <1>4 DEF LeafActivate, GoTo
<1>5. CASE PassGuard
  BY <1>5 DEF PassGuard, GoTo
<1>6. CASE EnsureMACsec
  BY <1>6 DEF EnsureMACsec, GoTo
<1>17. CASE EnsureMACsecOverOld
  BY <1>17 DEF EnsureMACsecOverOld, GoTo
<1>7. CASE EnsureMACsecFails
  BY <1>7 DEF EnsureMACsecFails, GiveUp
<1>8. CASE EnsureWG
  BY <1>8 DEF EnsureWG, GoTo
<1>9. CASE EnsureWGFails
  BY <1>9 DEF EnsureWGFails, GiveUp
<1>10. CASE JoinLive
  BY <1>10 DEF JoinLive, Joined
<1>11. CASE JoinDown
  BY <1>11 DEF JoinDown, Joined
<1>12. CASE ConfirmNothing
  BY <1>12 DEF ConfirmNothing, EndPass
<1>13. CASE TdGuard
  BY <1>13 DEF TdGuard, GoTo
<1>14. CASE TdFlag
  BY <1>14 DEF TdFlag, GoTo, EndPass
<1>15. CASE MainRole
  BY <1>15 DEF MainRole, EndPass
<1>16. CASE MainStat
  BY <1>16 DEF MainStat, GoTo, EndPass
<1> QED
  BY <1>1, <1>2, <1>3, <1>4, <1>5, <1>6, <1>7, <1>8, <1>9, <1>10, <1>11, <1>12, <1>13, <1>14, <1>15, <1>16,
     <1>17

\* Steps of the others that do not.
LEMMA QuietRest ==
  ASSUME \/ CtlExpire \/ TunnelUp \/ TunnelDown \/ MKAExit \/ Start \/ BaseRestart \/ ScriptRead
         \/ ScriptFlush \/ ScriptGuard
  PROVE  UNCHANGED Seen
<1> USE DEF Seen
<1>4. CASE CtlExpire
  BY <1>4 DEF CtlExpire
<1>5. CASE TunnelUp
  BY <1>5 DEF TunnelUp
<1>6. CASE TunnelDown
  BY <1>6 DEF TunnelDown
<1>7. CASE MKAExit
  BY <1>7 DEF MKAExit
<1>8. CASE Start
  BY <1>8 DEF Start, GoTo
<1>9. CASE BaseRestart
  BY <1>9 DEF BaseRestart
<1>10. CASE ScriptRead
  BY <1>10 DEF ScriptRead
<1>11. CASE ScriptFlush
  BY <1>11 DEF ScriptFlush
<1>12. CASE ScriptGuard
  BY <1>12 DEF ScriptGuard
<1> QED
  BY <1>4, <1>5, <1>6, <1>7, <1>8, <1>9, <1>10, <1>11, <1>12

\* A request is accepted in the leaf's role, for a key in use or never retired, and
\* carried out later, in whatever role the leaf is then.
LEMMA PeerEnables ==
  ASSUME TInv, ObeyedInv, NEW n \in Nonces, MainEnable(n) \/ PeerEnable(n) \/ LateEnable(n)
  PROVE  A!Accept(n) \/ A!Enable(n)
<1> USE DEF TInv, TypeOK
<1>1. CASE MainEnable(n)
  <2>1. leafMode /\ (n = mainKey \/ n \notin obeyed)
    BY <1>1 DEF MainEnable, MainMaySend, ObeyedInv
  <2>2. /\ mpc = "free" /\ mpc' = "asks" /\ req' = n
        /\ UNCHANGED <<leafMode, cfg, wan, obeyed, lapse, mainKey, late, wire, hkey>>
    BY <1>1 DEF MainEnable
  <2>3. Asked' = Asked \cup {n}
    BY <2>2 DEF Asked, Requests
  <2>4. UNCHANGED <<Answered, Signed, Stage, Door>> /\ n # Stop
    BY <2>2, KeyAssumption DEF Answered, Signed, Stage, Door
  <2> QED
    BY <2>1, <2>2, <2>3, <2>4 DEF A!Accept, Asked, Answered, Signed
<1>2. CASE PeerEnable(n) \/ LateEnable(n)
  <2>1. /\ UNCHANGED <<leafMode, wan, obeyed, lapse, mainKey, wire, hkey, req>>
        /\ cfg' = Enabled(n) /\ n \in Requests
    BY <1>2 DEF PeerEnable, LateEnable, Requests
  <2>2. n \in Asked /\ Asked' \in {Asked, Asked \ {n}} /\ Answered' \in {Answered, Answered \cup {n}}
    <3>1. CASE PeerEnable(n)
      BY <2>1, <3>1 DEF PeerEnable, Asked, Answered
    <3>2. CASE LateEnable(n)
      <4>1. /\ \A r \in Requests \ {n} : late'[r] = late[r]
            /\ mpc' = mpc /\ late[n] > 0
        BY <3>2 DEF LateEnable
      <4> QED
        BY <2>1, <4>1 DEF Asked, Answered
    <3> QED
      BY <1>2, <3>1, <3>2
  <2>3. Stage' = (IF n = cfg.nonce THEN Stage ELSE "trial") /\ cfg'.nonce = n
    <3>1. CASE cfg.enabled /\ cfg.nonce = n
      BY <2>1, <3>1 DEF Enabled, Stage
    <3>2. CASE ~(cfg.enabled /\ cfg.nonce = n)
      <4>1. cfg' = NewCfg(n) /\ n # cfg.nonce
        BY <2>1, <3>2 DEF Enabled, WellFormed
      <4> QED
        BY <4>1 DEF NewCfg, Stage
    <3> QED
      BY <3>1, <3>2
  <2>4. UNCHANGED <<Signed, Door>>
    BY <2>1 DEF Signed, Door
  <2> QED
    BY <2>1, <2>2, <2>3, <2>4 DEF A!Enable, A!Carry, Asked, Answered, Signed
<1> QED
  BY <1>1, <1>2

\* The same for a request to end the association.
LEMMA PeerDisables ==
  ASSUME TInv, MainDisable \/ PeerDisable \/ LateDisable
  PROVE  A!Next
<1> USE DEF TInv, TypeOK
<1>1. CASE MainDisable
  <2>1. leafMode /\ mainKey # None
    BY <1>1 DEF MainDisable
  <2>2. /\ mpc = "free" /\ mpc' = "asks" /\ req' = Stop /\ Stop \in Requests
        /\ UNCHANGED <<leafMode, cfg, wan, obeyed, lapse, mainKey, late, wire, hkey>>
    BY <1>1 DEF MainDisable, Requests
  <2>3. Asked' = Asked \cup {Stop}
    BY <2>2 DEF Asked
  <2>4. UNCHANGED <<Answered, Signed, Stage, Door>>
    BY <2>2 DEF Answered, Signed, Stage, Door
  <2>5. A!Accept(Stop)
    BY <2>1, <2>2, <2>3, <2>4 DEF A!Accept, Asked, Answered, Signed
  <2> QED
    BY <2>2, <2>5 DEF A!Next, Requests, A!Requests
<1>2. CASE PeerDisable \/ LateDisable
  <2>1. /\ UNCHANGED <<leafMode, wan, obeyed, lapse, mainKey, wire, hkey, req>>
        /\ cfg' = NoCfg /\ Stop \in Requests
    BY <1>2 DEF PeerDisable, LateDisable, Requests
  <2>2. /\ Stop \in Asked /\ Asked' \in {Asked, Asked \ {Stop}}
        /\ Answered' \in {Answered, Answered \cup {Stop}}
    <3>1. CASE PeerDisable
      BY <2>1, <3>1 DEF PeerDisable, Asked, Answered
    <3>2. CASE LateDisable
      <4>1. /\ \A r \in Requests \ {Stop} : late'[r] = late[r]
            /\ mpc' = mpc /\ late[Stop] > 0
        BY <3>2 DEF LateDisable
      <4> QED
        BY <2>1, <4>1 DEF Asked, Answered
    <3> QED
      BY <1>2, <3>1, <3>2
  <2>3. Stage' = "off" /\ cfg'.nonce = None /\ UNCHANGED <<Signed, Door>>
    BY <2>1 DEF NoCfg, Stage, Signed, Door
  <2>4. A!Release
    BY <2>1, <2>2, <2>3 DEF A!Release, A!Off, A!Carry, Asked, Answered, Signed
  <2> QED
    BY <2>4 DEF A!Next
<1> QED
  BY <1>1, <1>2

\* The main router saves what it has an answer to.
LEMMA LearnStep ==
  ASSUME TInv, MainSave
  PROVE  \E r \in Requests : A!Learn(r)
<1> USE DEF TInv, TypeOK
<1>1. /\ mpc = "told" /\ mpc' = "free" /\ mainKey' = (IF req = Stop THEN None ELSE req)
      /\ UNCHANGED <<leafMode, cfg, wan, obeyed, lapse, late, wire, hkey>>
  BY DEF MainSave
<1>2. req \in Requests
  BY <1>1
<1>3. UNCHANGED <<Asked, Signed, Stage, Door>> /\ Answered = {req} /\ Answered' = {}
  BY <1>1 DEF Asked, Signed, Stage, Door, Answered
<1>4. A!Learn(req)
  BY <1>1, <1>3 DEF A!Learn, Asked, Answered, Signed
<1> QED
  BY <1>2, <1>4

\* Frames are signed with the key the main router holds, before it forgets it.
LEMMA FrameSteps ==
  ASSUME TInv, CallFails \/ WireDisable \/ WireDone
  PROVE  A!Sign \/ A!Forget \/ A!Lose
<1> USE DEF TInv, TypeOK, PassInv
<1>1. CASE CallFails \/ WireDisable
  <2>1. /\ UNCHANGED <<leafMode, cfg, wan, obeyed, lapse, mainKey, late, hkey>>
        /\ mpc \notin {"asks", "told"} /\ mpc' \notin {"asks", "told"}
    BY <1>1 DEF CallFails, WireDisable
  <2>2. UNCHANGED <<Asked, Answered, Stage, Door>>
    BY <2>1 DEF Asked, Answered, Stage, Door
  <2>3. wire' = wire \/ (wire' = mainKey /\ mainKey # None)
    BY <1>1, KeyAssumption DEF CallFails, WireDisable
  <2>4. CASE wire' = wire
    <3>1. Signed' = Signed
      BY <2>1, <2>4 DEF Signed
    <3> QED
      BY <2>1, <2>2, <3>1 DEF A!Lose, A!Less, Asked, Answered, Signed
  <2>5. CASE wire' = mainKey /\ mainKey # None
    <3>1. Signed' \subseteq Signed \cup {mainKey}
      BY <2>1, <2>5 DEF Signed
    <3> QED
      BY <2>1, <2>2, <2>5, <3>1 DEF A!Sign, Asked, Answered, Signed
  <2> QED
    BY <2>3, <2>4, <2>5
<1>2. CASE WireDone
  <2>1. /\ UNCHANGED <<leafMode, cfg, wan, obeyed, lapse, wire, late, hkey>> /\ mainKey' = None
        /\ mpc \notin {"asks", "told"} /\ mpc' \notin {"asks", "told"}
    BY <1>2 DEF WireDone
  <2>2. UNCHANGED <<Asked, Answered, Signed, Stage, Door>>
    BY <2>1 DEF Asked, Answered, Signed, Stage, Door
  <2> QED
    BY <2>1, <2>2 DEF A!Forget, Asked, Answered, Signed
<1> QED
  BY <1>1, <1>2

\* Calls, answers and frames that get lost, or are only passed on.
LEMMA LossSteps ==
  ASSUME TInv, PeerRefuses \/ CallLost \/ MainCrash \/ WireEnds \/ CtlFrame \/ CtlMark
  PROVE  A!Lose
<1> USE DEF TInv, TypeOK
<1>1. UNCHANGED <<leafMode, cfg, wan, obeyed, lapse, mainKey>>
  BY DEF PeerRefuses, CallLost, MainCrash, WireEnds, CtlFrame, CtlMark
<1>2. Asked' \subseteq Asked /\ Answered' \subseteq Answered
  <2>1. CASE PeerRefuses
    BY <2>1 DEF PeerRefuses, Asked, Answered
  <2>2. CASE CallLost
    <3>1. mpc = "asks" => \A r \in Requests \ {req} : late'[r] = late[r]
      BY <2>2 DEF CallLost
    <3>2. mpc # "asks" => late' = late
      BY <2>2 DEF CallLost
    <3> QED
      BY <2>2, <3>1, <3>2 DEF CallLost, Asked, Answered
  <2>3. CASE MainCrash
    <3>1. mpc = "asks" => req = Stop /\ \A r \in Requests \ {Stop} : late'[r] = late[r]
      BY <2>3 DEF MainCrash, Requests
    <3>2. mpc # "asks" => late' = late
      BY <2>3 DEF MainCrash
    <3> QED
      BY <2>3, <3>1, <3>2 DEF MainCrash, Asked, Answered
  <2>4. CASE WireEnds \/ CtlFrame \/ CtlMark
    BY <2>4 DEF WireEnds, CtlFrame, CtlMark, Asked, Answered
  <2> QED
    BY <2>1, <2>2, <2>3, <2>4
<1>3. Signed' \subseteq Signed
  BY DEF PeerRefuses, CallLost, MainCrash, WireEnds, CtlFrame, CtlMark, Signed
<1>4. A!Less
  BY <1>1, <1>2, <1>3, CallsLost
<1> QED
  BY <1>1, <1>4 DEF A!Lose, Stage, Door

\* The end of the plugin's process loses the calls it was handling.
LEMMA ProcessLess ==
  ASSUME TInv, ProcessLost
  PROVE  A!Less
<1> USE DEF TInv, TypeOK
<1>1. (mpc' = mpc /\ mpc # "asks") \/ mpc' = "cut"
  BY DEF ProcessLost
<1>2. \A r \in Requests : ~(late'[r] > 0)
  BY DEF ProcessLost
<1>3. hkey' = None /\ UNCHANGED <<mainKey, req, wire>>
  BY DEF ProcessLost
<1> QED
  BY <1>1, <1>2, <1>3, CallsLost DEF Asked, Answered, Signed

\* Every step of the leaf is a step of the association or leaves it as it is.
LEMMA AssociationStep ==
  TInv /\ ClosedInv /\ ObeyedInv /\ [Next]_vars => [A!Next]_A!vars
<1> SUFFICES ASSUME TInv, ClosedInv, ObeyedInv, [Next]_vars
             PROVE  A!Next \/ UNCHANGED A!vars
  OBVIOUS
<1> USE DEF TInv, TypeOK, PassInv
<1>0. WellFormed(cfg) /\ wan \in {"br0", "none"} /\ leafMode \in BOOLEAN /\ lapse \in BOOLEAN
  BY DEF BooleansOK
<1>1. ASSUME PassUnbridge PROVE A!Shut
  BY <1>1, <1>0, CallsLost DEF PassUnbridge, A!Shut, Asked, Answered, Signed, Stage, Door
<1>2. ASSUME PassUnbridgeFails PROVE A!Shut \/ UNCHANGED Seen
  BY <1>2, <1>0, CallsLost DEF PassUnbridgeFails, A!Shut, Asked, Answered, Signed, Stage, Door, Seen
<1>3. ASSUME Confirm PROVE A!Confirm \/ UNCHANGED Seen
  <2>1. cfg' = cfg \/ (cfg.enabled /\ cfg' = [cfg EXCEPT !.confirmed = TRUE])
    BY <1>3 DEF Confirm, MayConfirm
  <2>2. UNCHANGED <<leafMode, wan, Calls, obeyed, lapse>>
    BY <1>3 DEF Confirm
  <2>3. wan = "none" \/ lapse
    BY <1>3 DEF Confirm, ClosedInv, Unbridged
  <2>4. CASE cfg' = cfg
    BY <2>2, <2>4 DEF Seen
  <2>5. CASE cfg.enabled /\ cfg' = [cfg EXCEPT !.confirmed = TRUE]
    <3>1. cfg'.enabled /\ cfg'.confirmed /\ cfg'.nonce = cfg.nonce
      BY <2>5, <1>0 DEF WellFormed, Configs
    <3>2. CASE cfg.confirmed
      <4>1. cfg' = cfg
        BY <2>5, <3>2, <1>0 DEF WellFormed, Configs
      <4> QED
        BY <4>1, <2>2 DEF Seen
    <3>3. CASE ~cfg.confirmed
      BY <2>2, <2>3, <2>5, <3>1, <3>3 DEF A!Confirm, A!MayBeOpen, A!calls, Stage, Door
    <3> QED
      BY <3>2, <3>3
  <2> QED
    BY <2>1, <2>4, <2>5
<1>4. ASSUME Revert PROVE A!TakeBack \/ UNCHANGED Seen
  <2>1. CASE MayRevert
    BY <1>4, <2>1 DEF Revert, MayRevert, NoCfg, A!TakeBack, A!Off, A!calls, Stage, Door
  <2>2. CASE ~MayRevert
    BY <1>4, <2>2 DEF Revert, Seen
  <2> QED
    BY <2>1, <2>2
<1>5. ASSUME TdTunnel PROVE A!Lose \/ UNCHANGED Seen
  BY <1>5, CallsLost DEF TdTunnel, A!Lose, Asked, Answered, Signed, Stage, Door, Seen
<1>6. ASSUME TdRejoin PROVE A!Open \/ UNCHANGED Seen
  <2>1. UNCHANGED <<leafMode, cfg, Calls, obeyed, lapse>>
    BY <1>6 DEF TdRejoin
  <2>2. wan' = wan \/ (leafMode /\ wan' = "br0")
    BY <1>6 DEF TdRejoin
  <2>3. leafMode => ~cfg.confirmed \/ lapse
    BY <1>6 DEF TdRejoin, ClosedInv, PlainTeardown, MainTeardown, Teardown
  <2>4. CASE wan' = wan
    BY <2>1, <2>4 DEF Seen
  <2>5. CASE leafMode /\ wan' = "br0"
    BY <2>1, <2>3, <2>5, <1>0 DEF A!Open, A!MayBeOpen, A!calls, Stage, Door
  <2> QED
    BY <2>2, <2>4, <2>5
<1>7. ASSUME MainClear PROVE A!Leave \/ UNCHANGED Seen
  <2>1. UNCHANGED <<leafMode, wan, Calls, obeyed, lapse>>
    BY <1>7 DEF MainClear
  <2>2. ~leafMode \/ lapse
    BY <1>7 DEF MainClear, ClosedInv, MainTeardown
  <2>3. cfg' = NoCfg \/ cfg' = cfg
    BY <1>7 DEF MainClear
  <2> QED
    BY <2>1, <2>2, <2>3 DEF A!Leave, A!Off, A!calls, NoCfg, Stage, Door, Seen
<1>8. ASSUME NEW n \in Nonces, MainEnable(n) \/ PeerEnable(n) \/ LateEnable(n) PROVE A!Next
  BY <1>8, PeerEnables DEF A!Next, Requests, A!Requests
<1>9. ASSUME MainDisable \/ PeerDisable \/ LateDisable \/ MainSave PROVE A!Next
  BY <1>9, PeerDisables, LearnStep DEF A!Next, Requests, A!Requests
<1>10. ASSUME \/ PeerRefuses \/ CallLost \/ CallFails \/ WireDisable \/ WireDone \/ WireEnds
              \/ MainCrash \/ CtlFrame \/ CtlMark
       PROVE  A!Sign \/ A!Forget \/ A!Lose
  BY <1>10, FrameSteps, LossSteps
<1>11. ASSUME LeafModeSet PROVE A!SwitchRole
  <2>1. leafMode' = ~leafMode /\ lapse' = (lapse \/ MainTeardown) /\ UNCHANGED <<cfg, wan, Calls, obeyed>>
    BY <1>11 DEF LeafModeSet
  <2>2. lapse' \in {lapse, TRUE}
    BY <2>1, <1>0 DEF MainTeardown
  <2>3. cfg.confirmed /\ wan = "br0" => lapse'
    BY <2>1 DEF ClosedInv
  <2> QED
    BY <2>1, <2>2, <2>3 DEF A!SwitchRole, A!MayBeOpen, A!calls, Stage, Door
<1>12. ASSUME CtlSave PROVE \E n \in Nonces : A!Obey(n)
  <2>1. hkey \in Nonces /\ hkey' = None
    BY <1>12 DEF CtlSave
  <2>2. /\ obeyed' = obeyed \cup {hkey}
        /\ UNCHANGED <<leafMode, wan, mainKey, mpc, req, late, wire, lapse>>
    BY <1>12 DEF CtlSave
  <2>3. hkey \in Signed /\ Signed' \in {Signed, Signed \ {hkey}}
    BY <2>1, <2>2, KeyAssumption DEF Signed
  <2>4. UNCHANGED <<Asked, Answered, Door>>
    BY <2>2 DEF Asked, Answered, Door
  <2>5. IF cfg.nonce = hkey THEN Stage' = "off" /\ cfg'.nonce = None
                            ELSE UNCHANGED <<Stage, cfg.nonce>>
    BY <1>12, <2>1, <1>0 DEF CtlSave, WellFormed, NoCfg, Stage
  <2>6. A!Obey(hkey)
    BY <2>2, <2>3, <2>4, <2>5 DEF A!Obey, A!Off, Signed, Asked, Answered
  <2> QED
    BY <2>1, <2>6
<1>13. ASSUME Tick PROVE UNCHANGED A!vars
  <2>1. /\ cfg'.enabled = cfg.enabled /\ cfg'.confirmed = cfg.confirmed
        /\ cfg'.nonce = cfg.nonce
    BY <1>13, <1>0, OlderGood DEF Tick
  <2> QED
    BY <1>13, <2>1 DEF Tick, A!vars, A!calls, Stage, Door
<1>14. ASSUME Crash PROVE A!Lose
  <2>1. A!Less
    BY <1>14, ProcessLess DEF Crash
  <2> QED
    BY <1>14, <1>0, <2>1 DEF Crash, ProcessLost, MainTeardown, A!Lose, Stage, Door
<1>15. ASSUME Reboot PROVE A!Shut
  <2>1. lapse' \in BOOLEAN
    BY <1>15, <1>0 DEF Reboot, ProcessLost, MainTeardown
  <2>2. A!Less
    BY <1>15, ProcessLess DEF Reboot
  <2> QED
    BY <1>15, <2>1, <2>2 DEF Reboot, A!Shut, Stage, Door
<1>16. ASSUME ScriptBridge PROVE A!Shut \/ A!Open
  <2>1. /\ wan' = (IF sreq THEN "none" ELSE "br0") /\ lapse' = (lapse \/ (flag /\ ~sreq))
        /\ UNCHANGED <<leafMode, cfg, Calls, obeyed>>
    BY <1>16 DEF ScriptBridge
  <2>2. CASE sreq
    BY <2>1, <2>2, <1>0, CallsLost DEF A!Shut, Asked, Answered, Signed, Stage, Door
  <2>3. CASE ~sreq
    <3>1. leafMode /\ cfg.confirmed => lapse'
      BY <2>1, <2>3 DEF ClosedInv
    <3>2. lapse' \in {lapse, TRUE}
      BY <2>1, <1>0, <2>3 DEF BooleansOK
    <3> QED
      BY <2>1, <2>3, <3>1, <3>2 DEF A!Open, A!MayBeOpen, A!calls, Stage, Door
  <2> QED
    BY <2>2, <2>3
<1>17. CASE UNCHANGED vars
  BY <1>17 DEF vars, A!vars, A!calls, Stage, Door
<1> QED
  BY <1>1, <1>2, <1>3, <1>4, <1>5, <1>6, <1>7, <1>8, <1>9, <1>10, <1>11, <1>12, <1>13,
     <1>14, <1>15, <1>16, <1>17, QuietPass, QuietRest, SeenStutters
  DEF Next, PassStep, ScriptStep, A!Next

\* The leaf implements Association, for any number of associations and any
\* interleaving of the manager, the handlers, the listener and the script: an
\* association is confirmed behind a shut uplink only, and given up once confirmed
\* on the main router's word or with leaf mode only.
THEOREM LeafImplementsAssociation == Spec => ImplementsAssociation
<1>1. TInv /\ ClosedInv /\ ObeyedInv /\ [Next]_vars => [A!Next]_A!vars
  BY AssociationStep
<1> QED
  BY <1>1, AssociationInit, TypeInit, TypeStep, ClosedInit, ClosedStep, ObeyedInit, ObeyedStep, PTL
  DEF Spec, ImplementsAssociation, A!Spec
=============================================================================
