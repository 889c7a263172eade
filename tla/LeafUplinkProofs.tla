-------------------------- MODULE LeafUplinkProofs --------------------------
(***************************************************************************)
(* Proofs about LeafUplink, for any number of associations, any delays and *)
(* any number of outside events.                                           *)
(***************************************************************************)
EXTENDS LeafUplink, TLAPS

-----------------------------------------------------------------------------
(* Type correctness.                                                       *)

\* The empty configuration is well formed.
LEMMA NoCfgGood == WellFormed(NoCfg)
  BY KeyAssumption, TimeAssumption DEF WellFormed, NoCfg, Configs

\* Ageing keeps a configuration well formed and changes nothing but its age.
LEMMA OlderGood ==
  ASSUME NEW c, WellFormed(c)
  PROVE  /\ WellFormed(Older(c))
         /\ Older(c).enabled = c.enabled /\ Older(c).confirmed = c.confirmed
         /\ Older(c).nonce = c.nonce
  BY TimeAssumption DEF WellFormed, Older, Configs

\* Spending from the budget leaves a budget.
LEMMA SpendType ==
  ASSUME left \in [Events -> Nat], NEW e \in Events, Spend(e)
  PROVE  left' \in [Events -> Nat]
  BY DEF Spend, Events

Active == {"guard", "unbridge", "ensure", "join", "confirm"}

\* Where the pass is fixes what its locals can be, and the main router only ends an
\* association it has.
PassInv ==
  /\ pc \in Active => rcfg.enabled
  /\ pc \in {"down", "idle", "load"} \cup Active => after = "idle"
  /\ pc \in {"stat", "clear"} => after = "stat"
  /\ mpc = "waits" \/ req = Stop => mainKey \in Nonces

TInv == TypeOK /\ PassInv

USE DEF disk, pass, memory, control, kernel, script, peer, history

\* The initial state is well typed.
LEMMA TypeInit == Init => TInv
<1> SUFFICES ASSUME Init PROVE TInv
  OBVIOUS
<1> USE DEF Init
<1>1. WellFormed(cfg) /\ WellFormed(rcfg)
  BY NoCfgGood
<1>2. tun \in Tunnels /\ guard \in Guards
  BY DEF Tunnels, NoTun, Guards, NoGuard
<1>3. ctlOff \in -1..(AckWindow + 1)
  BY TimeAssumption
<1>4. left \in [Events -> Nat]
  BY BudgetAssumption
<1>5. PassInv
  BY KeyAssumption DEF PassInv, Active
<1>6. BooleansOK
  BY Zenon DEF BooleansOK
<1>7. late \in [Requests -> Nat]
  OBVIOUS
<1> QED
  BY <1>1, <1>2, <1>3, <1>4, <1>5, <1>6, <1>7 DEF TInv, TypeOK

\* The Boolean variables stay Boolean.
LEMMA BooleansStep == BooleansOK /\ [Next]_vars => BooleansOK'
<1> SUFFICES ASSUME BooleansOK, [Next]_vars PROVE BooleansOK'
  OBVIOUS
<1> USE DEF BooleansOK
<1>1. ASSUME PassLoad PROVE BooleansOK'
  BY <1>1, Zenon DEF PassLoad
<1>2. ASSUME LeafDisabled PROVE BooleansOK'
  BY <1>2, Zenon DEF LeafDisabled, EndPass, GoTo
<1>3. ASSUME LeafWait PROVE BooleansOK'
  BY <1>3, Zenon DEF LeafWait, EndPass
<1>4. ASSUME LeafActivate PROVE BooleansOK'
  BY <1>4, Zenon DEF LeafActivate, GoTo
<1>5. ASSUME PassGuard PROVE BooleansOK'
  BY <1>5, Zenon DEF PassGuard, GoTo
<1>6. ASSUME PassUnbridge PROVE BooleansOK'
  BY <1>6, Zenon DEF PassUnbridge, GoTo
<1>7. ASSUME PassUnbridgeFails PROVE BooleansOK'
  BY <1>7, Zenon DEF PassUnbridgeFails, GiveUp
<1>8. ASSUME EnsureMACsec PROVE BooleansOK'
  <2>1. rest' \in BOOLEAN
    BY <1>8, Zenon DEF EnsureMACsec
  <2> QED
    BY <1>8, <2>1, Zenon DEF EnsureMACsec, GoTo
<1>8a. ASSUME EnsureMACsecOverOld PROVE BooleansOK'
  BY <1>8a, Zenon DEF EnsureMACsecOverOld, GoTo
<1>9. ASSUME EnsureMACsecFails PROVE BooleansOK'
  <2>1. rest' \in BOOLEAN
    BY <1>9 DEF EnsureMACsecFails
  <2> QED
    BY <1>9, <2>1, Zenon DEF EnsureMACsecFails, GiveUp
<1>10. ASSUME EnsureWG PROVE BooleansOK'
  BY <1>10, Zenon DEF EnsureWG, GoTo
<1>11. ASSUME EnsureWGFails PROVE BooleansOK'
  <2>1. rest' \in BOOLEAN
    BY <1>11 DEF EnsureWGFails
  <2> QED
    BY <1>11, <2>1, Zenon DEF EnsureWGFails, GiveUp
<1>12. ASSUME JoinLive PROVE BooleansOK'
  BY <1>12, Zenon DEF JoinLive, Joined
<1>13. ASSUME JoinDown PROVE BooleansOK'
  BY <1>13, Zenon DEF JoinDown, Joined
<1>14. ASSUME Confirm PROVE BooleansOK'
  BY <1>14, Zenon DEF Confirm, EndPass
<1>15. ASSUME ConfirmNothing PROVE BooleansOK'
  BY <1>15, Zenon DEF ConfirmNothing, EndPass
<1>16. ASSUME Revert PROVE BooleansOK'
  BY <1>16, Zenon DEF Revert, EndPass, GoTo
<1>17. ASSUME TdTunnel PROVE BooleansOK'
  BY <1>17, Zenon DEF TdTunnel, GoTo
<1>18. ASSUME TdGuard PROVE BooleansOK'
  BY <1>18, Zenon DEF TdGuard, GoTo
<1>19. ASSUME TdRejoin PROVE BooleansOK'
  BY <1>19, Zenon DEF TdRejoin, GoTo
<1>20. ASSUME TdFlag PROVE BooleansOK'
  BY <1>20, Zenon DEF TdFlag, GoTo, EndPass
<1>21. ASSUME MainRole PROVE BooleansOK'
  BY <1>21, Zenon DEF MainRole, EndPass
<1>22. ASSUME MainStat PROVE BooleansOK'
  BY <1>22, Zenon DEF MainStat, GoTo, EndPass
<1>23. ASSUME MainClear PROVE BooleansOK'
  BY <1>23, Zenon DEF MainClear, EndPass
<1>24a. ASSUME NEW n \in Nonces, MainEnable(n) PROVE BooleansOK'
  BY <1>24a, Zenon DEF MainEnable
<1>24. ASSUME NEW n \in Nonces, PeerEnable(n) PROVE BooleansOK'
  BY <1>24, Zenon DEF PeerEnable
<1>24b. ASSUME NEW n \in Nonces, LateEnable(n) PROVE BooleansOK'
  BY <1>24b, Zenon DEF LateEnable
<1>25a. ASSUME MainDisable PROVE BooleansOK'
  BY <1>25a, Zenon DEF MainDisable
<1>25. ASSUME PeerDisable PROVE BooleansOK'
  BY <1>25, Zenon DEF PeerDisable
<1>25b. ASSUME PeerRefuses PROVE BooleansOK'
  BY <1>25b, Zenon DEF PeerRefuses
<1>25c. ASSUME MainSave PROVE BooleansOK'
  BY <1>25c, Zenon DEF MainSave
<1>25d. ASSUME CallLost PROVE BooleansOK'
  BY <1>25d, Zenon DEF CallLost
<1>25e. ASSUME CallFails PROVE BooleansOK'
  BY <1>25e, Zenon DEF CallFails
<1>26. ASSUME WireDisable PROVE BooleansOK'
  BY <1>26, Zenon DEF WireDisable
<1>26a. ASSUME WireDone PROVE BooleansOK'
  BY <1>26a, Zenon DEF WireDone
<1>27. ASSUME WireEnds PROVE BooleansOK'
  BY <1>27, Zenon DEF WireEnds
<1>27a. ASSUME MainCrash PROVE BooleansOK'
  BY <1>27a, Zenon DEF MainCrash
<1>27b. ASSUME LateDisable PROVE BooleansOK'
  BY <1>27b, Zenon DEF LateDisable
<1>28. ASSUME LeafModeSet PROVE BooleansOK'
  BY <1>28, Zenon DEF LeafModeSet
<1>29. ASSUME CtlFrame PROVE BooleansOK'
  BY <1>29, Zenon DEF CtlFrame
<1>30. ASSUME CtlMark PROVE BooleansOK'
  BY <1>30, Zenon DEF CtlMark
<1>31. ASSUME CtlSave PROVE BooleansOK'
  BY <1>31, Zenon DEF CtlSave
<1>32. ASSUME CtlExpire PROVE BooleansOK'
  BY <1>32, Zenon DEF CtlExpire
<1>33. ASSUME Tick PROVE BooleansOK'
  BY <1>33, Zenon DEF Tick
<1>34. ASSUME TunnelUp PROVE BooleansOK'
  BY <1>34, Zenon DEF TunnelUp
<1>35. ASSUME TunnelDown PROVE BooleansOK'
  BY <1>35, Zenon DEF TunnelDown
<1>36. ASSUME MKAExit PROVE BooleansOK'
  BY <1>36, Zenon DEF MKAExit
<1>37. ASSUME Crash PROVE BooleansOK'
  BY <1>37, Zenon DEF Crash, ProcessLost
<1>38. ASSUME Start PROVE BooleansOK'
  BY <1>38, Zenon DEF Start, GoTo
<1>39. ASSUME Reboot PROVE BooleansOK'
  BY <1>39, Zenon DEF Reboot, ProcessLost
<1>40. ASSUME BaseRestart PROVE BooleansOK'
  BY <1>40, Zenon DEF BaseRestart
<1>41. ASSUME ScriptRead PROVE BooleansOK'
  BY <1>41, Zenon DEF ScriptRead
<1>42. ASSUME ScriptBridge PROVE BooleansOK'
  BY <1>42, Zenon DEF ScriptBridge
<1>43. ASSUME ScriptFlush PROVE BooleansOK'
  BY <1>43, Zenon DEF ScriptFlush
<1>44. ASSUME ScriptGuard PROVE BooleansOK'
  BY <1>44, Zenon DEF ScriptGuard
<1>45. CASE UNCHANGED vars
  BY <1>45, Zenon DEF vars
<1> QED
  BY <1>1, <1>2, <1>3, <1>4, <1>5, <1>6, <1>7, <1>8, <1>8a, <1>9, <1>10, <1>11, <1>12, <1>13,
     <1>14, <1>15, <1>16, <1>17, <1>18, <1>19, <1>20, <1>21, <1>22, <1>23, <1>24, <1>24a, <1>24b,
     <1>25, <1>25a, <1>25b, <1>25c, <1>25d, <1>25e, <1>26, <1>26a, <1>27, <1>27a, <1>27b,
     <1>28, <1>29, <1>30, <1>31, <1>32, <1>33, <1>34, <1>35, <1>36, <1>37,
     <1>38, <1>39, <1>40, <1>41, <1>42, <1>43, <1>44, <1>45
  DEF Next, PassStep, ScriptStep

\* Every step keeps the types and the pass's locals in order.
LEMMA TypeStep == TInv /\ [Next]_vars => TInv'
<1> SUFFICES ASSUME TInv, [Next]_vars PROVE TInv'
  OBVIOUS
<1>0. BooleansOK'
  BY BooleansStep DEF TInv, TypeOK
<1> USE DEF TInv, TypeOK, PassInv, Active, Teardown
<1>1. ASSUME PassLoad PROVE TInv'
  BY <1>0, <1>1 DEF PassLoad
<1>2. ASSUME LeafDisabled PROVE TInv'
  BY <1>0, <1>2, NoCfgGood DEF LeafDisabled, EndPass, GoTo
<1>3. ASSUME LeafWait PROVE TInv'
  BY <1>0, <1>3, NoCfgGood DEF LeafWait, EndPass
<1>4. ASSUME LeafActivate PROVE TInv'
  BY <1>0, <1>4 DEF LeafActivate, GoTo
<1>5. ASSUME PassGuard PROVE TInv'
  <2>1. left' \in [Events -> Nat]
    BY <1>5, SpendType DEF PassGuard, Fault, Events
  <2>2. ModeOf[rcfg.nonce] \in Modes
    BY <1>5, ModeAssumption DEF PassGuard, WellFormed
  <2>3. (~noEgress) \in BOOLEAN
    OBVIOUS
  <2>4. \A e \in BOOLEAN : GuardFor(rcfg.nonce, e) \in Guards
    BY <2>2 DEF GuardFor, Guards
  <2>5. guard' \in Guards
    BY <1>5, <2>3, <2>4 DEF PassGuard
  <2> QED
    BY <1>0, <1>5, <2>1, <2>5 DEF PassGuard, GoTo
<1>6. ASSUME PassUnbridge PROVE TInv'
  <2>1. rcfg.nonce \in Nonces
    BY <1>6 DEF PassUnbridge, WellFormed
  <2> QED
    BY <1>0, <1>6, <2>1, TimeAssumption DEF PassUnbridge, GoTo
<1>7. ASSUME PassUnbridgeFails PROVE TInv'
  <2>1. left' \in [Events -> Nat]
    BY <1>7, SpendType DEF PassUnbridgeFails, Fault, Events
  <2> QED
    BY <1>0, <1>7, <2>1 DEF PassUnbridgeFails, GiveUp
<1>8. ASSUME EnsureMACsec PROVE TInv'
  <2>1. rcfg.nonce \in Nonces
    BY <1>8 DEF EnsureMACsec, WellFormed
  <2>2. tun' \in Tunnels
    BY <1>8, <2>1 DEF EnsureMACsec, Tunnels, NewTun, NoTun
  <2>3. left' \in [Events -> Nat]
    BY <1>8, SpendType DEF EnsureMACsec, Fault, Events
  <2> QED
    BY <1>0, <1>8, <2>1, <2>2, <2>3 DEF EnsureMACsec, GoTo
<1>8a. ASSUME EnsureMACsecOverOld PROVE TInv'
  <2>1. rcfg.nonce \in Nonces
    BY <1>8a DEF EnsureMACsecOverOld, WellFormed
  <2>2. tun' \in Tunnels
    BY <1>8a, <2>1 DEF EnsureMACsecOverOld, Tunnels
  <2>3. left' \in [Events -> Nat]
    BY <1>8a, SpendType DEF EnsureMACsecOverOld, Fault, Events
  <2> QED
    BY <1>0, <1>8a, <2>1, <2>2, <2>3 DEF EnsureMACsecOverOld, GoTo
<1>9. ASSUME EnsureMACsecFails PROVE TInv'
  <2>1. left' \in [Events -> Nat]
    BY <1>9, SpendType DEF EnsureMACsecFails, Fault, Events
  <2>2. NoTun \in Tunnels
    BY DEF Tunnels, NoTun
  <2>3. tun' \in Tunnels
    BY <1>9, <2>2 DEF EnsureMACsecFails
  <2> QED
    BY <1>0, <1>9, <2>1, <2>3 DEF EnsureMACsecFails, GiveUp
<1>10. ASSUME EnsureWG PROVE TInv'
  <2>1. rcfg.nonce \in Nonces
    BY <1>10 DEF EnsureWG, WellFormed
  <2>2. ASSUME IsWG(tun.key) PROVE tun' \in Tunnels
    <3>1. tun' = [tun EXCEPT !.key = IF wgApplied THEN @ ELSE rcfg.nonce]
      BY <1>10, <2>2 DEF EnsureWG
    <3> QED
      BY <2>1, <3>1 DEF Tunnels
  <2>3. ASSUME ~IsWG(tun.key) PROVE tun' \in Tunnels
    <3>1. rest \in BOOLEAN /\ tun' \in NewWG
      BY <1>10, <2>3 DEF EnsureWG, BooleansOK
    <3> QED
      BY <2>1, <3>1 DEF NewWG, Tunnels
  <2>4. left' \in [Events -> Nat]
    BY <1>10, SpendType DEF EnsureWG, Fault, Events
  <2>5. tun' \in Tunnels
    BY <2>2, <2>3
  <2> QED
    BY <1>0, <1>10, <2>1, <2>4, <2>5 DEF EnsureWG, GoTo
<1>11. ASSUME EnsureWGFails PROVE TInv'
  <2>1. left' \in [Events -> Nat]
    BY <1>11, SpendType DEF EnsureWGFails, Fault, Events
  <2>2. NoTun \in Tunnels
    BY DEF Tunnels, NoTun
  <2>3. tun' \in Tunnels
    BY <1>11, <2>2 DEF EnsureWGFails
  <2> QED
    BY <1>0, <1>11, <2>1, <2>3 DEF EnsureWGFails, GiveUp
<1>12. ASSUME JoinLive PROVE TInv'
  <2>1. left' \in [Events -> Nat]
    BY <1>12, SpendType DEF JoinLive, Fault, Events
  <2>2. tun' \in Tunnels
    BY <1>12 DEF JoinLive, Tunnels
  <2> QED
    BY <1>0, <1>12, <2>1, <2>2 DEF JoinLive, Joined
<1>13. ASSUME JoinDown PROVE TInv'
  <2>1. NoTun \in Tunnels /\ [tun EXCEPT !.bridged = FALSE] \in Tunnels
    BY DEF Tunnels, NoTun
  <2>2. tun' \in Tunnels
    BY <1>13, <2>1 DEF JoinDown
  <2>3. left' \in [Events -> Nat]
    BY <1>13, SpendType DEF JoinDown, Fault, Events
  <2> QED
    BY <1>0, <1>13, <2>2, <2>3 DEF JoinDown, Joined
<1>14. ASSUME Confirm PROVE TInv'
  <2>1. WellFormed(cfg')
    BY <1>14 DEF Confirm, WellFormed, Configs, MayConfirm
  <2> QED
    BY <1>0, <1>14, <2>1, NoCfgGood DEF Confirm, EndPass
<1>15. ASSUME ConfirmNothing PROVE TInv'
  BY <1>0, <1>15, NoCfgGood DEF ConfirmNothing, EndPass
<1>16. ASSUME Revert PROVE TInv'
  BY <1>0, <1>16, NoCfgGood DEF Revert, EndPass, GoTo
<1>17. ASSUME TdTunnel PROVE TInv'
  <2>1. left' \in [Events -> Nat]
    BY <1>17, SpendType DEF TdTunnel, Fault, Events
  <2>2. NoTun \in Tunnels
    BY DEF Tunnels, NoTun
  <2>3. tun' \in Tunnels
    BY <1>17, <2>2 DEF TdTunnel
  <2> QED
    BY <1>0, <1>17, <2>1, <2>3 DEF TdTunnel, GoTo
<1>18. ASSUME TdGuard PROVE TInv'
  <2>1. left' \in [Events -> Nat]
    BY <1>18, SpendType DEF TdGuard, Fault, Events
  <2>2. NoGuard \in Guards
    BY DEF Guards, NoGuard
  <2>3. guard' \in Guards
    BY <1>18, <2>2 DEF TdGuard
  <2> QED
    BY <1>0, <1>18, <2>1, <2>3 DEF TdGuard, GoTo
<1>19. ASSUME TdRejoin PROVE TInv'
  <2>1. left' \in [Events -> Nat]
    BY <1>19, SpendType DEF TdRejoin, Fault, Events
  <2> QED
    BY <1>0, <1>19, <2>1 DEF TdRejoin, GoTo
<1>20. ASSUME TdFlag PROVE TInv'
  BY <1>0, <1>20, NoCfgGood DEF TdFlag, GoTo, EndPass
<1>21. ASSUME MainRole PROVE TInv'
  BY <1>0, <1>21, NoCfgGood DEF MainRole, EndPass
<1>22. ASSUME MainStat PROVE TInv'
  BY <1>0, <1>22, NoCfgGood DEF MainStat, GoTo, EndPass
<1>23. ASSUME MainClear PROVE TInv'
  BY <1>0, <1>23, NoCfgGood DEF MainClear, EndPass
<1>24a. ASSUME NEW n \in Nonces, MainEnable(n) PROVE TInv'
  <2>1. left' \in [Events -> Nat]
    BY <1>24a, SpendType DEF MainEnable, Events
  <2> QED
    BY <1>0, <1>24a, <2>1, KeyAssumption DEF MainEnable, Requests
<1>24. ASSUME NEW n \in Nonces, PeerEnable(n) PROVE TInv'
  <2>1. WellFormed(cfg')
    BY <1>24, TimeAssumption DEF PeerEnable, Enabled, NewCfg, WellFormed, Configs
  <2> QED
    BY <1>0, <1>24, <2>1 DEF PeerEnable
<1>24b. ASSUME NEW n \in Nonces, LateEnable(n) PROVE TInv'
  <2>1. WellFormed(cfg')
    BY <1>24b, TimeAssumption DEF LateEnable, Enabled, NewCfg, WellFormed, Configs
  <2>2. late' \in [Requests -> Nat]
    BY <1>24b DEF LateEnable, Requests
  <2> QED
    BY <1>0, <1>24b, <2>1, <2>2 DEF LateEnable
<1>25a. ASSUME MainDisable PROVE TInv'
  <2>1. left' \in [Events -> Nat]
    BY <1>25a, SpendType DEF MainDisable, Events
  <2> QED
    BY <1>0, <1>25a, <2>1, KeyAssumption DEF MainDisable, Requests
<1>25. ASSUME PeerDisable PROVE TInv'
  BY <1>0, <1>25, NoCfgGood DEF PeerDisable
<1>25b. ASSUME PeerRefuses PROVE TInv'
  <2>1. left' \in [Events -> Nat]
    BY <1>25b, SpendType DEF PeerRefuses, Fault, Events
  <2> QED
    BY <1>0, <1>25b, <2>1 DEF PeerRefuses
<1>25c. ASSUME MainSave PROVE TInv'
  BY <1>0, <1>25c DEF MainSave, Requests
<1>25d. ASSUME CallLost PROVE TInv'
  <2>1. left' \in [Events -> Nat]
    BY <1>25d, SpendType DEF CallLost, Events
  <2>2. req \in Requests
    BY <1>25d DEF CallLost
  <2>3. late' \in [Requests -> Nat] /\ stray' \subseteq Nonces
    BY <1>25d, <2>2 DEF CallLost, Requests
  <2> QED
    BY <1>0, <1>25d, <2>1, <2>3 DEF CallLost
<1>25e. ASSUME CallFails PROVE TInv'
  BY <1>0, <1>25e, KeyAssumption DEF CallFails
<1>26. ASSUME WireDisable PROVE TInv'
  <2>1. left' \in [Events -> Nat]
    BY <1>26, SpendType DEF WireDisable, Events
  <2> QED
    BY <1>0, <1>26, <2>1 DEF WireDisable
<1>26a. ASSUME WireDone PROVE TInv'
  BY <1>0, <1>26a, KeyAssumption DEF WireDone
<1>27. ASSUME WireEnds PROVE TInv'
  BY <1>0, <1>27 DEF WireEnds
<1>27a. ASSUME MainCrash PROVE TInv'
  <2>1. left' \in [Events -> Nat]
    BY <1>27a, SpendType DEF MainCrash, Events
  <2>2. late' \in [Requests -> Nat]
    BY <1>27a DEF MainCrash, Requests
  <2>3. stray' \subseteq Nonces
    BY <1>27a DEF MainCrash
  <2> QED
    BY <1>0, <1>27a, <2>1, <2>2, <2>3, KeyAssumption DEF MainCrash
<1>27b. ASSUME LateDisable PROVE TInv'
  <2>1. late' \in [Requests -> Nat]
    BY <1>27b DEF LateDisable, Requests
  <2> QED
    BY <1>0, <1>27b, <2>1, NoCfgGood DEF LateDisable
<1>28. ASSUME LeafModeSet PROVE TInv'
  <2>1. left' \in [Events -> Nat]
    BY <1>28, SpendType DEF LeafModeSet, Events
  <2> QED
    BY <1>0, <1>28, <2>1 DEF LeafModeSet
<1>29. ASSUME CtlFrame PROVE TInv'
  BY <1>0, <1>29, TimeAssumption DEF CtlFrame
<1>30. ASSUME CtlMark PROVE TInv'
  BY <1>0, <1>30, TimeAssumption DEF CtlMark
<1>31. ASSUME CtlSave PROVE TInv'
  BY <1>0, <1>31, NoCfgGood DEF CtlSave
<1>32. ASSUME CtlExpire PROVE TInv'
  BY <1>0, <1>32 DEF CtlExpire
<1>33. ASSUME Tick PROVE TInv'
  <2>1. WellFormed(cfg') /\ WellFormed(rcfg') /\ rcfg'.enabled = rcfg.enabled
    BY <1>33, OlderGood DEF Tick
  <2>2. ctlOff' \in -1..(AckWindow + 1)
    BY <1>33, TimeAssumption DEF Tick
  <2> QED
    BY <1>0, <1>33, <2>1, <2>2 DEF Tick
<1>34. ASSUME TunnelUp PROVE TInv'
  <2>1. Key \in Nonces
    BY <1>34 DEF TunnelUp
  <2>2. tun' \in Tunnels /\ met' \subseteq Nonces
    BY <1>34, <2>1 DEF TunnelUp, Tunnels
  <2> QED
    BY <1>0, <1>34, <2>2 DEF TunnelUp
<1>35. ASSUME TunnelDown PROVE TInv'
  <2>1. tun' \in Tunnels
    BY <1>35 DEF TunnelDown, Tunnels
  <2> QED
    BY <1>0, <1>35, <2>1 DEF TunnelDown
<1>36. ASSUME MKAExit PROVE TInv'
  <2>1. left' \in [Events -> Nat]
    BY <1>36, SpendType DEF MKAExit, Events
  <2> QED
    BY <1>0, <1>36, <2>1 DEF MKAExit
<1>37. ASSUME Crash PROVE TInv'
  <2>1. left' \in [Events -> Nat]
    BY <1>37, SpendType DEF Crash, Events
  <2>2. late' \in [Requests -> Nat]
    BY <1>37 DEF Crash, ProcessLost
  <2> QED
    BY <1>0, <1>37, <2>1, <2>2, NoCfgGood, TimeAssumption DEF Crash, ProcessLost
<1>38. ASSUME Start PROVE TInv'
  BY <1>0, <1>38 DEF Start, GoTo
<1>39. ASSUME Reboot PROVE TInv'
  <2>1. left' \in [Events -> Nat]
    BY <1>39, SpendType DEF Reboot, Events
  <2>2. tun' \in Tunnels /\ guard' \in Guards
    BY <1>39 DEF Reboot, Tunnels, NoTun, Guards, NoGuard
  <2>3. late' \in [Requests -> Nat]
    BY <1>39 DEF Reboot, ProcessLost
  <2> QED
    BY <1>0, <1>39, <2>1, <2>2, <2>3, NoCfgGood, TimeAssumption DEF Reboot, ProcessLost
<1>40. ASSUME BaseRestart PROVE TInv'
  <2>1. left' \in [Events -> Nat]
    BY <1>40, SpendType DEF BaseRestart, Events
  <2> QED
    BY <1>0, <1>40, <2>1 DEF BaseRestart
<1>41. ASSUME ScriptRead PROVE TInv'
  BY <1>0, <1>41 DEF ScriptRead
<1>42. ASSUME ScriptBridge PROVE TInv'
  BY <1>0, <1>42 DEF ScriptBridge
<1>43. ASSUME ScriptFlush PROVE TInv'
  <2>1. guard' \in Guards
    BY <1>43 DEF ScriptFlush, Guards, NoGuard
  <2> QED
    BY <1>0, <1>43, <2>1 DEF ScriptFlush
<1>44. ASSUME ScriptGuard PROVE TInv'
  <2>1. guard' \in Guards
    BY <1>44 DEF ScriptGuard, Guards, BootGuard
  <2> QED
    BY <1>0, <1>44, <2>1 DEF ScriptGuard
<1>45. CASE UNCHANGED vars
  BY <1>0, <1>45 DEF vars
<1> QED
  BY <1>1, <1>2, <1>3, <1>4, <1>5, <1>6, <1>7, <1>8, <1>8a, <1>9, <1>10, <1>11, <1>12, <1>13,
     <1>14, <1>15, <1>16, <1>17, <1>18, <1>19, <1>20, <1>21, <1>22, <1>23, <1>24, <1>24a, <1>24b,
     <1>25, <1>25a, <1>25b, <1>25c, <1>25d, <1>25e, <1>26, <1>26a, <1>27, <1>27a, <1>27b,
     <1>28, <1>29, <1>30, <1>31, <1>32, <1>33, <1>34, <1>35, <1>36, <1>37,
     <1>38, <1>39, <1>40, <1>41, <1>42, <1>43, <1>44, <1>45
  DEF Next, PassStep, ScriptStep

\* In every reachable state each variable has its type.
THEOREM TypeCorrect == Spec => []TypeOK
<1>1. TInv => TypeOK
  BY DEF TInv
<1> QED
  BY <1>1, TypeInit, TypeStep, PTL DEF Spec

-----------------------------------------------------------------------------
(* Fail closed.                                                            *)

\* A teardown that ends with the pass: a disable or a revert, not a change of role.
PlainTeardown == pc \in Teardown /\ after = "idle"

\* The tunnel has been removed and the teardown has not ended.
TunnelGone == pc \in {"td_guard", "td_rejoin", "td_flag", "stat", "clear"}

\* The pass has unbridged the uplink and has not failed since.
Unbridged == pc \in {"ensure", "join"} \/ (pc = "confirm" /\ secured)

\* What makes the uplink fail closed, as an inductive invariant.  The flag covers
\* a confirmed association except inside a change of role; a teardown that may
\* rejoin br0 meets no confirmed association and no tunnel.
ClosedInv ==
  /\ cfg.confirmed => flag \/ lapse \/ MainTeardown
  /\ MainTeardown /\ leafMode => lapse
  /\ PlainTeardown \/ (pc = "load" /\ ~rcfg.enabled) => ~cfg.confirmed
  /\ pc \in Active => flag
  /\ Unbridged => wan = "none" \/ lapse
  /\ cfg.confirmed /\ wan = "br0" => lapse \/ MainTeardown
  /\ tun.bridged \/ rest => flag \/ lapse
  /\ TunnelGone => (tun = NoTun /\ ~rest) \/ lapse
  /\ NoBypass

\* Where a MACsec key is proved: the running participant, the secY it made or
\* inherited, and what the pass has seen of it.
KeyInv ==
  /\ MACsecKeyProven
  /\ tun.live /\ ~IsWG(tun.key) => tun.key \in met \cup inherits
  /\ pc = "join" /\ ~IsWG(rcfg.nonce) => tun.key = rcfg.nonce \/ rcfg.nonce \in inherits
  /\ mka \in Nonces => tun.key = mka \/ mka \in inherits
  /\ pc = "join" /\ ~IsWG(rcfg.nonce) => mka \in {rcfg.nonce, None, Dead}
  /\ pc = "confirm" /\ secured /\ ~IsWG(rcfg.nonce) => rcfg.nonce \in met \cup inherits

\* A nonce whose disable frame is on the wire, being handled, or obeyed is one the
\* main router no longer asks for and is about to forget, unless it is a stray one;
\* only stray requests are ever carried out late.
ObeyedInv ==
  /\ ObeyedDisableIsFinal
  /\ obeyed \subseteq used
  /\ \A n \in Nonces : n \in {hkey, wire, mainKey, req} \/ late[n] > 0 => n \in used
  /\ \A n \in Nonces : late[n] > 0 => n \in stray
  /\ \A n \in Nonces \ stray :
       n \in obeyed \cup {hkey, wire} => n # req /\ (n = mainKey => mpc = "waits")

\* The fields of the empty configuration.
LEMMA NoCfgFacts == ~NoCfg.enabled /\ ~NoCfg.confirmed
  BY DEF NoCfg

\* The fields of the absent tunnel.
LEMMA NoTunFacts == NoTun.key = None /\ ~NoTun.live /\ ~NoTun.bridged
  BY DEF NoTun

\* The initial state is closed.
LEMMA ClosedInit == Init => ClosedInv
  BY NoCfgFacts, NoTunFacts DEF Init, ClosedInv, MainTeardown, PlainTeardown, TunnelGone, Unbridged, Active, Teardown, NoBypass

\* Every step keeps the uplink closed.
LEMMA ClosedStep == TInv /\ ClosedInv /\ [Next]_vars => ClosedInv'
<1> SUFFICES ASSUME TInv, ClosedInv, [Next]_vars PROVE ClosedInv'
  OBVIOUS
<1> USE DEF TInv, TypeOK, PassInv, ClosedInv, MainTeardown, PlainTeardown, TunnelGone, Unbridged,
           Active, Teardown, NoBypass
<1>1. ASSUME PassLoad PROVE ClosedInv'
  BY <1>1 DEF PassLoad, WellFormed
<1>2. ASSUME LeafDisabled PROVE ClosedInv'
  BY <1>2 DEF LeafDisabled, EndPass, GoTo
<1>3. ASSUME LeafWait PROVE ClosedInv'
  BY <1>3 DEF LeafWait, EndPass
<1>4. ASSUME LeafActivate PROVE ClosedInv'
  BY <1>4 DEF LeafActivate, GoTo
<1>5. ASSUME PassGuard PROVE ClosedInv'
  BY <1>5 DEF PassGuard, GoTo
<1>6. ASSUME PassUnbridge PROVE ClosedInv'
  BY <1>6 DEF PassUnbridge, GoTo
<1>7. ASSUME PassUnbridgeFails PROVE ClosedInv'
  BY <1>7 DEF PassUnbridgeFails, GiveUp
<1>8. ASSUME EnsureMACsec PROVE ClosedInv'
  <2>1. tun'.bridged => tun.bridged
    BY <1>8 DEF EnsureMACsec, NewTun, NoTun
  <2>2. flag /\ (wan = "none" \/ lapse)
    BY <1>8 DEF EnsureMACsec
  <2> QED
    BY <1>8, <2>1, <2>2 DEF EnsureMACsec, GoTo
<1>8a. ASSUME EnsureMACsecOverOld PROVE ClosedInv'
  <2>1. flag /\ (wan = "none" \/ lapse)
    BY <1>8a DEF EnsureMACsecOverOld
  <2> QED
    BY <1>8a, <2>1 DEF EnsureMACsecOverOld, GoTo
<1>9. ASSUME EnsureMACsecFails PROVE ClosedInv'
  <2>1. flag /\ (wan = "none" \/ lapse)
    BY <1>9 DEF EnsureMACsecFails
  <2> QED
    BY <1>9, <2>1 DEF EnsureMACsecFails, GiveUp
<1>10. ASSUME EnsureWG PROVE ClosedInv'
  <2>1. flag /\ (wan = "none" \/ lapse)
    BY <1>10 DEF EnsureWG
  <2> QED
    BY <1>10, <2>1 DEF EnsureWG, GoTo
<1>11. ASSUME EnsureWGFails PROVE ClosedInv'
  <2>1. flag /\ (wan = "none" \/ lapse)
    BY <1>11 DEF EnsureWGFails
  <2> QED
    BY <1>11, <2>1 DEF EnsureWGFails, GiveUp
<1>12. ASSUME JoinLive PROVE ClosedInv'
  BY <1>12 DEF JoinLive, Joined, Tunnels
<1>13. ASSUME JoinDown PROVE ClosedInv'
  BY <1>13, NoTunFacts DEF JoinDown, Joined, Tunnels
<1>14. ASSUME Confirm PROVE ClosedInv'
  BY <1>14 DEF Confirm, EndPass, MayConfirm
<1>15. ASSUME ConfirmNothing PROVE ClosedInv'
  BY <1>15 DEF ConfirmNothing, EndPass
<1>16. ASSUME Revert PROVE ClosedInv'
  BY <1>16, NoCfgFacts DEF Revert, EndPass, GoTo, MayRevert
<1>17. ASSUME TdTunnel PROVE ClosedInv'
  BY <1>17, NoTunFacts DEF TdTunnel, GoTo
<1>18. ASSUME TdGuard PROVE ClosedInv'
  BY <1>18 DEF TdGuard, GoTo
<1>19. ASSUME TdRejoin PROVE ClosedInv'
  BY <1>19, NoTunFacts DEF TdRejoin, GoTo
<1>20. ASSUME TdFlag PROVE ClosedInv'
  BY <1>20, NoTunFacts DEF TdFlag, GoTo, EndPass
<1>21. ASSUME MainRole PROVE ClosedInv'
  BY <1>21 DEF MainRole, EndPass
<1>22. ASSUME MainStat PROVE ClosedInv'
  BY <1>22 DEF MainStat, GoTo, EndPass
<1>23. ASSUME MainClear PROVE ClosedInv'
  BY <1>23, NoCfgFacts DEF MainClear, EndPass, WellFormed
<1>24a. ASSUME NEW n \in Nonces, MainEnable(n) PROVE ClosedInv'
  BY <1>24a DEF MainEnable
<1>24. ASSUME NEW n \in Nonces, PeerEnable(n) PROVE ClosedInv'
  BY <1>24 DEF PeerEnable, Enabled, NewCfg
<1>24b. ASSUME NEW n \in Nonces, LateEnable(n) PROVE ClosedInv'
  BY <1>24b DEF LateEnable, Enabled, NewCfg
<1>25a. ASSUME MainDisable PROVE ClosedInv'
  BY <1>25a DEF MainDisable
<1>25. ASSUME PeerDisable PROVE ClosedInv'
  BY <1>25, NoCfgFacts DEF PeerDisable
<1>25b. ASSUME PeerRefuses PROVE ClosedInv'
  BY <1>25b DEF PeerRefuses
<1>25c. ASSUME MainSave PROVE ClosedInv'
  BY <1>25c DEF MainSave
<1>25d. ASSUME CallLost PROVE ClosedInv'
  BY <1>25d DEF CallLost
<1>25e. ASSUME CallFails PROVE ClosedInv'
  BY <1>25e DEF CallFails
<1>26. ASSUME WireDisable PROVE ClosedInv'
  BY <1>26 DEF WireDisable
<1>26a. ASSUME WireDone PROVE ClosedInv'
  BY <1>26a DEF WireDone
<1>27. ASSUME WireEnds PROVE ClosedInv'
  BY <1>27 DEF WireEnds
<1>27a. ASSUME MainCrash PROVE ClosedInv'
  BY <1>27a DEF MainCrash
<1>27b. ASSUME LateDisable PROVE ClosedInv'
  BY <1>27b, NoCfgFacts DEF LateDisable
<1>28. ASSUME LeafModeSet PROVE ClosedInv'
  BY <1>28 DEF LeafModeSet
<1>29. ASSUME CtlFrame PROVE ClosedInv'
  BY <1>29 DEF CtlFrame
<1>30. ASSUME CtlMark PROVE ClosedInv'
  BY <1>30 DEF CtlMark
<1>31. ASSUME CtlSave PROVE ClosedInv'
  BY <1>31, NoCfgFacts DEF CtlSave
<1>32. ASSUME CtlExpire PROVE ClosedInv'
  BY <1>32 DEF CtlExpire
<1>33. ASSUME Tick PROVE ClosedInv'
  BY <1>33, OlderGood DEF Tick
<1>34. ASSUME TunnelUp PROVE ClosedInv'
  BY <1>34 DEF TunnelUp, Tunnels, NoTun
<1>35. ASSUME TunnelDown PROVE ClosedInv'
  BY <1>35 DEF TunnelDown, Tunnels, NoTun
<1>36. ASSUME MKAExit PROVE ClosedInv'
  BY <1>36 DEF MKAExit
<1>37. ASSUME Crash PROVE ClosedInv'
  BY <1>37 DEF Crash, ProcessLost
<1>38. ASSUME Start PROVE ClosedInv'
  BY <1>38 DEF Start, GoTo
<1>39. ASSUME Reboot PROVE ClosedInv'
  BY <1>39, NoTunFacts DEF Reboot, ProcessLost
<1>40. ASSUME BaseRestart PROVE ClosedInv'
  BY <1>40 DEF BaseRestart
<1>41. ASSUME ScriptRead PROVE ClosedInv'
  BY <1>41 DEF ScriptRead
<1>42. ASSUME ScriptBridge PROVE ClosedInv'
  BY <1>42 DEF ScriptBridge
<1>43. ASSUME ScriptFlush PROVE ClosedInv'
  BY <1>43 DEF ScriptFlush
<1>44. ASSUME ScriptGuard PROVE ClosedInv'
  BY <1>44 DEF ScriptGuard
<1>45. CASE UNCHANGED vars
  BY <1>45 DEF vars
<1> QED
  BY <1>1, <1>2, <1>3, <1>4, <1>5, <1>6, <1>7, <1>8, <1>8a, <1>9, <1>10, <1>11, <1>12, <1>13,
     <1>14, <1>15, <1>16, <1>17, <1>18, <1>19, <1>20, <1>21, <1>22, <1>23, <1>24, <1>24a, <1>24b,
     <1>25, <1>25a, <1>25b, <1>25c, <1>25d, <1>25e, <1>26, <1>26a, <1>27, <1>27a, <1>27b,
     <1>28, <1>29, <1>30, <1>31, <1>32, <1>33, <1>34, <1>35, <1>36, <1>37,
     <1>38, <1>39, <1>40, <1>41, <1>42, <1>43, <1>44, <1>45
  DEF Next, PassStep, ScriptStep

\* While a leaf runs a confirmed association its raw uplink is not a port of br0
\* (reconcileLeaf, teardownLeaf, mesh_rules.sh), unless there was a lapse.
THEOREM UplinkFailsClosed == Spec => [](FailClosed /\ NoBypass /\ ConfirmedIsFlagged)
<1>1. TInv /\ ClosedInv => FailClosed /\ NoBypass /\ ConfirmedIsFlagged
  BY DEF ClosedInv, FailClosed, ConfirmedIsFlagged
<1> QED
  BY <1>1, TypeInit, TypeStep, ClosedInit, ClosedStep, PTL DEF Spec

\* The raw uplink and the tunnel are never ports of br0 together, outside a lapse.
COROLLARY TunnelNeverBypassed == Spec => []NoBypass
  BY UplinkFailsClosed, PTL

\* A confirmed association always has the flag mesh_rules.sh looks for, outside a
\* lapse.
COROLLARY ConfirmedAlwaysFlagged == Spec => []ConfirmedIsFlagged
  BY UplinkFailsClosed, PTL

-----------------------------------------------------------------------------
(* MACsec keys are proved before they are confirmed.                       *)

\* The initial state has no key to prove.
LEMMA KeyInit == Init => KeyInv
  BY NoCfgFacts, NoTunFacts, KeyAssumption DEF Init, KeyInv, MACsecKeyProven

\* Every step keeps the keys in order.
LEMMA KeyStep == TInv /\ KeyInv /\ [Next]_vars => KeyInv'
<1> SUFFICES ASSUME TInv, KeyInv, [Next]_vars PROVE KeyInv'
  OBVIOUS
<1> USE DEF TInv, TypeOK, KeyInv, MACsecKeyProven
<1>1. ASSUME PassLoad PROVE KeyInv'
  BY <1>1 DEF PassLoad
<1>2. ASSUME LeafDisabled PROVE KeyInv'
  BY <1>2 DEF LeafDisabled, EndPass, GoTo
<1>3. ASSUME LeafWait PROVE KeyInv'
  BY <1>3 DEF LeafWait, EndPass
<1>4. ASSUME LeafActivate PROVE KeyInv'
  BY <1>4 DEF LeafActivate, GoTo
<1>5. ASSUME PassGuard PROVE KeyInv'
  BY <1>5 DEF PassGuard, GoTo
<1>6. ASSUME PassUnbridge PROVE KeyInv'
  BY <1>6 DEF PassUnbridge, GoTo
<1>7. ASSUME PassUnbridgeFails PROVE KeyInv'
  BY <1>7 DEF PassUnbridgeFails, GiveUp
<1>8. ASSUME EnsureMACsec PROVE KeyInv'
  <2>1. rcfg.nonce \in Nonces
    BY <1>8 DEF EnsureMACsec, PassInv, Active, WellFormed
  <2> QED
    BY <1>8, <2>1 DEF EnsureMACsec, KeepsMKA, HasSecY, GoTo, NewTun, NoTun
<1>8a. ASSUME EnsureMACsecOverOld PROVE KeyInv'
  <2>1. rcfg.nonce \in Nonces
    BY <1>8a DEF EnsureMACsecOverOld, PassInv, Active, WellFormed
  <2> QED
    BY <1>8a, <2>1 DEF EnsureMACsecOverOld, KeepsMKA, HasSecY, GoTo, NewTun, NoTun
<1>9. ASSUME EnsureMACsecFails PROVE KeyInv'
  BY <1>9, NoTunFacts, KeyAssumption DEF EnsureMACsecFails, GiveUp
<1>10. ASSUME EnsureWG PROVE KeyInv'
  <2>1. rcfg.nonce \in Nonces /\ IsWG(rcfg.nonce)
    BY <1>10 DEF EnsureWG, PassInv, Active, WellFormed
  <2>2. IsWG(tun'.key)
    BY <1>10, <2>1 DEF EnsureWG, Tunnels, NewWG
  <2> QED
    BY <1>10, <2>1, <2>2, KeyAssumption DEF EnsureWG, GoTo
<1>11. ASSUME EnsureWGFails PROVE KeyInv'
  BY <1>11, NoTunFacts, KeyAssumption DEF EnsureWGFails, GiveUp
<1>12. ASSUME JoinLive PROVE KeyInv'
  <2>1. tun'.key = tun.key /\ tun'.live = tun.live
    BY <1>12 DEF JoinLive, Tunnels
  <2> QED
    BY <1>12, <2>1 DEF JoinLive, Joined
<1>13. ASSUME JoinDown PROVE KeyInv'
  BY <1>13, NoTunFacts, KeyAssumption DEF JoinDown, Joined, Tunnels
<1>14. ASSUME Confirm PROVE KeyInv'
  BY <1>14 DEF Confirm, EndPass, MayConfirm, WellFormed, Configs
<1>15. ASSUME ConfirmNothing PROVE KeyInv'
  BY <1>15 DEF ConfirmNothing, EndPass
<1>16. ASSUME Revert PROVE KeyInv'
  BY <1>16, NoCfgFacts DEF Revert, EndPass, GoTo, MayRevert
<1>17. ASSUME TdTunnel PROVE KeyInv'
  BY <1>17, NoTunFacts, KeyAssumption DEF TdTunnel, GoTo
<1>18. ASSUME TdGuard PROVE KeyInv'
  BY <1>18 DEF TdGuard, GoTo
<1>19. ASSUME TdRejoin PROVE KeyInv'
  BY <1>19 DEF TdRejoin, GoTo
<1>20. ASSUME TdFlag PROVE KeyInv'
  BY <1>20 DEF TdFlag, GoTo, EndPass
<1>21. ASSUME MainRole PROVE KeyInv'
  BY <1>21 DEF MainRole, EndPass
<1>22. ASSUME MainStat PROVE KeyInv'
  BY <1>22 DEF MainStat, GoTo, EndPass
<1>23. ASSUME MainClear PROVE KeyInv'
  BY <1>23, NoCfgFacts DEF MainClear, EndPass
<1>24a. ASSUME NEW n \in Nonces, MainEnable(n) PROVE KeyInv'
  BY <1>24a DEF MainEnable
<1>24. ASSUME NEW n \in Nonces, PeerEnable(n) PROVE KeyInv'
  BY <1>24 DEF PeerEnable, Enabled, NewCfg
<1>24b. ASSUME NEW n \in Nonces, LateEnable(n) PROVE KeyInv'
  BY <1>24b DEF LateEnable, Enabled, NewCfg
<1>25a. ASSUME MainDisable PROVE KeyInv'
  BY <1>25a DEF MainDisable
<1>25. ASSUME PeerDisable PROVE KeyInv'
  BY <1>25, NoCfgFacts DEF PeerDisable
<1>25b. ASSUME PeerRefuses PROVE KeyInv'
  BY <1>25b DEF PeerRefuses
<1>25c. ASSUME MainSave PROVE KeyInv'
  BY <1>25c DEF MainSave
<1>25d. ASSUME CallLost PROVE KeyInv'
  BY <1>25d DEF CallLost
<1>25e. ASSUME CallFails PROVE KeyInv'
  BY <1>25e DEF CallFails
<1>26. ASSUME WireDisable PROVE KeyInv'
  BY <1>26 DEF WireDisable
<1>26a. ASSUME WireDone PROVE KeyInv'
  BY <1>26a DEF WireDone
<1>27. ASSUME WireEnds PROVE KeyInv'
  BY <1>27 DEF WireEnds
<1>27a. ASSUME MainCrash PROVE KeyInv'
  BY <1>27a DEF MainCrash
<1>27b. ASSUME LateDisable PROVE KeyInv'
  BY <1>27b, NoCfgFacts DEF LateDisable
<1>28. ASSUME LeafModeSet PROVE KeyInv'
  BY <1>28 DEF LeafModeSet
<1>29. ASSUME CtlFrame PROVE KeyInv'
  BY <1>29 DEF CtlFrame
<1>30. ASSUME CtlMark PROVE KeyInv'
  BY <1>30 DEF CtlMark
<1>31. ASSUME CtlSave PROVE KeyInv'
  BY <1>31, NoCfgFacts DEF CtlSave
<1>32. ASSUME CtlExpire PROVE KeyInv'
  BY <1>32 DEF CtlExpire
<1>33. ASSUME Tick PROVE KeyInv'
  BY <1>33, OlderGood DEF Tick
<1>34. ASSUME TunnelUp PROVE KeyInv'
  <2>1. Key \in Nonces /\ tun'.key = Key /\ met' = met \cup {Key}
    BY <1>34 DEF TunnelUp, Tunnels
  <2>2. IsWG(tun.key) => Key = tun.key
    BY DEF Key
  <2>3. ~IsWG(tun.key) => Key = mka
    BY DEF Key
  <2>4. UNCHANGED <<cfg, rcfg, pc, secured, mka, inherits>>
    BY <1>34 DEF TunnelUp
  <2> QED
    BY <2>1, <2>2, <2>3, <2>4, KeyAssumption
<1>35. ASSUME TunnelDown PROVE KeyInv'
  BY <1>35 DEF TunnelDown, Tunnels
<1>36. ASSUME MKAExit PROVE KeyInv'
  BY <1>36, KeyAssumption DEF MKAExit
<1>37. ASSUME Crash PROVE KeyInv'
  BY <1>37, KeyAssumption DEF Crash, ProcessLost
<1>38. ASSUME Start PROVE KeyInv'
  BY <1>38 DEF Start, GoTo
<1>39. ASSUME Reboot PROVE KeyInv'
  BY <1>39, NoTunFacts, KeyAssumption DEF Reboot, ProcessLost
<1>40. ASSUME BaseRestart PROVE KeyInv'
  BY <1>40 DEF BaseRestart
<1>41. ASSUME ScriptRead PROVE KeyInv'
  BY <1>41 DEF ScriptRead
<1>42. ASSUME ScriptBridge PROVE KeyInv'
  BY <1>42 DEF ScriptBridge
<1>43. ASSUME ScriptFlush PROVE KeyInv'
  BY <1>43 DEF ScriptFlush
<1>44. ASSUME ScriptGuard PROVE KeyInv'
  BY <1>44 DEF ScriptGuard
<1>45. CASE UNCHANGED vars
  BY <1>45 DEF vars
<1> QED
  BY <1>1, <1>2, <1>3, <1>4, <1>5, <1>6, <1>7, <1>8, <1>8a, <1>9, <1>10, <1>11, <1>12, <1>13,
     <1>14, <1>15, <1>16, <1>17, <1>18, <1>19, <1>20, <1>21, <1>22, <1>23, <1>24, <1>24a, <1>24b,
     <1>25, <1>25a, <1>25b, <1>25c, <1>25d, <1>25e, <1>26, <1>26a, <1>27, <1>27a, <1>27b,
     <1>28, <1>29, <1>30, <1>31, <1>32, <1>33, <1>34, <1>35, <1>36, <1>37,
     <1>38, <1>39, <1>40, <1>41, <1>42, <1>43, <1>44, <1>45
  DEF Next, PassStep, ScriptStep

\* A MACsec association is confirmed only after a secY protected by its own key
\* has come up (ensureMKA, confirmOrRevert), unless its participant was started on
\* an old secY that ensureMKA could not delete.
THEOREM MACsecKeysProven == Spec => []MACsecKeyProven
<1>1. KeyInv => MACsecKeyProven
  BY DEF KeyInv
<1> QED
  BY <1>1, TypeInit, TypeStep, KeyInit, KeyStep, PTL DEF Spec

-----------------------------------------------------------------------------
(* A disable that has been obeyed is final.                                *)

\* Nothing has been obeyed initially.
LEMMA ObeyedInit == Init => ObeyedInv
  BY NoCfgFacts, KeyAssumption DEF Init, ObeyedInv, ObeyedDisableIsFinal, Requests

\* Every step keeps obeyed nonces out of use.
LEMMA ObeyedStep == TInv /\ ObeyedInv /\ [Next]_vars => ObeyedInv'
<1> SUFFICES ASSUME TInv, ObeyedInv, [Next]_vars PROVE ObeyedInv'
  OBVIOUS
<1> USE DEF TInv, TypeOK, ObeyedInv, ObeyedDisableIsFinal
<1>1. ASSUME PassLoad PROVE ObeyedInv'
  BY <1>1 DEF PassLoad
<1>2. ASSUME LeafDisabled PROVE ObeyedInv'
  BY <1>2 DEF LeafDisabled, EndPass, GoTo
<1>3. ASSUME LeafWait PROVE ObeyedInv'
  BY <1>3 DEF LeafWait, EndPass
<1>4. ASSUME LeafActivate PROVE ObeyedInv'
  BY <1>4 DEF LeafActivate, GoTo
<1>5. ASSUME PassGuard PROVE ObeyedInv'
  BY <1>5 DEF PassGuard, GoTo
<1>6. ASSUME PassUnbridge PROVE ObeyedInv'
  BY <1>6 DEF PassUnbridge, GoTo
<1>7. ASSUME PassUnbridgeFails PROVE ObeyedInv'
  BY <1>7 DEF PassUnbridgeFails, GiveUp
<1>8. ASSUME EnsureMACsec PROVE ObeyedInv'
  BY <1>8 DEF EnsureMACsec, GoTo
<1>8a. ASSUME EnsureMACsecOverOld PROVE ObeyedInv'
  BY <1>8a DEF EnsureMACsecOverOld, GoTo
<1>9. ASSUME EnsureMACsecFails PROVE ObeyedInv'
  BY <1>9 DEF EnsureMACsecFails, GiveUp
<1>10. ASSUME EnsureWG PROVE ObeyedInv'
  BY <1>10 DEF EnsureWG, GoTo
<1>11. ASSUME EnsureWGFails PROVE ObeyedInv'
  BY <1>11 DEF EnsureWGFails, GiveUp
<1>12. ASSUME JoinLive PROVE ObeyedInv'
  BY <1>12 DEF JoinLive, Joined
<1>13. ASSUME JoinDown PROVE ObeyedInv'
  BY <1>13 DEF JoinDown, Joined
<1>14. ASSUME Confirm PROVE ObeyedInv'
  BY <1>14 DEF Confirm, EndPass, WellFormed, Configs
<1>15. ASSUME ConfirmNothing PROVE ObeyedInv'
  BY <1>15 DEF ConfirmNothing, EndPass
<1>16. ASSUME Revert PROVE ObeyedInv'
  BY <1>16, NoCfgFacts DEF Revert, EndPass, GoTo
<1>17. ASSUME TdTunnel PROVE ObeyedInv'
  BY <1>17 DEF TdTunnel, GoTo
<1>18. ASSUME TdGuard PROVE ObeyedInv'
  BY <1>18 DEF TdGuard, GoTo
<1>19. ASSUME TdRejoin PROVE ObeyedInv'
  BY <1>19 DEF TdRejoin, GoTo
<1>20. ASSUME TdFlag PROVE ObeyedInv'
  BY <1>20 DEF TdFlag, GoTo, EndPass
<1>21. ASSUME MainRole PROVE ObeyedInv'
  BY <1>21 DEF MainRole, EndPass
<1>22. ASSUME MainStat PROVE ObeyedInv'
  BY <1>22 DEF MainStat, GoTo, EndPass
<1>23. ASSUME MainClear PROVE ObeyedInv'
  BY <1>23, NoCfgFacts DEF MainClear, EndPass
<1>24a. ASSUME NEW n \in Nonces, MainEnable(n) PROVE ObeyedInv'
  <2>1. n \notin stray => n \notin obeyed \cup {hkey, wire}
    BY <1>24a DEF MainEnable, MainMaySend
  <2> QED
    BY <1>24a, <2>1 DEF MainEnable
<1>24. ASSUME NEW n \in Nonces, PeerEnable(n) PROVE ObeyedInv'
  <2>1. cfg'.enabled /\ cfg'.nonce = n
    BY <1>24 DEF PeerEnable, Enabled, NewCfg
  <2> QED
    BY <1>24, <2>1 DEF PeerEnable
<1>24b. ASSUME NEW n \in Nonces, LateEnable(n) PROVE ObeyedInv'
  <2>1. cfg'.enabled /\ cfg'.nonce = n
    BY <1>24b DEF LateEnable, Enabled, NewCfg
  <2>2. n \in stray
    BY <1>24b DEF LateEnable
  <2>3. \A m \in Nonces : late'[m] > 0 => late[m] > 0
    BY <1>24b DEF LateEnable, Requests
  <2> QED
    BY <1>24b, <2>1, <2>2, <2>3 DEF LateEnable
<1>25a. ASSUME MainDisable PROVE ObeyedInv'
  BY <1>25a, KeyAssumption DEF MainDisable
<1>25. ASSUME PeerDisable PROVE ObeyedInv'
  BY <1>25, NoCfgFacts, KeyAssumption DEF PeerDisable
<1>25b. ASSUME PeerRefuses PROVE ObeyedInv'
  BY <1>25b, KeyAssumption DEF PeerRefuses
<1>25c. ASSUME MainSave PROVE ObeyedInv'
  BY <1>25c, KeyAssumption DEF MainSave
<1>25d. ASSUME CallLost PROVE ObeyedInv'
  <2>1. req \in Requests
    BY <1>25d DEF CallLost
  <2>2. \A m \in Nonces : late'[m] > 0 => late[m] > 0 \/ (m = req /\ m \in stray')
    BY <1>25d, <2>1, KeyAssumption DEF CallLost, Requests
  <2>3. stray \subseteq stray' /\ mpc' = "cut" /\ mpc # "waits"
    BY <1>25d DEF CallLost
  <2>4. UNCHANGED <<cfg, obeyed, hkey, wire, mainKey, req, used>>
    BY <1>25d DEF CallLost
  <2> QED
    BY <2>2, <2>3, <2>4
<1>25e. ASSUME CallFails PROVE ObeyedInv'
  BY <1>25e, KeyAssumption DEF CallFails
<1>26. ASSUME WireDisable PROVE ObeyedInv'
  BY <1>26, KeyAssumption DEF WireDisable
<1>26a. ASSUME WireDone PROVE ObeyedInv'
  BY <1>26a, KeyAssumption DEF WireDone
<1>27. ASSUME WireEnds PROVE ObeyedInv'
  BY <1>27, KeyAssumption DEF WireEnds
<1>27a. ASSUME MainCrash PROVE ObeyedInv'
  <2>1. \A m \in Nonces : late'[m] = late[m]
    BY <1>27a, KeyAssumption DEF MainCrash, Requests
  <2>2. mpc = "waits" => stray' = stray \cup {mainKey}
    BY <1>27a DEF MainCrash
  <2>3. mpc # "waits" => stray' = stray
    BY <1>27a DEF MainCrash
  <2>4. req' = None /\ mpc' = "free" /\ UNCHANGED <<cfg, obeyed, hkey, wire, mainKey, used>>
    BY <1>27a DEF MainCrash
  <2> QED
    BY <2>1, <2>2, <2>3, <2>4, KeyAssumption
<1>27b. ASSUME LateDisable PROVE ObeyedInv'
  <2>1. \A m \in Nonces : late'[m] = late[m]
    BY <1>27b, KeyAssumption DEF LateDisable, Requests
  <2> QED
    BY <1>27b, <2>1, NoCfgFacts DEF LateDisable
<1>28. ASSUME LeafModeSet PROVE ObeyedInv'
  BY <1>28 DEF LeafModeSet
<1>29. ASSUME CtlFrame PROVE ObeyedInv'
  BY <1>29, TimeAssumption, KeyAssumption DEF CtlFrame
<1>30. ASSUME CtlMark PROVE ObeyedInv'
  BY <1>30, KeyAssumption DEF CtlMark
<1>31. ASSUME CtlSave PROVE ObeyedInv'
  <2>1. hkey \in Nonces /\ obeyed' = obeyed \cup {hkey} /\ hkey' = None
    BY <1>31 DEF CtlSave
  <2>2. ~cfg'.enabled \/ (cfg' = cfg /\ cfg.nonce # hkey)
    BY <1>31, NoCfgFacts DEF CtlSave
  <2>3. UNCHANGED <<mainKey, mpc, req, late, wire, used, stray>>
    BY <1>31 DEF CtlSave
  <2> QED
    BY <2>1, <2>2, <2>3, KeyAssumption
<1>32. ASSUME CtlExpire PROVE ObeyedInv'
  BY <1>32 DEF CtlExpire
<1>33. ASSUME Tick PROVE ObeyedInv'
  BY <1>33, OlderGood, TimeAssumption DEF Tick
<1>34. ASSUME TunnelUp PROVE ObeyedInv'
  BY <1>34 DEF TunnelUp
<1>35. ASSUME TunnelDown PROVE ObeyedInv'
  BY <1>35 DEF TunnelDown
<1>36. ASSUME MKAExit PROVE ObeyedInv'
  BY <1>36 DEF MKAExit
<1>37. ASSUME Crash PROVE ObeyedInv'
  <2>1. \A m \in Nonces : ~(late'[m] > 0)
    BY <1>37 DEF Crash, ProcessLost, Requests
  <2>2. mpc' = mpc \/ mpc # "waits"
    BY <1>37 DEF Crash, ProcessLost
  <2>3. hkey' = None /\ UNCHANGED <<cfg, obeyed, mainKey, req, wire, used, stray>>
    BY <1>37 DEF Crash, ProcessLost
  <2> QED
    BY <2>1, <2>2, <2>3, KeyAssumption
<1>38. ASSUME Start PROVE ObeyedInv'
  BY <1>38 DEF Start, GoTo
<1>39. ASSUME Reboot PROVE ObeyedInv'
  <2>1. \A m \in Nonces : ~(late'[m] > 0)
    BY <1>39 DEF Reboot, ProcessLost, Requests
  <2>2. mpc' = mpc \/ mpc # "waits"
    BY <1>39 DEF Reboot, ProcessLost
  <2>3. hkey' = None /\ UNCHANGED <<cfg, obeyed, mainKey, req, wire, used, stray>>
    BY <1>39 DEF Reboot, ProcessLost
  <2> QED
    BY <2>1, <2>2, <2>3, KeyAssumption
<1>40. ASSUME BaseRestart PROVE ObeyedInv'
  BY <1>40 DEF BaseRestart
<1>41. ASSUME ScriptRead PROVE ObeyedInv'
  BY <1>41 DEF ScriptRead
<1>42. ASSUME ScriptBridge PROVE ObeyedInv'
  BY <1>42 DEF ScriptBridge
<1>43. ASSUME ScriptFlush PROVE ObeyedInv'
  BY <1>43 DEF ScriptFlush
<1>44. ASSUME ScriptGuard PROVE ObeyedInv'
  BY <1>44 DEF ScriptGuard
<1>45. CASE UNCHANGED vars
  BY <1>45 DEF vars
<1> QED
  BY <1>1, <1>2, <1>3, <1>4, <1>5, <1>6, <1>7, <1>8, <1>8a, <1>9, <1>10, <1>11, <1>12, <1>13,
     <1>14, <1>15, <1>16, <1>17, <1>18, <1>19, <1>20, <1>21, <1>22, <1>23, <1>24, <1>24a, <1>24b,
     <1>25, <1>25a, <1>25b, <1>25c, <1>25d, <1>25e, <1>26, <1>26a, <1>27, <1>27a, <1>27b,
     <1>28, <1>29, <1>30, <1>31, <1>32, <1>33, <1>34, <1>35, <1>36, <1>37,
     <1>38, <1>39, <1>40, <1>41, <1>42, <1>43, <1>44, <1>45
  DEF Next, PassStep, ScriptStep

\* Once the listener has carried out a disable frame (handleLeafCtl), no pass,
\* update or repeated request makes the leaf run that association again, unless a
\* macsecPeer the main router gave up was past its checks, or the main router's
\* process ended before it forgot the association.
THEOREM ObeyedDisablesAreFinal == Spec => []ObeyedDisableIsFinal
<1>1. ObeyedInv => ObeyedDisableIsFinal
  BY DEF ObeyedInv
<1> QED
  BY <1>1, TypeInit, TypeStep, ObeyedInit, ObeyedStep, PTL DEF Spec

-----------------------------------------------------------------------------
(* A revert leaves an association its whole ConfirmTimeout.                *)

\* The pass works on the association it has read.
Working == pc \in {"load"} \cup Active

\* No call or answer has been lost.
NoneLost == left["lost"] = Budget["lost"]

\* A nonce the main router neither asks for nor has saved, or is about to forget.
Gone(n) == n # req /\ (n = mainKey => mpc \in {"waits", "told"})

\* What the pass has read is still the saved association, which is no younger, or
\* one the main router never sends again, as nonces are fresh.
ReadInv ==
  /\ rcfg.nonce \in used
  /\ IF MayConfirm THEN rcfg.age <= cfg.age ELSE Gone(rcfg.nonce)

AgeInv ==
  /\ left["lost"] <= Budget["lost"]
  /\ cfg.enabled => cfg.nonce \in used
  /\ NoneLost => stray = {} /\ \A r \in Requests : late[r] = 0
  /\ NoneLost /\ Working /\ rcfg.enabled => ReadInv

\* Spending on another event leaves the lost replies alone.
LEMMA SpendOther ==
  ASSUME left \in [Events -> Nat], NEW e \in Events \ {"lost", "any"}, Spend(e)
  PROVE  left'["lost"] = left["lost"]
  BY DEF Spend, Events

\* Ageing keeps the order of two ages.
LEMMA OlderKeepsOrder ==
  ASSUME NEW c, NEW d, WellFormed(c), WellFormed(d), c.enabled, d.enabled, c.age <= d.age
  PROVE  Older(c).age <= Older(d).age
  BY TimeAssumption DEF WellFormed, Configs, Older

\* The pass has read nothing initially.
LEMMA AgeInit == Init => AgeInv
  BY NoCfgFacts, BudgetAssumption DEF Init, AgeInv, Working, Active, Events, Requests

\* An event that loses a call leaves nothing to show about ages.
LEMMA SpendLost ==
  ASSUME TInv, AgeInv, Spend("lost")
  PROVE  left'["lost"] <= Budget["lost"] /\ ~NoneLost'
  BY BudgetAssumption DEF TInv, TypeOK, AgeInv, Spend, NoneLost, Events

\* Every step keeps the pass's association in its place.
LEMMA AgeStep == TInv /\ ObeyedInv /\ AgeInv /\ [Next]_vars => AgeInv'
<1> SUFFICES ASSUME TInv, ObeyedInv, AgeInv, [Next]_vars PROVE AgeInv'
  OBVIOUS
<1> USE DEF TInv, TypeOK, Working, Active, Teardown
<1>a. ASSUME UNCHANGED <<cfg, rcfg, mainKey, mpc, req, late, stray, used>>, Working' => Working,
             left'["lost"] = left["lost"]
      PROVE  AgeInv'
  BY <1>a DEF AgeInv, NoneLost, ReadInv, Gone, MayConfirm
<1>b. ASSUME ~Working', cfg' = cfg \/ cfg' = NoCfg \/ (cfg.enabled /\ cfg'.nonce = cfg.nonce),
             UNCHANGED <<used, stray>>, late' = late \/ late' = [r \in Requests |-> 0],
             left'["lost"] = left["lost"]
      PROVE  AgeInv'
  BY <1>b, NoCfgFacts DEF AgeInv, NoneLost
<1>c. ASSUME cfg'.enabled => cfg'.nonce \in used', UNCHANGED <<pc, rcfg, late, stray>>,
             left'["lost"] = left["lost"],
             NoneLost /\ Working /\ rcfg.enabled /\ rcfg.nonce \in Nonces /\ ReadInv => ReadInv'
      PROVE  AgeInv'
  BY <1>c DEF AgeInv, NoneLost, WellFormed
<1>1. ASSUME PassLoad PROVE AgeInv'
  BY <1>1 DEF PassLoad, AgeInv, NoneLost, ReadInv, MayConfirm, WellFormed, Configs
<1>2. ASSUME LeafDisabled \/ LeafWait PROVE AgeInv'
  BY <1>2, <1>b DEF LeafDisabled, LeafWait, EndPass, GoTo
<1>3. ASSUME LeafActivate \/ PassUnbridge PROVE AgeInv'
  BY <1>3, <1>a DEF LeafActivate, PassUnbridge, GoTo
<1>4. ASSUME \/ PassGuard \/ PassUnbridgeFails \/ EnsureMACsec \/ EnsureMACsecOverOld
             \/ EnsureMACsecFails \/ EnsureWG \/ EnsureWGFails \/ JoinLive \/ JoinDown
      PROVE  AgeInv'
  <2>1. left'["lost"] = left["lost"]
    BY <1>4, SpendOther DEF PassGuard, PassUnbridgeFails, EnsureMACsec, EnsureMACsecOverOld,
       EnsureMACsecFails, EnsureWG, EnsureWGFails, JoinLive, JoinDown, Fault, Events
  <2>2. Working /\ UNCHANGED <<cfg, rcfg, mainKey, mpc, req, late, stray, used>>
    BY <1>4 DEF PassGuard, PassUnbridgeFails, EnsureMACsec, EnsureMACsecOverOld, EnsureMACsecFails,
       EnsureWG, EnsureWGFails, JoinLive, JoinDown, GoTo, GiveUp, Joined
  <2> QED
    BY <2>1, <2>2, <1>a
<1>5. ASSUME Confirm \/ ConfirmNothing \/ Revert PROVE AgeInv'
  <2>1. cfg' = cfg \/ cfg' = NoCfg \/ (cfg.enabled /\ cfg'.nonce = cfg.nonce)
    BY <1>5 DEF Confirm, ConfirmNothing, Revert, MayConfirm, MayRevert, WellFormed, Configs
  <2> QED
    BY <1>5, <2>1, <1>b DEF Confirm, ConfirmNothing, Revert, EndPass, GoTo
<1>6. ASSUME TdTunnel \/ TdGuard \/ TdRejoin \/ TdFlag PROVE AgeInv'
  <2>1. left'["lost"] = left["lost"]
    BY <1>6, SpendOther DEF TdTunnel, TdGuard, TdRejoin, TdFlag, Fault, Events
  <2> QED
    BY <1>6, <2>1, <1>b DEF TdTunnel, TdGuard, TdRejoin, TdFlag, EndPass, GoTo
<1>7. ASSUME MainRole \/ MainStat \/ MainClear PROVE AgeInv'
  BY <1>7, <1>b DEF MainRole, MainStat, MainClear, EndPass, GoTo
<1>8. ASSUME NEW n \in Nonces, MainEnable(n) PROVE AgeInv'
  <2>1. left'["lost"] = left["lost"]
    BY <1>8, SpendOther DEF MainEnable, Events
  <2>2. /\ UNCHANGED <<cfg, rcfg, pc, late, stray, mainKey>> /\ mpc = "free" /\ mpc' = "asks"
        /\ req' = n /\ used' = used \cup {n} /\ (n = mainKey \/ n \notin used)
    BY <1>8 DEF MainEnable, MainMaySend
  <2>3. cfg'.enabled => cfg'.nonce \in used'
    BY <2>2 DEF AgeInv
  <2>4. ReadInv => ReadInv'
    BY <2>2 DEF ReadInv, Gone, MayConfirm
  <2> QED
    BY <2>1, <2>2, <2>3, <2>4, <1>c
<1>9. ASSUME NEW n \in Nonces, PeerEnable(n) PROVE AgeInv'
  <2>1. /\ UNCHANGED <<rcfg, pc, late, stray, mainKey, used, req, left>> /\ req = n /\ mpc' = "told"
        /\ mpc = "asks" /\ cfg' = Enabled(n)
    BY <1>9 DEF PeerEnable
  <2>2. cfg'.enabled /\ cfg'.nonce = n /\ (cfg.enabled /\ cfg.nonce = n => cfg' = cfg)
    BY <2>1 DEF Enabled, NewCfg
  <2>3. n \in used
    BY <2>1 DEF ObeyedInv
  <2>4. ReadInv => ReadInv'
    BY <2>1, <2>2 DEF ReadInv, Gone, MayConfirm
  <2> QED
    BY <2>1, <2>2, <2>3, <2>4, <1>c
<1>10. ASSUME PeerDisable \/ MainSave \/ CallFails \/ WireDone PROVE AgeInv'
  <2>1. UNCHANGED <<rcfg, pc, late, stray, used, left>> /\ (cfg' = cfg \/ cfg' = NoCfg)
    BY <1>10 DEF PeerDisable, MainSave, CallFails, WireDone
  <2>2. cfg'.enabled => cfg'.nonce \in used'
    BY <2>1, NoCfgFacts DEF AgeInv
  <2>3. ASSUME rcfg.nonce \in Nonces, ReadInv PROVE ReadInv'
    <3>1. CASE PeerDisable
      BY <2>3, <3>1, NoCfgFacts, KeyAssumption DEF PeerDisable, ReadInv, Gone, MayConfirm
    <3>2. CASE MainSave
      BY <2>3, <3>2, KeyAssumption DEF MainSave, ReadInv, Gone, MayConfirm
    <3>3. CASE CallFails
      BY <2>3, <3>3, KeyAssumption DEF CallFails, ReadInv, Gone, MayConfirm
    <3>4. CASE WireDone
      BY <2>3, <3>4, KeyAssumption DEF WireDone, ReadInv, Gone, MayConfirm
    <3> QED
      BY <1>10, <3>1, <3>2, <3>3, <3>4
  <2> QED
    BY <2>1, <2>2, <2>3, <1>c
<1>17. ASSUME MainDisable \/ PeerRefuses \/ WireDisable PROVE AgeInv'
  <2>1. left'["lost"] = left["lost"]
    BY <1>17, SpendOther DEF MainDisable, PeerRefuses, WireDisable, Fault, Events
  <2>2. UNCHANGED <<cfg, rcfg, pc, late, stray, used, mainKey>>
    BY <1>17 DEF MainDisable, PeerRefuses, WireDisable
  <2>3. /\ mpc \in {"free", "asks"} /\ (req' = req \/ req' = Stop)
    BY <1>17 DEF MainDisable, PeerRefuses, WireDisable
  <2>4. ASSUME rcfg.nonce \in Nonces, ReadInv PROVE ReadInv'
    BY <2>2, <2>3, <2>4, KeyAssumption DEF ReadInv, Gone, MayConfirm
  <2>5. cfg'.enabled => cfg'.nonce \in used'
    BY <2>2 DEF AgeInv
  <2> QED
    BY <2>1, <2>2, <2>4, <2>5, <1>c
<1>18. ASSUME CallLost \/ MainCrash PROVE AgeInv'
  <2>1. left'["lost"] <= Budget["lost"] /\ ~NoneLost'
    BY <1>18, SpendLost DEF CallLost, MainCrash
  <2>2. UNCHANGED <<cfg, used>>
    BY <1>18 DEF CallLost, MainCrash
  <2> QED
    BY <2>1, <2>2 DEF AgeInv
<1>19. ASSUME NEW r \in Requests, late[r] > 0, left' = left,
              cfg' = NoCfg \/ (r \in Nonces /\ cfg' = Enabled(r)), UNCHANGED used
       PROVE  AgeInv'
  <2>1. ~NoneLost /\ ~NoneLost'
    BY <1>19 DEF AgeInv, NoneLost
  <2>2. cfg'.enabled => cfg'.nonce \in used'
    BY <1>19, NoCfgFacts DEF ObeyedInv, Enabled, NewCfg
  <2> QED
    BY <1>19, <2>1, <2>2 DEF AgeInv
<1>20. ASSUME NEW n \in Nonces, LateEnable(n) PROVE AgeInv'
  BY <1>19, <1>20 DEF LateEnable, Requests
<1>21. ASSUME LateDisable PROVE AgeInv'
  BY <1>19, <1>21 DEF LateDisable, Requests
<1>11. ASSUME CtlSave PROVE AgeInv'
  <2>1. /\ UNCHANGED <<rcfg, pc, late, stray, used, left, mainKey, mpc, req>>
        /\ cfg' = cfg \/ (cfg' = NoCfg /\ cfg.nonce = hkey)
    BY <1>11 DEF CtlSave
  <2>2. ASSUME NoneLost, rcfg.nonce \in Nonces, ReadInv PROVE ReadInv'
    <3>1. hkey \in Nonces => Gone(hkey)
      BY <2>2 DEF AgeInv, ObeyedInv, Gone
    <3> QED
      BY <2>1, <2>2, <3>1, NoCfgFacts DEF ReadInv, Gone, MayConfirm
  <2>3. cfg'.enabled => cfg'.nonce \in used'
    BY <2>1, NoCfgFacts DEF AgeInv
  <2> QED
    BY <2>1, <2>2, <2>3, <1>c
<1>12. ASSUME WireEnds \/ CtlFrame \/ CtlMark \/ CtlExpire \/ TunnelUp \/ TunnelDown \/ Start \/ ScriptStep
       PROVE  AgeInv'
  BY <1>12, <1>a DEF WireEnds, CtlFrame, CtlMark, CtlExpire, TunnelUp, TunnelDown, Start, GoTo,
                     ScriptStep, ScriptRead, ScriptBridge, ScriptFlush, ScriptGuard
<1>13. ASSUME LeafModeSet \/ MKAExit \/ BaseRestart PROVE AgeInv'
  <2>1. left'["lost"] = left["lost"]
    BY <1>13, SpendOther DEF LeafModeSet, MKAExit, BaseRestart, Events
  <2> QED
    BY <1>13, <2>1, <1>a DEF LeafModeSet, MKAExit, BaseRestart
<1>14. ASSUME Crash \/ Reboot PROVE AgeInv'
  <2>1. left'["lost"] = left["lost"]
    BY <1>14, SpendOther DEF Crash, Reboot, Events
  <2> QED
    BY <1>14, <2>1, <1>b DEF Crash, Reboot, ProcessLost
<1>15. ASSUME Tick PROVE AgeInv'
  <2>1. /\ cfg' = Older(cfg) /\ rcfg' = Older(rcfg)
        /\ UNCHANGED <<pc, mainKey, mpc, req, late, stray, used, left>>
    BY <1>15 DEF Tick
  <2>2. /\ cfg'.enabled = cfg.enabled /\ cfg'.nonce = cfg.nonce
        /\ rcfg'.enabled = rcfg.enabled /\ rcfg'.nonce = rcfg.nonce
    BY <2>1, OlderGood
  <2>3. cfg.enabled /\ rcfg.enabled /\ rcfg.age <= cfg.age => rcfg'.age <= cfg'.age
    BY <2>1, OlderKeepsOrder
  <2> QED
    BY <2>1, <2>2, <2>3 DEF AgeInv, NoneLost, ReadInv, Gone, MayConfirm
<1>16. CASE UNCHANGED vars
  BY <1>16, <1>a DEF vars
<1> QED
  BY <1>1, <1>2, <1>3, <1>4, <1>5, <1>6, <1>7, <1>8, <1>9, <1>10, <1>11, <1>12, <1>13, <1>14,
     <1>15, <1>16, <1>17, <1>18, <1>20, <1>21
  DEF Next, PassStep

\* Only confirmOrRevert takes a pass from its confirmation to a teardown.
LEMMA OnlyRevert ==
  ASSUME [Next]_vars, pc = "confirm", pc' = "td_tunnel"
  PROVE  Revert
<1>1. ~UNCHANGED pc
  OBVIOUS
<1>2. ASSUME NEW n \in Nonces, MainEnable(n) \/ PeerEnable(n) \/ LateEnable(n) PROVE FALSE
  BY <1>1, <1>2 DEF MainEnable, PeerEnable, LateEnable
<1>3. ASSUME \/ MainDisable \/ PeerDisable \/ PeerRefuses \/ MainSave \/ CallLost \/ CallFails
             \/ WireDisable \/ WireDone \/ WireEnds \/ MainCrash \/ LateDisable \/ LeafModeSet
             \/ CtlFrame \/ CtlMark \/ CtlSave \/ CtlExpire
      PROVE  FALSE
  BY <1>1, <1>3 DEF MainDisable, PeerDisable, PeerRefuses, MainSave, CallLost, CallFails, WireDisable,
                    WireDone, WireEnds, MainCrash, LateDisable, LeafModeSet, CtlFrame, CtlMark,
                    CtlSave, CtlExpire
<1>4. ASSUME \/ Tick \/ TunnelUp \/ TunnelDown \/ MKAExit \/ Crash \/ Start \/ Reboot \/ BaseRestart
             \/ ScriptStep
      PROVE  FALSE
  BY <1>1, <1>4 DEF Tick, TunnelUp, TunnelDown, MKAExit, Crash, Start, Reboot, BaseRestart, ProcessLost,
                    ScriptStep, ScriptRead, ScriptBridge, ScriptFlush, ScriptGuard
<1>5. ~UNCHANGED vars
  BY <1>1 DEF vars
<1>6. ASSUME PassStep PROVE Revert
  BY <1>6 DEF PassStep, PassLoad, LeafDisabled, LeafWait, LeafActivate, PassGuard, PassUnbridge,
              PassUnbridgeFails, EnsureMACsec, EnsureMACsecOverOld, EnsureMACsecFails, EnsureWG,
              EnsureWGFails, JoinLive, JoinDown, Confirm, ConfirmNothing, TdTunnel, TdGuard,
              TdRejoin, TdFlag, MainRole, MainStat, MainClear, EndPass
<1> QED
  BY <1>2, <1>3, <1>4, <1>5, <1>6 DEF Next

\* confirmOrRevert takes away only an association that has had its whole
\* ConfirmTimeout, however many others the main router has enabled, dropped or
\* disabled meanwhile, unless the reply to an enable call was lost.
THEOREM RevertsAfterWindow == Spec => RevertAfterWindow
<1>1. ASSUME TInv, AgeInv, [Next]_vars, pc = "confirm", cfg.enabled, ~cfg'.enabled, pc' = "td_tunnel"
      PROVE  cfg.age >= ConfirmTimeout \/ left["lost"] < Budget["lost"]
  <2>1. Revert
    BY <1>1, OnlyRevert
  <2>2. MayRevert /\ rcfg.age >= ConfirmTimeout
    BY <1>1, <2>1 DEF Revert
  <2>3. rcfg.enabled
    BY <1>1 DEF TInv, PassInv, Active
  <2>4. cfg.age \in Nat /\ rcfg.age \in Nat /\ left["lost"] \in Nat
    BY <1>1, TimeAssumption DEF TInv, TypeOK, WellFormed, Configs, Events
  <2>5. CASE left["lost"] = Budget["lost"]
    BY <1>1, <2>2, <2>3, <2>4, <2>5, TimeAssumption
    DEF AgeInv, NoneLost, ReadInv, Working, Active, MayConfirm, MayRevert
  <2>6. CASE left["lost"] # Budget["lost"]
    BY <1>1, <2>4, <2>6, BudgetAssumption DEF AgeInv, Events
  <2> QED
    BY <2>5, <2>6
<1>2. TInv /\ AgeInv /\ [Next]_vars =>
        [pc = "confirm" /\ cfg.enabled /\ ~cfg'.enabled /\ pc' = "td_tunnel"
           => cfg.age >= ConfirmTimeout \/ left["lost"] < Budget["lost"]]_vars
  BY <1>1
<1> QED
  BY <1>2, TypeInit, TypeStep, ObeyedInit, ObeyedStep, AgeInit, AgeStep, PTL
  DEF Spec, RevertAfterWindow
=============================================================================
