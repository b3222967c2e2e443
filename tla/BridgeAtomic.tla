---------------------------- MODULE BridgeAtomic ----------------------------
(***************************************************************************)
(* What the application sees of a bridge: every call takes it from one     *)
(* state of rest to the next in a single step.  (For TLC only, as RunLoops *)
(* is.)                                                                    *)
(***************************************************************************)
EXTENDS RunLoops

CONSTANTS Addresses, BridgePriorities, PortPriorities, LinkCosts, LinkDuplex, AdminCosts,
          MaxAges, ForwardDelays, TxHoldCounts, StpVersions, MstConfigIds, Frames

VARIABLE bridge

-----------------------------------------------------------------------------
Settled(b) == [RunStateMachines(b) EXCEPT !.receivedBpdu = NoBpdu, !.tx = << >>]

\* the machines of a bridge that is stopped do not run
SettledIf(condition, b) == IF condition /\ b.started THEN Settled(b) ELSE b

-----------------------------------------------------------------------------
(***************************************************************************)
(* The bridges that a call on bridge b can leave.                          *)
(***************************************************************************)
AfterStartOrStop(b) ==
  IF b.started THEN {Stopped(b, learning, forwarding) : learning, forwarding \in BOOLEAN}
  ELSE {Settled(Started(b))}

AfterTick(b) == IF b.started THEN {Settled(Ticked(b))} ELSE {}

AfterLinkCall(b) ==
  LET up == {p \in Ports : b.port[p].portEnabled}
  IN  {SettledIf(TRUE, PortEnabled(b, p, cost, p2p)) :
         p \in Ports \ up, cost \in LinkCosts, p2p \in LinkDuplex}
        \cup {SettledIf(TRUE, PortDisabled(b, p)) : p \in up}

AfterReceiveCall(b) ==
  {Settled(BpduReceived(b, p, m)) :
     p \in {q \in Ports : b.started /\ b.port[q].portEnabled}, m \in Frames}

AfterEdgeCall(b) ==
  {[b EXCEPT !.port[p].AdminEdge = edge] : p \in Ports, edge \in BOOLEAN}
    \cup {[b EXCEPT !.port[p].AutoEdge = edge] : p \in Ports, edge \in BOOLEAN}
    \cup {LET c == WithAdminPointToPointMAC(b, p, admin)
          IN  SettledIf(c.port[p].operPointToPointMAC # b.port[p].operPointToPointMAC, c) :
            p \in Ports, admin \in AdminP2P}

\* a cost or priority is announced by setting reselect
AfterPriorityCall(b) ==
  LET Announced(c) == SettledIf(\E p \in Ports, t \in Trees : c.pt[p][t].reselect, c)
  IN  {Announced(WithBridgeAddress(b, address)) :
         address \in Addresses \ {Address(b.tree[CIST].BridgeIdentifier)}}
        \cup UNION {{Announced(WithBridgePriority(b, t, priority)) :
                       priority \in BridgePriorities \ {Priority(b.tree[t].BridgeIdentifier)}} :
                     t \in Trees}
        \cup {Announced(WithPortPriority(b, p, t, priority)) :
                p \in Ports, t \in Trees, priority \in PortPriorities}
        \cup {Announced(WithAdminExternalPortPathCost(b, p, admin)) :
                p \in Ports, admin \in AdminCosts}
        \cup {Announced(WithAdminInternalPortPathCost(b, p, t, admin)) :
                p \in Ports, t \in Trees, admin \in AdminCosts}
        \cup {Announced(WithMaxAge(b, age)) :
                age \in MaxAges \ {b.tree[CIST].BridgeTimes.MaxAge}}
        \cup {Announced(WithForwardDelay(b, delay)) :
                delay \in ForwardDelays \ {b.tree[CIST].BridgeTimes.ForwardDelay}}

AfterProtocolCall(b) ==
  {WithTxHoldCount(b, count) : count \in TxHoldCounts \ {b.TxHoldCount}}
    \cup {SettledIf(TRUE, WithStpVersion(b, version)) :
            version \in StpVersions \ {b.ForceProtocolVersion}}
    \cup {SettledIf(TRUE, WithMstConfigId(b, id)) : id \in MstConfigIds}

-----------------------------------------------------------------------------
Init == bridge \in {CreateBridge(address) : address \in Addresses}

OneSecond == bridge' \in AfterTick(bridge)

Call == \/ bridge' \in AfterLinkCall(bridge)
        \/ bridge' \in AfterReceiveCall(bridge)
        \/ bridge' \in AfterStartOrStop(bridge)
        \/ bridge' \in AfterEdgeCall(bridge)
        \/ bridge' \in AfterProtocolCall(bridge)
        \/ bridge' \in AfterPriorityCall(bridge)

\* a call that changes nothing is a stuttering step
Next == bridge' # bridge /\ (OneSecond \/ Call)

Spec == Init /\ [][Next]_bridge

=============================================================================
