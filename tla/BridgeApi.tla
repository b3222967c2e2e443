----------------------------- MODULE BridgeApi ------------------------------
(***************************************************************************)
(* The calls of the library (stp.h; file stp.cpp) as functions from the    *)
(* bridge to the bridge on which RunStateMachines then runs.  A call that  *)
(* restarts the machines leaves BEGIN set: the run clears it when it has   *)
(* ended and runs once more.                                               *)
(***************************************************************************)
EXTENDS StpProcedures

NewTimes(t) ==
  [ForwardDelay  |-> IF cist(t) THEN DefaultForwardDelay ELSE 0,
   HelloTime     |-> IF cist(t) THEN DefaultHelloTime ELSE 0,
   MaxAge        |-> IF cist(t) THEN DefaultMaxAge ELSE 0,
   MessageAge    |-> 0,
   remainingHops |-> MaxHops]

\* BRIDGE_TREE::UpdateBridgePriorityFromBridgeIdentifier
BridgePriorityOf(id, t) ==
  [ZeroPriority EXCEPT !.RootId = IF cist(t) THEN id ELSE 0, !.RegionalRootId = id,
                       !.DesignatedBridgeId = id]

\* BRIDGE_TREE::SetBridgeIdentifier
WithIdentifier(x, t, id) ==
  [x EXCEPT !.BridgeIdentifier = id, !.BridgePriority = BridgePriorityOf(id, t)]

\* what STP_CreateBridge makes of zeroed memory
NewPortTree(p, t) ==
  [agree |-> FALSE, agreed |-> FALSE, disputed |-> FALSE, forward |-> FALSE,
   forwarding |-> FALSE, learn |-> FALSE, learning |-> FALSE, proposed |-> FALSE,
   proposing |-> FALSE, rcvdMsg |-> FALSE, rcvdTc |-> FALSE, reRoot |-> FALSE,
   reselect |-> FALSE, selected |-> FALSE, sync |-> FALSE, synced |-> FALSE,
   tcProp |-> FALSE, updtInfo |-> FALSE, msgFlags |-> ZeroFlags,
   infoIs |-> "DISABLED", rcvdInfo |-> "UNKNOWN", role |-> "UNDEFINED",
   selectedRole |-> "UNDEFINED", InternalPortPathCost |-> 0, adminInternalPortPathCost |-> 0,
   designatedPriority |-> ZeroPriority, msgPriority |-> ZeroPriority,
   portPriority |-> ZeroPriority, designatedTimes |-> ZeroTimes, msgTimes |-> ZeroTimes,
   portTimes |-> NewTimes(t), portId |-> PortId(DefaultPortPriority, p),
   fdWhile |-> 0, rrWhile |-> 0, rbWhile |-> 0, tcWhile |-> 0, rcvdInfoWhile |-> 0,
   tcDetected |-> 0, portInformationState |-> "NONE", portRoleTransitionsState |-> "NONE",
   portStateTransitionState |-> "NONE", topologyChangeState |-> "NONE"]

NewPort ==
  [AdminEdge |-> FALSE, AutoEdge |-> TRUE, ExternalPortPathCost |-> 0, isolate |-> FALSE,
   newInfo |-> FALSE, newInfoMsti |-> FALSE, operEdge |-> FALSE, portEnabled |-> FALSE,
   rcvdBpdu |-> FALSE, rcvdRSTP |-> FALSE, rcvdSTP |-> FALSE, rcvdTcAck |-> FALSE,
   rcvdTcn |-> FALSE, sendRSTP |-> FALSE, tcAck |-> FALSE, tick |-> FALSE, txCount |-> 0,
   rcvdInternal |-> FALSE, infoInternal |-> FALSE, mastered |-> FALSE,
   edgeDelayWhile |-> 0, helloWhen |-> 0, mDelayWhile |-> 0,
   adminPointToPointMAC |-> "AUTO", operPointToPointMAC |-> FALSE,
   detectedPointToPointMAC |-> FALSE, detectedPortPathCost |-> 0,
   adminExternalPortPathCost |-> 0, portTimersState |-> "NONE",
   portProtocolMigrationState |-> "NONE", portReceiveState |-> "NONE",
   bridgeDetectionState |-> "NONE", portTransmitState |-> "NONE"]

NewBridgeTree(t, id) ==
  WithIdentifier([BridgeIdentifier |-> 0, BridgePriority |-> ZeroPriority,
                  BridgeTimes |-> NewTimes(t), rootPortId |-> 0, rootPriority |-> ZeroPriority,
                  rootTimes |-> ZeroTimes, portRoleSelectionState |-> "NONE"], t, id)

\* the MST configuration identifier is one number, initially 0
CreateBridge(address) ==
  [BEGIN |-> FALSE, started |-> FALSE, ForceProtocolVersion |-> RSTP,
   TxHoldCount |-> DefaultTxHoldCount, mstConfigId |-> 0,
   port |-> [p \in Ports |-> NewPort],
   pt   |-> [p \in Ports |-> [t \in Trees |-> NewPortTree(p, t)]],
   tree |-> [t \in Trees |-> NewBridgeTree(t, BridgeId(DefaultPriority, address))],
   receivedBpdu |-> NoBpdu, tx |-> << >>]

-----------------------------------------------------------------------------
(***************************************************************************)
(* Starting, restarting and stopping.                                      *)
(***************************************************************************)
StoppedPortTree(x) ==
  [x EXCEPT !.portInformationState = "NONE", !.portRoleTransitionsState = "NONE",
            !.portStateTransitionState = "NONE", !.topologyChangeState = "NONE"]

StoppedPort(y) ==
  [y EXCEPT !.portTimersState = "NONE", !.portProtocolMigrationState = "NONE",
            !.portReceiveState = "NONE", !.bridgeDetectionState = "NONE",
            !.portTransmitState = "NONE"]

\* RestartStateMachines up to its first run
Restarted(b) ==
  [b EXCEPT
    !.BEGIN = TRUE,
    !.port = [p \in Ports |-> StoppedPort(b.port[p])],
    !.pt   = [p \in Ports |-> [t \in Trees |->
                IF t \in TreesOf(b) THEN StoppedPortTree(b.pt[p][t]) ELSE b.pt[p][t]]],
    !.tree = [t \in Trees |->
                IF t \in TreesOf(b) THEN [b.tree[t] EXCEPT !.portRoleSelectionState = "NONE"]
                ELSE b.tree[t]]]

RestartIfStarted(b) == IF b.started THEN Restarted(b) ELSE b

Started(b) == Restarted([b EXCEPT !.started = TRUE])

Stopped(b, fallbackLearning, fallbackForwarding) ==
  [b EXCEPT
    !.started = FALSE,
    !.pt = [p \in Ports |-> [t \in Trees |->
              IF t \in TreesOf(b)
              THEN [b.pt[p][t] EXCEPT !.learning = fallbackLearning,
                                      !.forwarding = fallbackForwarding]
              ELSE b.pt[p][t]]]]

-----------------------------------------------------------------------------
(***************************************************************************)
(* Events: the link, the clock, a frame.                                   *)
(***************************************************************************)
\* a path cost set by management, else the detected one
PathCost(admin, detected) == IF admin # 0 THEN admin ELSE detected

OperPointToPoint(admin, detected) == admin = "FORCE_TRUE" \/ (admin = "AUTO" /\ detected)

\* cost is GetDefaultPortPathCost of the link's speed
PortEnabled(b, p, cost, p2p) ==
  LET y == b.port[p]
  IN  [b EXCEPT
        !.port[p] = [y EXCEPT
           !.portEnabled = TRUE, !.detectedPointToPointMAC = p2p,
           !.operPointToPointMAC = OperPointToPoint(y.adminPointToPointMAC, p2p),
           !.detectedPortPathCost = cost,
           !.ExternalPortPathCost = PathCost(y.adminExternalPortPathCost, cost)],
        !.pt[p] = [t \in Trees |->
           IF t \in TreesOf(b)
           THEN [b.pt[p][t] EXCEPT
                   !.InternalPortPathCost = PathCost(b.pt[p][t].adminInternalPortPathCost, cost)]
           ELSE b.pt[p][t]]]

PortDisabled(b, p) ==
  [b EXCEPT !.port[p] = [@ EXCEPT !.portEnabled = FALSE, !.detectedPointToPointMAC = FALSE,
                                  !.operPointToPointMAC = FALSE, !.detectedPortPathCost = 0,
                                  !.ExternalPortPathCost = 0]]

Ticked(b) == [b EXCEPT !.port = [p \in Ports |-> [b.port[p] EXCEPT !.tick = TRUE]]]

\* STP_GetValidatedBpduType: before MSTP, an MST BPDU is read as an RST BPDU, which it extends
Validated(b, m) ==
  IF m.type = "MST" /\ b.ForceProtocolVersion < MSTP
  THEN [m EXCEPT !.type = "RST", !.mstConfigId = 0, !.msti = << >>,
                 !.priority = [@ EXCEPT !.InternalRootPathCost = 0, !.DesignatedBridgeId = 0],
                 !.times = [@ EXCEPT !.remainingHops = 0]]
  ELSE m

BpduReceived(b, p, m) ==
  [b EXCEPT !.receivedBpdu = Validated(b, m), !.port[p].rcvdBpdu = TRUE]

-----------------------------------------------------------------------------
(***************************************************************************)
(* Management.                                                             *)
(***************************************************************************)
\* RecomputePrioritiesAndPortRoles up to its run
Recomputed(b, t) ==
  [b EXCEPT !.pt = [p \in Ports |-> [s \in Trees |->
     IF s = t \/ (cist(t) /\ s \in TreesOf(b))
     THEN [b.pt[p][s] EXCEPT !.selected = FALSE, !.reselect = TRUE]
     ELSE b.pt[p][s]]]]

RecomputeIf(condition, b, t) == IF condition THEN Recomputed(b, t) ELSE b

\* variant: the link is taken for up
WithAdminPointToPointMACNow(b, p, admin) ==
  LET y == b.port[p]
  IN  SetPort(b, p, [y EXCEPT
        !.adminPointToPointMAC = admin,
        !.operPointToPointMAC  = OperPointToPoint(admin, y.detectedPointToPointMAC)])

WithAdminPointToPointMAC(b, p, admin) ==
  LET y == b.port[p]
  IN  SetPort(b, p, [y EXCEPT
        !.adminPointToPointMAC = admin,
        !.operPointToPointMAC  = IF y.portEnabled
                                 THEN OperPointToPoint(admin, y.detectedPointToPointMAC) ELSE @])

WithBridgeAddress(b, address) ==
  RecomputeIf(b.started,
    [b EXCEPT !.tree = [t \in Trees |->
       WithIdentifier(b.tree[t], t, BridgeId(Priority(b.tree[t].BridgeIdentifier), address))]],
    CIST)

WithBridgePriority(b, t, priority) ==
  RecomputeIf(b.started /\ t \in TreesOf(b),
    [b EXCEPT !.tree[t] = WithIdentifier(b.tree[t], t,
                            BridgeId(priority, Address(b.tree[t].BridgeIdentifier)))], t)

WithPortPriority(b, p, t, priority) ==
  RecomputeIf(b.started /\ t \in TreesOf(b),
    [b EXCEPT !.pt[p][t].portId = PortId(priority, PortNumber(b.pt[p][t].portId))], t)

\* variant: the roles and times are not computed anew
WithMaxAgeUnannounced(b, maxAge) == [b EXCEPT !.tree[CIST].BridgeTimes.MaxAge = maxAge]

WithMaxAge(b, maxAge) ==
  RecomputeIf(b.started, [b EXCEPT !.tree[CIST].BridgeTimes.MaxAge = maxAge], CIST)

WithForwardDelay(b, delay) ==
  RecomputeIf(b.started, [b EXCEPT !.tree[CIST].BridgeTimes.ForwardDelay = delay], CIST)

WithAdminExternalPortPathCost(b, p, admin) ==
  LET y    == b.port[p]
      cost == IF y.portEnabled THEN PathCost(admin, y.detectedPortPathCost)
              ELSE y.ExternalPortPathCost
  IN  RecomputeIf(b.started /\ cost # y.ExternalPortPathCost,
        [b EXCEPT !.port[p] = [y EXCEPT !.adminExternalPortPathCost = admin,
                                        !.ExternalPortPathCost = cost]], CIST)

\* the tree may be one that the protocol version does not run
WithAdminInternalPortPathCost(b, p, t, admin) ==
  LET x    == b.pt[p][t]
      cost == IF b.port[p].portEnabled THEN PathCost(admin, b.port[p].detectedPortPathCost)
              ELSE x.InternalPortPathCost
  IN  RecomputeIf(b.started /\ cost # x.InternalPortPathCost,
        [b EXCEPT !.pt[p][t] = [x EXCEPT !.adminInternalPortPathCost = admin,
                                         !.InternalPortPathCost = cost]], t)

\* variant: the frames already charged stay charged
WithTxHoldCountOnly(b, count) == [b EXCEPT !.TxHoldCount = count]

WithTxHoldCount(b, count) ==
  [b EXCEPT !.TxHoldCount = count,
            !.port = [p \in Ports |-> [b.port[p] EXCEPT !.txCount = 0]]]

WithStpVersion(b, version) == RestartIfStarted([b EXCEPT !.ForceProtocolVersion = version])

WithMstConfigId(b, id) == RestartIfStarted([b EXCEPT !.mstConfigId = id])

=============================================================================
