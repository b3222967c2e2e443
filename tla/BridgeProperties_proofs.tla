----------------------- MODULE BridgeProperties_proofs ----------------------
(***************************************************************************)
(* The types, and three of the promises, of a bridge, for any number of    *)
(* ports and trees and any inputs: every field stays within its type,      *)
(* frames are sent only when every other machine is at rest, no port is    *)
(* charged more frames than TxHoldCount, and operPointToPointMAC says what *)
(* the link and the administrator said last.  First the calls of the       *)
(* library, which hand RunStateMachines a bridge: what they store into the *)
(* objects has the type of the field.                                      *)
(***************************************************************************)
EXTENDS BridgeProperties, StateMachines_proofs

-----------------------------------------------------------------------------
(***************************************************************************)
(* STP_CreateBridge.                                                       *)
(***************************************************************************)
\* The times of a new tree.
LEMMA NewTimesTyped ==
  ASSUME NEW t
  PROVE  NewTimes(t) \in Times
<1>1. /\ DefaultForwardDelay \in Nat /\ DefaultHelloTime \in Nat /\ DefaultMaxAge \in Nat
      /\ MaxHops \in 0..255 /\ 0 \in Nat
  BY TimesAssumption, SMT
<1> QED BY <1>1, Zenon DEF NewTimes, Times

\* SetBridgeIdentifier keeps the BRIDGE_TREE a BRIDGE_TREE.
LEMMA WithIdentifierTyped ==
  ASSUME NEW z \in BridgeTree, NEW t, NEW id \in Nat
  PROVE  WithIdentifier(z, t, id) \in BridgeTree
<1>1. 0 \in Nat
  BY SMT
<1>2. BridgePriorityOf(id, t) \in PriorityVector
  BY <1>1, ZeroesTyped, ZenonT(60) DEF BridgePriorityOf, PriorityVector
<1> QED BY <1>2, ZenonT(60) DEF WithIdentifier, BridgeTree

\* The PORT_TREE that STP_CreateBridge makes.
LEMMA NewPortTreeTyped ==
  ASSUME NEW p \in Ports, NEW t
  PROVE  NewPortTree(p, t) \in PortTree
<1> DEFINE id    == PortId(DefaultPortPriority, p)
           times == NewTimes(t)
<1>1. id \in Nat
  BY SizesAssumption, SMT DEF PortId, Ports
<1>2. times \in Times
  BY NewTimesTyped, Zenon
<1>3. /\ "DISABLED" \in InfoIs /\ "UNKNOWN" \in RcvdInfos /\ "UNDEFINED" \in Roles
      /\ "NONE" \in InformationStates /\ "NONE" \in RoleTransitionStates
      /\ "NONE" \in StateTransitionStates /\ "NONE" \in TopologyChangeStates
  BY Zenon DEF InfoIs, RcvdInfos, Roles, InformationStates, RoleTransitionStates,
               StateTransitionStates, TopologyChangeStates
<1>4. 0 \in Nat
  BY SMT
<1> HIDE DEF id, times
<1> QED BY <1>1, <1>2, <1>3, <1>4, ZeroesTyped, ZenonT(120) DEF NewPortTree, PortTree, id, times

\* The PORT that STP_CreateBridge makes.
LEMMA NewPortTyped == NewPort \in Port
<1>1. /\ "AUTO" \in AdminP2P /\ "NONE" \in PortTimersStates /\ "NONE" \in ProtocolStates
      /\ "NONE" \in PortReceiveStates /\ "NONE" \in BridgeDetectionStates
      /\ "NONE" \in PortTransmitStates
  BY Zenon DEF AdminP2P, PortTimersStates, ProtocolStates, PortReceiveStates,
               BridgeDetectionStates, PortTransmitStates
<1>2. 0 \in Nat
  BY SMT
<1> QED BY <1>1, <1>2, ZenonT(120) DEF NewPort, Port

\* The BRIDGE_TREE that STP_CreateBridge makes.
LEMMA NewBridgeTreeTyped ==
  ASSUME NEW t, NEW id \in Nat
  PROVE  NewBridgeTree(t, id) \in BridgeTree
<1> DEFINE z == [BridgeIdentifier |-> 0, BridgePriority |-> ZeroPriority,
                 BridgeTimes |-> NewTimes(t), rootPortId |-> 0, rootPriority |-> ZeroPriority,
                 rootTimes |-> ZeroTimes, portRoleSelectionState |-> "NONE"]
<1>1. 0 \in Nat
  BY SMT
<1>2. z \in BridgeTree
  <2>1. "NONE" \in RoleSelectionStates
    BY Zenon DEF RoleSelectionStates
  <2> QED BY <1>1, <2>1, ZeroesTyped, NewTimesTyped, Zenon DEF BridgeTree
<1> HIDE DEF z
<1>3. WithIdentifier(z, t, id) \in BridgeTree
  BY <1>2, WithIdentifierTyped, Zenon
<1> QED BY <1>3, Zenon DEF NewBridgeTree, z

\* A bridge as STP_CreateBridge returns it.
LEMMA CreateBridgeTyped ==
  ASSUME NEW address \in Nat
  PROVE  CreateBridge(address) \in Bridge
<1> DEFINE id   == BridgeId(DefaultPriority, address)
           port == [p \in Ports |-> NewPort]
           pt   == [p \in Ports |-> [t \in Trees |-> NewPortTree(p, t)]]
           tree == [t \in Trees |-> NewBridgeTree(t, id)]
<1>1. id \in Nat
  BY SizesAssumption, SMT DEF BridgeId
<1> HIDE DEF id
<1>2. /\ port \in [Ports -> Port]
      /\ pt \in [Ports -> [Trees -> PortTree]]
      /\ tree \in [Trees -> BridgeTree]
  BY <1>1, NewPortTyped, NewPortTreeTyped, NewBridgeTreeTyped, Zenon
<1>3. RSTP \in Versions /\ DefaultTxHoldCount \in Nat /\ 0 \in Nat
  BY TimesAssumption, SMT DEF RSTP, Versions
<1>4. << >> \in Seq([port : Ports, bpdu : Bpdu])
  BY SMT
<1>5. NoBpdu \in Bpdu \cup {NoBpdu}
  BY Zenon
<1> HIDE DEF port, pt, tree
<1> QED BY <1>2, <1>3, <1>4, <1>5, ZenonT(60) DEF CreateBridge, Bridge, id, port, pt, tree

-----------------------------------------------------------------------------
(***************************************************************************)
(* Starting, restarting and stopping.                                      *)
(***************************************************************************)
\* A bridge whose ports, port trees and trees are replaced.
LEMMA SetAllTyped ==
  ASSUME NEW b \in Bridge, NEW v \in BOOLEAN, NEW port \in [Ports -> Port],
         NEW pt \in [Ports -> [Trees -> PortTree]], NEW tree \in [Trees -> BridgeTree]
  PROVE  [b EXCEPT !.BEGIN = v, !.port = port, !.pt = pt, !.tree = tree] \in Bridge
  BY ZenonT(60) DEF Bridge

\* RestartStateMachines up to its first run.
LEMMA RestartedTyped ==
  ASSUME NEW b \in Bridge
  PROVE  Restarted(b) \in Bridge /\ RestartIfStarted(b) \in Bridge
<1> DEFINE port == [p \in Ports |-> StoppedPort(b.port[p])]
           pt   == [p \in Ports |-> [t \in Trees |->
                     IF t \in TreesOf(b) THEN StoppedPortTree(b.pt[p][t]) ELSE b.pt[p][t]]]
           tree == [t \in Trees |->
                     IF t \in TreesOf(b)
                     THEN [b.tree[t] EXCEPT !.portRoleSelectionState = "NONE"]
                     ELSE b.tree[t]]
<1>1. ASSUME NEW x \in PortTree
      PROVE  StoppedPortTree(x) \in PortTree
  <2>1. /\ "NONE" \in InformationStates /\ "NONE" \in RoleTransitionStates
        /\ "NONE" \in StateTransitionStates /\ "NONE" \in TopologyChangeStates
    BY Zenon DEF InformationStates, RoleTransitionStates, StateTransitionStates,
                 TopologyChangeStates
  <2> QED BY <2>1, ZenonT(60) DEF StoppedPortTree, PortTree
<1>2. ASSUME NEW y \in Port
      PROVE  StoppedPort(y) \in Port
  <2>1. /\ "NONE" \in PortTimersStates /\ "NONE" \in ProtocolStates
        /\ "NONE" \in PortReceiveStates /\ "NONE" \in BridgeDetectionStates
        /\ "NONE" \in PortTransmitStates
    BY Zenon DEF PortTimersStates, ProtocolStates, PortReceiveStates, BridgeDetectionStates,
                 PortTransmitStates
  <2> QED BY <2>1, ZenonT(60) DEF StoppedPort, Port
<1>3. ASSUME NEW z \in BridgeTree
      PROVE  [z EXCEPT !.portRoleSelectionState = "NONE"] \in BridgeTree
  BY Zenon DEF BridgeTree, RoleSelectionStates
<1>4. port \in [Ports -> Port]
  BY <1>2, BridgeParts, CistIsTree, Zenon
<1>5. pt \in [Ports -> [Trees -> PortTree]]
  BY <1>1, BridgeParts, Zenon
<1>6. tree \in [Trees -> BridgeTree]
  BY <1>3, BridgeTreePart, Zenon
<1>7. [b EXCEPT !.BEGIN = TRUE, !.port = port, !.pt = pt, !.tree = tree] \in Bridge
  BY <1>4, <1>5, <1>6, SetAllTyped, Zenon
<1> QED BY <1>7, Zenon DEF Restarted, RestartIfStarted, port, pt, tree

\* STP_StartBridge up to its first run.
LEMMA StartedTyped ==
  ASSUME NEW b \in Bridge
  PROVE  Started(b) \in Bridge
<1>1. [b EXCEPT !.started = TRUE] \in Bridge
  BY ZenonT(60) DEF Bridge
<1> QED BY <1>1, RestartedTyped, Zenon DEF Started

\* STP_StopBridge.
LEMMA StoppedTyped ==
  ASSUME NEW b \in Bridge, NEW l \in BOOLEAN, NEW f \in BOOLEAN
  PROVE  Stopped(b, l, f) \in Bridge
<1> DEFINE pt == [p \in Ports |-> [t \in Trees |->
                   IF t \in TreesOf(b)
                   THEN [b.pt[p][t] EXCEPT !.learning = l, !.forwarding = f]
                   ELSE b.pt[p][t]]]
<1>1. ASSUME NEW x \in PortTree
      PROVE  [x EXCEPT !.learning = l, !.forwarding = f] \in PortTree
  BY ZenonT(60) DEF PortTree
<1>2. pt \in [Ports -> [Trees -> PortTree]]
  BY <1>1, BridgeParts, Zenon
<1> HIDE DEF pt
<1>3. [b EXCEPT !.started = FALSE, !.pt = pt] \in Bridge
  BY <1>2, ZenonT(60) DEF Bridge
<1> QED BY <1>3, Zenon DEF Stopped, pt

-----------------------------------------------------------------------------
(***************************************************************************)
(* Events.                                                                 *)
(***************************************************************************)
\* A link that comes up.
LEMMA PortEnabledTyped ==
  ASSUME NEW b \in Bridge, NEW p \in Ports, NEW cost \in Nat, NEW p2p \in BOOLEAN
  PROVE  PortEnabled(b, p, cost, p2p) \in Bridge
<1> DEFINE y        == b.port[p]
           oper     == OperPointToPoint(y.adminPointToPointMAC, p2p)
           external == PathCost(y.adminExternalPortPathCost, cost)
           new      == [y EXCEPT !.portEnabled = TRUE, !.detectedPointToPointMAC = p2p,
                                 !.operPointToPointMAC = oper, !.detectedPortPathCost = cost,
                                 !.ExternalPortPathCost = external]
           row      == [t \in Trees |->
                         IF t \in TreesOf(b)
                         THEN [b.pt[p][t] EXCEPT
                                !.InternalPortPathCost =
                                   PathCost(b.pt[p][t].adminInternalPortPathCost, cost)]
                         ELSE b.pt[p][t]]
<1>1. y \in Port
  BY BridgeParts, CistIsTree, Zenon
<1>2. oper \in BOOLEAN
  BY Zenon DEF OperPointToPoint
<1>3. external \in Nat
  BY <1>1, PortFields, Zenon DEF PathCost
<1> HIDE DEF y, oper, external
<1>4. new \in Port
  BY <1>1, <1>2, <1>3, ZenonT(60) DEF Port
<1>5. ASSUME NEW x \in PortTree
      PROVE  [x EXCEPT !.InternalPortPathCost = PathCost(x.adminInternalPortPathCost, cost)]
               \in PortTree
  <2>1. PathCost(x.adminInternalPortPathCost, cost) \in Nat
    BY PortTreeFields, Zenon DEF PathCost
  <2> QED BY <2>1, ZenonT(60) DEF PortTree
<1>6. row \in [Trees -> PortTree]
  BY <1>5, BridgeParts, Zenon
<1> HIDE DEF new, row
<1>7. [b EXCEPT !.port[p] = new, !.pt[p] = row] \in Bridge
  BY <1>4, <1>6, ZenonT(60) DEF Bridge
<1> QED BY <1>7, Zenon DEF PortEnabled, new, row, y, oper, external

\* A link that goes down.
LEMMA PortDisabledTyped ==
  ASSUME NEW b \in Bridge, NEW p \in Ports
  PROVE  PortDisabled(b, p) \in Bridge
<1>1. b.port[p] \in Port /\ 0 \in Nat
  BY BridgeParts, CistIsTree, SMT
<1>2. [b.port[p] EXCEPT !.portEnabled = FALSE, !.detectedPointToPointMAC = FALSE,
                        !.operPointToPointMAC = FALSE, !.detectedPortPathCost = 0,
                        !.ExternalPortPathCost = 0] \in Port
  BY <1>1, ZenonT(60) DEF Port
<1>3. PortDisabled(b, p) =
        SetPort(b, p, [b.port[p] EXCEPT !.portEnabled = FALSE, !.detectedPointToPointMAC = FALSE,
                                        !.operPointToPointMAC = FALSE,
                                        !.detectedPortPathCost = 0, !.ExternalPortPathCost = 0])
  BY DEF PortDisabled, SetPort
<1> QED BY <1>2, <1>3, SetPortTyped, Zenon

\* STP_OnOneSecondTick.
LEMMA TickedTyped ==
  ASSUME NEW b \in Bridge
  PROVE  Ticked(b) \in Bridge
<1> DEFINE port == [p \in Ports |-> [b.port[p] EXCEPT !.tick = TRUE]]
<1>1. ASSUME NEW y \in Port
      PROVE  [y EXCEPT !.tick = TRUE] \in Port
  BY ZenonT(60) DEF Port
<1>2. port \in [Ports -> Port]
  BY <1>1, BridgeParts, CistIsTree, Zenon
<1> HIDE DEF port
<1>3. [b EXCEPT !.port = port] \in Bridge
  BY <1>2, ZenonT(60) DEF Bridge
<1> QED BY <1>3, Zenon DEF Ticked, port

\* STP_OnBpduReceived; an MST BPDU may be read as an RST BPDU.
LEMMA BpduReceivedTyped ==
  ASSUME NEW b \in Bridge, NEW p \in Ports, NEW m \in Bpdu
  PROVE  BpduReceived(b, p, m) \in Bridge
<1> DEFINE v        == [m.priority EXCEPT !.InternalRootPathCost = 0, !.DesignatedBridgeId = 0]
           times    == [m.times EXCEPT !.remainingHops = 0]
           rst      == [m EXCEPT !.type = "RST", !.mstConfigId = 0, !.msti = << >>,
                                 !.priority = v, !.times = times]
           received == Validated(b, m)
           new      == [b.port[p] EXCEPT !.rcvdBpdu = TRUE]
<1>1. 0 \in Nat /\ 0 \in 0..255
  BY SMT
<1>2. m.priority \in PriorityVector /\ m.times \in Times
  BY Zenon DEF Bpdu
<1>3. v \in PriorityVector
  BY <1>1, <1>2, Zenon DEF PriorityVector
<1>4. times \in Times
  BY <1>1, <1>2, Zenon DEF Times
<1>5. received = IF m.type = "MST" /\ b.ForceProtocolVersion < MSTP THEN rst ELSE m
  BY DEF Validated
<1> HIDE DEF v, times, received
<1>6. rst \in Bpdu
  <2>1. "RST" \in BpduTypes
    BY Zenon DEF BpduTypes
  <2> QED BY <1>1, <1>3, <1>4, <2>1, ZeroesTyped, ZenonT(60) DEF Bpdu
<1> HIDE DEF rst
<1>7. received \in Bpdu
  BY <1>5, <1>6, Zenon
<1>8. new \in Port
  <2>1. b.port[p] \in Port
    BY BridgeParts, CistIsTree, Zenon
  <2> QED BY <2>1, ZenonT(60) DEF Port
<1>9. BpduReceived(b, p, m) = [b EXCEPT !.receivedBpdu = received, !.port[p] = new]
  BY DEF BpduReceived, received
<1> HIDE DEF new
<1>10. received \in Bpdu \cup {NoBpdu}
  BY <1>7, Zenon
<1>11. [b EXCEPT !.receivedBpdu = received, !.port[p] = new] \in Bridge
  BY <1>8, <1>10, ZenonT(60) DEF Bridge
<1> QED BY <1>9, <1>11, Zenon

-----------------------------------------------------------------------------
(***************************************************************************)
(* Management.                                                             *)
(***************************************************************************)
\* RecomputePrioritiesAndPortRoles up to its run.
LEMMA RecomputedTyped ==
  ASSUME NEW b \in Bridge, NEW t, NEW condition
  PROVE  Recomputed(b, t) \in Bridge /\ RecomputeIf(condition, b, t) \in Bridge
<1> DEFINE pt == [p \in Ports |-> [s \in Trees |->
                   IF s = t \/ (cist(t) /\ s \in TreesOf(b))
                   THEN [b.pt[p][s] EXCEPT !.selected = FALSE, !.reselect = TRUE]
                   ELSE b.pt[p][s]]]
<1>1. ASSUME NEW x \in PortTree
      PROVE  [x EXCEPT !.selected = FALSE, !.reselect = TRUE] \in PortTree
  BY ZenonT(60) DEF PortTree
<1>2. pt \in [Ports -> [Trees -> PortTree]]
  BY <1>1, BridgeParts, Zenon
<1>3. [b EXCEPT !.pt = pt] \in Bridge
  BY <1>2, SetPtTyped, Zenon
<1> QED BY <1>3, Zenon DEF Recomputed, RecomputeIf, pt

\* STP_SetPortAdminEdge and STP_SetPortAutoEdge.
LEMMA EdgeSettingsTyped ==
  ASSUME NEW b \in Bridge, NEW p \in Ports, NEW edge \in BOOLEAN
  PROVE  /\ [b EXCEPT !.port[p].AdminEdge = edge] \in Bridge
         /\ [b EXCEPT !.port[p].AutoEdge = edge] \in Bridge
<1>1. b.port[p] \in Port
  BY BridgeParts, CistIsTree, Zenon
<1>2. /\ [b.port[p] EXCEPT !.AdminEdge = edge] \in Port
      /\ [b.port[p] EXCEPT !.AutoEdge = edge] \in Port
  BY <1>1, ZenonT(60) DEF Port
<1>3. /\ [b EXCEPT !.port[p].AdminEdge = edge]
           = SetPort(b, p, [b.port[p] EXCEPT !.AdminEdge = edge])
      /\ [b EXCEPT !.port[p].AutoEdge = edge]
           = SetPort(b, p, [b.port[p] EXCEPT !.AutoEdge = edge])
  BY DEF SetPort
<1>4. /\ SetPort(b, p, [b.port[p] EXCEPT !.AdminEdge = edge]) \in Bridge
      /\ SetPort(b, p, [b.port[p] EXCEPT !.AutoEdge = edge]) \in Bridge
  BY <1>2, SetPortTyped, Zenon
<1> QED BY <1>3, <1>4

\* STP_SetAdminPointToPointMAC.
LEMMA WithAdminPointToPointMACTyped ==
  ASSUME NEW b \in Bridge, NEW p \in Ports, NEW admin \in AdminP2P
  PROVE  WithAdminPointToPointMAC(b, p, admin) \in Bridge
<1> DEFINE y    == b.port[p]
           oper == IF y.portEnabled THEN OperPointToPoint(admin, y.detectedPointToPointMAC)
                   ELSE y.operPointToPointMAC
<1>1. y \in Port
  BY BridgeParts, CistIsTree, Zenon
<1>2. oper \in BOOLEAN
  BY <1>1, PortFields, Zenon DEF OperPointToPoint
<1>3. WithAdminPointToPointMAC(b, p, admin) =
        SetPort(b, p, [y EXCEPT !.adminPointToPointMAC = admin, !.operPointToPointMAC = oper])
  BY DEF WithAdminPointToPointMAC
<1> HIDE DEF y, oper
<1>4. [y EXCEPT !.adminPointToPointMAC = admin, !.operPointToPointMAC = oper] \in Port
  BY <1>1, <1>2, ZenonT(60) DEF Port
<1> QED BY <1>3, <1>4, SetPortTyped, Zenon

\* An identifier made of the parts of others.
LEMMA BridgeIdTyped ==
  ASSUME NEW priority \in Nat, NEW address \in Nat
  PROVE  /\ BridgeId(priority, address) \in Nat
         /\ PortId(priority, address) \in Nat
<1>1. ASSUME NEW m \in Nat, NEW n \in Nat, NEW k \in Nat
      PROVE  m * n + k \in Nat
  BY SMT
<1>2. AddressSpan \in Nat /\ PortSpan \in Nat
  BY SizesAssumption, SMT
<1> QED BY <1>1, <1>2, Zenon DEF BridgeId, PortId

\* STP_SetBridgeAddress.
LEMMA WithBridgeAddressTyped ==
  ASSUME NEW b \in Bridge, NEW address \in Nat
  PROVE  WithBridgeAddress(b, address) \in Bridge
<1> DEFINE tree == [t \in Trees |->
                     WithIdentifier(b.tree[t], t,
                                    BridgeId(Priority(b.tree[t].BridgeIdentifier), address))]
<1>1. ASSUME NEW t \in Trees
      PROVE  BridgeId(Priority(b.tree[t].BridgeIdentifier), address) \in Nat
  <2>1. b.tree[t].BridgeIdentifier \in Nat
    BY BridgeTreePart, Zenon DEF BridgeTree
  <2>2. Priority(b.tree[t].BridgeIdentifier) \in Nat
    BY <2>1, IdentifiersTyped, Zenon
  <2> QED BY <2>2, BridgeIdTyped, Zenon
<1>2. tree \in [Trees -> BridgeTree]
  BY <1>1, BridgeTreePart, WithIdentifierTyped, Zenon
<1> HIDE DEF tree
<1>3. [b EXCEPT !.tree = tree] \in Bridge
  BY <1>2, ZenonT(60) DEF Bridge
<1> QED BY <1>3, RecomputedTyped, Zenon DEF WithBridgeAddress, tree

\* STP_SetBridgePriority.
LEMMA WithBridgePriorityTyped ==
  ASSUME NEW b \in Bridge, NEW t \in Trees, NEW priority \in Nat
  PROVE  WithBridgePriority(b, t, priority) \in Bridge
<1> DEFINE id == BridgeId(priority, Address(b.tree[t].BridgeIdentifier))
           z  == WithIdentifier(b.tree[t], t, id)
<1>1. id \in Nat
  <2>1. b.tree[t].BridgeIdentifier \in Nat
    BY BridgeTreePart, Zenon DEF BridgeTree
  <2> QED BY <2>1, IdentifiersTyped, Zenon
<1> HIDE DEF id
<1>2. z \in BridgeTree
  BY <1>1, BridgeTreePart, WithIdentifierTyped, Zenon
<1> HIDE DEF z
<1>3. [b EXCEPT !.tree[t] = z] \in Bridge
  BY <1>2, SetTreeTyped, Zenon
<1> QED BY <1>3, RecomputedTyped, Zenon DEF WithBridgePriority, z, id

\* STP_SetPortPriority.
LEMMA WithPortPriorityTyped ==
  ASSUME NEW b \in Bridge, NEW p \in Ports, NEW t \in Trees, NEW priority \in Nat
  PROVE  WithPortPriority(b, p, t, priority) \in Bridge
<1> DEFINE id == PortId(priority, PortNumber(b.pt[p][t].portId))
           a  == [b EXCEPT !.pt[p][t].portId = id]
<1>1. b.pt[p][t] \in PortTree /\ id \in Nat
  <2>1. b.pt[p][t] \in PortTree
    BY BridgeParts, Zenon
  <2> QED BY <2>1, PortTreeFields, IdentifiersTyped, Zenon
<1>2. a = SetPortTree(b, p, t, [b.pt[p][t] EXCEPT !.portId = id])
  BY DEF SetPortTree
<1>3. WithPortPriority(b, p, t, priority)
        = RecomputeIf(b.started /\ t \in TreesOf(b), a, t)
  BY DEF WithPortPriority
<1> HIDE DEF id, a
<1>4. [b.pt[p][t] EXCEPT !.portId = id] \in PortTree
  BY <1>1, ZenonT(60) DEF PortTree
<1>5. a \in Bridge
  BY <1>2, <1>4, SetPortTreeTyped, Zenon
<1> QED BY <1>3, <1>5, RecomputedTyped, Zenon

\* STP_SetBridgeMaxAge and STP_SetBridgeForwardDelay.
LEMMA WithTimesTyped ==
  ASSUME NEW b \in Bridge, NEW n \in Nat
  PROVE  WithMaxAge(b, n) \in Bridge /\ WithForwardDelay(b, n) \in Bridge
<1> DEFINE z  == b.tree[CIST]
           t1 == [z.BridgeTimes EXCEPT !.MaxAge = n]
           t2 == [z.BridgeTimes EXCEPT !.ForwardDelay = n]
           a1 == [b EXCEPT !.tree[CIST].BridgeTimes.MaxAge = n]
           a2 == [b EXCEPT !.tree[CIST].BridgeTimes.ForwardDelay = n]
<1>1. z \in BridgeTree
  BY BridgeTreePart, CistIsTree, Zenon
<1>2. t1 \in Times /\ t2 \in Times
  <2>1. z.BridgeTimes \in Times
    BY <1>1, Zenon DEF BridgeTree
  <2> QED BY <2>1, Zenon DEF Times
<1>3. /\ a1 = [b EXCEPT !.tree[CIST] = [z EXCEPT !.BridgeTimes = t1]]
      /\ a2 = [b EXCEPT !.tree[CIST] = [z EXCEPT !.BridgeTimes = t2]]
  OBVIOUS
<1>4. /\ WithMaxAge(b, n) = RecomputeIf(b.started, a1, CIST)
      /\ WithForwardDelay(b, n) = RecomputeIf(b.started, a2, CIST)
  BY DEF WithMaxAge, WithForwardDelay
<1> HIDE DEF z, t1, t2, a1, a2
<1>5. [z EXCEPT !.BridgeTimes = t1] \in BridgeTree /\ [z EXCEPT !.BridgeTimes = t2] \in BridgeTree
  BY <1>1, <1>2, Zenon DEF BridgeTree
<1>6. a1 \in Bridge /\ a2 \in Bridge
  BY <1>3, <1>5, CistIsTree, SetTreeTyped, Zenon
<1> QED BY <1>4, <1>6, RecomputedTyped, Zenon

\* STP_SetAdminExternalPortPathCost.
LEMMA WithAdminExternalPortPathCostTyped ==
  ASSUME NEW b \in Bridge, NEW p \in Ports, NEW admin \in Nat
  PROVE  WithAdminExternalPortPathCost(b, p, admin) \in Bridge
<1> DEFINE y    == b.port[p]
           cost == IF y.portEnabled THEN PathCost(admin, y.detectedPortPathCost)
                   ELSE y.ExternalPortPathCost
           new  == [y EXCEPT !.adminExternalPortPathCost = admin, !.ExternalPortPathCost = cost]
           a    == [b EXCEPT !.port[p] = new]
<1>1. y \in Port
  BY BridgeParts, CistIsTree, Zenon
<1>2. cost \in Nat
  BY <1>1, PortFields, Zenon DEF PathCost
<1>3. /\ a = SetPort(b, p, new)
      /\ WithAdminExternalPortPathCost(b, p, admin)
           = RecomputeIf(b.started /\ cost # y.ExternalPortPathCost, a, CIST)
  BY DEF SetPort, WithAdminExternalPortPathCost
<1> HIDE DEF y, cost, a
<1>4. new \in Port
  BY <1>1, <1>2, ZenonT(60) DEF Port
<1> HIDE DEF new
<1>5. a \in Bridge
  BY <1>3, <1>4, SetPortTyped, Zenon
<1> QED BY <1>3, <1>5, RecomputedTyped, Zenon

\* STP_SetAdminInternalPortPathCost.
LEMMA WithAdminInternalPortPathCostTyped ==
  ASSUME NEW b \in Bridge, NEW p \in Ports, NEW t \in Trees, NEW admin \in Nat
  PROVE  WithAdminInternalPortPathCost(b, p, t, admin) \in Bridge
<1> DEFINE x    == b.pt[p][t]
           cost == IF b.port[p].portEnabled THEN PathCost(admin, b.port[p].detectedPortPathCost)
                   ELSE x.InternalPortPathCost
           new  == [x EXCEPT !.adminInternalPortPathCost = admin, !.InternalPortPathCost = cost]
           a    == [b EXCEPT !.pt[p][t] = new]
<1>1. x \in PortTree /\ b.port[p] \in Port
  BY BridgeParts, Zenon
<1>2. cost \in Nat
  BY <1>1, PortFields, PortTreeFields, Zenon DEF PathCost
<1>3. /\ a = SetPortTree(b, p, t, new)
      /\ WithAdminInternalPortPathCost(b, p, t, admin)
           = RecomputeIf(b.started /\ cost # x.InternalPortPathCost, a, t)
  BY DEF SetPortTree, WithAdminInternalPortPathCost
<1> HIDE DEF x, cost, a
<1>4. new \in PortTree
  BY <1>1, <1>2, ZenonT(60) DEF PortTree
<1> HIDE DEF new
<1>5. a \in Bridge
  BY <1>3, <1>4, SetPortTreeTyped, Zenon
<1> QED BY <1>3, <1>5, RecomputedTyped, Zenon

\* STP_SetTxHoldCount.
LEMMA WithTxHoldCountTyped ==
  ASSUME NEW b \in Bridge, NEW count \in Nat
  PROVE  WithTxHoldCount(b, count) \in Bridge
<1> DEFINE port == [p \in Ports |-> [b.port[p] EXCEPT !.txCount = 0]]
<1>1. ASSUME NEW y \in Port
      PROVE  [y EXCEPT !.txCount = 0] \in Port
  <2>1. 0 \in Nat
    BY SMT
  <2> QED BY <2>1, ZenonT(60) DEF Port
<1>2. port \in [Ports -> Port]
  BY <1>1, BridgeParts, CistIsTree, Zenon
<1> HIDE DEF port
<1>3. [b EXCEPT !.TxHoldCount = count, !.port = port] \in Bridge
  BY <1>2, ZenonT(60) DEF Bridge
<1> QED BY <1>3, Zenon DEF WithTxHoldCount, port

\* STP_SetStpVersion and the calls that change the MST configuration identifier.
LEMMA WithStpVersionTyped ==
  ASSUME NEW b \in Bridge, NEW version \in Versions, NEW id \in Nat
  PROVE  WithStpVersion(b, version) \in Bridge /\ WithMstConfigId(b, id) \in Bridge
<1>1. /\ [b EXCEPT !.ForceProtocolVersion = version] \in Bridge
      /\ [b EXCEPT !.mstConfigId = id] \in Bridge
  BY ZenonT(60) DEF Bridge
<1> QED BY <1>1, RestartedTyped, Zenon DEF WithStpVersion, WithMstConfigId

-----------------------------------------------------------------------------
(***************************************************************************)
(* Places in the loops.                                                    *)
(***************************************************************************)
\* The instances that the steps name are instances of the bridge.
LEMMA InstancesNamed ==
  ASSUME NEW p \in Ports, NEW t \in Trees
  PROVE  /\ Instance("PortTimers", p, CIST) \in Instances
         /\ Instance("PortProtocolMigration", p, CIST) \in Instances
         /\ Instance("PortReceive", p, CIST) \in Instances
         /\ Instance("BridgeDetection", p, CIST) \in Instances
         /\ Instance("PortInformation", p, t) \in Instances
         /\ Instance("PortRoleTransitions", p, t) \in Instances
         /\ Instance("PortStateTransition", p, t) \in Instances
         /\ Instance("TopologyChange", p, t) \in Instances
         /\ Instance("PortRoleSelection", 1, t) \in Instances
<1>1. ASSUME NEW k \in 1..4
      PROVE  /\ Instance(PortMachines[k], p, CIST) \in Instances
             /\ Instance(TreeMachines[k], p, t) \in Instances
  BY DEF Instances
<1>2. /\ PortMachines[1] = "PortTimers" /\ PortMachines[2] = "PortProtocolMigration"
      /\ PortMachines[3] = "PortReceive" /\ PortMachines[4] = "BridgeDetection"
      /\ TreeMachines[1] = "PortInformation" /\ TreeMachines[2] = "PortRoleTransitions"
      /\ TreeMachines[3] = "PortStateTransition" /\ TreeMachines[4] = "TopologyChange"
  BY SMT DEF PortMachines, TreeMachines
<1>3. 1 \in 1..4 /\ 2 \in 1..4 /\ 3 \in 1..4 /\ 4 \in 1..4
  BY SMT
<1>4. Instance("PortRoleSelection", 1, t) \in Instances
  BY DEF Instances
<1> QED BY <1>1, <1>2, <1>3, <1>4, Zenon

\* The port, the tree and the machine of an instance.
LEMMA InstanceParts ==
  ASSUME NEW i \in Instances
  PROVE  /\ i.port \in Ports /\ i.tree \in Trees
         /\ \/ i.machine = "PortRoleSelection"
            \/ \E k \in 1..4 : i.machine = PortMachines[k]
            \/ \E k \in 1..4 : i.machine = TreeMachines[k]
<1>1. CASE \E k \in 1..4, p \in Ports : i = Instance(PortMachines[k], p, CIST)
  <2>1. PICK k \in 1..4, p \in Ports : i = Instance(PortMachines[k], p, CIST)
    BY <1>1
  <2>2. i.port = p /\ i.tree = CIST /\ i.machine = PortMachines[k]
    BY <2>1, Zenon DEF Instance
  <2> QED BY <2>2, CistIsTree, Zenon
<1>2. CASE \E k \in 1..4, p \in Ports, t \in Trees : i = Instance(TreeMachines[k], p, t)
  <2>1. PICK k \in 1..4, p \in Ports, t \in Trees : i = Instance(TreeMachines[k], p, t)
    BY <1>2
  <2>2. i.port = p /\ i.tree = t /\ i.machine = TreeMachines[k]
    BY <2>1, Zenon DEF Instance
  <2> QED BY <2>2, Zenon
<1>3. CASE \E t \in Trees : i = Instance("PortRoleSelection", 1, t)
  <2>1. PICK t \in Trees : i = Instance("PortRoleSelection", 1, t)
    BY <1>3
  <2>2. i.port = 1 /\ i.tree = t /\ i.machine = "PortRoleSelection"
    BY <2>1, Zenon DEF Instance
  <2>3. 1 \in Ports
    BY SizesAssumption, SMT DEF Ports
  <2> QED BY <2>2, <2>3, Zenon
<1> QED BY <1>1, <1>2, <1>3 DEF Instances

\* The place of a machine among the four of its kind.
LEMMA IndexTyped ==
  ASSUME NEW machine, NEW machines, \E k \in 1..4 : machine = machines[k]
  PROVE  IndexOf(machine, machines) \in 1..4
<1>1. \E k \in 1..4 : machines[k] = machine
  BY Zenon
<1> QED BY <1>1, Zenon DEF IndexOf

\* Every instance has a place in the loops.
LEMMA PositionTyped ==
  ASSUME NEW i \in Instances
  PROVE  Position[i] \in Nat
<1> DEFINE ports == NumPorts * PortWidth + i.tree
           port  == (i.port - 1) * PortWidth + IndexOf(i.machine, PortMachines) - 1
           tree  == (i.port - 1) * PortWidth + 4 * i.tree + IndexOf(i.machine, TreeMachines) + 3
<1>1. PortWidth \in Nat /\ i.tree \in Nat /\ i.port - 1 \in Nat /\ NumPorts \in Nat
  BY InstanceParts, SizesAssumption, SMT DEF PortWidth, Ports, Trees
<1>2. NumPorts * PortWidth \in Nat /\ (i.port - 1) * PortWidth \in Nat
  <2>1. ASSUME NEW m \in Nat, NEW n \in Nat
        PROVE  m * n \in Nat
    BY SMT
  <2> QED BY <1>1, <2>1, Zenon
<1>3. ports \in Nat
  <2>1. ASSUME NEW m \in Nat, NEW n \in Nat
        PROVE  m + n \in Nat
    BY SMT
  <2> QED BY <1>1, <1>2, <2>1, Zenon
<1>4. ASSUME NEW m \in Nat, NEW n \in Nat, NEW k \in 1..4
      PROVE  m + k - 1 \in Nat /\ m + 4 * n + k + 3 \in Nat
  BY SMT
<1>5. CASE i.machine = "PortRoleSelection"
  <2>1. ~\E k \in 1..4 : i.machine = PortMachines[k]
    BY <1>5, SMT DEF PortMachines
  <2>2. Position[i] = ports
    BY <1>5, <2>1, Zenon DEF Position
  <2> QED BY <1>3, <2>2, Zenon
<1>6. CASE i.machine # "PortRoleSelection" /\ \E k \in 1..4 : i.machine = PortMachines[k]
  <2>1. Position[i] = port
    BY <1>6, Zenon DEF Position
  <2>2. IndexOf(i.machine, PortMachines) \in 1..4
    BY <1>6, IndexTyped, Zenon
  <2> QED BY <1>2, <1>4, <2>1, <2>2, Zenon
<1>7. CASE /\ i.machine # "PortRoleSelection"
           /\ ~\E k \in 1..4 : i.machine = PortMachines[k]
  <2>1. Position[i] = tree
    BY <1>7, Zenon DEF Position
  <2>2. IndexOf(i.machine, TreeMachines) \in 1..4
    BY <1>7, InstanceParts, IndexTyped, Zenon
  <2> QED BY <1>1, <1>2, <1>4, <2>1, <2>2, Zenon
<1> QED BY <1>5, <1>6, <1>7, Zenon

\* The values that run takes.
LEMMA RunsTyped ==
  /\ Idle \in Run /\ StartPass \in Run /\ StartTx \in Run
  /\ \A n \in Nat : [run EXCEPT !.at = n, !.changed = TRUE] \in Run \/ run \notin Run
<1>1. Idle \in Run /\ StartPass \in Run /\ StartTx \in Run
  BY SMT DEF Run, Phases, Idle, StartPass, StartTx
<1>2. ASSUME NEW n \in Nat, run \in Run
      PROVE  [run EXCEPT !.at = n, !.changed = TRUE] \in Run
  BY <1>2, Zenon DEF Run
<1> QED BY <1>1, <1>2, Zenon

-----------------------------------------------------------------------------
(***************************************************************************)
(* The steps of RunStateMachines.                                          *)
(***************************************************************************)
\* An instance that moves to a bridge of the right type.
LEMMA MovesTyped ==
  ASSUME TypeOK, NEW i \in Instances, NEW b \in Bridge, Moves(i, b)
  PROVE  TypeOK'
<1>1. bridge' \in Bridge
  BY Zenon DEF Moves
<1>2. run' \in Run
  <2>1. run' = [run EXCEPT !.at = Position[i], !.changed = TRUE]
    BY Zenon DEF Moves
  <2> QED BY <2>1, PositionTyped, RunsTyped, Zenon DEF TypeOK
<1> QED BY <1>1, <1>2, Zenon DEF TypeOK

\* A transition of any machine of the main loops.
LEMMA MachineStepTyped ==
  ASSUME TypeOK, MachineStep
  PROVE  TypeOK'
<1>1. bridge \in Bridge
  BY Zenon DEF TypeOK
<1>2. ASSUME NEW p \in Ports, PortTimersStep(p)
      PROVE  TypeOK'
  <2>1. Moves(Instance("PortTimers", p, CIST), EnterPortTimers(bridge, p))
    BY <1>2, Zenon DEF PortTimersStep
  <2> QED BY <1>1, <2>1, PortTimersTyped, InstancesNamed, CistIsTree, MovesTyped, Zenon
<1>3. ASSUME NEW p \in Ports, ProtocolMigrationStep(p)
      PROVE  TypeOK'
  <2>1. Moves(Instance("PortProtocolMigration", p, CIST), EnterProtocolMigration(bridge, p))
    BY <1>3, Zenon DEF ProtocolMigrationStep
  <2> QED BY <1>1, <2>1, ProtocolMigrationTyped, InstancesNamed, CistIsTree, MovesTyped, Zenon
<1>4. ASSUME NEW p \in Ports, PortReceiveStep(p)
      PROVE  TypeOK'
  <2>1. Moves(Instance("PortReceive", p, CIST), EnterPortReceive(bridge, p))
    BY <1>4, Zenon DEF PortReceiveStep
  <2> QED BY <1>1, <2>1, PortReceiveTyped, InstancesNamed, CistIsTree, MovesTyped, Zenon
<1>5. ASSUME NEW p \in Ports, BridgeDetectionStep(p)
      PROVE  TypeOK'
  <2>1. Moves(Instance("BridgeDetection", p, CIST), EnterBridgeDetection(bridge, p))
    BY <1>5, Zenon DEF BridgeDetectionStep
  <2> QED BY <1>1, <2>1, BridgeDetectionTyped, InstancesNamed, CistIsTree, MovesTyped, Zenon
<1>6. ASSUME NEW p \in Ports, NEW t \in Trees, PortInformationStep(p, t)
      PROVE  TypeOK'
  <2>1. Moves(Instance("PortInformation", p, t), EnterPortInformation(bridge, p, t))
    BY <1>6, Zenon DEF PortInformationStep
  <2> QED BY <1>1, <2>1, PortInformationTyped, InstancesNamed, MovesTyped, Zenon
<1>7. ASSUME NEW p \in Ports, NEW t \in Trees, RoleTransitionsStep(p, t)
      PROVE  TypeOK'
  <2>1. Moves(Instance("PortRoleTransitions", p, t), EnterRoleTransitions(bridge, p, t))
    BY <1>7, Zenon DEF RoleTransitionsStep
  <2> QED BY <1>1, <2>1, RoleTransitionsTyped, InstancesNamed, MovesTyped, Zenon
<1>8. ASSUME NEW p \in Ports, NEW t \in Trees, StateTransitionStep(p, t)
      PROVE  TypeOK'
  <2>1. Moves(Instance("PortStateTransition", p, t), EnterStateTransition(bridge, p, t))
    BY <1>8, Zenon DEF StateTransitionStep
  <2> QED BY <1>1, <2>1, StateTransitionTyped, InstancesNamed, MovesTyped, Zenon
<1>9. ASSUME NEW p \in Ports, NEW t \in Trees, TopologyChangeStep(p, t)
      PROVE  TypeOK'
  <2>1. Moves(Instance("TopologyChange", p, t), EnterTopologyChange(bridge, p, t))
    BY <1>9, Zenon DEF TopologyChangeStep
  <2> QED BY <1>1, <2>1, TopologyChangeTyped, InstancesNamed, MovesTyped, Zenon
<1>10. ASSUME NEW t \in Trees, RoleSelectionStep(t)
       PROVE  TypeOK'
  <2>1. Moves(Instance("PortRoleSelection", 1, t), EnterRoleSelection(bridge, t))
    BY <1>10, Zenon DEF RoleSelectionStep
  <2>2. 1 \in Ports
    BY SizesAssumption, SMT DEF Ports
  <2> QED BY <1>1, <2>1, <2>2, RoleSelectionTyped, InstancesNamed, MovesTyped, Zenon
<1> QED BY <1>2, <1>3, <1>4, <1>5, <1>6, <1>7, <1>8, <1>9, <1>10, Zenon DEF MachineStep

\* A transition of a Port Transmit machine, whether or not the frame gets a buffer.
LEMMA PortTransmitStepTyped ==
  ASSUME TypeOK, NEW p \in Ports, PortTransmitStep(p)
  PROVE  TypeOK'
<1> DEFINE b == EnterPortTransmit(bridge, p)
<1>1. b \in Bridge /\ bridge.tx \in Seq([port : Ports, bpdu : Bpdu])
  BY PortTransmitTyped, BridgeFields, Zenon DEF TypeOK
<1>2. PICK sent \in BOOLEAN : bridge' = [b EXCEPT !.tx = IF sent THEN @ ELSE bridge.tx]
  BY DEF PortTransmitStep
<1> HIDE DEF b
<1>3. bridge' \in Bridge
  <2> DEFINE tx == IF sent THEN b.tx ELSE bridge.tx
  <2>1. bridge' = [b EXCEPT !.tx = tx]
    BY <1>2
  <2>2. tx \in Seq([port : Ports, bpdu : Bpdu])
    BY <1>1, BridgeFields, Zenon
  <2> HIDE DEF tx
  <2>3. [b EXCEPT !.tx = tx] \in Bridge
    BY <1>1, <2>2, ZenonT(60) DEF Bridge
  <2> QED BY <2>1, <2>3, Zenon
<1>4. run' \in Run
  <2>1. run' = [run EXCEPT !.at = p, !.changed = TRUE]
    BY Zenon DEF PortTransmitStep
  <2>2. p \in Nat
    BY SizesAssumption, SMT DEF Ports
  <2> QED BY <2>1, <2>2, RunsTyped, Zenon DEF TypeOK
<1> QED BY <1>3, <1>4, Zenon DEF TypeOK

\* RunStateMachines, to the return of the call.
LEMMA RunStepTyped ==
  ASSUME TypeOK, RunStep
  PROVE  TypeOK'
<1>1. CASE MachineStep
  BY <1>1, MachineStepTyped, Zenon
<1>2. CASE EndOfPass
  <2>1. bridge' = bridge /\ (run' = StartPass \/ run' = StartTx)
    BY <1>2, Zenon DEF EndOfPass
  <2> QED BY <2>1, RunsTyped, Zenon DEF TypeOK
<1>3. CASE \E p \in Ports : PortTransmitStep(p)
  BY <1>3, PortTransmitStepTyped, Zenon
<1>4. CASE TransmitAgain
  BY <1>4, RunsTyped, Zenon DEF TransmitAgain, TypeOK
<1>5. CASE BeginEnds
  <2>1. [bridge EXCEPT !.BEGIN = FALSE] \in Bridge
    BY ZenonT(60) DEF TypeOK, Bridge
  <2> QED BY <1>5, <2>1, RunsTyped, Zenon DEF BeginEnds, TypeOK
<1>6. CASE CallReturns
  <2>1. << >> \in Seq([port : Ports, bpdu : Bpdu]) /\ NoBpdu \in Bpdu \cup {NoBpdu}
    BY SMT
  <2>2. [bridge EXCEPT !.receivedBpdu = NoBpdu, !.tx = << >>] \in Bridge
    BY <2>1, ZenonT(60) DEF TypeOK, Bridge
  <2> QED BY <1>6, <2>2, RunsTyped, Zenon DEF CallReturns, TypeOK
<1> QED BY <1>1, <1>2, <1>3, <1>4, <1>5, <1>6, Zenon DEF RunStep

-----------------------------------------------------------------------------
(***************************************************************************)
(* The calls.                                                              *)
(***************************************************************************)
\* A call that hands over a bridge of the right type, however it ends.
LEMMA CallTyped ==
  ASSUME NEW b \in Bridge, NEW t, Runs(b) \/ Returns(b) \/ RunsIfStarted(b) \/ RunsIfUsed(b, t)
  PROVE  TypeOK'
<1>1. bridge' = b /\ (run' = Idle \/ run' = StartPass)
  BY Zenon DEF Runs, Returns, RunsIfStarted, RunsIfUsed
<1> QED BY <1>1, RunsTyped, Zenon DEF TypeOK

\* STP_StartBridge, STP_StopBridge, the clock, links and frames.
LEMMA EventsTyped ==
  ASSUME TypeOK, StartBridge \/ StopBridge \/ OnOneSecondTick \/ LinkCall \/ ReceiveCall
  PROVE  TypeOK'
<1>1. bridge \in Bridge
  BY Zenon DEF TypeOK
<1>2. CASE StartBridge
  BY <1>1, <1>2, StartedTyped, CallTyped, Zenon DEF StartBridge
<1>3. CASE StopBridge
  BY <1>1, <1>3, StoppedTyped, CallTyped, Zenon DEF StopBridge
<1>4. CASE OnOneSecondTick
  BY <1>1, <1>4, TickedTyped, CallTyped, Zenon DEF OnOneSecondTick
<1>5. ASSUME NEW p \in Ports, OnPortEnabled(p)
      PROVE  TypeOK'
  <2>1. PICK cost \in LinkCosts, p2p \in LinkDuplex : RunsIfStarted(PortEnabled(bridge, p, cost, p2p))
    BY <1>5 DEF OnPortEnabled
  <2>2. cost \in Nat /\ p2p \in BOOLEAN
    BY InputsAssumption, Zenon
  <2> QED BY <1>1, <2>1, <2>2, PortEnabledTyped, CallTyped, Zenon
<1>6. ASSUME NEW p \in Ports, OnPortDisabled(p)
      PROVE  TypeOK'
  BY <1>1, <1>6, PortDisabledTyped, CallTyped, Zenon DEF OnPortDisabled
<1>7. ASSUME NEW p \in Ports, OnBpduReceived(p)
      PROVE  TypeOK'
  <2>1. PICK m \in Frames : Runs(BpduReceived(bridge, p, m))
    BY <1>7 DEF OnBpduReceived
  <2>2. m \in Bpdu
    BY InputsAssumption, Zenon
  <2> QED BY <1>1, <2>1, <2>2, BpduReceivedTyped, CallTyped, Zenon
<1> QED BY <1>2, <1>3, <1>4, <1>5, <1>6, <1>7, Zenon DEF LinkCall, ReceiveCall

\* The settings of one port.
LEMMA EdgeCallTyped ==
  ASSUME TypeOK, EdgeCall
  PROVE  TypeOK'
<1>1. bridge \in Bridge
  BY Zenon DEF TypeOK
<1>2. ASSUME NEW p \in Ports, SetPortAdminEdge(p) \/ SetPortAutoEdge(p)
      PROVE  TypeOK'
  BY <1>1, <1>2, EdgeSettingsTyped, CallTyped, Zenon DEF SetPortAdminEdge, SetPortAutoEdge
<1>3. ASSUME NEW p \in Ports, SetAdminPointToPointMAC(p)
      PROVE  TypeOK'
  <2>1. PICK admin \in AdminP2P :
          \/ RunsIfStarted(WithAdminPointToPointMAC(bridge, p, admin))
          \/ Returns(WithAdminPointToPointMAC(bridge, p, admin))
    BY <1>3, Zenon DEF SetAdminPointToPointMAC
  <2> QED BY <1>1, <2>1, WithAdminPointToPointMACTyped, CallTyped, Zenon
<1> QED BY <1>2, <1>3, Zenon DEF EdgeCall

\* The addresses, priorities, costs and times that role selection compares.
LEMMA PriorityCallTyped ==
  ASSUME TypeOK, PriorityCall
  PROVE  TypeOK'
<1>1. bridge \in Bridge
  BY Zenon DEF TypeOK
<1>2. /\ Addresses \subseteq Nat /\ BridgePriorities \subseteq Nat /\ PortPriorities \subseteq Nat
      /\ AdminCosts \subseteq Nat /\ MaxAges \subseteq Nat /\ ForwardDelays \subseteq Nat
  BY InputsAssumption, SizesAssumption, SMT
<1>3. CASE SetBridgeAddress
  BY <1>1, <1>2, <1>3, WithBridgeAddressTyped, CallTyped, Zenon DEF SetBridgeAddress
<1>4. CASE SetBridgeMaxAge
  BY <1>1, <1>2, <1>4, WithTimesTyped, CallTyped, Zenon DEF SetBridgeMaxAge
<1>5. CASE SetBridgeForwardDelay
  BY <1>1, <1>2, <1>5, WithTimesTyped, CallTyped, Zenon DEF SetBridgeForwardDelay
<1>6. ASSUME NEW t \in Trees, SetBridgePriority(t)
      PROVE  TypeOK'
  BY <1>1, <1>2, <1>6, WithBridgePriorityTyped, CallTyped, Zenon DEF SetBridgePriority
<1>7. ASSUME NEW p \in Ports, NEW t \in Trees, SetPortPriority(p, t)
      PROVE  TypeOK'
  BY <1>1, <1>2, <1>7, WithPortPriorityTyped, CallTyped, Zenon DEF SetPortPriority
<1>8. ASSUME NEW p \in Ports, NEW t \in Trees, SetAdminInternalPortPathCost(p, t)
      PROVE  TypeOK'
  <2>1. PICK admin \in AdminCosts :
          \/ RunsIfStarted(WithAdminInternalPortPathCost(bridge, p, t, admin))
          \/ Returns(WithAdminInternalPortPathCost(bridge, p, t, admin))
    BY <1>8, Zenon DEF SetAdminInternalPortPathCost
  <2> QED BY <1>1, <1>2, <2>1, WithAdminInternalPortPathCostTyped, CallTyped, Zenon
<1>9. ASSUME NEW p \in Ports, SetAdminExternalPortPathCost(p)
      PROVE  TypeOK'
  <2>1. PICK admin \in AdminCosts :
          \/ RunsIfStarted(WithAdminExternalPortPathCost(bridge, p, admin))
          \/ Returns(WithAdminExternalPortPathCost(bridge, p, admin))
    BY <1>9, Zenon DEF SetAdminExternalPortPathCost
  <2> QED BY <1>1, <1>2, <2>1, WithAdminExternalPortPathCostTyped, CallTyped, Zenon
<1> QED BY <1>3, <1>4, <1>5, <1>6, <1>7, <1>8, <1>9, Zenon DEF PriorityCall

\* The calls that set a limit or restart the machines.
LEMMA ProtocolCallTyped ==
  ASSUME TypeOK, ProtocolCall
  PROVE  TypeOK'
<1>1. bridge \in Bridge /\ bridge.ForceProtocolVersion \in Versions /\ bridge.mstConfigId \in Nat
  BY BridgeFields, Zenon DEF TypeOK
<1>2. TxHoldCounts \subseteq Nat /\ StpVersions \subseteq Versions /\ MstConfigIds \subseteq Nat
  BY InputsAssumption, Zenon
<1>3. CASE SetTxHoldCount
  BY <1>1, <1>2, <1>3, WithTxHoldCountTyped, CallTyped, Zenon DEF SetTxHoldCount
<1>4. CASE SetStpVersion
  BY <1>1, <1>2, <1>4, WithStpVersionTyped, CallTyped, Zenon DEF SetStpVersion
<1>5. CASE SetMstConfigId
  BY <1>1, <1>2, <1>5, WithStpVersionTyped, CallTyped, Zenon DEF SetMstConfigId
<1> QED BY <1>3, <1>4, <1>5, Zenon DEF ProtocolCall

-----------------------------------------------------------------------------
\* The bridge as STP_CreateBridge leaves it.
LEMMA InitTyped == Init => TypeOK
<1> SUFFICES ASSUME Init
             PROVE  TypeOK
  OBVIOUS
<1>1. PICK address \in Addresses : bridge = CreateBridge(address)
  BY DEF Init
<1>2. address \in Nat
  BY InputsAssumption, SizesAssumption, SMT
<1>3. run \in Run
  BY RunsTyped, Zenon DEF Init
<1> QED BY <1>1, <1>2, <1>3, CreateBridgeTyped, Zenon DEF TypeOK

\* Any step.
LEMMA NextTyped == TypeOK /\ [Next]_vars => TypeOK'
<1>1. ASSUME TypeOK, Next
      PROVE  TypeOK'
  BY <1>1, EventsTyped, EdgeCallTyped, PriorityCallTyped, ProtocolCallTyped, RunStepTyped, Zenon
     DEF Next
<1>2. ASSUME TypeOK, UNCHANGED vars
      PROVE  TypeOK'
  BY <1>2, Zenon DEF vars, TypeOK
<1> QED BY <1>1, <1>2, Zenon

(***************************************************************************)
(* Every field of the bridge stays within the values its type in the code  *)
(* can hold, whichever calls are made: the machines' states, the eight     *)
(* bits of remainingHops, the timers, which do not pass below zero, and    *)
(* the decoded BPDUs that are sent and received.                           *)
(***************************************************************************)
THEOREM TypeCorrect == Spec => []TypeOK
  BY InitTyped, NextTyped, PTL DEF Spec


-----------------------------------------------------------------------------
(***************************************************************************)
(* A transition of Port Transmit makes no other machine ready.             *)
(***************************************************************************)
\* The machines of a port test the same values.
LEMMA SamePortMachines ==
  ASSUME NEW b \in Bridge, NEW c, OnlyTransmits(b, c), NEW p \in Ports
  PROVE  /\ PortTimersNext(c, p) = PortTimersNext(b, p)
         /\ ProtocolMigrationNext(c, p) = ProtocolMigrationNext(b, p)
         /\ PortReceiveNext(c, p) = PortReceiveNext(b, p)
         /\ BridgeDetectionNext(c, p) = BridgeDetectionNext(b, p)
<1>1. /\ c.BEGIN = b.BEGIN /\ c.ForceProtocolVersion = b.ForceProtocolVersion
      /\ c.pt = b.pt /\ SameTested(b.port[p], c.port[p])
  BY Zenon DEF OnlyTransmits
<1>2. TreesOf(c) = TreesOf(b) /\ rstpVersion(c) = rstpVersion(b)
  BY <1>1, Zenon DEF TreesOf, rstpVersion
<1>3. rcvdAnyMsg(c, p) = rcvdAnyMsg(b, p)
  BY <1>1, <1>2, SMT DEF rcvdAnyMsg
<1>4. PortTimersNext(c, p) = PortTimersNext(b, p)
  BY <1>1, SMT DEF SameTested, PortTimersNext
<1>5. ProtocolMigrationNext(c, p) = ProtocolMigrationNext(b, p)
  BY <1>1, <1>2, SMT DEF SameTested, SameLink, ProtocolMigrationNext
<1>6. PortReceiveNext(c, p) = PortReceiveNext(b, p)
  BY <1>1, <1>3, SMT DEF SameTested, SameLink, PortReceiveNext
<1>7. BridgeDetectionNext(c, p) = BridgeDetectionNext(b, p)
  BY <1>1, SMT DEF SameTested, SameLink, BridgeDetectionNext
<1> QED BY <1>4, <1>5, <1>6, <1>7, Zenon

\* So do the conditions of a port and a tree.
LEMMA SameConditions ==
  ASSUME NEW b \in Bridge, NEW c, OnlyTransmits(b, c), NEW p \in Ports, NEW t \in Trees
  PROVE  /\ allSynced(c, p, t) = allSynced(b, p, t) /\ reRooted(c, p, t) = reRooted(b, p, t)
         /\ MaxAge(c, p) = MaxAge(b, p) /\ FwdDelay(c, p) = FwdDelay(b, p)
         /\ HelloTime(c, p) = HelloTime(b, p) /\ forwardDelay(c, p) = forwardDelay(b, p)
         /\ rstpVersion(c) = rstpVersion(b) /\ TreesOf(c) = TreesOf(b)
<1>1. /\ c.ForceProtocolVersion = b.ForceProtocolVersion
      /\ c.pt = b.pt /\ c.port[p].sendRSTP = b.port[p].sendRSTP
  BY Zenon DEF OnlyTransmits, SameTested
<1>2. allSynced(c, p, t) = allSynced(b, p, t)
  BY <1>1, SMT DEF allSynced, RolesSettled
<1>3. reRooted(c, p, t) = reRooted(b, p, t)
  BY <1>1, SMT DEF reRooted
<1>4. /\ MaxAge(c, p) = MaxAge(b, p) /\ FwdDelay(c, p) = FwdDelay(b, p)
      /\ HelloTime(c, p) = HelloTime(b, p) /\ rstpVersion(c) = rstpVersion(b)
      /\ TreesOf(c) = TreesOf(b)
  BY <1>1, Zenon DEF MaxAge, FwdDelay, HelloTime, rstpVersion, TreesOf
<1>5. forwardDelay(c, p) = forwardDelay(b, p)
  BY <1>1, <1>4, Zenon DEF forwardDelay
<1> QED BY <1>2, <1>3, <1>4, <1>5, Zenon

\* So do the machines of a port and a tree, and role selection.
LEMMA SameTreeMachines ==
  ASSUME NEW b \in Bridge, NEW c, OnlyTransmits(b, c), NEW p \in Ports, NEW t \in Trees
  PROVE  /\ PortInformationNext(c, p, t) = PortInformationNext(b, p, t)
         /\ RoleTransitionsNext(c, p, t) = RoleTransitionsNext(b, p, t)
         /\ StateTransitionNext(c, p, t) = StateTransitionNext(b, p, t)
         /\ TopologyChangeNext(c, p, t) = TopologyChangeNext(b, p, t)
         /\ RoleSelectionNext(c, t) = RoleSelectionNext(b, t)
<1>1. /\ c.BEGIN = b.BEGIN /\ c.pt = b.pt /\ c.tree = b.tree
      /\ SameTested(b.port[p], c.port[p])
  BY Zenon DEF OnlyTransmits
<1>2. /\ c.port[p].portEnabled = b.port[p].portEnabled /\ c.port[p].operEdge = b.port[p].operEdge
      /\ c.port[p].isolate = b.port[p].isolate /\ c.port[p].rcvdTcn = b.port[p].rcvdTcn
      /\ c.port[p].rcvdTcAck = b.port[p].rcvdTcAck
  BY <1>1, Zenon DEF SameTested, SameLink
<1>3. PortInformationNext(c, p, t) = PortInformationNext(b, p, t)
  <2>1. rcvdXstMsg(c, p, t) = rcvdXstMsg(b, p, t) /\ updtXstInfo(c, p, t) = updtXstInfo(b, p, t)
    BY <1>1, SMT DEF rcvdXstMsg, updtXstInfo
  <2> QED BY <1>1, <1>2, <2>1, SMT DEF PortInformationNext
<1>4. StateTransitionNext(c, p, t) = StateTransitionNext(b, p, t)
  BY <1>1, SMT DEF StateTransitionNext
<1>5. TopologyChangeNext(c, p, t) = TopologyChangeNext(b, p, t)
  <2>1. TcPending(c, p, t) = TcPending(b, p, t)
    BY <1>1, <1>2, SMT DEF TcPending
  <2> QED BY <1>1, <1>2, <2>1, SMT DEF TopologyChangeNext
<1>6. RoleSelectionNext(c, t) = RoleSelectionNext(b, t)
  BY <1>1, Zenon DEF RoleSelectionNext
<1>7. GuardedExit(c, p, t) = GuardedExit(b, p, t)
  <2>1. DisabledPortExit(c, p, t) = DisabledPortExit(b, p, t)
    BY <1>1, SameConditions, Zenon DEF DisabledPortExit
  <2>2. MasterPortExit(c, p, t) = MasterPortExit(b, p, t)
    <3>1. CanSync(b.pt[p][t], c.port[p]) = CanSync(b.pt[p][t], b.port[p])
      BY <1>2, Zenon DEF CanSync
    <3> QED BY <1>1, <1>2, <3>1, SameConditions, Zenon DEF MasterPortExit
  <2>3. RootPortExit(c, p, t) = RootPortExit(b, p, t)
    BY <1>1, SameConditions, Zenon DEF RootPortExit
  <2>4. DesignatedPortExit(c, p, t) = DesignatedPortExit(b, p, t)
    <3>1. CanSync(b.pt[p][t], c.port[p]) = CanSync(b.pt[p][t], b.port[p])
      BY <1>2, Zenon DEF CanSync
    <3> QED BY <1>1, <1>2, <3>1, SameConditions, Zenon DEF DesignatedPortExit
  <2>5. AlternatePortExit(c, p, t) = AlternatePortExit(b, p, t)
    BY <1>1, SameConditions, Zenon DEF AlternatePortExit
  <2> QED BY <1>1, <2>1, <2>2, <2>3, <2>4, <2>5, Zenon DEF GuardedExit
<1>8. RoleTransitionsNext(c, p, t) = RoleTransitionsNext(b, p, t)
  BY <1>1, <1>7, SMT DEF RoleTransitionsNext
<1> QED BY <1>3, <1>4, <1>5, <1>6, <1>8, Zenon

\* So the same instances are ready.
LEMMA SameReady ==
  ASSUME NEW b \in Bridge, NEW c, OnlyTransmits(b, c), NEW i \in Instances
  PROVE  Ready(c, i) = Ready(b, i)
<1>1. i.port \in Ports /\ i.tree \in Trees
  BY InstanceParts, Zenon
<1>2. TreesOf(c) = TreesOf(b)
  BY <1>1, SameConditions, Zenon
<1>3. Transition(c, i) = Transition(b, i)
  BY <1>1, SamePortMachines, SameTreeMachines, Zenon DEF Transition
<1> QED BY <1>2, <1>3, Zenon DEF Ready

-----------------------------------------------------------------------------
(***************************************************************************)
(* What the calls do to the budgets and the links of the ports.            *)
(***************************************************************************)
\* the port knows whether its link is point to point, and has budget left or spent
PointKnown(y) ==
  y.operPointToPointMAC =
    (y.portEnabled /\ OperPointToPoint(y.adminPointToPointMAC, y.detectedPointToPointMAC))

Fits(b) == \A q \in Ports : b.port[q].txCount <= b.TxHoldCount /\ PointKnown(b.port[q])

\* nothing is sent, and the ports that were in order still are
Harmless(b, c) == c.tx = b.tx /\ (Fits(b) => Fits(c))

\* Nothing happens to a port whose budget and link are left alone or relieved.
LEMMA NotMoreHarmless ==
  ASSUME NEW b \in Bridge, NEW c \in Bridge, NotMore(b, c)
  PROVE  Harmless(b, c)
<1>1. c.tx = b.tx
  BY Zenon DEF NotMore
<1>2. ASSUME Fits(b), NEW q \in Ports
      PROVE  c.port[q].txCount <= c.TxHoldCount /\ PointKnown(c.port[q])
  <2>1. SameLink(b.port[q], c.port[q]) /\ PointKnown(b.port[q])
    BY <1>2, Zenon DEF NotMore, Fits
  <2>2. PointKnown(c.port[q])
    BY <2>1, Zenon DEF PointKnown, SameLink
  <2>3. /\ c.port[q].txCount <= b.port[q].txCount /\ b.port[q].txCount <= c.TxHoldCount
    BY <1>2, Zenon DEF NotMore, Fits
  <2>4. c.port[q].txCount \in Nat /\ b.port[q].txCount \in Nat /\ c.TxHoldCount \in Nat
    BY BridgeParts, CistIsTree, PortFields, BridgeFields, Zenon
  <2>5. ASSUME NEW l \in Nat, NEW m \in Nat, NEW n \in Nat, l <= m, m <= n
        PROVE  l <= n
    BY <2>5, SMT
  <2> QED BY <2>2, <2>3, <2>4, <2>5, Zenon
<1> QED BY <1>1, <1>2, Zenon DEF Harmless, Fits

\* In particular if they are kept as they are.
LEMMA KeepsHarmless ==
  ASSUME NEW b \in Bridge, NEW c \in Bridge, Keeps(b, c)
  PROVE  Harmless(b, c)
  BY Stutters, KeepsNotMore, NotMoreHarmless, Zenon

\* The other ends of a run: a restart, a tick, a stop.
LEMMA RestartedKeeps ==
  ASSUME NEW b \in Bridge
  PROVE  /\ Keeps(b, Restarted(b))
         /\ Keeps(b, Ticked(b))
         /\ \A learning, forwarding : Keeps(b, Stopped(b, learning, forwarding))
<1>1. ASSUME NEW q \in Ports
      PROVE  /\ Same(b.port[q], StoppedPort(b.port[q]))
             /\ Same(b.port[q], [b.port[q] EXCEPT !.tick = TRUE])
             /\ Same(b.port[q], b.port[q])
  <2>1. b.port[q] \in Port
    BY BridgeParts, CistIsTree, Zenon
  <2> QED BY <2>1, ZenonT(60) DEF Port, StoppedPort, Same, SameLink
<1>2. /\ Restarted(b).TxHoldCount = b.TxHoldCount /\ Restarted(b).tx = b.tx
      /\ Restarted(b).port = [q \in Ports |-> StoppedPort(b.port[q])]
  BY ZenonT(60) DEF Bridge, Restarted
<1>3. /\ Ticked(b).TxHoldCount = b.TxHoldCount /\ Ticked(b).tx = b.tx
      /\ Ticked(b).port = [q \in Ports |-> [b.port[q] EXCEPT !.tick = TRUE]]
  BY ZenonT(60) DEF Bridge, Ticked
<1>4. ASSUME NEW learning, NEW forwarding
      PROVE  /\ Stopped(b, learning, forwarding).TxHoldCount = b.TxHoldCount
             /\ Stopped(b, learning, forwarding).tx = b.tx
             /\ Stopped(b, learning, forwarding).port = b.port
  BY ZenonT(60) DEF Bridge, Stopped
<1>5. Keeps(b, Restarted(b))
  <2>1. \A q \in Ports : Restarted(b).port[q] = StoppedPort(b.port[q])
    BY <1>2, Zenon
  <2> QED BY <1>1, <1>2, <2>1, Zenon DEF Keeps
<1>6. Keeps(b, Ticked(b))
  <2>1. \A q \in Ports : Ticked(b).port[q] = [b.port[q] EXCEPT !.tick = TRUE]
    BY <1>3, Zenon
  <2> QED BY <1>1, <1>3, <2>1, Zenon DEF Keeps
<1> QED BY <1>1, <1>4, <1>5, <1>6, Zenon DEF Keeps

\* Fields of the bridge itself.
LEMMA BridgeFieldsKept ==
  ASSUME NEW b \in Bridge, NEW v, NEW w
  PROVE  /\ Keeps(b, [b EXCEPT !.started = v])
         /\ Keeps(b, [b EXCEPT !.ForceProtocolVersion = v])
         /\ Keeps(b, [b EXCEPT !.mstConfigId = v])
         /\ Keeps(b, [b EXCEPT !.BEGIN = v])
         /\ Keeps(b, [b EXCEPT !.tree = v])
<1>1. ASSUME NEW c \in {[b EXCEPT !.started = v], [b EXCEPT !.ForceProtocolVersion = v],
                        [b EXCEPT !.mstConfigId = v], [b EXCEPT !.BEGIN = v],
                        [b EXCEPT !.tree = v]}
      PROVE  c.port = b.port /\ c.TxHoldCount = b.TxHoldCount /\ c.tx = b.tx
  BY ZenonT(60) DEF Bridge
<1> QED BY <1>1, Zenon DEF Keeps, Same, SameLink

\* STP_OnBpduReceived.
LEMMA ReceivedKeeps ==
  ASSUME NEW b \in Bridge, NEW p \in Ports, NEW m
  PROVE  Keeps(b, BpduReceived(b, p, m))
<1> DEFINE y == [b.port[p] EXCEPT !.rcvdBpdu = TRUE]
           v == Validated(b, m)
           c == BpduReceived(b, p, m)
<1>1. c = [b EXCEPT !.receivedBpdu = v, !.port[p] = y]
  BY DEF BpduReceived
<1>2. Same(b.port[p], y) /\ \A q \in Ports : Same(b.port[q], b.port[q])
  <2>1. b.port[p] \in Port
    BY BridgeParts, CistIsTree, Zenon
  <2> QED BY <2>1, ZenonT(60) DEF Port, Same, SameLink
<1> HIDE DEF y, v, c
<1>3. c.tx = b.tx /\ c.TxHoldCount = b.TxHoldCount /\ c.port = [b.port EXCEPT ![p] = y]
  BY <1>1, ZenonT(60) DEF Bridge
<1>4. \A q \in Ports : c.port[q] = IF q = p THEN y ELSE b.port[q]
  <2>1. b.port \in [Ports -> Port]
    BY Zenon DEF Bridge
  <2> QED BY <1>3, <2>1, Zenon
<1>5. Keeps(b, c)
  BY <1>2, <1>3, <1>4, Zenon DEF Keeps
<1> QED BY <1>5, Zenon DEF c

\* Starting again, with other settings perhaps.
LEMMA RestartsKeep ==
  ASSUME NEW b \in Bridge, NEW version \in Versions, NEW id \in Nat
  PROVE  /\ Keeps(b, Started(b))
         /\ Keeps(b, WithStpVersion(b, version))
         /\ Keeps(b, WithMstConfigId(b, id))
<1>1. ASSUME NEW c \in Bridge, Keeps(b, c)
      PROVE  Keeps(b, Restarted(c)) /\ Keeps(b, RestartIfStarted(c))
  <2>1. Keeps(c, Restarted(c))
    BY RestartedKeeps, Zenon
  <2> QED BY <1>1, <2>1, KeepsTwice, Zenon DEF RestartIfStarted
<1>2. /\ [b EXCEPT !.started = TRUE] \in Bridge
      /\ [b EXCEPT !.ForceProtocolVersion = version] \in Bridge
      /\ [b EXCEPT !.mstConfigId = id] \in Bridge
  BY ZenonT(60) DEF Bridge
<1> QED BY <1>1, <1>2, BridgeFieldsKept, Zenon DEF Started, WithStpVersion, WithMstConfigId

\* Calls that change the trees or the identifiers, and have the roles computed anew.
LEMMA RecomputedKeeps ==
  ASSUME NEW b \in Bridge, NEW x, NEW s, NEW condition
  PROVE  /\ Keeps(b, RecomputeIf(condition, [b EXCEPT !.tree = x], s))
         /\ Keeps(b, RecomputeIf(condition, [b EXCEPT !.pt = x], s))
<1> SUFFICES ASSUME NEW c, c = [b EXCEPT !.tree = x] \/ c = [b EXCEPT !.pt = x]
             PROVE  Keeps(b, RecomputeIf(condition, c, s))
  BY Zenon
<1>1. /\ c.port = b.port /\ c.TxHoldCount = b.TxHoldCount /\ c.tx = b.tx
      /\ \A pt : LET d == [c EXCEPT !.pt = pt]
                 IN  d.port = b.port /\ d.TxHoldCount = b.TxHoldCount /\ d.tx = b.tx
  BY ZenonT(60) DEF Bridge
<1>2. \/ RecomputeIf(condition, c, s) = c
      \/ \E pt : RecomputeIf(condition, c, s) = [c EXCEPT !.pt = pt]
  BY Zenon DEF RecomputeIf, Recomputed
<1> QED BY <1>1, <1>2, Zenon DEF Keeps, Same, SameLink

\* They are the setters of identifiers, priorities, times and internal costs.
LEMMA PrioritiesKeep ==
  ASSUME NEW b \in Bridge, NEW p \in Ports, NEW t \in Trees, NEW n \in Nat
  PROVE  /\ Keeps(b, WithBridgeAddress(b, n))
         /\ Keeps(b, WithBridgePriority(b, t, n))
         /\ Keeps(b, WithPortPriority(b, p, t, n))
         /\ Keeps(b, WithMaxAge(b, n))
         /\ Keeps(b, WithForwardDelay(b, n))
         /\ Keeps(b, WithAdminInternalPortPathCost(b, p, t, n))
<1>1. Keeps(b, WithBridgeAddress(b, n))
  BY RecomputedKeeps, Zenon DEF WithBridgeAddress
<1>2. Keeps(b, WithBridgePriority(b, t, n))
  BY RecomputedKeeps, Zenon DEF WithBridgePriority
<1>3. Keeps(b, WithPortPriority(b, p, t, n))
  BY RecomputedKeeps, Zenon DEF WithPortPriority
<1>4. Keeps(b, WithMaxAge(b, n))
  BY RecomputedKeeps, Zenon DEF WithMaxAge
<1>5. Keeps(b, WithForwardDelay(b, n))
  BY RecomputedKeeps, Zenon DEF WithForwardDelay
<1>6. Keeps(b, WithAdminInternalPortPathCost(b, p, t, n))
  BY RecomputedKeeps, Zenon DEF WithAdminInternalPortPathCost
<1> QED BY <1>1, <1>2, <1>3, <1>4, <1>5, <1>6, Zenon

\* The settings of one port that have nothing to do with its link.
LEMMA SettingsKeep ==
  ASSUME NEW b \in Bridge, NEW p \in Ports, NEW n \in Nat, NEW edge \in BOOLEAN
  PROVE  /\ Keeps(b, WithAdminExternalPortPathCost(b, p, n))
         /\ Keeps(b, [b EXCEPT !.port[p].AdminEdge = edge])
         /\ Keeps(b, [b EXCEPT !.port[p].AutoEdge = edge])
<1>1. b.port[p] \in Port
  BY BridgeParts, CistIsTree, Zenon
<1>2. ASSUME NEW x, NEW y, NEW condition
      PROVE  \A z \in {[b.port[p] EXCEPT !.adminExternalPortPathCost = x,
                                         !.ExternalPortPathCost = y],
                       [b.port[p] EXCEPT !.AdminEdge = x], [b.port[p] EXCEPT !.AutoEdge = x]} :
               Keeps(b, SetPort(b, p, z))
  <2>1. \A z \in {[b.port[p] EXCEPT !.adminExternalPortPathCost = x, !.ExternalPortPathCost = y],
                  [b.port[p] EXCEPT !.AdminEdge = x], [b.port[p] EXCEPT !.AutoEdge = x]} :
          Same(b.port[p], z)
    BY <1>1, ZenonT(60) DEF Port, Same, SameLink
  <2> QED BY <2>1, SetPortKeeps, Zenon
<1>3. /\ [b EXCEPT !.port[p].AdminEdge = edge]
           = SetPort(b, p, [b.port[p] EXCEPT !.AdminEdge = edge])
      /\ [b EXCEPT !.port[p].AutoEdge = edge]
           = SetPort(b, p, [b.port[p] EXCEPT !.AutoEdge = edge])
  BY DEF SetPort
<1>4. Keeps(b, WithAdminExternalPortPathCost(b, p, n))
  <2> DEFINE y    == b.port[p]
             cost == IF y.portEnabled THEN PathCost(n, y.detectedPortPathCost)
                     ELSE y.ExternalPortPathCost
             a    == SetPort(b, p, [y EXCEPT !.adminExternalPortPathCost = n,
                                             !.ExternalPortPathCost = cost])
  <2>1. WithAdminExternalPortPathCost(b, p, n)
          = RecomputeIf(b.started /\ cost # y.ExternalPortPathCost, a, CIST)
    BY DEF WithAdminExternalPortPathCost, SetPort
  <2>2. Keeps(b, a)
    BY <1>2, Zenon
  <2>3. \A pt : LET d == [a EXCEPT !.pt = pt]
                IN  d.port = a.port /\ d.TxHoldCount = a.TxHoldCount /\ d.tx = a.tx
    BY ZenonT(60) DEF Bridge, SetPort
  <2> HIDE DEF a, cost
  <2>4. \/ WithAdminExternalPortPathCost(b, p, n) = a
        \/ \E pt : WithAdminExternalPortPathCost(b, p, n) = [a EXCEPT !.pt = pt]
    BY <2>1, Zenon DEF RecomputeIf, Recomputed
  <2> QED BY <2>2, <2>3, <2>4, Zenon DEF Keeps
<1> QED BY <1>2, <1>3, <1>4, Zenon

\* One PORT changes its link, and the trees may follow.
LEMMA NewLinkHarmless ==
  ASSUME NEW b \in Bridge, NEW c, NEW p \in Ports, NEW y,
         c.tx = b.tx, c.TxHoldCount = b.TxHoldCount, c.port = [b.port EXCEPT ![p] = y],
         y.txCount = b.port[p].txCount, PointKnown(b.port[p]) => PointKnown(y)
  PROVE  Harmless(b, c)
<1>1. \A q \in Ports : c.port[q] = IF q = p THEN y ELSE b.port[q]
  <2>1. b.port \in [Ports -> Port]
    BY Zenon DEF Bridge
  <2> QED BY <2>1, Zenon
<1> QED BY <1>1, Zenon DEF Harmless, Fits

\* STP_OnPortEnabled, STP_OnPortDisabled and STP_SetAdminPointToPointMAC.
LEMMA LinksHarmless ==
  ASSUME NEW b \in Bridge, NEW p \in Ports, NEW cost \in Nat, NEW p2p \in BOOLEAN,
         NEW admin \in AdminP2P
  PROVE  /\ Harmless(b, PortEnabled(b, p, cost, p2p))
         /\ Harmless(b, PortDisabled(b, p))
         /\ Harmless(b, WithAdminPointToPointMAC(b, p, admin))
<1> DEFINE y  == b.port[p]
           y1 == [y EXCEPT
                   !.portEnabled = TRUE, !.detectedPointToPointMAC = p2p,
                   !.operPointToPointMAC = OperPointToPoint(y.adminPointToPointMAC, p2p),
                   !.detectedPortPathCost = cost,
                   !.ExternalPortPathCost = PathCost(y.adminExternalPortPathCost, cost)]
           y2 == [y EXCEPT !.portEnabled = FALSE, !.detectedPointToPointMAC = FALSE,
                           !.operPointToPointMAC = FALSE, !.detectedPortPathCost = 0,
                           !.ExternalPortPathCost = 0]
           oper == IF y.portEnabled THEN OperPointToPoint(admin, y.detectedPointToPointMAC)
                   ELSE y.operPointToPointMAC
           y3 == [y EXCEPT !.adminPointToPointMAC = admin, !.operPointToPointMAC = oper]
<1>1. y \in Port
  BY BridgeParts, CistIsTree, Zenon
<1>2. Harmless(b, PortEnabled(b, p, cost, p2p))
  <2> DEFINE row == [t \in Trees |->
                      IF t \in TreesOf(b)
                      THEN [b.pt[p][t] EXCEPT
                              !.InternalPortPathCost =
                                PathCost(b.pt[p][t].adminInternalPortPathCost, cost)]
                      ELSE b.pt[p][t]]
             c   == [b EXCEPT !.port[p] = y1, !.pt[p] = row]
  <2>1. PortEnabled(b, p, cost, p2p) = c
    BY DEF PortEnabled
  <2>2. /\ y1.txCount = y.txCount /\ y1.portEnabled = TRUE
        /\ y1.adminPointToPointMAC = y.adminPointToPointMAC /\ y1.detectedPointToPointMAC = p2p
        /\ y1.operPointToPointMAC = OperPointToPoint(y.adminPointToPointMAC, p2p)
    BY <1>1, ZenonT(60) DEF Port
  <2> HIDE DEF y1, row
  <2>3. c.tx = b.tx /\ c.TxHoldCount = b.TxHoldCount /\ c.port = [b.port EXCEPT ![p] = y1]
    BY ZenonT(60) DEF Bridge
  <2> HIDE DEF c
  <2>4. PointKnown(y1)
    BY <2>2, Zenon DEF PointKnown, OperPointToPoint
  <2> QED BY <2>1, <2>2, <2>3, <2>4, NewLinkHarmless, Zenon
<1>3. Harmless(b, PortDisabled(b, p))
  <2>1. PortDisabled(b, p) = SetPort(b, p, y2)
    BY DEF PortDisabled, SetPort
  <2>2. y2.txCount = y.txCount /\ y2.portEnabled = FALSE /\ y2.operPointToPointMAC = FALSE
    BY <1>1, ZenonT(60) DEF Port
  <2> HIDE DEF y2
  <2>3. /\ SetPort(b, p, y2).tx = b.tx /\ SetPort(b, p, y2).TxHoldCount = b.TxHoldCount
        /\ SetPort(b, p, y2).port = [b.port EXCEPT ![p] = y2]
    BY ZenonT(60) DEF Bridge, SetPort
  <2>4. PointKnown(y2)
    BY <2>2, Zenon DEF PointKnown
  <2> QED BY <2>1, <2>2, <2>3, <2>4, NewLinkHarmless, Zenon
<1>4. Harmless(b, WithAdminPointToPointMAC(b, p, admin))
  <2>1. WithAdminPointToPointMAC(b, p, admin) = SetPort(b, p, y3)
    BY DEF WithAdminPointToPointMAC
  <2>2. /\ y3.txCount = y.txCount /\ y3.portEnabled = y.portEnabled
        /\ y3.adminPointToPointMAC = admin
        /\ y3.detectedPointToPointMAC = y.detectedPointToPointMAC
        /\ y3.operPointToPointMAC = oper
    BY <1>1, ZenonT(60) DEF Port
  <2> HIDE DEF y3
  <2>3. /\ SetPort(b, p, y3).tx = b.tx /\ SetPort(b, p, y3).TxHoldCount = b.TxHoldCount
        /\ SetPort(b, p, y3).port = [b.port EXCEPT ![p] = y3]
    BY ZenonT(60) DEF Bridge, SetPort
  <2>4. PointKnown(y) => PointKnown(y3)
    <3>1. y.portEnabled \in BOOLEAN
      BY <1>1, PortFields, Zenon
    <3> QED BY <2>2, <3>1, Zenon DEF PointKnown, OperPointToPoint
  <2> QED BY <2>1, <2>2, <2>3, <2>4, NewLinkHarmless, Zenon
<1> QED BY <1>2, <1>3, <1>4, Zenon

\* STP_SetTxHoldCount forgives the frames charged so far.
LEMMA TxHoldCountHarmless ==
  ASSUME NEW b \in Bridge, NEW count \in Nat
  PROVE  Harmless(b, WithTxHoldCount(b, count))
<1> DEFINE port == [q \in Ports |-> [b.port[q] EXCEPT !.txCount = 0]]
           c    == [b EXCEPT !.TxHoldCount = count, !.port = port]
<1>1. ASSUME NEW q \in Ports
      PROVE  /\ port[q].txCount = 0
             /\ port[q].portEnabled = b.port[q].portEnabled
             /\ port[q].adminPointToPointMAC = b.port[q].adminPointToPointMAC
             /\ port[q].detectedPointToPointMAC = b.port[q].detectedPointToPointMAC
             /\ port[q].operPointToPointMAC = b.port[q].operPointToPointMAC
  <2>1. b.port[q] \in Port
    BY BridgeParts, CistIsTree, Zenon
  <2> QED BY <2>1, ZenonT(60) DEF Port
<1>2. WithTxHoldCount(b, count) = c
  BY DEF WithTxHoldCount
<1> HIDE DEF port
<1>3. c.tx = b.tx /\ c.TxHoldCount = count /\ c.port = port
  BY ZenonT(60) DEF Bridge
<1> HIDE DEF c
<1>4. 0 <= count
  BY SMT
<1>5. ASSUME Fits(b), NEW q \in Ports
      PROVE  c.port[q].txCount <= c.TxHoldCount /\ PointKnown(c.port[q])
  BY <1>1, <1>3, <1>4, <1>5, Zenon DEF Fits, PointKnown
<1> QED BY <1>2, <1>3, <1>5, Zenon DEF Harmless, Fits

-----------------------------------------------------------------------------
(***************************************************************************)
(* The steps of the bridge.                                                *)
(***************************************************************************)
\* a call sends nothing itself, and either ends at once or starts a pass
CallLeaves == Harmless(bridge, bridge') /\ run' \in {Idle, StartPass}

\* A call that hands over a bridge in order.
LEMMA CallEnds ==
  ASSUME TypeOK, NEW b \in Bridge, NEW t, Harmless(bridge, b) \/ Keeps(bridge, b),
         Runs(b) \/ Returns(b) \/ RunsIfStarted(b) \/ RunsIfUsed(b, t)
  PROVE  CallLeaves
<1>1. bridge' = b /\ (run' = Idle \/ run' = StartPass)
  BY Zenon DEF Runs, Returns, RunsIfStarted, RunsIfUsed
<1>2. Harmless(bridge, b)
  BY KeepsHarmless, Zenon DEF TypeOK
<1> QED BY <1>1, <1>2, Zenon DEF CallLeaves

\* STP_StartBridge, STP_StopBridge, the clock, links and frames.
LEMMA EventsLeave ==
  ASSUME TypeOK, StartBridge \/ StopBridge \/ OnOneSecondTick \/ LinkCall \/ ReceiveCall
  PROVE  CallLeaves
<1>1. bridge \in Bridge
  BY Zenon DEF TypeOK
<1>2. RSTP \in Versions /\ 0 \in Nat
  BY SMT DEF RSTP, Versions
<1>3. CASE StartBridge
  BY <1>1, <1>2, <1>3, StartedTyped, RestartsKeep, CallEnds, Zenon DEF StartBridge
<1>4. CASE StopBridge
  <2>1. PICK learning, forwarding \in BOOLEAN : Returns(Stopped(bridge, learning, forwarding))
    BY <1>4, Zenon DEF StopBridge
  <2> QED BY <1>1, <2>1, StoppedTyped, RestartedKeeps, CallEnds, Zenon
<1>5. CASE OnOneSecondTick
  BY <1>1, <1>5, TickedTyped, RestartedKeeps, CallEnds, Zenon DEF OnOneSecondTick
<1>6. ASSUME NEW p \in Ports, OnPortEnabled(p)
      PROVE  CallLeaves
  <2>1. PICK cost \in LinkCosts, p2p \in LinkDuplex : RunsIfStarted(PortEnabled(bridge, p, cost, p2p))
    BY <1>6 DEF OnPortEnabled
  <2>2. cost \in Nat /\ p2p \in BOOLEAN /\ "AUTO" \in AdminP2P
    BY InputsAssumption, Zenon DEF AdminP2P
  <2> QED BY <1>1, <2>1, <2>2, PortEnabledTyped, LinksHarmless, CallEnds, Zenon
<1>7. ASSUME NEW p \in Ports, OnPortDisabled(p)
      PROVE  CallLeaves
  <2>1. "AUTO" \in AdminP2P
    BY Zenon DEF AdminP2P
  <2> QED BY <1>1, <1>2, <1>7, <2>1, PortDisabledTyped, LinksHarmless, CallEnds, Zenon
          DEF OnPortDisabled
<1>8. ASSUME NEW p \in Ports, OnBpduReceived(p)
      PROVE  CallLeaves
  <2>1. PICK m \in Frames : Runs(BpduReceived(bridge, p, m))
    BY <1>8 DEF OnBpduReceived
  <2>2. m \in Bpdu
    BY InputsAssumption, Zenon
  <2> QED BY <1>1, <2>1, <2>2, BpduReceivedTyped, ReceivedKeeps, CallEnds, Zenon
<1> QED BY <1>3, <1>4, <1>5, <1>6, <1>7, <1>8, Zenon DEF LinkCall, ReceiveCall

\* The settings of one port.
LEMMA EdgeCallLeaves ==
  ASSUME TypeOK, EdgeCall
  PROVE  CallLeaves
<1>1. bridge \in Bridge
  BY Zenon DEF TypeOK
<1>2. 0 \in Nat
  BY SMT
<1>3. ASSUME NEW p \in Ports, SetPortAdminEdge(p) \/ SetPortAutoEdge(p)
      PROVE  CallLeaves
  BY <1>1, <1>2, <1>3, EdgeSettingsTyped, SettingsKeep, CallEnds, Zenon
     DEF SetPortAdminEdge, SetPortAutoEdge
<1>4. ASSUME NEW p \in Ports, SetAdminPointToPointMAC(p)
      PROVE  CallLeaves
  <2>1. PICK admin \in AdminP2P :
          \/ RunsIfStarted(WithAdminPointToPointMAC(bridge, p, admin))
          \/ Returns(WithAdminPointToPointMAC(bridge, p, admin))
    BY <1>4, Zenon DEF SetAdminPointToPointMAC
  <2> QED BY <1>1, <1>2, <2>1, WithAdminPointToPointMACTyped, LinksHarmless, CallEnds, Zenon
<1> QED BY <1>3, <1>4, Zenon DEF EdgeCall

\* Addresses, priorities, costs and times.
LEMMA PriorityCallLeaves ==
  ASSUME TypeOK, PriorityCall
  PROVE  CallLeaves
<1>1. bridge \in Bridge /\ 1 \in Ports
  BY SizesAssumption, SMT DEF TypeOK, Ports
<1>2. /\ Addresses \subseteq Nat /\ BridgePriorities \subseteq Nat /\ PortPriorities \subseteq Nat
      /\ AdminCosts \subseteq Nat /\ MaxAges \subseteq Nat /\ ForwardDelays \subseteq Nat
  BY InputsAssumption, SizesAssumption, SMT
<1>3. CASE SetBridgeAddress
  BY <1>1, <1>2, <1>3, CistIsTree, WithBridgeAddressTyped, PrioritiesKeep, CallEnds, Zenon
     DEF SetBridgeAddress
<1>4. CASE SetBridgeMaxAge
  BY <1>1, <1>2, <1>4, CistIsTree, WithTimesTyped, PrioritiesKeep, CallEnds, Zenon
     DEF SetBridgeMaxAge
<1>5. CASE SetBridgeForwardDelay
  BY <1>1, <1>2, <1>5, CistIsTree, WithTimesTyped, PrioritiesKeep, CallEnds, Zenon
     DEF SetBridgeForwardDelay
<1>6. ASSUME NEW t \in Trees, SetBridgePriority(t)
      PROVE  CallLeaves
  BY <1>1, <1>2, <1>6, WithBridgePriorityTyped, PrioritiesKeep, CallEnds, Zenon
     DEF SetBridgePriority
<1>7. ASSUME NEW p \in Ports, NEW t \in Trees, SetPortPriority(p, t)
      PROVE  CallLeaves
  BY <1>1, <1>2, <1>7, WithPortPriorityTyped, PrioritiesKeep, CallEnds, Zenon DEF SetPortPriority
<1>8. ASSUME NEW p \in Ports, NEW t \in Trees, SetAdminInternalPortPathCost(p, t)
      PROVE  CallLeaves
  <2>1. PICK admin \in AdminCosts :
          \/ RunsIfStarted(WithAdminInternalPortPathCost(bridge, p, t, admin))
          \/ Returns(WithAdminInternalPortPathCost(bridge, p, t, admin))
    BY <1>8, Zenon DEF SetAdminInternalPortPathCost
  <2> QED BY <1>1, <1>2, <2>1, WithAdminInternalPortPathCostTyped, PrioritiesKeep, CallEnds, Zenon
<1>9. ASSUME NEW p \in Ports, SetAdminExternalPortPathCost(p)
      PROVE  CallLeaves
  <2>1. PICK admin \in AdminCosts :
          \/ RunsIfStarted(WithAdminExternalPortPathCost(bridge, p, admin))
          \/ Returns(WithAdminExternalPortPathCost(bridge, p, admin))
    BY <1>9, Zenon DEF SetAdminExternalPortPathCost
  <2>2. TRUE \in BOOLEAN
    BY Zenon
  <2> QED BY <1>1, <1>2, <2>1, <2>2, WithAdminExternalPortPathCostTyped, SettingsKeep, CallEnds, Zenon
<1> QED BY <1>3, <1>4, <1>5, <1>6, <1>7, <1>8, <1>9, Zenon DEF PriorityCall

\* The limit and the restarts.
LEMMA ProtocolCallLeaves ==
  ASSUME TypeOK, ProtocolCall
  PROVE  CallLeaves
<1>1. bridge \in Bridge /\ bridge.ForceProtocolVersion \in Versions /\ bridge.mstConfigId \in Nat
  BY BridgeFields, Zenon DEF TypeOK
<1>2. TxHoldCounts \subseteq Nat /\ StpVersions \subseteq Versions /\ MstConfigIds \subseteq Nat
  BY InputsAssumption, Zenon
<1>3. CASE SetTxHoldCount
  BY <1>1, <1>2, <1>3, WithTxHoldCountTyped, TxHoldCountHarmless, CallEnds, Zenon
     DEF SetTxHoldCount
<1>4. CASE SetStpVersion
  BY <1>1, <1>2, <1>4, WithStpVersionTyped, RestartsKeep, CallEnds, Zenon DEF SetStpVersion
<1>5. CASE SetMstConfigId
  BY <1>1, <1>2, <1>5, WithStpVersionTyped, RestartsKeep, CallEnds, Zenon DEF SetMstConfigId
<1> QED BY <1>3, <1>4, <1>5, Zenon DEF ProtocolCall

\* A transition of the main loops.
LEMMA MachineStepLeaves ==
  ASSUME TypeOK, MachineStep
  PROVE  Harmless(bridge, bridge') /\ run'.phase = "machines" /\ run'.changed
<1> DEFINE Left == NotMore(bridge, bridge') /\ \E n : run.phase = "machines"
                     /\ run' = [run EXCEPT !.at = n, !.changed = TRUE]
<1>1. bridge \in Bridge /\ run \in Run /\ CIST \in Trees /\ bridge' \in Bridge
  BY MachineStepTyped, CistIsTree, Zenon DEF TypeOK
<1>2. ASSUME NEW i, NEW b, Moves(i, b), Keeps(bridge, b) \/ NotMore(bridge, b)
      PROVE  Left
  <2>1. NotMore(bridge, b)
    BY <1>1, <1>2, Stutters, KeepsNotMore, Zenon
  <2> QED BY <1>2, <2>1, Zenon DEF Moves, Turn
<1>3. ASSUME NEW p \in Ports, \/ PortTimersStep(p) \/ ProtocolMigrationStep(p)
                              \/ PortReceiveStep(p) \/ BridgeDetectionStep(p)
      PROVE  Left
  <2> HIDE DEF Left
  <2> QED BY <1>1, <1>2, <1>3, PortTimersKeeps, PortMachinesKeep, Zenon
          DEF PortTimersStep, ProtocolMigrationStep, PortReceiveStep, BridgeDetectionStep
<1>4. ASSUME NEW p \in Ports, NEW t \in Trees,
             \/ PortInformationStep(p, t) \/ RoleTransitionsStep(p, t)
             \/ StateTransitionStep(p, t) \/ TopologyChangeStep(p, t)
      PROVE  Left
  <2> HIDE DEF Left
  <2> QED BY <1>1, <1>2, <1>4, TreeMachinesKeep, Zenon
          DEF PortInformationStep, RoleTransitionsStep, StateTransitionStep, TopologyChangeStep
<1>5. ASSUME NEW t \in Trees, RoleSelectionStep(t)
      PROVE  Left
  <2> HIDE DEF Left
  <2>1. 1 \in Ports
    BY SizesAssumption, SMT DEF Ports
  <2> QED BY <1>1, <1>2, <1>5, <2>1, TreeMachinesKeep, Zenon DEF RoleSelectionStep
<1>6. Left
  <2> HIDE DEF Left
  <2> QED BY <1>3, <1>4, <1>5, Zenon DEF MachineStep
<1>7. run'.phase = "machines" /\ run'.changed
  BY <1>1, <1>6, Zenon DEF Run
<1> QED BY <1>1, <1>6, <1>7, NotMoreHarmless, Zenon

\* A transition of Port Transmit spends budget there is, and no machine but itself notices.
LEMMA PortTransmitStepLeaves ==
  ASSUME TypeOK, NEW p \in Ports, PortTransmitStep(p)
  PROVE  /\ Fits(bridge) => Fits(bridge')
         /\ \A i \in Instances : Ready(bridge', i) = Ready(bridge, i)
         /\ run.phase = "transmit" /\ run'.phase = "transmit"
         /\ OnlyTransmits(bridge, bridge')
<1> DEFINE b == EnterPortTransmit(bridge, p)
<1>1. bridge \in Bridge /\ bridge.TxHoldCount \in Nat /\ b \in Bridge
  BY PortTransmitTyped, BridgeFields, Zenon DEF TypeOK
<1>2. /\ OnlyTransmits(bridge, b)
      /\ \A q \in Ports : \/ b.port[q].txCount = bridge.port[q].txCount
                          \/ b.port[q].txCount <= bridge.TxHoldCount
  BY <1>1, PortTransmitKeeps, Zenon
<1>3. PICK sent \in BOOLEAN : bridge' = [b EXCEPT !.tx = IF sent THEN @ ELSE bridge.tx]
  BY DEF PortTransmitStep
<1> HIDE DEF b
<1>4. /\ bridge'.BEGIN = b.BEGIN /\ bridge'.started = b.started
      /\ bridge'.ForceProtocolVersion = b.ForceProtocolVersion
      /\ bridge'.TxHoldCount = b.TxHoldCount /\ bridge'.pt = b.pt /\ bridge'.tree = b.tree
      /\ bridge'.port = b.port /\ bridge'.receivedBpdu = b.receivedBpdu
  <2> DEFINE tx == IF sent THEN b.tx ELSE bridge.tx
  <2>1. bridge' = [b EXCEPT !.tx = tx]
    BY <1>3
  <2> HIDE DEF tx
  <2> QED BY <1>1, <2>1, ZenonT(60) DEF Bridge
<1>5. OnlyTransmits(bridge, bridge')
  BY <1>2, <1>4, Zenon DEF OnlyTransmits
<1>6. \A i \in Instances : Ready(bridge', i) = Ready(bridge, i)
  BY <1>1, <1>5, SameReady, Zenon
<1>7. ASSUME Fits(bridge), NEW q \in Ports
      PROVE  bridge'.port[q].txCount <= bridge'.TxHoldCount /\ PointKnown(bridge'.port[q])
  <2>1. bridge'.TxHoldCount = bridge.TxHoldCount /\ SameLink(bridge.port[q], bridge'.port[q])
    BY <1>5, Zenon DEF OnlyTransmits, SameTested
  <2>2. bridge'.port[q].txCount <= bridge.TxHoldCount
    BY <1>2, <1>4, <1>7, Zenon DEF Fits
  <2>3. PointKnown(bridge'.port[q])
    BY <1>7, <2>1, Zenon DEF Fits, PointKnown, SameLink
  <2> QED BY <2>1, <2>2, <2>3, Zenon
<1>8. run.phase = "transmit" /\ run'.phase = "transmit"
  <2>1. run \in Run /\ run.phase = "transmit" /\ run' = [run EXCEPT !.at = p, !.changed = TRUE]
    BY Zenon DEF TypeOK, PortTransmitStep
  <2> QED BY <2>1, Zenon DEF Run
<1> QED BY <1>5, <1>6, <1>7, <1>8, Zenon DEF Fits

-----------------------------------------------------------------------------
(***************************************************************************)
(* The inductive invariant.  The last part is what the variable changed of *)
(* RunStateMachines is for: a pass that has changed nothing so far has     *)
(* either just begun or not yet come to its end, and the transmit loop is  *)
(* entered only after a pass that found every machine at rest from the     *)
(* first to the last.                                                      *)
(***************************************************************************)
Quiet ==
  /\ run.phase = "machines" /\ ~run.changed => run.at = 0
  /\ run.phase = "transmit" => \A i \in Instances : ~Ready(bridge, i)

Inv == TypeOK /\ Fits(bridge) /\ Quiet

\* It holds at the start.
LEMMA InitInv == Init => Inv
<1> SUFFICES ASSUME Init
             PROVE  Inv
  OBVIOUS
<1>1. PICK address \in Addresses : bridge = CreateBridge(address)
  BY DEF Init
<1>2. bridge.TxHoldCount = DefaultTxHoldCount /\ bridge.port = [q \in Ports |-> NewPort]
  BY <1>1 DEF CreateBridge
<1>3. NewPort.txCount = 0 /\ PointKnown(NewPort)
  BY DEF NewPort, PointKnown
<1>4. 0 <= DefaultTxHoldCount
  BY TimesAssumption, SMT
<1>5. Fits(bridge)
  BY <1>2, <1>3, <1>4, Zenon DEF Fits
<1>6. run.phase = "idle"
  BY SMT DEF Init, Idle
<1>7. Quiet
  BY <1>6, SMT DEF Quiet
<1>8. TypeOK
  BY InitTyped, Zenon
<1> QED BY <1>5, <1>7, <1>8, Zenon DEF Inv

\* Every step keeps it, and a step that sends a frame finds every machine at rest.
LEMMA NextInv ==
  ASSUME Inv, [Next]_vars
  PROVE  Inv' /\ (Sends(bridge, bridge') => \A i \in Instances : ~Ready(bridge, i))
<1> DEFINE AtRestIfSends == Sends(bridge, bridge') => \A i \in Instances : ~Ready(bridge, i)
<1>1. /\ TypeOK /\ bridge \in Bridge /\ run \in Run /\ Fits(bridge) /\ Quiet
      /\ TypeOK'
  BY NextTyped, Zenon DEF Inv, TypeOK
<1>2. /\ Idle.phase = "idle" /\ StartPass.phase = "machines" /\ StartPass.at = 0
      /\ StartTx.phase = "transmit"
  BY SMT DEF Idle, StartPass, StartTx
<1>3. ASSUME bridge'.tx = bridge.tx \/ bridge'.tx = << >>
      PROVE  ~Sends(bridge, bridge')
  <2>1. bridge.tx \in Seq([port : Ports, bpdu : Bpdu])
    BY <1>1, BridgeFields, Zenon
  <2>2. Len(bridge.tx) \in Nat /\ Len(<< >>) = 0
    BY <2>1, SMT
  <2>3. ASSUME NEW n \in Nat
        PROVE  ~(n > n) /\ ~(0 > n)
    BY SMT
  <2> QED BY <1>3, <2>2, <2>3, Zenon DEF Sends
<1>4. ASSUME run'.phase = "idle" \/ (run'.phase = "machines" /\ (run'.changed \/ run'.at = 0))
      PROVE  Quiet'
  BY <1>4, SMT DEF Quiet
<1>5. CASE CallLeaves
  <2>1. bridge'.tx = bridge.tx /\ Fits(bridge')
    BY <1>1, <1>5, Zenon DEF CallLeaves, Harmless
  <2>2. Quiet'
    BY <1>2, <1>4, <1>5, Zenon DEF CallLeaves
  <2> QED BY <1>1, <1>3, <2>1, <2>2, Zenon DEF Inv, Fits
<1>6. CASE MachineStep
  <2>1. Harmless(bridge, bridge') /\ run'.phase = "machines" /\ run'.changed
    BY <1>1, <1>6, MachineStepLeaves, Zenon
  <2>2. bridge'.tx = bridge.tx /\ Fits(bridge')
    BY <1>1, <2>1, Zenon DEF Harmless
  <2> QED BY <1>1, <1>3, <1>4, <2>1, <2>2, Zenon DEF Inv, Fits
<1>7. CASE EndOfPass
  <2>1. bridge' = bridge /\ ~Sends(bridge, bridge')
    BY <1>3, <1>7, Zenon DEF EndOfPass
  <2>2. CASE run.changed
    <3>1. run' = StartPass
      BY <1>7, <2>2, Zenon DEF EndOfPass
    <3> QED BY <1>1, <1>2, <1>4, <2>1, <3>1, Zenon DEF Inv, Fits
  <2>3. CASE ~run.changed
    <3>1. run' = StartTx /\ run.at = 0
      BY <1>1, <1>7, <2>3, Zenon DEF EndOfPass, Quiet
    <3>2. ASSUME NEW i \in Instances
          PROVE  Position[i] >= run.at
      BY <3>1, PositionTyped, SMT
    <3>3. \A i \in Instances : ~Ready(bridge, i)
      BY <1>7, <3>2, Zenon DEF EndOfPass
    <3>4. Quiet'
      BY <1>2, <2>1, <3>1, <3>3, SMT DEF Quiet
    <3> QED BY <1>1, <2>1, <3>4, Zenon DEF Inv, Fits
  <2> QED BY <2>2, <2>3, Zenon
<1>8. CASE \E p \in Ports : PortTransmitStep(p)
  <2>1. PICK p \in Ports : PortTransmitStep(p)
    BY <1>8
  <2>2. /\ Fits(bridge) => Fits(bridge')
        /\ \A i \in Instances : Ready(bridge', i) = Ready(bridge, i)
        /\ run.phase = "transmit" /\ run'.phase = "transmit"
    BY <1>1, <2>1, PortTransmitStepLeaves, Zenon
  <2>3. \A i \in Instances : ~Ready(bridge, i)
    BY <1>1, <2>2, Zenon DEF Quiet
  <2>4. Quiet'
    BY <2>2, <2>3, SMT DEF Quiet
  <2> QED BY <1>1, <2>2, <2>3, <2>4, Zenon DEF Inv, Fits
<1>9. CASE TransmitAgain
  <2>1. bridge' = bridge /\ run' = StartPass
    BY <1>9, Zenon DEF TransmitAgain
  <2> QED BY <1>1, <1>2, <1>3, <1>4, <2>1, Zenon DEF Inv, Fits
<1>10. CASE BeginEnds
  <2>1. bridge' = [bridge EXCEPT !.BEGIN = FALSE] /\ run' = StartPass
    BY <1>10, Zenon DEF BeginEnds
  <2>2. Harmless(bridge, bridge')
    BY <1>1, <2>1, BridgeFieldsKept, KeepsHarmless, Zenon DEF TypeOK
  <2> QED BY <1>1, <1>2, <1>3, <1>4, <2>1, <2>2, Zenon DEF Inv, Fits, Harmless
<1>11. CASE CallReturns
  <2>1. bridge' = [bridge EXCEPT !.receivedBpdu = NoBpdu, !.tx = << >>] /\ run' = Idle
    BY <1>11, Zenon DEF CallReturns
  <2>2. /\ bridge'.tx = << >> /\ bridge'.TxHoldCount = bridge.TxHoldCount
        /\ bridge'.port = bridge.port
    BY <1>1, <2>1, ZenonT(60) DEF Bridge
  <2> QED BY <1>1, <1>2, <1>3, <1>4, <2>1, <2>2, Zenon DEF Inv, Fits
<1>12. CASE UNCHANGED vars
  <2>1. bridge' = bridge /\ run' = run
    BY <1>12, Zenon DEF vars
  <2> QED BY <1>1, <1>3, <2>1, Zenon DEF Inv, Fits, Quiet
<1>13. CASE Next
  <2>1. ASSUME ~RunStep
        PROVE  CallLeaves
    BY <1>1, <1>13, <2>1, EventsLeave, EdgeCallLeaves, PriorityCallLeaves, ProtocolCallLeaves, Zenon
       DEF Next
  <2> HIDE DEF AtRestIfSends
  <2> QED BY <1>5, <1>6, <1>7, <1>8, <1>9, <1>10, <1>11, <2>1, Zenon DEF RunStep
<1> QED BY <1>12, <1>13, Zenon

-----------------------------------------------------------------------------
(***************************************************************************)
(* The invariant holds in every state: budgets and links are in order, and *)
(* RunStateMachines knows when every machine is at rest.                   *)
(***************************************************************************)
THEOREM InvariantHolds == Spec => []Inv
<1>1. Inv /\ [Next]_vars => Inv'
  BY NextInv, Zenon
<1> QED BY InitInv, <1>1, PTL DEF Spec

(***************************************************************************)
(* A port is never charged more frames than TxHoldCount: the guard of the  *)
(* transmitting states is enough, since nothing but STP_SetTxHoldCount     *)
(* lowers the limit and that call clears the counts.                       *)
(***************************************************************************)
THEOREM RateLimitHolds == Spec => []RateLimited
<1>1. Inv => RateLimited
  BY Zenon DEF Inv, Fits, RateLimited
<1> QED BY InvariantHolds, <1>1, PTL

(***************************************************************************)
(* operPointToPointMAC is what the link and the administrator last said,   *)
(* through STP_OnPortEnabled, STP_OnPortDisabled and                       *)
(* STP_SetAdminPointToPointMAC: no machine touches any of the four fields. *)
(***************************************************************************)
THEOREM PointToPointHolds == Spec => []PointToPointKnown
<1>1. Inv => PointToPointKnown
  BY Zenon DEF Inv, Fits, PointKnown, PointToPointKnown
<1> QED BY InvariantHolds, <1>1, PTL

(***************************************************************************)
(* RunStateMachines sends a frame only when no other machine can move: the *)
(* transmit loop begins after a pass without changes, and a transition of  *)
(* Port Transmit changes nothing that another machine tests.               *)
(***************************************************************************)
THEOREM TransmitOrderHolds == Spec => TransmitsAtRest
<1> DEFINE A == Sends(bridge, bridge') => \A i \in Instances : ~Ready(bridge, i)
<1>1. Inv /\ [Next]_vars => [A]_vars
  BY NextInv, Zenon
<1> QED BY InvariantHolds, <1>1, PTL DEF Spec, TransmitsAtRest

=============================================================================
