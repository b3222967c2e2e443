------------------------ MODULE StpProcedures_proofs ------------------------
(***************************************************************************)
(* The procedures are closed: from a bridge of type Bridge each one makes  *)
(* a bridge of type Bridge.  The types carry what the bytes of the code    *)
(* do, such as the range of remainingHops; the objects have some forty     *)
(* fields, so each leaf that looks into one updates that one object and    *)
(* nothing else.                                                           *)
(***************************************************************************)
EXTENDS StpProcedures, TLAPS

(***************************************************************************)
(* The parts of a bridge, and a bridge with one part replaced.             *)
(***************************************************************************)
\* The port and the port-and-tree records of a bridge.
LEMMA BridgeParts ==
  ASSUME NEW b \in Bridge, NEW p \in Ports, NEW t \in Trees
  PROVE  /\ b.port[p] \in Port
         /\ b.pt[p] \in [Trees -> PortTree]
         /\ b.pt[p][t] \in PortTree
         /\ b.tree[t] \in BridgeTree
<1> USE DEF Bridge
<1>1. /\ b.port \in [Ports -> Port]
      /\ b.pt \in [Ports -> [Trees -> PortTree]]
      /\ b.tree \in [Trees -> BridgeTree]
  BY Zenon
<1>2. b.pt[p] \in [Trees -> PortTree]
  BY <1>1, Zenon
<1> QED BY <1>1, <1>2, Zenon

\* The tree records of a bridge.
LEMMA BridgeTreePart ==
  ASSUME NEW b \in Bridge, NEW t \in Trees
  PROVE  b.tree[t] \in BridgeTree
<1>1. b.tree \in [Trees -> BridgeTree]
  BY Zenon DEF Bridge
<1> QED BY <1>1, Zenon

\* The fields of a bridge that are no records.
LEMMA BridgeFields ==
  ASSUME NEW b \in Bridge
  PROVE  /\ b.BEGIN \in BOOLEAN /\ b.started \in BOOLEAN
         /\ b.ForceProtocolVersion \in Versions
         /\ b.TxHoldCount \in Nat /\ b.mstConfigId \in Nat
         /\ b.receivedBpdu \in Bpdu \cup {NoBpdu}
         /\ b.tx \in Seq([port : Ports, bpdu : Bpdu])
  BY ZenonT(60) DEF Bridge

\* The numbers and flags of a PORT_TREE.
LEMMA PortTreeFields ==
  ASSUME NEW x \in PortTree
  PROVE  /\ x.agree \in BOOLEAN /\ x.agreed \in BOOLEAN /\ x.proposing \in BOOLEAN
         /\ x.synced \in BOOLEAN /\ x.updtInfo \in BOOLEAN
         /\ x.learning \in BOOLEAN /\ x.forwarding \in BOOLEAN
         /\ x.msgFlags \in Flags /\ x.rcvdInfo \in RcvdInfos
         /\ x.role \in Roles /\ x.selectedRole \in Roles
         /\ x.InternalPortPathCost \in Nat /\ x.adminInternalPortPathCost \in Nat
         /\ x.designatedPriority \in PriorityVector /\ x.msgPriority \in PriorityVector
         /\ x.portPriority \in PriorityVector
         /\ x.designatedTimes \in Times /\ x.msgTimes \in Times /\ x.portTimes \in Times
         /\ x.portId \in Nat
         /\ x.fdWhile \in Nat /\ x.rrWhile \in Nat /\ x.rbWhile \in Nat /\ x.tcWhile \in Nat
         /\ x.rcvdInfoWhile \in Nat /\ x.tcDetected \in Nat
  BY ZenonT(60) DEF PortTree

\* The numbers and flags of a PORT.
LEMMA PortFields ==
  ASSUME NEW y \in Port
  PROVE  /\ y.newInfo \in BOOLEAN /\ y.newInfoMsti \in BOOLEAN /\ y.mastered \in BOOLEAN
         /\ y.rcvdInternal \in BOOLEAN /\ y.tcAck \in BOOLEAN /\ y.sendRSTP \in BOOLEAN
         /\ y.operPointToPointMAC \in BOOLEAN /\ y.detectedPointToPointMAC \in BOOLEAN
         /\ y.portEnabled \in BOOLEAN
         /\ y.txCount \in Nat /\ y.edgeDelayWhile \in Nat /\ y.helloWhen \in Nat
         /\ y.mDelayWhile \in Nat /\ y.ExternalPortPathCost \in Nat
         /\ y.detectedPortPathCost \in Nat /\ y.adminExternalPortPathCost \in Nat
  BY ZenonT(60) DEF Port

\* A new PORT.
LEMMA SetPortTyped ==
  ASSUME NEW b \in Bridge, NEW p \in Ports, NEW y \in Port
  PROVE  SetPort(b, p, y) \in Bridge
  BY ZenonT(60) DEF Bridge, SetPort

\* New PORT_TREEs of one port.
LEMMA SetRowTyped ==
  ASSUME NEW b \in Bridge, NEW p \in Ports, NEW row \in [Trees -> PortTree]
  PROVE  [b EXCEPT !.pt[p] = row] \in Bridge
  BY ZenonT(60) DEF Bridge

\* New PORT_TREEs of all ports.
LEMMA SetPtTyped ==
  ASSUME NEW b \in Bridge, NEW f \in [Ports -> [Trees -> PortTree]]
  PROVE  [b EXCEPT !.pt = f] \in Bridge
  BY ZenonT(60) DEF Bridge

\* A new PORT_TREE.
LEMMA SetPortTreeTyped ==
  ASSUME NEW b \in Bridge, NEW p \in Ports, NEW t \in Trees, NEW x \in PortTree
  PROVE  SetPortTree(b, p, t, x) \in Bridge
  BY ZenonT(60) DEF Bridge, SetPortTree

\* A new BRIDGE_TREE.
LEMMA SetTreeTyped ==
  ASSUME NEW b \in Bridge, NEW t \in Trees, NEW z \in BridgeTree
  PROVE  [b EXCEPT !.tree[t] = z] \in Bridge
  BY ZenonT(60) DEF Bridge

-----------------------------------------------------------------------------
(***************************************************************************)
(* Whole-tree and whole-port procedures.                                   *)
(***************************************************************************)
\* The assignments to a PORT_TREE that the procedures on whole trees make.
LEMMA FlagUpdates ==
  ASSUME NEW x \in PortTree
  PROVE  /\ [x EXCEPT !.rcvdMsg = FALSE] \in PortTree
         /\ [x EXCEPT !.rcvdMsg = TRUE] \in PortTree
         /\ [x EXCEPT !.reselect = FALSE] \in PortTree
         /\ [x EXCEPT !.reRoot = TRUE] \in PortTree
         /\ [x EXCEPT !.sync = TRUE] \in PortTree
         /\ [x EXCEPT !.tcProp = TRUE] \in PortTree
         /\ [x EXCEPT !.selected = TRUE] \in PortTree
         /\ [x EXCEPT !.proposed = TRUE] \in PortTree
         /\ [x EXCEPT !.rcvdTc = TRUE] \in PortTree
         /\ [x EXCEPT !.disputed = TRUE, !.agreed = FALSE] \in PortTree
         /\ [x EXCEPT !.selectedRole = "DISABLED"] \in PortTree
<1> "DISABLED" \in Roles
  BY DEF Roles
<1> QED BY ZenonT(60) DEF PortTree

\* clearReselectTree.
LEMMA clearReselectTreeTyped ==
  ASSUME NEW b \in Bridge, NEW t \in Trees
  PROVE  clearReselectTree(b, t) \in Bridge
<1>1. [q \in Ports |-> IF q \in Ports THEN [b.pt[q] EXCEPT ![t] = [b.pt[q][t] EXCEPT !.reselect = FALSE]]
                     ELSE b.pt[q]] \in [Ports -> [Trees -> PortTree]]
  BY BridgeParts, FlagUpdates, Zenon
<1> QED BY <1>1, SetPtTyped, Zenon DEF clearReselectTree, OnPorts

\* setReRootTree.
LEMMA setReRootTreeTyped ==
  ASSUME NEW b \in Bridge, NEW t \in Trees
  PROVE  setReRootTree(b, t) \in Bridge
<1>1. [q \in Ports |-> IF q \in Ports THEN [b.pt[q] EXCEPT ![t] = [b.pt[q][t] EXCEPT !.reRoot = TRUE]]
                     ELSE b.pt[q]] \in [Ports -> [Trees -> PortTree]]
  BY BridgeParts, FlagUpdates, Zenon
<1> QED BY <1>1, SetPtTyped, Zenon DEF setReRootTree, OnPorts

\* setSyncTree.
LEMMA setSyncTreeTyped ==
  ASSUME NEW b \in Bridge, NEW t \in Trees
  PROVE  setSyncTree(b, t) \in Bridge
<1>1. [q \in Ports |-> IF q \in Ports THEN [b.pt[q] EXCEPT ![t] = [b.pt[q][t] EXCEPT !.sync = TRUE]]
                     ELSE b.pt[q]] \in [Ports -> [Trees -> PortTree]]
  BY BridgeParts, FlagUpdates, Zenon
<1> QED BY <1>1, SetPtTyped, Zenon DEF setSyncTree, OnPorts

\* setTcPropTree.
LEMMA setTcPropTreeTyped ==
  ASSUME NEW b \in Bridge, NEW p \in Ports, NEW t \in Trees
  PROVE  setTcPropTree(b, p, t) \in Bridge
<1>1. [q \in Ports |-> IF q \in Ports \ {p} THEN [b.pt[q] EXCEPT ![t] = [b.pt[q][t] EXCEPT !.tcProp = TRUE]]
                     ELSE b.pt[q]] \in [Ports -> [Trees -> PortTree]]
  BY BridgeParts, FlagUpdates, Zenon
<1> QED BY <1>1, SetPtTyped, Zenon DEF setTcPropTree, OnPorts

\* updtRolesDisabledTree.
LEMMA updtRolesDisabledTreeTyped ==
  ASSUME NEW b \in Bridge, NEW t \in Trees
  PROVE  updtRolesDisabledTree(b, t) \in Bridge
<1>1. [q \in Ports |-> IF q \in Ports THEN [b.pt[q] EXCEPT ![t] = [b.pt[q][t] EXCEPT !.selectedRole = "DISABLED"]]
                     ELSE b.pt[q]] \in [Ports -> [Trees -> PortTree]]
  BY BridgeParts, FlagUpdates, Zenon
<1> QED BY <1>1, SetPtTyped, Zenon DEF updtRolesDisabledTree, OnPorts

\* clearAllRcvdMsgs.
LEMMA clearAllRcvdMsgsTyped ==
  ASSUME NEW b \in Bridge, NEW p \in Ports
  PROVE  clearAllRcvdMsgs(b, p) \in Bridge
<1>1. [t \in Trees |-> IF t \in TreesOf(b) THEN [b.pt[p][t] EXCEPT !.rcvdMsg = FALSE]
                       ELSE b.pt[p][t]] \in [Trees -> PortTree]
  BY BridgeParts, FlagUpdates, Zenon
<1> QED BY <1>1, SetRowTyped, Zenon DEF clearAllRcvdMsgs, OnTrees

\* setSelectedTree.
LEMMA setSelectedTreeTyped ==
  ASSUME NEW b \in Bridge, NEW t \in Trees
  PROVE  setSelectedTree(b, t) \in Bridge
<1>1. [q \in Ports |-> IF q \in Ports
                       THEN [b.pt[q] EXCEPT ![t] = [b.pt[q][t] EXCEPT !.selected = TRUE]]
                       ELSE b.pt[q]] \in [Ports -> [Trees -> PortTree]]
  BY BridgeParts, FlagUpdates, Zenon
<1> QED BY <1>1, SetPtTyped, Zenon DEF setSelectedTree, OnPorts

\* syncMaster.
LEMMA syncMasterTyped ==
  ASSUME NEW b \in Bridge
  PROVE  syncMaster(b) \in Bridge
<1>1. ASSUME NEW x \in PortTree
      PROVE  [x EXCEPT !.agree = FALSE, !.agreed = FALSE, !.synced = FALSE, !.sync = TRUE]
               \in PortTree
  BY ZenonT(60) DEF PortTree
<1>2. [p \in Ports |-> [t \in Trees |->
         IF b.port[p].infoInternal /\ t \in MstisOf(b)
         THEN [b.pt[p][t] EXCEPT !.agree = FALSE, !.agreed = FALSE, !.synced = FALSE, !.sync = TRUE]
         ELSE b.pt[p][t]]] \in [Ports -> [Trees -> PortTree]]
  BY <1>1, BridgeParts, Zenon
<1> QED BY <1>2, SetPtTyped, Zenon DEF syncMaster

-----------------------------------------------------------------------------
(***************************************************************************)
(* Reception of a BPDU.                                                    *)
(***************************************************************************)
\* The CIST is tree 0.
LEMMA CistIsTree == CIST \in Trees
  BY SizesAssumption, SMT DEF CIST, Trees

\* Zeroed flags, priorities and times.
LEMMA ZeroesTyped ==
  /\ ZeroFlags \in Flags /\ ZeroPriority \in PriorityVector /\ ZeroTimes \in Times
  /\ << >> \in Seq(MstiMessage)
<1>1. ZeroFlags \in Flags
  BY Zenon DEF ZeroFlags, Flags, BpduPortRoles
<1>2. ZeroPriority \in PriorityVector
  BY SMT DEF ZeroPriority, PriorityVector
<1>3. ZeroTimes \in Times
  BY SMT DEF ZeroTimes, Times
<1>4. << >> \in Seq(MstiMessage)
  BY SMT
<1> QED BY <1>1, <1>2, <1>3, <1>4, Zenon

\* The parts of a received BPDU.
LEMMA ReceivedFields ==
  ASSUME NEW b \in Bridge
  PROVE  /\ b.receivedBpdu.flags \in Flags
         /\ b.receivedBpdu.priority \in PriorityVector
         /\ b.receivedBpdu.times \in Times
         /\ b.receivedBpdu.msti \in Seq(MstiMessage)
<1>1. CASE b.receivedBpdu \in Bpdu
  BY <1>1, Zenon DEF Bpdu
<1>2. CASE b.receivedBpdu = NoBpdu
  <2>1. /\ NoBpdu.flags = ZeroFlags
        /\ NoBpdu.priority = ZeroPriority
        /\ NoBpdu.times = ZeroTimes
        /\ NoBpdu.msti = << >>
    BY SMT DEF NoBpdu
  <2> QED BY <1>2, <2>1, ZeroesTyped, Zenon
<1> QED BY <1>1, <1>2, BridgeFields, Zenon

\* updtBPDUVersion.
LEMMA updtBPDUVersionTyped ==
  ASSUME NEW b \in Bridge, NEW p \in Ports
  PROVE  updtBPDUVersion(b, p) \in Bridge
<1>1. b.port[p] \in Port
  BY BridgeParts, CistIsTree, Zenon
<1>2. [b.port[p] EXCEPT !.rcvdSTP = TRUE] \in Port
  BY <1>1, ZenonT(60) DEF Port
<1>3. [b.port[p] EXCEPT !.rcvdRSTP = TRUE] \in Port
  BY <1>1, ZenonT(60) DEF Port
<1> QED BY <1>2, <1>3, SetPortTyped, Zenon DEF updtBPDUVersion

\* The CIST message taken from the received BPDU.
LEMMA CistMessageTyped ==
  ASSUME NEW b \in Bridge, NEW p \in Ports
  PROVE  CistMessage(b, p) \in PortTree
<1> DEFINE m        == b.receivedBpdu
           priority == IF b.port[p].rcvdInternal THEN m.priority
                       ELSE [m.priority EXCEPT !.InternalRootPathCost = 0,
                                               !.DesignatedBridgeId = m.priority.RegionalRootId]
           times    == IF b.port[p].rcvdInternal THEN m.times
                       ELSE [m.times EXCEPT
                               !.remainingHops = b.tree[CIST].BridgeTimes.remainingHops]
           flags    == IF m.type = "CONFIG"
                       THEN [ZeroFlags EXCEPT !.Tc = m.flags.Tc,
                                              !.TcAckOrMaster = m.flags.TcAckOrMaster,
                                              !.PortRole = "DESIGNATED"]
                       ELSE [m.flags EXCEPT !.TcAckOrMaster = FALSE]
<1>1. b.pt[p][CIST] \in PortTree
  BY BridgeParts, CistIsTree, Zenon
<1>2. priority \in PriorityVector
  <2>1. m.priority \in PriorityVector
    BY ReceivedFields, Zenon
  <2>2. m.priority.RegionalRootId \in Nat
    BY <2>1, Zenon DEF PriorityVector
  <2> QED BY <2>1, <2>2, Zenon DEF PriorityVector
<1>3. times \in Times
  <2>1. b.tree[CIST].BridgeTimes \in Times
    BY BridgeParts, CistIsTree, Zenon DEF BridgeTree
  <2>2. b.tree[CIST].BridgeTimes.remainingHops \in 0..255
    BY <2>1, Zenon DEF Times
  <2>3. m.times \in Times
    BY ReceivedFields, Zenon
  <2> QED BY <2>2, <2>3, Zenon DEF Times
<1>4. flags \in Flags
  BY ReceivedFields, Zenon DEF Flags, ZeroFlags, BpduPortRoles
<1> HIDE DEF priority, times, flags
<1>5. [b.pt[p][CIST] EXCEPT !.msgPriority = priority, !.msgTimes = times, !.msgFlags = flags]
        \in PortTree
  BY <1>1, <1>2, <1>3, <1>4, ZenonT(60) DEF PortTree
<1> QED BY <1>5, Zenon DEF CistMessage, priority, times, flags

\* The parts of identifiers are numbers.
LEMMA IdentifiersTyped ==
  ASSUME NEW k \in Nat, NEW d \in Nat
  PROVE  /\ BridgeId(k, Address(d)) \in Nat /\ Priority(d) \in Nat /\ Address(d) \in Nat
         /\ PortId(k, PortNumber(d)) \in Nat /\ PortPriority(d) \in Nat /\ PortNumber(d) \in Nat
  BY SizesAssumption, SMT DEF BridgeId, Address, Priority, PortId, PortNumber, PortPriority

\* The MSTI message taken from the received BPDU.
LEMMA MstiReceivedTyped ==
  ASSUME NEW b \in Bridge, NEW x \in PortTree,
         NEW t \in Mstis, t <= Len(b.receivedBpdu.msti)
  PROVE  MstiReceived(b, t, x) \in PortTree
<1> DEFINE m  == b.receivedBpdu
           n  == m.msti[t]
           id == BridgeId(n.BridgePriority, Address(m.priority.DesignatedBridgeId))
           pd == PortId(n.PortPriority, PortNumber(m.priority.DesignatedPortId))
           priority == [x.msgPriority EXCEPT !.RegionalRootId       = n.RegionalRootId,
                                             !.InternalRootPathCost = n.InternalRootPathCost,
                                             !.DesignatedBridgeId   = id,
                                             !.DesignatedPortId     = pd]
           times == [x.msgTimes EXCEPT !.remainingHops = n.RemainingHops]
<1>1. n \in MstiMessage
  <2>1. m.msti \in Seq(MstiMessage)
    BY ReceivedFields, Zenon
  <2>2. t \in 1..Len(m.msti)
    BY <2>1, SizesAssumption, SMT DEF Mstis, Trees, CIST
  <2> QED BY <2>1, <2>2, SMT
<1>2. /\ n.flags \in Flags /\ n.RegionalRootId \in Nat /\ n.InternalRootPathCost \in Nat
      /\ n.BridgePriority \in Nat /\ n.PortPriority \in Nat /\ n.RemainingHops \in 0..255
  BY <1>1, Zenon DEF MstiMessage
<1>3. m.priority.DesignatedBridgeId \in Nat /\ m.priority.DesignatedPortId \in Nat
  BY ReceivedFields, Zenon DEF PriorityVector
<1>4. id \in Nat /\ pd \in Nat
  BY <1>2, <1>3, IdentifiersTyped, Zenon
<1>5. x.msgPriority \in PriorityVector /\ x.msgTimes \in Times
  BY PortTreeFields, Zenon
<1> HIDE DEF id, pd
<1>6. priority \in PriorityVector
  BY <1>2, <1>4, <1>5, Zenon DEF PriorityVector
<1>7. times \in Times
  BY <1>2, <1>5, Zenon DEF Times
<1> HIDE DEF priority, times, n
<1>8. [x EXCEPT !.msgPriority = priority, !.msgTimes = times, !.msgFlags = n.flags,
                !.rcvdMsg = TRUE] \in PortTree
  BY <1>2, <1>6, <1>7, ZenonT(60) DEF PortTree
<1> QED BY <1>8, Zenon DEF MstiReceived, id, pd, priority, times, n

\* rcvMsgs.
LEMMA rcvMsgsTyped ==
  ASSUME NEW b \in Bridge, NEW p \in Ports
  PROVE  rcvMsgs(b, p) \in Bridge
<1> DEFINE m  == b.receivedBpdu
           a  == SetPort(b, p, [b.port[p] EXCEPT !.rcvdTcn = TRUE])
           b1 == IF m.type = "TCN"
                 THEN OnTrees(a, p, MstisOf(b), LAMBDA x : [x EXCEPT !.rcvdTc = TRUE])
                 ELSE SetPortTree(b, p, CIST, CistMessage(b, p))
           b2 == SetPortTree(b1, p, CIST, [b1.pt[p][CIST] EXCEPT !.rcvdMsg = TRUE])
           row == [t \in Trees |-> IF t \in Mstis /\ t <= Len(m.msti)
                                   THEN MstiReceived(b, t, b2.pt[p][t]) ELSE b2.pt[p][t]]
<1>1. a \in Bridge
  <2>1. b.port[p] \in Port
    BY BridgeParts, CistIsTree, Zenon
  <2>2. [b.port[p] EXCEPT !.rcvdTcn = TRUE] \in Port
    BY <2>1, ZenonT(60) DEF Port
  <2> QED BY <2>2, SetPortTyped, Zenon
<1>2. b1 \in Bridge
  <2> HIDE DEF a
  <2>1. [t \in Trees |-> IF t \in MstisOf(b) THEN [a.pt[p][t] EXCEPT !.rcvdTc = TRUE]
                         ELSE a.pt[p][t]] \in [Trees -> PortTree]
    BY <1>1, BridgeParts, FlagUpdates, Zenon
  <2>2. OnTrees(a, p, MstisOf(b), LAMBDA x : [x EXCEPT !.rcvdTc = TRUE]) \in Bridge
    BY <1>1, <2>1, SetRowTyped, Zenon DEF OnTrees
  <2>3. SetPortTree(b, p, CIST, CistMessage(b, p)) \in Bridge
    BY CistMessageTyped, CistIsTree, SetPortTreeTyped, Zenon
  <2> QED BY <2>2, <2>3, Zenon
<1> HIDE DEF b1
<1>3. b2 \in Bridge
  <2>1. [b1.pt[p][CIST] EXCEPT !.rcvdMsg = TRUE] \in PortTree
    BY <1>2, BridgeParts, CistIsTree, FlagUpdates, Zenon
  <2> QED BY <1>2, <2>1, CistIsTree, SetPortTreeTyped, Zenon
<1> HIDE DEF b2
<1>4. row \in [Trees -> PortTree]
  BY <1>3, BridgeParts, MstiReceivedTyped, Zenon
<1>5. [b2 EXCEPT !.pt[p] = row] \in Bridge
  BY <1>3, <1>4, SetRowTyped, Zenon
<1> QED BY <1>3, <1>5, Zenon DEF rcvMsgs, a, b1, b2

\* rcvInfo.
LEMMA rcvInfoTyped ==
  ASSUME NEW b, NEW p, NEW t
  PROVE  rcvInfo(b, p, t) \in RcvdInfos
  BY Zenon DEF rcvInfo, RcvdInfos

-----------------------------------------------------------------------------
(***************************************************************************)
(* Recording what the message says.                                        *)
(***************************************************************************)
\* recordAgreement.
LEMMA recordAgreementTyped ==
  ASSUME NEW b \in Bridge, NEW p \in Ports, NEW t \in Trees
  PROVE  recordAgreement(b, p, t) \in Bridge
<1> DEFINE agrees == /\ b.port[p].operPointToPointMAC
                     /\ b.pt[p][t].msgFlags.Agreement
                     /\ IF cist(t) THEN rstpVersion(b) ELSE SameCistRegionalRoot(b, p)
           x   == [b.pt[p][t] EXCEPT !.agreed = agrees, !.proposing = @ /\ ~agrees]
           b1  == SetPortTree(b, p, t, x)
           row == [s \in Trees |-> IF s \in MstisOf(b)
                                   THEN [b1.pt[p][s] EXCEPT !.agreed = x.agreed,
                                                            !.proposing = x.proposing]
                                   ELSE b1.pt[p][s]]
<1>1. agrees \in BOOLEAN
  BY Zenon
<1>2. b.pt[p][t] \in PortTree
  BY BridgeParts, Zenon
<1> HIDE DEF agrees
<1>3. x \in PortTree
  <2>1. (b.pt[p][t].proposing /\ ~agrees) \in BOOLEAN
    BY Zenon
  <2> QED BY <1>1, <1>2, <2>1, ZenonT(60) DEF PortTree
<1> HIDE DEF x
<1>4. b1 \in Bridge
  BY <1>3, SetPortTreeTyped, Zenon
<1>5. x.agreed \in BOOLEAN /\ x.proposing \in BOOLEAN
  BY <1>3, PortTreeFields, Zenon
<1> HIDE DEF b1
<1>6. ASSUME NEW y \in PortTree
      PROVE  [y EXCEPT !.agreed = x.agreed, !.proposing = x.proposing] \in PortTree
  BY <1>5, ZenonT(60) DEF PortTree
<1>7. row \in [Trees -> PortTree]
  BY <1>4, <1>6, BridgeParts, Zenon
<1>8. [b1 EXCEPT !.pt[p] = row] \in Bridge
  BY <1>4, <1>7, SetRowTyped, Zenon
<1> QED BY <1>4, <1>8, Zenon DEF recordAgreement, OnTrees, agrees, x, b1

\* recordDispute.
LEMMA recordDisputeTyped ==
  ASSUME NEW b \in Bridge, NEW p \in Ports, NEW t \in Trees
  PROVE  recordDispute(b, p, t) \in Bridge
<1> DEFINE S == IF SpeaksForMstis(b, p, t) THEN TreesOf(b) ELSE {t}
<1> HIDE DEF S
<1>1. [s \in Trees |-> IF s \in S THEN [b.pt[p][s] EXCEPT !.disputed = TRUE, !.agreed = FALSE]
                       ELSE b.pt[p][s]] \in [Trees -> PortTree]
  BY BridgeParts, FlagUpdates, Zenon
<1> QED BY <1>1, SetRowTyped, Zenon DEF recordDispute, OnTrees, S

\* recordProposal.
LEMMA recordProposalTyped ==
  ASSUME NEW b \in Bridge, NEW p \in Ports, NEW t \in Trees
  PROVE  recordProposal(b, p, t) \in Bridge
<1> DEFINE S == IF SpeaksForMstis(b, p, t) THEN TreesOf(b) ELSE {t}
<1> HIDE DEF S
<1>1. [s \in Trees |-> IF s \in S THEN [b.pt[p][s] EXCEPT !.proposed = TRUE]
                       ELSE b.pt[p][s]] \in [Trees -> PortTree]
  BY BridgeParts, FlagUpdates, Zenon
<1> QED BY <1>1, SetRowTyped, Zenon DEF recordProposal, OnTrees, S

\* recordMastered.
LEMMA recordMasteredTyped ==
  ASSUME NEW b \in Bridge, NEW p \in Ports, NEW t \in Trees
  PROVE  recordMastered(b, p, t) \in Bridge
<1> DEFINE mastered == IF cist(t)
                       THEN b.port[p].mastered /\ (b.port[p].rcvdInternal \/ MstisOf(b) = {})
                       ELSE b.port[p].operPointToPointMAC /\ b.pt[p][t].msgFlags.TcAckOrMaster
<1>1. b.port[p] \in Port
  BY BridgeParts, Zenon
<1>2. mastered \in BOOLEAN
  BY Zenon
<1> HIDE DEF mastered
<1>3. [b.port[p] EXCEPT !.mastered = mastered] \in Port
  BY <1>1, <1>2, ZenonT(60) DEF Port
<1> QED BY <1>3, SetPortTyped, Zenon DEF recordMastered, mastered

\* recordPriority.
LEMMA recordPriorityTyped ==
  ASSUME NEW b \in Bridge, NEW p \in Ports, NEW t \in Trees
  PROVE  recordPriority(b, p, t) \in Bridge
<1>1. b.pt[p][t] \in PortTree /\ b.pt[p][t].msgPriority \in PriorityVector
  BY BridgeParts, PortTreeFields, Zenon
<1>2. [b.pt[p][t] EXCEPT !.portPriority = b.pt[p][t].msgPriority] \in PortTree
  BY <1>1, ZenonT(60) DEF PortTree
<1> QED BY <1>2, SetPortTreeTyped, Zenon DEF recordPriority

\* recordTimes.
LEMMA recordTimesTyped ==
  ASSUME NEW b \in Bridge, NEW p \in Ports, NEW t \in Trees
  PROVE  recordTimes(b, p, t) \in Bridge
<1> DEFINE x     == b.pt[p][t]
           times == IF cist(t) THEN [x.msgTimes EXCEPT !.HelloTime = DefaultHelloTime]
                    ELSE [x.portTimes EXCEPT !.remainingHops = x.msgTimes.remainingHops]
<1>1. x \in PortTree /\ x.msgTimes \in Times /\ x.portTimes \in Times
  BY BridgeParts, PortTreeFields, Zenon
<1>2. x.msgTimes.remainingHops \in 0..255
  BY <1>1, Zenon DEF Times
<1>3. DefaultHelloTime \in Nat
  BY TimesAssumption, SMT
<1>4. times \in Times
  BY <1>1, <1>2, <1>3, Zenon DEF Times
<1> HIDE DEF times
<1>5. [x EXCEPT !.portTimes = times] \in PortTree
  BY <1>1, <1>4, ZenonT(60) DEF PortTree
<1> QED BY <1>5, SetPortTreeTyped, Zenon DEF recordTimes, times

\* setTcFlags.
LEMMA setTcFlagsTyped ==
  ASSUME NEW b \in Bridge, NEW p \in Ports, NEW t \in Trees
  PROVE  setTcFlags(b, p, t) \in Bridge
<1> DEFINE S  == IF SpeaksForMstis(b, p, t) THEN TreesOf(b) ELSE {t}
           b1 == IF cist(t) /\ b.pt[p][t].msgFlags.TcAckOrMaster
                 THEN SetPort(b, p, [b.port[p] EXCEPT !.rcvdTcAck = TRUE])
                 ELSE b
<1>1. b1 \in Bridge
  <2>1. b.port[p] \in Port
    BY BridgeParts, Zenon
  <2>2. [b.port[p] EXCEPT !.rcvdTcAck = TRUE] \in Port
    BY <2>1, ZenonT(60) DEF Port
  <2> QED BY <2>2, SetPortTyped, Zenon
<1> HIDE DEF S, b1
<1>2. [s \in Trees |-> IF s \in S THEN [b1.pt[p][s] EXCEPT !.rcvdTc = TRUE]
                       ELSE b1.pt[p][s]] \in [Trees -> PortTree]
  BY <1>1, BridgeParts, FlagUpdates, Zenon
<1> QED BY <1>1, <1>2, SetRowTyped, Zenon DEF setTcFlags, OnTrees, S, b1

\* updtRcvdInfoWhile: the timer and the hops do not pass below zero.
LEMMA updtRcvdInfoWhileTyped ==
  ASSUME NEW b \in Bridge, NEW p \in Ports, NEW t \in Trees
  PROVE  updtRcvdInfoWhile(b, p, t) \in Bridge
<1> DEFINE times == b.pt[p][CIST].portTimes
           live  == IF b.port[p].rcvdInternal THEN times.remainingHops > 1
                    ELSE times.MessageAge + 1 <= times.MaxAge
           time  == IF live THEN 3 * times.HelloTime ELSE 0
<1>1. b.pt[p][t] \in PortTree
  BY BridgeParts, Zenon
<1>2. times.HelloTime \in Nat
  BY BridgeParts, CistIsTree, PortTreeFields, Zenon DEF Times
<1> HIDE DEF times, live
<1>3. time \in Nat
  BY <1>2, SMT
<1> HIDE DEF time
<1>4. [b.pt[p][t] EXCEPT !.rcvdInfoWhile = time] \in PortTree
  BY <1>1, <1>3, ZenonT(60) DEF PortTree
<1> QED BY <1>4, SetPortTreeTyped, Zenon DEF updtRcvdInfoWhile, times, live, time

-----------------------------------------------------------------------------
(***************************************************************************)
(* Topology change timers.                                                 *)
(***************************************************************************)
\* HelloTime.
LEMMA HelloTimeTyped ==
  ASSUME NEW b \in Bridge, NEW p \in Ports
  PROVE  /\ HelloTime(b, p) \in Nat /\ FwdDelay(b, p) \in Nat /\ MaxAge(b, p) \in Nat
         /\ forwardDelay(b, p) \in Nat /\ EdgeDelay(b, p) \in Nat
<1>1. b.pt[p][CIST].designatedTimes \in Times /\ b.pt[p][CIST].portTimes \in Times
  BY BridgeParts, CistIsTree, PortTreeFields, Zenon
<1>2. HelloTime(b, p) \in Nat /\ FwdDelay(b, p) \in Nat /\ MaxAge(b, p) \in Nat
  BY <1>1, Zenon DEF HelloTime, FwdDelay, MaxAge, Times
<1>3. MigrateTime \in Nat
  BY TimesAssumption, SMT
<1> QED BY <1>2, <1>3, Zenon DEF forwardDelay, EdgeDelay

\* The time a topology change is announced for.
LEMMA TcPeriodTyped ==
  ASSUME NEW b \in Bridge, NEW p \in Ports, NEW t \in Trees
  PROVE  TcPeriod(b, p, t) \in Nat
<1>1. b.tree[t].rootTimes \in Times
  BY BridgeParts, Zenon DEF BridgeTree
<1>2. b.tree[t].rootTimes.MaxAge \in Nat /\ b.tree[t].rootTimes.ForwardDelay \in Nat
  BY <1>1, Zenon DEF Times
<1> HIDE DEF HelloTime
<1> QED BY <1>2, HelloTimeTyped, SMT DEF TcPeriod

\* newTcDetected.
LEMMA newTcDetectedTyped ==
  ASSUME NEW b \in Bridge, NEW p \in Ports, NEW t \in Trees
  PROVE  newTcDetected(b, p, t) \in Bridge
<1>1. b.pt[p][t] \in PortTree /\ TcPeriod(b, p, t) \in Nat
  BY BridgeParts, TcPeriodTyped, Zenon
<1>2. [b.pt[p][t] EXCEPT !.tcDetected = TcPeriod(b, p, t)] \in PortTree
  BY <1>1, ZenonT(60) DEF PortTree
<1> QED BY <1>2, SetPortTreeTyped, Zenon DEF newTcDetected

\* newInfo, or newInfoMsti for an MSTI.
LEMMA SetNewInfoTyped ==
  ASSUME NEW b \in Bridge, NEW p \in Ports, NEW t
  PROVE  SetNewInfo(b, p, t) \in Bridge
<1>1. b.port[p] \in Port
  BY BridgeParts, CistIsTree, Zenon
<1>2. [b.port[p] EXCEPT !.newInfo = TRUE] \in Port
  BY <1>1, ZenonT(60) DEF Port
<1>3. [b.port[p] EXCEPT !.newInfoMsti = TRUE] \in Port
  BY <1>1, ZenonT(60) DEF Port
<1> QED BY <1>2, <1>3, SetPortTyped, Zenon DEF SetNewInfo

\* newTcWhile.
LEMMA newTcWhileTyped ==
  ASSUME NEW b \in Bridge, NEW p \in Ports, NEW t \in Trees
  PROVE  newTcWhile(b, p, t) \in Bridge
<1>1. b.pt[p][t] \in PortTree /\ TcPeriod(b, p, t) \in Nat
  BY BridgeParts, TcPeriodTyped, Zenon
<1>2. [b.pt[p][t] EXCEPT !.tcWhile = TcPeriod(b, p, t)] \in PortTree
  BY <1>1, ZenonT(60) DEF PortTree
<1>3. SetPortTree(b, p, t, [b.pt[p][t] EXCEPT !.tcWhile = TcPeriod(b, p, t)]) \in Bridge
  BY <1>2, SetPortTreeTyped, Zenon
<1> QED BY <1>3, SetNewInfoTyped, Zenon DEF newTcWhile

-----------------------------------------------------------------------------
(***************************************************************************)
(* updtRolesTree.                                                          *)
(***************************************************************************)
\* The root path priority that a port offers.
LEMMA RootPathPriorityTyped ==
  ASSUME NEW b \in Bridge, NEW p \in Ports, NEW t \in Trees
  PROVE  RootPathPriority(b, p, t) \in PriorityVector
<1> DEFINE v        == b.pt[p][t].portPriority
           external == v.ExternalRootPathCost + b.port[p].ExternalPortPathCost
           internal == v.InternalRootPathCost + b.pt[p][t].InternalPortPathCost
           id       == b.tree[t].BridgeIdentifier
<1>1. v \in PriorityVector /\ b.pt[p][t].InternalPortPathCost \in Nat
  BY BridgeParts, PortTreeFields, Zenon
<1>2. b.port[p].ExternalPortPathCost \in Nat
  BY BridgeParts, PortFields, Zenon
<1>3. v.ExternalRootPathCost \in Nat /\ v.InternalRootPathCost \in Nat
  BY <1>1, Zenon DEF PriorityVector
<1>4. external \in Nat /\ internal \in Nat
  BY <1>1, <1>2, <1>3, SMT
<1>5. id \in Nat
  BY BridgeParts, Zenon DEF BridgeTree
<1> HIDE DEF external, internal, id
<1>6. [v EXCEPT !.ExternalRootPathCost = external, !.RegionalRootId = id] \in PriorityVector
  BY <1>1, <1>4, <1>5, Zenon DEF PriorityVector
<1>7. [v EXCEPT !.InternalRootPathCost = internal] \in PriorityVector
  BY <1>1, <1>4, Zenon DEF PriorityVector
<1> QED BY <1>6, <1>7, Zenon DEF RootPathPriority, external, internal, id

\* The port with the best root path priority is a port.
LEMMA RootPortTyped ==
  ASSUME NEW b, NEW t
  PROVE  RootPort(b, t) \in Ports \cup {NoPort}
<1>1. BestCandidates(b, t) \subseteq Ports
  BY Zenon DEF BestCandidates, RootPortCandidates
<1> QED BY <1>1, Zenon DEF RootPort

\* The times that go with the root: one second older, one hop less.
LEMMA RootTimesTyped ==
  ASSUME NEW b \in Bridge, NEW p \in Ports, NEW t \in Trees
  PROVE  RootTimes(b, p, t) \in Times
<1> DEFINE times == b.pt[p][t].portTimes
           hops  == (times.remainingHops + 255) % 256
           age   == times.MessageAge + 1
<1>1. times \in Times
  BY BridgeParts, PortTreeFields, Zenon
<1>2. times.remainingHops \in 0..255 /\ times.MessageAge \in Nat
  BY <1>1, Zenon DEF Times
<1>3. hops \in 0..255 /\ age \in Nat
  <2>1. ASSUME NEW h \in 0..255, NEW a \in Nat
        PROVE  (h + 255) % 256 \in 0..255 /\ a + 1 \in Nat
    BY SMT
  <2> QED BY <1>2, <2>1, Zenon
<1> HIDE DEF hops, age
<1>4. [times EXCEPT !.remainingHops = hops] \in Times
  BY <1>1, <1>3, Zenon DEF Times
<1>5. [times EXCEPT !.MessageAge = age] \in Times
  BY <1>1, <1>3, Zenon DEF Times
<1> QED BY <1>4, <1>5, Zenon DEF RootTimes, hops, age

\* The priority a port would send.
LEMMA DesignatedPriorityTyped ==
  ASSUME NEW b \in Bridge, NEW p \in Ports, NEW t \in Trees, NEW v \in PriorityVector
  PROVE  DesignatedPriority(b, p, t, v) \in PriorityVector
<1> DEFINE id       == b.tree[t].BridgeIdentifier
           portId   == b.pt[p][t].portId
           regional == IF cist(t) /\ ~b.port[p].sendRSTP THEN id ELSE v.RegionalRootId
<1>1. id \in Nat
  BY BridgeParts, Zenon DEF BridgeTree
<1>2. portId \in Nat
  BY BridgeParts, PortTreeFields, Zenon
<1>3. regional \in Nat
  BY <1>1, Zenon DEF PriorityVector
<1> HIDE DEF id, portId, regional
<1>4. [v EXCEPT !.DesignatedBridgeId = id, !.DesignatedPortId = portId,
                !.RegionalRootId = regional] \in PriorityVector
  BY <1>1, <1>2, <1>3, Zenon DEF PriorityVector
<1> QED BY <1>4, Zenon DEF DesignatedPriority, id, portId, regional

\* The role and the update that a port is given.
LEMMA WithSelectedRoleTyped ==
  ASSUME NEW b \in Bridge, NEW p \in Ports, NEW t \in Trees, NEW root
  PROVE  WithSelectedRole(b, p, t, root) \in PortTree
<1> DEFINE x     == b.pt[p][t]
           c     == b.pt[p][CIST]
           stale == x.portPriority # x.designatedPriority \/ x.portTimes # x.designatedTimes
           role  == IF c.selectedRole = "ROOT" THEN "MASTER"
                    ELSE IF c.selectedRole = "ALTERNATE" THEN "ALTERNATE" ELSE x.selectedRole
           As(selected, update) == [x EXCEPT !.selectedRole = selected, !.updtInfo = update]
<1>1. x \in PortTree /\ x.selectedRole \in Roles /\ x.updtInfo \in BOOLEAN
  BY BridgeParts, PortTreeFields, Zenon
<1> HIDE DEF x
<1>2. ASSUME NEW selected \in Roles, NEW update \in BOOLEAN
      PROVE  As(selected, update) \in PortTree
  BY <1>1, ZenonT(60) DEF PortTree
<1>3. role \in Roles
  BY <1>1, Zenon DEF Roles
<1>4. (x.updtInfo \/ stale) \in BOOLEAN
  BY Zenon
<1> HIDE DEF stale, role, As
<1>5. /\ As("DISABLED", x.updtInfo) \in PortTree /\ As(role, x.updtInfo \/ stale) \in PortTree
      /\ As("DESIGNATED", TRUE) \in PortTree /\ As("DESIGNATED", x.updtInfo \/ stale) \in PortTree
      /\ As("ROOT", FALSE) \in PortTree /\ As("BACKUP", FALSE) \in PortTree
      /\ As("ALTERNATE", FALSE) \in PortTree
  <2>1. {"DISABLED", "ROOT", "DESIGNATED", "ALTERNATE", "BACKUP"} \subseteq Roles
    BY Zenon DEF Roles
  <2> QED BY <1>1, <1>2, <1>3, <1>4, <2>1, Zenon
<1>6. WithSelectedRole(b, p, t, root) =
        IF x.infoIs = "DISABLED" THEN As("DISABLED", x.updtInfo)
        ELSE IF ~cist(t) /\ c.infoIs = "RECEIVED" /\ ~b.port[p].infoInternal
        THEN As(role, x.updtInfo \/ stale)
        ELSE IF c.infoIs = "DISABLED" THEN x
        ELSE IF x.infoIs = "AGED" THEN As("DESIGNATED", TRUE)
        ELSE IF x.infoIs = "MINE" THEN As("DESIGNATED", x.updtInfo \/ stale)
        ELSE IF p = root THEN As("ROOT", FALSE)
        ELSE IF IsBetterThan(x.designatedPriority, x.portPriority) THEN As("DESIGNATED", TRUE)
        ELSE IF SentByThisBridge(b, p, t) THEN As("BACKUP", FALSE)
        ELSE As("ALTERNATE", FALSE)
  BY DEF WithSelectedRole, x, stale, role, As
<1> HIDE DEF c
<1> QED BY <1>1, <1>5, <1>6, Zenon

\* The root that a tree is given.
LEMMA WithRootTyped ==
  ASSUME NEW b \in Bridge, NEW t \in Trees, NEW root \in Ports \cup {NoPort}
  PROVE  WithRoot(b, t, root) \in Bridge
<1> DEFINE old      == b.tree[t]
           priority == IF root = NoPort THEN old.BridgePriority ELSE RootPathPriority(b, root, t)
           times    == IF root = NoPort THEN old.BridgeTimes ELSE RootTimes(b, root, t)
           rootId   == IF root = NoPort THEN 0 ELSE b.pt[root][t].portId
           tree     == [old EXCEPT !.rootPriority = priority, !.rootTimes = times,
                                   !.rootPortId = rootId]
           pt       == [p \in Ports |-> [b.pt[p] EXCEPT ![t] =
                          [b.pt[p][t] EXCEPT
                             !.designatedPriority = DesignatedPriority(b, p, t, priority),
                             !.designatedTimes = times]]]
<1>1. old \in BridgeTree
  BY BridgeTreePart, Zenon
<1>2. old.BridgePriority \in PriorityVector /\ old.BridgeTimes \in Times
  BY <1>1, Zenon DEF BridgeTree
<1>3. priority \in PriorityVector /\ times \in Times
  BY <1>2, RootPathPriorityTyped, RootTimesTyped, Zenon
<1>4. rootId \in Nat
  BY BridgeParts, PortTreeFields, Zenon
<1> HIDE DEF priority, times, rootId
<1>5. tree \in BridgeTree
  BY <1>1, <1>3, <1>4, Zenon DEF BridgeTree
<1>6. ASSUME NEW x \in PortTree, NEW v \in PriorityVector
      PROVE  [x EXCEPT !.designatedPriority = v, !.designatedTimes = times] \in PortTree
  BY <1>3, ZenonT(60) DEF PortTree
<1>7. pt \in [Ports -> [Trees -> PortTree]]
  BY <1>3, <1>6, BridgeParts, DesignatedPriorityTyped, Zenon
<1> HIDE DEF tree, pt
<1>8. [b EXCEPT !.tree[t] = tree, !.pt = pt] \in Bridge
  BY <1>5, <1>7, ZenonT(60) DEF Bridge
<1> QED BY <1>8, Zenon DEF WithRoot, priority, times, rootId, tree, pt

\* updtRolesTree.
LEMMA updtRolesTreeTyped ==
  ASSUME NEW b \in Bridge, NEW t \in Trees
  PROVE  updtRolesTree(b, t) \in Bridge
<1> DEFINE root == RootPort(b, t)
           b1   == WithRoot(b, t, root)
           b2   == IF cist(t) /\ RegionalRootChanged(b.tree[t].rootPriority,
                                                     b1.tree[t].rootPriority)
                   THEN syncMaster(b1) ELSE b1
           pt   == [p \in Ports |-> [b2.pt[p] EXCEPT ![t] = WithSelectedRole(b2, p, t, root)]]
<1>1. b1 \in Bridge
  BY RootPortTyped, WithRootTyped, Zenon
<1> HIDE DEF b1, root
<1>2. b2 \in Bridge
  BY <1>1, syncMasterTyped, Zenon
<1> HIDE DEF b2
<1>3. pt \in [Ports -> [Trees -> PortTree]]
  BY <1>2, BridgeParts, WithSelectedRoleTyped, Zenon
<1>4. [b2 EXCEPT !.pt = pt] \in Bridge
  BY <1>2, <1>3, SetPtTyped, Zenon
<1> QED BY <1>4, Zenon DEF updtRolesTree, root, b1, b2

-----------------------------------------------------------------------------
(***************************************************************************)
(* Transmission.                                                           *)
(***************************************************************************)
\* The flags of a frame.
LEMMA TxFlagsTyped ==
  ASSUME NEW x \in PortTree
  PROVE  TxFlags(x) \in Flags
<1>1. /\ x.proposing \in BOOLEAN /\ x.learning \in BOOLEAN /\ x.forwarding \in BOOLEAN
      /\ x.agree \in BOOLEAN
  BY PortTreeFields, Zenon
<1>2. GetBpduPortRole(x.role) \in BpduPortRoles
  <2>1. CASE x.role \in {"ALTERNATE", "BACKUP"}
    BY <2>1, SMT DEF GetBpduPortRole, BpduPortRoles
  <2>2. CASE x.role \in {"ROOT", "DESIGNATED"}
    BY <2>2, SMT DEF GetBpduPortRole, BpduPortRoles
  <2>3. CASE x.role \notin {"ALTERNATE", "BACKUP", "ROOT", "DESIGNATED"}
    BY <2>3, SMT DEF GetBpduPortRole, BpduPortRoles
  <2> QED BY <2>1, <2>2, <2>3, Zenon
<1> QED BY <1>1, <1>2, Zenon DEF TxFlags, Flags

\* One more frame.
LEMMA AppendTyped ==
  ASSUME NEW S, NEW s \in Seq(S), NEW e \in S
  PROVE  Append(s, e) \in Seq(S)
  BY SMT

\* A frame handed to the port.
LEMMA SendTyped ==
  ASSUME NEW b \in Bridge, NEW p \in Ports, NEW m \in Bpdu
  PROVE  Send(b, p, m) \in Bridge
<1> DEFINE frame == [port |-> p, bpdu |-> m]
<1>1. frame \in [port : Ports, bpdu : Bpdu]
  BY Zenon
<1>2. b.tx \in Seq([port : Ports, bpdu : Bpdu])
  BY BridgeFields, Zenon
<1> HIDE DEF frame
<1>3. Append(b.tx, frame) \in Seq([port : Ports, bpdu : Bpdu])
  BY <1>1, <1>2, AppendTyped, Zenon
<1>4. [b EXCEPT !.tx = Append(b.tx, frame)] \in Bridge
  BY <1>3, ZenonT(60) DEF Bridge
<1> QED BY <1>4, Zenon DEF Send, frame

\* txConfig.
LEMMA txConfigTyped ==
  ASSUME NEW b \in Bridge, NEW p \in Ports
  PROVE  txConfig(b, p) \in Bridge
<1> DEFINE x        == b.pt[p][CIST]
           v        == x.designatedPriority
           flags    == [ZeroFlags EXCEPT !.Tc = x.tcWhile # 0,
                                         !.TcAckOrMaster = b.port[p].tcAck]
           priority == [v EXCEPT !.RegionalRootId = v.DesignatedBridgeId,
                                 !.InternalRootPathCost = 0, !.DesignatedBridgeId = 0]
           times    == [x.designatedTimes EXCEPT !.HelloTime = HelloTime(b, p),
                                                 !.remainingHops = 0]
<1>1. v \in PriorityVector /\ x.designatedTimes \in Times
  BY BridgeParts, CistIsTree, PortTreeFields, Zenon
<1>2. flags \in Flags
  <2>1. b.port[p].tcAck \in BOOLEAN
    BY BridgeParts, CistIsTree, PortFields, Zenon
  <2> QED BY <2>1, ZeroesTyped, Zenon DEF Flags
<1>3. priority \in PriorityVector
  <2>1. v.DesignatedBridgeId \in Nat
    BY <1>1, Zenon DEF PriorityVector
  <2> QED BY <1>1, <2>1, Zenon DEF PriorityVector
<1>4. times \in Times
  <2>1. 0 \in 0..255
    BY SMT
  <2> QED BY <1>1, <2>1, HelloTimeTyped, Zenon DEF Times
<1> HIDE DEF flags, priority, times
<1>5. [type |-> "CONFIG", mstConfigId |-> 0, msti |-> << >>, flags |-> flags,
       priority |-> priority, times |-> times] \in Bpdu
  BY <1>2, <1>3, <1>4, ZeroesTyped, Zenon DEF Bpdu, BpduTypes
<1> QED BY <1>5, SendTyped, Zenon DEF txConfig, flags, priority, times

\* txTcn.
LEMMA txTcnTyped ==
  ASSUME NEW b \in Bridge, NEW p \in Ports
  PROVE  txTcn(b, p) \in Bridge
<1>1. [type |-> "TCN", mstConfigId |-> 0, msti |-> << >>, flags |-> ZeroFlags,
       priority |-> ZeroPriority, times |-> ZeroTimes] \in Bpdu
  BY ZeroesTyped, Zenon DEF Bpdu, BpduTypes
<1> QED BY <1>1, SendTyped, Zenon DEF txTcn

\* The MSTI messages of an MST BPDU.
LEMMA TxMstiTyped ==
  ASSUME NEW b \in Bridge, NEW p \in Ports, NEW t \in Trees
  PROVE  TxMsti(b, p, t) \in MstiMessage
<1> DEFINE x == b.pt[p][t]
           v == x.designatedPriority
<1>1. x \in PortTree
  BY BridgeParts, Zenon
<1>2. x.portId \in Nat /\ v \in PriorityVector /\ x.designatedTimes \in Times
  BY <1>1, PortTreeFields, Zenon
<1>3. b.tree[t].BridgeIdentifier \in Nat
  BY BridgeTreePart, Zenon DEF BridgeTree
<1>4. v.RegionalRootId \in Nat /\ v.InternalRootPathCost \in Nat
  BY <1>2, Zenon DEF PriorityVector
<1>5. x.designatedTimes.remainingHops \in 0..255
  BY <1>2, Zenon DEF Times
<1>6. Priority(b.tree[t].BridgeIdentifier) \in Nat /\ PortPriority(x.portId) \in Nat
  BY <1>2, <1>3, IdentifiersTyped, Zenon
<1>7. TxFlags(x) \in Flags
  BY <1>1, TxFlagsTyped, Zenon
<1> QED BY <1>4, <1>5, <1>6, <1>7, Zenon DEF TxMsti, MstiMessage

\* txRstp, for RST and MST BPDUs.
LEMMA txRstpTyped ==
  ASSUME NEW b \in Bridge, NEW p \in Ports
  PROVE  txRstp(b, p) \in Bridge
<1> DEFINE x     == b.pt[p][CIST]
           v     == x.designatedPriority
           times == [x.designatedTimes EXCEPT !.HelloTime = HelloTime(b, p)]
           msti  == [t \in 1..NumMsti |-> TxMsti(b, p, t)]
           external == [v EXCEPT !.InternalRootPathCost = 0, !.DesignatedBridgeId = 0]
           noHops   == [times EXCEPT !.remainingHops = 0]
           flags    == TxFlags(x)
<1>1. x \in PortTree
  BY BridgeParts, CistIsTree, Zenon
<1>2. v \in PriorityVector /\ x.designatedTimes \in Times
  BY <1>1, PortTreeFields, Zenon
<1>3. times \in Times
  BY <1>2, HelloTimeTyped, Zenon DEF Times
<1>4. noHops \in Times
  <2>1. 0 \in 0..255
    BY SMT
  <2> HIDE DEF times
  <2> QED BY <1>3, <2>1, Zenon DEF Times
<1>5. external \in PriorityVector
  BY <1>2, Zenon DEF PriorityVector
<1>6. msti \in Seq(MstiMessage)
  <2>1. NumMsti \in Nat /\ 1..NumMsti \subseteq Trees
    BY SizesAssumption, SMT DEF Trees
  <2>2. msti \in [1..NumMsti -> MstiMessage]
    BY <2>1, TxMstiTyped, Zenon
  <2> QED BY <2>1, <2>2, SMT
<1>7. flags \in Flags
  BY <1>1, TxFlagsTyped, Zenon
<1>8. b.mstConfigId \in Nat
  BY BridgeFields, Zenon
<1> HIDE DEF x, v, times, msti, external, noHops, flags
<1>9. [type |-> "MST", mstConfigId |-> b.mstConfigId, msti |-> msti,
       flags |-> flags, priority |-> v, times |-> times] \in Bpdu
  BY <1>2, <1>3, <1>6, <1>7, <1>8, Zenon DEF Bpdu, BpduTypes
<1>10. [type |-> "RST", mstConfigId |-> 0, msti |-> << >>,
        flags |-> flags, priority |-> external, times |-> noHops] \in Bpdu
  BY <1>4, <1>5, <1>7, ZeroesTyped, Zenon DEF Bpdu, BpduTypes
<1> QED
  <2>1. CASE b.ForceProtocolVersion >= MSTP
    BY <1>9, <2>1, SendTyped, Zenon DEF txRstp, x, v, times, msti, flags
  <2>2. CASE ~(b.ForceProtocolVersion >= MSTP)
    BY <1>10, <2>2, SendTyped, Zenon DEF txRstp, x, v, times, external, noHops, flags
  <2> QED BY <2>1, <2>2, Zenon

=============================================================================
