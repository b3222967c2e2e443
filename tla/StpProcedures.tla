--------------------------- MODULE StpProcedures ----------------------------
(***************************************************************************)
(* The conditions and parameters of the state machines (13.28), and their  *)
(* procedures (13.29; file stp_procedures.cpp), as functions from the      *)
(* bridge to the bridge they leave.                                        *)
(***************************************************************************)
EXTENDS StpTypes

-----------------------------------------------------------------------------
(***************************************************************************)
(* The conditions and parameters (13.28; file                              *)
(* stp_conditions_and_params.cpp).  b is the bridge, p a port, t a tree.   *)
(***************************************************************************)
\* STP_BRIDGE::treeCount: the MSTIs take part under MSTP only
TreesOf(b) == IF b.ForceProtocolVersion >= MSTP THEN Trees ELSE {CIST}
MstisOf(b) == TreesOf(b) \ {CIST}

rstpVersion(b) == b.ForceProtocolVersion >= 2

cist(t) == t = CIST

cistRootPort(b, p)       == b.pt[p][CIST].role = "ROOT"
cistDesignatedPort(b, p) == b.pt[p][CIST].role = "DESIGNATED"

FwdDelay(b, p)  == b.pt[p][CIST].designatedTimes.ForwardDelay
HelloTime(b, p) == b.pt[p][CIST].portTimes.HelloTime

\* variant: the times of the last message
MaxAgeOfMessage(b, p) == b.pt[p][CIST].msgTimes.MaxAge

MaxAge(b, p) == b.pt[p][CIST].designatedTimes.MaxAge

EdgeDelay(b, p) == IF b.port[p].operPointToPointMAC THEN MigrateTime ELSE MaxAge(b, p)

forwardDelay(b, p) == IF b.port[p].sendRSTP THEN HelloTime(b, p) ELSE FwdDelay(b, p)

\* no port of the tree waits for a role, for its role's machine, or for an update
RolesSettled(b, t) ==
  \A q \in Ports : /\ b.pt[q][t].selected
                   /\ b.pt[q][t].role = b.pt[q][t].selectedRole
                   /\ ~b.pt[q][t].updtInfo

\* variant: one port that is synced, or the Root Port, answers for all
allSyncedOne(b, p, t) ==
  RolesSettled(b, t) /\ \E q \in Ports : b.pt[q][t].role = "ROOT" \/ b.pt[q][t].synced

\* Condition b)3) (SPT) is not implemented by the code; a Backup port counts as Alternate.
allSynced(b, p, t) ==
  /\ RolesSettled(b, t)
  /\ \/ /\ b.pt[p][t].role \in {"ROOT", "ALTERNATE", "BACKUP"}
        /\ \A q \in Ports : b.pt[q][t].role = "ROOT" \/ b.pt[q][t].synced
     \/ /\ b.pt[p][t].role \in {"DESIGNATED", "MASTER"}
        /\ \A q \in Ports \ {p} : b.pt[q][t].synced

allTransmitReady(b, p) ==
  \A t \in TreesOf(b) : b.pt[p][t].selected /\ ~b.pt[p][t].updtInfo

\* the two loops below run over mstiCount trees whatever the protocol version
mstiDesignatedOrTCpropagatingRootPort(b, p) ==
  \E t \in Mstis : \/ b.pt[p][t].role = "DESIGNATED"
                   \/ b.pt[p][t].role = "ROOT" /\ b.pt[p][t].tcWhile # 0

mstiMasterPort(b, p) == \E t \in Mstis : b.pt[p][t].role = "MASTER"

rcvdAnyMsg(b, p) == \E t \in TreesOf(b) : b.pt[p][t].rcvdMsg

rcvdXstMsg(b, p, t) ==
  /\ b.pt[p][t].rcvdMsg
  /\ cist(t) \/ ~b.pt[p][CIST].rcvdMsg

updtXstInfo(b, p, t) == b.pt[p][t].updtInfo \/ b.pt[p][CIST].updtInfo

reRooted(b, p, t) == \A q \in Ports \ {p} : b.pt[q][t].rrWhile = 0

-----------------------------------------------------------------------------
(***************************************************************************)
(* Updates of one part of a bridge.                                        *)
(***************************************************************************)
\* port p's PORT_TREEs of the trees in S, each updated by Op
OnTrees(b, p, S, Op(_)) ==
  [b EXCEPT !.pt[p] = [t \in Trees |-> IF t \in S THEN Op(b.pt[p][t]) ELSE b.pt[p][t]]]

\* tree t's PORT_TREEs of the ports in S, each updated by Op
OnPorts(b, t, S, Op(_)) ==
  [b EXCEPT !.pt = [p \in Ports |-> IF p \in S THEN [b.pt[p] EXCEPT ![t] = Op(b.pt[p][t])]
                                    ELSE b.pt[p]]]

SetPortTree(b, p, t, x) == [b EXCEPT !.pt[p][t] = x]
SetPort(b, p, y)        == [b EXCEPT !.port[p] = y]

-----------------------------------------------------------------------------
(***************************************************************************)
(* Whole-tree and whole-port procedures.                                   *)
(***************************************************************************)
clearAllRcvdMsgs(b, p)      == OnTrees(b, p, TreesOf(b), LAMBDA x : [x EXCEPT !.rcvdMsg = FALSE])
clearReselectTree(b, t)     == OnPorts(b, t, Ports, LAMBDA x : [x EXCEPT !.reselect = FALSE])
setReRootTree(b, t)         == OnPorts(b, t, Ports, LAMBDA x : [x EXCEPT !.reRoot = TRUE])
setSyncTree(b, t)           == OnPorts(b, t, Ports, LAMBDA x : [x EXCEPT !.sync = TRUE])
setTcPropTree(b, p, t)      == OnPorts(b, t, Ports \ {p}, LAMBDA x : [x EXCEPT !.tcProp = TRUE])
updtRolesDisabledTree(b, t) == OnPorts(b, t, Ports, LAMBDA x : [x EXCEPT !.selectedRole = "DISABLED"])

setSelectedTree(b, t) ==
  IF \E p \in Ports : b.pt[p][t].reselect THEN b
  ELSE OnPorts(b, t, Ports, LAMBDA x : [x EXCEPT !.selected = TRUE])

syncMaster(b) ==
  [b EXCEPT !.pt = [p \in Ports |-> [t \in Trees |->
     IF b.port[p].infoInternal /\ t \in MstisOf(b)
     THEN [b.pt[p][t] EXCEPT !.agree = FALSE, !.agreed = FALSE, !.synced = FALSE, !.sync = TRUE]
     ELSE b.pt[p][t]]]]

-----------------------------------------------------------------------------
(***************************************************************************)
(* Reception of a BPDU.                                                    *)
(***************************************************************************)
fromSameRegion(b, p) ==
  /\ b.port[p].rcvdRSTP
  /\ b.receivedBpdu.type = "MST"
  /\ b.ForceProtocolVersion >= MSTP
  /\ b.receivedBpdu.mstConfigId = b.mstConfigId

updtBPDUVersion(b, p) ==
  IF b.receivedBpdu.type \in {"TCN", "CONFIG"}
  THEN SetPort(b, p, [b.port[p] EXCEPT !.rcvdSTP = TRUE])
  ELSE SetPort(b, p, [b.port[p] EXCEPT !.rcvdRSTP = TRUE])

\* the CIST part of rcvMsgs for a frame that carries CIST information
CistMessage(b, p) ==
  LET m        == b.receivedBpdu
      internal == b.port[p].rcvdInternal
      f        == m.flags
  IN  [b.pt[p][CIST] EXCEPT
        !.msgPriority = IF internal THEN m.priority
                        ELSE [m.priority EXCEPT !.InternalRootPathCost = 0,
                                                !.DesignatedBridgeId = m.priority.RegionalRootId],
        !.msgTimes    = IF internal THEN m.times
                        ELSE [m.times EXCEPT !.remainingHops = b.tree[CIST].BridgeTimes.remainingHops],
        !.msgFlags    = IF m.type = "CONFIG"
                        THEN [ZeroFlags EXCEPT !.Tc = f.Tc, !.TcAckOrMaster = f.TcAckOrMaster,
                                               !.PortRole = "DESIGNATED"]
                        ELSE [f EXCEPT !.TcAckOrMaster = FALSE]]

\* the part of rcvMsgs for the MSTI message of tree t; x is the PORT_TREE it updates
MstiReceived(b, t, x) ==
  LET m == b.receivedBpdu
      n == m.msti[t]
  IN  [x EXCEPT
        !.msgPriority = [@ EXCEPT
           !.RegionalRootId       = n.RegionalRootId,
           !.InternalRootPathCost = n.InternalRootPathCost,
           !.DesignatedBridgeId   = BridgeId(n.BridgePriority, Address(m.priority.DesignatedBridgeId)),
           !.DesignatedPortId     = PortId(n.PortPriority, PortNumber(m.priority.DesignatedPortId))],
        !.msgTimes = [@ EXCEPT !.remainingHops = n.RemainingHops],
        !.msgFlags = n.flags,
        !.rcvdMsg  = TRUE]

\* rcvdMsg is set for the CIST after every BPDU, a TCN included
rcvMsgs(b, p) ==
  LET m  == b.receivedBpdu
      b1 == IF m.type = "TCN"
            THEN OnTrees(SetPort(b, p, [b.port[p] EXCEPT !.rcvdTcn = TRUE]),
                         p, MstisOf(b), LAMBDA x : [x EXCEPT !.rcvdTc = TRUE])
            ELSE SetPortTree(b, p, CIST, CistMessage(b, p))
      b2 == SetPortTree(b1, p, CIST, [b1.pt[p][CIST] EXCEPT !.rcvdMsg = TRUE])
  IN  IF ~b.port[p].rcvdInternal THEN b2
      ELSE [b2 EXCEPT !.pt[p] = [t \in Trees |->
              IF t \in Mstis /\ t <= Len(m.msti) THEN MstiReceived(b, t, b2.pt[p][t])
              ELSE b2.pt[p][t]]]

\* the role and priority of the message held, against the port's own information
rcvInfo(b, p, t) ==
  LET x          == b.pt[p][t]
      designated == x.msgFlags.PortRole = "DESIGNATED"
      same       == x.msgPriority = x.portPriority
  IN  IF designated /\ (\/ IsSuperiorTo(x.msgPriority, x.portPriority)
                        \/ same /\ x.msgTimes # x.portTimes)
      THEN "SUPERIOR_DESIGNATED"
      ELSE IF designated /\ same /\ x.msgTimes = x.portTimes /\ x.infoIs = "RECEIVED"
      THEN "REPEATED_DESIGNATED"
      ELSE IF designated THEN "INFERIOR_DESIGNATED"
      ELSE IF /\ x.msgFlags.PortRole \in {"ROOT", "ALT_BACKUP"}
              /\ IsBetterThanOrSameAs(x.portPriority, x.msgPriority)
      THEN "INFERIOR_ROOT_ALTERNATE"
      ELSE "OTHER"

betterorsameInfo(x, newInfoIs) ==
  /\ x.infoIs = newInfoIs
  /\ \/ newInfoIs = "RECEIVED" /\ IsBetterThanOrSameAs(x.msgPriority, x.portPriority)
     \/ newInfoIs = "MINE" /\ IsBetterThanOrSameAs(x.designatedPriority, x.portPriority)

-----------------------------------------------------------------------------
(***************************************************************************)
(* Recording what the message says.  A CIST message from another region    *)
(* speaks for the MSTIs as well.                                           *)
(***************************************************************************)
SpeaksForMstis(b, p, t) == cist(t) /\ ~b.port[p].rcvdInternal

\* 13.29.15.a): the MSTI message came with the CIST information the port holds
SameCistRegionalRoot(b, p) ==
  LET x == b.pt[p][CIST]
  IN  /\ x.msgPriority.RootId = x.portPriority.RootId
      /\ x.msgPriority.ExternalRootPathCost = x.portPriority.ExternalRootPathCost
      /\ x.msgPriority.RegionalRootId = x.portPriority.RegionalRootId

recordAgreement(b, p, t) ==
  LET agrees == /\ b.port[p].operPointToPointMAC
                /\ b.pt[p][t].msgFlags.Agreement
                /\ IF cist(t) THEN rstpVersion(b) ELSE SameCistRegionalRoot(b, p)
      x  == [b.pt[p][t] EXCEPT !.agreed = agrees, !.proposing = @ /\ ~agrees]
      b1 == SetPortTree(b, p, t, x)
  IN  IF ~SpeaksForMstis(b, p, t) THEN b1
      ELSE OnTrees(b1, p, MstisOf(b),
                   LAMBDA y : [y EXCEPT !.agreed = x.agreed, !.proposing = x.proposing])

recordDispute(b, p, t) ==
  IF ~b.pt[p][t].msgFlags.Learning THEN b
  ELSE OnTrees(b, p, IF SpeaksForMstis(b, p, t) THEN TreesOf(b) ELSE {t},
               LAMBDA x : [x EXCEPT !.disputed = TRUE, !.agreed = FALSE])

recordProposal(b, p, t) ==
  IF ~(b.pt[p][t].msgFlags.PortRole = "DESIGNATED" /\ b.pt[p][t].msgFlags.Proposal) THEN b
  ELSE OnTrees(b, p, IF SpeaksForMstis(b, p, t) THEN TreesOf(b) ELSE {t},
               LAMBDA x : [x EXCEPT !.proposed = TRUE])

\* receivedBpduPort is p whenever a BPDU is being handled
recordMastered(b, p, t) ==
  SetPort(b, p, [b.port[p] EXCEPT !.mastered =
    IF cist(t) THEN @ /\ (b.port[p].rcvdInternal \/ MstisOf(b) = {})
    ELSE b.port[p].operPointToPointMAC /\ b.pt[p][t].msgFlags.TcAckOrMaster])

recordPriority(b, p, t) ==
  SetPortTree(b, p, t, [b.pt[p][t] EXCEPT !.portPriority = b.pt[p][t].msgPriority])

recordTimes(b, p, t) ==
  LET x == b.pt[p][t]
  IN  SetPortTree(b, p, t, [x EXCEPT !.portTimes =
        IF cist(t) THEN [x.msgTimes EXCEPT !.HelloTime = DefaultHelloTime]
        ELSE [x.portTimes EXCEPT !.remainingHops = x.msgTimes.remainingHops]])

setTcFlags(b, p, t) ==
  LET f  == b.pt[p][t].msgFlags
      b1 == IF cist(t) /\ f.TcAckOrMaster
            THEN SetPort(b, p, [b.port[p] EXCEPT !.rcvdTcAck = TRUE])
            ELSE b
  IN  IF ~f.Tc THEN b1
      ELSE OnTrees(b1, p, IF SpeaksForMstis(b, p, t) THEN TreesOf(b) ELSE {t},
                   LAMBDA x : [x EXCEPT !.rcvdTc = TRUE])

updtRcvdInfoWhile(b, p, t) ==
  LET times == b.pt[p][CIST].portTimes
      live  == IF b.port[p].rcvdInternal THEN times.remainingHops > 1
               ELSE times.MessageAge + 1 <= times.MaxAge
  IN  SetPortTree(b, p, t, [b.pt[p][t] EXCEPT !.rcvdInfoWhile =
        IF live THEN 3 * times.HelloTime ELSE 0])

-----------------------------------------------------------------------------
(***************************************************************************)
(* Topology change timers.                                                 *)
(***************************************************************************)
TcPeriod(b, p, t) ==
  IF b.port[p].sendRSTP THEN 1 + HelloTime(b, p)
  ELSE b.tree[t].rootTimes.MaxAge + b.tree[t].rootTimes.ForwardDelay

newTcDetected(b, p, t) ==
  IF b.pt[p][t].tcDetected # 0 THEN b
  ELSE SetPortTree(b, p, t, [b.pt[p][t] EXCEPT !.tcDetected = TcPeriod(b, p, t)])

\* newInfo for the CIST, newInfoMsti for the MSTIs
SetNewInfo(b, p, t) ==
  SetPort(b, p, IF cist(t) THEN [b.port[p] EXCEPT !.newInfo = TRUE]
                ELSE [b.port[p] EXCEPT !.newInfoMsti = TRUE])

newTcWhile(b, p, t) ==
  IF b.pt[p][t].tcWhile # 0 THEN b
  ELSE LET b1 == SetPortTree(b, p, t, [b.pt[p][t] EXCEPT !.tcWhile = TcPeriod(b, p, t)])
       IN  IF b.port[p].sendRSTP THEN SetNewInfo(b1, p, t) ELSE b1

-----------------------------------------------------------------------------
(***************************************************************************)
(* updtRolesTree (13.29.34): the root port, the vectors derived from it,   *)
(* and the role each port should have.                                     *)
(***************************************************************************)
NoPort == 0

RootPathPriority(b, p, t) ==
  LET v == b.pt[p][t].portPriority
  IN  IF cist(t) /\ ~b.port[p].rcvdInternal
      THEN [v EXCEPT !.ExternalRootPathCost = @ + b.port[p].ExternalPortPathCost,
                     !.RegionalRootId = b.tree[t].BridgeIdentifier]
      ELSE [v EXCEPT !.InternalRootPathCost = @ + b.pt[p][t].InternalPortPathCost]

SentByThisBridge(b, p, t) ==
  Address(b.pt[p][t].portPriority.DesignatedBridgeId) = Address(b.tree[t].BridgeIdentifier)

RootPortCandidates(b, t) ==
  {p \in Ports : /\ b.pt[p][t].infoIs = "RECEIVED"
                 /\ ~SentByThisBridge(b, p, t)
                 /\ IsBetterThan(RootPathPriority(b, p, t), b.tree[t].BridgePriority)}

\* p wins over q: the better root path, the better port identifier on a tie
BetterRootPort(b, p, q, t) ==
  LET v == RootPathPriority(b, p, t)
      w == RootPathPriority(b, q, t)
  IN  IsBetterThan(v, w) \/ (v = w /\ b.pt[p][t].portId < b.pt[q][t].portId)

BestCandidates(b, t) ==
  {p \in RootPortCandidates(b, t) :
     \A q \in RootPortCandidates(b, t) \ {p} : BetterRootPort(b, p, q, t)}

\* port identifiers are all different, so the best candidate is one
RootPort(b, t) ==
  IF BestCandidates(b, t) = {} THEN NoPort ELSE CHOOSE p \in BestCandidates(b, t) : TRUE

RootTimes(b, p, t) ==
  LET times == b.pt[p][t].portTimes
  IN  IF b.port[p].rcvdInternal
      THEN [times EXCEPT !.remainingHops = (@ + 255) % 256]
      ELSE [times EXCEPT !.MessageAge = @ + 1]

DesignatedPriority(b, p, t, rootPriority) ==
  LET id == b.tree[t].BridgeIdentifier
  IN  [rootPriority EXCEPT !.DesignatedBridgeId = id,
                           !.DesignatedPortId   = b.pt[p][t].portId,
                           !.RegionalRootId     = IF cist(t) /\ ~b.port[p].sendRSTP THEN id ELSE @]

\* clauses f) to o) for port p; the designated times of every port are the root times
WithSelectedRole(b, p, t, root) ==
  LET x     == b.pt[p][t]
      c     == b.pt[p][CIST]
      stale == x.portPriority # x.designatedPriority \/ x.portTimes # x.designatedTimes
      external == ~cist(t) /\ c.infoIs = "RECEIVED" /\ ~b.port[p].infoInternal
      As(role, update) == [x EXCEPT !.selectedRole = role, !.updtInfo = update]
  IN  IF x.infoIs = "DISABLED" THEN As("DISABLED", x.updtInfo)
      ELSE IF external
      THEN As(IF c.selectedRole = "ROOT" THEN "MASTER"
              ELSE IF c.selectedRole = "ALTERNATE" THEN "ALTERNATE" ELSE x.selectedRole,
              x.updtInfo \/ stale)
      ELSE IF c.infoIs = "DISABLED" THEN x
      ELSE IF x.infoIs = "AGED" THEN As("DESIGNATED", TRUE)
      ELSE IF x.infoIs = "MINE" THEN As("DESIGNATED", x.updtInfo \/ stale)
      ELSE IF p = root THEN As("ROOT", FALSE)
      ELSE IF IsBetterThan(x.designatedPriority, x.portPriority) THEN As("DESIGNATED", TRUE)
      ELSE IF SentByThisBridge(b, p, t) THEN As("BACKUP", FALSE)
      ELSE As("ALTERNATE", FALSE)

\* the vectors: rootPriority, rootTimes and rootPortId, then every port's designated ones
WithRoot(b, t, root) ==
  LET old      == b.tree[t]
      priority == IF root = NoPort THEN old.BridgePriority ELSE RootPathPriority(b, root, t)
      times    == IF root = NoPort THEN old.BridgeTimes ELSE RootTimes(b, root, t)
  IN  [b EXCEPT
        !.tree[t] = [@ EXCEPT !.rootPriority = priority, !.rootTimes = times,
                              !.rootPortId = IF root = NoPort THEN 0 ELSE b.pt[root][t].portId],
        !.pt = [p \in Ports |-> [b.pt[p] EXCEPT
                  ![t] = [@ EXCEPT !.designatedPriority = DesignatedPriority(b, p, t, priority),
                                   !.designatedTimes = times]]]]

RegionalRootChanged(old, new) ==
  /\ old.RegionalRootId # new.RegionalRootId
  /\ old.ExternalRootPathCost # 0 \/ new.ExternalRootPathCost # 0

updtRolesTree(b, t) ==
  LET root == RootPort(b, t)
      b1   == WithRoot(b, t, root)
      b2   == IF cist(t) /\ RegionalRootChanged(b.tree[t].rootPriority, b1.tree[t].rootPriority)
              THEN syncMaster(b1) ELSE b1
  IN  [b2 EXCEPT !.pt = [p \in Ports |-> [b2.pt[p] EXCEPT ![t] = WithSelectedRole(b2, p, t, root)]]]

-----------------------------------------------------------------------------
(***************************************************************************)
(* Transmission.  GetBpduPortRole asserts that the role is one of those    *)
(* below; compiled without assertions it answers MASTER, the value 0.      *)
(***************************************************************************)
GetBpduPortRole(role) ==
  CASE role \in {"ALTERNATE", "BACKUP"} -> "ALT_BACKUP"
    [] role \in {"ROOT", "DESIGNATED"}  -> role
    [] OTHER                            -> "MASTER"

TxFlags(x) ==
  [Tc |-> x.tcWhile # 0, Proposal |-> x.proposing, PortRole |-> GetBpduPortRole(x.role),
   Learning |-> x.learning, Forwarding |-> x.forwarding, Agreement |-> x.agree,
   TcAckOrMaster |-> FALSE]

Send(b, p, bpdu) == [b EXCEPT !.tx = Append(@, [port |-> p, bpdu |-> bpdu])]

txConfig(b, p) ==
  LET x == b.pt[p][CIST]
      v == x.designatedPriority
  IN  Send(b, p,
        [type |-> "CONFIG", mstConfigId |-> 0, msti |-> << >>,
         flags |-> [ZeroFlags EXCEPT !.Tc = x.tcWhile # 0, !.TcAckOrMaster = b.port[p].tcAck],
         priority |-> [v EXCEPT !.RegionalRootId = v.DesignatedBridgeId,
                                !.InternalRootPathCost = 0, !.DesignatedBridgeId = 0],
         times |-> [x.designatedTimes EXCEPT !.HelloTime = HelloTime(b, p), !.remainingHops = 0]])

txTcn(b, p) ==
  Send(b, p, [type |-> "TCN", mstConfigId |-> 0, msti |-> << >>, flags |-> ZeroFlags,
              priority |-> ZeroPriority, times |-> ZeroTimes])

\* port->master is never set, so neither is the Master flag
TxMsti(b, p, t) ==
  LET x == b.pt[p][t]
  IN  [flags |-> TxFlags(x),
       RegionalRootId       |-> x.designatedPriority.RegionalRootId,
       InternalRootPathCost |-> x.designatedPriority.InternalRootPathCost,
       BridgePriority       |-> Priority(b.tree[t].BridgeIdentifier),
       PortPriority         |-> PortPriority(x.portId),
       RemainingHops        |-> x.designatedTimes.remainingHops]

txRstp(b, p) ==
  LET x     == b.pt[p][CIST]
      v     == x.designatedPriority
      times == [x.designatedTimes EXCEPT !.HelloTime = HelloTime(b, p)]
  IN  Send(b, p,
        IF b.ForceProtocolVersion >= MSTP
        THEN [type |-> "MST", mstConfigId |-> b.mstConfigId,
              msti |-> [t \in 1..NumMsti |-> TxMsti(b, p, t)],
              flags |-> TxFlags(x), priority |-> v, times |-> times]
        ELSE [type |-> "RST", mstConfigId |-> 0, msti |-> << >>, flags |-> TxFlags(x),
              priority |-> [v EXCEPT !.InternalRootPathCost = 0, !.DesignatedBridgeId = 0],
              times |-> [times EXCEPT !.remainingHops = 0]])

=============================================================================
