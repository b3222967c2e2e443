------------------------ MODULE StateMachines_proofs ------------------------
(***************************************************************************)
(* What a transition of a state machine does to a bridge, and what not.    *)
(* First: it keeps the bridge a bridge, since the entry block does, and    *)
(* the state entered is one of the machine's.                              *)
(***************************************************************************)
EXTENDS StateMachines, StpProcedures_proofs

\* A tick of the timers of port p in the trees of S.
LEMMA TickedTreesTyped ==
  ASSUME NEW b \in Bridge, NEW p \in Ports, NEW S
  PROVE  OnTrees(b, p, S, TickedPortTree) \in Bridge
<1>1. ASSUME NEW n \in Nat
      PROVE  Tick(n) \in Nat
  BY SMT DEF Tick
<1>2. ASSUME NEW x \in PortTree
      PROVE  TickedPortTree(x) \in PortTree
  BY <1>1, PortTreeFields, ZenonT(60) DEF TickedPortTree, PortTree
<1>3. [t \in Trees |-> IF t \in S THEN TickedPortTree(b.pt[p][t]) ELSE b.pt[p][t]]
        \in [Trees -> PortTree]
  BY <1>2, BridgeParts, Zenon
<1> QED BY <1>3, SetRowTyped, Zenon DEF OnTrees

\* A transition of Port Timers.
LEMMA PortTimersTyped ==
  ASSUME NEW b \in Bridge, NEW p \in Ports
  PROVE  EnterPortTimers(b, p) \in Bridge
<1> DEFINE state == PortTimersNext(b, p)
           b1    == PortTimersEnter(b, p, state)
           b2    == SetPort(b, p, TickedPort(b.port[p]))
<1>1. b.port[p] \in Port
  BY BridgeParts, CistIsTree, Zenon
<1>2. ASSUME NEW n \in Nat
      PROVE  Tick(n) \in Nat
  BY SMT DEF Tick
<1>3. TickedPort(b.port[p]) \in Port
  BY <1>1, <1>2, PortFields, ZenonT(60) DEF TickedPort, Port
<1>4. b2 \in Bridge
  BY <1>3, SetPortTyped, Zenon
<1> HIDE DEF b2
<1>7. OnTrees(b2, p, TreesOf(b), TickedPortTree) \in Bridge
  BY <1>4, TickedTreesTyped, Zenon
<1>8. [b.port[p] EXCEPT !.tick = FALSE] \in Port
  BY <1>1, ZenonT(60) DEF Port
<1>9. b1 \in Bridge
  BY <1>7, <1>8, SetPortTyped, Zenon DEF PortTimersEnter, b2
<1>10. state \in PortTimersStates
  BY Zenon DEF PortTimersNext, PortTimersStates
<1> HIDE DEF state, b1
<1>11. [b1.port[p] EXCEPT !.portTimersState = state] \in Port
  <2>1. b1.port[p] \in Port
    BY <1>9, BridgeParts, CistIsTree, Zenon
  <2> QED BY <1>10, <2>1, ZenonT(60) DEF Port
<1> QED BY <1>9, <1>11, SetPortTyped, Zenon DEF EnterPortTimers, state, b1

\* Entry blocks of Port Protocol Migration.
LEMMA ProtocolMigrationEnterTyped ==
  ASSUME NEW b \in Bridge, NEW p \in Ports, NEW state
  PROVE  ProtocolMigrationEnter(b, p, state) \in Bridge
<1>1. b.port[p] \in Port
  BY BridgeParts, CistIsTree, Zenon
<1>2. rstpVersion(b) \in BOOLEAN
  <2>1. ASSUME NEW v \in Versions
        PROVE  (v >= 2) \in BOOLEAN
    BY SMT DEF Versions, LEGACY_STP, RSTP, MSTP
  <2> QED BY <2>1, BridgeFields, Zenon DEF rstpVersion
<1>3. MigrateTime \in Nat
  BY TimesAssumption, SMT
<1>4. [b.port[p] EXCEPT !.sendRSTP = rstpVersion(b), !.mDelayWhile = MigrateTime] \in Port
  BY <1>1, <1>2, <1>3, ZenonT(60) DEF Port
<1>5. [b.port[p] EXCEPT !.sendRSTP = FALSE, !.mDelayWhile = MigrateTime] \in Port
  BY <1>1, <1>3, ZenonT(60) DEF Port
<1>6. [b.port[p] EXCEPT !.rcvdRSTP = FALSE, !.rcvdSTP = FALSE] \in Port
  BY <1>1, ZenonT(60) DEF Port
<1>7. CASE state = "CHECKING_RSTP"
  BY <1>4, <1>7, SetPortTyped, Zenon DEF ProtocolMigrationEnter
<1>8. CASE state = "SELECTING_STP"
  BY <1>5, <1>8, SetPortTyped, Zenon DEF ProtocolMigrationEnter
<1>9. CASE state \notin {"CHECKING_RSTP", "SELECTING_STP"}
  BY <1>6, <1>9, SetPortTyped, Zenon DEF ProtocolMigrationEnter
<1> QED BY <1>7, <1>8, <1>9, Zenon

\* A transition of Port Protocol Migration.
LEMMA ProtocolMigrationTyped ==
  ASSUME NEW b \in Bridge, NEW p \in Ports
  PROVE  EnterProtocolMigration(b, p) \in Bridge
<1> DEFINE state == ProtocolMigrationNext(b, p)
           b1    == ProtocolMigrationEnter(b, p, state)
<1>1. state \in ProtocolStates
  BY SMT DEF ProtocolMigrationNext, ProtocolStates
<1>2. b1 \in Bridge
  BY ProtocolMigrationEnterTyped, Zenon
<1> HIDE DEF state, b1
<1>3. [b1.port[p] EXCEPT !.portProtocolMigrationState = state] \in Port
  <2>1. b1.port[p] \in Port
    BY <1>2, BridgeParts, CistIsTree, Zenon
  <2> QED BY <1>1, <2>1, ZenonT(60) DEF Port
<1> QED BY <1>2, <1>3, SetPortTyped, Zenon DEF EnterProtocolMigration, state, b1

\* Entry blocks of Port Receive.
LEMMA PortReceiveEnterTyped ==
  ASSUME NEW b \in Bridge, NEW p \in Ports, NEW state
  PROVE  PortReceiveEnter(b, p, state) \in Bridge
<1>1. MigrateTime \in Nat
  BY TimesAssumption, SMT
<1>2. ASSUME NEW y \in Port
      PROVE  /\ [y EXCEPT !.rcvdBpdu = FALSE, !.rcvdRSTP = FALSE, !.rcvdSTP = FALSE,
                          !.edgeDelayWhile = MigrateTime] \in Port
             /\ [y EXCEPT !.operEdge = FALSE, !.isolate = FALSE, !.rcvdBpdu = FALSE,
                          !.edgeDelayWhile = MigrateTime] \in Port
  BY <1>1, ZenonT(60) DEF Port
<1>3. CASE state = "DISCARD"
  <2> DEFINE c1 == SetPort(b, p, [b.port[p] EXCEPT !.rcvdBpdu = FALSE, !.rcvdRSTP = FALSE,
                                                   !.rcvdSTP = FALSE,
                                                   !.edgeDelayWhile = MigrateTime])
  <2>1. c1 \in Bridge
    BY <1>2, BridgeParts, CistIsTree, SetPortTyped, Zenon
  <2> HIDE DEF c1
  <2>2. PortReceiveEnter(b, p, state) = clearAllRcvdMsgs(c1, p)
    BY <1>3, Zenon DEF PortReceiveEnter, c1
  <2> QED BY <2>1, <2>2, clearAllRcvdMsgsTyped, Zenon
<1>4. CASE state # "DISCARD"
  <2> DEFINE c1 == updtBPDUVersion(b, p)
             c2 == SetPort(c1, p, [c1.port[p] EXCEPT !.rcvdInternal = fromSameRegion(c1, p)])
             c3 == rcvMsgs(c2, p)
             c4 == SetPort(c3, p, [c3.port[p] EXCEPT !.operEdge = FALSE, !.isolate = FALSE,
                                                     !.rcvdBpdu = FALSE,
                                                     !.edgeDelayWhile = MigrateTime])
  <2>1. PortReceiveEnter(b, p, state) = c4
    BY <1>4, Zenon DEF PortReceiveEnter
  <2>2. c1 \in Bridge
    BY updtBPDUVersionTyped, Zenon
  <2> HIDE DEF c1
  <2>3. fromSameRegion(c1, p) \in BOOLEAN
    BY Zenon DEF fromSameRegion
  <2>4. c1.port[p] \in Port
    BY <2>2, BridgeParts, CistIsTree, Zenon
  <2>5. [c1.port[p] EXCEPT !.rcvdInternal = fromSameRegion(c1, p)] \in Port
    BY <2>3, <2>4, ZenonT(60) DEF Port
  <2>6. c2 \in Bridge
    BY <2>2, <2>5, SetPortTyped, Zenon
  <2> HIDE DEF c2
  <2>7. c3 \in Bridge
    BY <2>6, rcvMsgsTyped, Zenon
  <2> HIDE DEF c3
  <2>8. c4 \in Bridge
    BY <1>2, <2>7, BridgeParts, CistIsTree, SetPortTyped, Zenon
  <2> QED BY <2>1, <2>8, Zenon
<1> QED BY <1>3, <1>4, Zenon

\* A transition of Port Receive.
LEMMA PortReceiveTyped ==
  ASSUME NEW b \in Bridge, NEW p \in Ports
  PROVE  EnterPortReceive(b, p) \in Bridge
<1> DEFINE state == PortReceiveNext(b, p)
           b1    == PortReceiveEnter(b, p, state)
<1>1. state \in PortReceiveStates
  BY Zenon DEF PortReceiveNext, PortReceiveStates
<1>2. b1 \in Bridge
  BY PortReceiveEnterTyped, Zenon
<1> HIDE DEF state, b1
<1>3. [b1.port[p] EXCEPT !.portReceiveState = state] \in Port
  <2>1. b1.port[p] \in Port
    BY <1>2, BridgeParts, CistIsTree, Zenon
  <2> QED BY <1>1, <2>1, ZenonT(60) DEF Port
<1> QED BY <1>2, <1>3, SetPortTyped, Zenon DEF EnterPortReceive, state, b1

\* Entry blocks of Bridge Detection.
LEMMA BridgeDetectionEnterTyped ==
  ASSUME NEW b \in Bridge, NEW p \in Ports, NEW state
  PROVE  BridgeDetectionEnter(b, p, state) \in Bridge
<1>1. b.port[p] \in Port
  BY BridgeParts, CistIsTree, Zenon
<1>2. [b.port[p] EXCEPT !.operEdge = state = "EDGE", !.isolate = state = "ISOLATED"] \in Port
  <2>1. (state = "EDGE") \in BOOLEAN /\ (state = "ISOLATED") \in BOOLEAN
    BY Zenon
  <2> QED BY <1>1, <2>1, ZenonT(60) DEF Port
<1> QED BY <1>2, SetPortTyped, Zenon DEF BridgeDetectionEnter

\* A transition of Bridge Detection.
LEMMA BridgeDetectionTyped ==
  ASSUME NEW b \in Bridge, NEW p \in Ports
  PROVE  EnterBridgeDetection(b, p) \in Bridge
<1> DEFINE state == BridgeDetectionNext(b, p)
           b1    == BridgeDetectionEnter(b, p, state)
<1>1. state \in BridgeDetectionStates
  BY SMT DEF BridgeDetectionNext, BridgeDetectionStates
<1>2. b1 \in Bridge
  BY BridgeDetectionEnterTyped, Zenon
<1> HIDE DEF state, b1
<1>3. [b1.port[p] EXCEPT !.bridgeDetectionState = state] \in Port
  <2>1. b1.port[p] \in Port
    BY <1>2, BridgeParts, CistIsTree, Zenon
  <2> QED BY <1>1, <2>1, ZenonT(60) DEF Port
<1> QED BY <1>2, <1>3, SetPortTyped, Zenon DEF EnterBridgeDetection, state, b1

-----------------------------------------------------------------------------
(***************************************************************************)
(* Port Information.                                                       *)
(***************************************************************************)
\* Reselect, the assignments that make the roles be selected anew.
LEMMA ReselectTyped ==
  ASSUME NEW x \in PortTree, NEW i \in InfoIs
  PROVE  Reselect(x, i) \in PortTree
  BY ZenonT(60) DEF Reselect, PortTree

\* The four values of infoIs.
LEMMA InfoIsValues ==
  "DISABLED" \in InfoIs /\ "MINE" \in InfoIs /\ "AGED" \in InfoIs /\ "RECEIVED" \in InfoIs
  BY Zenon DEF InfoIs

\* The message of port p and tree t is no longer pending.
LEMMA MessageDoneTyped ==
  ASSUME NEW b \in Bridge, NEW p \in Ports, NEW t \in Trees
  PROVE  MessageDone(b, p, t) \in Bridge
  BY BridgeParts, FlagUpdates, SetPortTreeTyped, Zenon DEF MessageDone

\* infoInternal follows rcvdInternal.
LEMMA NotingRegionTyped ==
  ASSUME NEW b \in Bridge, NEW p \in Ports
  PROVE  NotingRegion(b, p) \in Bridge
<1>1. b.port[p] \in Port /\ b.port[p].rcvdInternal \in BOOLEAN
  BY BridgeParts, CistIsTree, PortFields, Zenon
<1>2. [b.port[p] EXCEPT !.infoInternal = b.port[p].rcvdInternal] \in Port
  BY <1>1, ZenonT(60) DEF Port
<1> QED BY <1>2, SetPortTyped, Zenon DEF NotingRegion

\* Entry block of UPDATE: one assignment to the PORT_TREE, then newInfo.
LEMMA UpdatedPortTree ==
  ASSUME NEW b \in Bridge, NEW p \in Ports, NEW t \in Trees
  PROVE  \E x \in PortTree : EnterUpdate(b, p, t) = SetNewInfo(SetPortTree(b, p, t, x), p, t)
<1> DEFINE x      == b.pt[p][t]
           agreed == x.agreed /\ betterorsameInfo(x, "MINE")
           synced == x.synced /\ agreed
           new    == [x EXCEPT !.proposing = FALSE, !.proposed = FALSE, !.agreed = agreed,
                               !.synced = @ /\ agreed, !.portPriority = x.designatedPriority,
                               !.portTimes = x.designatedTimes, !.updtInfo = FALSE,
                               !.infoIs = "MINE"]
<1>1. x \in PortTree
  BY BridgeParts, Zenon
<1>2. x.designatedPriority \in PriorityVector /\ x.designatedTimes \in Times
  BY <1>1, PortTreeFields, Zenon
<1>3. agreed \in BOOLEAN /\ synced \in BOOLEAN
  BY Zenon
<1>4. new = [x EXCEPT !.proposing = FALSE, !.proposed = FALSE, !.agreed = agreed,
                      !.synced = synced, !.portPriority = x.designatedPriority,
                      !.portTimes = x.designatedTimes, !.updtInfo = FALSE, !.infoIs = "MINE"]
  OBVIOUS
<1>7. EnterUpdate(b, p, t) = SetNewInfo(SetPortTree(b, p, t, new), p, t)
  BY DEF EnterUpdate
<1> HIDE DEF x, agreed, synced, new
<1>5. new \in PortTree
  <2>1. [x EXCEPT !.proposing = FALSE, !.proposed = FALSE, !.agreed = agreed,
                  !.synced = synced, !.portPriority = x.designatedPriority,
                  !.portTimes = x.designatedTimes, !.updtInfo = FALSE, !.infoIs = "MINE"]
          \in PortTree
    BY <1>1, <1>2, <1>3, InfoIsValues, ZenonT(60) DEF PortTree
  <2> QED BY <1>4, <2>1, Zenon
<1> QED BY <1>5, <1>7, Zenon

\* Entry block of UPDATE.
LEMMA EnterUpdateTyped ==
  ASSUME NEW b \in Bridge, NEW p \in Ports, NEW t \in Trees
  PROVE  EnterUpdate(b, p, t) \in Bridge
<1>1. PICK x \in PortTree : EnterUpdate(b, p, t) = SetNewInfo(SetPortTree(b, p, t, x), p, t)
  BY UpdatedPortTree, Zenon
<1> QED BY <1>1, SetPortTreeTyped, SetNewInfoTyped, Zenon

\* Flags of a PORT_TREE that are cleared, or cleared under a condition.
LEMMA GuardedFlags ==
  ASSUME NEW x \in PortTree, NEW v
  PROVE  /\ [x EXCEPT !.agreed = FALSE, !.proposing = FALSE] \in PortTree
         /\ [x EXCEPT !.agree = @ /\ v] \in PortTree
         /\ [x EXCEPT !.synced = @ /\ v] \in PortTree
<1>1. [x EXCEPT !.agreed = FALSE, !.proposing = FALSE] \in PortTree
  BY ZenonT(60) DEF PortTree
<1>2. ASSUME NEW y \in BOOLEAN
      PROVE  [x EXCEPT !.agree = y] \in PortTree /\ [x EXCEPT !.synced = y] \in PortTree
  BY ZenonT(60) DEF PortTree
<1>3. (x.agree /\ v) \in BOOLEAN /\ (x.synced /\ v) \in BOOLEAN
  BY Zenon
<1> QED BY <1>1, <1>2, <1>3, Zenon

\* Entry block of SUPERIOR_DESIGNATED.
LEMMA EnterSuperiorDesignatedTyped ==
  ASSUME NEW b \in Bridge, NEW p \in Ports, NEW t \in Trees
  PROVE  EnterSuperiorDesignated(b, p, t) \in Bridge
<1> DEFINE a  == NotingRegion(b, p)
           b1 == SetPortTree(a, p, t, [b.pt[p][t] EXCEPT !.agreed = FALSE, !.proposing = FALSE])
           b2 == setTcFlags(recordProposal(b1, p, t), p, t)
           b3 == SetPortTree(b2, p, t,
                   [b2.pt[p][t] EXCEPT !.agree = @ /\ betterorsameInfo(b2.pt[p][t], "RECEIVED")])
           b4 == recordAgreement(b3, p, t)
           b5 == SetPortTree(b4, p, t, [b4.pt[p][t] EXCEPT !.synced = @ /\ b4.pt[p][t].agreed])
           b6 == updtRcvdInfoWhile(recordTimes(recordPriority(b5, p, t), p, t), p, t)
           b7 == SetPortTree(b6, p, t, Reselect(b6.pt[p][t], "RECEIVED"))
<1>1. ASSUME NEW x \in PortTree, NEW v
      PROVE  /\ [x EXCEPT !.agreed = FALSE, !.proposing = FALSE] \in PortTree
             /\ [x EXCEPT !.agree = @ /\ v] \in PortTree
             /\ [x EXCEPT !.synced = @ /\ v] \in PortTree
  BY GuardedFlags, Zenon
<1>3. a \in Bridge /\ b.pt[p][t] \in PortTree
  BY NotingRegionTyped, BridgeParts, Zenon
<1> HIDE DEF a
<1>4. b1 \in Bridge
  BY <1>1, <1>3, SetPortTreeTyped, Zenon
<1> HIDE DEF b1
<1>5. b2 \in Bridge
  BY <1>4, recordProposalTyped, setTcFlagsTyped, Zenon
<1> HIDE DEF b2
<1>6. b3 \in Bridge
  BY <1>1, <1>5, BridgeParts, SetPortTreeTyped, Zenon
<1> HIDE DEF b3
<1>7. b4 \in Bridge
  BY <1>6, recordAgreementTyped, Zenon
<1> HIDE DEF b4
<1>8. b5 \in Bridge
  BY <1>1, <1>7, BridgeParts, SetPortTreeTyped, Zenon
<1> HIDE DEF b5
<1>9. b6 \in Bridge
  BY <1>8, recordPriorityTyped, recordTimesTyped, updtRcvdInfoWhileTyped, Zenon
<1> HIDE DEF b6
<1>10. b7 \in Bridge
  BY <1>9, ReselectTyped, InfoIsValues, BridgeParts, SetPortTreeTyped, Zenon
<1> HIDE DEF b7
<1>11. EnterSuperiorDesignated(b, p, t) = MessageDone(b7, p, t)
  BY Zenon DEF EnterSuperiorDesignated, a, b1, b2, b3, b4, b5, b6, b7
<1> QED BY <1>10, <1>11, MessageDoneTyped, Zenon

\* Entry block of REPEATED_DESIGNATED.
LEMMA EnterRepeatedDesignatedTyped ==
  ASSUME NEW b \in Bridge, NEW p \in Ports, NEW t \in Trees
  PROVE  EnterRepeatedDesignated(b, p, t) \in Bridge
<1> DEFINE b1 == setTcFlags(recordProposal(NotingRegion(b, p), p, t), p, t)
<1>1. b1 \in Bridge
  BY NotingRegionTyped, recordProposalTyped, setTcFlagsTyped, Zenon
<1> HIDE DEF b1
<1>2. MessageDone(updtRcvdInfoWhile(recordAgreement(b1, p, t), p, t), p, t) \in Bridge
  BY <1>1, recordAgreementTyped, updtRcvdInfoWhileTyped, MessageDoneTyped, Zenon
<1> QED BY <1>2, Zenon DEF EnterRepeatedDesignated, b1

\* Entry block of RECEIVE.
LEMMA EnterReceiveTyped ==
  ASSUME NEW b \in Bridge, NEW p \in Ports, NEW t \in Trees
  PROVE  EnterReceive(b, p, t) \in Bridge
<1>1. [b.pt[p][t] EXCEPT !.rcvdInfo = rcvInfo(b, p, t)] \in PortTree
  <2>1. b.pt[p][t] \in PortTree /\ rcvInfo(b, p, t) \in RcvdInfos
    BY BridgeParts, rcvInfoTyped, Zenon
  <2> QED BY <2>1, ZenonT(60) DEF PortTree
<1> QED BY <1>1, SetPortTreeTyped, recordMasteredTyped, Zenon DEF EnterReceive

\* Every entry block of the Port Information machine.
LEMMA PortInformationEnterTyped ==
  ASSUME NEW b \in Bridge, NEW p \in Ports, NEW t \in Trees, NEW state
  PROVE  PortInformationEnter(b, p, t, state) \in Bridge
<1>1. b.pt[p][t] \in PortTree
  BY BridgeParts, Zenon
<1>2. [b.pt[p][t] EXCEPT !.rcvdMsg = FALSE, !.proposing = FALSE, !.proposed = FALSE,
                         !.agree = FALSE, !.agreed = FALSE, !.rcvdInfoWhile = 0] \in PortTree
  <2>1. 0 \in Nat
    BY SMT
  <2> QED BY <1>1, <2>1, ZenonT(60) DEF PortTree
<1>3. SetPortTree(b, p, t,
        Reselect([b.pt[p][t] EXCEPT !.rcvdMsg = FALSE, !.proposing = FALSE, !.proposed = FALSE,
                                    !.agree = FALSE, !.agreed = FALSE, !.rcvdInfoWhile = 0],
                 "DISABLED")) \in Bridge
  BY <1>2, ReselectTyped, InfoIsValues, SetPortTreeTyped, Zenon
<1>4. SetPortTree(b, p, t, Reselect(b.pt[p][t], "AGED")) \in Bridge
  BY <1>1, ReselectTyped, InfoIsValues, SetPortTreeTyped, Zenon
<1>5. /\ EnterUpdate(b, p, t) \in Bridge
      /\ EnterSuperiorDesignated(b, p, t) \in Bridge
      /\ EnterRepeatedDesignated(b, p, t) \in Bridge
      /\ EnterReceive(b, p, t) \in Bridge
      /\ MessageDone(b, p, t) \in Bridge
  BY EnterUpdateTyped, EnterSuperiorDesignatedTyped, EnterRepeatedDesignatedTyped,
     EnterReceiveTyped, MessageDoneTyped, Zenon
<1>6. MessageDone(recordDispute(b, p, t), p, t) \in Bridge
  BY recordDisputeTyped, MessageDoneTyped, Zenon
<1>7. MessageDone(setTcFlags(recordAgreement(b, p, t), p, t), p, t) \in Bridge
  BY recordAgreementTyped, setTcFlagsTyped, MessageDoneTyped, Zenon
<1> QED BY <1>3, <1>4, <1>5, <1>6, <1>7, Zenon DEF PortInformationEnter

\* A transition of the Port Information machine.
LEMMA PortInformationTyped ==
  ASSUME NEW b \in Bridge, NEW p \in Ports, NEW t \in Trees
  PROVE  EnterPortInformation(b, p, t) \in Bridge
<1> DEFINE state == PortInformationNext(b, p, t)
           b1    == PortInformationEnter(b, p, t, state)
<1>1. state \in InformationStates
  <2>1. b.pt[p][t].rcvdInfo \in RcvdInfos
    BY BridgeParts, PortTreeFields, Zenon
  <2> QED BY <2>1, ZenonT(60) DEF PortInformationNext, InformationStates, RcvdInfos
<1> HIDE DEF state
<1>2. b1 \in Bridge
  BY PortInformationEnterTyped, Zenon
<1> HIDE DEF b1
<1>3. [b1.pt[p][t] EXCEPT !.portInformationState = state] \in PortTree
  <2>1. b1.pt[p][t] \in PortTree
    BY <1>2, BridgeParts, Zenon
  <2> QED BY <1>1, <2>1, ZenonT(60) DEF PortTree
<1> QED BY <1>2, <1>3, SetPortTreeTyped, Zenon DEF EnterPortInformation, state, b1

-----------------------------------------------------------------------------
(***************************************************************************)
(* Port Role Transitions.                                                  *)
(***************************************************************************)
\* The state that gives a port its role is a state of the machine.
LEMMA EntryStateTyped ==
  ASSUME NEW role
  PROVE  EntryState(role) \in RoleTransitionStates
<1> USE DEF RoleTransitionStates
<1>1. CASE role \in {"DISABLED", "MASTER", "ROOT", "DESIGNATED", "ALTERNATE", "BACKUP"}
  BY <1>1, SMT DEF EntryState
<1>2. CASE role \notin {"DISABLED", "MASTER", "ROOT", "DESIGNATED", "ALTERNATE", "BACKUP"}
  BY <1>2, SMT DEF EntryState
<1> QED BY <1>1, <1>2, Zenon

\* The exits of the seven states that a port may stay in.
LEMMA ExitsTyped ==
  ASSUME NEW b, NEW p, NEW t
  PROVE  GuardedExit(b, p, t) \in RoleTransitionStates
<1>1. DisabledPortExit(b, p, t) \in RoleTransitionStates
  BY ZenonT(60) DEF DisabledPortExit, RoleTransitionStates
<1>2. MasterPortExit(b, p, t) \in RoleTransitionStates
  BY ZenonT(60) DEF MasterPortExit, RoleTransitionStates
<1>3. RootPortExit(b, p, t) \in RoleTransitionStates
  BY ZenonT(60) DEF RootPortExit, RoleTransitionStates
<1>4. DesignatedPortExit(b, p, t) \in RoleTransitionStates
  BY ZenonT(60) DEF DesignatedPortExit, RoleTransitionStates
<1>5. AlternatePortExit(b, p, t) \in RoleTransitionStates
  BY ZenonT(60) DEF AlternatePortExit, RoleTransitionStates
<1>6. {"NONE", "DISABLED_PORT", "ALTERNATE_PORT"} \subseteq RoleTransitionStates
  BY SMT DEF RoleTransitionStates
<1> QED BY <1>1, <1>2, <1>3, <1>4, <1>5, <1>6, ZenonT(60) DEF GuardedExit

\* What CheckConditions answers is a state of the machine.
LEMMA RoleTransitionsNextTyped ==
  ASSUME NEW b, NEW p, NEW t
  PROVE  RoleTransitionsNext(b, p, t) \in RoleTransitionStates
<1>1. {"NONE", "INIT_PORT", "DISABLE_PORT", "MASTER_PORT", "ROOT_PORT", "DESIGNATED_PORT",
       "ALTERNATE_PORT"} \subseteq RoleTransitionStates
  BY SMT DEF RoleTransitionStates
<1> QED BY <1>1, EntryStateTyped, ExitsTyped, ZenonT(60) DEF RoleTransitionsNext

\* The roles by name.
LEMMA RoleValues ==
  /\ "DISABLED" \in Roles /\ "MASTER" \in Roles /\ "ROOT" \in Roles /\ "DESIGNATED" \in Roles
  BY Zenon DEF Roles

\* The delays an entry block computes are natural numbers.
LEMMA DelaysTyped ==
  ASSUME NEW b \in Bridge, NEW p \in Ports
  PROVE  /\ 2 * HelloTime(b, p) \in Nat /\ 3 * HelloTime(b, p) \in Nat /\ 0 \in Nat
         /\ FwdDelay(b, p) \in Nat /\ MaxAge(b, p) \in Nat /\ forwardDelay(b, p) \in Nat
<1>1. ASSUME NEW h \in Nat
      PROVE  2 * h \in Nat /\ 3 * h \in Nat /\ 0 \in Nat
  BY SMT
<1> QED BY <1>1, HelloTimeTyped, Zenon

\* The entry blocks that touch one PORT_TREE only.
LEMMA EnteredPortTreeTyped ==
  ASSUME NEW b \in Bridge, NEW p \in Ports, NEW x \in PortTree, NEW state
  PROVE  EnteredPortTree(b, p, x, state) \in PortTree
<1> DEFINE double == 2 * HelloTime(b, p)
           triple == 3 * HelloTime(b, p)
           fwd    == FwdDelay(b, p)
           age    == MaxAge(b, p)
           delay  == forwardDelay(b, p)
           send   == b.port[p].sendRSTP
           rb     == IF x.disputed THEN triple ELSE x.rbWhile
           Disc(d) == [x EXCEPT !.learn = FALSE, !.forward = FALSE, !.disputed = FALSE,
                                !.fdWhile = d]
           back    == [x EXCEPT !.rbWhile = IF x.disputed THEN triple ELSE @]
<1>1. double \in Nat /\ triple \in Nat /\ fwd \in Nat /\ age \in Nat /\ delay \in Nat /\ 0 \in Nat
  BY DelaysTyped, Zenon
<1>2. x.rbWhile \in Nat /\ x.selectedRole \in Roles
  BY PortTreeFields, Zenon
<1>3. send \in BOOLEAN
  BY BridgeParts, CistIsTree, PortFields, Zenon
<1>4. rb \in Nat
  BY <1>1, <1>2, Zenon
<1> HIDE DEF double, triple, fwd, age, delay, send, rb
<1>5. /\ [x EXCEPT !.role = "DISABLED", !.learn = FALSE, !.forward = FALSE, !.synced = FALSE,
                   !.sync = TRUE, !.reRoot = TRUE, !.rrWhile = fwd, !.fdWhile = age,
                   !.rbWhile = 0] \in PortTree
      /\ [x EXCEPT !.role = "DISABLED", !.learn = FALSE, !.forward = FALSE] \in PortTree
  BY <1>1, RoleValues, ZenonT(60) DEF PortTree
<1>6. /\ [x EXCEPT !.fdWhile = age, !.synced = TRUE, !.rrWhile = 0, !.sync = FALSE,
                   !.reRoot = FALSE] \in PortTree
      /\ [x EXCEPT !.fdWhile = delay, !.synced = TRUE, !.rrWhile = 0, !.sync = FALSE,
                   !.reRoot = FALSE] \in PortTree
  BY <1>1, ZenonT(60) DEF PortTree
<1>7. /\ [x EXCEPT !.role = "MASTER"] \in PortTree
      /\ [x EXCEPT !.role = "ROOT", !.rrWhile = fwd] \in PortTree
      /\ [x EXCEPT !.role = "DESIGNATED"] \in PortTree
      /\ [x EXCEPT !.role = x.selectedRole, !.learn = FALSE, !.forward = FALSE] \in PortTree
      /\ [x EXCEPT !.rbWhile = double] \in PortTree
  BY <1>1, <1>2, RoleValues, ZenonT(60) DEF PortTree
<1>8. /\ Agrees(x) \in PortTree
      /\ [x EXCEPT !.proposed = FALSE, !.agree = TRUE] \in PortTree
      /\ [x EXCEPT !.rrWhile = 0, !.synced = TRUE, !.sync = FALSE] \in PortTree
      /\ [x EXCEPT !.synced = TRUE, !.sync = FALSE] \in PortTree
      /\ [x EXCEPT !.reRoot = FALSE] \in PortTree
  BY <1>1, ZenonT(60) DEF PortTree, Agrees
<1>9. /\ [x EXCEPT !.forward = TRUE, !.fdWhile = 0, !.agreed = send] \in PortTree
      /\ [x EXCEPT !.forward = TRUE, !.fdWhile = 0] \in PortTree
      /\ [x EXCEPT !.learn = TRUE, !.fdWhile = delay] \in PortTree
  BY <1>1, <1>3, ZenonT(60) DEF PortTree
<1>10. ASSUME NEW y \in PortTree, NEW d \in Nat
       PROVE  Discards(y, d) \in PortTree
  BY ZenonT(60) DEF PortTree, Discards
<1>11. [x EXCEPT !.rbWhile = IF x.disputed THEN triple ELSE @] \in PortTree
  <2>1. [x EXCEPT !.rbWhile = IF x.disputed THEN triple ELSE @] = [x EXCEPT !.rbWhile = rb]
    BY DEF rb
  <2>2. [x EXCEPT !.rbWhile = rb] \in PortTree
    BY <1>4, ZenonT(60) DEF PortTree
  <2> QED BY <2>1, <2>2, Zenon
<1>12. Discards(x, delay) \in PortTree
  BY <1>1, <1>10, Zenon
<1>13. Discards([x EXCEPT !.rbWhile = IF x.disputed THEN triple ELSE @], fwd) \in PortTree
  BY <1>1, <1>10, <1>11, Zenon
<1> QED BY <1>5, <1>6, <1>7, <1>8, <1>9, <1>12, <1>13, ZenonT(60)
        DEF EnteredPortTree, double, triple, fwd, age, delay, send

\* Entry block of the three PROPOSED states.
LEMMA EnterProposedTyped ==
  ASSUME NEW b \in Bridge, NEW p \in Ports, NEW t \in Trees
  PROVE  EnterProposed(b, p, t) \in Bridge
<1> DEFINE b1 == setSyncTree(b, t)
<1>1. b1 \in Bridge
  BY setSyncTreeTyped, Zenon
<1> HIDE DEF b1
<1>2. [b1.pt[p][t] EXCEPT !.proposed = FALSE] \in PortTree
  <2>1. b1.pt[p][t] \in PortTree
    BY <1>1, BridgeParts, Zenon
  <2> QED BY <2>1, ZenonT(60) DEF PortTree
<1> QED BY <1>1, <1>2, SetPortTreeTyped, Zenon DEF EnterProposed, b1

\* Entry block of DESIGNATED_PROPOSE.
LEMMA EnterDesignatedProposeTyped ==
  ASSUME NEW b \in Bridge, NEW p \in Ports, NEW t \in Trees
  PROVE  EnterDesignatedPropose(b, p, t) \in Bridge
<1> DEFINE b1 == SetPortTree(b, p, t, [b.pt[p][t] EXCEPT !.proposing = TRUE])
           b2 == SetPort(b1, p, [b1.port[p] EXCEPT !.edgeDelayWhile = EdgeDelay(b, p)])
<1>1. b1 \in Bridge
  <2>1. b.pt[p][t] \in PortTree
    BY BridgeParts, Zenon
  <2>2. [b.pt[p][t] EXCEPT !.proposing = TRUE] \in PortTree
    BY <2>1, ZenonT(60) DEF PortTree
  <2> QED BY <2>2, SetPortTreeTyped, Zenon
<1> HIDE DEF b1
<1>2. b2 \in Bridge
  <2>1. b1.port[p] \in Port /\ EdgeDelay(b, p) \in Nat
    BY <1>1, BridgeParts, CistIsTree, HelloTimeTyped, Zenon
  <2>2. [b1.port[p] EXCEPT !.edgeDelayWhile = EdgeDelay(b, p)] \in Port
    BY <2>1, ZenonT(60) DEF Port
  <2> QED BY <1>1, <2>2, SetPortTyped, Zenon
<1> HIDE DEF b2
<1> QED BY <1>1, <1>2, SetNewInfoTyped, Zenon DEF EnterDesignatedPropose, b1, b2

\* Every entry block of Port Role Transitions.
LEMMA RoleTransitionsEnterTyped ==
  ASSUME NEW b \in Bridge, NEW p \in Ports, NEW t \in Trees, NEW state
  PROVE  RoleTransitionsEnter(b, p, t, state) \in Bridge
<1> DEFINE own == SetPortTree(b, p, t, EnteredPortTree(b, p, b.pt[p][t], state))
<1>1. own \in Bridge
  BY BridgeParts, EnteredPortTreeTyped, SetPortTreeTyped, Zenon
<1> HIDE DEF own
<1>2. SetNewInfo(own, p, t) \in Bridge
  BY <1>1, SetNewInfoTyped, Zenon
<1> QED BY <1>1, <1>2, EnterProposedTyped, setReRootTreeTyped, EnterDesignatedProposeTyped, Zenon
        DEF RoleTransitionsEnter, own

\* A transition of the Port Role Transitions machine.
LEMMA RoleTransitionsTyped ==
  ASSUME NEW b \in Bridge, NEW p \in Ports, NEW t \in Trees
  PROVE  EnterRoleTransitions(b, p, t) \in Bridge
<1> DEFINE state == RoleTransitionsNext(b, p, t)
           b1    == RoleTransitionsEnter(b, p, t, state)
<1>1. state \in RoleTransitionStates
  BY RoleTransitionsNextTyped, Zenon
<1>3. b1 \in Bridge
  BY RoleTransitionsEnterTyped, Zenon
<1> HIDE DEF state, b1
<1>4. [b1.pt[p][t] EXCEPT !.portRoleTransitionsState = state] \in PortTree
  <2>1. b1.pt[p][t] \in PortTree
    BY <1>3, BridgeParts, Zenon
  <2> QED BY <1>1, <2>1, ZenonT(60) DEF PortTree
<1> QED BY <1>3, <1>4, SetPortTreeTyped, Zenon DEF EnterRoleTransitions, state, b1

-----------------------------------------------------------------------------
(***************************************************************************)
(* Port State Transition.                                                  *)
(***************************************************************************)
\* Every entry block of Port State Transition.
LEMMA StateTransitionEnterTyped ==
  ASSUME NEW b \in Bridge, NEW p \in Ports, NEW t \in Trees, NEW state
  PROVE  StateTransitionEnter(b, p, t, state) \in Bridge
<1>1. b.pt[p][t] \in PortTree
  BY BridgeParts, Zenon
<1>2. /\ [b.pt[p][t] EXCEPT !.learning = FALSE, !.forwarding = FALSE] \in PortTree
      /\ [b.pt[p][t] EXCEPT !.learning = TRUE] \in PortTree
      /\ [b.pt[p][t] EXCEPT !.forwarding = TRUE] \in PortTree
  BY <1>1, ZenonT(60) DEF PortTree
<1> QED BY <1>2, SetPortTreeTyped, Zenon DEF StateTransitionEnter

\* A transition of the Port State Transition machine.
LEMMA StateTransitionTyped ==
  ASSUME NEW b \in Bridge, NEW p \in Ports, NEW t \in Trees
  PROVE  EnterStateTransition(b, p, t) \in Bridge
<1> DEFINE state == StateTransitionNext(b, p, t)
           b1    == StateTransitionEnter(b, p, t, state)
<1>1. state \in StateTransitionStates
  BY ZenonT(60) DEF StateTransitionNext, StateTransitionStates
<1>4. b1 \in Bridge
  BY StateTransitionEnterTyped, Zenon
<1> HIDE DEF state, b1
<1>5. [b1.pt[p][t] EXCEPT !.portStateTransitionState = state] \in PortTree
  <2>1. b1.pt[p][t] \in PortTree
    BY <1>4, BridgeParts, Zenon
  <2> QED BY <1>1, <2>1, ZenonT(60) DEF PortTree
<1> QED BY <1>4, <1>5, SetPortTreeTyped, Zenon DEF EnterStateTransition, state, b1

-----------------------------------------------------------------------------
(***************************************************************************)
(* Topology Change.                                                        *)
(***************************************************************************)
\* The PORT_TREE and PORT assignments of the entry blocks.
LEMMA TopologyChangeUpdates ==
  ASSUME NEW x \in PortTree, NEW y \in Port, NEW v \in BOOLEAN
  PROVE  /\ [x EXCEPT !.tcDetected = 0, !.tcWhile = 0] \in PortTree
         /\ [x EXCEPT !.rcvdTc = FALSE, !.tcProp = FALSE] \in PortTree
         /\ [x EXCEPT !.rcvdTc = FALSE] \in PortTree
         /\ [x EXCEPT !.tcProp = FALSE] \in PortTree
         /\ [x EXCEPT !.tcWhile = 0] \in PortTree
         /\ [y EXCEPT !.tcAck = FALSE] \in Port
         /\ [y EXCEPT !.rcvdTcn = FALSE, !.rcvdTcAck = FALSE] \in Port
         /\ [y EXCEPT !.rcvdTcn = FALSE, !.tcAck = v] \in Port
         /\ [y EXCEPT !.rcvdTcAck = FALSE] \in Port
<1>1. 0 \in Nat
  BY SMT
<1>2. /\ [x EXCEPT !.tcDetected = 0, !.tcWhile = 0] \in PortTree
      /\ [x EXCEPT !.rcvdTc = FALSE, !.tcProp = FALSE] \in PortTree
      /\ [x EXCEPT !.rcvdTc = FALSE] \in PortTree
      /\ [x EXCEPT !.tcProp = FALSE] \in PortTree
      /\ [x EXCEPT !.tcWhile = 0] \in PortTree
  BY <1>1, ZenonT(60) DEF PortTree
<1>3. /\ [y EXCEPT !.tcAck = FALSE] \in Port
      /\ [y EXCEPT !.rcvdTcn = FALSE, !.rcvdTcAck = FALSE] \in Port
      /\ [y EXCEPT !.rcvdTcn = FALSE, !.tcAck = v] \in Port
      /\ [y EXCEPT !.rcvdTcAck = FALSE] \in Port
  BY ZenonT(60) DEF Port
<1> QED BY <1>2, <1>3, Zenon

\* Entry blocks of INACTIVE and LEARNING.
LEMMA EnterInactiveTyped ==
  ASSUME NEW b \in Bridge, NEW p \in Ports, NEW t \in Trees
  PROVE  EnterInactive(b, p, t) \in Bridge /\ EnterTcLearning(b, p, t) \in Bridge
<1> DEFINE b1 == SetPortTree(b, p, t, [b.pt[p][t] EXCEPT !.tcDetected = 0, !.tcWhile = 0])
           c1 == SetPortTree(b, p, t, [b.pt[p][t] EXCEPT !.rcvdTc = FALSE, !.tcProp = FALSE])
<1>1. b.pt[p][t] \in PortTree /\ b.port[p] \in Port /\ TRUE \in BOOLEAN
  BY BridgeParts, Zenon
<1>2. b1 \in Bridge /\ c1 \in Bridge
  BY <1>1, TopologyChangeUpdates, SetPortTreeTyped, Zenon
<1> HIDE DEF b1, c1
<1>3. b1.port[p] \in Port /\ c1.port[p] \in Port
  BY <1>2, BridgeParts, Zenon
<1>4. /\ SetPort(b1, p, [b1.port[p] EXCEPT !.tcAck = FALSE]) \in Bridge
      /\ SetPort(c1, p, [c1.port[p] EXCEPT !.rcvdTcn = FALSE, !.rcvdTcAck = FALSE]) \in Bridge
  BY <1>1, <1>2, <1>3, TopologyChangeUpdates, SetPortTyped, Zenon
<1> QED BY <1>2, <1>4, Zenon DEF EnterInactive, EnterTcLearning, b1, c1

\* Entry block of DETECTED.
LEMMA EnterDetectedTyped ==
  ASSUME NEW b \in Bridge, NEW p \in Ports, NEW t \in Trees
  PROVE  EnterDetected(b, p, t) \in Bridge
  BY newTcWhileTyped, setTcPropTreeTyped, newTcDetectedTyped, SetNewInfoTyped, Zenon
     DEF EnterDetected

\* Entry block of NOTIFIED_TC.
LEMMA EnterNotifiedTcTyped ==
  ASSUME NEW b \in Bridge, NEW p \in Ports, NEW t \in Trees
  PROVE  EnterNotifiedTc(b, p, t) \in Bridge
<1> DEFINE x   == b.pt[p][t]
           y   == b.port[p]
           ack == y.tcAck \/ x.role = "DESIGNATED"
           new == [y EXCEPT !.rcvdTcn = FALSE, !.tcAck = @ \/ x.role = "DESIGNATED"]
           b1  == SetPortTree(b, p, t, [x EXCEPT !.rcvdTc = FALSE])
           b2  == IF cist(t) THEN SetPort(b1, p, new) ELSE b1
<1>1. x \in PortTree /\ y \in Port /\ ack \in BOOLEAN
  BY BridgeParts, Zenon
<1>2. new = [y EXCEPT !.rcvdTcn = FALSE, !.tcAck = ack]
  OBVIOUS
<1>3. EnterNotifiedTc(b, p, t) = setTcPropTree(b2, p, t)
  BY DEF EnterNotifiedTc
<1> HIDE DEF ack, x, y, new
<1>4. new \in Port
  <2>1. [y EXCEPT !.rcvdTcn = FALSE, !.tcAck = ack] \in Port
    BY <1>1, TopologyChangeUpdates, Zenon
  <2> QED BY <1>2, <2>1, Zenon
<1>5. b1 \in Bridge
  BY <1>1, TopologyChangeUpdates, SetPortTreeTyped, Zenon
<1> HIDE DEF b1
<1>6. b2 \in Bridge
  BY <1>4, <1>5, SetPortTyped, Zenon
<1> QED BY <1>3, <1>6, setTcPropTreeTyped, Zenon

\* Entry blocks of PROPAGATING and ACKNOWLEDGED.
LEMMA EnterPropagatingTyped ==
  ASSUME NEW b \in Bridge, NEW p \in Ports, NEW t \in Trees
  PROVE  EnterPropagating(b, p, t) \in Bridge /\ EnterAcknowledged(b, p, t) \in Bridge
<1> DEFINE b1 == newTcWhile(b, p, t)
           c1 == SetPortTree(b, p, t, [b.pt[p][t] EXCEPT !.tcWhile = 0])
<1>1. b.pt[p][t] \in PortTree /\ b.port[p] \in Port /\ TRUE \in BOOLEAN
  BY BridgeParts, Zenon
<1>2. b1 \in Bridge /\ c1 \in Bridge
  BY <1>1, newTcWhileTyped, TopologyChangeUpdates, SetPortTreeTyped, Zenon
<1> HIDE DEF b1, c1
<1>3. b1.pt[p][t] \in PortTree
  BY <1>2, BridgeParts, Zenon
<1>4. /\ SetPortTree(b1, p, t, [b1.pt[p][t] EXCEPT !.tcProp = FALSE]) \in Bridge
      /\ SetPort(c1, p, [b.port[p] EXCEPT !.rcvdTcAck = FALSE]) \in Bridge
  BY <1>1, <1>2, <1>3, TopologyChangeUpdates, SetPortTreeTyped, SetPortTyped, Zenon
<1> QED BY <1>4, Zenon DEF EnterPropagating, EnterAcknowledged, b1, c1

\* Every entry block of Topology Change.
LEMMA TopologyChangeEnterTyped ==
  ASSUME NEW b \in Bridge, NEW p \in Ports, NEW t \in Trees, NEW state
  PROVE  TopologyChangeEnter(b, p, t, state) \in Bridge
  BY EnterInactiveTyped, EnterDetectedTyped, newTcWhileTyped, EnterNotifiedTcTyped,
     EnterPropagatingTyped, Zenon DEF TopologyChangeEnter

\* A transition of the Topology Change machine.
LEMMA TopologyChangeTyped ==
  ASSUME NEW b \in Bridge, NEW p \in Ports, NEW t \in Trees
  PROVE  EnterTopologyChange(b, p, t) \in Bridge
<1> DEFINE state == TopologyChangeNext(b, p, t)
           b1    == TopologyChangeEnter(b, p, t, state)
<1>1. state \in TopologyChangeStates
  <2>1. {"NONE", "ACTIVE", "INACTIVE", "LEARNING", "DETECTED", "NOTIFIED_TCN", "NOTIFIED_TC",
         "PROPAGATING", "ACKNOWLEDGED"} = TopologyChangeStates
    BY Zenon DEF TopologyChangeStates
  <2> QED BY <2>1, ZenonT(60) DEF TopologyChangeNext
<1> HIDE DEF state
<1>2. b1 \in Bridge
  BY TopologyChangeEnterTyped, Zenon
<1> HIDE DEF b1
<1>3. [b1.pt[p][t] EXCEPT !.topologyChangeState = state] \in PortTree
  <2>1. b1.pt[p][t] \in PortTree
    BY <1>2, BridgeParts, Zenon
  <2> QED BY <1>1, <2>1, ZenonT(60) DEF PortTree
<1> QED BY <1>2, <1>3, SetPortTreeTyped, Zenon DEF EnterTopologyChange, state, b1

-----------------------------------------------------------------------------
(***************************************************************************)
(* Port Role Selection and Port Transmit.                                  *)
(***************************************************************************)
\* Every entry block of Port Role Selection.
LEMMA RoleSelectionEnterTyped ==
  ASSUME NEW b \in Bridge, NEW t \in Trees, NEW state
  PROVE  RoleSelectionEnter(b, t, state) \in Bridge
  BY updtRolesDisabledTreeTyped, clearReselectTreeTyped, updtRolesTreeTyped,
     setSelectedTreeTyped, Zenon DEF RoleSelectionEnter

\* A transition of the Port Role Selection machine.
LEMMA RoleSelectionTyped ==
  ASSUME NEW b \in Bridge, NEW t \in Trees
  PROVE  EnterRoleSelection(b, t) \in Bridge
<1> DEFINE state == RoleSelectionNext(b, t)
           b1    == RoleSelectionEnter(b, t, state)
           z     == [b1.tree[t] EXCEPT !.portRoleSelectionState = state]
<1>1. state \in RoleSelectionStates
  BY Zenon DEF RoleSelectionNext, RoleSelectionStates
<1> HIDE DEF state
<1>2. b1 \in Bridge
  BY RoleSelectionEnterTyped, Zenon
<1> HIDE DEF b1
<1>3. z \in BridgeTree
  <2>1. b1.tree[t] \in BridgeTree
    BY <1>2, BridgeTreePart, Zenon
  <2> QED BY <1>1, <2>1, ZenonT(60) DEF BridgeTree
<1>4. EnterRoleSelection(b, t) = [b1 EXCEPT !.tree[t] = z]
  BY DEF EnterRoleSelection, state, b1
<1> HIDE DEF z
<1> QED BY <1>2, <1>3, <1>4, SetTreeTyped, Zenon

\* The PORT assignments of the entry blocks; n is txCount after them.
LEMMA TransmitUpdates ==
  ASSUME NEW y \in Port, NEW n \in Nat, NEW v \in BOOLEAN, NEW w \in BOOLEAN
  PROVE  /\ [y EXCEPT !.newInfo = TRUE, !.newInfoMsti = TRUE, !.txCount = n] \in Port
         /\ [y EXCEPT !.newInfo = v, !.newInfoMsti = w] \in Port
         /\ [y EXCEPT !.newInfo = FALSE, !.txCount = n, !.tcAck = FALSE] \in Port
         /\ [y EXCEPT !.newInfo = FALSE, !.txCount = n] \in Port
         /\ [y EXCEPT !.newInfo = FALSE, !.newInfoMsti = FALSE, !.txCount = n,
                      !.tcAck = FALSE] \in Port
         /\ [y EXCEPT !.helloWhen = n] \in Port
  BY ZenonT(60) DEF Port

\* Every entry block of the Port Transmit machine.
LEMMA PortTransmitEnterTyped ==
  ASSUME NEW b \in Bridge, NEW p \in Ports, NEW state
  PROVE  PortTransmitEnter(b, p, state) \in Bridge
<1> DEFINE y == b.port[p]
           n == y.txCount + 1
           v == y.newInfo \/ PeriodicInfo(b, p)
           w == y.newInfoMsti \/ mstiDesignatedOrTCpropagatingRootPort(b, p)
<1>1. y \in Port /\ y.txCount \in Nat
  BY BridgeParts, CistIsTree, PortFields, Zenon
<1>2. n \in Nat /\ 0 \in Nat /\ HelloTime(b, p) \in Nat
  <2>1. ASSUME NEW k \in Nat
        PROVE  k + 1 \in Nat /\ 0 \in Nat
    BY SMT
  <2> QED BY <1>1, <2>1, HelloTimeTyped, Zenon
<1>3. v \in BOOLEAN /\ w \in BOOLEAN
  BY Zenon
<1>4. PortTransmitEnter(b, p, state) =
        CASE state = "TRANSMIT_INIT" ->
               SetPort(b, p, [y EXCEPT !.newInfo = TRUE, !.newInfoMsti = TRUE, !.txCount = 0])
          [] state = "TRANSMIT_PERIODIC" ->
               SetPort(b, p, [y EXCEPT !.newInfo = v, !.newInfoMsti = w])
          [] state = "TRANSMIT_CONFIG" ->
               SetPort(txConfig(b, p), p,
                       [y EXCEPT !.newInfo = FALSE, !.txCount = n, !.tcAck = FALSE])
          [] state = "TRANSMIT_TCN" ->
               SetPort(txTcn(b, p), p, [y EXCEPT !.newInfo = FALSE, !.txCount = n])
          [] state = "TRANSMIT_RSTP" ->
               SetPort(txRstp(b, p), p,
                       [y EXCEPT !.newInfo = FALSE, !.newInfoMsti = FALSE, !.txCount = n,
                                 !.tcAck = FALSE])
          [] OTHER -> SetPort(b, p, [y EXCEPT !.helloWhen = HelloTime(b, p)])
  BY Zenon DEF PortTransmitEnter
<1> HIDE DEF y, n, v, w
<1>5. /\ [y EXCEPT !.newInfo = TRUE, !.newInfoMsti = TRUE, !.txCount = 0] \in Port
      /\ [y EXCEPT !.newInfo = v, !.newInfoMsti = w] \in Port
      /\ [y EXCEPT !.newInfo = FALSE, !.txCount = n, !.tcAck = FALSE] \in Port
      /\ [y EXCEPT !.newInfo = FALSE, !.txCount = n] \in Port
      /\ [y EXCEPT !.newInfo = FALSE, !.newInfoMsti = FALSE, !.txCount = n, !.tcAck = FALSE]
           \in Port
      /\ [y EXCEPT !.helloWhen = HelloTime(b, p)] \in Port
  BY <1>1, <1>2, <1>3, TransmitUpdates, Zenon
<1>6. txConfig(b, p) \in Bridge /\ txTcn(b, p) \in Bridge /\ txRstp(b, p) \in Bridge
  BY txConfigTyped, txTcnTyped, txRstpTyped, Zenon
<1> QED BY <1>4, <1>5, <1>6, SetPortTyped, ZenonT(60)

\* A transition of the Port Transmit machine.
LEMMA PortTransmitTyped ==
  ASSUME NEW b \in Bridge, NEW p \in Ports
  PROVE  EnterPortTransmit(b, p) \in Bridge
<1> DEFINE state == PortTransmitNext(b, p)
           b1    == PortTransmitEnter(b, p, state)
<1>1. state \in PortTransmitStates
  BY ZenonT(60) DEF PortTransmitNext, PortTransmitStates
<1> HIDE DEF state
<1>2. b1 \in Bridge
  BY PortTransmitEnterTyped, Zenon
<1> HIDE DEF b1
<1>3. [b1.port[p] EXCEPT !.portTransmitState = state] \in Port
  <2>1. b1.port[p] \in Port
    BY <1>2, BridgeParts, CistIsTree, Zenon
  <2> QED BY <1>1, <2>1, ZenonT(60) DEF Port
<1> QED BY <1>2, <1>3, SetPortTyped, Zenon DEF EnterPortTransmit, state, b1

-----------------------------------------------------------------------------
(***************************************************************************)
(* What the machines leave alone.  Only Port Timers and Port Transmit      *)
(* touch txCount, and none touches TxHoldCount or the point-to-point       *)
(* settings, which belong to the calls.                                    *)
(***************************************************************************)
\* the fields of a PORT that say what the link is, and those with the transmit budget
SameLink(y, z) ==
  /\ z.portEnabled = y.portEnabled
  /\ z.adminPointToPointMAC = y.adminPointToPointMAC
  /\ z.operPointToPointMAC = y.operPointToPointMAC
  /\ z.detectedPointToPointMAC = y.detectedPointToPointMAC

Same(y, z) == SameLink(y, z) /\ z.txCount = y.txCount

Keeps(b, c) == /\ c.TxHoldCount = b.TxHoldCount /\ c.tx = b.tx
               /\ \A q \in Ports : Same(b.port[q], c.port[q])

-----------------------------------------------------------------------------
(***************************************************************************)
(* Updates of one part of a bridge.                                        *)
(***************************************************************************)
\* Nothing done keeps everything, and so do two things done one after the other.
LEMMA KeepsTwice ==
  ASSUME NEW b, NEW c, NEW d, Keeps(b, c), Keeps(c, d)
  PROVE  Keeps(b, d) /\ Keeps(b, b)
  BY Zenon DEF Keeps, Same, SameLink

\* Updates of the trees and of the frames sent.
LEMMA TreesKeep ==
  ASSUME NEW b \in Bridge, NEW p \in Ports, NEW t \in Trees, NEW x
  PROVE  /\ Keeps(b, [b EXCEPT !.pt = x])
         /\ Keeps(b, [b EXCEPT !.pt[p] = x])
         /\ Keeps(b, SetPortTree(b, p, t, x))
         /\ Keeps(b, [b EXCEPT !.tree[t] = x])
         /\ Keeps(b, b)
<1>1. ASSUME NEW c \in {[b EXCEPT !.pt = x], [b EXCEPT !.pt[p] = x], SetPortTree(b, p, t, x),
                         [b EXCEPT !.tree[t] = x]}
      PROVE  c.port = b.port /\ c.TxHoldCount = b.TxHoldCount /\ c.tx = b.tx
  BY ZenonT(60) DEF Bridge, SetPortTree
<1>2. ASSUME NEW c, c.port = b.port, c.TxHoldCount = b.TxHoldCount, c.tx = b.tx
      PROVE  Keeps(b, c)
  BY <1>2, Zenon DEF Keeps, Same, SameLink
<1> QED BY <1>1, <1>2, Zenon

\* An update of one PORT.
LEMMA SetPortKeeps ==
  ASSUME NEW b \in Bridge, NEW p \in Ports, NEW y, Same(b.port[p], y)
  PROVE  Keeps(b, SetPort(b, p, y))
<1>1. /\ SetPort(b, p, y).TxHoldCount = b.TxHoldCount /\ SetPort(b, p, y).tx = b.tx
      /\ SetPort(b, p, y).port = [b.port EXCEPT ![p] = y]
  BY ZenonT(60) DEF Bridge, SetPort
<1>2. \A q \in Ports : [b.port EXCEPT ![p] = y][q] = IF q = p THEN y ELSE b.port[q]
  <2>1. b.port \in [Ports -> Port]
    BY Zenon DEF Bridge
  <2> QED BY <2>1, Zenon
<1>3. \A q \in Ports : Same(b.port[q], SetPort(b, p, y).port[q])
  <2>1. \A q \in Ports : Same(b.port[q], b.port[q])
    BY Zenon DEF Same, SameLink
  <2> QED BY <1>1, <1>2, <2>1, Zenon
<1> QED BY <1>1, <1>3, Zenon DEF Keeps

\* The assignments to a PORT that the procedures make.
LEMMA FieldsKept ==
  ASSUME NEW y \in Port, NEW v, NEW w
  PROVE  /\ Same(y, [y EXCEPT !.rcvdSTP = v])
         /\ Same(y, [y EXCEPT !.rcvdRSTP = v])
         /\ Same(y, [y EXCEPT !.rcvdTcn = v])
         /\ Same(y, [y EXCEPT !.rcvdTcAck = v])
         /\ Same(y, [y EXCEPT !.mastered = v])
         /\ Same(y, [y EXCEPT !.newInfo = v])
         /\ Same(y, [y EXCEPT !.newInfoMsti = v])
         /\ Same(y, [y EXCEPT !.rcvdInternal = v])
         /\ Same(y, [y EXCEPT !.infoInternal = v])
         /\ Same(y, [y EXCEPT !.edgeDelayWhile = v])
         /\ Same(y, [y EXCEPT !.tcAck = v])
         /\ Same(y, [y EXCEPT !.rcvdTcn = v, !.rcvdTcAck = w])
         /\ Same(y, [y EXCEPT !.rcvdTcn = v, !.tcAck = w])
         /\ Same(y, [y EXCEPT !.rcvdRSTP = v, !.rcvdSTP = w])
         /\ Same(y, [y EXCEPT !.sendRSTP = v, !.mDelayWhile = w])
         /\ Same(y, [y EXCEPT !.operEdge = v, !.isolate = w])
         /\ Same(y, [y EXCEPT !.portTimersState = v])
         /\ Same(y, [y EXCEPT !.portProtocolMigrationState = v])
         /\ Same(y, [y EXCEPT !.portReceiveState = v])
         /\ Same(y, [y EXCEPT !.bridgeDetectionState = v])
         /\ Same(y, [y EXCEPT !.portTransmitState = v])
  BY ZenonT(120) DEF Port, Same, SameLink

-----------------------------------------------------------------------------
(***************************************************************************)
(* Procedures that touch trees only, or the trees and a flag of the port.  *)
(***************************************************************************)
\* The procedures on whole trees.
LEMMA TreeProceduresKeep ==
  ASSUME NEW b \in Bridge, NEW p \in Ports, NEW t \in Trees
  PROVE  /\ Keeps(b, clearAllRcvdMsgs(b, p)) /\ Keeps(b, clearReselectTree(b, t))
         /\ Keeps(b, setReRootTree(b, t)) /\ Keeps(b, setSyncTree(b, t))
         /\ Keeps(b, setTcPropTree(b, p, t)) /\ Keeps(b, updtRolesDisabledTree(b, t))
         /\ Keeps(b, setSelectedTree(b, t)) /\ Keeps(b, syncMaster(b))
  BY TreesKeep, Zenon DEF clearAllRcvdMsgs, clearReselectTree, setReRootTree, setSyncTree,
     setTcPropTree, updtRolesDisabledTree, setSelectedTree, syncMaster, OnTrees, OnPorts

\* The parts of a message that are recorded in the trees.
LEMMA RecordsKeep ==
  ASSUME NEW b \in Bridge, NEW p \in Ports, NEW t \in Trees
  PROVE  /\ Keeps(b, recordDispute(b, p, t)) /\ Keeps(b, recordProposal(b, p, t))
         /\ Keeps(b, recordPriority(b, p, t)) /\ Keeps(b, recordTimes(b, p, t))
         /\ Keeps(b, updtRcvdInfoWhile(b, p, t)) /\ Keeps(b, newTcDetected(b, p, t))
         /\ Keeps(b, MessageDone(b, p, t))
  BY TreesKeep, Zenon DEF recordDispute, recordProposal, recordPriority, recordTimes,
     updtRcvdInfoWhile, newTcDetected, MessageDone, OnTrees

\* recordAgreement updates the tree of the message, then perhaps the MSTIs.
LEMMA recordAgreementKeeps ==
  ASSUME NEW b \in Bridge, NEW p \in Ports, NEW t \in Trees
  PROVE  Keeps(b, recordAgreement(b, p, t))
<1> DEFINE agrees == /\ b.port[p].operPointToPointMAC
                     /\ b.pt[p][t].msgFlags.Agreement
                     /\ IF cist(t) THEN rstpVersion(b) ELSE SameCistRegionalRoot(b, p)
           x   == [b.pt[p][t] EXCEPT !.agreed = agrees, !.proposing = @ /\ ~agrees]
           row == [s \in Trees |-> IF s \in MstisOf(b)
                                   THEN [SetPortTree(b, p, t, x).pt[p][s] EXCEPT
                                           !.agreed = x.agreed, !.proposing = x.proposing]
                                   ELSE SetPortTree(b, p, t, x).pt[p][s]]
<1>1. recordAgreement(b, p, t) \in {SetPortTree(b, p, t, x),
                                    [SetPortTree(b, p, t, x) EXCEPT !.pt[p] = row]}
  BY Zenon DEF recordAgreement, OnTrees
<1> HIDE DEF x, row
<1>2. Keeps(b, SetPortTree(b, p, t, x))
  BY TreesKeep, Zenon
<1>3. /\ [SetPortTree(b, p, t, x) EXCEPT !.pt[p] = row].port = b.port
      /\ [SetPortTree(b, p, t, x) EXCEPT !.pt[p] = row].TxHoldCount = b.TxHoldCount
      /\ [SetPortTree(b, p, t, x) EXCEPT !.pt[p] = row].tx = b.tx
  BY ZenonT(60) DEF Bridge, SetPortTree
<1>4. Keeps(b, [SetPortTree(b, p, t, x) EXCEPT !.pt[p] = row])
  BY <1>3, Zenon DEF Keeps, Same, SameLink
<1> QED BY <1>1, <1>2, <1>4, Zenon

\* The procedures that store one flag in the PORT.
LEMMA FlagProceduresKeep ==
  ASSUME NEW b \in Bridge, NEW p \in Ports, NEW t \in Trees
  PROVE  /\ Keeps(b, updtBPDUVersion(b, p)) /\ Keeps(b, recordMastered(b, p, t))
         /\ Keeps(b, SetNewInfo(b, p, t)) /\ Keeps(b, NotingRegion(b, p))
<1>1. b.port[p] \in Port
  BY BridgeParts, Zenon
<1> QED BY <1>1, FieldsKept, SetPortKeeps, Zenon
        DEF updtBPDUVersion, recordMastered, SetNewInfo, NotingRegion

\* setTcFlags
LEMMA setTcFlagsKeeps ==
  ASSUME NEW b \in Bridge, NEW p \in Ports, NEW t \in Trees
  PROVE  Keeps(b, setTcFlags(b, p, t))
<1> DEFINE f  == b.pt[p][t].msgFlags
           b1 == IF cist(t) /\ f.TcAckOrMaster
                 THEN SetPort(b, p, [b.port[p] EXCEPT !.rcvdTcAck = TRUE])
                 ELSE b
           S  == IF SpeaksForMstis(b, p, t) THEN TreesOf(b) ELSE {t}
           row == [s \in Trees |-> IF s \in S THEN [b1.pt[p][s] EXCEPT !.rcvdTc = TRUE]
                                   ELSE b1.pt[p][s]]
<1>1. b.port[p] \in Port /\ [b.port[p] EXCEPT !.rcvdTcAck = TRUE] \in Port
  <2>1. b.port[p] \in Port
    BY BridgeParts, Zenon
  <2> QED BY <2>1, ZenonT(60) DEF Port
<1>2. b1 \in Bridge /\ Keeps(b, b1)
  BY <1>1, FieldsKept, SetPortTyped, SetPortKeeps, TreesKeep, Zenon
<1>3. setTcFlags(b, p, t) = IF ~f.Tc THEN b1 ELSE [b1 EXCEPT !.pt[p] = row]
  BY DEF setTcFlags, OnTrees
<1> HIDE DEF b1, row
<1>4. Keeps(b1, [b1 EXCEPT !.pt[p] = row])
  BY <1>2, TreesKeep, Zenon
<1> QED BY <1>2, <1>3, <1>4, KeepsTwice, Zenon

\* newTcWhile
LEMMA newTcWhileKeeps ==
  ASSUME NEW b \in Bridge, NEW p \in Ports, NEW t \in Trees
  PROVE  Keeps(b, newTcWhile(b, p, t))
<1> DEFINE b1 == SetPortTree(b, p, t, [b.pt[p][t] EXCEPT !.tcWhile = TcPeriod(b, p, t)])
<1>1. b.pt[p][t] \in PortTree /\ TcPeriod(b, p, t) \in Nat
  BY BridgeParts, TcPeriodTyped, Zenon
<1>2. [b.pt[p][t] EXCEPT !.tcWhile = TcPeriod(b, p, t)] \in PortTree
  BY <1>1, ZenonT(60) DEF PortTree
<1>3. b1 \in Bridge /\ Keeps(b, b1)
  BY <1>2, SetPortTreeTyped, TreesKeep, Zenon
<1>4. Keeps(b1, SetNewInfo(b1, p, t))
  BY <1>3, FlagProceduresKeep, Zenon
<1>5. newTcWhile(b, p, t) \in {b, b1, SetNewInfo(b1, p, t)}
  BY Zenon DEF newTcWhile
<1> HIDE DEF b1
<1> QED BY <1>3, <1>4, <1>5, KeepsTwice, TreesKeep, Zenon

\* rcvMsgs
LEMMA rcvMsgsKeeps ==
  ASSUME NEW b \in Bridge, NEW p \in Ports
  PROVE  Keeps(b, rcvMsgs(b, p))
<1> DEFINE m  == b.receivedBpdu
           a  == SetPort(b, p, [b.port[p] EXCEPT !.rcvdTcn = TRUE])
           row1 == [s \in Trees |-> IF s \in MstisOf(b) THEN [a.pt[p][s] EXCEPT !.rcvdTc = TRUE]
                                    ELSE a.pt[p][s]]
           a1 == [a EXCEPT !.pt[p] = row1]
           b1 == IF m.type = "TCN" THEN a1 ELSE SetPortTree(b, p, CIST, CistMessage(b, p))
           b2 == SetPortTree(b1, p, CIST, [b1.pt[p][CIST] EXCEPT !.rcvdMsg = TRUE])
           row2 == [t \in Trees |->
                      IF t \in Mstis /\ t <= Len(m.msti) THEN MstiReceived(b, t, b2.pt[p][t])
                      ELSE b2.pt[p][t]]
<1>1. b.port[p] \in Port /\ [b.port[p] EXCEPT !.rcvdTcn = TRUE] \in Port
  <2>1. b.port[p] \in Port
    BY BridgeParts, CistIsTree, Zenon
  <2> QED BY <2>1, ZenonT(60) DEF Port
<1>2. a \in Bridge /\ Keeps(b, a)
  BY <1>1, FieldsKept, SetPortTyped, SetPortKeeps, Zenon
<1>3. rcvMsgs(b, p) = IF ~b.port[p].rcvdInternal THEN b2 ELSE [b2 EXCEPT !.pt[p] = row2]
  BY DEF rcvMsgs, OnTrees
<1> HIDE DEF a
<1>4. row1 \in [Trees -> PortTree]
  BY <1>2, BridgeParts, FlagUpdates, Zenon
<1> HIDE DEF row1
<1>5. a1 \in Bridge /\ Keeps(a, a1)
  BY <1>2, <1>4, SetRowTyped, TreesKeep, CistIsTree, Zenon
<1> HIDE DEF a1
<1>6. b1 \in Bridge /\ Keeps(b, b1)
  BY <1>2, <1>5, KeepsTwice, CistMessageTyped, CistIsTree, SetPortTreeTyped, TreesKeep, Zenon
<1> HIDE DEF b1
<1>7. b2 \in Bridge /\ Keeps(b1, b2)
  BY <1>6, CistIsTree, BridgeParts, FlagUpdates, SetPortTreeTyped, TreesKeep, Zenon
<1> HIDE DEF b2, row2
<1>8. Keeps(b2, [b2 EXCEPT !.pt[p] = row2])
  BY <1>7, TreesKeep, CistIsTree, Zenon
<1> QED BY <1>3, <1>6, <1>7, <1>8, KeepsTwice, Zenon

\* updtRolesTree: the vectors of the tree, then the roles of its ports.
LEMMA updtRolesTreeKeeps ==
  ASSUME NEW b \in Bridge, NEW t \in Trees
  PROVE  Keeps(b, updtRolesTree(b, t))
<1> DEFINE root == RootPort(b, t)
           b1   == WithRoot(b, t, root)
           b2   == IF cist(t) /\ RegionalRootChanged(b.tree[t].rootPriority,
                                                     b1.tree[t].rootPriority)
                   THEN syncMaster(b1) ELSE b1
           pt   == [p \in Ports |-> [b2.pt[p] EXCEPT ![t] = WithSelectedRole(b2, p, t, root)]]
<1>1. b1 \in Bridge
  BY RootPortTyped, WithRootTyped, Zenon
<1>2. ASSUME NEW z, NEW f
      PROVE  Keeps(b, [b EXCEPT !.tree[t] = z, !.pt = f])
  <2>1. /\ [b EXCEPT !.tree[t] = z, !.pt = f].port = b.port
        /\ [b EXCEPT !.tree[t] = z, !.pt = f].TxHoldCount = b.TxHoldCount
        /\ [b EXCEPT !.tree[t] = z, !.pt = f].tx = b.tx
    BY ZenonT(60) DEF Bridge
  <2> QED BY <2>1, Zenon DEF Keeps, Same, SameLink
<1>3. Keeps(b, b1)
  BY <1>2 DEF WithRoot
<1>4. updtRolesTree(b, t) = [b2 EXCEPT !.pt = pt]
  BY Zenon DEF updtRolesTree
<1> HIDE DEF b1
<1>5. 1 \in Ports
  BY SizesAssumption, SMT DEF Ports
<1>6. b2 \in Bridge /\ Keeps(b1, b2)
  BY <1>1, <1>5, syncMasterTyped, TreeProceduresKeep, TreesKeep, CistIsTree, Zenon
<1> HIDE DEF b2, pt
<1>7. Keeps(b2, [b2 EXCEPT !.pt = pt])
  BY <1>5, <1>6, TreesKeep, CistIsTree, Zenon
<1> QED BY <1>3, <1>4, <1>6, <1>7, KeepsTwice, Zenon

-----------------------------------------------------------------------------
(***************************************************************************)
(* Entry blocks.                                                           *)
(***************************************************************************)
\* One more update of a bridge that has been kept.
LEMMA OneMoreUpdate ==
  ASSUME NEW b, NEW c \in Bridge, Keeps(b, c), NEW p \in Ports, NEW t \in Trees,
         NEW x, NEW y, Same(c.port[p], y)
  PROVE  Keeps(b, SetPortTree(c, p, t, x)) /\ Keeps(b, SetPort(c, p, y))
<1>1. Keeps(c, SetPortTree(c, p, t, x)) /\ Keeps(c, SetPort(c, p, y))
  BY TreesKeep, SetPortKeeps, Zenon
<1> QED BY <1>1, KeepsTwice, Zenon

\* Entry blocks of Port Protocol Migration.
LEMMA ProtocolMigrationEnterKeeps ==
  ASSUME NEW b \in Bridge, NEW p \in Ports, NEW state
  PROVE  Keeps(b, ProtocolMigrationEnter(b, p, state))
<1>1. b.port[p] \in Port
  BY BridgeParts, CistIsTree, Zenon
<1> QED BY <1>1, FieldsKept, SetPortKeeps, Zenon DEF ProtocolMigrationEnter

\* Entry blocks of Bridge Detection.
LEMMA BridgeDetectionEnterKeeps ==
  ASSUME NEW b \in Bridge, NEW p \in Ports, NEW state
  PROVE  Keeps(b, BridgeDetectionEnter(b, p, state))
<1>1. b.port[p] \in Port
  BY BridgeParts, CistIsTree, Zenon
<1> QED BY <1>1, FieldsKept, SetPortKeeps, Zenon DEF BridgeDetectionEnter

\* Entry blocks of Port Receive.
LEMMA PortReceiveEnterKeeps ==
  ASSUME NEW b \in Bridge, NEW p \in Ports, NEW state
  PROVE  Keeps(b, PortReceiveEnter(b, p, state))
<1>1. MigrateTime \in Nat
  BY TimesAssumption, SMT
<1>2. ASSUME NEW y \in Port
      PROVE  /\ [y EXCEPT !.rcvdBpdu = FALSE, !.rcvdRSTP = FALSE, !.rcvdSTP = FALSE,
                          !.edgeDelayWhile = MigrateTime] \in Port
             /\ Same(y, [y EXCEPT !.rcvdBpdu = FALSE, !.rcvdRSTP = FALSE, !.rcvdSTP = FALSE,
                                  !.edgeDelayWhile = MigrateTime])
             /\ Same(y, [y EXCEPT !.operEdge = FALSE, !.isolate = FALSE, !.rcvdBpdu = FALSE,
                                  !.edgeDelayWhile = MigrateTime])
  BY <1>1, ZenonT(60) DEF Port, Same, SameLink
<1>3. CASE state = "DISCARD"
  <2> DEFINE c1 == SetPort(b, p, [b.port[p] EXCEPT !.rcvdBpdu = FALSE, !.rcvdRSTP = FALSE,
                                                   !.rcvdSTP = FALSE,
                                                   !.edgeDelayWhile = MigrateTime])
  <2>1. PortReceiveEnter(b, p, state) = clearAllRcvdMsgs(c1, p)
    BY <1>3, Zenon DEF PortReceiveEnter
  <2>2. c1 \in Bridge /\ Keeps(b, c1)
    BY <1>2, BridgeParts, CistIsTree, SetPortTyped, SetPortKeeps, Zenon
  <2> HIDE DEF c1
  <2> QED BY <2>1, <2>2, CistIsTree, TreeProceduresKeep, KeepsTwice, Zenon
<1>4. CASE state # "DISCARD"
  <2> DEFINE c1 == updtBPDUVersion(b, p)
             c2 == SetPort(c1, p, [c1.port[p] EXCEPT !.rcvdInternal = fromSameRegion(c1, p)])
             c3 == rcvMsgs(c2, p)
             c4 == SetPort(c3, p, [c3.port[p] EXCEPT !.operEdge = FALSE, !.isolate = FALSE,
                                                     !.rcvdBpdu = FALSE,
                                                     !.edgeDelayWhile = MigrateTime])
  <2>1. PortReceiveEnter(b, p, state) = c4
    BY <1>4, Zenon DEF PortReceiveEnter
  <2>2. c1 \in Bridge /\ Keeps(b, c1)
    BY updtBPDUVersionTyped, CistIsTree, FlagProceduresKeep, Zenon
  <2> HIDE DEF c1
  <2>3. fromSameRegion(c1, p) \in BOOLEAN
    BY Zenon DEF fromSameRegion
  <2>4. c1.port[p] \in Port
    BY <2>2, BridgeParts, CistIsTree, Zenon
  <2>5. [c1.port[p] EXCEPT !.rcvdInternal = fromSameRegion(c1, p)] \in Port
    BY <2>3, <2>4, ZenonT(60) DEF Port
  <2>6. c2 \in Bridge /\ Keeps(b, c2)
    BY <2>2, <2>4, <2>5, FieldsKept, SetPortTyped, OneMoreUpdate, CistIsTree, Zenon
  <2> HIDE DEF c2
  <2>7. c3 \in Bridge /\ Keeps(b, c3)
    BY <2>6, rcvMsgsTyped, rcvMsgsKeeps, KeepsTwice, Zenon
  <2> HIDE DEF c3
  <2>8. Keeps(b, c4)
    BY <1>2, <2>7, BridgeParts, CistIsTree, OneMoreUpdate, Zenon
  <2> QED BY <2>1, <2>8, Zenon
<1> QED BY <1>3, <1>4, Zenon

\* Entry block of UPDATE.
LEMMA EnterUpdateKeeps ==
  ASSUME NEW b \in Bridge, NEW p \in Ports, NEW t \in Trees
  PROVE  Keeps(b, EnterUpdate(b, p, t))
<1>1. ASSUME NEW x \in PortTree
      PROVE  Keeps(b, SetNewInfo(SetPortTree(b, p, t, x), p, t))
  <2> DEFINE c == SetPortTree(b, p, t, x)
  <2>1. c \in Bridge /\ Keeps(b, c)
    BY SetPortTreeTyped, TreesKeep, Zenon
  <2> HIDE DEF c
  <2>2. Keeps(b, SetNewInfo(c, p, t))
    BY <2>1, FlagProceduresKeep, KeepsTwice, Zenon
  <2> QED BY <2>2, Zenon DEF c
<1>2. PICK x \in PortTree : EnterUpdate(b, p, t) = SetNewInfo(SetPortTree(b, p, t, x), p, t)
  BY UpdatedPortTree, Zenon
<1> QED BY <1>1, <1>2, Zenon

\* Entry block of SUPERIOR_DESIGNATED.
LEMMA EnterSuperiorDesignatedKeeps ==
  ASSUME NEW b \in Bridge, NEW p \in Ports, NEW t \in Trees
  PROVE  Keeps(b, EnterSuperiorDesignated(b, p, t))
<1> DEFINE a  == NotingRegion(b, p)
           b1 == SetPortTree(a, p, t, [b.pt[p][t] EXCEPT !.agreed = FALSE, !.proposing = FALSE])
           c2 == recordProposal(b1, p, t)
           b2 == setTcFlags(c2, p, t)
           b3 == SetPortTree(b2, p, t,
                   [b2.pt[p][t] EXCEPT !.agree = @ /\ betterorsameInfo(b2.pt[p][t], "RECEIVED")])
           b4 == recordAgreement(b3, p, t)
           b5 == SetPortTree(b4, p, t, [b4.pt[p][t] EXCEPT !.synced = @ /\ b4.pt[p][t].agreed])
           c5 == recordPriority(b5, p, t)
           d5 == recordTimes(c5, p, t)
           b6 == updtRcvdInfoWhile(d5, p, t)
           b7 == SetPortTree(b6, p, t, Reselect(b6.pt[p][t], "RECEIVED"))
<1>1. ASSUME NEW x \in PortTree, NEW v
      PROVE  /\ [x EXCEPT !.agreed = FALSE, !.proposing = FALSE] \in PortTree
             /\ [x EXCEPT !.agree = @ /\ v] \in PortTree
             /\ [x EXCEPT !.synced = @ /\ v] \in PortTree
  BY GuardedFlags, Zenon
<1>2. EnterSuperiorDesignated(b, p, t) = MessageDone(b7, p, t)
  BY Zenon DEF EnterSuperiorDesignated
<1>3. a \in Bridge /\ Keeps(b, a) /\ b.pt[p][t] \in PortTree
  BY NotingRegionTyped, FlagProceduresKeep, BridgeParts, Zenon
<1> HIDE DEF a
<1>4. b1 \in Bridge /\ Keeps(a, b1)
  BY <1>1, <1>3, SetPortTreeTyped, TreesKeep, Zenon
<1> HIDE DEF b1
<1>5. c2 \in Bridge /\ Keeps(b1, c2)
  BY <1>4, recordProposalTyped, RecordsKeep, Zenon
<1> HIDE DEF c2
<1>6. b2 \in Bridge /\ Keeps(c2, b2)
  BY <1>5, setTcFlagsTyped, setTcFlagsKeeps, Zenon
<1> HIDE DEF b2
<1>7. b3 \in Bridge /\ Keeps(b2, b3)
  BY <1>1, <1>6, BridgeParts, SetPortTreeTyped, TreesKeep, Zenon
<1> HIDE DEF b3
<1>8. b4 \in Bridge /\ Keeps(b3, b4)
  BY <1>7, recordAgreementTyped, recordAgreementKeeps, Zenon
<1> HIDE DEF b4
<1>9. b5 \in Bridge /\ Keeps(b4, b5)
  BY <1>1, <1>8, BridgeParts, SetPortTreeTyped, TreesKeep, Zenon
<1> HIDE DEF b5
<1>10. c5 \in Bridge /\ Keeps(b5, c5)
  BY <1>9, recordPriorityTyped, RecordsKeep, Zenon
<1> HIDE DEF c5
<1>11. d5 \in Bridge /\ Keeps(c5, d5)
  BY <1>10, recordTimesTyped, RecordsKeep, Zenon
<1> HIDE DEF d5
<1>12. b6 \in Bridge /\ Keeps(d5, b6)
  BY <1>11, updtRcvdInfoWhileTyped, RecordsKeep, Zenon
<1> HIDE DEF b6
<1>13. b7 \in Bridge /\ Keeps(b6, b7)
  BY <1>12, ReselectTyped, InfoIsValues, BridgeParts, SetPortTreeTyped, TreesKeep, Zenon
<1> HIDE DEF b7
<1>14. Keeps(b7, MessageDone(b7, p, t))
  BY <1>13, RecordsKeep, Zenon
<1>15. Keeps(b, b3)
  <2>1. Keeps(b, b1)
    BY <1>3, <1>4, KeepsTwice, Zenon
  <2>2. Keeps(b, c2)
    BY <2>1, <1>5, KeepsTwice, Zenon
  <2>3. Keeps(b, b2)
    BY <2>2, <1>6, KeepsTwice, Zenon
  <2> QED BY <2>3, <1>7, KeepsTwice, Zenon
<1>16. Keeps(b, d5)
  <2>1. Keeps(b, b4)
    BY <1>8, <1>15, KeepsTwice, Zenon
  <2>2. Keeps(b, b5)
    BY <2>1, <1>9, KeepsTwice, Zenon
  <2>3. Keeps(b, c5)
    BY <2>2, <1>10, KeepsTwice, Zenon
  <2> QED BY <2>3, <1>11, KeepsTwice, Zenon
<1>17. Keeps(b, b7)
  <2>1. Keeps(b, b6)
    BY <1>12, <1>16, KeepsTwice, Zenon
  <2> QED BY <2>1, <1>13, KeepsTwice, Zenon
<1> QED BY <1>2, <1>14, <1>17, KeepsTwice, Zenon

\* Entry block of REPEATED_DESIGNATED.
LEMMA EnterRepeatedDesignatedKeeps ==
  ASSUME NEW b \in Bridge, NEW p \in Ports, NEW t \in Trees
  PROVE  Keeps(b, EnterRepeatedDesignated(b, p, t))
<1> DEFINE a == NotingRegion(b, p)
           c == recordProposal(a, p, t)
           d == setTcFlags(c, p, t)
           f == recordAgreement(d, p, t)
           g == updtRcvdInfoWhile(f, p, t)
<1>1. EnterRepeatedDesignated(b, p, t) = MessageDone(g, p, t)
  BY Zenon DEF EnterRepeatedDesignated
<1>2. a \in Bridge /\ Keeps(b, a)
  BY NotingRegionTyped, FlagProceduresKeep, Zenon
<1> HIDE DEF a
<1>3. c \in Bridge /\ Keeps(b, c)
  <2>1. c \in Bridge /\ Keeps(a, c)
    BY <1>2, recordProposalTyped, RecordsKeep, Zenon
  <2> QED BY <1>2, <2>1, KeepsTwice, Zenon
<1> HIDE DEF c
<1>4. d \in Bridge /\ Keeps(b, d)
  <2>1. d \in Bridge /\ Keeps(c, d)
    BY <1>3, setTcFlagsTyped, setTcFlagsKeeps, Zenon
  <2> QED BY <1>3, <2>1, KeepsTwice, Zenon
<1> HIDE DEF d
<1>5. f \in Bridge /\ Keeps(b, f)
  <2>1. f \in Bridge /\ Keeps(d, f)
    BY <1>4, recordAgreementTyped, recordAgreementKeeps, Zenon
  <2> QED BY <1>4, <2>1, KeepsTwice, Zenon
<1> HIDE DEF f
<1>6. g \in Bridge /\ Keeps(b, g)
  <2>1. g \in Bridge /\ Keeps(f, g)
    BY <1>5, updtRcvdInfoWhileTyped, RecordsKeep, Zenon
  <2> QED BY <1>5, <2>1, KeepsTwice, Zenon
<1> HIDE DEF g
<1>7. Keeps(g, MessageDone(g, p, t))
  BY <1>6, RecordsKeep, Zenon
<1> QED BY <1>1, <1>6, <1>7, KeepsTwice, Zenon

\* Every entry block of Port Information.
LEMMA PortInformationEnterKeeps ==
  ASSUME NEW b \in Bridge, NEW p \in Ports, NEW t \in Trees, NEW state
  PROVE  Keeps(b, PortInformationEnter(b, p, t, state))
<1>1. ASSUME NEW c \in Bridge, Keeps(b, c)
      PROVE  Keeps(b, MessageDone(c, p, t))
  <2>1. Keeps(c, MessageDone(c, p, t))
    BY <1>1, RecordsKeep, Zenon
  <2> QED BY <1>1, <2>1, KeepsTwice, Zenon
<1>2. Keeps(b, MessageDone(recordDispute(b, p, t), p, t))
  BY <1>1, recordDisputeTyped, RecordsKeep, Zenon
<1>3. Keeps(b, MessageDone(setTcFlags(recordAgreement(b, p, t), p, t), p, t))
  <2> DEFINE c == recordAgreement(b, p, t)
             d == setTcFlags(c, p, t)
  <2>1. c \in Bridge /\ Keeps(b, c)
    BY recordAgreementTyped, recordAgreementKeeps, Zenon
  <2> HIDE DEF c
  <2>2. d \in Bridge /\ Keeps(c, d)
    BY <2>1, setTcFlagsTyped, setTcFlagsKeeps, Zenon
  <2> HIDE DEF d
  <2>3. Keeps(b, MessageDone(d, p, t))
    BY <1>1, <2>1, <2>2, KeepsTwice, Zenon
  <2> QED BY <2>3, Zenon DEF c, d
<1>4. Keeps(b, EnterReceive(b, p, t))
  <2> DEFINE x == [b.pt[p][t] EXCEPT !.rcvdInfo = rcvInfo(b, p, t)]
             c == SetPortTree(b, p, t, x)
  <2>1. x \in PortTree
    <3>1. b.pt[p][t] \in PortTree /\ rcvInfo(b, p, t) \in RcvdInfos
      BY BridgeParts, rcvInfoTyped, Zenon
    <3> QED BY <3>1, ZenonT(60) DEF PortTree
  <2>2. EnterReceive(b, p, t) = recordMastered(c, p, t)
    BY Zenon DEF EnterReceive
  <2> HIDE DEF x
  <2>3. c \in Bridge /\ Keeps(b, c)
    BY <2>1, SetPortTreeTyped, TreesKeep, Zenon
  <2> HIDE DEF c
  <2>4. Keeps(c, recordMastered(c, p, t))
    BY <2>3, FlagProceduresKeep, Zenon
  <2> QED BY <2>2, <2>3, <2>4, KeepsTwice, Zenon
<1>5. Keeps(b, MessageDone(b, p, t)) /\ Keeps(b, b)
  BY RecordsKeep, TreesKeep, Zenon
<1>6. ASSUME NEW x
      PROVE  Keeps(b, SetPortTree(b, p, t, x))
  BY TreesKeep, Zenon
<1> QED BY <1>2, <1>3, <1>4, <1>5, <1>6, EnterUpdateKeeps, EnterSuperiorDesignatedKeeps,
           EnterRepeatedDesignatedKeeps, ZenonT(60) DEF PortInformationEnter

\* Every entry block of Port Role Transitions.
LEMMA RoleTransitionsEnterKeeps ==
  ASSUME NEW b \in Bridge, NEW p \in Ports, NEW t \in Trees, NEW state
  PROVE  Keeps(b, RoleTransitionsEnter(b, p, t, state))
<1> DEFINE own == SetPortTree(b, p, t, EnteredPortTree(b, p, b.pt[p][t], state))
<1>1. own \in Bridge /\ Keeps(b, own)
  BY BridgeParts, EnteredPortTreeTyped, SetPortTreeTyped, TreesKeep, Zenon
<1>2. Keeps(b, SetNewInfo(own, p, t))
  <2> HIDE DEF own
  <2>1. Keeps(own, SetNewInfo(own, p, t))
    BY <1>1, FlagProceduresKeep, Zenon
  <2> QED BY <1>1, <2>1, KeepsTwice, Zenon
<1>3. Keeps(b, EnterProposed(b, p, t))
  <2> DEFINE c == setSyncTree(b, t)
  <2>1. c \in Bridge /\ Keeps(b, c)
    BY setSyncTreeTyped, TreeProceduresKeep, Zenon
  <2> HIDE DEF c
  <2>2. \A x : Keeps(b, SetPortTree(c, p, t, x))
    BY <2>1, TreesKeep, KeepsTwice, Zenon
  <2> QED BY <2>2, Zenon DEF EnterProposed, c
<1>4. Keeps(b, EnterDesignatedPropose(b, p, t))
  <2> DEFINE c == SetPortTree(b, p, t, [b.pt[p][t] EXCEPT !.proposing = TRUE])
             d == IF cist(t)
                  THEN SetPort(c, p, [c.port[p] EXCEPT !.edgeDelayWhile = EdgeDelay(b, p)])
                  ELSE c
  <2>1. c \in Bridge /\ Keeps(b, c)
    <3>1. b.pt[p][t] \in PortTree
      BY BridgeParts, Zenon
    <3>2. [b.pt[p][t] EXCEPT !.proposing = TRUE] \in PortTree
      BY <3>1, ZenonT(60) DEF PortTree
    <3> QED BY <3>2, SetPortTreeTyped, TreesKeep, Zenon
  <2>2. EnterDesignatedPropose(b, p, t) = SetNewInfo(d, p, t)
    BY Zenon DEF EnterDesignatedPropose
  <2> HIDE DEF c
  <2>3. d \in Bridge /\ Keeps(b, d)
    <3>1. c.port[p] \in Port /\ EdgeDelay(b, p) \in Nat
      BY <2>1, BridgeParts, CistIsTree, HelloTimeTyped, Zenon
    <3>2. [c.port[p] EXCEPT !.edgeDelayWhile = EdgeDelay(b, p)] \in Port
      BY <3>1, ZenonT(60) DEF Port
    <3>3. Same(c.port[p], [c.port[p] EXCEPT !.edgeDelayWhile = EdgeDelay(b, p)])
      BY <3>1, FieldsKept, Zenon
    <3> QED BY <2>1, <3>2, <3>3, SetPortTyped, OneMoreUpdate, Zenon
  <2> HIDE DEF d
  <2>4. Keeps(d, SetNewInfo(d, p, t))
    BY <2>3, FlagProceduresKeep, Zenon
  <2> QED BY <2>2, <2>3, <2>4, KeepsTwice, Zenon
<1>5. Keeps(b, setReRootTree(b, t))
  BY TreeProceduresKeep, Zenon
<1> QED BY <1>1, <1>2, <1>3, <1>4, <1>5, ZenonT(60) DEF RoleTransitionsEnter

\* Every entry block of Topology Change.
LEMMA TopologyChangeEnterKeeps ==
  ASSUME NEW b \in Bridge, NEW p \in Ports, NEW t \in Trees, NEW state
  PROVE  Keeps(b, TopologyChangeEnter(b, p, t, state))
<1>1. b.pt[p][t] \in PortTree /\ b.port[p] \in Port /\ TRUE \in BOOLEAN
  BY BridgeParts, Zenon
<1>2. ASSUME NEW x \in PortTree
      PROVE  /\ SetPortTree(b, p, t, x) \in Bridge /\ Keeps(b, SetPortTree(b, p, t, x))
             /\ SetPortTree(b, p, t, x).port[p] = b.port[p]
  <2>1. SetPortTree(b, p, t, x).port = b.port
    BY ZenonT(60) DEF Bridge, SetPortTree
  <2> QED BY <2>1, SetPortTreeTyped, TreesKeep, Zenon
<1>3. ASSUME NEW x \in PortTree, NEW y, Same(b.port[p], y)
      PROVE  Keeps(b, SetPort(SetPortTree(b, p, t, x), p, y))
  <2> DEFINE c == SetPortTree(b, p, t, x)
  <2>1. c \in Bridge /\ Keeps(b, c) /\ c.port[p] = b.port[p]
    BY <1>2, Zenon
  <2> HIDE DEF c
  <2>2. Keeps(b, SetPort(c, p, y))
    BY <1>3, <2>1, OneMoreUpdate, Zenon
  <2> QED BY <2>2, Zenon DEF c
<1>4. Keeps(b, EnterInactive(b, p, t)) /\ Keeps(b, EnterTcLearning(b, p, t))
  <2> DEFINE x1 == [b.pt[p][t] EXCEPT !.tcDetected = 0, !.tcWhile = 0]
             x2 == [b.pt[p][t] EXCEPT !.rcvdTc = FALSE, !.tcProp = FALSE]
             y1 == [b.port[p] EXCEPT !.tcAck = FALSE]
             y2 == [b.port[p] EXCEPT !.rcvdTcn = FALSE, !.rcvdTcAck = FALSE]
  <2>1. x1 \in PortTree /\ x2 \in PortTree
    BY <1>1, TopologyChangeUpdates, Zenon
  <2>2. Same(b.port[p], y1) /\ Same(b.port[p], y2)
    BY <1>1, FieldsKept, Zenon
  <2>3. /\ EnterInactive(b, p, t) \in {SetPort(SetPortTree(b, p, t, x1), p, y1),
                                       SetPortTree(b, p, t, x1)}
        /\ EnterTcLearning(b, p, t) \in {SetPort(SetPortTree(b, p, t, x2), p, y2),
                                         SetPortTree(b, p, t, x2)}
    <3>1. SetPortTree(b, p, t, x1).port[p] = b.port[p] /\ SetPortTree(b, p, t, x2).port[p] = b.port[p]
      BY <1>2, <2>1, Zenon
    <3> QED BY <3>1, Zenon DEF EnterInactive, EnterTcLearning
  <2> HIDE DEF x1, x2, y1, y2
  <2> QED BY <1>2, <1>3, <2>1, <2>2, <2>3, Zenon
<1>5. Keeps(b, EnterDetected(b, p, t))
  <2> DEFINE c == newTcWhile(b, p, t)
             d == setTcPropTree(c, p, t)
             f == newTcDetected(d, p, t)
  <2>1. EnterDetected(b, p, t) = SetNewInfo(f, p, t)
    BY Zenon DEF EnterDetected
  <2>2. c \in Bridge /\ Keeps(b, c)
    BY newTcWhileTyped, newTcWhileKeeps, Zenon
  <2> HIDE DEF c
  <2>3. d \in Bridge /\ Keeps(b, d)
    <3>1. d \in Bridge /\ Keeps(c, d)
      BY <2>2, setTcPropTreeTyped, TreeProceduresKeep, Zenon
    <3> QED BY <2>2, <3>1, KeepsTwice, Zenon
  <2> HIDE DEF d
  <2>4. f \in Bridge /\ Keeps(b, f)
    <3>1. f \in Bridge /\ Keeps(d, f)
      BY <2>3, newTcDetectedTyped, RecordsKeep, Zenon
    <3> QED BY <2>3, <3>1, KeepsTwice, Zenon
  <2> HIDE DEF f
  <2>5. Keeps(f, SetNewInfo(f, p, t))
    BY <2>4, FlagProceduresKeep, Zenon
  <2> QED BY <2>1, <2>4, <2>5, KeepsTwice, Zenon
<1>6. Keeps(b, EnterNotifiedTc(b, p, t))
  <2> DEFINE x   == b.pt[p][t]
             ack == b.port[p].tcAck \/ x.role = "DESIGNATED"
             new == [b.port[p] EXCEPT !.rcvdTcn = FALSE, !.tcAck = ack]
             own == [x EXCEPT !.rcvdTc = FALSE]
             c   == SetPortTree(b, p, t, own)
             d   == IF cist(t) THEN SetPort(c, p, new) ELSE c
  <2>1. EnterNotifiedTc(b, p, t) = setTcPropTree(d, p, t)
    BY DEF EnterNotifiedTc
  <2>2. own \in PortTree /\ new \in Port /\ Same(b.port[p], new)
    <3>1. ack \in BOOLEAN
      BY Zenon
    <3> HIDE DEF ack
    <3> QED BY <1>1, <3>1, TopologyChangeUpdates, FieldsKept, Zenon
  <2> HIDE DEF own, new
  <2>3. c \in Bridge /\ Keeps(b, c) /\ Keeps(b, SetPort(c, p, new))
    BY <1>2, <1>3, <2>2, Zenon
  <2> HIDE DEF c
  <2>4. d \in Bridge /\ Keeps(b, d)
    BY <2>2, <2>3, SetPortTyped, Zenon
  <2> HIDE DEF d
  <2>5. Keeps(d, setTcPropTree(d, p, t))
    BY <2>4, TreeProceduresKeep, Zenon
  <2> QED BY <2>1, <2>4, <2>5, KeepsTwice, Zenon
<1>7. Keeps(b, EnterPropagating(b, p, t))
  <2> DEFINE c == newTcWhile(b, p, t)
  <2>1. c \in Bridge /\ Keeps(b, c)
    BY newTcWhileTyped, newTcWhileKeeps, Zenon
  <2> HIDE DEF c
  <2>2. \A x : Keeps(b, SetPortTree(c, p, t, x))
    BY <2>1, TreesKeep, KeepsTwice, Zenon
  <2> QED BY <2>2, Zenon DEF EnterPropagating, c
<1>8. Keeps(b, EnterAcknowledged(b, p, t))
  <2>1. [b.pt[p][t] EXCEPT !.tcWhile = 0] \in PortTree
    BY <1>1, TopologyChangeUpdates, Zenon
  <2> QED BY <1>1, <1>3, <2>1, FieldsKept, Zenon DEF EnterAcknowledged
<1> QED BY <1>4, <1>5, <1>6, <1>7, <1>8, newTcWhileKeeps, TreesKeep, ZenonT(60)
        DEF TopologyChangeEnter

\* Every entry block of Port Role Selection.
LEMMA RoleSelectionEnterKeeps ==
  ASSUME NEW b \in Bridge, NEW t \in Trees, NEW state
  PROVE  Keeps(b, RoleSelectionEnter(b, t, state))
<1> DEFINE c == clearReselectTree(b, t)
           d == updtRolesTree(c, t)
<1>1. 1 \in Ports
  BY SizesAssumption, SMT DEF Ports
<1>2. c \in Bridge /\ Keeps(b, c) /\ Keeps(b, updtRolesDisabledTree(b, t))
  BY <1>1, clearReselectTreeTyped, TreeProceduresKeep, Zenon
<1>3. RoleSelectionEnter(b, t, state) \in {updtRolesDisabledTree(b, t), setSelectedTree(d, t)}
  BY Zenon DEF RoleSelectionEnter
<1> HIDE DEF c
<1>4. d \in Bridge /\ Keeps(b, d)
  <2>1. d \in Bridge /\ Keeps(c, d)
    BY <1>2, updtRolesTreeTyped, updtRolesTreeKeeps, Zenon
  <2> QED BY <1>2, <2>1, KeepsTwice, Zenon
<1> HIDE DEF d
<1>5. Keeps(d, setSelectedTree(d, t))
  BY <1>1, <1>4, TreeProceduresKeep, Zenon
<1> QED BY <1>2, <1>3, <1>4, <1>5, KeepsTwice, Zenon

-----------------------------------------------------------------------------
(***************************************************************************)
(* Transitions: the entry block, then the assignment to the state.         *)
(***************************************************************************)
\* The machines of a port, other than Port Timers and Port Transmit.
LEMMA PortMachinesKeep ==
  ASSUME NEW b \in Bridge, NEW p \in Ports
  PROVE  /\ Keeps(b, EnterProtocolMigration(b, p))
         /\ Keeps(b, EnterPortReceive(b, p))
         /\ Keeps(b, EnterBridgeDetection(b, p))
<1>1. ASSUME NEW c \in Bridge, Keeps(b, c), NEW v
      PROVE  /\ Keeps(b, SetPort(c, p, [c.port[p] EXCEPT !.portProtocolMigrationState = v]))
             /\ Keeps(b, SetPort(c, p, [c.port[p] EXCEPT !.portReceiveState = v]))
             /\ Keeps(b, SetPort(c, p, [c.port[p] EXCEPT !.bridgeDetectionState = v]))
  <2>1. c.port[p] \in Port
    BY BridgeParts, CistIsTree, Zenon
  <2> QED BY <1>1, <2>1, FieldsKept, OneMoreUpdate, CistIsTree, Zenon
<1>2. /\ Keeps(b, ProtocolMigrationEnter(b, p, ProtocolMigrationNext(b, p)))
      /\ Keeps(b, PortReceiveEnter(b, p, PortReceiveNext(b, p)))
      /\ Keeps(b, BridgeDetectionEnter(b, p, BridgeDetectionNext(b, p)))
  BY ProtocolMigrationEnterKeeps, PortReceiveEnterKeeps, BridgeDetectionEnterKeeps, Zenon
<1>3. /\ ProtocolMigrationEnter(b, p, ProtocolMigrationNext(b, p)) \in Bridge
      /\ PortReceiveEnter(b, p, PortReceiveNext(b, p)) \in Bridge
      /\ BridgeDetectionEnter(b, p, BridgeDetectionNext(b, p)) \in Bridge
  BY ProtocolMigrationEnterTyped, PortReceiveEnterTyped, BridgeDetectionEnterTyped, Zenon
<1> QED BY <1>1, <1>2, <1>3, Zenon
        DEF EnterProtocolMigration, EnterPortReceive, EnterBridgeDetection

\* The machines of a tree, and of a port and a tree.
LEMMA TreeMachinesKeep ==
  ASSUME NEW b \in Bridge, NEW p \in Ports, NEW t \in Trees
  PROVE  /\ Keeps(b, EnterPortInformation(b, p, t)) /\ Keeps(b, EnterRoleTransitions(b, p, t))
         /\ Keeps(b, EnterStateTransition(b, p, t)) /\ Keeps(b, EnterTopologyChange(b, p, t))
         /\ Keeps(b, EnterRoleSelection(b, t))
<1>1. ASSUME NEW c \in Bridge, Keeps(b, c), NEW x
      PROVE  Keeps(b, SetPortTree(c, p, t, x)) /\ Keeps(b, [c EXCEPT !.tree[t] = x])
  <2>1. Keeps(c, SetPortTree(c, p, t, x)) /\ Keeps(c, [c EXCEPT !.tree[t] = x])
    BY TreesKeep, Zenon
  <2> QED BY <1>1, <2>1, KeepsTwice, Zenon
<1>2. Keeps(b, EnterPortInformation(b, p, t))
  BY <1>1, PortInformationEnterTyped, PortInformationEnterKeeps, Zenon DEF EnterPortInformation
<1>3. Keeps(b, EnterRoleTransitions(b, p, t))
  BY <1>1, RoleTransitionsEnterTyped, RoleTransitionsEnterKeeps, Zenon DEF EnterRoleTransitions
<1>4. Keeps(b, EnterTopologyChange(b, p, t))
  BY <1>1, TopologyChangeEnterTyped, TopologyChangeEnterKeeps, Zenon DEF EnterTopologyChange
<1>5. Keeps(b, EnterStateTransition(b, p, t))
  <2> DEFINE c == StateTransitionEnter(b, p, t, StateTransitionNext(b, p, t))
  <2>1. c \in Bridge
    BY StateTransitionEnterTyped, Zenon
  <2>2. Keeps(b, c)
    BY TreesKeep, Zenon DEF StateTransitionEnter
  <2> HIDE DEF c
  <2>3. \A x : Keeps(b, SetPortTree(c, p, t, x))
    BY <1>1, <2>1, <2>2, Zenon
  <2> QED BY <2>3, Zenon DEF EnterStateTransition, c
<1>6. Keeps(b, EnterRoleSelection(b, t))
  <2> DEFINE c == RoleSelectionEnter(b, t, RoleSelectionNext(b, t))
             z == [c.tree[t] EXCEPT !.portRoleSelectionState = RoleSelectionNext(b, t)]
  <2>1. EnterRoleSelection(b, t) = [c EXCEPT !.tree[t] = z]
    BY DEF EnterRoleSelection
  <2>2. c \in Bridge /\ Keeps(b, c)
    BY RoleSelectionEnterTyped, RoleSelectionEnterKeeps, Zenon
  <2> HIDE DEF c, z
  <2> QED BY <1>1, <2>1, <2>2, Zenon
<1> QED BY <1>2, <1>3, <1>4, <1>5, <1>6, Zenon

-----------------------------------------------------------------------------
(***************************************************************************)
(* Port Timers may lower txCount; Port Transmit may raise it by one, as    *)
(* long as it is below the limit.                                          *)
(***************************************************************************)
NotMore(b, c) ==
  /\ c.TxHoldCount = b.TxHoldCount /\ c.tx = b.tx
  /\ \A q \in Ports : SameLink(b.port[q], c.port[q]) /\ c.port[q].txCount <= b.port[q].txCount

\* Nothing done raises nothing.
LEMMA Stutters ==
  ASSUME NEW b \in Bridge
  PROVE  NotMore(b, b)
<1>1. \A q \in Ports : b.port[q].txCount <= b.port[q].txCount
  <2>1. ASSUME NEW n \in Nat
        PROVE  n <= n
    BY SMT
  <2> QED BY <2>1, BridgeParts, CistIsTree, PortFields, Zenon
<1> QED BY <1>1, Zenon DEF NotMore, SameLink

\* What keeps the fields does not raise txCount.
LEMMA KeepsNotMore ==
  ASSUME NEW b, NEW c, NEW d, NotMore(b, c), Keeps(c, d)
  PROVE  NotMore(b, d)
  BY Zenon DEF NotMore, Keeps, Same, SameLink

\* A transition of Port Timers.
LEMMA PortTimersKeeps ==
  ASSUME NEW b \in Bridge, NEW p \in Ports
  PROVE  NotMore(b, EnterPortTimers(b, p))
<1> DEFINE state == PortTimersNext(b, p)
           ticked == TickedPort(b.port[p])
           c1 == SetPort(b, p, ticked)
           c2 == OnTrees(c1, p, TreesOf(b), TickedPortTree)
           c3 == SetPort(b, p, [b.port[p] EXCEPT !.tick = FALSE])
           c  == PortTimersEnter(b, p, state)
<1>1. b.port[p] \in Port /\ b.port[p].txCount \in Nat
  BY BridgeParts, CistIsTree, PortFields, Zenon
<1>2. ASSUME NEW n \in Nat
      PROVE  Tick(n) \in Nat /\ Tick(n) <= n
  BY SMT DEF Tick
<1>3. ticked \in Port
  BY <1>1, <1>2, PortFields, ZenonT(60) DEF TickedPort, Port
<1>4. SameLink(b.port[p], ticked) /\ ticked.txCount = Tick(b.port[p].txCount)
  BY <1>1, ZenonT(60) DEF TickedPort, Port, SameLink
<1>5. [b.port[p] EXCEPT !.tick = FALSE] \in Port /\ Same(b.port[p], [b.port[p] EXCEPT !.tick = FALSE])
  BY <1>1, ZenonT(60) DEF Port, Same, SameLink
<1>6. c = IF state = "ONE_SECOND" THEN c3 ELSE c2
  BY Zenon DEF PortTimersEnter
<1> HIDE DEF ticked
<1>7. c1 \in Bridge /\ NotMore(b, c1)
  <2>1. /\ c1.TxHoldCount = b.TxHoldCount /\ c1.tx = b.tx
        /\ c1.port = [b.port EXCEPT ![p] = ticked]
    BY ZenonT(60) DEF Bridge, SetPort
  <2>2. \A q \in Ports : c1.port[q] = IF q = p THEN ticked ELSE b.port[q]
    <3>1. b.port \in [Ports -> Port]
      BY Zenon DEF Bridge
    <3> QED BY <2>1, <3>1, Zenon
  <2>3. NotMore(b, b)
    BY Stutters, Zenon
  <2>4. ticked.txCount <= b.port[p].txCount
    BY <1>1, <1>2, <1>4, Zenon
  <2> QED BY <1>3, <1>4, <2>1, <2>2, <2>3, <2>4, SetPortTyped, Zenon DEF NotMore, c1
<1> HIDE DEF c1
<1>8. c2 \in Bridge /\ Keeps(c1, c2)
  <2>1. c2 \in Bridge
    BY <1>7, TickedTreesTyped, Zenon
  <2> QED BY <1>7, <2>1, TreesKeep, CistIsTree, Zenon DEF OnTrees
<1>9. c3 \in Bridge /\ Keeps(b, c3)
  BY <1>5, SetPortTyped, SetPortKeeps, Zenon
<1> HIDE DEF c2, c3, state
<1>10. c \in Bridge /\ NotMore(b, c)
  BY <1>6, <1>7, <1>8, <1>9, KeepsNotMore, Stutters, Zenon
<1> HIDE DEF c
<1>11. Keeps(c, SetPort(c, p, [c.port[p] EXCEPT !.portTimersState = state]))
  BY <1>10, BridgeParts, CistIsTree, FieldsKept, SetPortKeeps, Zenon
<1> QED BY <1>10, <1>11, KeepsNotMore, Zenon DEF EnterPortTimers, c, state

-----------------------------------------------------------------------------
\* the fields of a PORT that machines other than Port Transmit test
SameTested(y, z) ==
  /\ SameLink(y, z)
  /\ z.tick = y.tick /\ z.mDelayWhile = y.mDelayWhile /\ z.edgeDelayWhile = y.edgeDelayWhile
  /\ z.sendRSTP = y.sendRSTP /\ z.rcvdSTP = y.rcvdSTP /\ z.rcvdRSTP = y.rcvdRSTP
  /\ z.rcvdBpdu = y.rcvdBpdu /\ z.rcvdTcn = y.rcvdTcn /\ z.rcvdTcAck = y.rcvdTcAck
  /\ z.AdminEdge = y.AdminEdge /\ z.AutoEdge = y.AutoEdge
  /\ z.operEdge = y.operEdge /\ z.isolate = y.isolate
  /\ z.portTimersState = y.portTimersState
  /\ z.portProtocolMigrationState = y.portProtocolMigrationState
  /\ z.portReceiveState = y.portReceiveState
  /\ z.bridgeDetectionState = y.bridgeDetectionState

\* c differs from b in untested fields of ports and in the frames sent
OnlyTransmits(b, c) ==
  /\ c.BEGIN = b.BEGIN /\ c.started = b.started
  /\ c.ForceProtocolVersion = b.ForceProtocolVersion
  /\ c.TxHoldCount = b.TxHoldCount /\ c.pt = b.pt /\ c.tree = b.tree
  /\ c.receivedBpdu = b.receivedBpdu
  /\ \A q \in Ports : SameTested(b.port[q], c.port[q])

\* The assignments to a PORT in the entry blocks of Port Transmit.
LEMMA TransmitKeepsTested ==
  ASSUME NEW y \in Port, NEW n, NEW v, NEW w
  PROVE  \A z \in {[y EXCEPT !.newInfo = TRUE, !.newInfoMsti = TRUE, !.txCount = n],
                   [y EXCEPT !.newInfo = v, !.newInfoMsti = w],
                   [y EXCEPT !.newInfo = FALSE, !.txCount = n, !.tcAck = FALSE],
                   [y EXCEPT !.newInfo = FALSE, !.txCount = n],
                   [y EXCEPT !.newInfo = FALSE, !.newInfoMsti = FALSE, !.txCount = n,
                             !.tcAck = FALSE],
                   [y EXCEPT !.helloWhen = n],
                   [y EXCEPT !.portTransmitState = v]} : SameTested(y, z)
  BY ZenonT(120) DEF Port, SameTested, SameLink

\* One more assignment to a PORT after a transmission.
LEMMA TransmitsTwice ==
  ASSUME NEW b, NEW c \in Bridge, OnlyTransmits(b, c), NEW p \in Ports, NEW z,
         SameTested(c.port[p], z)
  PROVE  /\ OnlyTransmits(b, SetPort(c, p, z))
         /\ SetPort(c, p, z).port[p] = z
         /\ \A q \in Ports \ {p} : SetPort(c, p, z).port[q] = c.port[q]
<1> DEFINE d == SetPort(c, p, z)
<1>1. /\ d.BEGIN = c.BEGIN /\ d.started = c.started
      /\ d.ForceProtocolVersion = c.ForceProtocolVersion
      /\ d.TxHoldCount = c.TxHoldCount /\ d.pt = c.pt /\ d.tree = c.tree
      /\ d.receivedBpdu = c.receivedBpdu /\ d.port = [c.port EXCEPT ![p] = z]
  BY ZenonT(60) DEF Bridge, SetPort
<1>2. \A q \in Ports : d.port[q] = IF q = p THEN z ELSE c.port[q]
  <2>1. c.port \in [Ports -> Port]
    BY Zenon DEF Bridge
  <2> QED BY <1>1, <2>1, Zenon
<1> HIDE DEF d
<1>3. \A q \in Ports : SameTested(b.port[q], d.port[q])
  <2>1. \A q \in Ports : SameTested(b.port[q], c.port[q])
    BY Zenon DEF OnlyTransmits
  <2>2. SameTested(b.port[p], z)
    BY <2>1, ZenonT(60) DEF SameTested, SameLink
  <2> QED BY <1>2, <2>1, <2>2, Zenon
<1>4. OnlyTransmits(b, d)
  BY <1>1, <1>3, Zenon DEF OnlyTransmits
<1> QED BY <1>2, <1>4, Zenon DEF d

\* The three frames.
LEMMA FramesTransmit ==
  ASSUME NEW b \in Bridge, NEW p \in Ports, NEW c \in {b, txConfig(b, p), txTcn(b, p), txRstp(b, p)}
  PROVE  c \in Bridge /\ c.port = b.port /\ OnlyTransmits(b, c)
<1>1. c \in Bridge
  BY txConfigTyped, txTcnTyped, txRstpTyped, Zenon
<1>2. c = b \/ \E bpdu : c = Send(b, p, bpdu)
  BY Zenon DEF txConfig, txTcn, txRstp
<1>3. ASSUME NEW bpdu, NEW d, d = Send(b, p, bpdu)
      PROVE  /\ d.BEGIN = b.BEGIN /\ d.started = b.started
             /\ d.ForceProtocolVersion = b.ForceProtocolVersion
             /\ d.TxHoldCount = b.TxHoldCount /\ d.pt = b.pt /\ d.tree = b.tree
             /\ d.port = b.port /\ d.receivedBpdu = b.receivedBpdu
  BY <1>3, ZenonT(60) DEF Bridge, Send
<1>4. ASSUME NEW y
      PROVE  SameTested(y, y)
  BY Zenon DEF SameTested, SameLink
<1> QED BY <1>1, <1>2, <1>3, <1>4, Zenon DEF OnlyTransmits

\* A transition of Port Transmit: no machine but itself notices, and txCount stays in bounds.
LEMMA PortTransmitKeeps ==
  ASSUME NEW b \in Bridge, NEW p \in Ports, b.TxHoldCount \in Nat
  PROVE  /\ OnlyTransmits(b, EnterPortTransmit(b, p))
         /\ \A q \in Ports : \/ EnterPortTransmit(b, p).port[q].txCount = b.port[q].txCount
                             \/ EnterPortTransmit(b, p).port[q].txCount <= b.TxHoldCount
<1> DEFINE y     == b.port[p]
           n     == y.txCount + 1
           v     == y.newInfo \/ PeriodicInfo(b, p)
           w     == y.newInfoMsti \/ mstiDesignatedOrTCpropagatingRootPort(b, p)
           state == PortTransmitNext(b, p)
           c1    == PortTransmitEnter(b, p, state)
           InBounds(z) == z.txCount = y.txCount \/ z.txCount <= b.TxHoldCount
           frames == {b, txConfig(b, p), txTcn(b, p), txRstp(b, p)}
<1>1. y \in Port /\ y.txCount \in Nat
  BY BridgeParts, CistIsTree, PortFields, Zenon
<1>2. c1 =
        CASE state = "TRANSMIT_INIT" ->
               SetPort(b, p, [y EXCEPT !.newInfo = TRUE, !.newInfoMsti = TRUE, !.txCount = 0])
          [] state = "TRANSMIT_PERIODIC" ->
               SetPort(b, p, [y EXCEPT !.newInfo = v, !.newInfoMsti = w])
          [] state = "TRANSMIT_CONFIG" ->
               SetPort(txConfig(b, p), p,
                       [y EXCEPT !.newInfo = FALSE, !.txCount = n, !.tcAck = FALSE])
          [] state = "TRANSMIT_TCN" ->
               SetPort(txTcn(b, p), p, [y EXCEPT !.newInfo = FALSE, !.txCount = n])
          [] state = "TRANSMIT_RSTP" ->
               SetPort(txRstp(b, p), p,
                       [y EXCEPT !.newInfo = FALSE, !.newInfoMsti = FALSE, !.txCount = n,
                                 !.tcAck = FALSE])
          [] OTHER -> SetPort(b, p, [y EXCEPT !.helloWhen = HelloTime(b, p)])
  BY Zenon DEF PortTransmitEnter
<1>3. state \in {"TRANSMIT_CONFIG", "TRANSMIT_TCN", "TRANSMIT_RSTP"} => y.txCount < b.TxHoldCount
  BY SMT DEF PortTransmitNext
<1>4. 0 <= b.TxHoldCount /\ (y.txCount < b.TxHoldCount => n <= b.TxHoldCount)
  BY <1>1, SMT
<1>5. c1 \in Bridge
  BY PortTransmitEnterTyped, Zenon
<1> HIDE DEF y, n, v, w, state, c1
<1>6. \E d \in frames : \E z : c1 = SetPort(d, p, z) /\ SameTested(y, z) /\ InBounds(z)
  <2>1. CASE state = "TRANSMIT_INIT"
    <3> DEFINE z == [y EXCEPT !.newInfo = TRUE, !.newInfoMsti = TRUE, !.txCount = 0]
    <3>1. SameTested(y, z) /\ z.txCount = 0 /\ c1 = SetPort(b, p, z)
      BY <1>1, <1>2, <2>1, TransmitKeepsTested, Zenon DEF Port
    <3> QED BY <1>4, <3>1, Zenon
  <2>2. CASE state = "TRANSMIT_PERIODIC"
    <3> DEFINE z == [y EXCEPT !.newInfo = v, !.newInfoMsti = w]
    <3>1. SameTested(y, z) /\ z.txCount = y.txCount /\ c1 = SetPort(b, p, z)
      BY <1>1, <1>2, <2>2, TransmitKeepsTested, Zenon DEF Port
    <3> QED BY <3>1, Zenon
  <2>3. CASE state = "TRANSMIT_CONFIG"
    <3> DEFINE z == [y EXCEPT !.newInfo = FALSE, !.txCount = n, !.tcAck = FALSE]
    <3>1. SameTested(y, z) /\ z.txCount = n /\ c1 = SetPort(txConfig(b, p), p, z)
      BY <1>1, <1>2, <2>3, TransmitKeepsTested, Zenon DEF Port
    <3> QED BY <1>3, <1>4, <2>3, <3>1, Zenon
  <2>4. CASE state = "TRANSMIT_TCN"
    <3> DEFINE z == [y EXCEPT !.newInfo = FALSE, !.txCount = n]
    <3>1. SameTested(y, z) /\ z.txCount = n /\ c1 = SetPort(txTcn(b, p), p, z)
      BY <1>1, <1>2, <2>4, TransmitKeepsTested, Zenon DEF Port
    <3> QED BY <1>3, <1>4, <2>4, <3>1, Zenon
  <2>5. CASE state = "TRANSMIT_RSTP"
    <3> DEFINE z == [y EXCEPT !.newInfo = FALSE, !.newInfoMsti = FALSE, !.txCount = n,
                              !.tcAck = FALSE]
    <3>1. SameTested(y, z) /\ z.txCount = n /\ c1 = SetPort(txRstp(b, p), p, z)
      BY <1>1, <1>2, <2>5, TransmitKeepsTested, Zenon DEF Port
    <3> QED BY <1>3, <1>4, <2>5, <3>1, Zenon
  <2>6. CASE state \notin {"TRANSMIT_INIT", "TRANSMIT_PERIODIC", "TRANSMIT_CONFIG",
                           "TRANSMIT_TCN", "TRANSMIT_RSTP"}
    <3> DEFINE z == [y EXCEPT !.helloWhen = HelloTime(b, p)]
    <3>1. SameTested(y, z) /\ z.txCount = y.txCount /\ c1 = SetPort(b, p, z)
      BY <1>1, <1>2, <2>6, TransmitKeepsTested, Zenon DEF Port
    <3> QED BY <3>1, Zenon
  <2> QED BY <2>1, <2>2, <2>3, <2>4, <2>5, <2>6, Zenon
<1>7. OnlyTransmits(b, c1) /\ InBounds(c1.port[p]) /\ \A q \in Ports \ {p} : c1.port[q] = b.port[q]
  <2>1. PICK d \in frames : \E z : c1 = SetPort(d, p, z) /\ SameTested(y, z) /\ InBounds(z)
    BY <1>6
  <2>2. PICK z : c1 = SetPort(d, p, z) /\ SameTested(y, z) /\ InBounds(z)
    BY <2>1
  <2>3. d \in Bridge /\ d.port = b.port /\ OnlyTransmits(b, d)
    BY FramesTransmit, Zenon
  <2>4. SameTested(d.port[p], z)
    BY <2>2, <2>3, Zenon DEF y
  <2> HIDE DEF frames
  <2>5. /\ OnlyTransmits(b, SetPort(d, p, z)) /\ SetPort(d, p, z).port[p] = z
        /\ \A q \in Ports \ {p} : SetPort(d, p, z).port[q] = d.port[q]
    BY <2>3, <2>4, TransmitsTwice
  <2> QED BY <2>2, <2>3, <2>5, Zenon
<1>8. EnterPortTransmit(b, p) = SetPort(c1, p, [c1.port[p] EXCEPT !.portTransmitState = state])
  BY Zenon DEF EnterPortTransmit, c1, state
<1>9. /\ SameTested(c1.port[p], [c1.port[p] EXCEPT !.portTransmitState = state])
      /\ [c1.port[p] EXCEPT !.portTransmitState = state].txCount = c1.port[p].txCount
  <2>1. c1.port[p] \in Port
    BY <1>5, BridgeParts, CistIsTree, Zenon
  <2> QED BY <2>1, TransmitKeepsTested, Zenon DEF Port
<1> DEFINE z == [c1.port[p] EXCEPT !.portTransmitState = state]
           c == EnterPortTransmit(b, p)
<1>10. SameTested(c1.port[p], z) /\ InBounds(z) /\ c = SetPort(c1, p, z)
  BY <1>7, <1>8, <1>9, Zenon
<1> HIDE DEF z, c, InBounds
<1>11. OnlyTransmits(b, c) /\ c.port[p] = z /\ \A q \in Ports \ {p} : c.port[q] = b.port[q]
  <2>1. /\ OnlyTransmits(b, SetPort(c1, p, z)) /\ SetPort(c1, p, z).port[p] = z
        /\ \A q \in Ports \ {p} : SetPort(c1, p, z).port[q] = c1.port[q]
    BY <1>5, <1>7, <1>10, TransmitsTwice
  <2> QED BY <1>7, <1>10, <2>1, Zenon
<1>12. \A q \in Ports : c.port[q].txCount = b.port[q].txCount \/ c.port[q].txCount <= b.TxHoldCount
  <2>1. ASSUME NEW q \in Ports, q = p
        PROVE  c.port[q].txCount = b.port[q].txCount \/ c.port[q].txCount <= b.TxHoldCount
    BY <1>10, <1>11, <2>1, Zenon DEF InBounds, y
  <2> QED BY <1>11, <2>1, Zenon
<1> QED BY <1>11, <1>12, Zenon DEF c

-----------------------------------------------------------------------------
(***************************************************************************)
(* What most transitions leave alone: the fields that the roles hang on.   *)
(***************************************************************************)
Alike(x, z) ==
  /\ z.infoIs = x.infoIs /\ z.updtInfo = x.updtInfo /\ z.rcvdInfo = x.rcvdInfo
  /\ z.reselect = x.reselect /\ z.selected = x.selected /\ z.selectedRole = x.selectedRole
  /\ z.role = x.role /\ z.learn = x.learn /\ z.forward = x.forward
  /\ z.learning = x.learning /\ z.forwarding = x.forwarding
  /\ z.portInformationState = x.portInformationState
  /\ z.portRoleTransitionsState = x.portRoleTransitionsState
  /\ z.portStateTransitionState = x.portStateTransitionState

\* and no message comes in
Fades(x, z) == Alike(x, z) /\ (z.rcvdMsg => x.rcvdMsg)

AlikePort(y, z) == /\ z.portEnabled = y.portEnabled
                   /\ z.rcvdBpdu => y.rcvdBpdu
                   /\ z.portTimersState = "NONE" => y.portTimersState = "NONE"

\* the bridge apart from its PORT_TREEs
SameFrame(b, c) ==
  /\ c.BEGIN = b.BEGIN /\ c.started = b.started
  /\ c.ForceProtocolVersion = b.ForceProtocolVersion /\ c.receivedBpdu = b.receivedBpdu
  /\ \A q \in Ports : AlikePort(b.port[q], c.port[q])
  /\ \A s \in Trees : c.tree[s].portRoleSelectionState = b.tree[s].portRoleSelectionState

Untouched(b, c) ==
  SameFrame(b, c) /\ \A q \in Ports, s \in Trees : Fades(b.pt[q][s], c.pt[q][s])

\* messages may come in
RolesUntouched(b, c) ==
  SameFrame(b, c) /\ \A q \in Ports, s \in Trees : Alike(b.pt[q][s], c.pt[q][s])

\* the PORT_TREE of port p in tree t may change
UntouchedBut(b, c, p, t) ==
  /\ SameFrame(b, c)
  /\ \A q \in Ports, s \in Trees : /\ c.pt[q][s].rcvdMsg => b.pt[q][s].rcvdMsg
                                   /\ (q = p /\ s = t) \/ Alike(b.pt[q][s], c.pt[q][s])

-----------------------------------------------------------------------------
\* Nothing done touches nothing.
LEMMA NothingTouched ==
  ASSUME NEW b
  PROVE  /\ Untouched(b, b) /\ RolesUntouched(b, b) /\ SameFrame(b, b)
         /\ \A x : Alike(x, x) /\ Fades(x, x)
  BY Zenon DEF Untouched, RolesUntouched, SameFrame, Alike, Fades, AlikePort

\* One thing done after the other.
LEMMA FrameTwice ==
  ASSUME NEW b, NEW c, NEW d, SameFrame(b, c), SameFrame(c, d)
  PROVE  SameFrame(b, d)
  BY Zenon DEF SameFrame, AlikePort

LEMMA AlikeTwice ==
  ASSUME NEW x, NEW y, NEW z, Alike(x, y), Alike(y, z)
  PROVE  Alike(x, z)
  BY Zenon DEF Alike

LEMMA UntouchedTwice ==
  ASSUME NEW b, NEW c, NEW d, Untouched(b, c), Untouched(c, d)
  PROVE  Untouched(b, d)
<1>1. SameFrame(b, d)
  BY FrameTwice, Zenon DEF Untouched
<1>2. ASSUME NEW q \in Ports, NEW s \in Trees
      PROVE  Fades(b.pt[q][s], d.pt[q][s])
  BY AlikeTwice, Zenon DEF Untouched, Fades
<1> QED BY <1>1, <1>2, Zenon DEF Untouched

LEMMA RolesUntouchedTwice ==
  ASSUME NEW b, NEW c, NEW d, RolesUntouched(b, c), RolesUntouched(c, d)
  PROVE  RolesUntouched(b, d)
<1>1. SameFrame(b, d)
  BY FrameTwice, Zenon DEF RolesUntouched
<1>2. ASSUME NEW q \in Ports, NEW s \in Trees
      PROVE  Alike(b.pt[q][s], d.pt[q][s])
  BY AlikeTwice, Zenon DEF RolesUntouched
<1> QED BY <1>1, <1>2, Zenon DEF RolesUntouched

LEMMA UntouchedButTwice ==
  ASSUME NEW b, NEW c, NEW d, NEW p, NEW t, UntouchedBut(b, c, p, t), UntouchedBut(c, d, p, t)
  PROVE  UntouchedBut(b, d, p, t)
<1>1. SameFrame(b, d)
  BY FrameTwice, Zenon DEF UntouchedBut
<1>2. ASSUME NEW q \in Ports, NEW s \in Trees
      PROVE  /\ d.pt[q][s].rcvdMsg => b.pt[q][s].rcvdMsg
             /\ (q = p /\ s = t) \/ Alike(b.pt[q][s], d.pt[q][s])
  BY AlikeTwice, Zenon DEF UntouchedBut
<1> QED BY <1>1, <1>2, Zenon DEF UntouchedBut

\* What is untouched is so in the weaker senses too.
LEMMA UntouchedWeaker ==
  ASSUME NEW b, NEW c, Untouched(b, c)
  PROVE  RolesUntouched(b, c) /\ \A p, t : UntouchedBut(b, c, p, t)
  BY Zenon DEF Untouched, RolesUntouched, UntouchedBut, Fades

-----------------------------------------------------------------------------
(***************************************************************************)
(* Updates of one part of a bridge.                                        *)
(***************************************************************************)
\* Updates of the PORT_TREEs: all of them, those of a port, one.
LEMMA TreesUpdated ==
  ASSUME NEW b \in Bridge, NEW f
  PROVE  SameFrame(b, [b EXCEPT !.pt = f]) /\ [b EXCEPT !.pt = f].pt = f
<1> DEFINE c == [b EXCEPT !.pt = f]
<1>1. /\ c.BEGIN = b.BEGIN /\ c.started = b.started /\ c.port = b.port /\ c.tree = b.tree
      /\ c.ForceProtocolVersion = b.ForceProtocolVersion /\ c.receivedBpdu = b.receivedBpdu
      /\ c.pt = f
  BY ZenonT(60) DEF Bridge
<1> HIDE DEF c
<1>2. SameFrame(b, c) /\ c.pt = f
  BY <1>1, Zenon DEF SameFrame, AlikePort
<1> QED BY <1>2, Zenon DEF c

LEMMA RowUpdated ==
  ASSUME NEW b \in Bridge, NEW p \in Ports, NEW row
  PROVE  /\ SameFrame(b, [b EXCEPT !.pt[p] = row])
         /\ [b EXCEPT !.pt[p] = row].pt[p] = row
         /\ \A q \in Ports : q # p => [b EXCEPT !.pt[p] = row].pt[q] = b.pt[q]
<1> DEFINE f == [b.pt EXCEPT ![p] = row]
<1>1. [b EXCEPT !.pt[p] = row] = [b EXCEPT !.pt = f]
  OBVIOUS
<1>2. b.pt \in [Ports -> [Trees -> PortTree]]
  BY Zenon DEF Bridge
<1>3. f[p] = row /\ \A q \in Ports : q # p => f[q] = b.pt[q]
  BY <1>2, Zenon
<1> HIDE DEF f
<1>4. SameFrame(b, [b EXCEPT !.pt = f]) /\ [b EXCEPT !.pt = f].pt = f
  BY TreesUpdated, Zenon
<1> QED BY <1>1, <1>3, <1>4

LEMMA PortTreeUpdated ==
  ASSUME NEW b \in Bridge, NEW p \in Ports, NEW t \in Trees, NEW x
  PROVE  /\ SameFrame(b, SetPortTree(b, p, t, x))
         /\ SetPortTree(b, p, t, x).pt[p][t] = x
         /\ \A q \in Ports, s \in Trees :
              q # p \/ s # t => SetPortTree(b, p, t, x).pt[q][s] = b.pt[q][s]
<1> DEFINE row == [b.pt[p] EXCEPT ![t] = x]
           c   == [b EXCEPT !.pt[p] = row]
<1>1. SetPortTree(b, p, t, x) = c
  BY DEF SetPortTree
<1>2. b.pt[p] \in [Trees -> PortTree]
  <2>1. b.pt \in [Ports -> [Trees -> PortTree]]
    BY Zenon DEF Bridge
  <2> QED BY <2>1, Zenon
<1>3. row[t] = x /\ \A s \in Trees : s # t => row[s] = b.pt[p][s]
  BY <1>2, Zenon
<1> HIDE DEF row
<1>4. SameFrame(b, c) /\ c.pt[p] = row /\ \A q \in Ports : q # p => c.pt[q] = b.pt[q]
  BY RowUpdated
<1> HIDE DEF c
<1>5. c.pt[p][t] = x /\ \A q \in Ports, s \in Trees : q # p \/ s # t => c.pt[q][s] = b.pt[q][s]
  BY <1>3, <1>4, Zenon
<1> QED BY <1>1, <1>4, <1>5, Zenon

\* Updates of one PORT, and of the fields that the roles do not hang on.
LEMMA PortUpdated ==
  ASSUME NEW b \in Bridge, NEW p \in Ports, NEW y, AlikePort(b.port[p], y)
  PROVE  Untouched(b, SetPort(b, p, y))
<1> DEFINE c == SetPort(b, p, y)
<1>1. /\ c.BEGIN = b.BEGIN /\ c.started = b.started /\ c.tree = b.tree /\ c.pt = b.pt
      /\ c.ForceProtocolVersion = b.ForceProtocolVersion /\ c.receivedBpdu = b.receivedBpdu
      /\ c.port = [b.port EXCEPT ![p] = y]
  BY ZenonT(60) DEF Bridge, SetPort
<1>2. \A q \in Ports : c.port[q] = IF q = p THEN y ELSE b.port[q]
  <2>1. b.port \in [Ports -> Port]
    BY Zenon DEF Bridge
  <2> QED BY <1>1, <2>1, Zenon
<1> HIDE DEF c
<1>3. SameFrame(b, c)
  <2>1. \A q \in Ports : AlikePort(b.port[q], c.port[q])
    BY <1>2, Zenon DEF AlikePort
  <2> QED BY <1>1, <2>1, Zenon DEF SameFrame
<1>4. Untouched(b, c)
  BY <1>1, <1>3, NothingTouched, Zenon DEF Untouched
<1> QED BY <1>4, Zenon DEF c

LEMMA SetPortTreeUntouched ==
  ASSUME NEW b \in Bridge, NEW p \in Ports, NEW t \in Trees, NEW x, Fades(b.pt[p][t], x)
  PROVE  Untouched(b, SetPortTree(b, p, t, x))
<1> DEFINE c == SetPortTree(b, p, t, x)
<1>1. /\ SameFrame(b, c) /\ c.pt[p][t] = x
      /\ \A q \in Ports, s \in Trees : q # p \/ s # t => c.pt[q][s] = b.pt[q][s]
  BY PortTreeUpdated
<1> HIDE DEF c
<1>2. ASSUME NEW q \in Ports, NEW s \in Trees
      PROVE  Fades(b.pt[q][s], c.pt[q][s])
  <2>1. CASE q = p /\ s = t
    BY <1>1, <2>1, Zenon
  <2>2. CASE q # p \/ s # t
    BY <1>1, <2>2, NothingTouched, Zenon
  <2> QED BY <2>1, <2>2, Zenon
<1>3. Untouched(b, c)
  BY <1>1, <1>2, Zenon DEF Untouched
<1> QED BY <1>3, Zenon DEF c

LEMMA SetRowUntouched ==
  ASSUME NEW b \in Bridge, NEW p \in Ports, NEW row, \A s \in Trees : Fades(b.pt[p][s], row[s])
  PROVE  Untouched(b, [b EXCEPT !.pt[p] = row])
<1> DEFINE c == [b EXCEPT !.pt[p] = row]
<1>1. SameFrame(b, c) /\ c.pt[p] = row /\ \A q \in Ports : q # p => c.pt[q] = b.pt[q]
  BY RowUpdated
<1> HIDE DEF c
<1>2. ASSUME NEW q \in Ports, NEW s \in Trees
      PROVE  Fades(b.pt[q][s], c.pt[q][s])
  <2>1. CASE q = p
    BY <1>1, <2>1, Zenon
  <2>2. CASE q # p
    BY <1>1, <2>2, NothingTouched, Zenon
  <2> QED BY <2>1, <2>2, Zenon
<1>3. Untouched(b, c)
  BY <1>1, <1>2, Zenon DEF Untouched
<1> QED BY <1>3, Zenon DEF c

LEMMA SetPtUntouched ==
  ASSUME NEW b \in Bridge, NEW f, \A q \in Ports, s \in Trees : Fades(b.pt[q][s], f[q][s])
  PROVE  Untouched(b, [b EXCEPT !.pt = f])
<1> DEFINE c == [b EXCEPT !.pt = f]
<1>1. SameFrame(b, c) /\ c.pt = f
  BY TreesUpdated, Zenon
<1> HIDE DEF c
<1>2. Untouched(b, c)
  BY <1>1, Zenon DEF Untouched
<1> QED BY <1>2, Zenon DEF c

\* The assignments to a PORT_TREE that the procedures make.
LEMMA TreeFieldsFade ==
  ASSUME NEW x \in PortTree, NEW v, NEW w
  PROVE  /\ Fades(x, [x EXCEPT !.rcvdMsg = FALSE])
         /\ Fades(x, [x EXCEPT !.reRoot = v])
         /\ Fades(x, [x EXCEPT !.sync = v])
         /\ Fades(x, [x EXCEPT !.tcProp = v])
         /\ Fades(x, [x EXCEPT !.rcvdTc = v])
         /\ Fades(x, [x EXCEPT !.rcvdTc = v, !.tcProp = w])
         /\ Fades(x, [x EXCEPT !.proposed = v])
         /\ Fades(x, [x EXCEPT !.disputed = v, !.agreed = w])
         /\ Fades(x, [x EXCEPT !.agreed = v, !.proposing = w])
         /\ Fades(x, [x EXCEPT !.portPriority = v])
         /\ Fades(x, [x EXCEPT !.portTimes = v])
         /\ Fades(x, [x EXCEPT !.rcvdInfoWhile = v])
  BY ZenonT(120) DEF PortTree, Fades, Alike

LEMMA MoreTreeFieldsFade ==
  ASSUME NEW x \in PortTree, NEW v, NEW w
  PROVE  /\ Fades(x, [x EXCEPT !.tcDetected = v])
         /\ Fades(x, [x EXCEPT !.tcWhile = v])
         /\ Fades(x, [x EXCEPT !.tcDetected = v, !.tcWhile = w])
         /\ Fades(x, [x EXCEPT !.agree = v])
         /\ Fades(x, [x EXCEPT !.synced = v])
         /\ Fades(x, [x EXCEPT !.proposing = v])
         /\ Fades(x, [x EXCEPT !.topologyChangeState = v])
         /\ Fades(x, [x EXCEPT !.designatedPriority = v, !.designatedTimes = w])
         /\ Fades(x, [x EXCEPT !.agree = FALSE, !.agreed = FALSE, !.synced = FALSE, !.sync = TRUE])
         /\ Fades(x, TickedPortTree(x))
         /\ Alike(x, [x EXCEPT !.rcvdMsg = v])
  BY ZenonT(120) DEF PortTree, Fades, Alike, TickedPortTree

\* The assignments to a PORT.
LEMMA PortFieldsAlike ==
  ASSUME NEW y \in Port, NEW v, NEW w
  PROVE  /\ AlikePort(y, [y EXCEPT !.rcvdSTP = v])
         /\ AlikePort(y, [y EXCEPT !.rcvdRSTP = v])
         /\ AlikePort(y, [y EXCEPT !.rcvdTcn = v])
         /\ AlikePort(y, [y EXCEPT !.rcvdTcAck = v])
         /\ AlikePort(y, [y EXCEPT !.mastered = v])
         /\ AlikePort(y, [y EXCEPT !.newInfo = v])
         /\ AlikePort(y, [y EXCEPT !.newInfoMsti = v])
         /\ AlikePort(y, [y EXCEPT !.rcvdInternal = v])
         /\ AlikePort(y, [y EXCEPT !.infoInternal = v])
         /\ AlikePort(y, [y EXCEPT !.edgeDelayWhile = v])
         /\ AlikePort(y, [y EXCEPT !.tcAck = v])
         /\ AlikePort(y, [y EXCEPT !.tick = v])
         /\ AlikePort(y, TickedPort(y))
         /\ AlikePort(y, [y EXCEPT !.rcvdTcn = v, !.rcvdTcAck = w])
         /\ AlikePort(y, [y EXCEPT !.rcvdTcn = v, !.tcAck = w])
         /\ AlikePort(y, [y EXCEPT !.rcvdRSTP = v, !.rcvdSTP = w])
         /\ AlikePort(y, [y EXCEPT !.sendRSTP = v, !.mDelayWhile = w])
         /\ AlikePort(y, [y EXCEPT !.operEdge = v, !.isolate = w])
         /\ AlikePort(y, [y EXCEPT !.rcvdBpdu = FALSE, !.rcvdRSTP = FALSE, !.rcvdSTP = FALSE,
                                   !.edgeDelayWhile = v])
         /\ AlikePort(y, [y EXCEPT !.operEdge = FALSE, !.isolate = FALSE, !.rcvdBpdu = FALSE,
                                   !.edgeDelayWhile = v])
         /\ AlikePort(y, [y EXCEPT !.portProtocolMigrationState = v])
         /\ AlikePort(y, [y EXCEPT !.portReceiveState = v])
         /\ AlikePort(y, [y EXCEPT !.bridgeDetectionState = v])
         /\ AlikePort(y, [y EXCEPT !.portTransmitState = v])
         /\ v # "NONE" => AlikePort(y, [y EXCEPT !.portTimersState = v])
  BY ZenonT(120) DEF Port, AlikePort, TickedPort

-----------------------------------------------------------------------------
(***************************************************************************)
(* Procedures.                                                             *)
(***************************************************************************)
\* What OnTrees does for the procedures.
LEMMA RowsUntouched ==
  ASSUME NEW b \in Bridge, NEW p \in Ports, NEW S
  PROVE  /\ Untouched(b, OnTrees(b, p, S, LAMBDA x : [x EXCEPT !.rcvdMsg = FALSE]))
         /\ Untouched(b, OnTrees(b, p, S, LAMBDA x : [x EXCEPT !.rcvdTc = TRUE]))
         /\ Untouched(b, OnTrees(b, p, S, LAMBDA x : [x EXCEPT !.proposed = TRUE]))
         /\ Untouched(b, OnTrees(b, p, S, LAMBDA x : [x EXCEPT !.disputed = TRUE,
                                                               !.agreed = FALSE]))
         /\ Untouched(b, OnTrees(b, p, S, TickedPortTree))
<1>1. ASSUME NEW s \in Trees
      PROVE  b.pt[p][s] \in PortTree
  BY BridgeParts, Zenon
<1>2. ASSUME NEW row,
             \/ row = [s \in Trees |-> IF s \in S THEN [b.pt[p][s] EXCEPT !.rcvdMsg = FALSE]
                                       ELSE b.pt[p][s]]
             \/ row = [s \in Trees |-> IF s \in S THEN [b.pt[p][s] EXCEPT !.rcvdTc = TRUE]
                                       ELSE b.pt[p][s]]
             \/ row = [s \in Trees |-> IF s \in S THEN [b.pt[p][s] EXCEPT !.proposed = TRUE]
                                       ELSE b.pt[p][s]]
             \/ row = [s \in Trees |-> IF s \in S THEN [b.pt[p][s] EXCEPT !.disputed = TRUE,
                                                                          !.agreed = FALSE]
                                       ELSE b.pt[p][s]]
             \/ row = [s \in Trees |-> IF s \in S THEN TickedPortTree(b.pt[p][s])
                                       ELSE b.pt[p][s]]
      PROVE  Untouched(b, [b EXCEPT !.pt[p] = row])
  <2>1. ASSUME NEW s \in Trees
        PROVE  Fades(b.pt[p][s], row[s])
    <3>1. row[s] \in {b.pt[p][s], [b.pt[p][s] EXCEPT !.rcvdMsg = FALSE],
                      [b.pt[p][s] EXCEPT !.rcvdTc = TRUE], [b.pt[p][s] EXCEPT !.proposed = TRUE],
                      [b.pt[p][s] EXCEPT !.disputed = TRUE, !.agreed = FALSE],
                      TickedPortTree(b.pt[p][s])}
      BY <1>2, Zenon
    <3> DEFINE x == b.pt[p][s]
    <3>2. /\ Fades(x, x) /\ Fades(x, [x EXCEPT !.rcvdMsg = FALSE])
          /\ Fades(x, [x EXCEPT !.rcvdTc = TRUE]) /\ Fades(x, [x EXCEPT !.proposed = TRUE])
          /\ Fades(x, [x EXCEPT !.disputed = TRUE, !.agreed = FALSE])
          /\ Fades(x, TickedPortTree(x))
      BY <1>1, NothingTouched, TreeFieldsFade, MoreTreeFieldsFade, Zenon
    <3> QED BY <3>1, <3>2, Zenon
  <2> QED BY <2>1, SetRowUntouched, Zenon
<1> QED BY <1>2, Zenon DEF OnTrees

\* What OnPorts does for them.
LEMMA ColumnsUntouched ==
  ASSUME NEW b \in Bridge, NEW t \in Trees, NEW S
  PROVE  /\ Untouched(b, OnPorts(b, t, S, LAMBDA x : [x EXCEPT !.reRoot = TRUE]))
         /\ Untouched(b, OnPorts(b, t, S, LAMBDA x : [x EXCEPT !.sync = TRUE]))
         /\ Untouched(b, OnPorts(b, t, S, LAMBDA x : [x EXCEPT !.tcProp = TRUE]))
<1>1. ASSUME NEW q \in Ports, NEW s \in Trees
      PROVE  b.pt[q][s] \in PortTree /\ b.pt[q] \in [Trees -> PortTree]
  BY BridgeParts, Zenon DEF Bridge
<1>2. ASSUME NEW q \in Ports, NEW s \in Trees, NEW x, Fades(b.pt[q][t], x)
      PROVE  Fades(b.pt[q][s], [b.pt[q] EXCEPT ![t] = x][s])
  BY <1>1, <1>2, NothingTouched, Zenon
<1>3. ASSUME NEW f,
             \/ f = [q \in Ports |-> IF q \in S
                                     THEN [b.pt[q] EXCEPT ![t] = [b.pt[q][t] EXCEPT !.reRoot = TRUE]]
                                     ELSE b.pt[q]]
             \/ f = [q \in Ports |-> IF q \in S
                                     THEN [b.pt[q] EXCEPT ![t] = [b.pt[q][t] EXCEPT !.sync = TRUE]]
                                     ELSE b.pt[q]]
             \/ f = [q \in Ports |-> IF q \in S
                                     THEN [b.pt[q] EXCEPT ![t] = [b.pt[q][t] EXCEPT !.tcProp = TRUE]]
                                     ELSE b.pt[q]]
      PROVE  Untouched(b, [b EXCEPT !.pt = f])
  <2>1. ASSUME NEW q \in Ports, NEW s \in Trees
        PROVE  Fades(b.pt[q][s], f[q][s])
    <3>1. \/ f[q] = b.pt[q]
          \/ f[q] = [b.pt[q] EXCEPT ![t] = [b.pt[q][t] EXCEPT !.reRoot = TRUE]]
          \/ f[q] = [b.pt[q] EXCEPT ![t] = [b.pt[q][t] EXCEPT !.sync = TRUE]]
          \/ f[q] = [b.pt[q] EXCEPT ![t] = [b.pt[q][t] EXCEPT !.tcProp = TRUE]]
      BY <1>3, Zenon
    <3>2. /\ Fades(b.pt[q][t], [b.pt[q][t] EXCEPT !.reRoot = TRUE])
          /\ Fades(b.pt[q][t], [b.pt[q][t] EXCEPT !.sync = TRUE])
          /\ Fades(b.pt[q][t], [b.pt[q][t] EXCEPT !.tcProp = TRUE])
      BY <1>1, TreeFieldsFade, Zenon
    <3> QED BY <1>2, <3>1, <3>2, NothingTouched, Zenon
  <2> QED BY <2>1, SetPtUntouched, Zenon
<1> QED BY <1>3, Zenon DEF OnPorts

\* The procedures that update whole trees, or one field of one tree.
LEMMA TreeProceduresUntouched ==
  ASSUME NEW b \in Bridge, NEW p \in Ports, NEW t \in Trees
  PROVE  /\ Untouched(b, clearAllRcvdMsgs(b, p)) /\ Untouched(b, setReRootTree(b, t))
         /\ Untouched(b, setSyncTree(b, t)) /\ Untouched(b, setTcPropTree(b, p, t))
         /\ Untouched(b, recordDispute(b, p, t)) /\ Untouched(b, recordProposal(b, p, t))
         /\ Untouched(b, recordPriority(b, p, t)) /\ Untouched(b, recordTimes(b, p, t))
         /\ Untouched(b, updtRcvdInfoWhile(b, p, t)) /\ Untouched(b, newTcDetected(b, p, t))
         /\ Untouched(b, MessageDone(b, p, t))
<1>1. b.pt[p][t] \in PortTree
  BY BridgeParts, Zenon
<1>2. /\ Untouched(b, clearAllRcvdMsgs(b, p)) /\ Untouched(b, setReRootTree(b, t))
      /\ Untouched(b, setSyncTree(b, t)) /\ Untouched(b, setTcPropTree(b, p, t))
      /\ Untouched(b, recordDispute(b, p, t)) /\ Untouched(b, recordProposal(b, p, t))
  BY RowsUntouched, ColumnsUntouched, NothingTouched, Zenon
     DEF clearAllRcvdMsgs, setReRootTree, setSyncTree, setTcPropTree, recordDispute, recordProposal
<1> QED BY <1>1, <1>2, TreeFieldsFade, MoreTreeFieldsFade, SetPortTreeUntouched, NothingTouched,
           Zenon DEF recordPriority, recordTimes, updtRcvdInfoWhile, newTcDetected, MessageDone

\* The procedures that store one flag in the PORT.
LEMMA FlagProceduresUntouched ==
  ASSUME NEW b \in Bridge, NEW p \in Ports, NEW t \in Trees
  PROVE  /\ Untouched(b, updtBPDUVersion(b, p)) /\ Untouched(b, recordMastered(b, p, t))
         /\ Untouched(b, SetNewInfo(b, p, t)) /\ Untouched(b, NotingRegion(b, p))
<1>1. b.port[p] \in Port
  BY BridgeParts, Zenon
<1> QED BY <1>1, PortFieldsAlike, PortUpdated, Zenon
        DEF updtBPDUVersion, recordMastered, SetNewInfo, NotingRegion

\* recordAgreement
LEMMA recordAgreementUntouched ==
  ASSUME NEW b \in Bridge, NEW p \in Ports, NEW t \in Trees
  PROVE  Untouched(b, recordAgreement(b, p, t))
<1> DEFINE agrees == /\ b.port[p].operPointToPointMAC
                     /\ b.pt[p][t].msgFlags.Agreement
                     /\ IF cist(t) THEN rstpVersion(b) ELSE SameCistRegionalRoot(b, p)
           x  == [b.pt[p][t] EXCEPT !.agreed = agrees, !.proposing = @ /\ ~agrees]
           b1 == SetPortTree(b, p, t, x)
           b2 == OnTrees(b1, p, MstisOf(b),
                         LAMBDA y : [y EXCEPT !.agreed = x.agreed, !.proposing = x.proposing])
<1>1. recordAgreement(b, p, t) = IF ~SpeaksForMstis(b, p, t) THEN b1 ELSE b2
  BY DEF recordAgreement
<1>2. b.pt[p][t] \in PortTree /\ agrees \in BOOLEAN
  BY BridgeParts, Zenon
<1> HIDE DEF agrees
<1>3. x \in PortTree /\ Fades(b.pt[p][t], x)
  <2>1. (b.pt[p][t].proposing /\ ~agrees) \in BOOLEAN
    BY Zenon
  <2>2. x \in PortTree
    BY <1>2, <2>1, ZenonT(60) DEF PortTree
  <2> QED BY <1>2, <2>2, TreeFieldsFade, Zenon
<1> HIDE DEF x
<1>4. b1 \in Bridge /\ Untouched(b, b1)
  BY <1>3, SetPortTreeTyped, SetPortTreeUntouched, Zenon
<1> HIDE DEF b1
<1>5. Untouched(b1, b2)
  <2> DEFINE row == [s \in Trees |-> IF s \in MstisOf(b)
                                     THEN [b1.pt[p][s] EXCEPT !.agreed = x.agreed,
                                                              !.proposing = x.proposing]
                                     ELSE b1.pt[p][s]]
  <2>1. ASSUME NEW s \in Trees
        PROVE  Fades(b1.pt[p][s], row[s])
    <3>1. b1.pt[p][s] \in PortTree
      BY <1>4, BridgeParts, Zenon
    <3> QED BY <3>1, TreeFieldsFade, NothingTouched, Zenon
  <2>2. b2 = [b1 EXCEPT !.pt[p] = row]
    BY DEF OnTrees
  <2> HIDE DEF row, b2
  <2> QED BY <1>4, <2>1, <2>2, SetRowUntouched, Zenon
<1> QED BY <1>1, <1>4, <1>5, UntouchedTwice, Zenon

\* setTcFlags
LEMMA setTcFlagsUntouched ==
  ASSUME NEW b \in Bridge, NEW p \in Ports, NEW t \in Trees
  PROVE  Untouched(b, setTcFlags(b, p, t))
<1> DEFINE f  == b.pt[p][t].msgFlags
           b1 == IF cist(t) /\ f.TcAckOrMaster
                 THEN SetPort(b, p, [b.port[p] EXCEPT !.rcvdTcAck = TRUE])
                 ELSE b
           b2 == OnTrees(b1, p, IF SpeaksForMstis(b, p, t) THEN TreesOf(b) ELSE {t},
                         LAMBDA x : [x EXCEPT !.rcvdTc = TRUE])
<1>1. b.port[p] \in Port /\ [b.port[p] EXCEPT !.rcvdTcAck = TRUE] \in Port
  <2>1. b.port[p] \in Port
    BY BridgeParts, Zenon
  <2> QED BY <2>1, ZenonT(60) DEF Port
<1>2. b1 \in Bridge /\ Untouched(b, b1)
  BY <1>1, PortFieldsAlike, SetPortTyped, PortUpdated, NothingTouched, Zenon
<1>3. setTcFlags(b, p, t) = IF ~f.Tc THEN b1 ELSE b2
  BY DEF setTcFlags
<1> HIDE DEF b1
<1>4. Untouched(b1, b2)
  BY <1>2, RowsUntouched, Zenon
<1> QED BY <1>2, <1>3, <1>4, UntouchedTwice, Zenon

\* newTcWhile
LEMMA newTcWhileUntouched ==
  ASSUME NEW b \in Bridge, NEW p \in Ports, NEW t \in Trees
  PROVE  Untouched(b, newTcWhile(b, p, t))
<1> DEFINE b1 == SetPortTree(b, p, t, [b.pt[p][t] EXCEPT !.tcWhile = TcPeriod(b, p, t)])
<1>1. b.pt[p][t] \in PortTree /\ TcPeriod(b, p, t) \in Nat
  BY BridgeParts, TcPeriodTyped, Zenon
<1>2. [b.pt[p][t] EXCEPT !.tcWhile = TcPeriod(b, p, t)] \in PortTree
  BY <1>1, ZenonT(60) DEF PortTree
<1>3. b1 \in Bridge /\ Untouched(b, b1)
  BY <1>1, <1>2, MoreTreeFieldsFade, SetPortTreeTyped, SetPortTreeUntouched, Zenon
<1>4. newTcWhile(b, p, t) \in {b, b1, SetNewInfo(b1, p, t)}
  BY Zenon DEF newTcWhile
<1> HIDE DEF b1
<1>5. Untouched(b, SetNewInfo(b1, p, t))
  BY <1>3, FlagProceduresUntouched, UntouchedTwice, Zenon
<1> QED BY <1>3, <1>4, <1>5, NothingTouched, Zenon

\* syncMaster
LEMMA syncMasterUntouched ==
  ASSUME NEW b \in Bridge
  PROVE  Untouched(b, syncMaster(b))
<1> DEFINE f == [p \in Ports |-> [t \in Trees |->
                   IF b.port[p].infoInternal /\ t \in MstisOf(b)
                   THEN [b.pt[p][t] EXCEPT !.agree = FALSE, !.agreed = FALSE, !.synced = FALSE,
                                           !.sync = TRUE]
                   ELSE b.pt[p][t]]]
<1>1. ASSUME NEW q \in Ports, NEW s \in Trees
      PROVE  Fades(b.pt[q][s], f[q][s])
  <2>1. b.pt[q][s] \in PortTree
    BY BridgeParts, Zenon
  <2> QED BY <2>1, MoreTreeFieldsFade, NothingTouched, Zenon
<1>2. syncMaster(b) = [b EXCEPT !.pt = f]
  BY DEF syncMaster
<1> HIDE DEF f
<1> QED BY <1>1, <1>2, SetPtUntouched, Zenon

-----------------------------------------------------------------------------
(***************************************************************************)
(* Machines that do not touch the roles.                                   *)
(***************************************************************************)
\* One more update of the port's own objects.
LEMMA OneMoreUntouched ==
  ASSUME NEW b, NEW c \in Bridge, Untouched(b, c), NEW p \in Ports, NEW t \in Trees
  PROVE  /\ \A x : Fades(c.pt[p][t], x) => Untouched(b, SetPortTree(c, p, t, x))
         /\ \A y : AlikePort(c.port[p], y) => Untouched(b, SetPort(c, p, y))
  BY SetPortTreeUntouched, PortUpdated, UntouchedTwice, Zenon

\* Entry blocks of Port Protocol Migration and Bridge Detection.
LEMMA FlagBlocksUntouched ==
  ASSUME NEW b \in Bridge, NEW p \in Ports, NEW state
  PROVE  /\ Untouched(b, ProtocolMigrationEnter(b, p, state))
         /\ Untouched(b, BridgeDetectionEnter(b, p, state))
<1>1. b.port[p] \in Port
  BY BridgeParts, CistIsTree, Zenon
<1> QED BY <1>1, PortFieldsAlike, PortUpdated, Zenon DEF ProtocolMigrationEnter, BridgeDetectionEnter

\* Entry blocks of Port Timers.
LEMMA PortTimersEnterUntouched ==
  ASSUME NEW b \in Bridge, NEW p \in Ports, NEW state
  PROVE  PortTimersEnter(b, p, state) \in Bridge /\ Untouched(b, PortTimersEnter(b, p, state))
<1> DEFINE b1 == SetPort(b, p, TickedPort(b.port[p]))
<1>1. b.port[p] \in Port /\ TickedPort(b.port[p]) \in Port
  <2>1. ASSUME NEW n \in Nat
        PROVE  Tick(n) \in Nat
    BY SMT DEF Tick
  <2>2. b.port[p] \in Port
    BY BridgeParts, CistIsTree, Zenon
  <2> QED BY <2>1, <2>2, PortFields, ZenonT(60) DEF TickedPort, Port
<1>2. b1 \in Bridge /\ Untouched(b, b1)
  BY <1>1, PortFieldsAlike, SetPortTyped, PortUpdated, Zenon
<1>3. PortTimersEnter(b, p, state) =
        IF state = "ONE_SECOND" THEN SetPort(b, p, [b.port[p] EXCEPT !.tick = FALSE])
        ELSE OnTrees(b1, p, TreesOf(b), TickedPortTree)
  BY DEF PortTimersEnter
<1> HIDE DEF b1
<1>4. /\ SetPort(b, p, [b.port[p] EXCEPT !.tick = FALSE]) \in Bridge
      /\ Untouched(b, SetPort(b, p, [b.port[p] EXCEPT !.tick = FALSE]))
  <2>1. [b.port[p] EXCEPT !.tick = FALSE] \in Port
    BY <1>1, ZenonT(60) DEF Port
  <2> QED BY <1>1, <2>1, PortFieldsAlike, SetPortTyped, PortUpdated, Zenon
<1>5. /\ OnTrees(b1, p, TreesOf(b), TickedPortTree) \in Bridge
      /\ Untouched(b, OnTrees(b1, p, TreesOf(b), TickedPortTree))
  BY <1>2, TickedTreesTyped, RowsUntouched, UntouchedTwice, Zenon
<1> QED BY <1>3, <1>4, <1>5, Zenon

\* Port Timers: it ticks down timers, and its state is not "NONE".
LEMMA PortTimersUntouched ==
  ASSUME NEW b \in Bridge, NEW p \in Ports, PortTimersNext(b, p) # "NONE"
  PROVE  Untouched(b, EnterPortTimers(b, p))
<1> DEFINE state == PortTimersNext(b, p)
           b1    == PortTimersEnter(b, p, state)
<1>1. b1 \in Bridge /\ Untouched(b, b1)
  BY PortTimersEnterUntouched, Zenon
<1>2. EnterPortTimers(b, p) = SetPort(b1, p, [b1.port[p] EXCEPT !.portTimersState = state])
  BY DEF EnterPortTimers
<1>3. state # "NONE"
  OBVIOUS
<1> HIDE DEF b1, state
<1>4. b1.port[p] \in Port
  BY <1>1, BridgeParts, CistIsTree, Zenon
<1>5. AlikePort(b1.port[p], [b1.port[p] EXCEPT !.portTimersState = state])
  BY <1>3, <1>4, PortFieldsAlike, Zenon
<1> QED BY <1>1, <1>2, <1>5, OneMoreUntouched, CistIsTree, Zenon

\* Port Protocol Migration and Bridge Detection.
LEMMA FlagMachinesUntouched ==
  ASSUME NEW b \in Bridge, NEW p \in Ports
  PROVE  /\ Untouched(b, EnterProtocolMigration(b, p))
         /\ Untouched(b, EnterBridgeDetection(b, p))
<1> DEFINE m  == ProtocolMigrationNext(b, p)
           b1 == ProtocolMigrationEnter(b, p, m)
           d  == BridgeDetectionNext(b, p)
           b2 == BridgeDetectionEnter(b, p, d)
<1>1. /\ EnterProtocolMigration(b, p)
           = SetPort(b1, p, [b1.port[p] EXCEPT !.portProtocolMigrationState = m])
      /\ EnterBridgeDetection(b, p) = SetPort(b2, p, [b2.port[p] EXCEPT !.bridgeDetectionState = d])
  BY DEF EnterProtocolMigration, EnterBridgeDetection
<1>2. b1 \in Bridge /\ Untouched(b, b1) /\ b2 \in Bridge /\ Untouched(b, b2)
  BY ProtocolMigrationEnterTyped, BridgeDetectionEnterTyped, FlagBlocksUntouched, Zenon
<1> HIDE DEF b1, b2, m, d
<1>3. b1.port[p] \in Port /\ b2.port[p] \in Port
  BY <1>2, BridgeParts, CistIsTree, Zenon
<1>4. /\ AlikePort(b1.port[p], [b1.port[p] EXCEPT !.portProtocolMigrationState = m])
      /\ AlikePort(b2.port[p], [b2.port[p] EXCEPT !.bridgeDetectionState = d])
  BY <1>3, PortFieldsAlike, Zenon
<1>5. Untouched(b, SetPort(b1, p, [b1.port[p] EXCEPT !.portProtocolMigrationState = m]))
  BY <1>2, <1>4, OneMoreUntouched, CistIsTree, Zenon
<1>6. Untouched(b, SetPort(b2, p, [b2.port[p] EXCEPT !.bridgeDetectionState = d]))
  BY <1>2, <1>4, OneMoreUntouched, CistIsTree, Zenon
<1> QED BY <1>1, <1>5, <1>6

\* Entry blocks of Topology Change, those of several steps first.
LEMMA TopologyBlocksUntouched ==
  ASSUME NEW b \in Bridge, NEW p \in Ports, NEW t \in Trees
  PROVE  /\ Untouched(b, EnterInactive(b, p, t)) /\ Untouched(b, EnterTcLearning(b, p, t))
         /\ Untouched(b, EnterNotifiedTc(b, p, t)) /\ Untouched(b, EnterAcknowledged(b, p, t))
<1> DEFINE x  == b.pt[p][t]
           y  == b.port[p]
           b1 == SetPortTree(b, p, t, [x EXCEPT !.tcDetected = 0, !.tcWhile = 0])
           b2 == SetPortTree(b, p, t, [x EXCEPT !.rcvdTc = FALSE, !.tcProp = FALSE])
           b3 == SetPortTree(b, p, t, [x EXCEPT !.rcvdTc = FALSE])
           b4 == SetPortTree(b, p, t, [x EXCEPT !.tcWhile = 0])
           z3 == [y EXCEPT !.rcvdTcn = FALSE, !.tcAck = @ \/ x.role = "DESIGNATED"]
           c3 == IF cist(t) THEN SetPort(b3, p, z3) ELSE b3
<1>1. x \in PortTree /\ y \in Port
  BY BridgeParts, Zenon
<1>2. /\ [x EXCEPT !.tcDetected = 0, !.tcWhile = 0] \in PortTree
      /\ [x EXCEPT !.rcvdTc = FALSE, !.tcProp = FALSE] \in PortTree
      /\ [x EXCEPT !.rcvdTc = FALSE] \in PortTree
      /\ [x EXCEPT !.tcWhile = 0] \in PortTree
  <2>1. 0 \in Nat
    BY SMT
  <2> HIDE DEF x
  <2> QED BY <1>1, <2>1, ZenonT(60) DEF PortTree
<1>3. /\ b1 \in Bridge /\ Untouched(b, b1) /\ b2 \in Bridge /\ Untouched(b, b2)
      /\ b3 \in Bridge /\ Untouched(b, b3) /\ b4 \in Bridge /\ Untouched(b, b4)
  <2>1. /\ Fades(x, [x EXCEPT !.tcDetected = 0, !.tcWhile = 0])
        /\ Fades(x, [x EXCEPT !.rcvdTc = FALSE, !.tcProp = FALSE])
        /\ Fades(x, [x EXCEPT !.rcvdTc = FALSE]) /\ Fades(x, [x EXCEPT !.tcWhile = 0])
    <3> HIDE DEF x
    <3> QED BY <1>1, TreeFieldsFade, MoreTreeFieldsFade, Zenon
  <2> QED BY <1>2, <2>1, SetPortTreeTyped, SetPortTreeUntouched, Zenon
<1>4. /\ EnterInactive(b, p, t)
           = IF cist(t) THEN SetPort(b1, p, [b1.port[p] EXCEPT !.tcAck = FALSE]) ELSE b1
      /\ EnterTcLearning(b, p, t)
           = IF cist(t)
             THEN SetPort(b2, p, [b2.port[p] EXCEPT !.rcvdTcn = FALSE, !.rcvdTcAck = FALSE])
             ELSE b2
      /\ EnterAcknowledged(b, p, t) = SetPort(b4, p, [y EXCEPT !.rcvdTcAck = FALSE])
      /\ EnterNotifiedTc(b, p, t) = setTcPropTree(c3, p, t)
  BY DEF EnterInactive, EnterTcLearning, EnterAcknowledged, EnterNotifiedTc
<1>5. b3.port = b.port /\ b4.port = b.port
  BY ZenonT(60) DEF Bridge, SetPortTree
<1> HIDE DEF b1, b2, b3, b4
<1>6. /\ AlikePort(b1.port[p], [b1.port[p] EXCEPT !.tcAck = FALSE])
      /\ AlikePort(b2.port[p], [b2.port[p] EXCEPT !.rcvdTcn = FALSE, !.rcvdTcAck = FALSE])
      /\ AlikePort(b4.port[p], [y EXCEPT !.rcvdTcAck = FALSE])
      /\ AlikePort(b3.port[p], z3)
  <2>1. b1.port[p] \in Port /\ b2.port[p] \in Port
    BY <1>3, BridgeParts, Zenon
  <2> QED BY <1>1, <1>5, <2>1, PortFieldsAlike, Zenon
<1>7. Untouched(b, EnterInactive(b, p, t)) /\ Untouched(b, EnterTcLearning(b, p, t))
  <2>1. Untouched(b, SetPort(b1, p, [b1.port[p] EXCEPT !.tcAck = FALSE]))
    BY <1>3, <1>6, OneMoreUntouched, Zenon
  <2>2. Untouched(b, SetPort(b2, p, [b2.port[p] EXCEPT !.rcvdTcn = FALSE, !.rcvdTcAck = FALSE]))
    BY <1>3, <1>6, OneMoreUntouched, Zenon
  <2> QED BY <1>3, <1>4, <2>1, <2>2
<1>8. Untouched(b, EnterAcknowledged(b, p, t))
  BY <1>3, <1>4, <1>6, OneMoreUntouched, Zenon
<1>9. z3 \in Port
  <2>1. (y.tcAck \/ x.role = "DESIGNATED") \in BOOLEAN
    BY Zenon
  <2> QED BY <1>1, <2>1, ZenonT(60) DEF Port
<1> HIDE DEF z3
<1>10. c3 \in Bridge /\ Untouched(b, c3)
  BY <1>3, <1>6, <1>9, SetPortTyped, OneMoreUntouched, Zenon
<1> HIDE DEF c3
<1>11. Untouched(b, setTcPropTree(c3, p, t))
  BY <1>10, TreeProceduresUntouched, UntouchedTwice, Zenon
<1> QED BY <1>4, <1>7, <1>8, <1>11, Zenon

LEMMA DetectedUntouched ==
  ASSUME NEW b \in Bridge, NEW p \in Ports, NEW t \in Trees
  PROVE  Untouched(b, EnterDetected(b, p, t)) /\ Untouched(b, EnterPropagating(b, p, t))
<1> DEFINE b1 == newTcWhile(b, p, t)
           b2 == setTcPropTree(b1, p, t)
           b3 == newTcDetected(b2, p, t)
<1>1. /\ EnterDetected(b, p, t) = SetNewInfo(b3, p, t)
      /\ EnterPropagating(b, p, t) = SetPortTree(b1, p, t, [b1.pt[p][t] EXCEPT !.tcProp = FALSE])
  BY DEF EnterDetected, EnterPropagating
<1>2. b1 \in Bridge /\ Untouched(b, b1)
  BY newTcWhileTyped, newTcWhileUntouched, Zenon
<1> HIDE DEF b1
<1>3. b2 \in Bridge /\ Untouched(b, b2)
  BY <1>2, setTcPropTreeTyped, TreeProceduresUntouched, UntouchedTwice, Zenon
<1> HIDE DEF b2
<1>4. b3 \in Bridge /\ Untouched(b, b3)
  BY <1>3, newTcDetectedTyped, TreeProceduresUntouched, UntouchedTwice, Zenon
<1> HIDE DEF b3
<1>5. Untouched(b, SetNewInfo(b3, p, t))
  BY <1>4, FlagProceduresUntouched, UntouchedTwice, Zenon
<1>6. Fades(b1.pt[p][t], [b1.pt[p][t] EXCEPT !.tcProp = FALSE])
  BY <1>2, BridgeParts, TreeFieldsFade, Zenon
<1>7. Untouched(b, EnterPropagating(b, p, t))
  BY <1>1, <1>2, <1>6, OneMoreUntouched, Zenon
<1> QED BY <1>1, <1>5, <1>7, Zenon

\* Topology Change.
LEMMA TopologyChangeUntouched ==
  ASSUME NEW b \in Bridge, NEW p \in Ports, NEW t \in Trees
  PROVE  Untouched(b, EnterTopologyChange(b, p, t))
<1> DEFINE state == TopologyChangeNext(b, p, t)
           b1    == TopologyChangeEnter(b, p, t, state)
<1>1. b1 \in Bridge
  BY TopologyChangeEnterTyped, Zenon
<1>2. Untouched(b, b1)
  BY TopologyBlocksUntouched, DetectedUntouched, newTcWhileUntouched, NothingTouched, Zenon
     DEF TopologyChangeEnter
<1>3. EnterTopologyChange(b, p, t)
        = SetPortTree(b1, p, t, [b1.pt[p][t] EXCEPT !.topologyChangeState = state])
  BY DEF EnterTopologyChange
<1> HIDE DEF b1, state
<1>4. Fades(b1.pt[p][t], [b1.pt[p][t] EXCEPT !.topologyChangeState = state])
  BY <1>1, BridgeParts, MoreTreeFieldsFade, Zenon
<1> QED BY <1>1, <1>2, <1>3, <1>4, OneMoreUntouched, Zenon

-----------------------------------------------------------------------------
(***************************************************************************)
(* Port Receive: messages come in, the roles stay.                         *)
(***************************************************************************)
\* PORT_TREEs of one port replaced by alike ones.
LEMMA AlikeTreesReplaced ==
  ASSUME NEW b \in Bridge, NEW p \in Ports, NEW t \in Trees, NEW x, NEW row
  PROVE  /\ Alike(b.pt[p][t], x) => RolesUntouched(b, SetPortTree(b, p, t, x))
         /\ (\A s \in Trees : Alike(b.pt[p][s], row[s]))
              => RolesUntouched(b, [b EXCEPT !.pt[p] = row])
<1>1. ASSUME Alike(b.pt[p][t], x)
      PROVE  RolesUntouched(b, SetPortTree(b, p, t, x))
  <2> DEFINE c == SetPortTree(b, p, t, x)
  <2>1. /\ SameFrame(b, c) /\ c.pt[p][t] = x
        /\ \A q \in Ports, s \in Trees : q # p \/ s # t => c.pt[q][s] = b.pt[q][s]
    BY PortTreeUpdated
  <2> HIDE DEF c
  <2>2. ASSUME NEW q \in Ports, NEW s \in Trees
        PROVE  Alike(b.pt[q][s], c.pt[q][s])
    <3>1. CASE q = p /\ s = t
      BY <1>1, <2>1, <3>1, Zenon
    <3>2. CASE q # p \/ s # t
      BY <2>1, <3>2, NothingTouched, Zenon
    <3> QED BY <3>1, <3>2, Zenon
  <2>3. RolesUntouched(b, c)
    BY <2>1, <2>2, Zenon DEF RolesUntouched
  <2> QED BY <2>3, Zenon DEF c
<1>2. ASSUME \A s \in Trees : Alike(b.pt[p][s], row[s])
      PROVE  RolesUntouched(b, [b EXCEPT !.pt[p] = row])
  <2> DEFINE c == [b EXCEPT !.pt[p] = row]
  <2>1. SameFrame(b, c) /\ c.pt[p] = row /\ \A q \in Ports : q # p => c.pt[q] = b.pt[q]
    BY RowUpdated
  <2> HIDE DEF c
  <2>2. ASSUME NEW q \in Ports, NEW s \in Trees
        PROVE  Alike(b.pt[q][s], c.pt[q][s])
    <3>1. CASE q = p
      BY <1>2, <2>1, <3>1, Zenon
    <3>2. CASE q # p
      BY <2>1, <3>2, NothingTouched, Zenon
    <3> QED BY <3>1, <3>2, Zenon
  <2>3. RolesUntouched(b, c)
    BY <2>1, <2>2, Zenon DEF RolesUntouched
  <2> QED BY <2>3, Zenon DEF c
<1> QED BY <1>1, <1>2, Zenon

\* What a message stores into a PORT_TREE.
LEMMA MessagesAlike ==
  ASSUME NEW x \in PortTree, NEW u, NEW v, NEW w
  PROVE  /\ Alike(x, [x EXCEPT !.msgPriority = u, !.msgTimes = v, !.msgFlags = w])
         /\ Alike(x, [x EXCEPT !.msgPriority = u, !.msgTimes = v, !.msgFlags = w,
                               !.rcvdMsg = TRUE])
         /\ Alike(x, [x EXCEPT !.rcvdMsg = TRUE])
  BY ZenonT(60) DEF PortTree, Alike

\* rcvMsgs
LEMMA rcvMsgsRolesUntouched ==
  ASSUME NEW b \in Bridge, NEW p \in Ports
  PROVE  RolesUntouched(b, rcvMsgs(b, p))
<1> DEFINE m  == b.receivedBpdu
           a  == SetPort(b, p, [b.port[p] EXCEPT !.rcvdTcn = TRUE])
           row1 == [s \in Trees |-> IF s \in MstisOf(b) THEN [a.pt[p][s] EXCEPT !.rcvdTc = TRUE]
                                    ELSE a.pt[p][s]]
           a1 == [a EXCEPT !.pt[p] = row1]
           b1 == IF m.type = "TCN" THEN a1 ELSE SetPortTree(b, p, CIST, CistMessage(b, p))
           b2 == SetPortTree(b1, p, CIST, [b1.pt[p][CIST] EXCEPT !.rcvdMsg = TRUE])
           row2 == [t \in Trees |->
                      IF t \in Mstis /\ t <= Len(m.msti) THEN MstiReceived(b, t, b2.pt[p][t])
                      ELSE b2.pt[p][t]]
<1>1. /\ b.port[p] \in Port /\ [b.port[p] EXCEPT !.rcvdTcn = TRUE] \in Port
      /\ b.pt[p][CIST] \in PortTree
  <2>1. b.port[p] \in Port /\ b.pt[p][CIST] \in PortTree
    BY BridgeParts, CistIsTree, Zenon
  <2> QED BY <2>1, ZenonT(60) DEF Port
<1>2. a \in Bridge /\ Untouched(b, a)
  BY <1>1, PortFieldsAlike, SetPortTyped, PortUpdated, Zenon
<1>3. rcvMsgs(b, p) = IF ~b.port[p].rcvdInternal THEN b2 ELSE [b2 EXCEPT !.pt[p] = row2]
  BY DEF rcvMsgs, OnTrees
<1>4. a1 = OnTrees(a, p, MstisOf(b), LAMBDA x : [x EXCEPT !.rcvdTc = TRUE])
  BY DEF OnTrees
<1> HIDE DEF a
<1>5. row1 \in [Trees -> PortTree]
  BY <1>2, BridgeParts, FlagUpdates, Zenon
<1> HIDE DEF row1
<1>6. a1 \in Bridge /\ RolesUntouched(b, a1)
  <2>1. a1 \in Bridge
    BY <1>2, <1>5, SetRowTyped, CistIsTree, Zenon
  <2>2. Untouched(a, OnTrees(a, p, MstisOf(b), LAMBDA x : [x EXCEPT !.rcvdTc = TRUE]))
    BY <1>2, RowsUntouched, Zenon
  <2> HIDE DEF a1
  <2>3. Untouched(a, a1)
    BY <1>4, <2>2
  <2> QED BY <1>2, <2>1, <2>3, UntouchedTwice, UntouchedWeaker, Zenon
<1> HIDE DEF a1
<1>7. b1 \in Bridge /\ RolesUntouched(b, b1)
  <2>1. Alike(b.pt[p][CIST], CistMessage(b, p))
    BY <1>1, MessagesAlike, Zenon DEF CistMessage
  <2>2. RolesUntouched(b, SetPortTree(b, p, CIST, CistMessage(b, p)))
    BY <2>1, AlikeTreesReplaced, CistIsTree, Zenon
  <2> QED BY <1>6, <2>2, CistMessageTyped, CistIsTree, SetPortTreeTyped, Zenon
<1> HIDE DEF b1
<1>8. b1.pt[p][CIST] \in PortTree
  BY <1>7, BridgeParts, CistIsTree, Zenon
<1>9. b2 \in Bridge /\ RolesUntouched(b1, b2)
  BY <1>7, <1>8, MessagesAlike, FlagUpdates, CistIsTree, SetPortTreeTyped, AlikeTreesReplaced, Zenon
<1> HIDE DEF b2
<1>10. ASSUME NEW s \in Trees
       PROVE  Alike(b2.pt[p][s], row2[s])
  <2>1. b2.pt[p][s] \in PortTree
    BY <1>9, BridgeParts, Zenon
  <2>2. Alike(b2.pt[p][s], MstiReceived(b, s, b2.pt[p][s]))
    BY <2>1, MessagesAlike, Zenon DEF MstiReceived
  <2> QED BY <2>2, NothingTouched, Zenon
<1> HIDE DEF row2
<1>11. RolesUntouched(b2, [b2 EXCEPT !.pt[p] = row2])
  BY <1>9, <1>10, AlikeTreesReplaced, CistIsTree, Zenon
<1>12. RolesUntouched(b, b2) /\ RolesUntouched(b, [b2 EXCEPT !.pt[p] = row2])
  BY <1>7, <1>9, <1>11, RolesUntouchedTwice, Zenon
<1> QED BY <1>3, <1>12, Zenon

\* Port Receive: in DISCARD the messages are dropped, in RECEIVE the frame is read.
LEMMA PortReceiveRolesUntouched ==
  ASSUME NEW b \in Bridge, NEW p \in Ports
  PROVE  /\ RolesUntouched(b, EnterPortReceive(b, p))
         /\ PortReceiveNext(b, p) = "DISCARD" => Untouched(b, EnterPortReceive(b, p))
<1> DEFINE state == PortReceiveNext(b, p)
           e     == PortReceiveEnter(b, p, state)
           c1 == SetPort(b, p, [b.port[p] EXCEPT !.rcvdBpdu = FALSE, !.rcvdRSTP = FALSE,
                                                 !.rcvdSTP = FALSE, !.edgeDelayWhile = MigrateTime])
           d1 == updtBPDUVersion(b, p)
           d2 == SetPort(d1, p, [d1.port[p] EXCEPT !.rcvdInternal = fromSameRegion(d1, p)])
           d3 == rcvMsgs(d2, p)
           d4 == SetPort(d3, p, [d3.port[p] EXCEPT !.operEdge = FALSE, !.isolate = FALSE,
                                                   !.rcvdBpdu = FALSE,
                                                   !.edgeDelayWhile = MigrateTime])
<1>1. e = IF state = "DISCARD" THEN clearAllRcvdMsgs(c1, p) ELSE d4
  BY DEF PortReceiveEnter
<1>2. EnterPortReceive(b, p) = SetPort(e, p, [e.port[p] EXCEPT !.portReceiveState = state])
  BY DEF EnterPortReceive
<1>3. e \in Bridge /\ b.port[p] \in Port
  BY PortReceiveEnterTyped, BridgeParts, CistIsTree, Zenon
<1>4. Untouched(b, clearAllRcvdMsgs(c1, p))
  <2>1. MigrateTime \in Nat
    BY TimesAssumption, SMT
  <2>2. c1 \in Bridge
    <3>1. [b.port[p] EXCEPT !.rcvdBpdu = FALSE, !.rcvdRSTP = FALSE, !.rcvdSTP = FALSE,
                            !.edgeDelayWhile = MigrateTime] \in Port
      BY <1>3, <2>1, ZenonT(60) DEF Port
    <3> QED BY <3>1, SetPortTyped, Zenon
  <2>3. Untouched(b, c1)
    BY <1>3, PortFieldsAlike, PortUpdated, Zenon
  <2> HIDE DEF c1
  <2> QED BY <2>2, <2>3, TreeProceduresUntouched, CistIsTree, UntouchedTwice, Zenon
<1> HIDE DEF c1
<1>5. RolesUntouched(b, d4)
  <2>1. d1 \in Bridge /\ Untouched(b, d1)
    BY updtBPDUVersionTyped, FlagProceduresUntouched, CistIsTree, Zenon
  <2> HIDE DEF d1
  <2>2. fromSameRegion(d1, p) \in BOOLEAN
    BY Zenon DEF fromSameRegion
  <2>3. d1.port[p] \in Port
    BY <2>1, BridgeParts, CistIsTree, Zenon
  <2>4. [d1.port[p] EXCEPT !.rcvdInternal = fromSameRegion(d1, p)] \in Port
    BY <2>2, <2>3, ZenonT(60) DEF Port
  <2>5. d2 \in Bridge /\ Untouched(b, d2)
    BY <2>1, <2>3, <2>4, PortFieldsAlike, SetPortTyped, OneMoreUntouched, CistIsTree, Zenon
  <2> HIDE DEF d2
  <2>6. d3 \in Bridge /\ RolesUntouched(b, d3)
    BY <2>5, rcvMsgsTyped, rcvMsgsRolesUntouched, UntouchedWeaker, RolesUntouchedTwice, Zenon
  <2> HIDE DEF d3
  <2>7. d3.port[p] \in Port
    BY <2>6, BridgeParts, CistIsTree, Zenon
  <2>8. Untouched(d3, d4)
    BY <2>6, <2>7, PortFieldsAlike, PortUpdated, Zenon
  <2> HIDE DEF d4
  <2> QED BY <2>6, <2>8, UntouchedWeaker, RolesUntouchedTwice, Zenon
<1> HIDE DEF d4
<1>6. RolesUntouched(b, e) /\ (state = "DISCARD" => Untouched(b, e))
  BY <1>1, <1>4, <1>5, UntouchedWeaker, Zenon
<1> HIDE DEF e, state
<1>7. e.port[p] \in Port
  BY <1>3, BridgeParts, CistIsTree, Zenon
<1>8. Untouched(e, SetPort(e, p, [e.port[p] EXCEPT !.portReceiveState = state]))
  BY <1>3, <1>7, PortFieldsAlike, PortUpdated, Zenon
<1> QED BY <1>2, <1>6, <1>8, UntouchedTwice, UntouchedWeaker, RolesUntouchedTwice, Zenon DEF state

=============================================================================
