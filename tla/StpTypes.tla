------------------------------ MODULE StpTypes ------------------------------
(***************************************************************************)
(* The data of mstp-lib: bridge and port identifiers, priority vectors,    *)
(* times, BPDUs, and the objects PORT_TREE, PORT, BRIDGE_TREE and          *)
(* STP_BRIDGE (stp_base_types.h, stp_port.h, stp_bridge.h).                *)
(*                                                                         *)
(* A bridge is one record, the STP_BRIDGE object, with                     *)
(*   port[p]   the PORT of port p,                                         *)
(*   pt[p][t]  the PORT_TREE of port p in tree t,                          *)
(*   tree[t]   the BRIDGE_TREE of tree t.                                  *)
(* Ports are numbered from 1 (the number in the port's PORT_ID, one more   *)
(* than the code's index); tree 0 is the CIST, the others are MSTIs.       *)
(***************************************************************************)
EXTENDS Integers, Sequences

CONSTANTS
  NumPorts,             \* portCount of STP_CreateBridge
  NumMsti,              \* mstiCount of STP_CreateBridge
  AddressSpan,          \* bridge addresses are 0..AddressSpan-1
  PortSpan,             \* port numbers are below PortSpan
  DefaultPriority,      \* 0x8000 in the code: the priority of a new bridge
  DefaultPortPriority,  \* 0x80 in the code: the priority of a new port
  MigrateTime,          \* 3 in the code (stp_bridge.h)
  DefaultHelloTime,     \* 2 in the code; no call changes it
  DefaultMaxAge,        \* 20 in the code
  DefaultForwardDelay,  \* 15 in the code
  MaxHops,              \* 20 in the code
  DefaultTxHoldCount    \* 6 in the code

ASSUME SizesAssumption ==
  /\ NumPorts \in Nat \ {0}
  /\ NumMsti \in Nat
  /\ AddressSpan \in Nat \ {0}
  /\ PortSpan \in Nat /\ NumPorts < PortSpan
  /\ DefaultPriority \in Nat
  /\ DefaultPortPriority \in Nat

ASSUME TimesAssumption ==
  /\ MigrateTime \in Nat \ {0}
  /\ DefaultHelloTime \in Nat \ {0}
  /\ DefaultMaxAge \in Nat \ {0}
  /\ DefaultForwardDelay \in Nat \ {0}
  /\ MaxHops \in 1..255
  /\ DefaultTxHoldCount \in Nat \ {0}

Ports == 1..NumPorts
CIST  == 0
Trees == 0..NumMsti
Mstis == Trees \ {CIST}

LEGACY_STP == 0
RSTP       == 2
MSTP       == 3
Versions   == {LEGACY_STP, RSTP, MSTP}

-----------------------------------------------------------------------------
(***************************************************************************)
(* A BRIDGE_ID is the natural number its eight bytes spell, priority first *)
(* (the MSTI number in the priority's low bits is left out: identifiers    *)
(* are only ever compared within one tree).  A PORT_ID likewise.  memcmp   *)
(* on big-endian bytes is then <.                                          *)
(***************************************************************************)
BridgeId(priority, address) == priority * AddressSpan + address
Address(id)                 == id % AddressSpan
Priority(id)                == id \div AddressSpan

PortId(priority, number) == priority * PortSpan + number
PortNumber(id)           == id % PortSpan
PortPriority(id)         == id \div PortSpan

(***************************************************************************)
(* 13.10, 13.11: priority vectors, most significant component first.       *)
(***************************************************************************)
PriorityVector ==
  [RootId : Nat, ExternalRootPathCost : Nat, RegionalRootId : Nat,
   InternalRootPathCost : Nat, DesignatedBridgeId : Nat, DesignatedPortId : Nat]

ZeroPriority ==
  [RootId |-> 0, ExternalRootPathCost |-> 0, RegionalRootId |-> 0,
   InternalRootPathCost |-> 0, DesignatedBridgeId |-> 0, DesignatedPortId |-> 0]

VectorField == << "RootId", "ExternalRootPathCost", "RegionalRootId",
                  "InternalRootPathCost", "DesignatedBridgeId", "DesignatedPortId" >>

\* PRIORITY_VECTOR::IsBetterThan: memcmp of the whole structure
IsBetterThan(v, w) ==
  \E i \in 1..6 : /\ v[VectorField[i]] < w[VectorField[i]]
                  /\ \A j \in 1..(i - 1) : v[VectorField[j]] = w[VectorField[j]]

IsBetterThanOrSameAs(v, w) == v = w \/ IsBetterThan(v, w)

\* 13.10: better, or sent by the same Designated Port as the vector held
IsSuperiorTo(v, w) ==
  \/ IsBetterThan(v, w)
  \/ /\ Address(v.DesignatedBridgeId) = Address(w.DesignatedBridgeId)
     /\ PortNumber(v.DesignatedPortId) = PortNumber(w.DesignatedPortId)

Times == [ForwardDelay : Nat, HelloTime : Nat, MaxAge : Nat, MessageAge : Nat,
          remainingHops : 0..255]

ZeroTimes == [ForwardDelay |-> 0, HelloTime |-> 0, MaxAge |-> 0, MessageAge |-> 0,
              remainingHops |-> 0]

-----------------------------------------------------------------------------
(***************************************************************************)
(* BPDUs, decoded.  priority holds the fields as they stand in the frame:  *)
(* a Config or RST BPDU has no internal cost and no cistBridgeId, and its  *)
(* one bridge field is RegionalRootId.  Times are in seconds.              *)
(***************************************************************************)
BpduTypes     == {"CONFIG", "TCN", "RST", "MST"}
BpduPortRoles == {"MASTER", "ALT_BACKUP", "ROOT", "DESIGNATED"}

Flags == [Tc : BOOLEAN, Proposal : BOOLEAN, PortRole : BpduPortRoles,
          Learning : BOOLEAN, Forwarding : BOOLEAN, Agreement : BOOLEAN,
          TcAckOrMaster : BOOLEAN]

ZeroFlags == [Tc |-> FALSE, Proposal |-> FALSE, PortRole |-> "MASTER",
              Learning |-> FALSE, Forwarding |-> FALSE, Agreement |-> FALSE,
              TcAckOrMaster |-> FALSE]

\* MSTI_CONFIG_MESSAGE
MstiMessage == [flags : Flags, RegionalRootId : Nat, InternalRootPathCost : Nat,
                BridgePriority : Nat, PortPriority : Nat, RemainingHops : 0..255]

\* mstConfigId and msti are meaningful in MST BPDUs only
Bpdu == [type : BpduTypes, flags : Flags, priority : PriorityVector, times : Times,
         mstConfigId : Nat, msti : Seq(MstiMessage)]

\* no BPDU is being handled: VALIDATED_BPDU_TYPE_UNKNOWN, and no content
NoBpdu == [type |-> "UNKNOWN", flags |-> ZeroFlags, priority |-> ZeroPriority,
           times |-> ZeroTimes, mstConfigId |-> 0, msti |-> << >>]

-----------------------------------------------------------------------------
(***************************************************************************)
(* States of the state machines (stp_sm.h); "NONE" is the zero that        *)
(* RestartStateMachines stores, and that CheckConditions returns for "no   *)
(* transition".                                                            *)
(***************************************************************************)
PortTimersStates      == {"NONE", "ONE_SECOND", "TICK"}
ProtocolStates        == {"NONE", "CHECKING_RSTP", "SELECTING_STP", "SENSING"}
PortReceiveStates     == {"NONE", "DISCARD", "RECEIVE"}
BridgeDetectionStates == {"NONE", "NOT_EDGE", "EDGE", "ISOLATED"}
PortTransmitStates    == {"NONE", "TRANSMIT_INIT", "TRANSMIT_PERIODIC", "TRANSMIT_CONFIG",
                          "TRANSMIT_TCN", "TRANSMIT_RSTP", "IDLE"}
InformationStates     == {"NONE", "DISABLED", "AGED", "UPDATE", "SUPERIOR_DESIGNATED",
                          "REPEATED_DESIGNATED", "INFERIOR_DESIGNATED", "NOT_DESIGNATED",
                          "OTHER", "CURRENT", "RECEIVE"}
RoleTransitionStates  ==
  {"NONE", "INIT_PORT", "DISABLE_PORT", "DISABLED_PORT",
   "MASTER_PORT", "MASTER_PROPOSED", "MASTER_AGREED", "MASTER_SYNCED", "MASTER_RETIRED",
   "MASTER_FORWARD", "MASTER_LEARN", "MASTER_DISCARD",
   "ROOT_PORT", "ROOT_PROPOSED", "ROOT_AGREED", "ROOT_SYNCED", "REROOT", "ROOT_FORWARD",
   "ROOT_LEARN", "REROOTED", "ROOT_DISCARD",
   "DESIGNATED_PROPOSE", "DESIGNATED_AGREE", "DESIGNATED_SYNCED", "DESIGNATED_RETIRED",
   "DESIGNATED_FORWARD", "DESIGNATED_LEARN", "DESIGNATED_DISCARD", "DESIGNATED_PORT",
   "ALTERNATE_PROPOSED", "ALTERNATE_AGREED", "BLOCK_PORT", "BACKUP_PORT", "ALTERNATE_PORT"}
StateTransitionStates == {"NONE", "DISCARDING", "LEARNING", "FORWARDING"}
TopologyChangeStates  == {"NONE", "ACTIVE", "INACTIVE", "LEARNING", "DETECTED", "NOTIFIED_TCN",
                          "NOTIFIED_TC", "PROPAGATING", "ACKNOWLEDGED"}
RoleSelectionStates   == {"NONE", "INIT_TREE", "ROLE_SELECTION"}

-----------------------------------------------------------------------------
(***************************************************************************)
(* The objects.  Left out: the fields no code reads (ageingTime, mcheck,   *)
(* fdbFlush, pseudoRootId, the agreedN group), and enableBPDUrx/tx,        *)
(* restrictedRole, restrictedTcn, isL2gp and AutoIsolate, which keep the   *)
(* value STP_CreateBridge gives them.                                      *)
(***************************************************************************)
Roles     == {"UNDEFINED", "DISABLED", "ROOT", "DESIGNATED", "ALTERNATE", "BACKUP", "MASTER"}
InfoIs    == {"DISABLED", "MINE", "AGED", "RECEIVED"}
RcvdInfos == {"UNKNOWN", "SUPERIOR_DESIGNATED", "REPEATED_DESIGNATED", "INFERIOR_DESIGNATED",
              "INFERIOR_ROOT_ALTERNATE", "OTHER"}
AdminP2P  == {"FORCE_TRUE", "FORCE_FALSE", "AUTO"}

PortTree ==
  [agree : BOOLEAN, agreed : BOOLEAN, disputed : BOOLEAN, forward : BOOLEAN,
   forwarding : BOOLEAN, learn : BOOLEAN, learning : BOOLEAN, proposed : BOOLEAN,
   proposing : BOOLEAN, rcvdMsg : BOOLEAN, rcvdTc : BOOLEAN, reRoot : BOOLEAN,
   reselect : BOOLEAN, selected : BOOLEAN, sync : BOOLEAN, synced : BOOLEAN,
   tcProp : BOOLEAN, updtInfo : BOOLEAN,
   msgFlags : Flags, infoIs : InfoIs, rcvdInfo : RcvdInfos,
   role : Roles, selectedRole : Roles,
   InternalPortPathCost : Nat, adminInternalPortPathCost : Nat,
   designatedPriority : PriorityVector, msgPriority : PriorityVector,
   portPriority : PriorityVector,
   designatedTimes : Times, msgTimes : Times, portTimes : Times,
   portId : Nat,
   fdWhile : Nat, rrWhile : Nat, rbWhile : Nat, tcWhile : Nat, rcvdInfoWhile : Nat,
   tcDetected : Nat,
   portInformationState : InformationStates,
   portRoleTransitionsState : RoleTransitionStates,
   portStateTransitionState : StateTransitionStates,
   topologyChangeState : TopologyChangeStates]

Port ==
  [AdminEdge : BOOLEAN, AutoEdge : BOOLEAN, ExternalPortPathCost : Nat,
   isolate : BOOLEAN, newInfo : BOOLEAN, newInfoMsti : BOOLEAN, operEdge : BOOLEAN,
   portEnabled : BOOLEAN, rcvdBpdu : BOOLEAN, rcvdRSTP : BOOLEAN, rcvdSTP : BOOLEAN,
   rcvdTcAck : BOOLEAN, rcvdTcn : BOOLEAN, sendRSTP : BOOLEAN, tcAck : BOOLEAN,
   tick : BOOLEAN, txCount : Nat, rcvdInternal : BOOLEAN, infoInternal : BOOLEAN,
   mastered : BOOLEAN,
   edgeDelayWhile : Nat, helloWhen : Nat, mDelayWhile : Nat,
   adminPointToPointMAC : AdminP2P, operPointToPointMAC : BOOLEAN,
   detectedPointToPointMAC : BOOLEAN, detectedPortPathCost : Nat,
   adminExternalPortPathCost : Nat,
   portTimersState : PortTimersStates, portProtocolMigrationState : ProtocolStates,
   portReceiveState : PortReceiveStates, bridgeDetectionState : BridgeDetectionStates,
   portTransmitState : PortTransmitStates]

BridgeTree ==
  [BridgeIdentifier : Nat, BridgePriority : PriorityVector, BridgeTimes : Times,
   rootPortId : Nat, rootPriority : PriorityVector, rootTimes : Times,
   portRoleSelectionState : RoleSelectionStates]

\* receivedBpdu stands for receivedBpduContent, -Type and -Port; tx collects the
\* frames given to transmitReleaseBuffer during the current call
Bridge ==
  [BEGIN : BOOLEAN, started : BOOLEAN, ForceProtocolVersion : Versions,
   TxHoldCount : Nat, mstConfigId : Nat,
   port : [Ports -> Port], pt : [Ports -> [Trees -> PortTree]],
   tree : [Trees -> BridgeTree],
   receivedBpdu : Bpdu \cup {NoBpdu}, tx : Seq([port : Ports, bpdu : Bpdu])]

=============================================================================
