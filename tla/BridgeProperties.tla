-------------------------- MODULE BridgeProperties --------------------------
(***************************************************************************)
(* What one bridge promises, whatever is done to it.  The properties that  *)
(* say "at rest" are about the moments between two calls, when a started   *)
(* bridge has let its machines run to the end.                             *)
(***************************************************************************)
EXTENDS StpBridge

AtRest == run = Idle /\ bridge.started

(***************************************************************************)
(* RunStateMachines leaves nothing half done: every event, message and     *)
(* role change is consumed, and the hardware does what the roles ask for   *)
(* (OnBpduReceived asserts the first of these, stp.cpp:451).               *)
(***************************************************************************)
PortIsSettled(p) ==
  /\ ~bridge.port[p].rcvdBpdu /\ ~bridge.port[p].tick
  /\ \A t \in TreesOf(bridge) :
       LET x == bridge.pt[p][t]
       IN  /\ ~x.rcvdMsg /\ ~x.reselect /\ x.selected /\ ~x.updtInfo
           /\ x.role = x.selectedRole
           /\ x.learn = x.learning /\ x.forward = x.forwarding

NothingPending == AtRest => \A p \in Ports : PortIsSettled(p)

(***************************************************************************)
(* While a message waits to be read, the frame it came in is still there:  *)
(* OnBpduReceived lends the frame to the machines for one run only, and    *)
(* its pointer is null afterwards (stp_bridge.h, receivedBpduContent).     *)
(***************************************************************************)
BpduInHand ==
  (\E p \in Ports : bridge.port[p].rcvdBpdu \/ rcvdAnyMsg(bridge, p))
    => bridge.receivedBpdu # NoBpdu

(***************************************************************************)
(* The roles are those the current information calls for: selecting roles  *)
(* once more changes nothing.  Every change of a cost, a priority, an      *)
(* identifier, a timer or a message must have led to a new selection.      *)
(* (Not under MSTP: an MSTI does not follow the CIST, see                  *)
(* MasterFollowsCist, and what the CIST took over from a neighbour stays   *)
(* as it was when that neighbour only moves to another region.)            *)
(***************************************************************************)
RolesUpToDate ==
  AtRest /\ bridge.ForceProtocolVersion < MSTP =>
    \A t \in TreesOf(bridge) : updtRolesTree(bridge, t) = bridge

(***************************************************************************)
(* Information from a neighbour is on its way out unless it is refreshed:  *)
(* a port that relies on it has its timer running, and one that does not   *)
(* holds what the bridge itself would send.  An MSTI port may rely on the  *)
(* CIST information of a neighbour outside the region.                     *)
(***************************************************************************)
Aging(x) == x.infoIs = "RECEIVED" /\ x.rcvdInfoWhile # 0

InformationAges ==
  AtRest => \A p \in Ports, t \in TreesOf(bridge) :
    LET x == bridge.pt[p][t]
    IN  \/ x.role = "DISABLED" /\ ~bridge.port[p].portEnabled /\ x.infoIs = "DISABLED"
        \/ x.role = "DESIGNATED" /\ x.infoIs = "MINE"
        \/ x.role \in {"ROOT", "ALTERNATE", "BACKUP"} /\ Aging(x)
        \/ x.role \in {"MASTER", "ALTERNATE"} /\ ~cist(t) /\ Aging(bridge.pt[p][CIST])

(***************************************************************************)
(* Between calls only root, designated and master ports of live links      *)
(* learn or forward.                                                       *)
(***************************************************************************)
OnlyActivePortsLearn ==
  AtRest => \A p \in Ports, t \in TreesOf(bridge) :
    bridge.pt[p][t].learning \/ bridge.pt[p][t].forwarding
      => bridge.port[p].portEnabled /\ bridge.pt[p][t].role \in ActiveRoles

(***************************************************************************)
(* At most TxHoldCount frames are charged to a port, also after            *)
(* management lowered the limit.                                           *)
(***************************************************************************)
RateLimited == \A p \in Ports : bridge.port[p].txCount <= bridge.TxHoldCount

(***************************************************************************)
(* operPointToPointMAC follows the link and the administrator in whichever *)
(* order they speak, and is clear while the link is down.                  *)
(***************************************************************************)
PointToPointKnown ==
  \A p \in Ports :
    LET y == bridge.port[p]
    IN  y.operPointToPointMAC =
          (y.portEnabled /\ OperPointToPoint(y.adminPointToPointMAC, y.detectedPointToPointMAC))

(***************************************************************************)
(* A frame leaves only when every other machine is at rest, so that it     *)
(* holds no intermediate result of the run (stp.cpp:595-597).              *)
(***************************************************************************)
Sends(b, c) == Len(c.tx) > Len(b.tx)

TransmitsAtRest ==
  [][Sends(bridge, bridge') => \A i \in Instances : ~Ready(bridge, i)]_vars

(***************************************************************************)
(* A frame leaves only from a port whose roles a BPDU can name             *)
(* (GetBpduPortRole asserts it, stp_bpdu.cpp): never before the first      *)
(* selection of roles, never from a port whose link is down.               *)
(***************************************************************************)
SendsNamedRoles ==
  [][Sends(bridge, bridge') =>
       \A t \in TreesOf(bridge) :
         bridge.pt[bridge'.tx[Len(bridge'.tx)].port][t].role \in
           {"ROOT", "DESIGNATED", "ALTERNATE", "BACKUP"} \cup IF cist(t) THEN {} ELSE {"MASTER"}
     ]_vars

(***************************************************************************)
(* The agreement that lets the bridge above forward at once is given only  *)
(* when every other port is synced; and a port counts as synced only from  *)
(* a moment at which the tree is cut off there, by a port that discards,   *)
(* has an agreement of its own, or is at the edge, and no longer than what *)
(* it announces stays the same.  (That it is still cut off when the        *)
(* agreement is given is not promised: a neighbour may withdraw its own.   *)
(* For a while an MSTI may have two Root Ports; see MasterFollowsCist.)    *)
(***************************************************************************)
CutOff(b, q, t) ==
  \/ ~b.pt[q][t].learning /\ ~b.pt[q][t].forwarding
  \/ b.pt[q][t].agreed
  \/ b.port[q].operEdge

GivesAgreement(b, c, p, t) == b.pt[p][t].role = "ROOT" /\ ~b.pt[p][t].agree /\ c.pt[p][t].agree

AgreesWhenSynced ==
  [][/\ \A p \in Ports, t \in Trees :
          GivesAgreement(bridge, bridge', p, t) =>
            \A q \in Ports \ {p} :
              bridge.pt[q][t].synced \/ (~cist(t) /\ bridge.pt[q][t].role = "ROOT")
     /\ \A q \in Ports, t \in Trees :
          bridge'.pt[q][t].synced =>
            \/ CutOff(bridge', q, t)
            \/ /\ bridge.pt[q][t].synced
               /\ bridge'.pt[q][t].portPriority = bridge.pt[q][t].portPriority]_vars

(***************************************************************************)
(* What the comments say and the code does not do.                         *)
(***************************************************************************)
(***************************************************************************)
(* A Master Port is the MSTI's view of the CIST Root Port: it is selected  *)
(* for a port whose CIST role is Root (stp_procedures.cpp:1315).           *)
(***************************************************************************)
MasterFollowsCist ==
  AtRest => \A p \in Ports, t \in MstisOf(bridge) :
    bridge.pt[p][t].role = "MASTER" => bridge.pt[p][CIST].role = "ROOT"

(***************************************************************************)
(* The internal path cost used for calculations is the administrator's if  *)
(* there is one, else the one detected (stp.h:188-189).                    *)
(***************************************************************************)
InternalCostKnown ==
  AtRest => \A p \in Ports, t \in TreesOf(bridge) :
    bridge.port[p].portEnabled =>
      bridge.pt[p][t].InternalPortPathCost =
        PathCost(bridge.pt[p][t].adminInternalPortPathCost, bridge.port[p].detectedPortPathCost)

(***************************************************************************)
(* The flags that go with a message are those of the BPDU it came in       *)
(* (stp_port.h:39); a TCN BPDU has none.                                   *)
(***************************************************************************)
FrameFlags(m) == IF m.type = "TCN" THEN ZeroFlags
                 ELSE IF m.type = "CONFIG"
                 THEN [ZeroFlags EXCEPT !.Tc = m.flags.Tc, !.PortRole = "DESIGNATED",
                                        !.TcAckOrMaster = m.flags.TcAckOrMaster]
                 ELSE [m.flags EXCEPT !.TcAckOrMaster = FALSE]

FlagsOfFrame ==
  \A p \in Ports : bridge.pt[p][CIST].rcvdMsg =>
    bridge.pt[p][CIST].msgFlags = FrameFlags(bridge.receivedBpdu)

(***************************************************************************)
(* Every call returns: the machines cannot keep each other busy for ever.  *)
(***************************************************************************)
CallsReturn == run.phase # "idle" ~> run.phase = "idle"

=============================================================================
