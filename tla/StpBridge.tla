----------------------------- MODULE StpBridge ------------------------------
(***************************************************************************)
(* One bridge, step by step: the calls an application makes on it, and     *)
(* RunStateMachines, one transition of one state machine at a time.        *)
(*                                                                         *)
(* The library is single threaded and a call returns when no machine of    *)
(* the bridge can move.  So calls are possible only in phase "idle"; a     *)
(* call starts a run, and the run goes through the instances in the order  *)
(* of StateMachines!Position until a whole pass changes nothing, then      *)
(* through the PortTransmit instances, and so on until those too are at    *)
(* rest.                                                                   *)
(***************************************************************************)
EXTENDS StateMachines, BridgeApi

CONSTANTS
  Addresses,         \* what the application may pass to the calls:
  BridgePriorities,  \* bridge addresses, bridge and port priorities,
  PortPriorities,
  LinkCosts,         \* the path costs that link speeds give,
  LinkDuplex,        \* what the MAC detects: point to point or not,
  AdminCosts,        \* the path costs an administrator sets, 0 for none,
  MaxAges, ForwardDelays, TxHoldCounts,
  StpVersions, MstConfigIds,
  Frames             \* and the BPDUs that come in

ASSUME InputsAssumption ==
  /\ Addresses \subseteq 0..(AddressSpan - 1) /\ Addresses # {}
  /\ BridgePriorities \subseteq Nat /\ PortPriorities \subseteq Nat
  /\ LinkCosts \subseteq Nat \ {0} /\ LinkDuplex \subseteq BOOLEAN
  /\ AdminCosts \subseteq Nat
  /\ MaxAges \subseteq Nat \ {0} /\ ForwardDelays \subseteq Nat \ {0}
  /\ TxHoldCounts \subseteq Nat \ {0}
  /\ StpVersions \subseteq Versions /\ MstConfigIds \subseteq Nat
  /\ Frames \subseteq Bpdu

VARIABLES
  bridge,  \* the STP_BRIDGE
  run      \* where RunStateMachines is

vars == << bridge, run >>

Phases == {"idle", "machines", "transmit"}

\* changed is the local variable of RunStateMachines; at, the place in the current loop
Run == [phase : Phases, at : Nat, changed : BOOLEAN]

Idle      == [phase |-> "idle",     at |-> 0, changed |-> FALSE]
StartPass == [phase |-> "machines", at |-> 0, changed |-> FALSE]
StartTx   == [phase |-> "transmit", at |-> 1, changed |-> FALSE]

TypeOK == bridge \in Bridge /\ run \in Run

Init == /\ \E address \in Addresses : bridge = CreateBridge(address)
        /\ run = Idle

-----------------------------------------------------------------------------
(***************************************************************************)
(* Calls.  b is the bridge as the call leaves it before RunStateMachines.  *)
(***************************************************************************)
Returns(b) == bridge' = b /\ run' = Idle
Runs(b)    == bridge' = b /\ run' = StartPass

\* a call that runs the machines of a started bridge
RunsIfStarted(b) == IF b.started THEN Runs(b) ELSE Returns(b)

StartBridge == run = Idle /\ ~bridge.started /\ Runs(Started(bridge))

StopBridge ==
  /\ run = Idle /\ bridge.started
  /\ \E learning, forwarding \in BOOLEAN : Returns(Stopped(bridge, learning, forwarding))

OnPortEnabled(p) ==
  /\ run = Idle /\ ~bridge.port[p].portEnabled
  /\ \E cost \in LinkCosts, p2p \in LinkDuplex : RunsIfStarted(PortEnabled(bridge, p, cost, p2p))

\* a call on a port that is already disabled does nothing
OnPortDisabled(p) ==
  /\ run = Idle /\ bridge.port[p].portEnabled
  /\ RunsIfStarted(PortDisabled(bridge, p))

OnOneSecondTick == run = Idle /\ bridge.started /\ Runs(Ticked(bridge))

\* a frame that reaches a disabled port or a stopped bridge is dropped
OnBpduReceived(p) ==
  /\ run = Idle /\ bridge.started /\ bridge.port[p].portEnabled
  /\ \E m \in Frames : Runs(BpduReceived(bridge, p, m))

\* these two calls wait for the next event to take effect
SetPortAdminEdge(p) ==
  run = Idle /\ \E edge \in BOOLEAN : Returns([bridge EXCEPT !.port[p].AdminEdge = edge])

SetPortAutoEdge(p) ==
  run = Idle /\ \E edge \in BOOLEAN : Returns([bridge EXCEPT !.port[p].AutoEdge = edge])

SetAdminPointToPointMAC(p) ==
  /\ run = Idle
  /\ \E admin \in AdminP2P :
       LET b == WithAdminPointToPointMAC(bridge, p, admin)
       IN  IF b.port[p].operPointToPointMAC # bridge.port[p].operPointToPointMAC
           THEN RunsIfStarted(b) ELSE Returns(b)

SetBridgeAddress ==
  /\ run = Idle
  /\ \E address \in Addresses \ {Address(bridge.tree[CIST].BridgeIdentifier)} :
       RunsIfStarted(WithBridgeAddress(bridge, address))

\* whether a change of tree t makes the machines run
RunsIfUsed(b, t) == IF t \in TreesOf(b) THEN RunsIfStarted(b) ELSE Returns(b)

SetBridgePriority(t) ==
  /\ run = Idle
  /\ \E priority \in BridgePriorities \ {Priority(bridge.tree[t].BridgeIdentifier)} :
       RunsIfUsed(WithBridgePriority(bridge, t, priority), t)

SetPortPriority(p, t) ==
  /\ run = Idle
  /\ \E priority \in PortPriorities : RunsIfUsed(WithPortPriority(bridge, p, t, priority), t)

SetAdminExternalPortPathCost(p) ==
  /\ run = Idle
  /\ \E admin \in AdminCosts \ {bridge.port[p].adminExternalPortPathCost} :
       LET b == WithAdminExternalPortPathCost(bridge, p, admin)
       IN  IF b.port[p].ExternalPortPathCost # bridge.port[p].ExternalPortPathCost
           THEN RunsIfStarted(b) ELSE Returns(b)

SetAdminInternalPortPathCost(p, t) ==
  /\ run = Idle
  /\ \E admin \in AdminCosts \ {bridge.pt[p][t].adminInternalPortPathCost} :
       LET b == WithAdminInternalPortPathCost(bridge, p, t, admin)
       IN  IF b.pt[p][t].InternalPortPathCost # bridge.pt[p][t].InternalPortPathCost
           THEN RunsIfStarted(b) ELSE Returns(b)

SetBridgeMaxAge ==
  /\ run = Idle
  /\ \E age \in MaxAges \ {bridge.tree[CIST].BridgeTimes.MaxAge} :
       RunsIfStarted(WithMaxAge(bridge, age))

SetBridgeForwardDelay ==
  /\ run = Idle
  /\ \E delay \in ForwardDelays \ {bridge.tree[CIST].BridgeTimes.ForwardDelay} :
       RunsIfStarted(WithForwardDelay(bridge, delay))

SetTxHoldCount ==
  /\ run = Idle
  /\ \E count \in TxHoldCounts \ {bridge.TxHoldCount} : Returns(WithTxHoldCount(bridge, count))

SetStpVersion ==
  /\ run = Idle
  /\ \E version \in StpVersions \ {bridge.ForceProtocolVersion} :
       RunsIfStarted(WithStpVersion(bridge, version))

\* STP_SetMstConfigName, -RevisionLevel, -Table and -TableEntry
SetMstConfigId ==
  run = Idle /\ \E id \in MstConfigIds : RunsIfStarted(WithMstConfigId(bridge, id))

-----------------------------------------------------------------------------
(***************************************************************************)
(* RunStateMachines.                                                       *)
(***************************************************************************)
\* the next instance, at or after the current place, that has a transition
Turn(i) ==
  /\ run.phase = "machines"
  /\ Position[i] >= run.at /\ Ready(bridge, i)
  /\ \A j \in Instances :
       run.at <= Position[j] /\ Position[j] < Position[i] => ~Ready(bridge, j)

\* instance i moves, and will be tried again
Moves(i, b) == Turn(i) /\ bridge' = b /\ run' = [run EXCEPT !.at = Position[i], !.changed = TRUE]

PortTimersStep(p) ==
  Moves(Instance("PortTimers", p, CIST), EnterPortTimers(bridge, p))
ProtocolMigrationStep(p) ==
  Moves(Instance("PortProtocolMigration", p, CIST), EnterProtocolMigration(bridge, p))
PortReceiveStep(p) ==
  Moves(Instance("PortReceive", p, CIST), EnterPortReceive(bridge, p))
BridgeDetectionStep(p) ==
  Moves(Instance("BridgeDetection", p, CIST), EnterBridgeDetection(bridge, p))
PortInformationStep(p, t) ==
  Moves(Instance("PortInformation", p, t), EnterPortInformation(bridge, p, t))
RoleTransitionsStep(p, t) ==
  Moves(Instance("PortRoleTransitions", p, t), EnterRoleTransitions(bridge, p, t))
StateTransitionStep(p, t) ==
  Moves(Instance("PortStateTransition", p, t), EnterStateTransition(bridge, p, t))
TopologyChangeStep(p, t) ==
  Moves(Instance("TopologyChange", p, t), EnterTopologyChange(bridge, p, t))
RoleSelectionStep(t) ==
  Moves(Instance("PortRoleSelection", 1, t), EnterRoleSelection(bridge, t))

\* variant: the transmit loop does not wait for a pass without changes
EndOfPassOnce ==
  /\ run.phase = "machines"
  /\ \A i \in Instances : Position[i] >= run.at => ~Ready(bridge, i)
  /\ run' = StartTx
  /\ UNCHANGED bridge

\* the pass is over: another one if it changed anything, else the transmit loop
EndOfPass ==
  /\ run.phase = "machines"
  /\ \A i \in Instances : Position[i] >= run.at => ~Ready(bridge, i)
  /\ run' = IF run.changed THEN StartPass ELSE StartTx
  /\ UNCHANGED bridge

MayTransmitStep(b, p) == PortTransmitNext(b, p) # "NONE"

\* a frame for which transmitGetBuffer has no buffer is lost; the machine does not notice
PortTransmitStep(p) ==
  /\ run.phase = "transmit"
  /\ p >= run.at /\ MayTransmitStep(bridge, p)
  /\ \A q \in Ports : run.at <= q /\ q < p => ~MayTransmitStep(bridge, q)
  /\ \E sent \in BOOLEAN :
       bridge' = [EnterPortTransmit(bridge, p) EXCEPT !.tx = IF sent THEN @ ELSE bridge.tx]
  /\ run' = [run EXCEPT !.at = p, !.changed = TRUE]

TransmitDone == /\ run.phase = "transmit"
                /\ \A p \in Ports : p >= run.at => ~MayTransmitStep(bridge, p)

TransmitAgain == TransmitDone /\ run.changed /\ run' = StartPass /\ UNCHANGED bridge

\* RestartStateMachines clears BEGIN and runs a second time
BeginEnds ==
  /\ TransmitDone /\ ~run.changed /\ bridge.BEGIN
  /\ bridge' = [bridge EXCEPT !.BEGIN = FALSE]
  /\ run' = StartPass

\* the call returns, and the frames it transmitted are on the wires
CallReturns ==
  /\ TransmitDone /\ ~run.changed /\ ~bridge.BEGIN
  /\ bridge' = [bridge EXCEPT !.receivedBpdu = NoBpdu, !.tx = << >>]
  /\ run' = Idle

-----------------------------------------------------------------------------
LinkCall == \E p \in Ports : OnPortEnabled(p) \/ OnPortDisabled(p)

EdgeCall == \E p \in Ports : \/ SetPortAdminEdge(p) \/ SetPortAutoEdge(p)
                             \/ SetAdminPointToPointMAC(p)

PriorityCall ==
  \/ SetBridgeAddress \/ SetBridgeMaxAge \/ SetBridgeForwardDelay
  \/ \E t \in Trees : SetBridgePriority(t)
  \/ \E p \in Ports, t \in Trees : SetPortPriority(p, t) \/ SetAdminInternalPortPathCost(p, t)
  \/ \E p \in Ports : SetAdminExternalPortPathCost(p)

ProtocolCall == SetTxHoldCount \/ SetStpVersion \/ SetMstConfigId

ReceiveCall == \E p \in Ports : OnBpduReceived(p)

MachineStep ==
  \/ \E p \in Ports : \/ PortTimersStep(p) \/ ProtocolMigrationStep(p)
                      \/ PortReceiveStep(p) \/ BridgeDetectionStep(p)
  \/ \E p \in Ports, t \in Trees : \/ PortInformationStep(p, t) \/ RoleTransitionsStep(p, t)
                                   \/ StateTransitionStep(p, t) \/ TopologyChangeStep(p, t)
  \/ \E t \in Trees : RoleSelectionStep(t)

RunStep == \/ MachineStep \/ EndOfPass \/ \E p \in Ports : PortTransmitStep(p)
           \/ TransmitAgain \/ BeginEnds \/ CallReturns

Next == \/ StartBridge \/ StopBridge \/ OnOneSecondTick
        \/ LinkCall \/ EdgeCall \/ PriorityCall \/ ProtocolCall \/ ReceiveCall
        \/ RunStep

\* a call runs to its end, and the clock ticks
Fairness == WF_vars(RunStep) /\ WF_vars(OnOneSecondTick)

Spec == Init /\ [][Next]_vars /\ Fairness

=============================================================================
