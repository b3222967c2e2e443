--------------------------- MODULE StateMachines ----------------------------
(***************************************************************************)
(* The state machine instances of a bridge, the order in which             *)
(* RunStateMachines tries them, and one transition of one instance         *)
(* (RunStateMachineInstance: InitState, then the assignment to the state). *)
(***************************************************************************)
EXTENDS PortTimers, PortProtocolMigration, PortReceive, BridgeDetection, PortInformation,
        PortRoleTransitions, PortStateTransition, TopologyChange, PortRoleSelection, PortTransmit

PortMachines == << "PortTimers", "PortProtocolMigration", "PortReceive", "BridgeDetection" >>
TreeMachines == << "PortInformation", "PortRoleTransitions", "PortStateTransition",
                   "TopologyChange" >>

\* an instance that is not per port has port 1, one that is not per tree has tree CIST
Instance(machine, p, t) == [machine |-> machine, port |-> p, tree |-> t]

\* the instances of RunStateMachines' main loops; PortTransmit has a loop of its own
Instances ==
  {Instance(PortMachines[k], p, CIST) : k \in 1..4, p \in Ports}
    \cup {Instance(TreeMachines[k], p, t) : k \in 1..4, p \in Ports, t \in Trees}
    \cup {Instance("PortRoleSelection", 1, t) : t \in Trees}

(***************************************************************************)
(* The instances of one pass are numbered from 0 in the order of the       *)
(* loops: port by port, the four port machines and then the four tree      *)
(* machines tree by tree; after the last port, role selection by tree.     *)
(***************************************************************************)
PortWidth == 4 + 4 * (NumMsti + 1)

IndexOf(machine, machines) == CHOOSE k \in 1..4 : machines[k] = machine

Position ==
  [i \in Instances |->
     CASE i.machine = "PortRoleSelection" -> NumPorts * PortWidth + i.tree
       [] \E k \in 1..4 : i.machine = PortMachines[k] ->
            (i.port - 1) * PortWidth + IndexOf(i.machine, PortMachines) - 1
       [] OTHER ->
            (i.port - 1) * PortWidth + 4 * i.tree + IndexOf(i.machine, TreeMachines) + 3]

\* CheckConditions of instance i: the state it would enter, or "NONE"
Transition(b, i) ==
  CASE i.machine = "PortTimers"            -> PortTimersNext(b, i.port)
    [] i.machine = "PortProtocolMigration" -> ProtocolMigrationNext(b, i.port)
    [] i.machine = "PortReceive"           -> PortReceiveNext(b, i.port)
    [] i.machine = "BridgeDetection"       -> BridgeDetectionNext(b, i.port)
    [] i.machine = "PortInformation"       -> PortInformationNext(b, i.port, i.tree)
    [] i.machine = "PortRoleTransitions"   -> RoleTransitionsNext(b, i.port, i.tree)
    [] i.machine = "PortStateTransition"   -> StateTransitionNext(b, i.port, i.tree)
    [] i.machine = "TopologyChange"        -> TopologyChangeNext(b, i.port, i.tree)
    [] i.machine = "PortRoleSelection"     -> RoleSelectionNext(b, i.tree)

\* the loops go over treeCount trees
Ready(b, i) == i.tree \in TreesOf(b) /\ Transition(b, i) # "NONE"

-----------------------------------------------------------------------------
(***************************************************************************)
(* One transition of each machine: the bridge after it.                    *)
(***************************************************************************)
EnterPortTimers(b, p) ==
  LET state == PortTimersNext(b, p)
      b1    == PortTimersEnter(b, p, state)
  IN  SetPort(b1, p, [b1.port[p] EXCEPT !.portTimersState = state])

EnterProtocolMigration(b, p) ==
  LET state == ProtocolMigrationNext(b, p)
      b1    == ProtocolMigrationEnter(b, p, state)
  IN  SetPort(b1, p, [b1.port[p] EXCEPT !.portProtocolMigrationState = state])

EnterPortReceive(b, p) ==
  LET state == PortReceiveNext(b, p)
      b1    == PortReceiveEnter(b, p, state)
  IN  SetPort(b1, p, [b1.port[p] EXCEPT !.portReceiveState = state])

EnterBridgeDetection(b, p) ==
  LET state == BridgeDetectionNext(b, p)
      b1    == BridgeDetectionEnter(b, p, state)
  IN  SetPort(b1, p, [b1.port[p] EXCEPT !.bridgeDetectionState = state])

EnterPortInformation(b, p, t) ==
  LET state == PortInformationNext(b, p, t)
      b1    == PortInformationEnter(b, p, t, state)
  IN  SetPortTree(b1, p, t, [b1.pt[p][t] EXCEPT !.portInformationState = state])

EnterRoleTransitions(b, p, t) ==
  LET state == RoleTransitionsNext(b, p, t)
      b1    == RoleTransitionsEnter(b, p, t, state)
  IN  SetPortTree(b1, p, t, [b1.pt[p][t] EXCEPT !.portRoleTransitionsState = state])

EnterStateTransition(b, p, t) ==
  LET state == StateTransitionNext(b, p, t)
      b1    == StateTransitionEnter(b, p, t, state)
  IN  SetPortTree(b1, p, t, [b1.pt[p][t] EXCEPT !.portStateTransitionState = state])

EnterTopologyChange(b, p, t) ==
  LET state == TopologyChangeNext(b, p, t)
      b1    == TopologyChangeEnter(b, p, t, state)
  IN  SetPortTree(b1, p, t, [b1.pt[p][t] EXCEPT !.topologyChangeState = state])

EnterRoleSelection(b, t) ==
  LET state == RoleSelectionNext(b, t)
      b1    == RoleSelectionEnter(b, t, state)
  IN  [b1 EXCEPT !.tree[t].portRoleSelectionState = state]

EnterPortTransmit(b, p) ==
  LET state == PortTransmitNext(b, p)
      b1    == PortTransmitEnter(b, p, state)
  IN  SetPort(b1, p, [b1.port[p] EXCEPT !.portTransmitState = state])

\* one transition of instance i
Entered(b, i) ==
  CASE i.machine = "PortTimers"            -> EnterPortTimers(b, i.port)
    [] i.machine = "PortProtocolMigration" -> EnterProtocolMigration(b, i.port)
    [] i.machine = "PortReceive"           -> EnterPortReceive(b, i.port)
    [] i.machine = "BridgeDetection"       -> EnterBridgeDetection(b, i.port)
    [] i.machine = "PortInformation"       -> EnterPortInformation(b, i.port, i.tree)
    [] i.machine = "PortRoleTransitions"   -> EnterRoleTransitions(b, i.port, i.tree)
    [] i.machine = "PortStateTransition"   -> EnterStateTransition(b, i.port, i.tree)
    [] i.machine = "TopologyChange"        -> EnterTopologyChange(b, i.port, i.tree)
    [] i.machine = "PortRoleSelection"     -> EnterRoleSelection(b, i.tree)

=============================================================================
