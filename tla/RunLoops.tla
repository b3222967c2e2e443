------------------------------ MODULE RunLoops ------------------------------
(***************************************************************************)
(* RunStateMachines written after the nested loops of the code, from the   *)
(* bridge that a call leaves to the one it returns, with no notion of a    *)
(* place in the loops.  (Its operators are recursive: for TLC only.)       *)
(***************************************************************************)
EXTENDS StateMachines, BridgeApi, SequencesExt

\* b; for TLC, which is to evaluate the bridge at once
Evaluated(b) == CHOOSE c \in {b} : c = b

\* RunStateMachineInstance; s is the bridge and the local variable changed
RECURSIVE RunInstance(_, _)
RunInstance(s, i) ==
  IF Ready(s.bridge, i)
  THEN RunInstance([bridge |-> Evaluated(Entered(s.bridge, i)), changed |-> TRUE], i)
  ELSE s

\* the machines of port p, then those of its trees; then role selection, tree by tree
PortSchedule(p) ==
  LET TreeSchedule(t) == [k \in 1..4 |-> Instance(TreeMachines[k], p, t)]
  IN  [k \in 1..4 |-> Instance(PortMachines[k], p, CIST)]
        \o FlattenSeq([k \in 1..(NumMsti + 1) |-> TreeSchedule(k - 1)])

Schedule == FlattenSeq([p \in 1..NumPorts |-> PortSchedule(p)])
              \o [k \in 1..(NumMsti + 1) |-> Instance("PortRoleSelection", 1, k - 1)]

\* the instances from the k-th on
RECURSIVE RunPass(_, _)
RunPass(s, k) ==
  IF k > Len(Schedule) THEN s ELSE RunPass(RunInstance(s, Schedule[k]), k + 1)

RECURSIVE RunPortTransmit(_, _)
RunPortTransmit(s, p) ==
  IF p > NumPorts THEN s
  ELSE IF PortTransmitNext(s.bridge, p) = "NONE" THEN RunPortTransmit(s, p + 1)
  ELSE RunPortTransmit([bridge |-> Evaluated(EnterPortTransmit(s.bridge, p)), changed |-> TRUE], p)

\* the loops over PortTransmit run only after a pass without changes
ThenTransmits(s) == IF s.changed THEN s ELSE RunPortTransmit(s, 1)

\* RunStateMachines, and the second run of RestartStateMachines, without BEGIN
RECURSIVE RunStateMachines(_), RunsAgain(_)
RunStateMachines(b) == RunsAgain(ThenTransmits(RunPass([bridge |-> b, changed |-> FALSE], 1)))
RunsAgain(s) ==
  CASE s.changed -> RunStateMachines(s.bridge)
    [] ~s.changed /\ s.bridge.BEGIN -> RunStateMachines([s.bridge EXCEPT !.BEGIN = FALSE])
    [] OTHER -> s.bridge

=============================================================================
