--------------------------- MODULE TopologyChange ---------------------------
(***************************************************************************)
(* Topology Change state machine (13.39; stp_sm_topology_change.cpp).      *)
(* fdbFlush stays clear: the code calls the flushFdb callback instead, and *)
(* the filtering database is not part of the model.                        *)
(***************************************************************************)
EXTENDS StpProcedures

ActiveRoles == {"ROOT", "DESIGNATED", "MASTER"}

TcPending(b, p, t) ==
  \/ b.pt[p][t].rcvdTc
  \/ b.port[p].rcvdTcn
  \/ b.port[p].rcvdTcAck
  \/ b.pt[p][t].tcProp

TopologyChangeNext(b, p, t) ==
  LET x      == b.pt[p][t]
      y      == b.port[p]
      state  == x.topologyChangeState
      active == x.role \in ActiveRoles
  IN  IF b.BEGIN THEN IF state = "INACTIVE" THEN "NONE" ELSE "INACTIVE"
      ELSE CASE state = "ACTIVE" ->
                  IF ~active \/ y.operEdge THEN "LEARNING"
                  ELSE IF y.rcvdTcn THEN "NOTIFIED_TCN"
                  ELSE IF x.rcvdTc THEN "NOTIFIED_TC"
                  ELSE IF x.tcProp THEN "PROPAGATING"
                  ELSE IF y.rcvdTcAck THEN "ACKNOWLEDGED"
                  ELSE "NONE"
             [] state = "INACTIVE" -> IF x.learn THEN "LEARNING" ELSE "NONE"
             [] state = "LEARNING" ->
                  IF active /\ x.forward /\ ~y.operEdge THEN "DETECTED"
                  ELSE IF ~active /\ ~x.learn /\ ~x.learning /\ ~TcPending(b, p, t) THEN "INACTIVE"
                  ELSE IF TcPending(b, p, t) THEN "LEARNING"
                  ELSE "NONE"
             [] state = "NOTIFIED_TCN" -> "NOTIFIED_TC"
             [] state = "NONE" -> "NONE"
             [] OTHER -> "ACTIVE"

EnterInactive(b, p, t) ==
  LET b1 == SetPortTree(b, p, t, [b.pt[p][t] EXCEPT !.tcDetected = 0, !.tcWhile = 0])
  IN  IF cist(t) THEN SetPort(b1, p, [b1.port[p] EXCEPT !.tcAck = FALSE]) ELSE b1

EnterTcLearning(b, p, t) ==
  LET b1 == SetPortTree(b, p, t, [b.pt[p][t] EXCEPT !.rcvdTc = FALSE, !.tcProp = FALSE])
  IN  IF cist(t)
      THEN SetPort(b1, p, [b1.port[p] EXCEPT !.rcvdTcn = FALSE, !.rcvdTcAck = FALSE])
      ELSE b1

EnterDetected(b, p, t) ==
  SetNewInfo(newTcDetected(setTcPropTree(newTcWhile(b, p, t), p, t), p, t), p, t)

EnterNotifiedTc(b, p, t) ==
  LET x  == b.pt[p][t]
      y  == b.port[p]
      b1 == SetPortTree(b, p, t, [x EXCEPT !.rcvdTc = FALSE])
      b2 == IF cist(t)
            THEN SetPort(b1, p, [y EXCEPT !.rcvdTcn = FALSE,
                                          !.tcAck = @ \/ x.role = "DESIGNATED"])
            ELSE b1
  IN  setTcPropTree(b2, p, t)

EnterPropagating(b, p, t) ==
  LET b1 == newTcWhile(b, p, t)
  IN  SetPortTree(b1, p, t, [b1.pt[p][t] EXCEPT !.tcProp = FALSE])

EnterAcknowledged(b, p, t) ==
  SetPort(SetPortTree(b, p, t, [b.pt[p][t] EXCEPT !.tcWhile = 0]),
          p, [b.port[p] EXCEPT !.rcvdTcAck = FALSE])

TopologyChangeEnter(b, p, t, state) ==
  CASE state = "INACTIVE"     -> EnterInactive(b, p, t)
    [] state = "LEARNING"     -> EnterTcLearning(b, p, t)
    [] state = "DETECTED"     -> EnterDetected(b, p, t)
    [] state = "NOTIFIED_TCN" -> newTcWhile(b, p, t)
    [] state = "NOTIFIED_TC"  -> EnterNotifiedTc(b, p, t)
    [] state = "PROPAGATING"  -> EnterPropagating(b, p, t)
    [] state = "ACKNOWLEDGED" -> EnterAcknowledged(b, p, t)
    [] OTHER                  -> b

=============================================================================
