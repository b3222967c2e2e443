--------------------------- MODULE BridgeDetection --------------------------
(***************************************************************************)
(* Bridge Detection state machine (13.33; stp_sm_bridge_detection.cpp),    *)
(* with the two conditions the code changes from the standard's so as not  *)
(* to loop between EDGE and NOT_EDGE.                                      *)
(***************************************************************************)
EXTENDS StpProcedures

\* variant: the parentheses of the way out of EDGE are misplaced, so that the
\* administrator's setting is looked at only where AutoEdge is
BridgeDetectionNextMisread(b, p) ==
  LET y     == b.port[p]
      state == y.bridgeDetectionState
      initial == IF y.AdminEdge THEN "EDGE" ELSE "NOT_EDGE"
      quiet   == y.edgeDelayWhile = 0 /\ y.sendRSTP /\ b.pt[p][CIST].proposing
  IN  IF b.BEGIN THEN IF state = initial THEN "NONE" ELSE initial
      ELSE CASE state = "NOT_EDGE" ->
                  IF (~y.portEnabled /\ y.AdminEdge) \/ (y.portEnabled /\ y.AutoEdge /\ quiet)
                  THEN "EDGE" ELSE "NONE"
             [] state = "EDGE" ->
                  IF \/ ~y.portEnabled \/ (~y.AutoEdge /\ ~y.AdminEdge)
                     \/ y.portEnabled /\ ~y.operEdge
                  THEN "NOT_EDGE" ELSE "NONE"
             [] OTHER -> "NONE"

BridgeDetectionNext(b, p) ==
  LET y     == b.port[p]
      state == y.bridgeDetectionState
      initial == IF y.AdminEdge THEN "EDGE" ELSE "NOT_EDGE"
      quiet   == y.edgeDelayWhile = 0 /\ y.sendRSTP /\ b.pt[p][CIST].proposing
  IN  IF b.BEGIN THEN IF state = initial THEN "NONE" ELSE initial
      ELSE CASE state = "NOT_EDGE" ->
                  IF (~y.portEnabled /\ y.AdminEdge) \/ (y.portEnabled /\ y.AutoEdge /\ quiet)
                  THEN "EDGE"
                  ELSE IF ~y.AdminEdge /\ ~y.AutoEdge /\ quiet /\ y.operPointToPointMAC
                  THEN "ISOLATED"
                  ELSE "NONE"
             [] state = "EDGE" ->
                  IF \/ (~y.portEnabled \/ ~y.AutoEdge) /\ ~y.AdminEdge
                     \/ y.portEnabled /\ ~y.operEdge
                  THEN "NOT_EDGE" ELSE "NONE"
             [] state = "ISOLATED" ->
                  IF y.AdminEdge \/ y.AutoEdge \/ ~y.isolate \/ ~y.operPointToPointMAC
                  THEN "NOT_EDGE" ELSE "NONE"
             [] OTHER -> "NONE"

BridgeDetectionEnter(b, p, state) ==
  SetPort(b, p, [b.port[p] EXCEPT !.operEdge = state = "EDGE", !.isolate = state = "ISOLATED"])

=============================================================================
