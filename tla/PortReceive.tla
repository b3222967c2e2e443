---------------------------- MODULE PortReceive -----------------------------
(***************************************************************************)
(* Port Receive state machine (13.31; stp_sm_port_receive.cpp).  In        *)
(* DISCARD the global condition answers "no transition", so a disabled     *)
(* port's edgeDelayWhile is not put back to MigrateTime again.             *)
(***************************************************************************)
EXTENDS StpProcedures

\* variant: a second frame is not received
PortReceiveNextOnce(b, p) ==
  LET y     == b.port[p]
      state == y.portReceiveState
  IN  IF b.BEGIN \/ ((y.rcvdBpdu \/ y.edgeDelayWhile # MigrateTime) /\ ~y.portEnabled)
      THEN IF state = "DISCARD" THEN "NONE" ELSE "DISCARD"
      ELSE IF y.rcvdBpdu /\ y.portEnabled /\ state = "DISCARD" THEN "RECEIVE"
      ELSE "NONE"

PortReceiveNext(b, p) ==
  LET y     == b.port[p]
      state == y.portReceiveState
  IN  IF b.BEGIN \/ ((y.rcvdBpdu \/ y.edgeDelayWhile # MigrateTime) /\ ~y.portEnabled)
      THEN IF state = "DISCARD" THEN "NONE" ELSE "DISCARD"
      ELSE IF /\ y.rcvdBpdu /\ y.portEnabled
              /\ state = "DISCARD" \/ ~rcvdAnyMsg(b, p)
      THEN "RECEIVE"
      ELSE "NONE"

PortReceiveEnter(b, p, state) ==
  IF state = "DISCARD"
  THEN clearAllRcvdMsgs(
         SetPort(b, p, [b.port[p] EXCEPT !.rcvdBpdu = FALSE, !.rcvdRSTP = FALSE,
                                         !.rcvdSTP = FALSE, !.edgeDelayWhile = MigrateTime]), p)
  ELSE LET b1 == updtBPDUVersion(b, p)
           b2 == SetPort(b1, p, [b1.port[p] EXCEPT !.rcvdInternal = fromSameRegion(b1, p)])
           b3 == rcvMsgs(b2, p)
       IN  SetPort(b3, p, [b3.port[p] EXCEPT !.operEdge = FALSE, !.isolate = FALSE,
                                             !.rcvdBpdu = FALSE, !.edgeDelayWhile = MigrateTime])

=============================================================================
