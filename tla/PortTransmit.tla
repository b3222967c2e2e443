---------------------------- MODULE PortTransmit ----------------------------
(***************************************************************************)
(* Port Transmit state machine (13.40; stp_sm_port_transmit.cpp).          *)
(* AGREE_SPT is unreachable: spt() is always false.                        *)
(***************************************************************************)
EXTENDS StpProcedures

\* variant: a port transmits whether or not its link is up
PortTransmitNextAlways(b, p) ==
  LET y     == b.port[p]
      state == y.portTransmitState
      mayTransmit == y.txCount < b.TxHoldCount
  IN  IF b.BEGIN
      THEN IF state = "TRANSMIT_INIT" THEN "NONE" ELSE "TRANSMIT_INIT"
      ELSE IF state \notin {"IDLE", "NONE"} THEN "IDLE"
      ELSE IF state = "NONE" \/ ~allTransmitReady(b, p) THEN "NONE"
      ELSE IF y.helloWhen = 0 THEN "TRANSMIT_PERIODIC"
      ELSE IF ~mayTransmit THEN "NONE"
      ELSE IF ~y.sendRSTP /\ y.newInfo /\ cistDesignatedPort(b, p) THEN "TRANSMIT_CONFIG"
      ELSE IF ~y.sendRSTP /\ y.newInfo /\ cistRootPort(b, p) THEN "TRANSMIT_TCN"
      ELSE IF y.sendRSTP /\ (y.newInfo \/ (y.newInfoMsti /\ ~mstiMasterPort(b, p)))
      THEN "TRANSMIT_RSTP"
      ELSE "NONE"

PortTransmitNext(b, p) ==
  LET y     == b.port[p]
      state == y.portTransmitState
      mayTransmit == y.txCount < b.TxHoldCount
  IN  IF b.BEGIN \/ ~y.portEnabled
      THEN IF state = "TRANSMIT_INIT" THEN "NONE" ELSE "TRANSMIT_INIT"
      ELSE IF state \notin {"IDLE", "NONE"} THEN "IDLE"
      ELSE IF state = "NONE" \/ ~allTransmitReady(b, p) THEN "NONE"
      ELSE IF y.helloWhen = 0 THEN "TRANSMIT_PERIODIC"
      ELSE IF ~mayTransmit THEN "NONE"
      ELSE IF ~y.sendRSTP /\ y.newInfo /\ cistDesignatedPort(b, p) THEN "TRANSMIT_CONFIG"
      ELSE IF ~y.sendRSTP /\ y.newInfo /\ cistRootPort(b, p) THEN "TRANSMIT_TCN"
      ELSE IF y.sendRSTP /\ (y.newInfo \/ (y.newInfoMsti /\ ~mstiMasterPort(b, p)))
      THEN "TRANSMIT_RSTP"
      ELSE "NONE"

\* what TRANSMIT_PERIODIC adds to newInfo
PeriodicInfo(b, p) ==
  cistDesignatedPort(b, p) \/ (cistRootPort(b, p) /\ b.pt[p][CIST].tcWhile # 0)

PortTransmitEnter(b, p, state) ==
  LET y == b.port[p]
  IN  CASE state = "TRANSMIT_INIT" ->
             SetPort(b, p, [y EXCEPT !.newInfo = TRUE, !.newInfoMsti = TRUE, !.txCount = 0])
        [] state = "TRANSMIT_PERIODIC" ->
             SetPort(b, p,
               [y EXCEPT !.newInfo     = @ \/ PeriodicInfo(b, p),
                         !.newInfoMsti = @ \/ mstiDesignatedOrTCpropagatingRootPort(b, p)])
        [] state = "TRANSMIT_CONFIG" ->
             SetPort(txConfig(b, p), p,
               [y EXCEPT !.newInfo = FALSE, !.txCount = @ + 1, !.tcAck = FALSE])
        [] state = "TRANSMIT_TCN" ->
             SetPort(txTcn(b, p), p, [y EXCEPT !.newInfo = FALSE, !.txCount = @ + 1])
        [] state = "TRANSMIT_RSTP" ->
             SetPort(txRstp(b, p), p,
               [y EXCEPT !.newInfo = FALSE, !.newInfoMsti = FALSE, !.txCount = @ + 1,
                         !.tcAck = FALSE])
        [] OTHER -> SetPort(b, p, [y EXCEPT !.helloWhen = HelloTime(b, p)])

=============================================================================
