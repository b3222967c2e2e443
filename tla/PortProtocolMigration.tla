----------------------- MODULE PortProtocolMigration ------------------------
(***************************************************************************)
(* Port Protocol Migration state machine (13.32;                           *)
(* stp_sm_port_protocol_migration.cpp).  mcheck is never set.              *)
(***************************************************************************)
EXTENDS StpProcedures

ProtocolMigrationNext(b, p) ==
  LET y     == b.port[p]
      state == y.portProtocolMigrationState
  IN  IF b.BEGIN THEN IF state = "CHECKING_RSTP" THEN "NONE" ELSE "CHECKING_RSTP"
      ELSE CASE state = "CHECKING_RSTP" ->
                  IF y.mDelayWhile = 0 THEN "SENSING"
                  ELSE IF y.mDelayWhile # MigrateTime /\ ~y.portEnabled THEN "CHECKING_RSTP"
                  ELSE "NONE"
             [] state = "SELECTING_STP" ->
                  IF y.mDelayWhile = 0 \/ ~y.portEnabled THEN "SENSING" ELSE "NONE"
             [] state = "SENSING" ->
                  IF y.sendRSTP /\ y.rcvdSTP THEN "SELECTING_STP"
                  ELSE IF ~y.portEnabled \/ (rstpVersion(b) /\ ~y.sendRSTP /\ y.rcvdRSTP)
                  THEN "CHECKING_RSTP"
                  ELSE "NONE"
             [] OTHER -> "NONE"

\* variant: the delay runs when RSTP is checked, not when STP is selected
ProtocolMigrationEnterOnce(b, p, state) ==
  SetPort(b, p,
    CASE state = "CHECKING_RSTP" ->
           [b.port[p] EXCEPT !.sendRSTP = rstpVersion(b), !.mDelayWhile = MigrateTime]
      [] state = "SELECTING_STP" -> [b.port[p] EXCEPT !.sendRSTP = FALSE]
      [] OTHER -> [b.port[p] EXCEPT !.rcvdRSTP = FALSE, !.rcvdSTP = FALSE])

ProtocolMigrationEnter(b, p, state) ==
  SetPort(b, p,
    CASE state = "CHECKING_RSTP" ->
           [b.port[p] EXCEPT !.sendRSTP = rstpVersion(b), !.mDelayWhile = MigrateTime]
      [] state = "SELECTING_STP" ->
           [b.port[p] EXCEPT !.sendRSTP = FALSE, !.mDelayWhile = MigrateTime]
      [] OTHER ->
           [b.port[p] EXCEPT !.rcvdRSTP = FALSE, !.rcvdSTP = FALSE])

=============================================================================
