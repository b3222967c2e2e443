--------------------------- MODULE PortInformation --------------------------
(***************************************************************************)
(* Port Information state machine (13.35; stp_sm_port_information.cpp).    *)
(***************************************************************************)
EXTENDS StpProcedures

PortInformationNext(b, p, t) ==
  LET x       == b.pt[p][t]
      state   == x.portInformationState
      message == rcvdXstMsg(b, p, t)
  IN  IF b.BEGIN \/ (~b.port[p].portEnabled /\ x.infoIs # "DISABLED")
      THEN IF state = "DISABLED" THEN "NONE" ELSE "DISABLED"
      ELSE CASE state = "DISABLED" ->
                  IF x.rcvdMsg THEN "DISABLED"
                  ELSE IF b.port[p].portEnabled THEN "AGED" ELSE "NONE"
             [] state = "AGED" -> IF x.selected /\ x.updtInfo THEN "UPDATE" ELSE "NONE"
             [] state = "CURRENT" ->
                  IF x.selected /\ x.updtInfo THEN "UPDATE"
                  ELSE IF /\ x.infoIs = "RECEIVED" /\ x.rcvdInfoWhile = 0
                          /\ ~x.updtInfo /\ ~message
                  THEN "AGED"
                  ELSE IF message /\ ~updtXstInfo(b, p, t) THEN "RECEIVE"
                  ELSE "NONE"
             [] state = "RECEIVE" ->
                  IF x.rcvdInfo = "INFERIOR_ROOT_ALTERNATE" THEN "NOT_DESIGNATED"
                  ELSE IF x.rcvdInfo = "UNKNOWN" THEN "NONE" ELSE x.rcvdInfo
             [] state = "NONE" -> "NONE"
             [] OTHER -> "CURRENT"

\* variant: the roles are not selected anew
ReselectForgotten(x, infoIs) == [x EXCEPT !.infoIs = infoIs]

Reselect(x, infoIs) == [x EXCEPT !.infoIs = infoIs, !.reselect = TRUE, !.selected = FALSE]

MessageDone(b, p, t) == SetPortTree(b, p, t, [b.pt[p][t] EXCEPT !.rcvdMsg = FALSE])

NotingRegion(b, p) == SetPort(b, p, [b.port[p] EXCEPT !.infoInternal = b.port[p].rcvdInternal])

EnterUpdate(b, p, t) ==
  LET x      == b.pt[p][t]
      agreed == x.agreed /\ betterorsameInfo(x, "MINE")
  IN  SetNewInfo(
        SetPortTree(b, p, t,
          [x EXCEPT !.proposing = FALSE, !.proposed = FALSE, !.agreed = agreed,
                    !.synced = @ /\ agreed, !.portPriority = x.designatedPriority,
                    !.portTimes = x.designatedTimes, !.updtInfo = FALSE, !.infoIs = "MINE"]),
        p, t)

EnterSuperiorDesignated(b, p, t) ==
  LET b1 == SetPortTree(NotingRegion(b, p), p, t,
              [b.pt[p][t] EXCEPT !.agreed = FALSE, !.proposing = FALSE])
      b2 == setTcFlags(recordProposal(b1, p, t), p, t)
      b3 == SetPortTree(b2, p, t,
              [b2.pt[p][t] EXCEPT !.agree = @ /\ betterorsameInfo(b2.pt[p][t], "RECEIVED")])
      b4 == recordAgreement(b3, p, t)
      b5 == SetPortTree(b4, p, t, [b4.pt[p][t] EXCEPT !.synced = @ /\ b4.pt[p][t].agreed])
      b6 == updtRcvdInfoWhile(recordTimes(recordPriority(b5, p, t), p, t), p, t)
  IN  MessageDone(SetPortTree(b6, p, t, Reselect(b6.pt[p][t], "RECEIVED")), p, t)

EnterRepeatedDesignated(b, p, t) ==
  LET b1 == setTcFlags(recordProposal(NotingRegion(b, p), p, t), p, t)
  IN  MessageDone(updtRcvdInfoWhile(recordAgreement(b1, p, t), p, t), p, t)

EnterReceive(b, p, t) ==
  recordMastered(SetPortTree(b, p, t, [b.pt[p][t] EXCEPT !.rcvdInfo = rcvInfo(b, p, t)]), p, t)

PortInformationEnter(b, p, t, state) ==
  CASE state = "DISABLED" ->
         SetPortTree(b, p, t,
           Reselect([b.pt[p][t] EXCEPT !.rcvdMsg = FALSE, !.proposing = FALSE, !.proposed = FALSE,
                                       !.agree = FALSE, !.agreed = FALSE, !.rcvdInfoWhile = 0],
                    "DISABLED"))
    [] state = "AGED"                -> SetPortTree(b, p, t, Reselect(b.pt[p][t], "AGED"))
    [] state = "UPDATE"              -> EnterUpdate(b, p, t)
    [] state = "SUPERIOR_DESIGNATED" -> EnterSuperiorDesignated(b, p, t)
    [] state = "REPEATED_DESIGNATED" -> EnterRepeatedDesignated(b, p, t)
    [] state = "INFERIOR_DESIGNATED" -> MessageDone(recordDispute(b, p, t), p, t)
    [] state = "NOT_DESIGNATED"      -> MessageDone(setTcFlags(recordAgreement(b, p, t), p, t), p, t)
    [] state = "OTHER"               -> MessageDone(b, p, t)
    [] state = "RECEIVE"             -> EnterReceive(b, p, t)
    [] OTHER                         -> b

=============================================================================
