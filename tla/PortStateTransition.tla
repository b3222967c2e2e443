------------------------- MODULE PortStateTransition ------------------------
(***************************************************************************)
(* Port State Transition state machine (13.38;                             *)
(* stp_sm_port_state_transition.cpp).  The enableLearning and              *)
(* enableForwarding callbacks complete before they return, so learning     *)
(* and forwarding are also the state of the hardware.                      *)
(***************************************************************************)
EXTENDS StpProcedures

StateTransitionNext(b, p, t) ==
  LET x     == b.pt[p][t]
      state == x.portStateTransitionState
  IN  IF b.BEGIN THEN IF state = "DISCARDING" THEN "NONE" ELSE "DISCARDING"
      ELSE CASE state = "DISCARDING" -> IF x.learn THEN "LEARNING" ELSE "NONE"
             [] state = "LEARNING"   -> IF ~x.learn THEN "DISCARDING"
                                        ELSE IF x.forward THEN "FORWARDING" ELSE "NONE"
             [] state = "FORWARDING" -> IF ~x.forward THEN "DISCARDING" ELSE "NONE"
             [] OTHER                -> "NONE"

\* variant: forwarding is not disabled
StateTransitionEnterHalf(b, p, t, state) ==
  SetPortTree(b, p, t,
    CASE state = "DISCARDING" -> [b.pt[p][t] EXCEPT !.learning = FALSE]
      [] state = "LEARNING"   -> [b.pt[p][t] EXCEPT !.learning = TRUE]
      [] OTHER                -> [b.pt[p][t] EXCEPT !.forwarding = TRUE])

StateTransitionEnter(b, p, t, state) ==
  SetPortTree(b, p, t,
    CASE state = "DISCARDING" -> [b.pt[p][t] EXCEPT !.learning = FALSE, !.forwarding = FALSE]
      [] state = "LEARNING"   -> [b.pt[p][t] EXCEPT !.learning = TRUE]
      [] OTHER                -> [b.pt[p][t] EXCEPT !.forwarding = TRUE])

=============================================================================
