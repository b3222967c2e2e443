----------------------------- MODULE PortTimers -----------------------------
(***************************************************************************)
(* Port Timers state machine (13.30; stp_sm_port_timers.cpp).              *)
(* In every machine's module, XNext is CheckConditions - the state to      *)
(* enter, or "NONE" - and XEnter is InitState - the bridge after the       *)
(* state's entry block.                                                    *)
(***************************************************************************)
EXTENDS StpProcedures

PortTimersNext(b, p) ==
  LET state == b.port[p].portTimersState
  IN  IF b.BEGIN THEN IF state = "ONE_SECOND" THEN "NONE" ELSE "ONE_SECOND"
      ELSE IF state = "TICK" THEN "ONE_SECOND"
      ELSE IF state = "ONE_SECOND" /\ b.port[p].tick THEN "TICK"
      ELSE "NONE"

\* variant: a timer at zero is counted down once more
TickOnceMore(timer) == IF timer >= 0 THEN timer - 1 ELSE 0

Tick(timer) == IF timer > 0 THEN timer - 1 ELSE 0

TickedPort(y) ==
  [y EXCEPT !.helloWhen      = Tick(@),
            !.mDelayWhile    = Tick(@),
            !.edgeDelayWhile = Tick(@),
            !.txCount        = Tick(@)]

\* variant: rcvdInfoWhile is forgotten
TickedPortTreeForgetful(x) ==
  [x EXCEPT !.tcWhile = Tick(@), !.fdWhile = Tick(@), !.rrWhile = Tick(@),
            !.tcDetected = Tick(@), !.rbWhile = Tick(@)]

TickedPortTree(x) ==
  [x EXCEPT !.tcWhile       = Tick(@),
            !.fdWhile       = Tick(@),
            !.rcvdInfoWhile = Tick(@),
            !.rrWhile       = Tick(@),
            !.tcDetected    = Tick(@),
            !.rbWhile       = Tick(@)]

PortTimersEnter(b, p, state) ==
  IF state = "ONE_SECOND" THEN SetPort(b, p, [b.port[p] EXCEPT !.tick = FALSE])
  ELSE OnTrees(SetPort(b, p, TickedPort(b.port[p])), p, TreesOf(b), TickedPortTree)

=============================================================================
