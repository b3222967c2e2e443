------------------------------ MODULE MCAtomic ------------------------------
(***************************************************************************)
(* MCBridge, and beside it BridgeAtomic: a bridge for which at most three  *)
(* links go up or down and frames come in, call by call, and then only the *)
(* clock is left.  Which of the two takes steps is chosen at the start.    *)
(***************************************************************************)
EXTENDS MCBridge

VARIABLES
  atomic,   \* the bridge of BridgeAtomic
  second    \* 0 or 1, so that a second that changes nothing is still a step; or
            \* NoSeconds, when MCBridge takes the steps

MixedFrames == StpFrames \cup RstpFrames

Alone == INSTANCE BridgeAtomic WITH bridge <- atomic, Frames <- MixedFrames

NoSeconds == 2

\* NumPorts + MaxCalls calls are left: three, with the bounds of the run
AtomicInit ==
  /\ atomic = Alone!Settled(Started(CreateBridge(1)))
  /\ \/ second = NoSeconds /\ (MCInit \/ LifeInit)
     \/ second = 0 /\ LifeInit

AtomicCall ==
  /\ calls < NumPorts + MaxCalls /\ calls' = calls + 1
  /\ atomic' \in Alone!AfterLinkCall(atomic) \cup Alone!AfterReceiveCall(atomic)
  /\ UNCHANGED second

AtomicTick == Alone!OneSecond /\ second' = 1 - second /\ UNCHANGED calls

AtomicNext ==
  \/ second = NoSeconds /\ (MCNext \/ Rest) /\ UNCHANGED << atomic, second >>
  \/ second # NoSeconds /\ (AtomicCall \/ AtomicTick)
                        /\ UNCHANGED << bridge, run, returned, followed >>

\* the clock never stops
ClockRuns == []<>(second # 0) /\ []<>(second # 1)

AtomicSpec == AtomicInit /\ [][AtomicNext]_<< mcvars, atomic, second >> /\ RunsOnAndOn /\ ClockRuns

-----------------------------------------------------------------------------
(***************************************************************************)
(* A bridge left alone recovers: whatever it was told and in whatever      *)
(* order, the information ages out, and every live port ends as a          *)
(* designated port that learns and forwards, with no topology change left  *)
(* to announce.                                                            *)
(***************************************************************************)
Recovered(p) ==
  LET x == atomic.pt[p][CIST]
  IN  atomic.port[p].portEnabled =>
        /\ x.role = "DESIGNATED" /\ x.learning /\ x.forwarding
        /\ x.tcWhile = 0

Recovers == <>[](\A p \in Ports : Recovered(p))

=============================================================================
