------------------------------ MODULE MCBridge ------------------------------
(***************************************************************************)
(* StpBridge for TLC: one bridge that is called a bounded number of times, *)
(* the clock aside.  Either its ports are up and it is started, or it has  *)
(* just been created; in the second case the bridge at each return is kept *)
(* for BridgeAtomic.                                                       *)
(***************************************************************************)
EXTENDS BridgeProperties, Neighbours

CONSTANT MaxCalls   \* bound on the calls once the ports are up, other than the clock's

VARIABLES
  calls,
  returned,   \* the bridge at the last return,
  followed    \* if that is kept up to date

mcvars == << bridge, run, calls, returned, followed >>

Atomic == INSTANCE BridgeAtomic WITH bridge <- returned

-----------------------------------------------------------------------------
\* the bridge is started and its ports come up, one by one, before anything else happens
MCInit == /\ bridge = Started(CreateBridge(1)) /\ run = StartPass
          /\ calls = 0 /\ returned = CreateBridge(1) /\ followed = FALSE

\* from creation, with one call more, to start it
LifeInit == Init /\ calls = NumPorts - 1 /\ returned = bridge /\ followed = TRUE

OnePortUp == ~followed /\ calls < NumPorts /\ OnPortEnabled(calls + 1) /\ calls' = calls + 1

Called(A) == A /\ (calls < NumPorts => followed) /\ calls < NumPorts + MaxCalls /\ calls' = calls + 1

Ticks    == OnOneSecondTick /\ (calls < NumPorts => followed) /\ UNCHANGED calls
RunsOn   == RunStep /\ UNCHANGED calls

AnyCall == \/ StartBridge \/ StopBridge \/ LinkCall \/ EdgeCall
           \/ PriorityCall \/ ProtocolCall \/ ReceiveCall

\* links and frames, or from creation every call
MCNext == /\ \/ ~followed /\ Called(LinkCall \/ ReceiveCall)
             \/ followed /\ Called(AnyCall)
             \/ OnePortUp \/ Ticks \/ RunsOn
          /\ returned' = IF followed /\ run' = Idle THEN bridge' ELSE returned
          /\ UNCHANGED followed

\* a bridge that is stopped and not called any more: nothing else ever stops
Rest == run = Idle /\ ~bridge.started /\ calls = NumPorts + MaxCalls /\ UNCHANGED mcvars

\* fairness for RunStep, which is what the bridge does in the midst of a call
RunsOnAndOn == []<>(run.phase = "idle") \/ []<><< run.phase # "idle" >>_vars

MCSpec == (MCInit \/ LifeInit) /\ [][MCNext \/ Rest]_mcvars /\ RunsOnAndOn

\* management of one kind or another, once the ports are up
AdminNext == /\ \/ Called(EdgeCall \/ PriorityCall \/ ProtocolCall \/ LinkCall \/ ReceiveCall)
                \/ OnePortUp \/ Ticks \/ RunsOn
             /\ UNCHANGED << returned, followed >>
AdminSpec == MCInit /\ [][AdminNext]_mcvars

-----------------------------------------------------------------------------
(***************************************************************************)
(* StpBridge implements BridgeAtomic: from one return to the next, its     *)
(* steps add up to one step there.  A call is atomic: RunStateMachines     *)
(* always ends where the nested loops of the code end, in the one state    *)
(* that the call's effect determines.                                      *)
(***************************************************************************)
CallsAreAtomic == Atomic!Spec

=============================================================================
