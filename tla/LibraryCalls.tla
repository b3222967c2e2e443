----------------------------- MODULE LibraryCalls -----------------------------
(***************************************************************************)
(* The library as an application sees it: the calls that the application   *)
(* makes, and the callbacks with which the library, before a call returns, *)
(* sets up the switch.  Which states the state machines of a port go       *)
(* through in a call is left open; StpBridge and the modules below it say  *)
(* which.  One spanning tree.                                              *)
(***************************************************************************)
EXTENDS Integers, Sequences, SequencesExt

CONSTANT Ports   \* 1 .. n

VARIABLES started, portEnabled, learning, forwarding,   \* of the STP_BRIDGE
          calling,     \* the call of the library that is running
          callbacks    \* what it still does before it goes on, in order

libVars == <<started, portEnabled, learning, forwarding, calling, callbacks>>

Callback(to, p, enable) == [to |-> to, port |-> p, enable |-> enable]
None == "none"   \* no call

LibraryInit ==
  /\ started = FALSE /\ calling = None /\ callbacks = <<>>
  /\ portEnabled = [p \in Ports |-> FALSE]
  /\ learning = [p \in Ports |-> FALSE] /\ forwarding = [p \in Ports |-> FALSE]

-----------------------------------------------------------------------------
\* A port's machine enters a state: each callback is followed by the
\* assignment to the field that it is about.
EnterState(p, state) ==
  CASE state = "DISCARDING" -> <<Callback("learning", p, FALSE), Callback("forwarding", p, FALSE)>>
    [] state = "LEARNING"   -> <<Callback("learning", p, TRUE)>>
    [] state = "FORWARDING" -> <<Callback("forwarding", p, TRUE)>>

ForAllPorts(Do(_)) == FlattenSeq([p \in Ports |-> Do(p)])

Call(name, first) ==
  /\ calling = None
  /\ calling' = name
  /\ callbacks' = first
  /\ UNCHANGED <<started, learning, forwarding>>

STP_StartBridge ==
  /\ ~started
  /\ Call("STP_StartBridge",
          <<Callback("trapping", 0, TRUE), Callback("started", 0, TRUE)>>
            \o ForAllPorts(LAMBDA p : EnterState(p, "DISCARDING")))
  /\ UNCHANGED portEnabled

\* Learning and forwarding are enabled again where they are not.
STP_StopBridge ==
  /\ started
  /\ LET Restored(p) ==
           (IF learning[p] THEN <<>> ELSE <<Callback("learning", p, TRUE)>>) \o
           (IF forwarding[p] THEN <<>> ELSE <<Callback("forwarding", p, TRUE)>>)
     IN  Call("STP_StopBridge", <<Callback("trapping", 0, FALSE)>> \o ForAllPorts(Restored)
                                  \o <<Callback("started", 0, FALSE)>>)
  /\ UNCHANGED portEnabled

STP_OnPortEnabled(p) ==
  /\ ~portEnabled[p]
  /\ Call("STP_OnPortEnabled", <<>>)
  /\ portEnabled' = [portEnabled EXCEPT ![p] = TRUE]

STP_OnPortDisabled(p) ==
  /\ Call("STP_OnPortDisabled", <<>>)
  /\ portEnabled' = [portEnabled EXCEPT ![p] = FALSE]

STP_OnOneSecondTick ==
  /\ Call("STP_OnOneSecondTick", <<>>)
  /\ UNCHANGED portEnabled

\* A BPDU for a stopped bridge or a disabled port is ignored.
STP_OnBpduReceived(p) ==
  /\ Call("STP_OnBpduReceived", <<>>)
  /\ UNCHANGED portEnabled

-----------------------------------------------------------------------------
\* During the call, the machines make a port change its state ...
MachineEnters(p, state) ==
  /\ calling # None /\ started /\ callbacks = <<>>
  /\ CASE state = "DISCARDING" -> learning[p]
       [] state = "LEARNING"   -> ~learning[p] /\ portEnabled[p]
       [] state = "FORWARDING" -> learning[p] /\ ~forwarding[p] /\ portEnabled[p]
  /\ callbacks' = EnterState(p, state)
  /\ UNCHANGED <<started, portEnabled, learning, forwarding, calling>>

\* ... or have its filtering database flushed.
MachineFlushes(p) ==
  /\ calling # None /\ started /\ callbacks = <<>>
  /\ callbacks' = <<Callback("flush", p, TRUE)>>
  /\ UNCHANGED <<started, portEnabled, learning, forwarding, calling>>

\* The callback at the head has returned.
CallbackReturned ==
  LET done == Head(callbacks)
      Set(f) == [f EXCEPT ![done.port] = done.enable]
  IN  /\ callbacks' = Tail(callbacks)
      /\ started' = IF done.to = "started" THEN done.enable ELSE started
      /\ learning' = IF done.to = "learning" THEN Set(learning) ELSE learning
      /\ forwarding' = IF done.to = "forwarding" THEN Set(forwarding) ELSE forwarding
      /\ UNCHANGED <<portEnabled, calling>>

\* Disabled ports discard when a call returns.
Return ==
  /\ calling # None /\ callbacks = <<>>
  /\ started => \A p \in Ports : ~portEnabled[p] => ~learning[p] /\ ~forwarding[p]
  /\ calling' = None
  /\ UNCHANGED <<started, portEnabled, learning, forwarding, callbacks>>

MachineStep == \E p \in Ports : \/ \E state \in {"DISCARDING", "LEARNING", "FORWARDING"} : MachineEnters(p, state)
                                \/ MachineFlushes(p)

\* Every call ends: the machines come to rest, and disabled ports discard.
TowardsReturn == Return \/ \E p \in Ports : ~portEnabled[p] /\ MachineEnters(p, "DISCARDING")
==============================================================================
