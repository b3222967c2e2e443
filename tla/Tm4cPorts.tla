------------------------------- MODULE Tm4cPorts -------------------------------
(***************************************************************************)
(* TestAppTM4C129+88E6352/main.cpp: the main loop processes the frames     *)
(* received, polls the links and ticks, each in its turn; port 0 of the    *)
(* switch is the CPU's, and port p + 1 the library's port of index p.      *)
(***************************************************************************)
EXTENDS LibraryCalls

CONSTANT MaxFrames   \* bound: BPDUs that wait to be processed

VARIABLES
  linkGood,      \* bit 11 of each port's status register
  PortControl,   \* the port state in register 4 of each port of the switch
  trapped,       \* BPDUs go to the CPU's port, tagged
  frames,        \* ports of the switch at which the BPDUs trapped came in
  main           \* where the main loop is, and with which port of the library

board == <<PortControl, trapped>>
vars == <<libVars, linkGood, board, frames, main>>

At(where) == [at |-> where, port |-> 0]
SwitchPorts == {0} \cup Ports

\* Variant: the ports of the switch counted as those of the library are.
switch_port_by_index(p) == p - 1

\* Ports of the library are numbered from 1 here, and their indices from 0.
get_switch_port_from_stp_port(p) == LET index == p - 1 IN index + 1
get_stp_port_from_switch_port(s) == LET index == s - 1 IN index + 1

\* main, up to STP_CreateBridge: the CPU's port forwards.
Init ==
  /\ LibraryInit
  /\ linkGood = [p \in Ports |-> FALSE]
  /\ PortControl = [s \in SwitchPorts |-> IF s = 0 THEN "FORWARDING" ELSE "DISABLED"]
  /\ trapped = FALSE
  /\ frames = <<>> /\ main = At("boot")

-----------------------------------------------------------------------------
LinkChanges(p) ==
  /\ linkGood' = [linkGood EXCEPT ![p] = ~@]
  /\ UNCHANGED <<libVars, board, frames, main>>

FrameArrives(p) ==
  /\ trapped /\ linkGood[p] /\ Len(frames) < MaxFrames
  /\ frames' = Append(frames, get_switch_port_from_stp_port(p))
  /\ UNCHANGED <<libVars, linkGood, board, main>>

-----------------------------------------------------------------------------
Boot ==
  /\ main.at = "boot"
  /\ STP_StartBridge
  /\ main' = At("receive")
  /\ UNCHANGED <<linkGood, board, frames>>

\* ethernet_get_received, until no frame is left.
process_received_frame ==
  /\ main.at = "receive" /\ calling = None
  /\ IF frames = <<>>
     THEN main' = At("poll due") /\ UNCHANGED frames
     ELSE /\ main' = [at |-> "validate", port |-> get_stp_port_from_switch_port(Head(frames))]
          /\ frames' = Tail(frames)
  /\ UNCHANGED <<libVars, linkGood, board>>

\* A BPDU shows that the port is up ...
validate_and_process_bpdu ==
  /\ main.at = "validate"
  /\ IF portEnabled[main.port] THEN UNCHANGED libVars
                               ELSE linkGood[main.port] /\ STP_OnPortEnabled(main.port)
  /\ main' = [main EXCEPT !.at = "pass"]
  /\ UNCHANGED <<linkGood, board, frames>>

\* ... which it may no longer be: assert(link_good) fails.
AssertionFails ==
  /\ main.at = "validate"
  /\ ~portEnabled[main.port] /\ ~linkGood[main.port]
  /\ main' = At("halted")
  /\ UNCHANGED <<libVars, linkGood, board, frames>>

PassBpdu ==
  /\ main.at = "pass"
  /\ STP_OnBpduReceived(main.port)
  /\ main' = At("receive")
  /\ UNCHANGED <<linkGood, board, frames>>

\* Every 100 ms.
PollDue(due) ==
  /\ main.at = "poll due"
  /\ main' = IF due /\ started THEN [at |-> "poll", port |-> 1] ELSE At("tick due")
  /\ UNCHANGED <<libVars, linkGood, board, frames>>

poll_port_status_and_call_library ==
  LET p == main.port
  IN  /\ main.at = "poll" /\ calling = None
      /\ CASE linkGood[p] /\ ~portEnabled[p] -> STP_OnPortEnabled(p)
           [] ~linkGood[p] /\ portEnabled[p] -> STP_OnPortDisabled(p)
           [] OTHER -> UNCHANGED libVars
      /\ main' = IF p + 1 \in Ports THEN [main EXCEPT !.port = @ + 1] ELSE At("tick due")
      /\ UNCHANGED <<linkGood, board, frames>>

\* Every second.
TickDue(due) ==
  /\ main.at = "tick due" /\ calling = None
  /\ IF due /\ started THEN STP_OnOneSecondTick ELSE UNCHANGED libVars
  /\ main' = At("receive")
  /\ UNCHANGED <<linkGood, board, frames>>

-----------------------------------------------------------------------------
write_port_state_register(s, learn, forward) ==
  PortControl' = [PortControl EXCEPT
    ![s] = IF forward THEN "FORWARDING" ELSE IF learn THEN "LEARNING" ELSE "BLOCKING"]

StpCallback_EnableLearning(p, enable) ==
  write_port_state_register(get_switch_port_from_stp_port(p), enable, forwarding[p])

StpCallback_EnableForwarding(p, enable) ==
  write_port_state_register(get_switch_port_from_stp_port(p), learning[p], enable)

\* Disabling is not written: assert(false). The application never stops the bridge.
StpCallback_EnableBpduTrapping(enable) == enable /\ trapped' = TRUE

\* flush_atu waits for the switch to finish and changes no port state.
CallCallback ==
  /\ callbacks # <<>>
  /\ LET c == Head(callbacks)
     IN  \/ c.to = "trapping" /\ StpCallback_EnableBpduTrapping(c.enable) /\ UNCHANGED PortControl
         \/ c.to = "learning" /\ StpCallback_EnableLearning(c.port, c.enable) /\ UNCHANGED trapped
         \/ c.to = "forwarding" /\ StpCallback_EnableForwarding(c.port, c.enable) /\ UNCHANGED trapped
         \/ c.to \in {"flush", "started"} /\ UNCHANGED board
  /\ CallbackReturned
  /\ UNCHANGED <<linkGood, frames, main>>

LibraryStep == (MachineStep \/ Return) /\ UNCHANGED <<linkGood, board, frames, main>>

MainLoop ==
  \/ Boot \/ process_received_frame \/ validate_and_process_bpdu \/ AssertionFails \/ PassBpdu
  \/ poll_port_status_and_call_library \/ (\E due \in BOOLEAN : PollDue(due) \/ TickDue(due))

Next == \/ \E p \in Ports : FrameArrives(p) \/ LinkChanges(p)
        \/ MainLoop \/ CallCallback \/ LibraryStep

Returning == TowardsReturn /\ UNCHANGED <<linkGood, board, frames, main>>

\* The main loop goes on, the poll is due again and again, and the library
\* returns from its calls.
Spec == /\ Init /\ [][Next]_vars
        /\ SF_vars(MainLoop) /\ SF_vars(PollDue(TRUE)) /\ WF_vars(CallCallback)
        /\ SF_vars(Returning)

-----------------------------------------------------------------------------
\* Between calls each port of the switch does what the library last asked for,
\* and the CPU's, without which no BPDU comes in or goes out, is left forwarding.
SwitchObeys ==
  calling = None /\ main.at # "boot" =>
    /\ trapped /\ PortControl[0] = "FORWARDING"
    /\ \A p \in Ports : /\ PortControl[p] = "FORWARDING" <=> forwarding[p]
                       /\ PortControl[p] = "BLOCKING" <=> ~learning[p]

\* What is seen of a link, and where the loop must come to see it: it must have
\* got to the end of the frames received.
LinkUp(p) == linkGood[p]
LinkDown(p) == ~linkGood[p]
Polls == main.at = "poll due"
Halted == main.at = "halted"
==============================================================================
