------------------------------ MODULE Stm32Ports ------------------------------
(***************************************************************************)
(* TestAppSTM32+88E6352/main.cpp: the application between the library and  *)
(* the switch.  One event loop polls the links, passes BPDUs on, ticks     *)
(* and obeys the console; the callbacks write the switch's registers.      *)
(***************************************************************************)
EXTENDS LibraryCalls

CONSTANT MaxFrames   \* bound: BPDUs that wait to be processed

VARIABLES
  link,          \* what the PHY says: "down", "unresolved" (the speed), "up"
  PortControl,   \* the port state in register 4 of each port
  rsvd2cpu,      \* global2, register 5, bit 3: BPDUs go to the CPU port only
  frameMode,     \* register 4 of the CPU's port
  frames,        \* ports of the BPDUs that were trapped
  main           \* where the event loop is, and with which port

board == <<PortControl, rsvd2cpu, frameMode>>
vars == <<libVars, link, board, frames, main>>

Idle == [at |-> "idle", port |-> 0]

\* The switch was reset, its ports are disabled until they are written to.
Init ==
  /\ LibraryInit
  /\ link = [p \in Ports |-> "down"]
  /\ PortControl = [p \in Ports |-> "DISABLED"]
  /\ rsvd2cpu = FALSE /\ frameMode = "NORMAL"
  /\ frames = <<>> /\ main = [at |-> "boot", port |-> 0]

-----------------------------------------------------------------------------
LinkChanges(p, l) ==
  /\ link[p] # l
  /\ link' = [link EXCEPT ![p] = l]
  /\ UNCHANGED <<libVars, board, frames, main>>

FrameArrives(p) ==
  /\ rsvd2cpu /\ link[p] = "up" /\ Len(frames) < MaxFrames
  /\ frames' = Append(frames, p)
  /\ UNCHANGED <<libVars, link, board, main>>

-----------------------------------------------------------------------------
\* The event loop: one event at a time, each call of the library to its end.
Boot ==
  /\ main.at = "boot"
  /\ STP_StartBridge
  /\ main' = Idle
  /\ UNCHANGED <<link, board, frames>>

\* process_stp_command
Console ==
  /\ main = Idle
  /\ STP_StartBridge \/ STP_StopBridge
  /\ UNCHANGED <<link, board, frames, main>>

Tick ==
  /\ main = Idle
  /\ STP_OnOneSecondTick
  /\ UNCHANGED <<link, board, frames, main>>

\* While the speed is not known the library is not told.
poll_port_status_and_call_library(p) ==
  \/ link[p] = "up" /\ ~portEnabled[p] /\ STP_OnPortEnabled(p)
  \/ link[p] = "down" /\ portEnabled[p] /\ STP_OnPortDisabled(p)
  \/ /\ link[p] = "up" => portEnabled[p]
     /\ link[p] = "down" => ~portEnabled[p]
     /\ UNCHANGED libVars

\* poll_links, a timer's event: one port after the other.
PollLinks ==
  /\ main = Idle /\ calling = None
  /\ main' = [at |-> "poll", port |-> 1]
  /\ UNCHANGED <<libVars, link, board, frames>>

PollLink ==
  /\ main.at = "poll" /\ calling = None
  /\ poll_port_status_and_call_library(main.port)
  /\ main' = IF main.port + 1 \in Ports THEN [main EXCEPT !.port = @ + 1] ELSE Idle
  /\ UNCHANGED <<link, board, frames>>

\* on_enet_frame_received; validate_and_process_bpdu when the bridge is started.
FrameReceived ==
  /\ main = Idle /\ calling = None
  /\ frames # <<>>
  /\ frames' = Tail(frames)
  /\ main' = IF started THEN [at |-> "validate", port |-> Head(frames)] ELSE Idle
  /\ UNCHANGED <<libVars, link, board>>

CheckPort ==
  /\ main.at = "validate"
  /\ IF portEnabled[main.port] THEN UNCHANGED libVars ELSE poll_port_status_and_call_library(main.port)
  /\ main' = [main EXCEPT !.at = "pass"]
  /\ UNCHANGED <<link, board, frames>>

PassBpdu ==
  /\ main.at = "pass"
  /\ STP_OnBpduReceived(main.port)
  /\ main' = Idle
  /\ UNCHANGED <<link, board, frames>>

-----------------------------------------------------------------------------
\* Variant: learning first.
PortStateLearningFirst(learn, forward) ==
  IF learn THEN "LEARNING" ELSE IF forward THEN "FORWARDING" ELSE "BLOCKING"

\* The one field of the 88E6352 for what are two bits to the library.
PortState(learn, forward) ==
  IF forward THEN "FORWARDING" ELSE IF learn THEN "LEARNING" ELSE "BLOCKING"

write_port_state_register(p, learn, forward) ==
  PortControl' = [PortControl EXCEPT ![p] = PortState(learn, forward)]

StpCallback_EnableLearning(p, enable) ==
  write_port_state_register(p, enable, forwarding[p]) /\ UNCHANGED <<rsvd2cpu, frameMode>>

StpCallback_EnableForwarding(p, enable) ==
  write_port_state_register(p, learning[p], enable) /\ UNCHANGED <<rsvd2cpu, frameMode>>

\* Both ways the frame mode becomes EtherType DSA.
StpCallback_EnableBpduTrapping(enable) ==
  /\ rsvd2cpu' = enable
  /\ frameMode' = "EDSA"
  /\ UNCHANGED PortControl

\* Flushing waits for the switch to finish and changes no port state.
CallCallback ==
  /\ callbacks # <<>>
  /\ LET c == Head(callbacks)
     IN  \/ c.to = "trapping" /\ StpCallback_EnableBpduTrapping(c.enable)
         \/ c.to = "learning" /\ StpCallback_EnableLearning(c.port, c.enable)
         \/ c.to = "forwarding" /\ StpCallback_EnableForwarding(c.port, c.enable)
         \/ c.to \in {"flush", "started"} /\ UNCHANGED board
  /\ CallbackReturned
  /\ UNCHANGED <<link, frames, main>>

LibraryStep == (MachineStep \/ Return) /\ UNCHANGED <<link, board, frames, main>>

EventLoop == Boot \/ PollLinks \/ PollLink \/ FrameReceived \/ CheckPort \/ PassBpdu

Next ==
  \/ \E p \in Ports : FrameArrives(p) \/ \E l \in {"down", "unresolved", "up"} : LinkChanges(p, l)
  \/ Console \/ Tick \/ EventLoop \/ CallCallback \/ LibraryStep

Returning == TowardsReturn /\ UNCHANGED <<link, board, frames, main>>

\* The event loop goes on, the timer's event comes again and again, and the
\* library returns from its calls.
Spec == /\ Init /\ [][Next]_vars
        /\ SF_vars(EventLoop) /\ SF_vars(PollLinks) /\ WF_vars(CallCallback) /\ SF_vars(Returning)

-----------------------------------------------------------------------------
\* Between calls each port of the switch does what the library last asked for,
\* learning and forwarding having been asked for one after the other; after a
\* stop all ports forward and BPDUs are flooded again, or else loops form.
SwitchObeys ==
  calling = None /\ main.at # "boot" =>
    IF started
    THEN /\ rsvd2cpu
         /\ \A p \in Ports : /\ PortControl[p] = "FORWARDING" <=> forwarding[p]
                            /\ PortControl[p] = "BLOCKING" <=> ~learning[p]
    ELSE ~rsvd2cpu /\ \A p \in Ports : PortControl[p] = "FORWARDING"

\* What is seen of a link, and where the loop must come to see it.
LinkUp(p) == link[p] = "up"
LinkDown(p) == link[p] = "down"
Polls == TRUE
==============================================================================
