------------------------------- MODULE LpcPorts -------------------------------
(***************************************************************************)
(* TestAppLPC2387+IP175CD: main.cpp, stp_callbacks.cpp and the console's   *)
(* command.  The ports have no power until the bridge is started; any      *)
(* frame from a port shows that its link is up.                            *)
(***************************************************************************)
EXTENDS LibraryCalls

CONSTANTS chip_id,      \* "175C" or "175D"
          MaxFrames     \* bound: frames that wait to be processed

VARIABLES
  linkGood,     \* bit 2 of each PHY's status register, while it has power
  powered,      \* the PHYs have been powered up
  trapping,     \* BPDUs go to the CPU only
  Learning, Forwarding,   \* the bits of each port
  frames,       \* [port, bpdu] of the frames received
  main          \* where the event loop is, and with which port

switch == <<trapping, Learning, Forwarding>>
vars == <<libVars, linkGood, powered, switch, frames, main>>

At(where) == [at |-> where, port |-> 0]

InitSwitch ==
  /\ trapping = FALSE
  /\ Learning = [p \in Ports |-> chip_id # "175C"]   \* "we keep it disabled"
  /\ Forwarding = [p \in Ports |-> TRUE]
  /\ frames = <<>> /\ main = At("boot")

\* Variant: the ports are not powered down first.
InitWithPower ==
  /\ LibraryInit /\ InitSwitch
  /\ linkGood = [p \in Ports |-> FALSE] /\ powered = TRUE

\* main, up to STP_CreateBridge.
Init ==
  /\ LibraryInit /\ InitSwitch
  /\ linkGood = [p \in Ports |-> FALSE] /\ powered = FALSE

-----------------------------------------------------------------------------
LinkChanges(p) ==
  /\ powered
  /\ linkGood' = [linkGood EXCEPT ![p] = ~@]
  /\ UNCHANGED <<libVars, powered, switch, frames, main>>

FrameArrives(p, bpdu) ==
  /\ linkGood[p] /\ Len(frames) < MaxFrames
  /\ frames' = Append(frames, [port |-> p, bpdu |-> bpdu])
  /\ UNCHANGED <<libVars, linkGood, powered, switch, main>>

-----------------------------------------------------------------------------
StartBridge ==
  /\ main.at = "boot"
  /\ STP_StartBridge
  /\ main' = At("power up")
  /\ UNCHANGED <<linkGood, powered, switch, frames>>

PowerUp ==
  /\ main.at = "power up" /\ calling = None
  /\ powered' = TRUE
  /\ main' = At("idle")
  /\ UNCHANGED <<libVars, linkGood, switch, frames>>

\* Assumption: STP is not switched off on the IP175D, whose callback for that
\* is an assertion.
process_stp_command ==
  /\ chip_id = "175C" /\ main.at = "idle"
  /\ STP_StartBridge \/ STP_StopBridge
  /\ UNCHANGED <<linkGood, powered, switch, frames, main>>

on_one_second_timer ==
  /\ main.at = "idle"
  /\ STP_OnOneSecondTick
  /\ UNCHANGED <<linkGood, powered, switch, frames, main>>

PollDue ==
  /\ main.at = "idle" /\ calling = None
  /\ main' = [at |-> "poll", port |-> 1]
  /\ UNCHANGED <<libVars, linkGood, powered, switch, frames>>

on_port_state_polling_timer ==
  LET p == main.port
  IN  /\ main.at = "poll" /\ calling = None
      /\ CASE linkGood[p] /\ ~portEnabled[p] -> STP_OnPortEnabled(p)
           [] ~linkGood[p] /\ portEnabled[p] -> STP_OnPortDisabled(p)
           [] OTHER -> UNCHANGED libVars
      /\ main' = IF p + 1 \in Ports THEN [main EXCEPT !.port = @ + 1] ELSE At("idle")
      /\ UNCHANGED <<linkGood, powered, switch, frames>>

on_frame_received ==
  LET f == Head(frames)
  IN  /\ main.at = "idle" /\ calling = None
      /\ frames # <<>>
      /\ frames' = Tail(frames)
      /\ IF portEnabled[f.port] THEN UNCHANGED libVars ELSE STP_OnPortEnabled(f.port)
      /\ main' = IF f.bpdu THEN [at |-> "bpdu", port |-> f.port] ELSE main
      /\ UNCHANGED <<linkGood, powered, switch>>

PassBpdu ==
  /\ main.at = "bpdu"
  /\ STP_OnBpduReceived(main.port)
  /\ main' = At("idle")
  /\ UNCHANGED <<linkGood, powered, switch, frames>>

-----------------------------------------------------------------------------
\* Variant: flooding is not resumed.
TrappingNeverEnds(enable) ==
  /\ trapping' = TRUE
  /\ UNCHANGED <<Learning, Forwarding>>

\* The IP175D's is not written: assert(false).
StpCallback_EnableBpduTrapping(enable) ==
  /\ chip_id = "175D" => enable
  /\ trapping' = enable
  /\ UNCHANGED <<Learning, Forwarding>>

StpCallback_EnableLearning(p, enable) ==
  /\ Learning' = [Learning EXCEPT ![p] = IF chip_id = "175C" THEN @ ELSE enable]
  /\ UNCHANGED <<trapping, Forwarding>>

StpCallback_EnableForwarding(p, enable) ==
  /\ Forwarding' = [Forwarding EXCEPT ![p] = enable]
  /\ UNCHANGED <<trapping, Learning>>

\* Flushing waits while the IP175D ages its whole table out.
CallCallback ==
  /\ callbacks # <<>>
  /\ LET c == Head(callbacks)
     IN  \/ c.to = "trapping" /\ StpCallback_EnableBpduTrapping(c.enable)
         \/ c.to = "learning" /\ StpCallback_EnableLearning(c.port, c.enable)
         \/ c.to = "forwarding" /\ StpCallback_EnableForwarding(c.port, c.enable)
         \/ c.to \in {"flush", "started"} /\ UNCHANGED switch
  /\ CallbackReturned
  /\ UNCHANGED <<linkGood, powered, frames, main>>

LibraryStep == (MachineStep \/ Return) /\ UNCHANGED <<linkGood, powered, switch, frames, main>>

EventLoop == StartBridge \/ PowerUp \/ PollDue \/ on_port_state_polling_timer \/ on_frame_received \/ PassBpdu

Next ==
  \/ \E p \in Ports : LinkChanges(p) \/ \E bpdu \in BOOLEAN : FrameArrives(p, bpdu)
  \/ process_stp_command \/ on_one_second_timer \/ EventLoop \/ CallCallback \/ LibraryStep

Returning == TowardsReturn /\ UNCHANGED <<linkGood, powered, switch, frames, main>>

\* The event loop goes on, the poll's timer expires again and again, and the
\* library returns from its calls.
Spec == /\ Init /\ [][Next]_vars
        /\ SF_vars(EventLoop) /\ SF_vars(PollDue) /\ WF_vars(CallCallback)
        /\ SF_vars(Returning)

-----------------------------------------------------------------------------
\* Between calls the switch's bits are what the library last asked for, but
\* for learning on the IP175C, which stays disabled as it cannot be flushed.
SwitchObeys ==
  calling = None /\ main.at # "boot" =>
    /\ trapping = started
    /\ \A p \in Ports : /\ Forwarding[p] <=> (started => forwarding[p])
                       /\ Learning[p] <=> chip_id = "175D" /\ (started => learning[p])

\* From power-up on, and in the middle of any call, a port forwards only if the
\* library says so: "power-down the RJ45 ports before they have a chance to
\* start forwarding and to create any loop".
NoLoopAtPowerUp == \A p \in Ports : powered /\ Forwarding[p] => forwarding[p]

\* What is seen of a link, and where the loop must come to see it.
LinkUp(p) == linkGood[p]
LinkDown(p) == ~linkGood[p]
Polls == TRUE
==============================================================================
