------------------------------ MODULE Mk66fPorts ------------------------------
(***************************************************************************)
(* TestAppMK66F+KSZ8794/main.cpp: one event loop processes the frames, the *)
(* poll of the links, the tick and the console.  The KSZ8794 has a bit for *)
(* learning and two for forwarding, and flushes only ports that do not     *)
(* learn, all of them at once.                                             *)
(***************************************************************************)
EXTENDS LibraryCalls

CONSTANTS
  MaxFrames,   \* bound: frames that wait to be processed
  Stations     \* bound: the ports behind which there are addresses to learn

VARIABLES
  linkUp,             \* bit 5 of each port's status register
  LearningDisable,    \* bit 0 of each port's register 0x12
  TransmitReceive,    \* bits 1 and 2
  trapping,           \* [entry, tag]: the static entry for BPDUs, and tail tagging
  fdb,                \* entries of each port: "none", "new", or "old", those
                      \* there were when the last flush was asked for
  flushing,           \* where FlushFdb is, and learning's bit as it was read
  frames,             \* tags of the BPDUs received, 0 if it is no port's number
  main                \* where the event loop is, and with which port

switch == <<LearningDisable, TransmitReceive, trapping, fdb>>
vars == <<libVars, linkUp, switch, flushing, frames, main>>

At(where) == [at |-> where, port |-> 0]
NotFlushing == [at |-> "no", val |-> FALSE]

\* main, up to STP_CreateBridge: the switch was reset.
Init ==
  /\ LibraryInit
  /\ linkUp = [p \in Ports |-> FALSE]
  /\ LearningDisable = [p \in Ports |-> FALSE] /\ TransmitReceive = [p \in Ports |-> TRUE]
  /\ trapping = [entry |-> FALSE, tag |-> FALSE]
  /\ fdb = [p \in Ports |-> "none"] /\ flushing = NotFlushing
  /\ frames = <<>> /\ main = At("boot")

-----------------------------------------------------------------------------
\* The switch and the cables.
LinkChanges(p) ==
  /\ linkUp' = [linkUp EXCEPT ![p] = ~@]
  /\ UNCHANGED <<libVars, switch, flushing, frames, main>>

\* Without tail tagging the last byte of the frame may be anything.
FrameArrives(p, last) ==
  /\ linkUp[p] /\ trapping.entry /\ Len(frames) < MaxFrames
  /\ trapping.tag => last = p
  /\ frames' = Append(frames, last)
  /\ UNCHANGED <<libVars, linkUp, switch, flushing, main>>

SwitchLearns(p) ==
  /\ p \in Stations /\ linkUp[p] /\ ~LearningDisable[p] /\ fdb[p] = "none"
  /\ fdb' = [fdb EXCEPT ![p] = "new"]
  /\ UNCHANGED <<libVars, linkUp, LearningDisable, TransmitReceive, trapping, flushing, frames, main>>

-----------------------------------------------------------------------------
\* The event loop: each event's handler to its end.
Boot ==
  /\ main.at = "boot"
  /\ STP_StartBridge
  /\ main' = [at |-> "poll", port |-> 1]
  /\ UNCHANGED <<linkUp, switch, flushing, frames>>

\* process_stp_command and on_one_second_tick
Console ==
  /\ main.at = "idle"
  /\ STP_StartBridge \/ STP_StopBridge
  /\ UNCHANGED <<linkUp, switch, flushing, frames, main>>

on_one_second_tick ==
  /\ main.at = "idle"
  /\ STP_OnOneSecondTick
  /\ UNCHANGED <<linkUp, switch, flushing, frames, main>>

PollDue ==
  /\ main.at = "idle" /\ calling = None
  /\ main' = [at |-> "poll", port |-> 1]
  /\ UNCHANGED <<libVars, linkUp, switch, flushing, frames>>

\* Variant: a port that is enabled is not looked at.
poll_port_state_of_disabled ==
  LET p == main.port
  IN  /\ main.at = "poll" /\ calling = None
      /\ IF linkUp[p] /\ ~portEnabled[p] THEN STP_OnPortEnabled(p) ELSE UNCHANGED libVars
      /\ main' = IF p + 1 \in Ports THEN [main EXCEPT !.port = @ + 1] ELSE At("idle")
      /\ UNCHANGED <<linkUp, switch, flushing, frames>>

poll_port_state ==
  LET p == main.port
  IN  /\ main.at = "poll" /\ calling = None
      /\ CASE linkUp[p] /\ ~portEnabled[p] -> STP_OnPortEnabled(p)
           [] ~linkUp[p] /\ portEnabled[p] -> STP_OnPortDisabled(p)
           [] OTHER -> UNCHANGED libVars
      /\ main' = IF p + 1 \in Ports THEN [main EXCEPT !.port = @ + 1] ELSE At("idle")
      /\ UNCHANGED <<linkUp, switch, flushing, frames>>

\* process_received_frames, until no frame is left.  A BPDU for a bridge that
\* is stopped, or without its port's tag, is dropped; any other shows that the
\* port is up, whatever its link now says.
process_received_frames ==
  /\ main.at \in {"idle", "frames"} /\ calling = None
  /\ frames # <<>>
  /\ LET p == Head(frames)
     IN  IF ~started \/ p = 0
         THEN main' = At("frames") /\ UNCHANGED libVars
         ELSE /\ main' = [at |-> "pass", port |-> p]
              /\ IF portEnabled[p] THEN UNCHANGED libVars ELSE STP_OnPortEnabled(p)
  /\ frames' = Tail(frames)
  /\ UNCHANGED <<linkUp, switch, flushing>>

PassBpdu ==
  /\ main.at = "pass"
  /\ STP_OnBpduReceived(main.port)
  /\ main' = At("frames")
  /\ UNCHANGED <<linkUp, switch, flushing, frames>>

FramesProcessed ==
  /\ main.at = "frames" /\ calling = None /\ frames = <<>>
  /\ main' = At("idle")
  /\ UNCHANGED <<libVars, linkUp, switch, flushing, frames>>

-----------------------------------------------------------------------------
\* The callbacks, each a sequence of accesses to the switch's registers.
StpCallback_EnableBpduTrapping(enable) ==
  /\ IF enable
     THEN trapping' = IF trapping.entry THEN [trapping EXCEPT !.tag = TRUE]
                                        ELSE [trapping EXCEPT !.entry = TRUE]
     ELSE trapping' = IF trapping.tag THEN [trapping EXCEPT !.tag = FALSE]
                                      ELSE [trapping EXCEPT !.entry = FALSE]
  /\ IF trapping'.entry = enable /\ trapping'.tag = enable
     THEN CallbackReturned ELSE UNCHANGED libVars
  /\ UNCHANGED <<LearningDisable, TransmitReceive, fdb, flushing>>

StpCallback_EnableLearning(p, enable) ==
  /\ LearningDisable' = [LearningDisable EXCEPT ![p] = ~enable]
  /\ CallbackReturned
  /\ UNCHANGED <<TransmitReceive, trapping, fdb, flushing>>

StpCallback_EnableForwarding(p, enable) ==
  /\ TransmitReceive' = [TransmitReceive EXCEPT ![p] = enable]
  /\ CallbackReturned
  /\ UNCHANGED <<LearningDisable, trapping, fdb, flushing>>

\* Variant: the table is flushed while the port still learns.
FlushBeginsAnyway(p) ==
  /\ flushing.at = "no"
  /\ flushing' = [at |-> "flush", val |-> LearningDisable[p]]
  /\ fdb' = [fdb EXCEPT ![p] = IF @ = "new" THEN "old" ELSE @]
  /\ UNCHANGED <<libVars, LearningDisable, TransmitReceive, trapping>>

FlushBegins(p) ==
  /\ flushing.at = "no"
  /\ flushing' = [at |-> "flush", val |-> LearningDisable[p]]
  /\ LearningDisable' = [LearningDisable EXCEPT ![p] = TRUE]
  /\ fdb' = [fdb EXCEPT ![p] = IF @ = "new" THEN "old" ELSE @]
  /\ UNCHANGED <<libVars, TransmitReceive, trapping>>

FlushTable ==
  /\ flushing.at = "flush"
  /\ fdb' = [p \in Ports |-> IF LearningDisable[p] THEN "none" ELSE fdb[p]]
  /\ flushing' = [flushing EXCEPT !.at = "restore"]
  /\ UNCHANGED <<libVars, LearningDisable, TransmitReceive, trapping>>

\* Variant: the port is left as it is.
FlushEndsThere(p) ==
  /\ flushing.at = "restore"
  /\ flushing' = NotFlushing
  /\ CallbackReturned
  /\ UNCHANGED <<LearningDisable, TransmitReceive, trapping, fdb>>

FlushEnds(p) ==
  /\ flushing.at = "restore"
  /\ LearningDisable' = [LearningDisable EXCEPT ![p] = flushing.val]
  /\ flushing' = NotFlushing
  /\ CallbackReturned
  /\ UNCHANGED <<TransmitReceive, trapping, fdb>>

StpCallback_FlushFdb(p) == FlushBegins(p) \/ FlushTable \/ FlushEnds(p)

CallCallback ==
  /\ callbacks # <<>>
  /\ LET c == Head(callbacks)
     IN  \/ c.to = "trapping" /\ StpCallback_EnableBpduTrapping(c.enable)
         \/ c.to = "learning" /\ StpCallback_EnableLearning(c.port, c.enable)
         \/ c.to = "forwarding" /\ StpCallback_EnableForwarding(c.port, c.enable)
         \/ c.to = "flush" /\ StpCallback_FlushFdb(c.port)
         \/ c.to = "started" /\ CallbackReturned /\ UNCHANGED <<switch, flushing>>
  /\ UNCHANGED <<linkUp, frames, main>>

LibraryStep == (MachineStep \/ Return) /\ UNCHANGED <<linkUp, switch, flushing, frames, main>>

EventLoop == Boot \/ PollDue \/ poll_port_state \/ process_received_frames \/ PassBpdu \/ FramesProcessed

Next ==
  \/ \E p \in Ports : LinkChanges(p) \/ SwitchLearns(p) \/ \E last \in {0} \cup Ports : FrameArrives(p, last)
  \/ Console \/ on_one_second_tick \/ EventLoop \/ CallCallback \/ LibraryStep

Returning == TowardsReturn /\ UNCHANGED <<linkUp, switch, flushing, frames, main>>

\* The event loop goes on, the poll's timer expires again and again, the event
\* of a frame gets its turn, and the library returns from its calls.
Spec == /\ Init /\ [][Next]_vars
        /\ SF_vars(EventLoop) /\ SF_vars(PollDue) /\ SF_vars(process_received_frames)
        /\ WF_vars(CallCallback) /\ SF_vars(Returning)

-----------------------------------------------------------------------------
\* Between calls the switch's bits are what the library last asked for, though
\* flushing turns learning off and on again in the same register; after a stop
\* all ports learn and forward, and BPDUs are flooded, without a tag, again.
SwitchObeys ==
  calling = None /\ main.at # "boot" =>
    /\ trapping = [entry |-> started, tag |-> started]
    /\ \A p \in Ports : /\ LearningDisable[p] <=> started /\ ~learning[p]
                       /\ TransmitReceive[p] <=> (started => forwarding[p])

\* When FlushFdb returns, none of the port's entries is left that was there
\* when it was called, also when the port learns all the time.
FlushDone ==
  \A p \in Ports : fdb[p] = "old" =>
    callbacks # <<>> /\ Head(callbacks).to = "flush" /\ Head(callbacks).port = p

\* What is seen of a link, and where the loop must come to see it: the frames
\* received have all been processed, and the bridge is not restarted for ever
\* (frames that come while trapping is on and tagging not yet name any port).
LinkUp(p) == linkUp[p]
LinkDown(p) == ~linkUp[p]
Polls == main.at = "idle"
Tagged == trapping.tag = trapping.entry
==============================================================================
