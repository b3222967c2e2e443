------------------------------- MODULE Network -------------------------------
(***************************************************************************)
(* The simulator (src/simulator): bridges of the library joined by wires.  *)
(* One thread serves the messages of Windows: link pulses and seconds for  *)
(* all bridges, and one message for each packet that a bridge has been     *)
(* sent.  Each bridge runs the library as RunLoops describes it.           *)
(* (For TLC only: its operators, and those of RunLoops, are recursive.)    *)
(***************************************************************************)
EXTENDS RunLoops, FiniteSets, Graphs

CONSTANTS
  NumBridges,                 \* bridge b has address b
  MissedLinkPulseCounterMax,  \* port.h: 3
  Cost,                       \* the path cost of the ports' speed
  InitialWires,               \* of the project as loaded: pairs of ends
  MaxChanges                  \* bound: what the user does

VARIABLES
  net,       \* [stp: the library's bridges, missed: _missedLinkPulseCounter,
             \* rxQueue, messages: bridges with a WM_PACKET_RECEIVED each, oldest
             \* (which may be in hand) first, strayed: the assertion of bridge.cpp:245 has
             \* failed, and the program has stopped]
  wire,      \* where the wire of each port ends, or Loose
  handling,  \* what the messages come from: "pulses", "seconds", "user" or "nothing"
  changes,
  rushed     \* history: a wire was connected to a port whose old link was not yet down

vars == <<net, wire, handling, changes, rushed>>

Bridges == 1 .. NumBridges
Ends    == Bridges \X Ports   \* a bridge and its port
Loose   == <<0, 0>>

Wired(pairs) == [e \in Ends |-> LET others == {f \in Ends : <<e, f>> \in pairs \/ <<f, e>> \in pairs}
                                IN  IF others = {} THEN Loose ELSE CHOOSE f \in others : TRUE]

\* for TLC: a wire from bridge 1 to bridge 2 and one of bridge 2 to itself
SelfWire == {<<<<1, 1>>, <<2, 1>>>>, <<<<2, 2>>, <<2, 3>>>>}

\* bridge::bridge for each, and on_deserialized for those saved with STP enabled
Init ==
  /\ net = [stp      |-> [b \in Bridges |-> [RunStateMachines(Started(CreateBridge(b))) EXCEPT !.tx = <<>>]],
            missed   |-> [e \in Ends |-> MissedLinkPulseCounterMax],
            rxQueue  |-> [b \in Bridges |-> <<>>],
            messages |-> <<>>,
            strayed  |-> FALSE]
  /\ wire = Wired(InitialWires)
  /\ handling = "nothing" /\ changes = 0 /\ rushed = FALSE

mac_operational(n, e) == n.missed[e] < MissedLinkPulseCounterMax

-----------------------------------------------------------------------------
(***************************************************************************)
(* Packets: link pulses, and frames with the path of a flooded frame: the  *)
(* bridges that passed it on, all ports of a bridge having one address     *)
(* (GetPortAddress does not look at the port).                             *)
(***************************************************************************)
link_pulse_t == [type |-> "pulse"]
frame_t(data, path) == [type |-> "frame", data |-> data, tx_path_taken |-> path]

enqueue_received_packet(n, e, packet) ==
  [n EXCEPT !.rxQueue[e[1]] = Append(@, [port |-> e[2], packet |-> packet]),
            !.messages = Append(@, e[1])]

\* what port e sends arrives at the port that is connected to it, if one is
on_packet_transmit(n, e, packet) ==
  IF wire[e] = Loose THEN n ELSE enqueue_received_packet(n, wire[e], packet)

\* the frames that bridge b has left to send, one after the other
SendFrames(n, b, after) ==
  LET TransmitOne(m, frame) == on_packet_transmit(m, <<b, frame.port>>, frame_t(frame.bpdu, {}))
  IN  FoldLeft(TransmitOne, [n EXCEPT !.stp[b] = [after EXCEPT !.tx = <<>>, !.receivedBpdu = NoBpdu]],
               after.tx)

\* A call of the library leaves bridge b as c, on which the machines run, if it
\* has been started.
Run(n, b, c) ==
  IF c.started THEN SendFrames(n, b, RunStateMachines(c)) ELSE [n EXCEPT !.stp[b] = c]

-----------------------------------------------------------------------------
\* Variant: a port is disabled again and again.
CountMissedAgain(n, e) ==
  IF n.missed[e] + 1 >= MissedLinkPulseCounterMax
  THEN Run([n EXCEPT !.missed[e] = @ + 1], e[1], PortDisabled(n.stp[e[1]], e[2]))
  ELSE [n EXCEPT !.missed[e] = @ + 1]

\* One more link pulse is missing; the port goes down when there are too many.
CountMissed(n, e) ==
  CASE n.missed[e] + 1 < MissedLinkPulseCounterMax -> [n EXCEPT !.missed[e] = @ + 1]
    [] n.missed[e] + 1 = MissedLinkPulseCounterMax ->
         Run([n EXCEPT !.missed[e] = @ + 1], e[1], PortDisabled(n.stp[e[1]], e[2]))
    [] OTHER -> n

\* bridge::OnLinkPulseTick, for all bridges and ports
OnLinkPulseTick ==
  LET TickPort(n, e) == on_packet_transmit(CountMissed(n, e), e, link_pulse_t)
      EndOf(i)     == <<((i - 1) \div NumPorts) + 1, ((i - 1) % NumPorts) + 1>>
  IN  /\ handling = "nothing"
      /\ net' = FoldLeft(TickPort, net, [i \in 1 .. NumBridges * NumPorts |-> EndOf(i)])
      /\ handling' = "pulses"
      /\ UNCHANGED <<wire, changes, rushed>>

\* STP_OnOneSecondTick, for all bridges: a timer of its own.
OneSecond ==
  LET TickBridge(n, b) == IF n.stp[b].started THEN Run(n, b, Ticked(n.stp[b])) ELSE n
  IN  /\ handling = "nothing"
      /\ net' = FoldLeft(TickBridge, net, [b \in Bridges |-> b])
      /\ handling' = "seconds"
      /\ UNCHANGED <<wire, changes, rushed>>

-----------------------------------------------------------------------------
\* Variant: a port that is up does not listen for pulses.
PulseReceivedWhenDown(n, e) ==
  IF mac_operational(n, e) THEN n
  ELSE Run(on_packet_transmit([n EXCEPT !.missed[e] = 0], e, link_pulse_t), e[1],
           PortEnabled(n.stp[e[1]], e[2], Cost, TRUE))

\* Variant: every link pulse is answered.
PulseReceivedAnswered(n, e) ==
  LET answered == on_packet_transmit([n EXCEPT !.missed[e] = 0], e, link_pulse_t)
  IN  IF mac_operational(n, e) THEN answered
      ELSE Run(answered, e[1], PortEnabled(n.stp[e[1]], e[2], Cost, TRUE))

\* A link pulse: if the port was down, one is sent back before any frame, and
\* the port goes up.
PulseReceived(n, e) ==
  LET heard == [n EXCEPT !.missed[e] = 0]
  IN  IF mac_operational(n, e) THEN heard
      ELSE Run(on_packet_transmit(heard, e, link_pulse_t), e[1],
               PortEnabled(n.stp[e[1]], e[2], Cost, TRUE))

\* A stopped bridge sends a BPDU out of its other ports, unless it passed here.
Flood(n, e, frame) ==
  LET onward == frame_t(frame.data, frame.tx_path_taken \cup {e[1]})
      TransmitTo(m, p) == on_packet_transmit(m, <<e[1], p>>, onward)
  IN  IF e[1] \in frame.tx_path_taken THEN n
      ELSE FoldLeft(TransmitTo, n, SetToSortSeq(Ports \ {e[2]}, <))

\* Variant: StpCallback_EnableBpduTrapping does nothing.
never_trapping(n, b) == FALSE

\* STP_StartBridge and STP_StopBridge set _bpdu_trapping_enabled.
bpdu_trapping_enabled(n, b) == n.stp[b].started

FrameReceived(n, e, frame) ==
  CASE ~mac_operational(n, e) -> [n EXCEPT !.strayed = TRUE]
    [] bpdu_trapping_enabled(n, e[1]) -> Run(n, e[1], BpduReceived(n.stp[e[1]], e[2], frame.data))
    [] OTHER -> Flood(n, e, frame)

PacketReceived(n, e, packet) ==
  IF packet.type = "pulse" THEN PulseReceived(n, e) ELSE FrameReceived(n, e, packet)

\* helper_window_proc and ProcessReceivedPackets: the oldest message is done when its
\* bridge's queue is empty, of what was sent to the bridge meanwhile too.
WM_PACKET_RECEIVED ==
  /\ ~net.strayed /\ net.messages # <<>>
  /\ LET b     == Head(net.messages)
         queue == net.rxQueue[b]
     IN  net' = IF queue = <<>> THEN [net EXCEPT !.messages = Tail(@)]
                ELSE PacketReceived([net EXCEPT !.rxQueue[b] = Tail(@)],
                                    <<b, Head(queue).port>>, Head(queue).packet)
  /\ UNCHANGED <<wire, handling, changes, rushed>>

\* Posted messages are served before the timers' and the user's.
NoMessageLeft ==
  /\ ~net.strayed /\ handling # "nothing" /\ net.messages = <<>>
  /\ handling' = "nothing"
  /\ UNCHANGED <<net, wire, changes, rushed>>

-----------------------------------------------------------------------------
(***************************************************************************)
(* The user, who may do anything between two messages.                     *)
(***************************************************************************)
UserActs ==
  /\ handling = "nothing" /\ changes < MaxChanges
  /\ handling' = "user" /\ changes' = changes + 1

\* create_wire_es and move_wire_point_es: a port takes one wire.
ConnectWire(e, f) ==
  /\ UserActs
  /\ wire[e] = Loose /\ wire[f] = Loose /\ e # f
  /\ wire' = [wire EXCEPT ![e] = f, ![f] = e]
  /\ rushed' = (rushed \/ mac_operational(net, e) \/ mac_operational(net, f))
  /\ UNCHANGED net

DisconnectWire(e) ==
  /\ UserActs
  /\ wire[e] # Loose
  /\ wire' = [wire EXCEPT ![e] = Loose, ![wire[e]] = Loose]
  /\ UNCHANGED <<net, rushed>>

set_stp_enabled(b) ==
  /\ UserActs
  /\ net' = IF net.stp[b].started
            THEN [net EXCEPT !.stp[b] = Stopped(@, TRUE, TRUE)]
            ELSE Run(net, b, Started(net.stp[b]))
  /\ UNCHANGED <<wire, rushed>>

Next ==
  \/ OnLinkPulseTick \/ OneSecond \/ WM_PACKET_RECEIVED \/ NoMessageLeft
  \/ \E e \in Ends : DisconnectWire(e) \/ \E f \in Ends : ConnectWire(e, f)
  \/ \E b \in Bridges : set_stp_enabled(b)
  \/ net.strayed /\ UNCHANGED vars

\* The thread goes on unless an assertion stops it, and the timers' messages come
\* when no others are left.
Spec == /\ Init /\ [][Next]_vars
        /\ []<>(handling = "nothing" \/ net.strayed) \/ []<><<handling # "nothing">>_vars
        /\ []<>(handling = "nothing") => []<>(handling = "pulses") /\ []<>(handling = "seconds")

-----------------------------------------------------------------------------
\* port::IsForwarding
IsForwarding(e) == net.stp[e[1]].started => net.stp[e[1]].pt[e[2]][CIST].forwarding

Wires == {e \in Ends : wire[e] # Loose}
ForwardingWires == {e \in Wires : IsForwarding(e) /\ IsForwarding(wire[e])}

(***************************************************************************)
(* project::IsWireForwarding, as far as it looks for a loop: whether what  *)
(* is sent from tx gets back to the port target; txPorts are those that it *)
(* was sent from.                                                          *)
(***************************************************************************)
RECURSIVE transmitsTo(_, _, _), AnyOf(_, _, _, _)
transmitsTo(tx, target, txPorts) ==
  IF tx \notin ForwardingWires THEN [found |-> FALSE, txPorts |-> txPorts]
  ELSE AnyOf(1, wire[tx], target, txPorts \cup {tx})


\* the ports of the bridge that rx is on, from port i on
AnyOf(i, rx, target, txPorts) ==
  LET other == <<rx[1], i>>
      there == transmitsTo(other, target, txPorts)
  IN  CASE i > NumPorts -> [found |-> FALSE, txPorts |-> txPorts]
        [] i = rx[2] -> AnyOf(i + 1, rx, target, txPorts)
        [] other = target -> [found |-> TRUE, txPorts |-> txPorts]
        [] other \in txPorts -> [found |-> FALSE, txPorts |-> txPorts]
        [] OTHER -> IF there.found THEN there ELSE AnyOf(i + 1, rx, target, there.txPorts)

hasLoop(e) == transmitsTo(e, e, {}).found

-----------------------------------------------------------------------------
\* The counters of missed link pulses and the queues of the bridges keep their
\* ranges, and a wire's two ends agree (find_connected_port).
TypeOK ==
  /\ net.missed \in [Ends -> 0 .. MissedLinkPulseCounterMax]
  /\ \A b \in Bridges : \A i \in 1 .. Len(net.rxQueue[b]) :
       net.rxQueue[b][i].port \in Ports /\ net.rxQueue[b][i].packet.type \in {"pulse", "frame"}
  /\ net.messages \in Seq(Bridges)
  /\ \A e \in Ends : wire[e] # Loose => wire[wire[e]] = e
  /\ handling \in {"nothing", "pulses", "seconds", "user"}

\* As bridge.cpp:243 has it, "this shouldn't happen": a frame never meets a port that
\* is down, though every port finds out for itself whether its link is up.
NoFrameStrays == ~net.strayed

-----------------------------------------------------------------------------
\* which bridges are joined by the wires that have an end in `ends`
Joined(ends) == ConnectionsIn([node |-> Bridges, edge |-> {<<e[1], wire[e][1]>> : e \in ends}])

InLoop(e) == Joined(ForwardingWires \ {e, wire[e]})[e[1], wire[e][1]]

-----------------------------------------------------------------------------
\* No frame goes round while all bridges run STP, not even for a moment: unless the
\* user moved a wire before the link pulses were missed at the port that it left.
LoopFree ==
  ~rushed /\ (\A b \in Bridges : net.stp[b].started) => \A e \in ForwardingWires : ~InLoop(e)


\* The messages come to an end, also when bridges flood BPDUs in a loop, unless the
\* assertion of bridge.cpp:245 stops the program.
MessagesEnd == []<>(handling = "nothing" \/ net.strayed)

\* In the end every port knows whether it is connected, the bridges that are
\* joined agree on the best of them as their root, the wires that forward join
\* all bridges that the wires join, and loops are only left among stopped bridges;
\* however the two timers' messages fall, if none of them stops the program.
Converged ==
  /\ \A e \in Ends : mac_operational(net, e) <=> wire[e] # Loose
  /\ \A b, c \in Bridges :
       /\ Joined(Wires)[b, c] => Joined(ForwardingWires)[b, c]
       /\ Joined(Wires)[b, c] /\ net.stp[b].started /\ net.stp[c].started =>
            Address(net.stp[b].tree[CIST].rootPriority.RootId) <= c
  /\ \A e \in ForwardingWires : net.stp[e[1]].started => ~InLoop(e)
Converges == <>[](Converged \/ net.strayed)
==============================================================================
