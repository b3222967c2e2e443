------------------------------- MODULE MCBoards -------------------------------
(***************************************************************************)
(* The parts of the test applications for TLC, in one run: `which` is the  *)
(* part that a behaviour is about.  The others do not move, so that their  *)
(* states add up and do not multiply; the parts share the variables x1 to  *)
(* x15, each for its own in the order of their declaration.                *)
(***************************************************************************)
EXTENDS Integers, Sequences

CONSTANTS
  Capacity, Header, Align, Events, NoEvent, tick, rx, frame,   \* of EventQueue,
  TimerCount, Periods, Other, MaxOther,                        \* Scheduler,
  ETH_RXBUFNB, ETH_TXBUFNB, RX_BUFFER_COUNT, TX_BUFFER_COUNT,        \* the four drivers,
  rx_buffer_count, tx_buffer_count, rx_desc_count, tx_desc_count,
  Frames, NoFrame, Errors,
  Ports, MaxFrames, Stations,                                            \* the applications
  Modulus, PollPeriod, TickPeriod, MaxPass, MaxTime                  \* and Tm4cClock

VARIABLES which, x1, x2, x3, x4, x5, x6, x7, x8, x9, x10, x11, x12, x13, x14, x15

all == <<which, x1, x2, x3, x4, x5, x6, x7, x8, x9, x10, x11, x12, x13, x14, x15>>

\* Events of two and three words and one of four whose payload is not a multiple
\* of a word, in a buffer of seven words: as small as it can be for the largest
\* event to find room in an empty queue wherever the pointers stand.
PayloadOf == [e \in {tick, rx, frame} |-> IF e = tick THEN 0 ELSE IF e = rx THEN 4 ELSE 7]

Queue == INSTANCE EventQueue_proofs WITH
  memory <- x1, read_ptr <- x2, write_ptr <- x3, used_size <- x4, popping <- x5, overrun <- x6
Timers == INSTANCE Scheduler_proofs WITH
  QueueRoom <- 3, timers <- x1, queue <- x2, main <- x3, held <- x4, others <- x5, raced <- x6,
  overrun <- x7
Stm32E == INSTANCE Stm32Ethernet WITH
  QueueRoom <- 2, DMARxDscrTab <- x1, rx_descriptor_read_ptr <- x2, rxDma <- x3, RS <- x4,
  queue <- x5, rxMain <- x6, mishap <- x7, DMATxDscrTab <- x8, tx_descriptor_write_ptr <- x9,
  txDma <- x10, TBUS <- x11, sending <- x12, txMain <- x13
LpcE == INSTANCE LpcEthernet WITH
  QueueRoom <- 2, EnetDmaRx <- x1, RXPRODUCEINDEX <- x2, RXCONSUMEINDEX <- x3,
  INTSTATUS <- x4, rx_event_posted <- x5, queue <- x6, rxMain <- x7, mishap <- x8,
  EnetDmaTx <- x9, TXPRODUCEINDEX <- x10, TXCONSUMEINDEX <- x11, sending <- x12,
  BpduFrameBuffer <- x13, txMain <- x14
Mk66fE == INSTANCE Mk66fEthernet WITH
  QueueRoom <- 2, rx_descriptors <- x1, rx_consume_index <- x2, rxDma <- x3, RDAR <- x4,
  rx_pending <- x5, queue <- x6, rxMain <- x7, overrun <- x8, tx_descriptors <- x9,
  tx_produce_index <- x10, txDma <- x11, TDAR <- x12, sending <- x13, txMain <- x14,
  overwritten <- x15
Tm4cE == INSTANCE Tm4cEthernet WITH
  rx_descriptors <- x1, rx_desc_read_index <- x2, rxDma <- x3, rxSuspended <- x4,
  rxMain <- x5, tx_descriptors <- x6, tx_desc_write_index <- x7, tx_buffer <- x8,
  txDma <- x9, txSuspended <- x10, sending <- x11, txMain <- x12, overwritten <- x13
Stm32 == INSTANCE Stm32Ports WITH
  started <- x1, portEnabled <- x2, learning <- x3, forwarding <- x4, calling <- x5,
  callbacks <- x6, link <- x7, PortControl <- x8, rsvd2cpu <- x9, frameMode <- x10,
  frames <- x11, main <- x12
Tm4c == INSTANCE Tm4cPorts WITH
  started <- x1, portEnabled <- x2, learning <- x3, forwarding <- x4, calling <- x5,
  callbacks <- x6, linkGood <- x7, PortControl <- x8, trapped <- x9, frames <- x10,
  main <- x11
Ip175C == INSTANCE LpcPorts WITH
  chip_id <- "175C", started <- x1, portEnabled <- x2, learning <- x3, forwarding <- x4,
  calling <- x5, callbacks <- x6, linkGood <- x7, powered <- x8, trapping <- x9,
  Learning <- x10, Forwarding <- x11, frames <- x12, main <- x13
Ip175D == INSTANCE LpcPorts WITH
  chip_id <- "175D", started <- x1, portEnabled <- x2, learning <- x3, forwarding <- x4,
  calling <- x5, callbacks <- x6, linkGood <- x7, powered <- x8, trapping <- x9,
  Learning <- x10, Forwarding <- x11, frames <- x12, main <- x13
Mk66f == INSTANCE Mk66fPorts WITH
  started <- x1, portEnabled <- x2, learning <- x3, forwarding <- x4, calling <- x5,
  callbacks <- x6, linkUp <- x7, LearningDisable <- x8, TransmitReceive <- x9,
  trapping <- x10, fdb <- x11, flushing <- x12, frames <- x13, main <- x14
Clock == INSTANCE Tm4cClock WITH
  time <- x1, next_stp_1s_tick <- x2, next_port_poll <- x3, ticks <- x4, polls <- x5,
  at <- x6, spent <- x7

-----------------------------------------------------------------------------
NoneFrom15 == x15 = 0
NoneFrom14 == x14 = 0 /\ NoneFrom15
NoneFrom13 == x13 = 0 /\ NoneFrom14
NoneFrom12 == x12 = 0 /\ NoneFrom13
NoneFrom11 == x11 = 0 /\ NoneFrom12
NoneFrom10 == x10 = 0 /\ NoneFrom11
NoneFrom9 == x9 = 0 /\ NoneFrom10
NoneFrom8 == x8 = 0 /\ NoneFrom9
NoneFrom7 == x7 = 0 /\ NoneFrom8

Init ==
  \/ which = "queue" /\ Queue!Init /\ NoneFrom7
  \/ which = "timers" /\ Timers!Init /\ NoneFrom8
  \/ which \in {"Stm32 receives", "Stm32 sends"} /\ Stm32E!RxInit /\ Stm32E!TxInit /\ NoneFrom14
  \/ which \in {"Lpc receives", "Lpc sends"} /\ LpcE!RxInit /\ LpcE!TxInit /\ NoneFrom15
  \/ which \in {"Mk66f receives", "Mk66f sends"} /\ Mk66fE!RxInit /\ Mk66fE!TxInit
  \/ which \in {"Tm4c receives", "Tm4c sends"} /\ Tm4cE!RxInit /\ Tm4cE!TxInit /\ NoneFrom14
  \/ which = "Stm32" /\ Stm32!Init /\ NoneFrom13
  \/ which = "Tm4c" /\ Tm4c!Init /\ NoneFrom12
  \/ which = "Ip175C" /\ Ip175C!Init /\ NoneFrom14
  \/ which = "Ip175D" /\ Ip175D!Init /\ NoneFrom14
  \/ which = "Mk66f" /\ Mk66f!Init /\ NoneFrom15
  \/ which = "clock" /\ Clock!Init /\ NoneFrom8

rest5 == <<x6, x7, x8, x9, x10, x11, x12, x13, x14, x15>>
rest6 == <<x7, x8, x9, x10, x11, x12, x13, x14, x15>>
rest7 == <<x8, x9, x10, x11, x12, x13, x14, x15>>
rest8 == <<x9, x10, x11, x12, x13, x14, x15>>
rest11 == <<x12, x13, x14, x15>>
rest12 == <<x13, x14, x15>>
rest13 == <<x14, x15>>
rest14 == <<x15>>
upTo5 == <<x1, x2, x3, x4, x5>>
upTo7 == <<x1, x2, x3, x4, x5, x6, x7>>
upTo8 == <<x1, x2, x3, x4, x5, x6, x7, x8>>

Applications == {"Stm32", "Tm4c", "Ip175C", "Ip175D", "Mk66f"}

\* Action A of the part `w`.
In(w, A) == which = w /\ A /\ UNCHANGED which

Next ==
  \/ In("queue", Queue!Next) /\ UNCHANGED rest6
  \/ In("timers", Timers!Next) /\ UNCHANGED rest7
  \/ In("Stm32 receives", Stm32E!RxNext) /\ UNCHANGED rest7
  \/ In("Stm32 sends", Stm32E!TxNext) /\ UNCHANGED <<upTo7, rest13>>
  \/ In("Lpc receives", LpcE!RxNext) /\ UNCHANGED rest8
  \/ In("Lpc sends", LpcE!TxNext) /\ UNCHANGED <<upTo8, rest14>>
  \/ In("Mk66f receives", Mk66fE!RxNext) /\ UNCHANGED rest8
  \/ In("Mk66f sends", Mk66fE!TxNext) /\ UNCHANGED upTo8
  \/ In("Tm4c receives", Tm4cE!RxNext) /\ UNCHANGED rest5
  \/ In("Tm4c sends", Tm4cE!TxNext) /\ UNCHANGED <<upTo5, rest13>>
  \/ In("Stm32", Stm32!Next) /\ UNCHANGED rest12
  \/ In("Tm4c", Tm4c!Next) /\ UNCHANGED rest11
  \/ In("Ip175C", Ip175C!Next) /\ UNCHANGED rest13
  \/ In("Ip175D", Ip175D!Next) /\ UNCHANGED rest13
  \/ In("Mk66f", Mk66f!Next) /\ UNCHANGED rest14
  \/ In("clock", Clock!Next) /\ UNCHANGED rest7

-----------------------------------------------------------------------------
(***************************************************************************)
(* The fairness of the parts, joined: each line below is weakly or         *)
(* strongly fair in the specification of its part.                         *)
(***************************************************************************)
Devices ==
  \/ In("timers", Timers!Tick) /\ UNCHANGED rest7
  \/ In("Stm32 receives", Stm32E!ETH_IRQHandler) /\ UNCHANGED rest7
  \/ In("Lpc receives", LpcE!Interrupted) /\ UNCHANGED rest8
  \/ In("Stm32 sends", Stm32E!Dma) /\ UNCHANGED <<upTo7, rest13>>
  \/ In("Lpc sends", LpcE!Dma) /\ UNCHANGED <<upTo8, rest14>>
  \/ In("Mk66f sends", Mk66fE!Dma) /\ UNCHANGED upTo8
  \/ In("Tm4c sends", Tm4cE!Dma) /\ UNCHANGED <<upTo5, rest13>>

Programs ==
  \/ In("queue", Queue!event_queue_pop_all) /\ UNCHANGED rest6
  \/ In("timers", Timers!MainStep) /\ UNCHANGED rest7
  \/ In("Mk66f receives", Mk66fE!process_received_frames) /\ UNCHANGED rest8
  \/ In("Tm4c receives", Tm4cE!ethernet_get_received) /\ UNCHANGED rest5
  \/ In("Stm32 sends", Stm32E!enet_send_blocking) /\ UNCHANGED <<upTo7, rest13>>
  \/ In("Lpc sends", LpcE!ethernet_send) /\ UNCHANGED <<upTo8, rest14>>
  \/ In("Mk66f sends", Mk66fE!enet_write_release_buffer) /\ UNCHANGED upTo8
  \/ In("Tm4c sends", Tm4cE!ethernet_transmit) /\ UNCHANGED <<upTo5, rest13>>
  \/ In("Stm32", Stm32!CallCallback) /\ UNCHANGED rest12
  \/ In("Tm4c", Tm4c!CallCallback) /\ UNCHANGED rest11
  \/ In("Ip175C", Ip175C!CallCallback) /\ UNCHANGED rest13
  \/ In("Ip175D", Ip175D!CallCallback) /\ UNCHANGED rest13
  \/ In("Mk66f", Mk66f!CallCallback) /\ UNCHANGED rest14

MainLoops ==
  \/ In("Stm32 receives", Stm32E!MainStep) /\ UNCHANGED rest7
  \/ In("Lpc receives", LpcE!Running) /\ UNCHANGED rest8
  \/ In("Mk66f receives", Mk66fE!MainLoop) /\ UNCHANGED rest8
  \/ In("Stm32", Stm32!EventLoop) /\ UNCHANGED rest12
  \/ In("Tm4c", Tm4c!MainLoop) /\ UNCHANGED rest11
  \/ In("Ip175C", Ip175C!EventLoop) /\ UNCHANGED rest13
  \/ In("Ip175D", Ip175D!EventLoop) /\ UNCHANGED rest13
  \/ In("Mk66f", Mk66f!EventLoop) /\ UNCHANGED rest14

Polls ==
  \/ In("Mk66f receives", Mk66fE!PushPending) /\ UNCHANGED rest8
  \/ In("Stm32", Stm32!PollLinks) /\ UNCHANGED rest12
  \/ In("Tm4c", Tm4c!PollDue(TRUE)) /\ UNCHANGED rest11
  \/ In("Ip175C", Ip175C!PollDue) /\ UNCHANGED rest13
  \/ In("Ip175D", Ip175D!PollDue) /\ UNCHANGED rest13
  \/ In("Mk66f", Mk66f!PollDue) /\ UNCHANGED rest14

FramesTurn ==
  \/ In("Stm32", Stm32!FrameReceived) /\ UNCHANGED rest12
  \/ In("Ip175C", Ip175C!on_frame_received) /\ UNCHANGED rest13
  \/ In("Ip175D", Ip175D!on_frame_received) /\ UNCHANGED rest13
  \/ In("Mk66f", Mk66f!process_received_frames) /\ UNCHANGED rest14

CallsReturn ==
  \/ In("Stm32", Stm32!Returning) /\ UNCHANGED rest12
  \/ In("Tm4c", Tm4c!Returning) /\ UNCHANGED rest11
  \/ In("Ip175C", Ip175C!Returning) /\ UNCHANGED rest13
  \/ In("Ip175D", Ip175D!Returning) /\ UNCHANGED rest13
  \/ In("Mk66f", Mk66f!Returning) /\ UNCHANGED rest14

Spec == /\ Init /\ [][Next]_all
        /\ WF_all(Devices) /\ WF_all(Programs)
        /\ SF_all(MainLoops) /\ SF_all(Polls) /\ SF_all(FramesTurn) /\ SF_all(CallsReturn)

-----------------------------------------------------------------------------
TypeOK == /\ which = "queue" => Queue!TypeOK
          /\ which = "timers" => Timers!TypeOK
          /\ which \in {"Stm32 receives", "Stm32 sends"} => Stm32E!TypeOK
          /\ which \in {"Lpc receives", "Lpc sends"} => LpcE!TypeOK
          /\ which \in {"Mk66f receives", "Mk66f sends"} => Mk66fE!TypeOK
          /\ which \in {"Tm4c receives", "Tm4c sends"} => Tm4cE!TypeOK

\* What waits and what is being handled, in the part that moves.
Waiting == CASE which = "queue" -> Queue!Waiting
             [] which = "Lpc receives" -> LpcE!RxWaiting
             [] which = "Mk66f receives" -> Mk66fE!RxWaiting
             [] which = "Tm4c receives" -> Tm4cE!RxWaiting
             [] which = "Stm32 sends" -> Stm32E!TxWaiting
             [] which = "Lpc sends" -> LpcE!TxWaiting
             [] which = "Mk66f sends" -> Mk66fE!TxWaiting
             [] which = "Tm4c sends" -> Tm4cE!TxWaiting
             [] OTHER -> <<>>
Handled == CASE which \in {"Lpc receives", "Mk66f receives"} -> x7.frame
             [] which = "Tm4c receives" -> x5.frame
             [] which \in {"Stm32 sends", "Lpc sends"} -> x12
             [] which = "Mk66f sends" -> x13
             [] which = "Tm4c sends" -> x11
             [] which = "queue" /\ x5.event # NoEvent -> x5.event
             [] OTHER -> NoFrame

\* The failures: a push has overrun the event queue, or the library has built a
\* frame over one that was not sent.
Spoilt == CASE which = "queue" -> x6
            [] which = "Lpc receives" -> x8 = "overrun"
            [] which = "Mk66f receives" -> x8
            [] which = "Mk66f sends" -> x15
            [] which = "Tm4c sends" -> x13
            [] OTHER -> FALSE
Stalled == Spoilt \/ (which = "Lpc receives" /\ x8 = "refused")
Fifo == INSTANCE FrameFifo WITH
  MayDiscard <- FALSE, Frames <- Frames \cup Events, waiting <- Waiting, handled <- Handled,
  spoilt <- Spoilt, stalled <- Stalled
\* The STM32's: the event queue overrun, or the frame in hand discarded.
ReceivedByStm32 == INSTANCE FrameFifo WITH
  MayDiscard <- TRUE,
  waiting <- IF which = "Stm32 receives" THEN Stm32E!RxWaiting ELSE <<>>,
  handled <- IF which = "Stm32 receives" THEN x6.frame ELSE NoFrame,
  spoilt <- which = "Stm32 receives" /\ x7 # "none",
  stalled <- which = "Stm32 receives" /\ x7 # "none"

\* Events, frames received and frames sent are queues.  event_queue.cpp as a
\* whole: until it is overrun, events are handled one at a time, in order, once,
\* and all of them, wherever pushes fall between the steps of event_queue_pop_all.
\* Receive rings: every good frame that was stored is handled, once and in order,
\* no matter when frames and interrupts come while an event is being processed, or
\* the DMA comes round to the descriptor that the main loop is working on; on the
\* LPC2387, whose interrupt does not try again (ethernet.cpp:197), a refused event
\* delays them until the next frame.  Only the STM32's may discard all the frames
\* that wait, at once, which happens when the event queue is full.  Transmit
\* rings: the frames are sent in the order of the calls, as they were when they
\* were passed, each once, though the DMA may fall asleep at any moment of the
\* call; on the TM4C129 and the MK66F, until the library is given the buffer of a
\* frame that is not yet sent.
InOrder == Fifo!FifoSpec /\ ReceivedByStm32!FifoSpec

\* A controller that ran out of descriptors of its own goes on, whatever it was
\* that filled the ring, also when it falls asleep right after it was woken; if
\* the program's event queue is not overrun.
Asleep == \/ which = "Mk66f receives" /\ ~x4 /\ ~x8
          \/ which = "Tm4c receives" /\ x4
ReceiverWakes == Asleep ~> ~Asleep

-----------------------------------------------------------------------------
\* While its callback runs, the words of an event in the buffer are those of
\* that event (event_queue.cpp:132 and 136 pass pointers into it), wherever the
\* pushes wrap: until one for which there is no room has overrun the queue.
PayloadUntouched == which = "queue" => Queue!PayloadUntouched

\* As event_queue.cpp:66 has it, "no wrap (enough free space)": a push never writes
\* over the event whose callback is running.
PushFindsSpace == which = "queue" => Queue!PayloadIntact

\* A queue that has been emptied takes any event, wherever its pointers have
\* come to stand: the retries of scheduler.cpp:120-126 count on that.
TakesAnyWhenEmpty == which = "queue" => Queue!TakesAnyWhenEmpty

\* A timer has at most one event in the queue, exactly while it is pending, and
\* what the application holds, or an event is posted for, is a timer in use: until
\* the tick comes between the lines 96 and 98 of scheduler.cpp for a timer that its
\* own callback has cancelled.
PostedOnce == which = "timers" => Timers!PostedOnce /\ Timers!HeldIsLive

\* As the assertions in scheduler.cpp:88-89 have it, the event of a timer finds the
\* timer that it was posted for, used and pending.
EventFindsItsTimer == which = "timers" => Timers!EventFindsItsTimer

\* The callback of a cancelled timer is not called any more, even when its
\* event was posted before and its slot could have been given to another; but
\* after that race of a callback with the tick, an event may have outlived its slot.
QuietOnceCancelled ==
  [][which = "timers" /\ Timers!CallbackBegins => x6 \/ Head(x2) \in x4]_all

\* The slot of a cancelled timer becomes free, so that slots do not run out:
\* whether it was waiting, its event was posted, or its own callback cancelled it.
SlotComesBack ==
  \A t \in 1 .. TimerCount :
    which = "timers" /\ Timers!Cancelled(t) ~>
      which = "timers" /\ (~Timers!Cancelled(t) \/ ~Timers!Running)

\* A repeatable timer keeps calling back until it is cancelled, through a main
\* program that misses its ticks and a queue that refuses its events; not through
\* one that is overrun, or in which events outlive their slots after that race.
KeepsFiring ==
  \A t \in 1 .. TimerCount :
    which = "timers" /\ Timers!Repeats(t) ~>
      which = "timers" /\ (t \notin x4 \/ Timers!CallsBack(t) \/ x6 \/ ~Timers!Running)

-----------------------------------------------------------------------------
\* Between calls the switch does what the library last asked for; on the LPC2387
\* board a port forwards only if the library says so from power-up on, and in the
\* middle of any call.
SwitchObeys ==
  /\ which = "Stm32" => Stm32!SwitchObeys
  /\ which = "Tm4c" => Tm4c!SwitchObeys
  /\ which = "Ip175C" => Ip175C!SwitchObeys /\ Ip175C!NoLoopAtPowerUp
  /\ which = "Ip175D" => Ip175D!SwitchObeys /\ Ip175D!NoLoopAtPowerUp
  /\ which = "Mk66f" => Mk66f!SwitchObeys

\* When FlushFdb returns, none of the port's entries is left that was there
\* when it was called, also when the port learns all the time.
FlushDone == which = "Mk66f" => Mk66f!FlushDone

\* As StpCallback_TransmitReleaseBuffer's documentation has it, what the library
\* passes to it is the frame that is sent (TM4C129).
SendsWhatWasReleased ==
  [][which = "Tm4c sends" /\ Tm4cE!DmaBegins => x11' = x6[x9].frame]_all

\* Once the links no longer change, the library knows in the end which are up
\* and which are down, whatever frames were still on their way, if the loop gets
\* to the poll again and again: the TM4C129's, if no BPDU of a port that it took
\* for disabled met a link that was down again (main.cpp:488).
LinkUp(p) == CASE which = "Stm32" -> Stm32!LinkUp(p) [] which = "Tm4c" -> Tm4c!LinkUp(p)
               [] which = "Ip175C" -> Ip175C!LinkUp(p) [] which = "Ip175D" -> Ip175D!LinkUp(p)
               [] which = "Mk66f" -> Mk66f!LinkUp(p) [] OTHER -> FALSE
LinkDown(p) == CASE which = "Stm32" -> Stm32!LinkDown(p) [] which = "Tm4c" -> Tm4c!LinkDown(p)
                 [] which = "Ip175C" -> Ip175C!LinkDown(p) [] which = "Ip175D" -> Ip175D!LinkDown(p)
                 [] which = "Mk66f" -> Mk66f!LinkDown(p) [] OTHER -> FALSE
LoopComesRound == CASE which = "Tm4c" -> Tm4c!Polls [] which = "Mk66f" -> Mk66f!Polls [] OTHER -> TRUE
LinksStay == which \in Applications => x7' = x7
LinkSeen ==
  /\ []<>LoopComesRound /\ <>[](which = "Mk66f" => Mk66f!Tagged)
  /\ <>[][LinksStay]_all
  => <>[](which \in Applications =>
            \A p \in Ports : (LinkUp(p) => x2[p]) /\ (LinkDown(p) => ~x2[p]))

\* However long the passes of the main loop take, up to MaxPass, the delays do
\* not add up: the library is ticked and the links are polled once for each period.
InTime == which = "clock" => Clock!InTime
==============================================================================
