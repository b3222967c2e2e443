---------------------------- MODULE LpcEthernet ----------------------------
(***************************************************************************)
(* TestAppLPC2387+IP175CD/drivers/ethernet.cpp, and the buffer of          *)
(* stp_callbacks.cpp in which the library builds its frame.  Receiving:    *)
(* the controller advances a produce index, the main loop a consume index; *)
(* the interrupt posts one event, which empties the ring.  Interrupts are  *)
(* served before the main program takes its next step.  Sending: the other *)
(* way round.                                                              *)
(* A push into a full event queue is refused, or overruns the queue (see   *)
(* EventQueue): what the program does after that is not followed.          *)
(***************************************************************************)
EXTENDS Integers, Sequences, SequencesExt

CONSTANTS RX_BUFFER_COUNT, TX_BUFFER_COUNT,   \* descriptors, 7 and 3 in the code
          Frames, NoFrame,
          QueueRoom,         \* how many events the queue holds
          MaxOther           \* how many of them other drivers ever occupy

VARIABLES
  EnetDmaRx,   \* [frame, error] of each descriptor
  RXPRODUCEINDEX, RXCONSUMEINDEX,
  INTSTATUS,   \* the bit "rx done"
  rx_event_posted,
  queue,       \* events, the one that is being processed at the head
  rxMain,      \* where the main loop is, and with which frame
  mishap       \* history: what became of a push for which there was no room

rxVars == <<EnetDmaRx, RXPRODUCEINDEX, RXCONSUMEINDEX, INTSTATUS, rx_event_posted, queue, rxMain,
            mishap>>

RxIndex == 0 .. RX_BUFFER_COUNT - 1
EnetDmaRxSta == [frame : Frames \cup {NoFrame}, error : BOOLEAN]
RxAfter(i) == (i + 1) % RX_BUFFER_COUNT
At(where) == [at |-> where, frame |-> NoFrame]

RxInit ==
  /\ EnetDmaRx = [i \in RxIndex |-> [frame |-> NoFrame, error |-> FALSE]]
  /\ RXPRODUCEINDEX = 0 /\ RXCONSUMEINDEX = 0 /\ INTSTATUS = FALSE
  /\ rx_event_posted = FALSE /\ queue = <<>> /\ rxMain = At("pop_all") /\ mishap = "none"

-----------------------------------------------------------------------------
\* The controller stores a frame; it drops it when the ring is full.
Receive(f, error) ==
  /\ RxAfter(RXPRODUCEINDEX) # RXCONSUMEINDEX
  /\ EnetDmaRx' = [EnetDmaRx EXCEPT ![RXPRODUCEINDEX] = [frame |-> f, error |-> error]]
  /\ RXPRODUCEINDEX' = RxAfter(RXPRODUCEINDEX)
  /\ INTSTATUS' = TRUE
  /\ UNCHANGED <<RXCONSUMEINDEX, rx_event_posted, queue, rxMain, mishap>>

\* One event is enough until it is processed.  When it is refused, the frames
\* wait for the interrupt of the next one.
ethernet_isr ==
  /\ INTSTATUS
  /\ INTSTATUS' = FALSE
  /\ LET pushed == ~rx_event_posted /\ Len(queue) < QueueRoom
     IN  /\ rx_event_posted' = (rx_event_posted \/ pushed)
         /\ queue' = IF pushed THEN Append(queue, "on_rx_event") ELSE queue
  /\ mishap' = IF ~rx_event_posted /\ Len(queue) >= QueueRoom THEN "refused" ELSE "none"
  /\ UNCHANGED <<EnetDmaRx, RXPRODUCEINDEX, RXCONSUMEINDEX, rxMain>>

\* Another driver posts an event.
PostOther ==
  /\ Len(queue) < QueueRoom
  /\ Len(SelectSeq(queue, LAMBDA e : e = "other")) < MaxOther
  /\ queue' = Append(queue, "other")
  /\ UNCHANGED <<EnetDmaRx, RXPRODUCEINDEX, RXCONSUMEINDEX, INTSTATUS, rx_event_posted, rxMain,
                 mishap>>

\* A push for which there is no room, by either, where it is not refused.
QueueOverrun ==
  /\ Len(queue) >= QueueRoom
  /\ mishap' = "overrun"
  /\ UNCHANGED <<EnetDmaRx, RXPRODUCEINDEX, RXCONSUMEINDEX, INTSTATUS, rx_event_posted, queue,
                 rxMain>>

-----------------------------------------------------------------------------
\* on_rx_event first clears the flag.
BeginEvent ==
  /\ rxMain.at = "pop_all" /\ queue # <<>> /\ Head(queue) = "on_rx_event"
  /\ rx_event_posted' = FALSE
  /\ rxMain' = At("loop")
  /\ UNCHANGED <<EnetDmaRx, RXCONSUMEINDEX, queue>>

OtherEvent ==
  /\ rxMain.at = "pop_all" /\ queue # <<>> /\ Head(queue) = "other"
  /\ queue' = Tail(queue)
  /\ UNCHANGED <<EnetDmaRx, RXCONSUMEINDEX, rx_event_posted, rxMain>>

\* rx_handler is called, but not for a frame with an error.
CallHandler ==
  /\ rxMain.at = "loop" /\ RXCONSUMEINDEX # RXPRODUCEINDEX
  /\ ~EnetDmaRx[RXCONSUMEINDEX].error
  /\ rxMain' = [at |-> "handler", frame |-> EnetDmaRx[RXCONSUMEINDEX].frame]
  /\ UNCHANGED <<EnetDmaRx, RXCONSUMEINDEX, rx_event_posted, queue>>

\* Variant: one frame for each event.
ConsumeAndReturn ==
  /\ \/ rxMain.at = "handler"
     \/ rxMain.at = "loop" /\ RXCONSUMEINDEX # RXPRODUCEINDEX /\ EnetDmaRx[RXCONSUMEINDEX].error
  /\ RXCONSUMEINDEX' = RxAfter(RXCONSUMEINDEX)
  /\ rxMain' = At("return")
  /\ UNCHANGED <<EnetDmaRx, rx_event_posted, queue>>

Consume ==
  /\ \/ rxMain.at = "handler"
     \/ rxMain.at = "loop" /\ RXCONSUMEINDEX # RXPRODUCEINDEX /\ EnetDmaRx[RXCONSUMEINDEX].error
  /\ RXCONSUMEINDEX' = RxAfter(RXCONSUMEINDEX)
  /\ rxMain' = At("loop")
  /\ UNCHANGED <<EnetDmaRx, rx_event_posted, queue>>

\* The ring is empty.
EndEvent ==
  /\ rxMain.at = "loop" /\ RXCONSUMEINDEX = RXPRODUCEINDEX
  /\ rxMain' = At("return")
  /\ UNCHANGED <<EnetDmaRx, RXCONSUMEINDEX, rx_event_posted, queue>>

\* The event leaves the queue after its callback has returned.
PopEvent ==
  /\ rxMain.at = "return"
  /\ queue' = Tail(queue)
  /\ rxMain' = At("pop_all")
  /\ UNCHANGED <<EnetDmaRx, RXCONSUMEINDEX, rx_event_posted>>

on_rx_event == BeginEvent \/ CallHandler \/ Consume \/ EndEvent \/ PopEvent
MainStep == /\ ~INTSTATUS
            /\ on_rx_event \/ OtherEvent
            /\ UNCHANGED <<RXPRODUCEINDEX, INTSTATUS, mishap>>

Orderly == mishap # "overrun"
Interrupted == Orderly /\ ethernet_isr
Running == Orderly /\ MainStep

RxNext ==
  \/ Orderly /\ \/ \E f \in Frames, error \in BOOLEAN : Receive(f, error)
                \/ PostOther \/ QueueOverrun
  \/ Interrupted \/ Running
  \/ ~Orderly /\ UNCHANGED rxVars

\* The interrupt is served, and between interrupts the main loop goes on.
RxSpec == RxInit /\ [][RxNext]_rxVars /\ WF_rxVars(Interrupted) /\ SF_rxVars(Running)

\* The good frames in the ring, oldest first; the first one may be rxMain.frame.
RxWaiting ==
  LET count == (RXPRODUCEINDEX - RXCONSUMEINDEX) % RX_BUFFER_COUNT
      ring  == [k \in 1 .. count |-> EnetDmaRx[(RXCONSUMEINDEX + k - 1) % RX_BUFFER_COUNT]]
      good  == SelectSeq(ring, LAMBDA d : ~d.error)
  IN  [k \in DOMAIN good |-> good[k].frame]

-----------------------------------------------------------------------------
VARIABLES
  EnetDmaTx,         \* the frame in each descriptor's buffer
  TXPRODUCEINDEX, TXCONSUMEINDEX,
  sending,           \* the frame that the controller is transmitting
  BpduFrameBuffer,   \* the frame that is being built and sent
  txMain             \* where the main program is in the callbacks

txVars == <<EnetDmaTx, TXPRODUCEINDEX, TXCONSUMEINDEX, sending, BpduFrameBuffer, txMain>>

TxIndex == 0 .. TX_BUFFER_COUNT - 1
TxAfter(i) == (i + 1) % TX_BUFFER_COUNT

TxInit ==
  /\ EnetDmaTx = [i \in TxIndex |-> NoFrame]
  /\ TXPRODUCEINDEX = 0 /\ TXCONSUMEINDEX = 0
  /\ sending = NoFrame /\ BpduFrameBuffer = NoFrame /\ txMain = "idle"

-----------------------------------------------------------------------------
\* StpCallback_TransmitGetBuffer, and the library fills the buffer.
TransmitGetBuffer(f) ==
  /\ txMain = "idle"
  /\ BpduFrameBuffer' = f
  /\ txMain' = "wait"
  /\ UNCHANGED <<EnetDmaTx, TXPRODUCEINDEX, TXCONSUMEINDEX, sending>>

\* ethernet_send: when the next descriptor is free, the frame is copied ...
Copy ==
  /\ txMain = "wait"
  /\ TxAfter(TXPRODUCEINDEX) # TXCONSUMEINDEX
  /\ EnetDmaTx' = [EnetDmaTx EXCEPT ![TXPRODUCEINDEX] = BpduFrameBuffer]
  /\ txMain' = "copied"
  /\ UNCHANGED <<TXPRODUCEINDEX, TXCONSUMEINDEX, sending, BpduFrameBuffer>>

\* ... and then given to the controller.
Produce ==
  /\ txMain = "copied"
  /\ TXPRODUCEINDEX' = TxAfter(TXPRODUCEINDEX)
  /\ txMain' = "idle"
  /\ UNCHANGED <<EnetDmaTx, TXCONSUMEINDEX, sending, BpduFrameBuffer>>

-----------------------------------------------------------------------------
DmaBegins ==
  /\ sending = NoFrame /\ TXCONSUMEINDEX # TXPRODUCEINDEX
  /\ sending' = EnetDmaTx[TXCONSUMEINDEX]
  /\ UNCHANGED <<EnetDmaTx, TXPRODUCEINDEX, TXCONSUMEINDEX, BpduFrameBuffer, txMain>>

DmaEnds ==
  /\ sending # NoFrame
  /\ TXCONSUMEINDEX' = TxAfter(TXCONSUMEINDEX)
  /\ sending' = NoFrame
  /\ UNCHANGED <<EnetDmaTx, TXPRODUCEINDEX, BpduFrameBuffer, txMain>>

Dma == DmaBegins \/ DmaEnds
ethernet_send == Copy \/ Produce

TxNext == (\E f \in Frames : TransmitGetBuffer(f)) \/ ethernet_send \/ Dma

\* The controller transmits, the program goes on.
TxSpec == TxInit /\ [][TxNext]_txVars /\ WF_txVars(Dma) /\ WF_txVars(ethernet_send)

\* The frames in the ring, oldest first: equal indices mean that it is empty.
TxWaiting == [k \in 1 .. (TXPRODUCEINDEX - TXCONSUMEINDEX) % TX_BUFFER_COUNT |->
                EnetDmaTx[(TXCONSUMEINDEX + k - 1) % TX_BUFFER_COUNT]]

TypeOK == /\ EnetDmaRx \in [RxIndex -> EnetDmaRxSta]
          /\ EnetDmaTx \in [TxIndex -> Frames \cup {NoFrame}]
===============================================================================
