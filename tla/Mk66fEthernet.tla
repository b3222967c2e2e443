--------------------------- MODULE Mk66fEthernet ---------------------------
(***************************************************************************)
(* TestAppMK66F+KSZ8794, drivers/ethernet.cpp and main.cpp.  Receiving:    *)
(* the interrupt only sets a flag; the main loop posts an event for it,    *)
(* whose callback empties the ring of descriptors.  The controller stops   *)
(* when it finds no empty descriptor, until RDAR is written.  Sending: the *)
(* library builds its frame in the buffer of the next descriptor of a      *)
(* ring, unless the descriptor is marked as being written to; it does not  *)
(* look whether the controller still has to send what it held before.  A   *)
(* push into a full event queue is refused, or overruns the queue (see     *)
(* EventQueue): what the program does after that is not followed.          *)
(***************************************************************************)
EXTENDS Integers, Sequences, SequencesExt

CONSTANTS rx_buffer_count, tx_buffer_count,   \* descriptors, 5 and 5 in the code
          Frames, NoFrame,
          Errors,            \* bits of a descriptor's status that tell of an error
          QueueRoom          \* how many events the queue holds

VARIABLES
  rx_descriptors,   \* [E, error, frame] of each descriptor
  rx_consume_index,
  rxDma,            \* the descriptor that the controller fills next
  RDAR,             \* the controller looks for empty descriptors
  rx_pending,
  queue,            \* events, the one that is being processed at the head
  rxMain,           \* where the main program is, and with which frame
  overrun           \* history: an event was pushed without room for it

rxVars == <<rx_descriptors, rx_consume_index, rxDma, RDAR, rx_pending, queue, rxMain, overrun>>

RxIndex == 0 .. rx_buffer_count - 1
RxAfter(i) == IF i = rx_buffer_count - 1 THEN 0 ELSE i + 1
rx_descriptor == [E : BOOLEAN, error : Errors \cup {"none"}, frame : Frames \cup {NoFrame}]
At(where) == [at |-> where, frame |-> NoFrame]

\* error_flags: because of a || in it, bit 0 only (the frame was truncated).
error_flags == {"TR"}

RxInit ==
  /\ rx_descriptors = [i \in RxIndex |-> [E |-> TRUE, error |-> "none", frame |-> NoFrame]]
  /\ rx_consume_index = 0 /\ rxDma = 0 /\ RDAR = TRUE
  /\ rx_pending = FALSE /\ queue = <<>> /\ rxMain = At("pop_all") /\ overrun = FALSE

-----------------------------------------------------------------------------
\* A frame is stored and rx_isr called ...
Receive(f, error) ==
  /\ RDAR /\ rx_descriptors[rxDma].E
  /\ rx_descriptors' = [rx_descriptors EXCEPT ![rxDma] = [E |-> FALSE, error |-> error, frame |-> f]]
  /\ rxDma' = RxAfter(rxDma)
  /\ rx_pending' = TRUE
  /\ UNCHANGED <<rx_consume_index, RDAR, queue, rxMain, overrun>>

\* ... or the controller stops.
ReceiverStops ==
  /\ RDAR /\ ~rx_descriptors[rxDma].E
  /\ RDAR' = FALSE
  /\ UNCHANGED <<rx_descriptors, rx_consume_index, rxDma, rx_pending, queue, rxMain, overrun>>

\* Another driver posts an event: slower than the main loop can pop them.
PostOther ==
  /\ rxMain.at # "pop_all" /\ Len(queue) < QueueRoom
  /\ queue' = Append(queue, "other")
  /\ UNCHANGED <<rx_descriptors, rx_consume_index, rxDma, RDAR, rx_pending, rxMain, overrun>>

\* A push for which there is no room, by either, where it is not refused.
QueueOverrun ==
  /\ Len(queue) >= QueueRoom
  /\ overrun' = TRUE
  /\ UNCHANGED <<rx_descriptors, rx_consume_index, rxDma, RDAR, rx_pending, queue, rxMain>>

-----------------------------------------------------------------------------
\* The main loop: event_queue_pop_all, then rx_pending is looked at.
OtherEvent ==
  /\ rxMain.at = "pop_all" /\ queue # <<>> /\ Head(queue) = "other"
  /\ queue' = Tail(queue)
  /\ UNCHANGED <<rx_descriptors, rx_consume_index, rxDma, RDAR, rx_pending, rxMain, overrun>>

AllPopped ==
  /\ rxMain.at = "pop_all" /\ queue = <<>>
  /\ rxMain' = At("look")
  /\ UNCHANGED <<rx_descriptors, rx_consume_index, rxDma, RDAR, rx_pending, queue, overrun>>

Push ==
  /\ rxMain.at = "look" /\ rx_pending /\ Len(queue) < QueueRoom
  /\ queue' = Append(queue, "process_received_frames")
  /\ rxMain' = At("pushed")
  /\ UNCHANGED <<rx_descriptors, rx_consume_index, rxDma, RDAR, rx_pending, overrun>>

NothingToPush ==
  /\ rxMain.at = "look" /\ (~rx_pending \/ Len(queue) >= QueueRoom)
  /\ rxMain' = At("pop_all")
  /\ UNCHANGED <<rx_descriptors, rx_consume_index, rxDma, RDAR, rx_pending, queue, overrun>>

\* The flag is cleared after the event was posted: a frame that comes in
\* between is found when the event is processed.
ClearPending ==
  /\ rxMain.at = "pushed"
  /\ rx_pending' = FALSE
  /\ rxMain' = At("pop_all")
  /\ UNCHANGED <<rx_descriptors, rx_consume_index, rxDma, RDAR, queue, overrun>>

BeginEvent ==
  /\ rxMain.at = "pop_all" /\ queue # <<>> /\ Head(queue) = "process_received_frames"
  /\ rxMain' = At("scan")
  /\ UNCHANGED <<rx_descriptors, rx_consume_index, rxDma, RDAR, rx_pending, queue, overrun>>

-----------------------------------------------------------------------------
\* The descriptor is given back.
Emptied == [rx_descriptors EXCEPT ![rx_consume_index].E = TRUE]

\* enet_read_get_buffer skips a frame with an error ...
IsError(i) == ~rx_descriptors[i].E /\ rx_descriptors[i].error \in error_flags

\* Variant: the controller is not told.
SkipErrorOnly ==
  /\ rxMain.at = "scan" /\ IsError(rx_consume_index)
  /\ rx_descriptors' = Emptied
  /\ rx_consume_index' = RxAfter(rx_consume_index)
  /\ UNCHANGED <<rxDma, RDAR, rx_pending, queue, rxMain, overrun>>

SkipError ==
  /\ rxMain.at = "scan" /\ IsError(rx_consume_index)
  /\ rx_descriptors' = Emptied
  /\ rx_consume_index' = RxAfter(rx_consume_index)
  /\ RDAR' = TRUE
  /\ UNCHANGED <<rxDma, rx_pending, queue, rxMain, overrun>>

\* ... and returns the next one, which process_received_frames handles.
GetBuffer ==
  /\ rxMain.at = "scan"
  /\ ~rx_descriptors[rx_consume_index].E /\ ~IsError(rx_consume_index)
  /\ rxMain' = [at |-> "process", frame |-> rx_descriptors[rx_consume_index].frame]
  /\ UNCHANGED <<rx_descriptors, rx_consume_index, rxDma, RDAR, rx_pending, queue, overrun>>

RxReleaseBuffer ==
  /\ rxMain.at = "process"
  /\ rx_descriptors' = Emptied
  /\ rx_consume_index' = RxAfter(rx_consume_index)
  /\ RDAR' = TRUE
  /\ rxMain' = At("scan")
  /\ UNCHANGED <<rxDma, rx_pending, queue, overrun>>

\* No more frames.
NoBuffer ==
  /\ rxMain.at = "scan" /\ rx_descriptors[rx_consume_index].E
  /\ rxMain' = At("return")
  /\ UNCHANGED <<rx_descriptors, rx_consume_index, rxDma, RDAR, rx_pending, queue, overrun>>

PopEvent ==
  /\ rxMain.at = "return"
  /\ queue' = Tail(queue)
  /\ rxMain' = At("pop_all")
  /\ UNCHANGED <<rx_descriptors, rx_consume_index, rxDma, RDAR, rx_pending, overrun>>

process_received_frames ==
  ~overrun /\ (SkipError \/ GetBuffer \/ RxReleaseBuffer \/ NoBuffer \/ PopEvent)
MainLoop == ~overrun /\ (OtherEvent \/ AllPopped \/ NothingToPush \/ ClearPending \/ BeginEvent)
PushPending == ~overrun /\ Push

RxNext ==
  \/ ~overrun /\ \/ \E f \in Frames, error \in Errors \cup {"none"} : Receive(f, error)
                 \/ ReceiverStops \/ PostOther \/ QueueOverrun
  \/ PushPending \/ MainLoop \/ process_received_frames
  \/ overrun /\ UNCHANGED rxVars

\* The main loop goes on (the tick interrupt ends every WFI).  Other events do
\* not always fill the queue between its emptying and the look at rx_pending.
RxSpec == /\ RxInit /\ [][RxNext]_rxVars
          /\ WF_rxVars(process_received_frames) /\ SF_rxVars(MainLoop) /\ SF_rxVars(PushPending)

\* The frames in the ring to be handled, oldest first; one may be rxMain.frame.
RxWaiting ==
  LET order == [k \in 1 .. rx_buffer_count |-> (rx_consume_index + k - 1) % rx_buffer_count]
      full  == SelectSeq(order, LAMBDA i : ~rx_descriptors[i].E)
      good  == SelectSeq(full, LAMBDA i : ~IsError(i))
  IN  [k \in DOMAIN good |-> rx_descriptors[good[k]].frame]

-----------------------------------------------------------------------------
VARIABLES tx_descriptors,   \* [R, TO1, frame] of each descriptor
          tx_produce_index,
          txDma,            \* the controller's descriptor
          TDAR,             \* the controller looks for frames
          sending,          \* the frame that it is transmitting
          txMain,           \* where the main program is in the callbacks
          overwritten       \* history: a frame was built over one that was not yet sent

txVars == <<tx_descriptors, tx_produce_index, txDma, TDAR, sending, txMain, overwritten>>

TxIndex == 0 .. tx_buffer_count - 1
tx_descriptor == [R : BOOLEAN, TO1 : BOOLEAN, frame : Frames \cup {NoFrame}]
TxAfter(i) == IF i = tx_buffer_count - 1 THEN 0 ELSE i + 1

TxInit ==
  /\ tx_descriptors = [i \in TxIndex |-> [R |-> FALSE, TO1 |-> FALSE, frame |-> NoFrame]]
  /\ tx_produce_index = 0 /\ txDma = 0 /\ TDAR = FALSE /\ sending = NoFrame /\ txMain = "idle"
  /\ overwritten = FALSE

-----------------------------------------------------------------------------
\* enet_write_get_buffer, and the library fills the buffer.  The code does not
\* look at R.
WriteGetBuffer(f) ==
  /\ txMain = "idle"
  /\ ~tx_descriptors[tx_produce_index].TO1
  /\ tx_descriptors' = [tx_descriptors EXCEPT ![tx_produce_index].TO1 = TRUE,
                                              ![tx_produce_index].frame = f]
  /\ txMain' = "built"
  /\ overwritten' = (overwritten \/ tx_descriptors[tx_produce_index].R)
  /\ UNCHANGED <<tx_produce_index, txDma, TDAR, sending>>

\* enet_write_release_buffer: the descriptor is the controller's, ...
WriteReleaseBuffer ==
  /\ txMain = "built"
  /\ tx_descriptors' = [tx_descriptors EXCEPT ![tx_produce_index].R = TRUE,
                                              ![tx_produce_index].TO1 = FALSE]
  /\ txMain' = "released"
  /\ UNCHANGED <<tx_produce_index, txDma, TDAR, sending, overwritten>>

\* ... which is told so.
TellController ==
  /\ txMain = "released"
  /\ tx_produce_index' = TxAfter(tx_produce_index)
  /\ TDAR' = TRUE
  /\ txMain' = "idle"
  /\ UNCHANGED <<tx_descriptors, txDma, sending, overwritten>>

-----------------------------------------------------------------------------
DmaBegins ==
  /\ TDAR /\ sending = NoFrame /\ tx_descriptors[txDma].R
  /\ sending' = tx_descriptors[txDma].frame
  /\ UNCHANGED <<tx_descriptors, tx_produce_index, txDma, TDAR, txMain, overwritten>>

DmaEnds ==
  /\ sending # NoFrame
  /\ tx_descriptors' = [tx_descriptors EXCEPT ![txDma].R = FALSE]
  /\ txDma' = TxAfter(txDma)
  /\ sending' = NoFrame
  /\ UNCHANGED <<tx_produce_index, TDAR, txMain, overwritten>>

DmaStops ==
  /\ TDAR /\ sending = NoFrame /\ ~tx_descriptors[txDma].R
  /\ TDAR' = FALSE
  /\ UNCHANGED <<tx_descriptors, tx_produce_index, txDma, sending, txMain, overwritten>>

Dma == DmaBegins \/ DmaEnds \/ DmaStops
enet_write_release_buffer == WriteReleaseBuffer \/ TellController

TxNext == (\E f \in Frames : WriteGetBuffer(f)) \/ enet_write_release_buffer \/ Dma

\* The controller transmits, the program goes on.
TxSpec == TxInit /\ [][TxNext]_txVars /\ WF_txVars(Dma) /\ WF_txVars(enet_write_release_buffer)

\* The frames in the ring, oldest first.
TxWaiting ==
  LET order == [k \in 1 .. tx_buffer_count |-> (txDma + k - 1) % tx_buffer_count]
      ready == SelectSeq(order, LAMBDA i : tx_descriptors[i].R)
  IN  [k \in DOMAIN ready |-> tx_descriptors[ready[k]].frame]

TypeOK == /\ rx_descriptors \in [RxIndex -> rx_descriptor]
          /\ tx_descriptors \in [TxIndex -> tx_descriptor]
===============================================================================
