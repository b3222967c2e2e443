--------------------------- MODULE Stm32Ethernet ---------------------------
(***************************************************************************)
(* TestAppSTM32+88E6352/drivers/ethernet.cpp.  Receiving: the DMA fills a  *)
(* ring of descriptors, the interrupt posts an event for it, the main loop *)
(* empties the ring.  When the event queue is full its push is refused, or *)
(* overruns the queue (see EventQueue); refused, the interrupt discards    *)
(* the ring's frames, the one in hand with them.  Interrupts are served    *)
(* before the main program takes its next step.  Sending: the main program *)
(* fills the descriptors of another ring and hands them to the DMA, which  *)
(* suspends itself when it finds one that is not its own.                  *)
(***************************************************************************)
EXTENDS Integers, Sequences, SequencesExt

CONSTANTS ETH_RXBUFNB, ETH_TXBUFNB,   \* descriptors of each ring, 4 in the code
          Frames, NoFrame,
          QueueRoom                   \* how many events the queue holds

VARIABLES
  DMARxDscrTab,   \* [own, frame] of each descriptor
  rx_descriptor_read_ptr,
  rxDma,          \* the descriptor that the DMA fills next
  RS,             \* ETH_DMASR_RS
  queue,          \* events of this driver and of others
  rxMain,         \* where the main loop is, and with which frame
  mishap          \* history: what has upset the order of the frames

rxVars == <<DMARxDscrTab, rx_descriptor_read_ptr, rxDma, RS, queue, rxMain, mishap>>

RxIndex == 0 .. ETH_RXBUFNB - 1
rx_descriptor == [own : BOOLEAN, frame : Frames \cup {NoFrame}]
RxNextDesc(i) == (i + 1) % ETH_RXBUFNB   \* Buffer2NextDescAddr
NotInMain == [at |-> "pop_all", frame |-> NoFrame]
RxInit ==
  /\ DMARxDscrTab = [i \in RxIndex |-> [own |-> TRUE, frame |-> NoFrame]]
  /\ rx_descriptor_read_ptr = 0 /\ rxDma = 0 /\ RS = FALSE
  /\ queue = <<>> /\ rxMain = NotInMain /\ mishap = "none"

\* The descriptors that hold a frame, from `i` on, in the order of the ring.
Filled(tab, i) ==
  LET order == [k \in 1 .. ETH_RXBUFNB |-> (i + k - 1) % ETH_RXBUFNB]
      own   == {k \in 1 .. ETH_RXBUFNB : tab[order[k]].own}
  IN  IF own = {} THEN order ELSE SubSeq(order, 1, (CHOOSE k \in own : \A n \in own : k <= n) - 1)

-----------------------------------------------------------------------------
\* The DMA stores a frame; without a descriptor of its own it drops it.
Receive(f) ==
  /\ DMARxDscrTab[rxDma].own
  /\ DMARxDscrTab' = [DMARxDscrTab EXCEPT ![rxDma] = [own |-> FALSE, frame |-> f]]
  /\ rxDma' = RxNextDesc(rxDma)
  /\ RS' = TRUE
  /\ UNCHANGED <<rx_descriptor_read_ptr, queue, rxMain, mishap>>

\* ETH_IRQHandler: the event is posted.
IrqPosts ==
  /\ RS
  /\ Len(queue) < QueueRoom
  /\ RS' = FALSE
  /\ queue' = Append(queue, "process_received_frames")
  /\ UNCHANGED <<DMARxDscrTab, rx_descriptor_read_ptr, rxDma, rxMain, mishap>>

\* ETH_IRQHandler: no room for the event; every frame in the ring is released,
\* also the one whose descriptor process_received_frames goes on to release.
IrqDiscards ==
  /\ RS
  /\ Len(queue) >= QueueRoom
  /\ RS' = FALSE
  /\ LET gone == Filled(DMARxDscrTab, rx_descriptor_read_ptr)
     IN  /\ DMARxDscrTab' = [i \in RxIndex |-> [DMARxDscrTab[i] EXCEPT !.own = @ \/ i \in ToSet(gone)]]
         /\ rx_descriptor_read_ptr' = (rx_descriptor_read_ptr + Len(gone)) % ETH_RXBUFNB
  /\ mishap' = IF rxMain.at = "callback" THEN "in hand" ELSE mishap
  /\ UNCHANGED <<rxDma, queue, rxMain>>

\* Another driver posts an event.
PostOther ==
  /\ Len(queue) < QueueRoom
  /\ queue' = Append(queue, "other")
  /\ UNCHANGED <<DMARxDscrTab, rx_descriptor_read_ptr, rxDma, RS, rxMain, mishap>>

\* A push for which there is no room, by either, where it is not refused.
QueueOverrun ==
  /\ Len(queue) >= QueueRoom
  /\ mishap' = "overrun"
  /\ UNCHANGED <<DMARxDscrTab, rx_descriptor_read_ptr, rxDma, RS, queue, rxMain>>

-----------------------------------------------------------------------------
\* event_queue_pop_all calls the callback of the oldest event.
ProcessReceivedFrames ==
  /\ ~RS
  /\ rxMain.at = "pop_all"
  /\ queue # <<>> /\ Head(queue) = "process_received_frames"
  /\ rxMain' = [rxMain EXCEPT !.at = "loop"]
  /\ UNCHANGED <<DMARxDscrTab, rx_descriptor_read_ptr, rxDma, RS, queue, mishap>>

ProcessOther ==
  /\ ~RS
  /\ rxMain.at = "pop_all"
  /\ queue # <<>> /\ Head(queue) = "other"
  /\ queue' = Tail(queue)
  /\ UNCHANGED <<DMARxDscrTab, rx_descriptor_read_ptr, rxDma, RS, rxMain, mishap>>

\* get_received_frame_acquire and the call of frame_received.
Acquire ==
  /\ ~RS
  /\ rxMain.at = "loop"
  /\ ~DMARxDscrTab[rx_descriptor_read_ptr].own
  /\ rxMain' = [at |-> "callback", frame |-> DMARxDscrTab[rx_descriptor_read_ptr].frame]
  /\ UNCHANGED <<DMARxDscrTab, rx_descriptor_read_ptr, rxDma, RS, queue, mishap>>

\* get_received_frame_release: the descriptor is the DMA's again.
Release ==
  /\ ~RS
  /\ rxMain.at = "callback"
  /\ DMARxDscrTab' = [DMARxDscrTab EXCEPT ![rx_descriptor_read_ptr].own = TRUE]
  /\ rxMain' = [at |-> "release", frame |-> NoFrame]
  /\ UNCHANGED <<rx_descriptor_read_ptr, rxDma, RS, queue, mishap>>

\* Variant: one frame for each event.
AdvanceReadPtrAndReturn ==
  /\ ~RS
  /\ rxMain.at = "release"
  /\ rx_descriptor_read_ptr' = RxNextDesc(rx_descriptor_read_ptr)
  /\ queue' = Tail(queue)
  /\ rxMain' = NotInMain
  /\ UNCHANGED <<DMARxDscrTab, rxDma, RS, mishap>>

\* Then the read pointer is advanced; the DMA may already fill it.
AdvanceReadPtr ==
  /\ ~RS
  /\ rxMain.at = "release"
  /\ rx_descriptor_read_ptr' = RxNextDesc(rx_descriptor_read_ptr)
  /\ rxMain' = [rxMain EXCEPT !.at = "loop"]
  /\ UNCHANGED <<DMARxDscrTab, rxDma, RS, queue, mishap>>

\* No more frames: process_received_frames returns and its event is popped.
EndLoop ==
  /\ ~RS
  /\ rxMain.at = "loop"
  /\ DMARxDscrTab[rx_descriptor_read_ptr].own
  /\ queue' = Tail(queue)
  /\ rxMain' = NotInMain
  /\ UNCHANGED <<DMARxDscrTab, rx_descriptor_read_ptr, rxDma, RS, mishap>>

Orderly == mishap # "overrun"
ETH_IRQHandler == Orderly /\ (IrqPosts \/ IrqDiscards)
MainStep ==
  /\ Orderly
  /\ \/ ProcessReceivedFrames \/ ProcessOther \/ Acquire \/ Release \/ AdvanceReadPtr \/ EndLoop

\* What the program does with events that were overwritten is not followed.
RxNext ==
  \/ Orderly /\ ((\E f \in Frames : Receive(f)) \/ PostOther \/ QueueOverrun)
  \/ ETH_IRQHandler \/ MainStep
  \/ ~Orderly /\ UNCHANGED rxVars

\* The interrupt is served and the main loop goes on.  Between two interrupts
\* it gets to run again and again, however many there are.
RxSpec == RxInit /\ [][RxNext]_rxVars /\ WF_rxVars(ETH_IRQHandler) /\ SF_rxVars(MainStep)

\* The frames in the ring, oldest first; the one being processed is rxMain.frame.
RxWaiting ==
  LET f == Filled(DMARxDscrTab, IF rxMain.at = "release" THEN RxNextDesc(rx_descriptor_read_ptr)
                                ELSE rx_descriptor_read_ptr)
  IN  [k \in DOMAIN f |-> DMARxDscrTab[f[k]].frame]

-----------------------------------------------------------------------------
VARIABLES
  DMATxDscrTab,   \* [own, frame] of each descriptor
  tx_descriptor_write_ptr,
  txDma,          \* the DMA's descriptor
  TBUS,           \* ETH_DMASR_TBUS: the DMA is suspended
  sending,        \* the frame that the DMA is transmitting
  txMain          \* where enet_send_blocking is, and with which frame

txVars == <<DMATxDscrTab, tx_descriptor_write_ptr, txDma, TBUS, sending, txMain>>

TxIndex == 0 .. ETH_TXBUFNB - 1
TxNextDesc(i) == (i + 1) % ETH_TXBUFNB   \* Buffer2NextDescAddr
Idle == [at |-> "idle", frame |-> NoFrame]

TxInit ==
  /\ DMATxDscrTab = [i \in TxIndex |-> [own |-> FALSE, frame |-> NoFrame]]
  /\ tx_descriptor_write_ptr = 0 /\ txDma = 0 /\ TBUS = FALSE
  /\ sending = NoFrame /\ txMain = Idle

-----------------------------------------------------------------------------
Call(f) ==
  /\ txMain = Idle
  /\ txMain' = [at |-> "wait", frame |-> f]
  /\ UNCHANGED <<DMATxDscrTab, tx_descriptor_write_ptr, txDma, TBUS, sending>>

\* Variant: the frame is copied before the descriptor is free.
CopyAnyway ==
  /\ txMain.at = "wait"
  /\ DMATxDscrTab' = [DMATxDscrTab EXCEPT ![tx_descriptor_write_ptr].frame = txMain.frame]
  /\ txMain' = [txMain EXCEPT !.at = "copied"]
  /\ UNCHANGED <<tx_descriptor_write_ptr, txDma, TBUS, sending>>

\* The wait for the descriptor ends and the frame is copied.
Copy ==
  /\ txMain.at = "wait"
  /\ ~DMATxDscrTab[tx_descriptor_write_ptr].own
  /\ DMATxDscrTab' = [DMATxDscrTab EXCEPT ![tx_descriptor_write_ptr].frame = txMain.frame]
  /\ txMain' = [txMain EXCEPT !.at = "copied"]
  /\ UNCHANGED <<tx_descriptor_write_ptr, txDma, TBUS, sending>>

\* The descriptor is given to the DMA and the write pointer advanced.
GiveToDma ==
  /\ txMain.at = "copied"
  /\ DMATxDscrTab' = [DMATxDscrTab EXCEPT ![tx_descriptor_write_ptr].own = TRUE]
  /\ tx_descriptor_write_ptr' = TxNextDesc(tx_descriptor_write_ptr)
  /\ txMain' = [at |-> "given", frame |-> NoFrame]
  /\ UNCHANGED <<txDma, TBUS, sending>>

\* A DMA that has suspended itself is resumed.
Resume ==
  /\ txMain.at = "given"
  /\ TBUS' = FALSE
  /\ txMain' = Idle
  /\ UNCHANGED <<DMATxDscrTab, tx_descriptor_write_ptr, txDma, sending>>

-----------------------------------------------------------------------------
TxDmaSuspends ==
  /\ ~TBUS /\ sending = NoFrame
  /\ ~DMATxDscrTab[txDma].own
  /\ TBUS' = TRUE
  /\ UNCHANGED <<DMATxDscrTab, tx_descriptor_write_ptr, txDma, sending, txMain>>

DmaBegins ==
  /\ ~TBUS /\ sending = NoFrame
  /\ DMATxDscrTab[txDma].own
  /\ sending' = DMATxDscrTab[txDma].frame
  /\ UNCHANGED <<DMATxDscrTab, tx_descriptor_write_ptr, txDma, TBUS, txMain>>

DmaEnds ==
  /\ sending # NoFrame
  /\ DMATxDscrTab' = [DMATxDscrTab EXCEPT ![txDma].own = FALSE]
  /\ txDma' = TxNextDesc(txDma)
  /\ sending' = NoFrame
  /\ UNCHANGED <<tx_descriptor_write_ptr, TBUS, txMain>>

Dma == TxDmaSuspends \/ DmaBegins \/ DmaEnds
enet_send_blocking == Copy \/ GiveToDma \/ Resume

TxNext == (\E f \in Frames : Call(f)) \/ enet_send_blocking \/ Dma

\* The DMA works, the program goes on.
TxSpec == TxInit /\ [][TxNext]_txVars /\ WF_txVars(Dma) /\ WF_txVars(enet_send_blocking)

\* The frames in the ring, oldest first; the first one may be `sending`.
Owned == {k \in TxIndex : \A j \in 0 .. k : DMATxDscrTab[(txDma + j) % ETH_TXBUFNB].own}
TxWaiting == [k \in {j + 1 : j \in Owned} |-> DMATxDscrTab[(txDma + k - 1) % ETH_TXBUFNB].frame]

TypeOK == /\ DMARxDscrTab \in [RxIndex -> rx_descriptor]
          /\ DMATxDscrTab \in [TxIndex -> [own : BOOLEAN, frame : Frames \cup {NoFrame}]]
===============================================================================
