---------------------------- MODULE Tm4cEthernet ----------------------------
(***************************************************************************)
(* TestAppTM4C129+88E6352/ethernet.cpp.  Receiving: the main loop polls    *)
(* the ring of descriptors.  The DMA suspends itself when it finds one     *)
(* that is not its own, until RXPOLLD is written.  Sending: a ring of      *)
(* descriptors that all point to one buffer, in which the library builds   *)
(* its frames; the DMA suspends itself likewise.                           *)
(***************************************************************************)
EXTENDS Integers, Sequences, SequencesExt

CONSTANTS rx_desc_count, tx_desc_count,   \* descriptors, 20 and 3 in the code
          Frames, NoFrame

VARIABLES rx_descriptors,   \* [OWN, frame] of each descriptor
          rx_desc_read_index,
          rxDma,            \* the DMA's descriptor
          rxSuspended,      \* the DMA is
          rxMain            \* where ethernet_get_received is, and with which frame

rxVars == <<rx_descriptors, rx_desc_read_index, rxDma, rxSuspended, rxMain>>

RxIndex == 0 .. rx_desc_count - 1
rx_descriptor_t == [OWN : BOOLEAN, frame : Frames \cup {NoFrame}]
RxAfter(i) == (i + 1) % rx_desc_count
At(where) == [at |-> where, frame |-> NoFrame]

RxInit ==
  /\ rx_descriptors = [i \in RxIndex |-> [OWN |-> TRUE, frame |-> NoFrame]]
  /\ rx_desc_read_index = 0 /\ rxDma = 0 /\ rxSuspended = FALSE /\ rxMain = At("loop")

-----------------------------------------------------------------------------
Receive(f) ==
  /\ ~rxSuspended /\ rx_descriptors[rxDma].OWN
  /\ rx_descriptors' = [rx_descriptors EXCEPT ![rxDma] = [OWN |-> FALSE, frame |-> f]]
  /\ rxDma' = RxAfter(rxDma)
  /\ UNCHANGED <<rx_desc_read_index, rxSuspended, rxMain>>

RxDmaSuspends ==
  /\ ~rxSuspended /\ ~rx_descriptors[rxDma].OWN
  /\ rxSuspended' = TRUE
  /\ UNCHANGED <<rx_descriptors, rx_desc_read_index, rxDma, rxMain>>

RxCallback ==
  /\ rxMain.at = "loop" /\ ~rx_descriptors[rx_desc_read_index].OWN
  /\ rxMain' = [at |-> "callback", frame |-> rx_descriptors[rx_desc_read_index].frame]
  /\ UNCHANGED <<rx_descriptors, rx_desc_read_index, rxDma, rxSuspended>>

\* After the callback the descriptor is the DMA's again ...
ReleaseDescriptor ==
  /\ rxMain.at = "callback"
  /\ rx_descriptors' = [rx_descriptors EXCEPT ![rx_desc_read_index].OWN = TRUE]
  /\ rxMain' = At("released")
  /\ UNCHANGED <<rx_desc_read_index, rxDma, rxSuspended>>

\* ... which may fill it before the index is advanced.
AdvanceIndex ==
  /\ rxMain.at = "released"
  /\ rx_desc_read_index' = RxAfter(rx_desc_read_index)
  /\ rxMain' = At("loop")
  /\ UNCHANGED <<rx_descriptors, rxDma, rxSuspended>>

\* Variant: the DMA is not woken after the loop.
BreakOnly ==
  /\ rxMain.at = "loop" /\ rx_descriptors[rx_desc_read_index].OWN
  /\ rxMain' = At("loop")
  /\ UNCHANGED <<rx_descriptors, rx_desc_read_index, rxDma, rxSuspended>>

BreakLoop ==
  /\ rxMain.at = "loop" /\ rx_descriptors[rx_desc_read_index].OWN
  /\ rxMain' = At("wake")
  /\ UNCHANGED <<rx_descriptors, rx_desc_read_index, rxDma, rxSuspended>>

\* RXPOLLD is written; the main loop comes back.
WakeDma ==
  /\ rxMain.at = "wake"
  /\ rxSuspended' = FALSE
  /\ rxMain' = At("loop")
  /\ UNCHANGED <<rx_descriptors, rx_desc_read_index, rxDma>>

ethernet_get_received == RxCallback \/ ReleaseDescriptor \/ AdvanceIndex \/ BreakLoop \/ WakeDma

RxNext == (\E f \in Frames : Receive(f)) \/ RxDmaSuspends \/ ethernet_get_received

RxSpec == RxInit /\ [][RxNext]_rxVars /\ WF_rxVars(ethernet_get_received)

\* The frames in the ring, oldest first; the first one may be rxMain.frame.
RxWaiting ==
  LET first == IF rxMain.at = "released" THEN RxAfter(rx_desc_read_index) ELSE rx_desc_read_index
      order == [k \in 1 .. rx_desc_count |-> (first + k - 1) % rx_desc_count]
      full  == SelectSeq(order, LAMBDA i : ~rx_descriptors[i].OWN)
  IN  [k \in DOMAIN full |-> rx_descriptors[full[k]].frame]

-----------------------------------------------------------------------------
VARIABLES tx_descriptors,   \* [OWN, frame]: `frame` was in the buffer when it was released
          tx_desc_write_index,
          tx_buffer,        \* the frame in the buffer
          txDma,            \* the DMA's descriptor
          txSuspended,      \* the DMA is
          sending,          \* the frame that the DMA is reading from the buffer
          txMain,           \* where the main program is in the callbacks
          overwritten       \* history: a frame was built over one that was not yet sent

txVars == <<tx_descriptors, tx_desc_write_index, tx_buffer, txDma, txSuspended, sending, txMain,
            overwritten>>

TxIndex == 0 .. tx_desc_count - 1
tx_descriptor_t == [OWN : BOOLEAN, frame : Frames \cup {NoFrame}]
TxAfter(i) == (i + 1) % tx_desc_count

TxInit ==
  /\ tx_descriptors = [i \in TxIndex |-> [OWN |-> FALSE, frame |-> NoFrame]]
  /\ tx_desc_write_index = 0 /\ tx_buffer = NoFrame
  /\ txDma = 0 /\ txSuspended = TRUE /\ sending = NoFrame /\ txMain = "idle"
  /\ overwritten = FALSE

-----------------------------------------------------------------------------
Call ==
  /\ txMain = "idle"
  /\ txMain' = "wait"
  /\ UNCHANGED <<tx_descriptors, tx_desc_write_index, tx_buffer, txDma, txSuspended, sending, overwritten>>

Unsent == {i \in TxIndex : tx_descriptors[i].OWN}

\* ethernet_transmit_get_buffer waits for one descriptor, and the library builds
\* its frame in the buffer of them all.
GetBuffer(f) ==
  /\ txMain = "wait"
  /\ ~tx_descriptors[tx_desc_write_index].OWN
  /\ tx_buffer' = f
  /\ txMain' = "built"
  /\ overwritten' = (overwritten \/ Unsent # {})
  /\ UNCHANGED <<tx_descriptors, tx_desc_write_index, txDma, txSuspended, sending>>

\* ethernet_transmit_release_buffer: the descriptor is the DMA's, ...
ReleaseBuffer ==
  /\ txMain = "built"
  /\ tx_descriptors' = [tx_descriptors EXCEPT ![tx_desc_write_index] = [OWN |-> TRUE, frame |-> tx_buffer]]
  /\ txMain' = "released"
  /\ UNCHANGED <<tx_desc_write_index, tx_buffer, txDma, txSuspended, sending, overwritten>>

\* ... which is woken.
WakeTxDma ==
  /\ txMain = "released"
  /\ txSuspended' = FALSE
  /\ tx_desc_write_index' = TxAfter(tx_desc_write_index)
  /\ txMain' = "idle"
  /\ UNCHANGED <<tx_descriptors, tx_buffer, txDma, sending, overwritten>>

-----------------------------------------------------------------------------
DmaBegins ==
  /\ ~txSuspended /\ sending = NoFrame /\ tx_descriptors[txDma].OWN
  /\ sending' = tx_buffer
  /\ UNCHANGED <<tx_descriptors, tx_desc_write_index, tx_buffer, txDma, txSuspended, txMain, overwritten>>

DmaEnds ==
  /\ sending # NoFrame
  /\ tx_descriptors' = [tx_descriptors EXCEPT ![txDma].OWN = FALSE]
  /\ txDma' = TxAfter(txDma)
  /\ sending' = NoFrame
  /\ UNCHANGED <<tx_desc_write_index, tx_buffer, txSuspended, txMain, overwritten>>

TxDmaSuspends ==
  /\ ~txSuspended /\ sending = NoFrame /\ ~tx_descriptors[txDma].OWN
  /\ txSuspended' = TRUE
  /\ UNCHANGED <<tx_descriptors, tx_desc_write_index, tx_buffer, txDma, sending, txMain, overwritten>>

Dma == DmaBegins \/ DmaEnds \/ TxDmaSuspends
ethernet_transmit == (\E f \in Frames : GetBuffer(f)) \/ ReleaseBuffer \/ WakeTxDma

TxNext == Call \/ ethernet_transmit \/ Dma

\* The DMA transmits, the program goes on.
TxSpec == TxInit /\ [][TxNext]_txVars /\ WF_txVars(Dma) /\ WF_txVars(ethernet_transmit)

\* The frames that were released, oldest first.
TxWaiting ==
  LET order == [k \in 1 .. tx_desc_count |-> (txDma + k - 1) % tx_desc_count]
      owned == SelectSeq(order, LAMBDA i : tx_descriptors[i].OWN)
  IN  [k \in DOMAIN owned |-> tx_descriptors[owned[k]].frame]

TypeOK == /\ rx_descriptors \in [RxIndex -> rx_descriptor_t]
          /\ tx_descriptors \in [TxIndex -> tx_descriptor_t]
===============================================================================
