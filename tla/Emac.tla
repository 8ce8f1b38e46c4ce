-------------------------------- MODULE Emac --------------------------------
(***************************************************************************)
(* The descriptor rings of kernel/src/platform/d1_emac.rs.  A descriptor   *)
(* without a frame belongs to the DMA engine in the receive ring, and to   *)
(* the driver in the transmit ring; the frame stands for the buffer and    *)
(* the cleared or set OWN bit.                                             *)
(***************************************************************************)
EXTENDS Naturals

CONSTANTS RX_DESC_COUNT, TX_DESC_COUNT, NoFrame

ASSUME EmacAssumption == RX_DESC_COUNT \in Nat \ {0} /\ TX_DESC_COUNT \in Nat \ {0}

RxSlots == 0 .. RX_DESC_COUNT - 1
TxSlots == 0 .. TX_DESC_COUNT - 1

alloc_dma_resources ==
    [rx |-> [i \in RxSlots |-> NoFrame], tx |-> [i \in TxSlots |-> NoFrame],
     rx_head |-> 0, tx_head |-> 0]

has_packet(e) == e.rx[e.rx_head] # NoFrame

(* Fault: a frame too long for the buffer is skipped without moving on. *)
receive_stays(e) ==
    [e EXCEPT !.rx[e.rx_head] = NoFrame,
              !.rx_head = IF e.rx[e.rx_head].kind = "jumbo" THEN @ ELSE (@ + 1) % RX_DESC_COUNT]

(* The frame is copied out, or skipped when it is too long; either way the descriptor goes
   back to the DMA engine. *)
receive(e) ==
    [e EXCEPT !.rx[e.rx_head] = NoFrame, !.rx_head = (@ + 1) % RX_DESC_COUNT]

(* A frame that finds no free descriptor is lost: D1TxToken ignores the error. *)
transmit(e, f) ==
    IF e.tx[e.tx_head] # NoFrame THEN e
    ELSE [e EXCEPT !.tx[e.tx_head] = f, !.tx_head = (@ + 1) % TX_DESC_COUNT]

(* The DMA engine fills and empties descriptors in ring order, at its own positions. *)
DmaCanReceive(e, pos) == e.rx[pos] = NoFrame
DmaReceives(e, pos, f) == [e EXCEPT !.rx[pos] = f]
DmaCanSend(e, pos) == e.tx[pos] # NoFrame
DmaSends(e, pos) == [e EXCEPT !.tx[pos] = NoFrame]

(* The receive ring is read where the DMA engine filled it: exactly the descriptors from
   rx_head up to the engine's position hold frames. *)
RxRingInStep(e, pos) ==
    \E k \in 0 .. RX_DESC_COUNT :
        /\ (e.rx_head + k) % RX_DESC_COUNT = pos
        /\ \A i \in 0 .. RX_DESC_COUNT - 1 :
              (e.rx[(e.rx_head + i) % RX_DESC_COUNT] # NoFrame) <=> (i < k)
TxRingInStep(e, pos) ==
    \E k \in 0 .. TX_DESC_COUNT :
        /\ (pos + k) % TX_DESC_COUNT = e.tx_head
        /\ \A i \in 0 .. TX_DESC_COUNT - 1 :
              (e.tx[(pos + i) % TX_DESC_COUNT] # NoFrame) <=> (i < k)
=============================================================================
