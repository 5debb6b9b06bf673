----------------------------- MODULE TxContexts -----------------------------
(***************************************************************************)
(* low_level_output in the two contexts of main.c: lwIP sends from the     *)
(* thread (tcp_tmr, etharp_tmr, the thread's own ethernetif_input) and     *)
(* from EMAC_IRQHandler (the answer to a frame handled there).  The        *)
(* interrupt breaks into the thread's call anywhere and runs to its end;   *)
(* both start from the same dma_tx_desc_to_set.                            *)
(***************************************************************************)
EXTENDS DescRing, Sequences

CONSTANTS MaxLen, MaxBytes, MaxFrames

VARIABLES
  own, buf, ctrl, dma_cur, sending, suspended, tbu, wire,
  dma_tx_desc_to_set, calls, accepted, okd,
  tpc, tpacket, tq, tcopy, tptr, tindex, terrno,    \* the thread's call
  ipc, ipacket, iq, icopy, iptr, iindex, ierrno     \* the interrupt's call

tlocals == <<tpc, tpacket, tq, tcopy, tptr, tindex, terrno>>
ilocals == <<ipc, ipacket, iq, icopy, iptr, iindex, ierrno>>
vars == <<own, buf, ctrl, dma_cur, sending, suspended, tbu, wire,
          dma_tx_desc_to_set, calls, accepted, okd, tlocals, ilocals>>

T == INSTANCE EmacTx WITH
       pc <- tpc, packet <- tpacket, q <- tq, copy <- tcopy,
       ptr <- tptr, index <- tindex, errno <- terrno

I == INSTANCE EmacTx WITH
       pc <- ipc, packet <- ipacket, q <- iq, copy <- icopy,
       ptr <- iptr, index <- iindex, errno <- ierrno

Init == T!Init /\ I!Init

DmaStep == T!Dma /\ UNCHANGED ilocals

ThreadStep ==
  /\ ipc = "idle"
  /\ T!Output \/ T!Driver
  /\ UNCHANGED ilocals

IrqStep == (I!Output \/ I!Driver) /\ UNCHANGED tlocals

Next == DmaStep \/ ThreadStep \/ IrqStep

Spec == Init /\ [][Next]_vars

(***************************************************************************)
(* low_level_output, ethernetif.c:193: "@return ERR_OK if the packet could *)
(* be sent".  A packet reported with ERR_OK is in the ring or on the wire. *)
(***************************************************************************)
OkMeansSent == T!OkMeansSent
=============================================================================
