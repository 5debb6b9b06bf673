----------------------------- MODULE RxContexts -----------------------------
(***************************************************************************)
(* The two contexts of main.c that call ethernetif_input: hNetHelloThread, *)
(* once per round of its loop, and EMAC_IRQHandler, for each frame that    *)
(* takes one descriptor.  Both work on the same dma_rx_desc_to_get and     *)
(* rx_frame, with locals of their own; nothing in the code keeps one out   *)
(* of a call that the other has begun.                                     *)
(*                                                                         *)
(* Preemptible = TRUE is the firmware as it is built: the interrupt breaks *)
(* into the thread's call anywhere.  Preemptible = FALSE is the discipline *)
(* that lwIP asks of a port, the interrupt held off during the thread's    *)
(* call; it shows what the rest of the design gives under it.              *)
(***************************************************************************)
EXTENDS DescRing, Sequences

CONSTANTS MaxSegs, MaxFrames, Preemptible

\* That of EmacRx, whose constants these are.
ASSUME FrameAssumption == /\ MaxSegs \in 1 .. NumDesc
                          /\ MaxFrames \in Nat

ASSUME ContextAssumption == Preemptible \in BOOLEAN

VARIABLES
  own, seg, dma_cur, arriving, suspended, rbu,       \* the DMA and the ring
  dma_rx_desc_to_get, rx_fs_desc, g_seg_count,       \* globals of the driver
  tpc, tlen, tptr, tindex, tp,                       \* the thread's call
  ipc, ilen, iptr, iindex, ip,                       \* the interrupt's call
  nis,         \* EMAC_DMA_NIS_FLAG, which requests the interrupt
  isr,         \* where EMAC_IRQHandler is
  delivered

shared  == <<own, seg, dma_cur, arriving, suspended, rbu,
             dma_rx_desc_to_get, rx_fs_desc, g_seg_count, delivered>>
tlocals == <<tpc, tlen, tptr, tindex, tp>>
ilocals == <<ipc, ilen, iptr, iindex, ip>>
vars    == <<shared, tlocals, ilocals, nis, isr>>

T == INSTANCE EmacRx WITH
       pc <- tpc, len <- tlen, ptr <- tptr, index <- tindex, p <- tp

I == INSTANCE EmacRx WITH
       pc <- ipc, len <- ilen, ptr <- iptr, index <- iindex, p <- ip

Init ==
  /\ T!Init
  /\ I!Init
  /\ nis = FALSE
  /\ isr = "off"

-----------------------------------------------------------------------------
\* RI, and NIS with it, is raised when the last segment of a frame is stored.
DmaStep ==
  /\ T!Dma
  /\ nis' = (nis \/ (arriving' /= arriving /\ T!LS(arriving')))
  /\ UNCHANGED <<ilocals, isr>>

\* Fault: the thread's loop leaves reception to the interrupt.
ThreadNeverPolls ==
  /\ isr = "off"
  /\ tpc /= "idle"
  /\ T!Driver
  /\ UNCHANGED <<ilocals, nis, isr>>

\* lwip_rx_loop_handler, once per round; the thread is stopped by the interrupt.
ThreadStep ==
  /\ isr = "off"
  /\ T!Driver
  /\ UNCHANGED <<ilocals, nis, isr>>

-----------------------------------------------------------------------------
(***************************************************************************)
(* EMAC_IRQHandler                                                         *)
(***************************************************************************)
\* emac_received_packet_size_get: a whole frame in the descriptor to get.
PacketReceived ==
  /\ own[dma_rx_desc_to_get] = "cpu"
  /\ T!FS(seg[dma_rx_desc_to_get])
  /\ T!LS(seg[dma_rx_desc_to_get])

IrqEnter ==
  /\ isr = "off"
  /\ nis
  /\ Preemptible \/ tpc = "idle"
  /\ isr' = "loop"
  /\ UNCHANGED <<shared, tlocals, ilocals, nis>>

IrqLoop ==
  /\ isr = "loop"
  /\ isr' = IF PacketReceived THEN "call" ELSE "clear"
  /\ UNCHANGED <<shared, tlocals, ilocals, nis>>

\* lwip_pkt_handle, from the OWN check to the return
IrqCall ==
  /\ isr = "call"
  /\ I!Driver
  /\ isr' = IF ipc' = "idle" THEN "loop" ELSE "call"
  /\ UNCHANGED <<tlocals, nis>>

\* A frame that completed since the last test of the loop loses its interrupt.
IrqClear ==
  /\ isr = "clear"
  /\ nis' = FALSE
  /\ isr' = "off"
  /\ UNCHANGED <<shared, tlocals, ilocals>>

Irq == IrqEnter \/ IrqLoop \/ IrqCall \/ IrqClear

Next == DmaStep \/ ThreadStep \/ Irq

Spec == Init /\ [][Next]_vars

(***************************************************************************)
(* The thread's loop runs for ever and a requested interrupt is taken; the *)
(* DMA finishes the frames that it began.                                  *)
(***************************************************************************)
FairSpec ==
  /\ Spec
  /\ WF_vars(ThreadStep)
  /\ WF_vars(Irq)
  /\ WF_vars(DmaStep /\ T!DmaStoreNext)

-----------------------------------------------------------------------------
(***************************************************************************)
(* Properties                                                              *)
(***************************************************************************)
TypeOK ==
  /\ T!TypeOK
  /\ I!TypeOK
  /\ nis \in BOOLEAN
  /\ isr \in {"off", "loop", "call", "clear"}

\* The call in progress, of whichever context, seen as the one activation.
Busy == ipc /= "idle"

One == INSTANCE EmacRx WITH
         pc    <- IF Busy THEN ipc ELSE tpc,
         len   <- IF Busy THEN ilen ELSE tlen,
         ptr   <- IF Busy THEN iptr ELSE tptr,
         index <- IF Busy THEN iindex ELSE tindex,
         p     <- IF Busy THEN ip ELSE tp

(***************************************************************************)
(* Thread and interrupt take turns at one ring, in the middle of frames    *)
(* too, and the frames still come out whole, once and in order.            *)
(***************************************************************************)
FramesInOrder == One!FramesInOrder

(***************************************************************************)
(* No frame is left in the ring although the interrupt passes over frames  *)
(* of several descriptors and loses the request of a frame that completes  *)
(* while it returns: the thread's poll finds them.                         *)
(***************************************************************************)
EveryFrameHandled == One!EveryFrameHandled

(***************************************************************************)
(* low_level_input, ethernetif.c:273: "@return a pbuf filled with the      *)
(* received packet (including MAC header)".  What lwIP is given is one     *)
(* whole frame, from its first segment to its last.                        *)
(***************************************************************************)
PbufIsReceivedPacket ==
  \A j \in DOMAIN delivered : delivered[j] = T!Whole(delivered[j][1])
=============================================================================
