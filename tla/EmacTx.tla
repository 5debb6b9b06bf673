------------------------------- MODULE EmacTx -------------------------------
(***************************************************************************)
(* The transmit half of ethernetif.c and the EMAC DMA that it shares the   *)
(* ring DMATxDscrTab with.                                                 *)
(*                                                                         *)
(* low_level_output copies a packet, pbuf by pbuf, into the buffers from   *)
(* dma_tx_desc_to_set on, as long as their descriptors are the CPU's.      *)
(* emac_txpkt_chainmode then counts the buffers anew, from the packet's    *)
(* length, and gives their descriptors to the DMA one by one.  The DMA     *)
(* sends them in ring order and stops at a descriptor that it does not own *)
(* until it is told to look again.                                         *)
(*                                                                         *)
(* A byte carries its packet's number, its place and the packet's length.  *)
(* Here the driver runs one activation at a time; TxContexts runs it from  *)
(* the two contexts of main.c.                                             *)
(***************************************************************************)
EXTENDS DescRing, Sequences

CONSTANTS
  MaxLen,      \* EMAC_MAX_PACKET_LENGTH, the size of a buffer
  MaxBytes,    \* longest packet
  MaxFrames    \* bound: packets that lwIP wants to send

\* A packet of the netif's MTU takes one buffer of the six.
ASSUME PacketAssumption ==
  /\ MaxLen \in Nat \ {0}
  /\ MaxBytes \in 1 .. NumDesc * MaxLen
  /\ MaxFrames \in Nat

VARIABLES
  own,                \* OWN bit of each descriptor: "dma" or "cpu"
  buf,                \* the bytes of each buffer of Tx_Buff
  ctrl,               \* FS, LS and TBS1 (the size) of each descriptor
  dma_cur,            \* the descriptor that the DMA uses next
  sending,            \* bytes read of the frame being sent
  suspended,          \* the transmit process found no descriptor to send
  tbu,                \* EMAC_DMA_TBU_FLAG
  wire,               \* frames sent
  dma_tx_desc_to_set,
  calls,              \* packets that lwIP wanted to send so far
  pc,                 \* where the activation is
  packet,             \* number and length (p->tot_len) of the packet
  q,                  \* the pbuf being copied: where in the packet, how long
  copy,               \* copy_count, payload_offset, buffer_offset, length
  ptr,                \* dma_tx_desc of low_level_output
  index,              \* the counter of the chaining loop
  errno,              \* result of the activation
  accepted,           \* the packets that went into the ring
  okd                 \* packets for which ERR_OK was returned

ring   == <<own, buf, ctrl, dma_cur, sending, suspended, tbu, wire>>
locals == <<pc, packet, q, copy, ptr, index, errno>>
hist   == <<accepted, okd>>
vars   == <<ring, dma_tx_desc_to_set, calls, locals, hist>>

Byte == [id : 0 .. MaxFrames, k : 0 .. MaxBytes, n : 0 .. MaxBytes]

Packet == [id : 0 .. MaxFrames, n : 0 .. MaxBytes]

Offsets == 0 .. MaxLen - 1

\* Byte k of packet f, counted from 0.
ByteOf(f, k) == [id |-> f.id, k |-> k + 1, n |-> f.n]

Whole(f) == [j \in 1 .. f.n |-> ByteOf(f, j - 1)]

Idle == [count |-> 0, payload |-> 0, offset |-> 0, length |-> 0]

Init ==
  /\ own = [i \in Ring |-> "cpu"]
  /\ buf = [i \in Ring |-> [o \in Offsets |-> [id |-> 0, k |-> 0, n |-> 0]]]
  /\ ctrl = [i \in Ring |-> [fs |-> FALSE, ls |-> FALSE, size |-> 0]]
  /\ dma_cur = 0
  /\ sending = << >>
  /\ suspended = FALSE
  /\ tbu = FALSE
  /\ wire = << >>
  /\ dma_tx_desc_to_set = 0
  /\ calls = 0
  /\ pc = "idle"
  /\ packet = [id |-> 0, n |-> 0]
  /\ q = [at |-> 0, len |-> 0]
  /\ copy = Idle
  /\ ptr = 0
  /\ index = 0
  /\ errno = "ERR_OK"
  /\ accepted = << >>
  /\ okd = {}

-----------------------------------------------------------------------------
(***************************************************************************)
(* The DMA                                                                 *)
(***************************************************************************)
\* A frame goes from a descriptor marked FS to one marked LS.
DmaSend ==
  /\ ~suspended
  /\ own[dma_cur] = "dma"
  /\ LET d     == ctrl[dma_cur]
         bytes == [j \in 1 .. d.size |-> buf[dma_cur][j - 1]]
         frame == IF d.fs THEN bytes ELSE sending \o bytes
     IN  IF d.ls
           THEN sending' = << >> /\ wire' = Append(wire, frame)
           ELSE sending' = frame /\ UNCHANGED wire
  /\ own' = [own EXCEPT ![dma_cur] = "cpu"]
  /\ dma_cur' = Succ(dma_cur)
  /\ UNCHANGED <<buf, ctrl, suspended, tbu, dma_tx_desc_to_set, calls, locals,
                 hist>>

DmaSuspend ==
  /\ ~suspended
  /\ own[dma_cur] = "cpu"
  /\ suspended' = TRUE
  /\ tbu' = TRUE
  /\ UNCHANGED <<own, buf, ctrl, dma_cur, sending, wire, dma_tx_desc_to_set,
                 calls, locals, hist>>

-----------------------------------------------------------------------------
(***************************************************************************)
(* low_level_output: the copy.  How lwIP split the packet into pbufs shows *)
(* as they come: each takes any part of the rest.                          *)
(***************************************************************************)
Output ==
  /\ pc = "idle"
  /\ calls < MaxFrames
  /\ calls' = calls + 1
  /\ \E n \in 1 .. MaxBytes : \E len \in 1 .. n :
       /\ packet' = [id |-> calls + 1, n |-> n]
       /\ q' = [at |-> 0, len |-> len]
  /\ copy' = Idle
  /\ ptr' = dma_tx_desc_to_set
  /\ pc' = "check"
  /\ UNCHANGED <<ring, dma_tx_desc_to_set, index, errno, hist>>

Refuse == pc' = "out" /\ errno' = "ERR_USE"

\* At the begin of every pbuf.
CheckOwn ==
  /\ pc = "check"
  /\ IF own[ptr] = "cpu"
       THEN /\ pc' = "copy"
            /\ copy' = [copy EXCEPT !.count = q.len, !.payload = 0]
            /\ UNCHANGED errno
       ELSE Refuse /\ UNCHANGED copy
  /\ UNCHANGED <<ring, dma_tx_desc_to_set, calls, packet, q, ptr, index, hist>>

\* memcpy of n bytes of q's payload into the buffer of dma_tx_desc.
Memcpy(n) ==
  buf' = [buf EXCEPT ![ptr] = [o \in Offsets |->
            IF o \in copy.offset .. copy.offset + n - 1
              THEN ByteOf(packet, q.at + copy.payload + o - copy.offset)
              ELSE @[o]]]

\* Fault: a buffer that is just full counts as too full.
OverflowsEarly == copy.count + copy.offset >= MaxLen

Overflows == copy.count + copy.offset > MaxLen

Room == MaxLen - copy.offset

\* Fault: the copy moves the global cursor along with its own.
CopyFillMovesCursor ==
  /\ pc = "copy"
  /\ Overflows
  /\ Memcpy(Room)
  /\ ptr' = Succ(ptr)
  /\ dma_tx_desc_to_set' = Succ(ptr)
  /\ pc' = "next"
  /\ UNCHANGED <<own, ctrl, dma_cur, sending, suspended, tbu, wire, calls,
                 packet, q, copy, index, errno, hist>>

\* The pbuf does not fit: fill the buffer and go to the next descriptor.
CopyFill ==
  /\ pc = "copy"
  /\ Overflows
  /\ Memcpy(Room)
  /\ ptr' = Succ(ptr)
  /\ pc' = "next"
  /\ UNCHANGED <<own, ctrl, dma_cur, sending, suspended, tbu, wire,
                 dma_tx_desc_to_set, calls, packet, q, copy, index, errno, hist>>

\* Fault: only a pbuf's first buffer is looked at.
CheckOwnNextSkipped ==
  /\ pc = "next"
  /\ pc' = "copy"
  /\ copy' = [count |-> copy.count - Room, payload |-> copy.payload + Room,
              offset |-> 0, length |-> copy.length + Room]
  /\ UNCHANGED <<ring, dma_tx_desc_to_set, calls, packet, q, ptr, index, errno,
                 hist>>

CheckOwnNext ==
  /\ pc = "next"
  /\ IF own[ptr] = "cpu"
       THEN /\ pc' = "copy"
            /\ copy' = [count |-> copy.count - Room,
                        payload |-> copy.payload + Room,
                        offset |-> 0, length |-> copy.length + Room]
            /\ UNCHANGED errno
       ELSE Refuse /\ UNCHANGED copy
  /\ UNCHANGED <<ring, dma_tx_desc_to_set, calls, packet, q, ptr, index, hist>>

\* The rest of the pbuf fits: copy it and go to the next pbuf, if any.
CopyRest ==
  /\ pc = "copy"
  /\ ~Overflows
  /\ Memcpy(copy.count)
  /\ copy' = [copy EXCEPT !.offset = @ + copy.count, !.length = @ + copy.count]
  /\ LET at == q.at + q.len
     IN  IF at = packet.n
           THEN pc' = "chain" /\ UNCHANGED q
           ELSE /\ pc' = "check"
                /\ \E len \in 1 .. packet.n - at : q' = [at |-> at, len |-> len]
  /\ UNCHANGED <<own, ctrl, dma_cur, sending, suspended, tbu, wire,
                 dma_tx_desc_to_set, calls, packet, ptr, index, errno, hist>>

-----------------------------------------------------------------------------
(***************************************************************************)
(* emac_txpkt_chainmode; low_level_output does not look at its result      *)
(***************************************************************************)
\* buf_cnt
BufCount(l) ==
  IF l > MaxLen THEN l \div MaxLen + (IF l % MaxLen = 0 THEN 0 ELSE 1) ELSE 1

ChainCheck ==
  /\ pc = "chain"
  /\ errno' = "ERR_OK"
  /\ index' = 0
  /\ IF own[dma_tx_desc_to_set] = "cpu" /\ copy.length /= 0
       THEN pc' = "publish" /\ accepted' = Append(accepted, packet)
       ELSE pc' = "out" /\ UNCHANGED accepted
  /\ UNCHANGED <<ring, dma_tx_desc_to_set, calls, packet, q, copy, ptr, okd>>

LastBuf == BufCount(copy.length) - 1

\* Fault: FS and LS of the descriptor's previous use are not cleared.
DescriptorStale ==
  [fs |-> ctrl[dma_tx_desc_to_set].fs \/ index = 0,
   ls |-> ctrl[dma_tx_desc_to_set].ls \/ index = LastBuf,
   size |-> IF index = LastBuf THEN copy.length - LastBuf * MaxLen ELSE MaxLen]

\* What is written to the descriptor of buffer "index" of the packet.
Descriptor ==
  [fs |-> index = 0,
   ls |-> index = LastBuf,
   size |-> IF index = LastBuf THEN copy.length - LastBuf * MaxLen ELSE MaxLen]

Publish ==
  /\ pc = "publish"
  /\ ctrl' = [ctrl EXCEPT ![dma_tx_desc_to_set] = Descriptor]
  /\ own' = [own EXCEPT ![dma_tx_desc_to_set] = "dma"]
  /\ dma_tx_desc_to_set' = Succ(dma_tx_desc_to_set)
  /\ index' = index + 1
  /\ pc' = IF index < LastBuf THEN "publish" ELSE "resume"
  /\ UNCHANGED <<buf, dma_cur, sending, suspended, tbu, wire, calls, packet,
                 q, copy, ptr, errno, hist>>

(***************************************************************************)
(* TBU is looked at twice: at the end of the chaining ("resume") and at    *)
(* the end of low_level_output ("out"), which is the only one on errors.   *)
(***************************************************************************)
Return ==
  /\ pc' = "idle"
  /\ okd' = IF errno = "ERR_OK" THEN okd \union {packet.id} ELSE okd

\* Fault: TBU is cleared and the DMA is not told to look again.
TbuClearedOnly ==
  /\ pc = "resume"
  /\ pc' = "out"
  /\ tbu' = FALSE
  /\ UNCHANGED <<own, buf, ctrl, dma_cur, sending, suspended, wire,
                 dma_tx_desc_to_set, calls, packet, q, copy, ptr, index, errno,
                 hist>>

CheckTbuChained ==
  /\ pc = "resume"
  /\ pc' = IF tbu THEN "demand" ELSE "out"
  /\ tbu' = FALSE
  /\ UNCHANGED <<own, buf, ctrl, dma_cur, sending, suspended, wire,
                 dma_tx_desc_to_set, calls, packet, q, copy, ptr, index, errno,
                 hist>>

PollDemandChained ==
  /\ pc = "demand"
  /\ suspended' = FALSE
  /\ pc' = "out"
  /\ UNCHANGED <<own, buf, ctrl, dma_cur, sending, tbu, wire,
                 dma_tx_desc_to_set, calls, packet, q, copy, ptr, index, errno,
                 hist>>

CheckTbu ==
  /\ pc = "out"
  /\ tbu' = FALSE
  /\ IF tbu THEN pc' = "outdemand" /\ UNCHANGED okd ELSE Return
  /\ UNCHANGED <<own, buf, ctrl, dma_cur, sending, suspended, wire,
                 dma_tx_desc_to_set, calls, packet, q, copy, ptr, index, errno,
                 accepted>>

PollDemand ==
  /\ pc = "outdemand"
  /\ suspended' = FALSE
  /\ Return
  /\ UNCHANGED <<own, buf, ctrl, dma_cur, sending, tbu, wire,
                 dma_tx_desc_to_set, calls, packet, q, copy, ptr, index, errno,
                 accepted>>

-----------------------------------------------------------------------------
Dma == DmaSend \/ DmaSuspend

\* What follows the call once lwIP has made it.
Driver ==
  \/ CheckOwn \/ CopyFill \/ CheckOwnNext \/ CopyRest
  \/ ChainCheck \/ Publish
  \/ CheckTbuChained \/ PollDemandChained \/ CheckTbu \/ PollDemand

Next == Dma \/ Output \/ Driver

Spec == Init /\ [][Next]_vars

\* The DMA sends what it owns, and a call runs to its end; lwIP owes no call.
FairSpec == Spec /\ WF_vars(DmaSend) /\ WF_vars(Driver)

-----------------------------------------------------------------------------
(***************************************************************************)
(* Properties                                                              *)
(***************************************************************************)
TypeOK ==
  /\ own \in [Ring -> {"dma", "cpu"}]
  /\ buf \in [Ring -> [Offsets -> Byte]]
  /\ ctrl \in [Ring -> [fs : BOOLEAN, ls : BOOLEAN, size : 0 .. MaxLen]]
  /\ dma_cur \in Ring
  /\ sending \in Seq(Byte)
  /\ suspended \in BOOLEAN
  /\ tbu \in BOOLEAN
  /\ wire \in Seq(Seq(Byte))
  /\ dma_tx_desc_to_set \in Ring
  /\ calls \in 0 .. MaxFrames
  /\ pc \in {"idle", "check", "copy", "next", "chain", "publish", "resume",
             "demand", "out", "outdemand"}
  /\ packet \in Packet
  /\ q \in [at : 0 .. MaxBytes, len : 0 .. MaxBytes]
  /\ copy \in [count : 0 .. MaxBytes, payload : 0 .. MaxBytes,
               offset : 0 .. MaxLen, length : 0 .. MaxBytes]
  /\ ptr \in Ring
  /\ index \in Nat
  /\ errno \in {"ERR_OK", "ERR_USE"}
  /\ accepted \in Seq(Packet)
  /\ okd \subseteq 0 .. MaxFrames

(***************************************************************************)
(* memcpy writes only into a buffer that the DMA is not sending, and the   *)
(* chaining loop gives the DMA only a descriptor that it does not have.    *)
(***************************************************************************)
WriteOwned ==
  /\ pc = "copy" => own[ptr] = "cpu"
  /\ pc = "publish" => own[dma_tx_desc_to_set] = "cpu"

(***************************************************************************)
(* The copy counts buffers by filling them, the chaining by dividing the   *)
(* length.  However the packet was split, they agree, at multiples of the  *)
(* buffer size too, and no byte of the packet is left out.                 *)
(***************************************************************************)
CountsAgree ==
  pc = "chain" => /\ copy.length = packet.n
                  /\ LastBuf = Dist(dma_tx_desc_to_set, ptr)

(***************************************************************************)
(* A DMA that stands before a descriptor of the CPU has nothing left to    *)
(* send: no published descriptor lies behind the one it waits for.         *)
(***************************************************************************)
NothingStranded ==
  own[dma_cur] = "cpu" => \A i \in Ring : own[i] = "cpu"

(***************************************************************************)
(* low_level_output, ethernetif.c:193: "ERR_OK if the packet could be      *)
(* sent".  A packet reported with ERR_OK is with the DMA or on the wire.   *)
(***************************************************************************)
OkMeansSent ==
  \A id \in okd :
    \/ \E i \in Ring : own[i] = "dma" /\ buf[i][0].id = id
    \/ \E j \in DOMAIN sending : sending[j].id = id
    \/ \E j \in DOMAIN wire : wire[j][1].id = id

-----------------------------------------------------------------------------
(***************************************************************************)
(* The frames inside are the packets that were accepted and are not on the *)
(* wire yet, the one that is being chained among them.                     *)
(***************************************************************************)
Arrived == IF accepted = << >> THEN 0 ELSE accepted[Len(accepted)].id

Inside == [j \in 1 .. Len(accepted) - Len(wire) |->
             Whole(accepted[Len(wire) + j])]

Fifo == INSTANCE FrameFifo WITH
          MaxSegs <- MaxBytes, Capacity <- NumDesc + 1, Lossy <- FALSE,
          arrived <- Arrived, queue <- Inside, out <- wire

(***************************************************************************)
(* Packets that fit in the ring go out whole, once and in the order of the *)
(* calls; one that does not fit leaves no trace in what is sent.           *)
(***************************************************************************)
FramesInOrder == Fifo!Spec

(***************************************************************************)
(* A packet in the ring gets sent, even though the DMA may go to sleep at  *)
(* any moment of the chaining.                                             *)
(***************************************************************************)
OnWire(id) == \E j \in DOMAIN wire : wire[j][1].id = id

AcceptedIsSent == \A id \in 1 .. MaxFrames : Arrived = id ~> OnWire(id)
=============================================================================
