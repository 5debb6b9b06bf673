------------------------------- MODULE EmacRx -------------------------------
(***************************************************************************)
(* The receive half of ethernetif.c and the EMAC DMA that it shares the    *)
(* ring DMARxDscrTab with.                                                 *)
(*                                                                         *)
(* The DMA fills the buffer of the descriptor at its cursor, clears OWN    *)
(* and goes on to the next one; a frame that does not fit in one buffer    *)
(* takes several descriptors, the first marked FS and the last LS.  The    *)
(* driver (ethernetif_input, low_level_input, emac_rxpkt_chainmode) takes  *)
(* one descriptor per call, copies the frame out when it took the last,    *)
(* sets OWN again on the frame's descriptors and restarts a DMA that had   *)
(* run out of them.                                                        *)
(*                                                                         *)
(* Here the driver runs one activation at a time, as lwIP requires of a    *)
(* netif.  RxContexts runs it from the two contexts of main.c.             *)
(***************************************************************************)
EXTENDS DescRing, Sequences

CONSTANTS
  MaxSegs,     \* most descriptors that one frame takes
  MaxFrames    \* bound: frames that the network delivers

\* The MAC cuts a frame off at 2048 bytes: two buffers, of the six there are.
ASSUME FrameAssumption == /\ MaxSegs \in 1 .. NumDesc
                          /\ MaxFrames \in Nat

VARIABLES
  own,                \* OWN bit of each descriptor: "dma" or "cpu"
  seg,                \* buffer and FS, LS, FL bits of each descriptor
  dma_cur,            \* the descriptor that the DMA uses next
  arriving,           \* the segment that the DMA stored last
  suspended,          \* the receive process found no descriptor to use
  rbu,                \* EMAC_DMA_RBU_FLAG
  dma_rx_desc_to_get,
  rx_fs_desc,         \* rx_frame.rx_fs_desc
  g_seg_count,        \* rx_frame.g_seg_count
  pc,                 \* where the activation is
  len,                \* rx_frame.length, counted in segments
  ptr,                \* dma_rx_desc of low_level_input
  index,              \* loop counter of low_level_input
  p,                  \* the pbuf chain; << >> is NULL
  delivered           \* the pbuf chains given to netif->input

ring    == <<own, seg, dma_cur, arriving, suspended, rbu>>
globals == <<dma_rx_desc_to_get, rx_fs_desc, g_seg_count>>
locals  == <<pc, len, ptr, index, p>>
vars    == <<ring, globals, locals, delivered>>

(***************************************************************************)
(* Segment k of n of frame id.  FS and LS of a released descriptor stay    *)
(* as the DMA wrote them, for low_level_input only sets OWN.               *)
(***************************************************************************)
Segment == [id : 0 .. MaxFrames, k : 0 .. MaxSegs, n : 0 .. MaxSegs]

NoSegment == [id |-> 0, k |-> 0, n |-> 0]

\* Segment j of the frame that s belongs to.
Nth(s, j) == [id |-> s.id, k |-> j, n |-> s.n]

FS(s) == s.k = 1

LS(s) == s.k = s.n /\ s.n > 0

Init ==
  /\ own = [i \in Ring |-> "dma"]
  /\ seg = [i \in Ring |-> NoSegment]
  /\ dma_cur = 0
  /\ arriving = NoSegment
  /\ suspended = FALSE
  /\ rbu = FALSE
  /\ dma_rx_desc_to_get = 0
  /\ rx_fs_desc = 0
  /\ g_seg_count = 0
  /\ pc = "idle"
  /\ len = 0
  /\ ptr = 0
  /\ index = 0
  /\ p = << >>
  /\ delivered = << >>

-----------------------------------------------------------------------------
(***************************************************************************)
(* The DMA                                                                 *)
(***************************************************************************)
Store(s) ==
  /\ own[dma_cur] = "dma"
  /\ seg' = [seg EXCEPT ![dma_cur] = s]
  /\ own' = [own EXCEPT ![dma_cur] = "cpu"]
  /\ dma_cur' = Succ(dma_cur)
  /\ arriving' = s
  /\ UNCHANGED rbu

\* The next frame from the network wakes a suspended receive process up.
DmaStoreFirst ==
  /\ arriving.k = arriving.n
  /\ arriving.id < MaxFrames
  /\ \E n \in 1 .. MaxSegs : Store([id |-> arriving.id + 1, k |-> 1, n |-> n])
  /\ suspended' = FALSE
  /\ UNCHANGED <<globals, locals, delivered>>

\* With flush_rx_disable a suspended DMA keeps the rest of the frame.
DmaStoreNext ==
  /\ arriving.k < arriving.n
  /\ ~suspended
  /\ Store(Nth(arriving, arriving.k + 1))
  /\ UNCHANGED <<suspended, globals, locals, delivered>>

DmaSuspend ==
  /\ ~suspended
  /\ own[dma_cur] = "cpu"
  /\ suspended' = TRUE
  /\ rbu' = TRUE
  /\ UNCHANGED <<own, seg, dma_cur, arriving, globals, locals, delivered>>

-----------------------------------------------------------------------------
\* Fault: only a frame that one descriptor holds is taken.
CheckWholeFrame ==
  /\ pc = "idle"
  /\ own[dma_rx_desc_to_get] = "cpu"
  /\ FS(seg[dma_rx_desc_to_get]) /\ LS(seg[dma_rx_desc_to_get])
  /\ pc' = "take"
  /\ UNCHANGED <<ring, globals, len, ptr, index, p, delivered>>

(***************************************************************************)
(* emac_rxpkt_chainmode: one call takes at most one descriptor.  A call    *)
(* that finds OWN set returns at once and changes nothing.                 *)
(***************************************************************************)
CheckOwn ==
  /\ pc = "idle"
  /\ own[dma_rx_desc_to_get] = "cpu"
  /\ pc' = "take"
  /\ UNCHANGED <<ring, globals, len, ptr, index, p, delivered>>

\* Fault: the first descriptor of a frame in one descriptor is not noted.
TakeLastNoFirst ==
  /\ pc = "take"
  /\ LS(seg[dma_rx_desc_to_get])
  /\ g_seg_count' = g_seg_count + 1
  /\ len' = seg[dma_rx_desc_to_get].n
  /\ dma_rx_desc_to_get' = Succ(dma_rx_desc_to_get)
  /\ pc' = "alloc"
  /\ UNCHANGED <<ring, rx_fs_desc, ptr, index, p, delivered>>

TakeLast ==
  /\ pc = "take"
  /\ LS(seg[dma_rx_desc_to_get])
  /\ g_seg_count' = g_seg_count + 1
  /\ rx_fs_desc' = IF g_seg_count = 0 THEN dma_rx_desc_to_get ELSE rx_fs_desc
  /\ len' = seg[dma_rx_desc_to_get].n
  /\ dma_rx_desc_to_get' = Succ(dma_rx_desc_to_get)
  /\ pc' = "alloc"
  /\ UNCHANGED <<ring, ptr, index, p, delivered>>

TakeFirst ==
  /\ pc = "take"
  /\ ~LS(seg[dma_rx_desc_to_get])
  /\ FS(seg[dma_rx_desc_to_get])
  /\ g_seg_count' = 1
  /\ rx_fs_desc' = dma_rx_desc_to_get
  /\ dma_rx_desc_to_get' = Succ(dma_rx_desc_to_get)
  /\ pc' = "idle"
  /\ UNCHANGED <<ring, len, ptr, index, p, delivered>>

TakeMiddle ==
  /\ pc = "take"
  /\ ~LS(seg[dma_rx_desc_to_get])
  /\ ~FS(seg[dma_rx_desc_to_get])
  /\ g_seg_count' = g_seg_count + 1
  /\ dma_rx_desc_to_get' = Succ(dma_rx_desc_to_get)
  /\ pc' = "idle"
  /\ UNCHANGED <<ring, rx_fs_desc, len, ptr, index, p, delivered>>

-----------------------------------------------------------------------------
\* Fault: the copy starts at the cursor, behind the frame.
AllocAtCursor ==
  /\ pc = "alloc"
  /\ ptr' = dma_rx_desc_to_get
  /\ pc' = "copy"
  /\ UNCHANGED <<ring, globals, len, index, p, delivered>>

(***************************************************************************)
(* low_level_input after emac_rxpkt_chainmode succeeded                    *)
(***************************************************************************)
AllocOk ==
  /\ pc = "alloc"
  /\ ptr' = rx_fs_desc
  /\ pc' = "copy"
  /\ UNCHANGED <<ring, globals, len, index, p, delivered>>

\* pbuf_alloc found no pbuf, or the frame is nothing but its checksum.
AllocFail ==
  /\ pc = "alloc"
  /\ ptr' = rx_fs_desc
  /\ index' = 0
  /\ pc' = "release"
  /\ UNCHANGED <<ring, globals, len, p, delivered>>

\* Copies one DMA buffer, however many pbufs it is spread over.
CopyBuffer ==
  /\ pc = "copy"
  /\ p' = Append(p, seg[ptr])
  /\ IF Len(p) + 1 < len
       THEN ptr' = Succ(ptr) /\ UNCHANGED <<pc, index>>
       ELSE ptr' = rx_fs_desc /\ pc' = "release" /\ index' = 0
  /\ UNCHANGED <<ring, globals, len, delivered>>

\* Fault: the loop gives one descriptor too many back.
ReleaseOneMore ==
  /\ pc = "release"
  /\ index <= g_seg_count
  /\ own' = [own EXCEPT ![ptr] = "dma"]
  /\ ptr' = Succ(ptr)
  /\ index' = index + 1
  /\ UNCHANGED <<seg, dma_cur, arriving, suspended, rbu, globals, pc, len, p,
                 delivered>>

ReleaseDesc ==
  /\ pc = "release"
  /\ index < g_seg_count
  /\ own' = [own EXCEPT ![ptr] = "dma"]
  /\ ptr' = Succ(ptr)
  /\ index' = index + 1
  /\ UNCHANGED <<seg, dma_cur, arriving, suspended, rbu, globals, pc, len, p,
                 delivered>>

\* Fault: the segments of the frame stay counted.
ReleaseNoReset ==
  /\ pc = "release"
  /\ index >= g_seg_count
  /\ pc' = "resume"
  /\ UNCHANGED <<ring, globals, len, ptr, index, p, delivered>>

ReleaseDone ==
  /\ pc = "release"
  /\ index >= g_seg_count
  /\ g_seg_count' = 0
  /\ pc' = "resume"
  /\ UNCHANGED <<ring, dma_rx_desc_to_get, rx_fs_desc, len, ptr, index, p,
                 delivered>>

\* Fault: RBU is cleared and the DMA is not told to look again.
RbuClearedOnly ==
  /\ pc = "resume"
  /\ pc' = "input"
  /\ rbu' = FALSE
  /\ UNCHANGED <<own, seg, dma_cur, arriving, suspended, globals, len, ptr,
                 index, p, delivered>>

CheckRbu ==
  /\ pc = "resume"
  /\ pc' = IF rbu THEN "demand" ELSE "input"
  /\ rbu' = FALSE
  /\ UNCHANGED <<own, seg, dma_cur, arriving, suspended, globals, len, ptr,
                 index, p, delivered>>

\* Fault: the write that restarts the DMA goes elsewhere.
PollDemandLost ==
  /\ pc = "demand"
  /\ pc' = "input"
  /\ UNCHANGED <<ring, globals, len, ptr, index, p, delivered>>

\* EMAC_DMA->rpd_bit.rpd = FALSE: the DMA looks at its descriptor again.
PollDemand ==
  /\ pc = "demand"
  /\ suspended' = FALSE
  /\ pc' = "input"
  /\ UNCHANGED <<own, seg, dma_cur, arriving, rbu, globals, len, ptr, index, p,
                 delivered>>

\* ethernetif_input hands the frame over; lwIP owns the pbuf or frees it.
Input ==
  /\ pc = "input"
  /\ delivered' = IF p = << >> THEN delivered ELSE Append(delivered, p)
  /\ p' = << >>
  /\ pc' = "idle"
  /\ UNCHANGED <<ring, globals, len, ptr, index>>

-----------------------------------------------------------------------------
Dma == DmaStoreFirst \/ DmaStoreNext \/ DmaSuspend

Driver ==
  \/ CheckOwn \/ TakeLast \/ TakeFirst \/ TakeMiddle
  \/ AllocOk \/ AllocFail \/ CopyBuffer
  \/ ReleaseDesc \/ ReleaseDone \/ CheckRbu \/ PollDemand
  \/ Input

Next == Dma \/ Driver

Spec == Init /\ [][Next]_vars

(***************************************************************************)
(* hNetHelloThread calls the driver for ever, and a frame whose first      *)
(* segment is stored goes on arriving.  The network owes no further frame  *)
(* and the DMA need not look at a descriptor that it cannot have.          *)
(***************************************************************************)
FairSpec == Spec /\ WF_vars(Driver) /\ WF_vars(DmaStoreNext)

-----------------------------------------------------------------------------
(***************************************************************************)
(* Properties                                                              *)
(***************************************************************************)
TypeOK ==
  /\ own \in [Ring -> {"dma", "cpu"}]
  /\ seg \in [Ring -> Segment]
  /\ dma_cur \in Ring
  /\ arriving \in Segment
  /\ suspended \in BOOLEAN
  /\ rbu \in BOOLEAN
  /\ dma_rx_desc_to_get \in Ring
  /\ rx_fs_desc \in Ring
  /\ g_seg_count \in Nat
  /\ pc \in {"idle", "take", "alloc", "copy", "release", "resume", "demand",
             "input"}
  /\ len \in 0 .. MaxSegs
  /\ ptr \in Ring
  /\ index \in Nat
  /\ p \in Seq(Segment)
  /\ delivered \in Seq(Seq(Segment))

(***************************************************************************)
(* low_level_input copies from, and gives back, only buffers that belong   *)
(* to the CPU: the DMA cannot be writing into what memcpy reads, and no    *)
(* descriptor is given back twice.                                         *)
(***************************************************************************)
CopyOwned ==
  /\ pc = "copy" => own[ptr] = "cpu"
  /\ pc = "release" /\ index < g_seg_count => own[ptr] = "cpu"

(***************************************************************************)
(* When the driver finds OWN set it returns and waits, so the descriptor   *)
(* it waits on must be the very one that the DMA will fill next.           *)
(* Otherwise received frames sit in the ring behind a cursor that does not *)
(* move until the DMA comes round.                                         *)
(***************************************************************************)
CursorSync ==
  own[dma_rx_desc_to_get] = "dma" => dma_rx_desc_to_get = dma_cur

(***************************************************************************)
(* A suspended DMA is never forgotten: its RBU flag is still set, or the   *)
(* driver has just cleared it and is about to restart the DMA.             *)
(***************************************************************************)
SuspensionFlagged == suspended => rbu \/ pc = "demand"

-----------------------------------------------------------------------------
(***************************************************************************)
(* The inductive invariant.  The descriptors from oldest on, counted by u, *)
(* are the CPU's; the first held of them are the driver's and the rest     *)
(* wait to be taken.                                                       *)
(***************************************************************************)
Working == pc \in {"alloc", "copy", "release"}

oldest == IF pc = "release" THEN ptr
          ELSE IF g_seg_count = 0 THEN dma_rx_desc_to_get ELSE rx_fs_desc

held == IF pc = "release" THEN g_seg_count - index ELSE g_seg_count

RingShape(u) ==
  /\ held \in 0 .. u
  /\ u \in 0 .. NumDesc
  /\ dma_cur = Plus(oldest, u)
  /\ dma_rx_desc_to_get = Plus(oldest, held)
  /\ \A i \in Ring : own[i] = "cpu" <=> Dist(oldest, i) < u

\* b is what the DMA stores after a.
Follows(a, b) ==
  IF a.k = a.n THEN b.id = a.id + 1 /\ b.k = 1
               ELSE b.id = a.id /\ b.n = a.n /\ b.k = a.k + 1

(***************************************************************************)
(* The segments in the ring are consecutive up to the one stored last.  In *)
(* the release loop the driver no longer needs what its own buffers hold.  *)
(***************************************************************************)
SegmentChain(u) ==
  /\ arriving.k \in 0 .. arriving.n
  /\ \A d \in 0 .. u - 1 :
        LET s == seg[Plus(oldest, d)]
        IN  s.k \in 1 .. s.n /\ s.id >= 1
  /\ \A d \in 1 .. u - 1 :
        Follows(seg[Plus(oldest, d - 1)], seg[Plus(oldest, d)])
  /\ u > 0 => seg[Plus(oldest, u - 1)] = arriving

(***************************************************************************)
(* What the driver holds is the beginning of one frame while it collects   *)
(* it, all of it while it copies; and when it holds nothing, or a whole    *)
(* frame, what comes next is the beginning of another.                     *)
(***************************************************************************)
HeldFrame(u) ==
  /\ pc /= "release" =>
        \A d \in 0 .. held - 1 :
           seg[Plus(oldest, d)] = Nth(seg[oldest], d + 1)
  /\ ~Working /\ held > 0 => seg[oldest].n > held
  /\ pc \in {"alloc", "copy"} => held > 0 /\ held = len /\ seg[oldest].n = len
  /\ Working \/ held = 0 =>
        IF u = held THEN arriving.k = arriving.n
                    ELSE seg[dma_rx_desc_to_get].k = 1

PcInv ==
  /\ pc = "take" => own[dma_rx_desc_to_get] = "cpu"
  /\ pc \in {"idle", "take", "alloc"} => p = << >>
  /\ pc = "copy" => Len(p) < len /\ ptr = Plus(rx_fs_desc, Len(p))
  /\ pc = "release" => index <= g_seg_count
  /\ pc \in {"resume", "demand", "input"} => g_seg_count = 0

IInv ==
  /\ TypeOK
  /\ SuspensionFlagged
  /\ PcInv
  /\ \E u \in 0 .. NumDesc : RingShape(u) /\ SegmentChain(u) /\ HeldFrame(u)

(***************************************************************************)
(* What else the refinement below needs: from each descriptor of the CPU   *)
(* on, the frames are numbered without a gap up to the one stored last,    *)
(* and what was copied so far is the beginning of the frame held.          *)
(***************************************************************************)
Numbered ==
  \A i \in Ring : own[i] = "cpu" =>
     /\ \A j \in Ring :
           own[j] = "cpu" /\ Dist(oldest, i) <= Dist(oldest, j) =>
              /\ seg[j].id - seg[i].id \in 0 .. Dist(oldest, j) - Dist(oldest, i)
              /\ seg[i].id = seg[j].id => seg[i].n = seg[j].n
     /\ \A id \in seg[i].id .. arriving.id :
           \E j \in Ring : /\ own[j] = "cpu" /\ seg[j].id = id
                           /\ Dist(oldest, i) <= Dist(oldest, j)

Copied ==
  pc = "copy" => \A j \in 1 .. Len(p) : p[j] = Nth(seg[rx_fs_desc], j)

FifoInv == IInv /\ Numbered /\ Copied

-----------------------------------------------------------------------------
(***************************************************************************)
(* The driver and the DMA together implement FrameFifo: the frames in the  *)
(* queue are the one in the driver's hands and the complete ones from      *)
(* dma_rx_desc_to_get on.                                                  *)
(***************************************************************************)
Whole(s) == [j \in 1 .. s.n |-> Nth(s, j)]

Arrived == IF arriving.k = arriving.n THEN arriving.id ELSE arriving.id - 1

\* The last frame whose LS descriptor the driver took.
Taken == IF own[dma_rx_desc_to_get] = "dma" \/ held = NumDesc
           THEN Arrived
           ELSE seg[dma_rx_desc_to_get].id - 1

Stored(id) == Whole(seg[CHOOSE i \in Ring : own[i] = "cpu" /\ seg[i].id = id])

Behind == [j \in 1 .. Arrived - Taken |-> Stored(Taken + j)]

InHand == IF pc \in {"alloc", "copy"} THEN <<Whole(seg[rx_fs_desc])>>
          ELSE IF p /= << >> THEN <<p>> ELSE << >>

Waiting == InHand \o Behind

Fifo == INSTANCE FrameFifo WITH
          Capacity <- NumDesc + 1, Lossy <- TRUE,
          arrived <- Arrived, queue <- Waiting, out <- delivered

(***************************************************************************)
(* Frames reach the stack whole, once and in order of arrival; one is lost *)
(* only when it is the oldest and no pbuf is free.                         *)
(***************************************************************************)
FramesInOrder == Fifo!Spec

(***************************************************************************)
(* Every frame received is handed to the stack or dropped for want of a    *)
(* pbuf: none stays in the ring for ever.                                  *)
(***************************************************************************)
FrameWaits(id) == \E j \in DOMAIN Waiting : Waiting[j][1].id = id

EveryFrameHandled ==
  \A id \in 1 .. MaxFrames : FrameWaits(id) ~> ~FrameWaits(id)

(***************************************************************************)
(* A DMA that ran out of descriptors in the middle of a frame gets to      *)
(* finish the frame.                                                       *)
(***************************************************************************)
ArrivalCompletes == arriving.k < arriving.n ~> arriving.k = arriving.n
=============================================================================
