---------------------------- MODULE EmacRxProofs ----------------------------
(***************************************************************************)
(* IInv is an inductive invariant of EmacRx for every size of the ring,    *)
(* every length of frame that fits in it and any number of frames, and it  *)
(* implies the safety properties of the receive driver.                    *)
(***************************************************************************)
EXTENDS EmacRx, DescRingProofs, SequenceTheorems

USE NumDescAssumption, FrameAssumption

-----------------------------------------------------------------------------
(***************************************************************************)
(* Type correctness                                                        *)
(***************************************************************************)
LEMMA TypeInit == Init => TypeOK
  <1>1. NoSegment \in Segment
    BY DEF NoSegment, Segment
  <1>2. 0 \in Ring /\ 0 \in 0 .. MaxSegs
    BY DEF Ring
  <1>3. << >> \in Seq(Segment) /\ << >> \in Seq(Seq(Segment))
    OBVIOUS
  <1> QED
    BY <1>1, <1>2, <1>3 DEF Init, TypeOK

LEMMA StoreType ==
  ASSUME TypeOK, NEW s \in Segment, Store(s)
  PROVE  /\ own' \in [Ring -> {"dma", "cpu"}]
         /\ seg' \in [Ring -> Segment]
         /\ dma_cur' \in Ring
         /\ arriving' \in Segment
         /\ rbu' \in BOOLEAN
  <1>1. Succ(dma_cur) \in Ring
    BY SuccInRing DEF TypeOK
  <1> QED
    BY <1>1 DEF TypeOK, Store

\* The segment that the DMA stores next is a segment.
LEMMA NthType ==
  ASSUME NEW s \in Segment, s.k < s.n
  PROVE  Nth(s, s.k + 1) \in Segment
  <1>1. s.id \in 0 .. MaxFrames /\ s.k \in 0 .. MaxSegs /\ s.n \in 0 .. MaxSegs
    BY DEF Segment
  <1>2. s.k + 1 \in 0 .. MaxSegs
    BY <1>1, FrameAssumption
  <1> QED
    BY <1>1, <1>2 DEF Segment, Nth

\* Every variable keeps its type: the cursors stay in the ring whatever is done.
LEMMA TypeStep ==
  ASSUME TypeOK, [Next]_vars
  PROVE  TypeOK'
  <1> USE DEF TypeOK
  <1>1. CASE DmaStoreFirst
    <2>1. PICK n \in 1 .. MaxSegs : Store([id |-> arriving.id + 1, k |-> 1, n |-> n])
      BY <1>1 DEF DmaStoreFirst
    <2>2. arriving.id \in 0 .. MaxFrames /\ arriving.id < MaxFrames
      BY <1>1 DEF DmaStoreFirst, Segment
    <2>3. arriving.id + 1 \in 0 .. MaxFrames /\ 1 \in 0 .. MaxSegs
      BY <2>2
    <2>4. [id |-> arriving.id + 1, k |-> 1, n |-> n] \in Segment
      BY <2>3 DEF Segment
    <2> QED
      BY <1>1, <2>1, <2>4, StoreType DEF DmaStoreFirst, globals, locals
  <1>2. CASE DmaStoreNext
    <2>1. Nth(arriving, arriving.k + 1) \in Segment
      BY <1>2, NthType DEF DmaStoreNext
    <2> QED
      BY <1>2, <2>1, StoreType DEF DmaStoreNext, globals, locals
  <1>3. CASE DmaSuspend
    BY <1>3 DEF DmaSuspend, globals, locals
  <1>4. CASE CheckOwn
    BY <1>4 DEF CheckOwn, ring, globals
  <1>5. CASE TakeLast
    <2>1. Succ(dma_rx_desc_to_get) \in Ring
      BY SuccInRing
    <2>2. seg[dma_rx_desc_to_get].n \in 0 .. MaxSegs
      BY DEF Segment
    <2> QED
      BY <1>5, <2>1, <2>2 DEF TakeLast, ring
  <1>6. CASE TakeFirst
    BY <1>6, SuccInRing DEF TakeFirst, ring
  <1>7. CASE TakeMiddle
    BY <1>7, SuccInRing DEF TakeMiddle, ring
  <1>8. CASE AllocOk
    BY <1>8 DEF AllocOk, ring, globals
  <1>9. CASE AllocFail
    BY <1>9 DEF AllocFail, ring, globals
  <1>10. CASE CopyBuffer
    <2>1. Succ(ptr) \in Ring
      BY SuccInRing
    <2>2. p' \in Seq(Segment)
      BY <1>10 DEF CopyBuffer
    <2>3. ptr' \in Ring /\ index' \in Nat /\ pc' \in {"copy", "release"}
      BY <1>10, <2>1 DEF CopyBuffer
    <2> QED
      BY <1>10, <2>2, <2>3 DEF CopyBuffer, ring, globals
  <1>11. CASE ReleaseDesc
    <2>1. Succ(ptr) \in Ring
      BY SuccInRing
    <2> QED
      BY <1>11, <2>1 DEF ReleaseDesc, globals
  <1>12. CASE ReleaseDone
    BY <1>12 DEF ReleaseDone, ring
  <1>13. CASE CheckRbu
    BY <1>13 DEF CheckRbu, globals
  <1>14. CASE PollDemand
    BY <1>14 DEF PollDemand, globals
  <1>15. CASE Input
    <2>1. << >> \in Seq(Segment)
      OBVIOUS
    <2>2. delivered' \in Seq(Seq(Segment))
      BY <1>15 DEF Input
    <2> QED
      BY <1>15, <2>1, <2>2 DEF Input, ring, globals
  <1>16. CASE UNCHANGED vars
    BY <1>16 DEF vars, ring, globals, locals
  <1> QED
    BY <1>1, <1>2, <1>3, <1>4, <1>5, <1>6, <1>7, <1>8, <1>9, <1>10, <1>11,
       <1>12, <1>13, <1>14, <1>15, <1>16 DEF Next, Dma, Driver

(***************************************************************************)
(* Type correctness of the receive driver, whatever the ring and frames.   *)
(***************************************************************************)
THEOREM TypeCorrect == Spec => []TypeOK
  <1>1. TypeOK /\ [Next]_vars => TypeOK'
    BY TypeStep
  <1> QED
    BY TypeInit, <1>1, PTL DEF Spec

-----------------------------------------------------------------------------
(***************************************************************************)
(* The ring                                                                *)
(***************************************************************************)
LEMMA OldestInRing == TypeOK => oldest \in Ring /\ held \in Int
  BY DEF TypeOK, oldest, held

\* A descriptor that the DMA owns at its cursor: there is room for one more.
LEMMA DmaHasRoom ==
  ASSUME TypeOK, NEW u \in 0 .. NumDesc, RingShape(u), own[dma_cur] = "dma"
  PROVE  u < NumDesc /\ held <= u
  <1>1. oldest \in Ring /\ held \in Int
    BY OldestInRing
  <1>2. SUFFICES ASSUME u = NumDesc
                 PROVE  FALSE
    BY <1>1 DEF RingShape
  <1>3. dma_cur = oldest
    BY <1>1, <1>2, PlusInRing DEF RingShape
  <1>4. Dist(oldest, oldest) \in 0 .. NumDesc - 1
    BY <1>1, PlusOfDist
  <1> QED
    BY <1>1, <1>2, <1>3, <1>4 DEF RingShape

\* The descriptor that the driver looks at, when it is the CPU's, is received.
LEMMA CursorOwned ==
  ASSUME TypeOK, NEW u \in 0 .. NumDesc, RingShape(u), held < NumDesc
  PROVE  own[dma_rx_desc_to_get] = "cpu" <=> held < u
  <1>1. oldest \in Ring /\ held \in 0 .. NumDesc - 1
    BY OldestInRing DEF RingShape
  <1>2. Dist(oldest, dma_rx_desc_to_get) = held
    BY <1>1, DistOfPlus DEF RingShape
  <1> QED
    BY <1>2 DEF RingShape, TypeOK

LEMMA SameRing ==
  ASSUME oldest' = oldest, held' = held,
         UNCHANGED <<own, seg, dma_cur, arriving, dma_rx_desc_to_get>>,
         NEW u \in 0 .. NumDesc, RingShape(u), SegmentChain(u)
  PROVE  RingShape(u)' /\ SegmentChain(u)'
  BY DEF RingShape, SegmentChain

(***************************************************************************)
(* A store lengthens the CPU's part of the ring by one at the far end, and *)
(* disturbs nothing that the CPU owned.                                    *)
(***************************************************************************)
LEMMA StoreStep ==
  ASSUME TypeOK, TypeOK', NEW s \in Segment, Store(s), s.k \in 1 .. s.n,
         s.id >= 1, oldest' = oldest, held' = held,
         UNCHANGED dma_rx_desc_to_get,
         NEW u \in 0 .. NumDesc, RingShape(u), SegmentChain(u),
         u > 0 => Follows(arriving, s)
  PROVE  /\ u + 1 \in 0 .. NumDesc
         /\ RingShape(u + 1)'
         /\ SegmentChain(u + 1)'
         /\ \A d \in 0 .. u - 1 :
               seg'[Plus(oldest, d)] = seg[Plus(oldest, d)]
         /\ seg'[Plus(oldest, u)] = s
  <1>1. oldest \in Ring /\ held \in Int
    BY OldestInRing
  <1>2. u \in 0 .. NumDesc - 1 /\ dma_cur = Plus(oldest, u)
    BY DmaHasRoom DEF Store, RingShape
  <1>3. \A d \in 0 .. u - 1 :
          /\ Plus(oldest, d) \in Ring
          /\ Plus(oldest, d) /= Plus(oldest, u)
    BY <1>1, <1>2, PlusInRing, PlusInjective
  <1>4. /\ seg'[Plus(oldest, u)] = s
        /\ \A d \in 0 .. u - 1 :
              seg'[Plus(oldest, d)] = seg[Plus(oldest, d)]
    BY <1>2, <1>3 DEF Store, TypeOK
  <1>5. RingShape(u + 1)'
    <2>1. dma_cur' = Plus(oldest, u + 1)
      BY <1>1, <1>2, PlusOneMore DEF Store
    <2>2. ASSUME NEW i \in Ring
          PROVE  own'[i] = "cpu" <=> Dist(oldest, i) < u + 1
      <3>1. Dist(oldest, i) \in 0 .. NumDesc - 1
        BY <1>1, PlusOfDist
      <3>2. i = dma_cur <=> Dist(oldest, i) = u
        BY <1>1, <1>2, DistOfPlus, PlusOfDist
      <3>3. own'[i] = IF i = dma_cur THEN "cpu" ELSE own[i]
        BY DEF Store, TypeOK
      <3>4. own[i] = "cpu" <=> Dist(oldest, i) < u
        BY DEF RingShape
      <3> QED
        BY <1>2, <3>1, <3>2, <3>3, <3>4
    <2> QED
      BY <1>1, <1>2, <2>1, <2>2 DEF RingShape
  <1>6. SegmentChain(u + 1)'
    <2>1. arriving' = s
      BY DEF Store
    <2>2. ASSUME NEW d \in 0 .. u
          PROVE  seg'[Plus(oldest, d)].k \in 1 .. seg'[Plus(oldest, d)].n
                 /\ seg'[Plus(oldest, d)].id >= 1
      <3>1. CASE d = u
        BY <1>4, <3>1
      <3>2. CASE d \in 0 .. u - 1
        BY <1>4, <3>2 DEF SegmentChain
      <3> QED
        BY <3>1, <3>2
    <2>3. ASSUME NEW d \in 1 .. u
          PROVE  Follows(seg'[Plus(oldest, d - 1)], seg'[Plus(oldest, d)])
      <3>1. CASE d = u
        <4>1. seg[Plus(oldest, u - 1)] = arriving
          BY <3>1 DEF SegmentChain
        <4> QED
          BY <1>4, <3>1, <4>1
      <3>2. CASE d \in 1 .. u - 1
        BY <1>4, <3>2 DEF SegmentChain
      <3> QED
        BY <3>1, <3>2
    <2>4. s.k \in 0 .. s.n
      BY DEF Segment
    <2> QED
      BY <1>2, <1>4, <2>1, <2>2, <2>3, <2>4 DEF SegmentChain
  <1> QED
    BY <1>2, <1>4, <1>5, <1>6

-----------------------------------------------------------------------------
(***************************************************************************)
(* The steps of the DMA                                                    *)
(***************************************************************************)
LEMMA StoreKeepsIInv ==
  ASSUME IInv, TypeOK', NEW s \in Segment, Store(s), s.k \in 1 .. s.n,
         s.id >= 1, Follows(arriving, s), suspended' => suspended,
         UNCHANGED <<globals, locals, delivered>>
  PROVE  IInv'
  <1> USE DEF globals, locals
  <1>1. TypeOK /\ oldest \in Ring /\ held \in Int
    BY OldestInRing DEF IInv
  <1>2. PICK u \in 0 .. NumDesc : RingShape(u) /\ SegmentChain(u) /\ HeldFrame(u)
    BY DEF IInv
  <1>3. oldest' = oldest /\ held' = held /\ Working' = Working
    BY DEF oldest, held, Working
  <1>4. /\ u + 1 \in 0 .. NumDesc
        /\ RingShape(u + 1)'
        /\ SegmentChain(u + 1)'
        /\ \A d \in 0 .. u - 1 : seg'[Plus(oldest, d)] = seg[Plus(oldest, d)]
        /\ seg'[Plus(oldest, u)] = s
    BY <1>1, <1>2, <1>3, StoreStep
  <1>5. held \in 0 .. u /\ u < NumDesc
    BY <1>1, <1>2, DmaHasRoom DEF Store, RingShape
  <1>6. Plus(oldest, 0) = oldest
    BY <1>1, PlusInRing
  <1>7. HeldFrame(u + 1)'
    <2>1. held > 0 => seg'[oldest] = seg[oldest]
      BY <1>4, <1>5, <1>6
    <2>2. pc' /= "release" =>
            \A d \in 0 .. held - 1 : seg'[Plus(oldest, d)] = Nth(seg'[oldest], d + 1)
      BY <1>2, <1>4, <1>5, <2>1 DEF HeldFrame
    <2>3. (Working \/ held = 0) => seg'[dma_rx_desc_to_get].k = 1
      <3>1. dma_rx_desc_to_get = Plus(oldest, held)
        BY <1>2 DEF RingShape
      <3>2. CASE u = held
        BY <1>2, <1>4, <3>1, <3>2 DEF HeldFrame, Follows
      <3>3. CASE u /= held
        BY <1>2, <1>4, <1>5, <3>1, <3>3 DEF HeldFrame
      <3> QED
        BY <3>2, <3>3
    <2> QED
      BY <1>2, <1>3, <1>5, <2>1, <2>2, <2>3 DEF HeldFrame
  <1>8. SuspensionFlagged'
    BY DEF IInv, SuspensionFlagged, Store
  <1>9. PcInv'
    <2>1. own[dma_rx_desc_to_get] = "cpu" => own'[dma_rx_desc_to_get] = "cpu"
      BY <1>1 DEF Store, TypeOK
    <2> QED
      BY <2>1 DEF IInv, PcInv
  <1> QED
    BY <1>4, <1>7, <1>8, <1>9 DEF IInv

LEMMA DmaStoreFirstStep ==
  ASSUME IInv, TypeOK', DmaStoreFirst
  PROVE  IInv'
  <1>1. PICK n \in 1 .. MaxSegs : Store([id |-> arriving.id + 1, k |-> 1, n |-> n])
    BY DEF DmaStoreFirst
  <1> DEFINE s == [id |-> arriving.id + 1, k |-> 1, n |-> n]
  <1>2. arriving.id \in 0 .. MaxFrames /\ arriving.id < MaxFrames
    BY DEF DmaStoreFirst, IInv, TypeOK, Segment
  <1>3. arriving.id + 1 \in 0 .. MaxFrames /\ 1 \in 0 .. MaxSegs
    BY <1>2
  <1>4. s \in Segment /\ s.k \in 1 .. s.n /\ s.id >= 1
    BY <1>2, <1>3 DEF Segment
  <1>5. Follows(arriving, s)
    BY DEF DmaStoreFirst, Follows
  <1>6. UNCHANGED <<globals, locals, delivered>> /\ suspended' = FALSE
    BY DEF DmaStoreFirst
  <1> HIDE DEF s
  <1>7. Store(s)
    BY <1>1 DEF s
  <1> QED
    BY <1>4, <1>5, <1>6, <1>7, StoreKeepsIInv

LEMMA DmaStoreNextStep ==
  ASSUME IInv, TypeOK', DmaStoreNext
  PROVE  IInv'
  <1> DEFINE s == Nth(arriving, arriving.k + 1)
  <1>1. arriving \in Segment /\ arriving.k < arriving.n
    BY DEF DmaStoreNext, IInv, TypeOK
  <1>2. arriving.id >= 1
    <2>1. PICK u \in 0 .. NumDesc : RingShape(u) /\ SegmentChain(u) /\ HeldFrame(u)
      BY DEF IInv
    <2>2. held \in 0 .. u
      BY <2>1 DEF RingShape
    <2>3. u > 0
      BY <1>1, <2>1, <2>2 DEF HeldFrame, Segment
    <2> QED
      BY <2>1, <2>3 DEF SegmentChain
  <1>3. s \in Segment /\ s.k \in 1 .. s.n /\ s.id >= 1
    BY <1>1, <1>2 DEF Segment, Nth
  <1>4. Follows(arriving, s)
    BY <1>1 DEF Follows, Nth, Segment
  <1>5. UNCHANGED <<suspended, globals, locals, delivered>> /\ Store(s)
    BY DEF DmaStoreNext
  <1> HIDE DEF s
  <1> QED
    BY <1>3, <1>4, <1>5, StoreKeepsIInv

LEMMA DmaSuspendStep ==
  ASSUME IInv, TypeOK', DmaSuspend
  PROVE  IInv'
  <1> USE DEF DmaSuspend, globals, locals
  <1>1. PICK u \in 0 .. NumDesc : RingShape(u) /\ SegmentChain(u) /\ HeldFrame(u)
    BY DEF IInv
  <1>2. oldest' = oldest /\ held' = held /\ Working' = Working
    BY DEF oldest, held, Working
  <1>3. RingShape(u)' /\ SegmentChain(u)'
    BY <1>1, <1>2, SameRing
  <1>4. HeldFrame(u)'
    BY <1>1, <1>2 DEF HeldFrame
  <1>5. SuspensionFlagged' /\ PcInv'
    BY DEF IInv, SuspensionFlagged, PcInv
  <1> QED
    BY <1>3, <1>4, <1>5 DEF IInv

-----------------------------------------------------------------------------
(***************************************************************************)
(* The driver takes a descriptor                                           *)
(***************************************************************************)
LEMMA CheckOwnStep ==
  ASSUME IInv, TypeOK', CheckOwn
  PROVE  IInv'
  <1> USE DEF CheckOwn, globals, ring
  <1>1. PICK u \in 0 .. NumDesc : RingShape(u) /\ SegmentChain(u) /\ HeldFrame(u)
    BY DEF IInv
  <1>2. oldest' = oldest /\ held' = held /\ ~Working /\ ~Working'
    BY DEF oldest, held, Working
  <1>3. RingShape(u)' /\ SegmentChain(u)'
    BY <1>1, <1>2, SameRing
  <1>4. HeldFrame(u)'
    BY <1>1, <1>2 DEF HeldFrame
  <1>5. SuspensionFlagged' /\ PcInv'
    BY DEF IInv, SuspensionFlagged, PcInv
  <1> QED
    BY <1>3, <1>4, <1>5 DEF IInv

(***************************************************************************)
(* When the driver is about to take a descriptor, that descriptor is next  *)
(* in the ring after those it holds, and continues their frame.            *)
(***************************************************************************)
LEMMA TakeFacts ==
  ASSUME IInv, pc = "take", NEW u \in 0 .. NumDesc,
         RingShape(u), SegmentChain(u), HeldFrame(u)
  PROVE  /\ oldest \in Ring /\ held = g_seg_count /\ held \in 0 .. u - 1
         /\ dma_rx_desc_to_get = Plus(oldest, held)
         /\ seg[dma_rx_desc_to_get] \in Segment
         /\ seg[dma_rx_desc_to_get] = Nth(seg[oldest], held + 1)
         /\ seg[oldest].n > held
  <1>1. TypeOK /\ oldest \in Ring /\ held = g_seg_count /\ held \in Nat
    BY OldestInRing DEF IInv, TypeOK, held
  <1>2. held < NumDesc
    <2>1. seg[oldest].n \in 0 .. MaxSegs
      BY <1>1 DEF TypeOK, Segment
    <2>2. held > 0 => seg[oldest].n > held
      BY DEF HeldFrame, Working
    <2> QED
      BY <1>1, <2>1, <2>2
  <1>3. held < u
    BY <1>1, <1>2, CursorOwned DEF IInv, PcInv
  <1>4. dma_rx_desc_to_get = Plus(oldest, held) /\ Plus(oldest, 0) = oldest
    BY <1>1, PlusInRing DEF RingShape
  <1>5. seg[dma_rx_desc_to_get] \in Segment
    BY <1>1 DEF TypeOK
  <1>6. CASE held = 0
    <2>1. seg[oldest].k = 1 /\ seg[oldest].n > 0
      BY <1>3, <1>4, <1>5, <1>6 DEF HeldFrame, SegmentChain, Segment
    <2> QED
      BY <1>1, <1>3, <1>4, <1>5, <1>6, <2>1 DEF Nth, Segment
  <1>7. CASE held > 0
    <2>1. seg[Plus(oldest, held - 1)] = Nth(seg[oldest], held)
      BY <1>1, <1>7 DEF HeldFrame
    <2>2. seg[oldest].n > held
      BY <1>7 DEF HeldFrame, Working
    <2>3. Follows(seg[Plus(oldest, held - 1)], seg[Plus(oldest, held)])
      BY <1>1, <1>3, <1>7 DEF SegmentChain
    <2>4. seg[oldest] \in Segment
      BY <1>1 DEF TypeOK
    <2> QED
      BY <1>1, <1>3, <1>4, <1>5, <1>7, <2>1, <2>2, <2>3, <2>4
         DEF Follows, Nth, Segment
  <1> QED
    BY <1>1, <1>6, <1>7

(***************************************************************************)
(* Taking the descriptor adds it to those held.                            *)
(***************************************************************************)
LEMMA TakeShape ==
  ASSUME IInv, pc = "take", NEW u \in 0 .. NumDesc,
         RingShape(u), SegmentChain(u), HeldFrame(u),
         UNCHANGED ring, oldest' = oldest, held' = held + 1,
         dma_rx_desc_to_get' = Succ(dma_rx_desc_to_get)
  PROVE  /\ RingShape(u)'
         /\ SegmentChain(u)'
         /\ \A d \in 0 .. held' - 1 :
               seg'[Plus(oldest', d)] = Nth(seg'[oldest'], d + 1)
  <1> USE DEF ring
  <1>1. /\ oldest \in Ring /\ held \in 0 .. u - 1
        /\ dma_rx_desc_to_get = Plus(oldest, held)
        /\ seg[dma_rx_desc_to_get] = Nth(seg[oldest], held + 1)
    BY TakeFacts
  <1>2. dma_rx_desc_to_get' = Plus(oldest, held + 1)
    BY <1>1, PlusOneMore
  <1>3. RingShape(u)'
    BY <1>1, <1>2 DEF RingShape
  <1>4. SegmentChain(u)'
    BY DEF SegmentChain
  <1>5. ASSUME NEW d \in 0 .. held
        PROVE  seg[Plus(oldest, d)] = Nth(seg[oldest], d + 1)
    <2>1. CASE d = held
      BY <1>1, <2>1
    <2>2. CASE d \in 0 .. held - 1
      BY <2>2 DEF HeldFrame
    <2> QED
      BY <1>1, <2>1, <2>2
  <1> QED
    BY <1>1, <1>3, <1>4, <1>5

LEMMA TakeLastStep ==
  ASSUME IInv, TypeOK', TakeLast
  PROVE  IInv'
  <1> USE DEF TakeLast
  <1>1. PICK u \in 0 .. NumDesc : RingShape(u) /\ SegmentChain(u) /\ HeldFrame(u)
    BY DEF IInv
  <1>2. TypeOK /\ UNCHANGED ring /\ pc = "take" /\ pc' = "alloc"
    BY DEF IInv
  <1>3. oldest' = oldest /\ held' = held + 1
    BY <1>2 DEF oldest, held, TypeOK
  <1>4. /\ oldest \in Ring /\ held \in 0 .. u - 1
        /\ dma_rx_desc_to_get = Plus(oldest, held)
        /\ seg[dma_rx_desc_to_get] \in Segment
        /\ seg[dma_rx_desc_to_get] = Nth(seg[oldest], held + 1)
    BY <1>1, <1>2, TakeFacts
  <1>5. /\ RingShape(u)' /\ SegmentChain(u)'
        /\ \A d \in 0 .. held' - 1 :
              seg'[Plus(oldest', d)] = Nth(seg'[oldest'], d + 1)
    BY <1>1, <1>2, <1>3, TakeShape
  <1>6. len' = held + 1 /\ seg[oldest].n = held + 1
    BY <1>4 DEF LS, Nth
  <1>7. IF u = held + 1 THEN arriving.k = arriving.n
                        ELSE seg[Plus(oldest, held + 1)].k = 1
    <2>1. CASE u = held + 1
      <3>1. arriving = seg[Plus(oldest, held)]
        BY <1>1, <1>4, <2>1 DEF SegmentChain
      <3> QED
        BY <1>4, <2>1, <3>1 DEF LS
    <2>2. CASE u > held + 1
      <3>1. Follows(seg[Plus(oldest, held)], seg[Plus(oldest, held + 1)])
        BY <1>1, <1>4, <2>2 DEF SegmentChain
      <3> QED
        BY <1>4, <2>2, <3>1 DEF LS, Follows
    <2> QED
      BY <1>4, <2>1, <2>2
  <1>8. HeldFrame(u)'
    <2>1. dma_rx_desc_to_get' = Plus(oldest, held + 1)
      BY <1>4, PlusOneMore
    <2> QED
      BY <1>2, <1>3, <1>4, <1>5, <1>6, <1>7, <2>1 DEF HeldFrame, Working, ring
  <1>9. SuspensionFlagged' /\ PcInv'
    BY <1>2 DEF IInv, SuspensionFlagged, PcInv, ring
  <1> QED
    BY <1>5, <1>8, <1>9 DEF IInv

LEMMA TakeFirstStep ==
  ASSUME IInv, TypeOK', TakeFirst
  PROVE  IInv'
  <1> USE DEF TakeFirst
  <1>1. PICK u \in 0 .. NumDesc : RingShape(u) /\ SegmentChain(u) /\ HeldFrame(u)
    BY DEF IInv
  <1>2. TypeOK /\ UNCHANGED ring /\ pc = "take" /\ pc' = "idle"
    BY DEF IInv
  <1>3. /\ oldest \in Ring /\ held = g_seg_count /\ held \in 0 .. u - 1
        /\ seg[dma_rx_desc_to_get] \in Segment
        /\ seg[dma_rx_desc_to_get] = Nth(seg[oldest], held + 1)
        /\ seg[oldest].n > held
    BY <1>1, <1>2, TakeFacts
  <1>4. held = 0 /\ oldest = dma_rx_desc_to_get
    BY <1>2, <1>3 DEF FS, Nth, oldest
  <1>5. oldest' = oldest /\ held' = held + 1
    BY <1>2, <1>4 DEF oldest, held
  <1>6. /\ RingShape(u)' /\ SegmentChain(u)'
        /\ \A d \in 0 .. held' - 1 :
              seg'[Plus(oldest', d)] = Nth(seg'[oldest'], d + 1)
    BY <1>1, <1>2, <1>5, TakeShape
  <1>7. seg[oldest].n > 1
    BY <1>3, <1>4 DEF LS, FS, Segment
  <1>8. HeldFrame(u)'
    BY <1>2, <1>4, <1>5, <1>6, <1>7 DEF HeldFrame, Working, ring
  <1>9. SuspensionFlagged' /\ PcInv'
    BY <1>2 DEF IInv, SuspensionFlagged, PcInv, ring
  <1> QED
    BY <1>6, <1>8, <1>9 DEF IInv

LEMMA TakeMiddleStep ==
  ASSUME IInv, TypeOK', TakeMiddle
  PROVE  IInv'
  <1> USE DEF TakeMiddle
  <1>1. PICK u \in 0 .. NumDesc : RingShape(u) /\ SegmentChain(u) /\ HeldFrame(u)
    BY DEF IInv
  <1>2. TypeOK /\ UNCHANGED ring /\ pc = "take" /\ pc' = "idle"
    BY DEF IInv
  <1>3. /\ oldest \in Ring /\ held = g_seg_count /\ held \in 0 .. u - 1
        /\ seg[dma_rx_desc_to_get] \in Segment
        /\ seg[dma_rx_desc_to_get] = Nth(seg[oldest], held + 1)
        /\ seg[oldest].n > held
    BY <1>1, <1>2, TakeFacts
  <1>4. held > 0
    BY <1>3 DEF FS, Nth
  <1>5. oldest' = oldest /\ held' = held + 1
    BY <1>2, <1>3, <1>4 DEF oldest, held, TypeOK
  <1>6. /\ RingShape(u)' /\ SegmentChain(u)'
        /\ \A d \in 0 .. held' - 1 :
              seg'[Plus(oldest', d)] = Nth(seg'[oldest'], d + 1)
    BY <1>1, <1>2, <1>5, TakeShape
  <1>7. seg[oldest].n > held + 1
    <2>1. seg[oldest].n /= held + 1
      BY <1>3, <1>4 DEF LS, Nth
    <2>2. seg[oldest].n \in Nat
      BY <1>2, <1>3 DEF TypeOK, Segment
    <2> QED
      BY <1>3, <2>1, <2>2
  <1>8. HeldFrame(u)'
    BY <1>2, <1>3, <1>5, <1>6, <1>7 DEF HeldFrame, Working, ring
  <1>9. SuspensionFlagged' /\ PcInv'
    BY <1>2 DEF IInv, SuspensionFlagged, PcInv, ring
  <1> QED
    BY <1>6, <1>8, <1>9 DEF IInv

-----------------------------------------------------------------------------
(***************************************************************************)
(* The driver copies the frame and gives its descriptors back              *)
(***************************************************************************)
LEMMA AllocStep ==
  ASSUME IInv, TypeOK', AllocOk \/ AllocFail
  PROVE  IInv'
  <1> USE DEF AllocOk, AllocFail, globals, ring
  <1>1. PICK u \in 0 .. NumDesc : RingShape(u) /\ SegmentChain(u) /\ HeldFrame(u)
    BY DEF IInv
  <1>2. TypeOK /\ pc = "alloc" /\ pc' \in {"copy", "release"} /\ ptr' = rx_fs_desc
    BY DEF IInv
  <1>3. held = len /\ g_seg_count = len /\ len > 0 /\ len \in Nat
    BY <1>1, <1>2 DEF HeldFrame, held, TypeOK
  <1>4. oldest' = oldest /\ held' = held /\ Working /\ Working'
    BY <1>2, <1>3 DEF oldest, held, Working
  <1>5. RingShape(u)' /\ SegmentChain(u)'
    BY <1>1, <1>4, SameRing
  <1>6. HeldFrame(u)'
    BY <1>1, <1>2, <1>4 DEF HeldFrame
  <1>7. PcInv'
    <2>1. Plus(rx_fs_desc, 0) = rx_fs_desc
      BY <1>2, PlusInRing DEF TypeOK
    <2>2. pc' = "copy" => Len(p') < len' /\ ptr' = Plus(rx_fs_desc', Len(p'))
      BY <1>2, <1>3, <2>1 DEF IInv, PcInv
    <2> QED
      BY <1>2, <1>3, <2>2 DEF PcInv
  <1>8. SuspensionFlagged'
    BY <1>2 DEF IInv, SuspensionFlagged
  <1> QED
    BY <1>5, <1>6, <1>7, <1>8 DEF IInv

LEMMA CopyBufferStep ==
  ASSUME IInv, TypeOK', CopyBuffer
  PROVE  IInv'
  <1> USE DEF CopyBuffer, globals, ring
  <1>1. PICK u \in 0 .. NumDesc : RingShape(u) /\ SegmentChain(u) /\ HeldFrame(u)
    BY DEF IInv
  <1>2. TypeOK /\ pc = "copy" /\ pc' \in {"copy", "release"}
    BY DEF IInv
  <1>3. /\ held = len /\ g_seg_count = len /\ len \in 1 .. NumDesc
        /\ rx_fs_desc \in Ring /\ p \in Seq(Segment)
    BY <1>1, <1>2 DEF HeldFrame, RingShape, held, TypeOK
  <1>4. oldest' = oldest /\ held' = held /\ Working /\ Working'
    BY <1>2, <1>3 DEF oldest, held, Working
  <1>5. RingShape(u)' /\ SegmentChain(u)'
    BY <1>1, <1>4, SameRing
  <1>6. HeldFrame(u)'
    BY <1>1, <1>2, <1>4 DEF HeldFrame
  <1>7. PcInv'
    <2>1. Len(p) \in Nat /\ Len(p) < len /\ ptr = Plus(rx_fs_desc, Len(p))
      BY <1>2, <1>3 DEF IInv, PcInv
    <2>2. Len(p') = Len(p) + 1
      BY <1>3, <1>2
    <2>3. Succ(ptr) = Plus(rx_fs_desc, Len(p) + 1)
      BY <1>3, <2>1, PlusOneMore
    <2>4. pc' = "copy" => Len(p') < len' /\ ptr' = Plus(rx_fs_desc', Len(p'))
      BY <1>2, <2>2, <2>3
    <2> QED
      BY <1>2, <1>3, <2>4 DEF PcInv
  <1>8. SuspensionFlagged'
    BY <1>2 DEF IInv, SuspensionFlagged
  <1> QED
    BY <1>5, <1>6, <1>7, <1>8 DEF IInv

(***************************************************************************)
(* Giving the oldest descriptor back shortens the CPU's part at the near   *)
(* end.                                                                    *)
(***************************************************************************)
LEMMA ReleaseDescStep ==
  ASSUME IInv, TypeOK', ReleaseDesc
  PROVE  IInv'
  <1> USE DEF ReleaseDesc, globals
  <1>1. PICK u \in 0 .. NumDesc : RingShape(u) /\ SegmentChain(u) /\ HeldFrame(u)
    BY DEF IInv
  <1>2. TypeOK /\ pc = "release" /\ pc' = "release"
    BY DEF IInv
  <1>3. /\ oldest = ptr /\ held = g_seg_count - index
        /\ oldest' = Succ(oldest) /\ held' = held - 1
    BY <1>2 DEF oldest, held, TypeOK
  <1>4. held \in 1 .. u /\ u \in 1 .. NumDesc /\ oldest \in Ring
    BY <1>1, <1>2, <1>3 DEF RingShape, TypeOK
  <1>5. u - 1 \in 0 .. NumDesc
    BY <1>4
  <1>6. \A k \in 0 .. NumDesc - 1 : Plus(oldest', k) = Plus(oldest, k + 1)
    BY <1>3, <1>4, PlusOneMore
  <1>7. RingShape(u - 1)'
    <2>1. ASSUME NEW i \in Ring
          PROVE  own'[i] = "cpu" <=> Dist(oldest', i) < u - 1
      <3>1. Dist(oldest', i) = IF i = oldest THEN NumDesc - 1
                                             ELSE Dist(oldest, i) - 1
        BY <1>3, <1>4, DistOneLess
      <3>2. own'[i] = IF i = oldest THEN "dma" ELSE own[i]
        BY <1>2, <1>3 DEF TypeOK
      <3>3. own[i] = "cpu" <=> Dist(oldest, i) < u
        BY <1>1 DEF RingShape
      <3>4. Dist(oldest, i) \in 0 .. NumDesc - 1
        BY <1>4, PlusOfDist
      <3> QED
        BY <1>4, <3>1, <3>2, <3>3, <3>4
    <2>2. dma_cur' = Plus(oldest', u - 1)
      BY <1>1, <1>4, <1>6 DEF RingShape
    <2>3. dma_rx_desc_to_get' = Plus(oldest', held - 1)
      BY <1>1, <1>4, <1>6 DEF RingShape
    <2> QED
      BY <1>3, <1>4, <2>1, <2>2, <2>3 DEF RingShape
  <1>8. SegmentChain(u - 1)'
    <2>1. \A d \in 0 .. u - 2 : Plus(oldest', d) = Plus(oldest, d + 1)
      BY <1>4, <1>6
    <2>2. \A d \in 0 .. u - 2 :
             LET s == seg[Plus(oldest', d)]
             IN  s.k \in 1 .. s.n /\ s.id >= 1
      BY <1>1, <1>4, <2>1 DEF SegmentChain
    <2>3. \A d \in 1 .. u - 2 :
             Follows(seg[Plus(oldest', d - 1)], seg[Plus(oldest', d)])
      <3> TAKE d \in 1 .. u - 2
      <3>1. /\ Plus(oldest', d - 1) = Plus(oldest, d)
            /\ Plus(oldest', d) = Plus(oldest, d + 1)
        BY <1>4, <2>1
      <3> QED
        BY <1>1, <1>4, <3>1 DEF SegmentChain
    <2>4. u - 1 > 0 => seg[Plus(oldest', u - 2)] = arriving
      BY <1>1, <1>4, <2>1 DEF SegmentChain
    <2> QED
      BY <1>1, <1>4, <2>2, <2>3, <2>4 DEF SegmentChain
  <1>9. HeldFrame(u - 1)'
    BY <1>1, <1>2, <1>3, <1>4 DEF HeldFrame, Working
  <1>10. SuspensionFlagged' /\ PcInv'
    BY <1>2 DEF IInv, SuspensionFlagged, PcInv, TypeOK
  <1> QED
    BY <1>5, <1>7, <1>8, <1>9, <1>10 DEF IInv

LEMMA ReleaseDoneStep ==
  ASSUME IInv, TypeOK', ReleaseDone
  PROVE  IInv'
  <1> USE DEF ReleaseDone, ring
  <1>1. PICK u \in 0 .. NumDesc : RingShape(u) /\ SegmentChain(u) /\ HeldFrame(u)
    BY DEF IInv
  <1>2. TypeOK /\ pc = "release" /\ pc' = "resume" /\ index = g_seg_count
    BY DEF IInv, PcInv, TypeOK
  <1>3. oldest = ptr /\ held = 0 /\ dma_rx_desc_to_get = ptr
    BY <1>1, <1>2, PlusInRing DEF oldest, held, RingShape, TypeOK
  <1>4. oldest' = oldest /\ held' = held /\ Working
    BY <1>2, <1>3 DEF oldest, held, Working
  <1>5. RingShape(u)' /\ SegmentChain(u)'
    BY <1>1, <1>4, SameRing
  <1>6. HeldFrame(u)'
    BY <1>1, <1>2, <1>3, <1>4 DEF HeldFrame
  <1>7. SuspensionFlagged' /\ PcInv'
    BY <1>2 DEF IInv, SuspensionFlagged, PcInv
  <1> QED
    BY <1>5, <1>6, <1>7 DEF IInv

\* The rest of the activation leaves the ring alone.
LEMMA FinishStep ==
  ASSUME IInv, TypeOK', CheckRbu \/ PollDemand \/ Input
  PROVE  IInv'
  <1> USE DEF CheckRbu, PollDemand, Input, globals, ring
  <1>1. PICK u \in 0 .. NumDesc : RingShape(u) /\ SegmentChain(u) /\ HeldFrame(u)
    BY DEF IInv
  <1>2. /\ TypeOK /\ pc \in {"resume", "demand", "input"}
        /\ pc' \in {"demand", "input", "idle"} /\ g_seg_count = 0
    BY DEF IInv, PcInv
  <1>3. oldest' = oldest /\ held' = held /\ held = 0 /\ ~Working
    BY <1>2 DEF oldest, held, Working
  <1>4. RingShape(u)' /\ SegmentChain(u)'
    BY <1>1, <1>3, SameRing
  <1>5. HeldFrame(u)'
    BY <1>1, <1>2, <1>3 DEF HeldFrame
  <1>6. PcInv'
    BY <1>2 DEF IInv, PcInv
  <1>7. SuspensionFlagged'
    BY <1>2 DEF IInv, SuspensionFlagged, TypeOK
  <1> QED
    BY <1>4, <1>5, <1>6, <1>7 DEF IInv

-----------------------------------------------------------------------------
(***************************************************************************)
(* The invariant and what it gives                                         *)
(***************************************************************************)
LEMMA InvInit ==
  ASSUME Init
  PROVE  IInv
  <1> USE DEF Init
  <1>1. TypeOK /\ oldest = 0 /\ held = 0 /\ ~Working
    BY TypeInit DEF oldest, held, Working
  <1>2. 0 \in Ring /\ Plus(0, 0) = 0
    BY <1>1, PlusInRing DEF TypeOK
  <1>3. RingShape(0)
    <2>1. ASSUME NEW i \in Ring
          PROVE  own[i] = "dma" /\ ~(Dist(0, i) < 0)
      BY <1>2, PlusOfDist
    <2> QED
      BY <1>1, <1>2, <2>1 DEF RingShape
  <1>4. SegmentChain(0) /\ HeldFrame(0)
    BY <1>1 DEF SegmentChain, HeldFrame, NoSegment
  <1>5. SuspensionFlagged /\ PcInv
    BY DEF SuspensionFlagged, PcInv
  <1> QED
    BY <1>1, <1>3, <1>4, <1>5 DEF IInv

LEMMA InvStep ==
  ASSUME IInv, [Next]_vars
  PROVE  IInv'
  <1>1. TypeOK'
    BY TypeStep DEF IInv
  <1>2. CASE DmaStoreFirst
    BY <1>1, <1>2, DmaStoreFirstStep
  <1>3. CASE DmaStoreNext
    BY <1>1, <1>3, DmaStoreNextStep
  <1>4. CASE DmaSuspend
    BY <1>1, <1>4, DmaSuspendStep
  <1>5. CASE CheckOwn
    BY <1>1, <1>5, CheckOwnStep
  <1>6. CASE TakeLast
    BY <1>1, <1>6, TakeLastStep
  <1>7. CASE TakeFirst
    BY <1>1, <1>7, TakeFirstStep
  <1>8. CASE TakeMiddle
    BY <1>1, <1>8, TakeMiddleStep
  <1>9. CASE AllocOk \/ AllocFail
    BY <1>1, <1>9, AllocStep
  <1>10. CASE CopyBuffer
    BY <1>1, <1>10, CopyBufferStep
  <1>11. CASE ReleaseDesc
    BY <1>1, <1>11, ReleaseDescStep
  <1>12. CASE ReleaseDone
    BY <1>1, <1>12, ReleaseDoneStep
  <1>13. CASE CheckRbu \/ PollDemand \/ Input
    BY <1>1, <1>13, FinishStep
  <1>14. CASE UNCHANGED vars
    <2> USE <1>14 DEF vars, ring, globals, locals
    <2>1. PICK u \in 0 .. NumDesc : RingShape(u) /\ SegmentChain(u) /\ HeldFrame(u)
      BY DEF IInv
    <2>2. oldest' = oldest /\ held' = held /\ Working' = Working
      BY DEF oldest, held, Working
    <2>3. RingShape(u)' /\ SegmentChain(u)' /\ HeldFrame(u)'
      BY <2>1, <2>2, SameRing DEF HeldFrame
    <2>4. SuspensionFlagged' /\ PcInv'
      BY DEF IInv, SuspensionFlagged, PcInv
    <2> QED
      BY <1>1, <2>3, <2>4 DEF IInv
  <1> QED
    BY <1>2, <1>3, <1>4, <1>5, <1>6, <1>7, <1>8, <1>9, <1>10, <1>11, <1>12,
       <1>13, <1>14 DEF Next, Dma, Driver

(***************************************************************************)
(* The state of the ring and of the driver always fit together: IInv holds *)
(* of every reachable state.                                               *)
(***************************************************************************)
THEOREM Inductive == Spec => []IInv
  <1>1. Init => IInv
    BY InvInit
  <1>2. IInv /\ [Next]_vars => IInv'
    BY InvStep
  <1> QED
    BY <1>1, <1>2, PTL DEF Spec

LEMMA CopyOwnedLemma ==
  ASSUME IInv
  PROVE  CopyOwned
  <1>1. PICK u \in 0 .. NumDesc : RingShape(u) /\ SegmentChain(u) /\ HeldFrame(u)
    BY DEF IInv
  <1>2. TypeOK
    BY DEF IInv
  <1>3. ASSUME pc = "copy"
        PROVE  own[ptr] = "cpu"
    <2>1. /\ held = len /\ len > 0 /\ g_seg_count = len /\ oldest = rx_fs_desc
          /\ held \in 0 .. u /\ p \in Seq(Segment)
      BY <1>1, <1>2, <1>3 DEF HeldFrame, RingShape, held, oldest, TypeOK
    <2>2. Len(p) \in Nat /\ Len(p) < u /\ ptr = Plus(oldest, Len(p))
      BY <1>3, <2>1 DEF IInv, PcInv
    <2>3. oldest \in Ring /\ Len(p) \in 0 .. NumDesc - 1
      BY <1>2, <2>1, <2>2 DEF TypeOK
    <2>4. Dist(oldest, ptr) = Len(p)
      BY <2>2, <2>3, DistOfPlus
    <2> QED
      BY <1>1, <1>2, <2>2, <2>4 DEF RingShape, TypeOK
  <1>4. ASSUME pc = "release", index < g_seg_count
        PROVE  own[ptr] = "cpu"
    <2>1. oldest = ptr /\ held > 0 /\ held \in 0 .. u
      BY <1>1, <1>2, <1>4 DEF RingShape, held, oldest, TypeOK
    <2>2. Dist(ptr, ptr) = 0
      BY <1>2 DEF Dist, TypeOK, Ring
    <2> QED
      BY <1>1, <1>2, <2>1, <2>2 DEF RingShape, TypeOK
  <1> QED
    BY <1>3, <1>4 DEF CopyOwned

LEMMA CursorSyncLemma ==
  ASSUME IInv
  PROVE  CursorSync
  <1>1. PICK u \in 0 .. NumDesc : RingShape(u) /\ SegmentChain(u) /\ HeldFrame(u)
    BY DEF IInv
  <1>2. TypeOK /\ oldest \in Ring /\ held \in 0 .. u
    BY <1>1, OldestInRing DEF IInv, RingShape
  <1>3. SUFFICES ASSUME own[dma_rx_desc_to_get] = "dma"
                 PROVE  dma_rx_desc_to_get = dma_cur
    BY DEF CursorSync
  <1>4. CASE held < NumDesc
    BY <1>1, <1>2, <1>3, <1>4, CursorOwned DEF RingShape
  <1>5. CASE held = NumDesc
    BY <1>1, <1>2, <1>5 DEF RingShape
  <1> QED
    BY <1>2, <1>4, <1>5

(***************************************************************************)
(* The driver never copies out of, nor gives back, a descriptor that the   *)
(* DMA owns.                                                               *)
(***************************************************************************)
THEOREM CopyOwnedAlways == Spec => []CopyOwned
  BY Inductive, CopyOwnedLemma, PTL

(***************************************************************************)
(* The driver never waits on a descriptor other than the one that the DMA  *)
(* fills next.                                                             *)
(***************************************************************************)
THEOREM CursorSyncAlways == Spec => []CursorSync
  BY Inductive, CursorSyncLemma, PTL

(***************************************************************************)
(* A suspended DMA is flagged until the driver is about to restart it.     *)
(***************************************************************************)
THEOREM SuspensionFlaggedAlways == Spec => []SuspensionFlagged
  <1>1. IInv => SuspensionFlagged
    BY DEF IInv
  <1> QED
    BY Inductive, <1>1, PTL

-----------------------------------------------------------------------------
(***************************************************************************)
(* What the refinement of FrameFifo needs                                  *)
(***************************************************************************)
LEMMA FirstSegment ==
  ASSUME IInv, arriving.k < arriving.n
  PROVE  arriving.id >= 1
  <1>1. PICK u \in 0 .. NumDesc : RingShape(u) /\ SegmentChain(u) /\ HeldFrame(u)
    BY DEF IInv
  <1>2. arriving \in Segment /\ held \in 0 .. u
    BY <1>1 DEF IInv, TypeOK, RingShape
  <1>3. u > 0
    BY <1>1, <1>2 DEF HeldFrame, Segment
  <1> QED
    BY <1>1, <1>3 DEF SegmentChain

LEMMA ArrivedType ==
  ASSUME IInv
  PROVE  Arrived \in Nat /\ arriving.id \in Nat /\ Arrived <= arriving.id
  <1>1. /\ arriving.id \in Nat /\ arriving.k \in Nat /\ arriving.n \in Nat
    BY DEF IInv, TypeOK, Segment
  <1>2. arriving.k <= arriving.n
    BY DEF IInv, SegmentChain
  <1> QED
    BY <1>1, <1>2, FirstSegment DEF Arrived

\* The descriptors of the CPU, seen from the oldest one.
LEMMA Positions ==
  ASSUME TypeOK, NEW u \in 0 .. NumDesc, RingShape(u),
         NEW d \in Nat, d < u
  PROVE  /\ Plus(oldest, d) \in Ring
         /\ own[Plus(oldest, d)] = "cpu"
         /\ Dist(oldest, Plus(oldest, d)) = d
  <1>1. oldest \in Ring /\ d \in 0 .. NumDesc - 1
    BY OldestInRing
  <1>2. Plus(oldest, d) \in Ring /\ Dist(oldest, Plus(oldest, d)) = d
    BY <1>1, PlusInRing, DistOfPlus
  <1> QED
    BY <1>2 DEF RingShape

LEMMA TakenIs ==
  ASSUME TypeOK, NEW u \in 0 .. NumDesc, RingShape(u)
  PROVE  Taken = IF held = u THEN Arrived ELSE seg[dma_rx_desc_to_get].id - 1
  <1>1. held \in 0 .. u
    BY DEF RingShape
  <1>2. CASE held < NumDesc
    <2>1. own[dma_rx_desc_to_get] = "dma" <=> held = u
      BY <1>1, <1>2, CursorOwned DEF TypeOK
    <2> QED
      BY <1>1, <1>2, <2>1 DEF Taken
  <1>3. CASE held = NumDesc
    BY <1>1, <1>3 DEF Taken
  <1> QED
    BY <1>1, <1>2, <1>3

TakenOK ==
  TypeOK => \A u \in 0 .. NumDesc : RingShape(u) =>
    Taken = IF held = u THEN Arrived ELSE seg[dma_rx_desc_to_get].id - 1

LEMMA TakenOKHolds == TakenOK
  BY TakenIs DEF TakenOK

LEMMA TakenIsNext ==
  ASSUME TypeOK', NEW u \in 0 .. NumDesc, RingShape(u)'
  PROVE  Taken' = IF held' = u THEN Arrived'
                               ELSE seg'[dma_rx_desc_to_get'].id - 1
  <1>1. TakenOK'
    BY TakenOKHolds, PTL
  <1> QED
    BY <1>1 DEF TakenOK

(***************************************************************************)
(* The frames behind the cursor are those after the one taken last, as     *)
(* many as the CPU has descriptors for at most.                            *)
(***************************************************************************)
LEMMA Span ==
  ASSUME FifoInv, NEW u \in 0 .. NumDesc, RingShape(u), SegmentChain(u)
  PROVE  /\ Taken \in Int /\ Arrived \in Nat /\ Taken <= Arrived
         /\ Arrived - Taken <= u - held
         /\ \A id \in Taken + 1 .. Arrived :
              \E i \in Ring : own[i] = "cpu" /\ seg[i].id = id
  <1>1. /\ TypeOK /\ held \in 0 .. u /\ oldest \in Ring
        /\ dma_rx_desc_to_get = Plus(oldest, held)
    BY OldestInRing DEF FifoInv, IInv, RingShape
  <1>2. Arrived \in Nat /\ arriving.id \in Nat /\ Arrived <= arriving.id
    BY ArrivedType DEF FifoInv
  <1>3. CASE held = u
    BY <1>1, <1>2, <1>3, TakenIs
  <1>4. CASE held < u
    <2> DEFINE c == dma_rx_desc_to_get
               e == Plus(oldest, u - 1)
    <2>1. Taken = seg[c].id - 1
      BY <1>1, <1>4, TakenIs
    <2>2. c \in Ring /\ own[c] = "cpu" /\ Dist(oldest, c) = held
      BY <1>1, <1>4, Positions
    <2>3. e \in Ring /\ own[e] = "cpu" /\ Dist(oldest, e) = u - 1
      BY <1>1, <1>4, Positions
    <2>4. seg[e] = arriving
      BY <1>1, <1>4 DEF SegmentChain
    <2>5. seg[c].id \in Nat
      BY <1>1, <2>2 DEF TypeOK, Segment
    <2>6. arriving.id - seg[c].id \in 0 .. u - 1 - held
      BY <1>1, <1>4, <2>2, <2>3, <2>4 DEF FifoInv, Numbered
    <2>7. \A id \in seg[c].id .. arriving.id :
             \E i \in Ring : own[i] = "cpu" /\ seg[i].id = id
      BY <2>2 DEF FifoInv, Numbered
    <2>8. Arrived >= arriving.id - 1
      BY <1>2 DEF Arrived
    <2> HIDE DEF c, e
    <2> QED
      BY <1>1, <1>2, <1>4, <2>1, <2>5, <2>6, <2>7, <2>8
  <1> QED
    BY <1>1, <1>3, <1>4

LEMMA StoredIs ==
  ASSUME TypeOK, Numbered, NEW i \in Ring, own[i] = "cpu"
  PROVE  Stored(seg[i].id) = Whole(seg[i])
  <1> DEFINE c == CHOOSE j \in Ring : own[j] = "cpu" /\ seg[j].id = seg[i].id
  <1>1. c \in Ring /\ own[c] = "cpu" /\ seg[c].id = seg[i].id
    OBVIOUS
  <1> HIDE DEF c
  <1>2. Dist(oldest, c) \in Int /\ Dist(oldest, i) \in Int
    BY <1>1, OldestInRing, PlusOfDist
  <1>3. seg[c].n = seg[i].n
    BY <1>1, <1>2 DEF Numbered
  <1>4. Whole(seg[c]) = Whole(seg[i])
    BY <1>1, <1>3 DEF Whole, Nth
  <1> QED
    BY <1>4 DEF Stored, c

LEMMA WholeType ==
  ASSUME NEW s \in Segment
  PROVE  Whole(s) \in Seq(Segment)
  <1>1. s.id \in 0 .. MaxFrames /\ s.n \in 0 .. MaxSegs
    BY DEF Segment
  <1>2. \A j \in 1 .. s.n : Nth(s, j) \in Segment
    BY <1>1 DEF Segment, Nth
  <1> QED
    BY <1>1, <1>2 DEF Whole

-----------------------------------------------------------------------------
(***************************************************************************)
(* FifoInv is inductive                                                    *)
(***************************************************************************)
\* Whatever leaves the ring alone leaves its frames numbered.
LEMMA NumberedSame ==
  ASSUME Numbered, oldest' = oldest, UNCHANGED <<own, seg, arriving>>
  PROVE  Numbered'
  BY DEF Numbered

LEMMA StoreNumbered ==
  ASSUME FifoInv, NEW s \in Segment, Store(s), Follows(arriving, s),
         s.k \in 1 .. s.n, oldest' = oldest
  PROVE  Numbered'
  <1>1. PICK u \in 0 .. NumDesc : RingShape(u) /\ SegmentChain(u) /\ HeldFrame(u)
    BY DEF FifoInv, IInv
  <1>2. TypeOK /\ Numbered /\ oldest \in Ring
    BY OldestInRing DEF FifoInv, IInv
  <1> DEFINE c == dma_cur
  <1>3. u < NumDesc /\ c \in Ring /\ Dist(oldest, c) = u
    <2>1. u < NumDesc
      BY <1>1, <1>2, DmaHasRoom DEF Store
    <2> QED
      BY <1>1, <1>2, <2>1, DistOfPlus DEF RingShape, TypeOK
  <1>4. \A i \in Ring : Dist(oldest, i) \in Nat
    BY <1>2, PlusOfDist
  <1>5. \A i \in Ring : i /= c => own'[i] = own[i] /\ seg'[i] = seg[i]
    BY <1>2 DEF Store, TypeOK
  <1>6. own'[c] = "cpu" /\ seg'[c] = s /\ arriving' = s
    BY <1>2, <1>3 DEF Store, TypeOK
  <1>7. \A i \in Ring : own[i] = "cpu" => Dist(oldest, i) < u /\ i /= c
    BY <1>1, <1>3 DEF RingShape
  <1>8. /\ s.id - arriving.id \in 0 .. 1
        /\ s.id = arriving.id => s.n = arriving.n
        /\ s.id \in Nat /\ arriving.id \in Nat
    <2>1. s.id \in Nat /\ arriving.id \in Nat
      BY <1>2 DEF Segment, TypeOK
    <2>2. \/ s.id = arriving.id + 1
          \/ s.id = arriving.id /\ s.n = arriving.n
      BY DEF Follows
    <2> QED
      BY <2>1, <2>2
  <1> HIDE DEF c
  <1>9. ASSUME NEW i \in Ring, own[i] = "cpu"
        PROVE  /\ s.id - seg[i].id \in 0 .. u - Dist(oldest, i)
               /\ s.id = seg[i].id => s.n = seg[i].n
               /\ seg[i].id \in Nat
    <2> DEFINE e == Plus(oldest, u - 1)
    <2>1. u > 0 /\ Dist(oldest, i) <= u - 1
      BY <1>4, <1>7, <1>9
    <2>2. e \in Ring /\ own[e] = "cpu" /\ Dist(oldest, e) = u - 1
      BY <1>1, <1>2, <2>1, Positions
    <2>3. seg[e] = arriving
      BY <1>1, <2>1 DEF SegmentChain
    <2> HIDE DEF e
    <2>4. /\ arriving.id - seg[i].id \in 0 .. u - 1 - Dist(oldest, i)
          /\ seg[i].id = arriving.id => seg[i].n = arriving.n
      BY <1>2, <1>9, <2>1, <2>2, <2>3 DEF Numbered
    <2>5. seg[i].id \in Nat
      BY <1>2 DEF TypeOK, Segment
    <2> QED
      BY <1>4, <1>8, <2>1, <2>4, <2>5
  <1>10. ASSUME NEW i \in Ring, own'[i] = "cpu",
                NEW j \in Ring, own'[j] = "cpu",
                Dist(oldest, i) <= Dist(oldest, j)
         PROVE  /\ seg'[j].id - seg'[i].id
                     \in 0 .. Dist(oldest, j) - Dist(oldest, i)
                /\ seg'[i].id = seg'[j].id => seg'[i].n = seg'[j].n
    <2>1. CASE i = c
      <3>1. j = c
        BY <1>3, <1>4, <1>5, <1>7, <1>10, <2>1
      <3> QED
        BY <1>3, <1>6, <1>8, <2>1, <3>1
    <2>2. CASE i /= c /\ j = c
      BY <1>3, <1>5, <1>6, <1>9, <1>10, <2>2
    <2>3. CASE i /= c /\ j /= c
      BY <1>2, <1>5, <1>10, <2>3 DEF Numbered
    <2> QED
      BY <2>1, <2>2, <2>3
  <1>11. ASSUME NEW i \in Ring, own'[i] = "cpu",
                NEW id \in seg'[i].id .. arriving'.id
         PROVE  \E j \in Ring : /\ own'[j] = "cpu" /\ seg'[j].id = id
                                /\ Dist(oldest, i) <= Dist(oldest, j)
    <2>1. CASE id = s.id
      <3>1. Dist(oldest, i) <= Dist(oldest, c)
        BY <1>3, <1>4, <1>5, <1>7, <1>11
      <3> QED
        BY <1>3, <1>6, <2>1, <3>1
    <2>2. CASE id /= s.id
      <3>1. i /= c
        BY <1>6, <1>8, <2>2
      <3>2. own[i] = "cpu" /\ seg'[i] = seg[i]
        BY <1>5, <1>11, <3>1
      <3>3. id \in seg[i].id .. arriving.id
        BY <1>6, <1>8, <1>9, <2>2, <3>2
      <3>4. PICK j \in Ring : /\ own[j] = "cpu" /\ seg[j].id = id
                              /\ Dist(oldest, i) <= Dist(oldest, j)
        BY <1>2, <3>2, <3>3 DEF Numbered
      <3>5. own'[j] = "cpu" /\ seg'[j].id = id
        BY <1>5, <1>7, <3>4
      <3> QED
        BY <3>4, <3>5
    <2> QED
      BY <2>1, <2>2
  <1> QED
    BY <1>10, <1>11 DEF Numbered

\* Giving the oldest descriptor back leaves the others as they were.
LEMMA ReleaseNumbered ==
  ASSUME FifoInv, ReleaseDesc
  PROVE  Numbered'
  <1> USE DEF ReleaseDesc
  <1>1. TypeOK /\ Numbered /\ oldest = ptr /\ oldest' = Succ(ptr) /\ ptr \in Ring
    BY DEF FifoInv, IInv, TypeOK, oldest
  <1>2. \A i \in Ring : own'[i] = "cpu" => i /= ptr /\ own[i] = "cpu"
    BY <1>1 DEF TypeOK
  <1>3. \A i \in Ring : own[i] = "cpu" /\ i /= ptr => own'[i] = "cpu"
    BY <1>1 DEF TypeOK
  <1>4. \A i \in Ring : /\ Dist(oldest, i) \in Nat
                        /\ i /= ptr => /\ Dist(oldest', i) = Dist(oldest, i) - 1
                                       /\ Dist(oldest, i) > 0
    <2> TAKE i \in Ring
    <2>1. Dist(oldest, i) \in Nat
      BY <1>1, PlusOfDist
    <2>2. Dist(oldest, i) = 0 => i = ptr
      BY <1>1, PlusOfDist, PlusInRing
    <2>3. i /= ptr => Dist(oldest', i) = Dist(oldest, i) - 1
      BY <1>1, DistOneLess
    <2> QED
      BY <2>1, <2>2, <2>3
  <1>5. Dist(oldest, ptr) = 0
    BY <1>1 DEF Dist, Ring
  <1>6. ASSUME NEW i \in Ring, own'[i] = "cpu",
               NEW j \in Ring, own'[j] = "cpu",
               Dist(oldest', i) <= Dist(oldest', j)
        PROVE  /\ seg[j].id - seg[i].id
                    \in 0 .. Dist(oldest', j) - Dist(oldest', i)
               /\ seg[i].id = seg[j].id => seg[i].n = seg[j].n
    <2>1. own[i] = "cpu" /\ own[j] = "cpu" /\ i /= ptr /\ j /= ptr
      BY <1>2, <1>6
    <2>2. /\ Dist(oldest, i) <= Dist(oldest, j)
          /\ Dist(oldest', j) - Dist(oldest', i)
               = Dist(oldest, j) - Dist(oldest, i)
      BY <1>4, <1>6, <2>1
    <2> QED
      BY <1>1, <2>1, <2>2 DEF Numbered
  <1>7. ASSUME NEW i \in Ring, own'[i] = "cpu",
               NEW id \in seg[i].id .. arriving.id
        PROVE  \E j \in Ring : /\ own'[j] = "cpu" /\ seg[j].id = id
                               /\ Dist(oldest', i) <= Dist(oldest', j)
    <2>1. own[i] = "cpu" /\ i /= ptr
      BY <1>2, <1>7
    <2>2. PICK j \in Ring : /\ own[j] = "cpu" /\ seg[j].id = id
                            /\ Dist(oldest, i) <= Dist(oldest, j)
      BY <1>1, <1>7, <2>1 DEF Numbered
    <2>3. j /= ptr
      BY <1>4, <1>5, <2>1, <2>2
    <2> QED
      BY <1>3, <1>4, <2>1, <2>2, <2>3
  <1> QED
    BY <1>6, <1>7 DEF Numbered

(***************************************************************************)
(* Only giving a descriptor back changes which one is the oldest.          *)
(***************************************************************************)
LEMMA OldestKept ==
  ASSUME IInv, Dma \/ Driver, ~ReleaseDesc
  PROVE  oldest' = oldest
  <1> USE DEF globals, locals, oldest
  <1>1. PICK u \in 0 .. NumDesc : RingShape(u) /\ SegmentChain(u) /\ HeldFrame(u)
    BY DEF IInv
  <1>2. TypeOK /\ PcInv
    BY DEF IInv
  <1>3. CASE Dma
    BY <1>3 DEF Dma, DmaStoreFirst, DmaStoreNext, DmaSuspend
  <1>4. CASE CheckOwn \/ CheckRbu \/ PollDemand \/ Input
    BY <1>4 DEF CheckOwn, CheckRbu, PollDemand, Input
  <1>5. CASE TakeLast
    BY <1>2, <1>5 DEF TakeLast, TypeOK
  <1>6. CASE TakeMiddle
    <2>1. held > 0
      <3>1. seg[dma_rx_desc_to_get] = Nth(seg[oldest], held + 1)
        BY <1>1, <1>6, TakeFacts DEF TakeMiddle
      <3>2. held \in Nat
        BY <1>1 DEF RingShape
      <3> QED
        BY <1>6, <3>1, <3>2 DEF TakeMiddle, FS, Nth
    <2> QED
      BY <1>2, <1>6, <2>1 DEF TakeMiddle, held, TypeOK
  <1>7. CASE TakeFirst
    <2>1. held = 0
      <3>1. seg[dma_rx_desc_to_get] = Nth(seg[oldest], held + 1)
        BY <1>1, <1>7, TakeFacts DEF TakeFirst
      <3>2. held \in Nat
        BY <1>1 DEF RingShape
      <3> QED
        BY <1>7, <3>1, <3>2 DEF TakeFirst, FS, Nth
    <2> QED
      BY <1>2, <1>7, <2>1 DEF TakeFirst, held, TypeOK
  <1>8. CASE AllocOk \/ AllocFail \/ CopyBuffer
    <2>1. g_seg_count > 0 /\ pc' \in {"copy", "release"}
      BY <1>1, <1>2, <1>8
         DEF AllocOk, AllocFail, CopyBuffer, HeldFrame, held, TypeOK
    <2>2. oldest = rx_fs_desc
      BY <1>2, <1>8, <2>1 DEF AllocOk, AllocFail, CopyBuffer, TypeOK
    <2>3. pc' = "release" => ptr' = rx_fs_desc
      BY <1>8 DEF AllocOk, AllocFail, CopyBuffer
    <2>4. g_seg_count' = g_seg_count /\ rx_fs_desc' = rx_fs_desc
      BY <1>8 DEF AllocOk, AllocFail, CopyBuffer
    <2> QED
      BY <1>2, <2>1, <2>2, <2>3, <2>4 DEF TypeOK
  <1>9. CASE ReleaseDone
    <2>1. held = 0
      BY <1>2, <1>9 DEF ReleaseDone, held, PcInv, TypeOK
    <2>2. dma_rx_desc_to_get = oldest
      BY <1>1, <1>2, <2>1, PlusInRing, OldestInRing DEF RingShape
    <2> QED
      BY <1>9, <2>2 DEF ReleaseDone
  <1> QED
    BY <1>3, <1>4, <1>5, <1>6, <1>7, <1>8, <1>9 DEF Driver

LEMMA NumberedStep ==
  ASSUME FifoInv, TypeOK', Dma \/ Driver
  PROVE  Numbered'
  <1>1. CASE DmaStoreFirst
    <2>1. PICK n \in 1 .. MaxSegs : Store([id |-> arriving.id + 1, k |-> 1, n |-> n])
      BY <1>1 DEF DmaStoreFirst
    <2> DEFINE s == [id |-> arriving.id + 1, k |-> 1, n |-> n]
    <2>2. s.k \in 1 .. s.n /\ Follows(arriving, s)
      BY <1>1 DEF DmaStoreFirst, Follows
    <2>3. s \in Segment
      BY <2>1 DEF Store, TypeOK
    <2>4. oldest' = oldest
      BY <1>1, OldestKept DEF Dma, FifoInv, DmaStoreFirst, ReleaseDesc, locals, globals, oldest
    <2> HIDE DEF s
    <2>5. Store(s)
      BY <2>1 DEF s
    <2> QED
      BY <2>2, <2>3, <2>4, <2>5, StoreNumbered
  <1>2. CASE DmaStoreNext
    <2> DEFINE s == Nth(arriving, arriving.k + 1)
    <2>1. Store(s)
      BY <1>2 DEF DmaStoreNext
    <2>2. arriving \in Segment /\ arriving.k < arriving.n
      BY <1>2 DEF DmaStoreNext, FifoInv, IInv, TypeOK
    <2>3. s.k \in 1 .. s.n /\ Follows(arriving, s)
      BY <2>2 DEF Follows, Nth, Segment
    <2>4. s \in Segment
      BY <2>2, NthType
    <2>5. oldest' = oldest
      BY <1>2 DEF DmaStoreNext, locals, globals, oldest
    <2> HIDE DEF s
    <2> QED
      BY <2>1, <2>3, <2>4, <2>5, StoreNumbered
  <1>3. CASE ReleaseDesc
    BY <1>3, ReleaseNumbered
  <1>4. CASE DmaSuspend \/ (Driver /\ ~ReleaseDesc)
    <2>1. UNCHANGED <<own, seg, arriving>>
      BY <1>4 DEF DmaSuspend, Driver, CheckOwn, TakeLast, TakeFirst, TakeMiddle,
                  AllocOk, AllocFail, CopyBuffer, ReleaseDone, CheckRbu,
                  PollDemand, Input, ring
    <2>2. oldest' = oldest
      <3>1. CASE DmaSuspend
        BY <3>1 DEF DmaSuspend, locals, globals, oldest
      <3>2. CASE Driver /\ ~ReleaseDesc
        BY <3>2, OldestKept DEF FifoInv
      <3> QED
        BY <1>4, <3>1, <3>2
    <2> QED
      BY <2>1, <2>2, NumberedSame DEF FifoInv
  <1> QED
    BY <1>1, <1>2, <1>3, <1>4 DEF Dma

LEMMA CopiedStep ==
  ASSUME FifoInv, TypeOK', Dma \/ Driver
  PROVE  Copied'
  <1>1. PICK u \in 0 .. NumDesc : RingShape(u) /\ SegmentChain(u) /\ HeldFrame(u)
    BY DEF FifoInv, IInv
  <1>2. TypeOK /\ PcInv /\ Copied
    BY DEF FifoInv, IInv
  <1>3. SUFFICES ASSUME pc' = "copy"
                 PROVE  \A j \in 1 .. Len(p') : p'[j] = Nth(seg'[rx_fs_desc'], j)
    BY DEF Copied
  <1>4. CASE AllocOk
    <2>1. p' = << >>
      BY <1>2, <1>4 DEF AllocOk, PcInv, locals
    <2> QED
      BY <2>1
  <1>5. CASE CopyBuffer
    <2>1. /\ held = len /\ oldest = rx_fs_desc /\ len \in Nat
          /\ Len(p) \in Nat /\ Len(p) < len /\ ptr = Plus(rx_fs_desc, Len(p))
          /\ p \in Seq(Segment) /\ pc = "copy"
      BY <1>1, <1>2, <1>5 DEF CopyBuffer, HeldFrame, PcInv, held, oldest, TypeOK
    <2>2. seg[ptr] = Nth(seg[rx_fs_desc], Len(p) + 1)
      BY <1>1, <2>1 DEF HeldFrame
    <2>3. p' = Append(p, seg[ptr]) /\ UNCHANGED <<seg, rx_fs_desc>>
      BY <1>5 DEF CopyBuffer, ring, globals
    <2>4. \A j \in 1 .. Len(p) : p[j] = Nth(seg[rx_fs_desc], j)
      BY <1>2, <2>1 DEF Copied
    <2>5. ASSUME NEW j \in 1 .. Len(p) + 1
          PROVE  p'[j] = Nth(seg[rx_fs_desc], j)
      BY <2>1, <2>2, <2>3, <2>4
    <2> QED
      BY <2>1, <2>3, <2>5
  <1>6. CASE Dma
    <2>1. pc = "copy" /\ p' = p /\ rx_fs_desc' = rx_fs_desc
      BY <1>3, <1>6 DEF Dma, DmaStoreFirst, DmaStoreNext, DmaSuspend, locals, globals
    <2>2. /\ oldest = rx_fs_desc /\ held \in 1 .. u /\ rx_fs_desc \in Ring
      BY <1>1, <1>2, <2>1 DEF HeldFrame, RingShape, held, oldest, TypeOK
    <2>3. own[rx_fs_desc] = "cpu"
      <3>1. Dist(rx_fs_desc, rx_fs_desc) = 0
        BY <2>2 DEF Dist, Ring
      <3> QED
        BY <1>1, <2>2, <3>1 DEF RingShape
    <2>4. seg'[rx_fs_desc] = seg[rx_fs_desc]
      BY <1>2, <1>6, <2>2, <2>3
         DEF Dma, DmaStoreFirst, DmaStoreNext, DmaSuspend, Store, TypeOK
    <2> QED
      BY <1>2, <2>1, <2>4 DEF Copied
  <1> QED
    BY <1>3, <1>4, <1>5, <1>6
       DEF Driver, CheckOwn, TakeLast, TakeFirst, TakeMiddle, AllocFail,
           ReleaseDesc, ReleaseDone, CheckRbu, PollDemand, Input, locals

LEMMA InitFifoInv == Init => FifoInv
  <1> SUFFICES ASSUME Init PROVE FifoInv
    OBVIOUS
  <1>1. Numbered /\ Copied
    BY DEF Init, Numbered, Copied
  <1> QED
    BY <1>1, InvInit DEF FifoInv

LEMMA NextFifoInv == FifoInv /\ [Next]_vars => FifoInv'
  <1> SUFFICES ASSUME FifoInv, [Next]_vars
               PROVE  FifoInv'
    OBVIOUS
  <1>1. IInv' /\ TypeOK'
    BY InvStep DEF FifoInv, IInv
  <1>2. CASE Dma \/ Driver
    BY <1>1, <1>2, NumberedStep, CopiedStep DEF FifoInv
  <1>3. CASE UNCHANGED vars
    BY <1>1, <1>3 DEF vars, ring, globals, locals, FifoInv, Numbered, Copied, oldest
  <1> QED
    BY <1>2, <1>3 DEF Next

(***************************************************************************)
(* The frames in the ring are numbered without a gap, and the copy in hand *)
(* is the beginning of the frame held: FifoInv holds of every reachable    *)
(* state.                                                                  *)
(***************************************************************************)
THEOREM FifoInductive == Spec => []FifoInv
  BY InitFifoInv, NextFifoInv, PTL DEF Spec

-----------------------------------------------------------------------------
(***************************************************************************)
(* The frames behind the cursor                                            *)
(***************************************************************************)
Frames == Seq(Segment)

\* Behind, told without its CHOOSE.
View ==
  /\ Taken \in Int /\ Arrived \in Nat /\ Arrived - Taken \in Nat
  /\ Behind \in Seq(Frames)
  /\ Len(Behind) = Arrived - Taken
  /\ \A j \in 1 .. Len(Behind) :
        /\ \E i \in Ring : own[i] = "cpu" /\ seg[i].id = Taken + j
        /\ \A i \in Ring : own[i] = "cpu" /\ seg[i].id = Taken + j =>
              Behind[j] = Whole(seg[i])

LEMMA ViewLemma == FifoInv => View
  <1> SUFFICES ASSUME FifoInv
               PROVE  View
    OBVIOUS
  <1>1. PICK u \in 0 .. NumDesc : RingShape(u) /\ SegmentChain(u) /\ HeldFrame(u)
    BY DEF FifoInv, IInv
  <1>2. TypeOK /\ Numbered
    BY DEF FifoInv, IInv
  <1>3. /\ Taken \in Int /\ Arrived \in Nat /\ Taken <= Arrived
        /\ \A id \in Taken + 1 .. Arrived :
              \E i \in Ring : own[i] = "cpu" /\ seg[i].id = id
    BY <1>1, Span
  <1> DEFINE m == Arrived - Taken
  <1>4. m \in Nat
    BY <1>3
  <1>5. ASSUME NEW j \in 1 .. m
        PROVE  /\ \E i \in Ring : own[i] = "cpu" /\ seg[i].id = Taken + j
               /\ Stored(Taken + j) \in Frames
               /\ \A i \in Ring : own[i] = "cpu" /\ seg[i].id = Taken + j =>
                     Stored(Taken + j) = Whole(seg[i])
    <2>1. Taken + j \in Taken + 1 .. Arrived
      BY <1>3, <1>4
    <2>2. PICK i \in Ring : own[i] = "cpu" /\ seg[i].id = Taken + j
      BY <1>3, <2>1
    <2>3. \A k \in Ring : own[k] = "cpu" /\ seg[k].id = Taken + j =>
             Stored(Taken + j) = Whole(seg[k])
      BY <1>2, StoredIs
    <2>4. Whole(seg[i]) \in Frames
      BY <1>2, <2>2, WholeType DEF TypeOK, Frames
    <2> QED
      BY <2>2, <2>3, <2>4
  <1>6. Behind = [j \in 1 .. m |-> Stored(Taken + j)]
    BY DEF Behind
  <1> HIDE DEF m
  <1>7. Behind \in Seq(Frames) /\ Len(Behind) = m
    BY <1>4, <1>5, <1>6
  <1>8. \A j \in 1 .. m : Behind[j] = Stored(Taken + j)
    BY <1>6
  <1> QED
    BY <1>3, <1>4, <1>5, <1>7, <1>8 DEF View, m

LEMMA ViewNext == FifoInv' => View'
  BY ViewLemma, PTL

\* What View' says of one frame.
LEMMA ViewNextAt ==
  ASSUME View', NEW j \in 1 .. Len(Behind')
  PROVE  /\ \E i \in Ring : own'[i] = "cpu" /\ seg'[i].id = Taken' + j
         /\ \A i \in Ring : own'[i] = "cpu" /\ seg'[i].id = Taken' + j =>
               Behind'[j] = Whole(seg'[i])
  BY DEF View, Whole

(***************************************************************************)
(* The descriptors of the frames behind the cursor stay as they are.       *)
(***************************************************************************)
Kept ==
  \A i \in Ring : \A j \in 1 .. Len(Behind) :
     own'[i] = "cpu" /\ seg'[i].id = Taken + j => own[i] = "cpu" /\ seg'[i] = seg[i]

LEMMA SameFrames ==
  ASSUME View, View', Kept, Taken' = Taken,
         NEW j \in 1 .. Len(Behind), j \in 1 .. Len(Behind')
  PROVE  Behind'[j] = Behind[j]
  <1>1. PICK i \in Ring : own'[i] = "cpu" /\ seg'[i].id = Taken + j
    BY ViewNextAt
  <1>2. own[i] = "cpu" /\ seg'[i] = seg[i]
    BY <1>1 DEF Kept
  <1>3. Behind[j] = Whole(seg[i])
    BY <1>1, <1>2 DEF View
  <1>4. Behind'[j] = Whole(seg'[i])
    BY <1>1, ViewNextAt
  <1> QED
    BY <1>2, <1>3, <1>4

LEMMA BehindKept ==
  ASSUME View, View', Kept, Taken' = Taken, Arrived' = Arrived
  PROVE  Behind' = Behind
  <1>1. /\ Behind \in Seq(Frames) /\ Behind' \in Seq(Frames)
        /\ Len(Behind) = Len(Behind')
    BY DEF View
  <1>2. \A j \in 1 .. Len(Behind) : Behind'[j] = Behind[j]
    BY <1>1, SameFrames
  <1> QED
    BY <1>1, <1>2, SeqEqual

\* A frame that is complete comes last.
LEMMA BehindGrows ==
  ASSUME View, View', Kept, Taken' = Taken, Arrived' = Arrived + 1,
         NEW c \in Ring, own'[c] = "cpu", seg'[c].id = Arrived + 1
  PROVE  Behind' = Append(Behind, Whole(seg'[c])) /\ Whole(seg'[c]) \in Frames
  <1> DEFINE x == Whole(seg'[c])
             n == Len(Behind)
  <1>1. /\ Behind \in Seq(Frames) /\ Behind' \in Seq(Frames)
        /\ n \in Nat /\ Len(Behind') = n + 1 /\ Arrived + 1 = Taken + (n + 1)
    <2>1. /\ Behind \in Seq(Frames) /\ Behind' \in Seq(Frames)
          /\ n = Arrived - Taken /\ Len(Behind') = Arrived + 1 - Taken
          /\ n \in Nat /\ Taken \in Int /\ Arrived \in Nat
      BY DEF View
    <2> QED
      BY <2>1
  <1>2. n + 1 \in 1 .. Len(Behind') /\ 1 .. n \subseteq 1 .. Len(Behind')
    BY <1>1
  <1>3. Behind'[n + 1] = x
    BY <1>1, <1>2, ViewNextAt
  <1>4. x \in Frames
    BY <1>1, <1>2, <1>3, ElementOfSeq
  <1>5. \A j \in 1 .. n : Behind'[j] = Behind[j]
    BY <1>2, SameFrames
  <1> HIDE DEF x, n
  <1>6. /\ Append(Behind, x) \in Seq(Frames)
        /\ Len(Append(Behind, x)) = n + 1
        /\ \A j \in 1 .. n : Append(Behind, x)[j] = Behind[j]
        /\ Append(Behind, x)[n + 1] = x
    BY <1>1, <1>4, AppendProperties DEF n
  <1>7. \A j \in 1 .. n + 1 : Behind'[j] = Append(Behind, x)[j]
    <2> TAKE j \in 1 .. n + 1
    <2>1. j = n + 1 \/ j \in 1 .. n
      BY <1>1
    <2> QED
      BY <1>3, <1>5, <1>6, <2>1
  <1>8. Behind' = Append(Behind, x)
    BY <1>1, <1>6, <1>7, SeqEqual
  <1> QED
    BY <1>4, <1>8 DEF x

\* A frame whose last descriptor is taken was the first.
LEMMA BehindShrinks ==
  ASSUME View, View', Taken' = Taken + 1, Arrived' = Arrived,
         UNCHANGED <<own, seg>>,
         NEW c \in Ring, own[c] = "cpu", seg[c].id = Taken + 1
  PROVE  Behind = <<Whole(seg[c])>> \o Behind'
  <1> DEFINE x == <<Whole(seg[c])>>
             n == Len(Behind')
  <1>1. /\ Behind \in Seq(Frames) /\ Behind' \in Seq(Frames)
        /\ n \in Nat /\ Len(Behind) = 1 + n /\ Taken \in Int
    <2>1. /\ Behind \in Seq(Frames) /\ Behind' \in Seq(Frames)
          /\ Len(Behind) = Arrived - Taken /\ n = Arrived - (Taken + 1)
          /\ n \in Nat /\ Taken \in Int /\ Arrived \in Nat
      BY DEF View
    <2> QED
      BY <2>1
  <1>2. 1 \in 1 .. Len(Behind)
    BY <1>1
  <1>3. Behind[1] = Whole(seg[c])
    BY <1>2 DEF View
  <1>4. x \in Seq(Frames) /\ Len(x) = 1 /\ x[1] = Behind[1]
    <2>1. Behind[1] \in Frames
      BY <1>1, <1>2, ElementOfSeq
    <2> QED
      BY <1>3, <2>1
  <1>5. ASSUME NEW j \in 1 .. n
        PROVE  Behind'[j] = Behind[1 + j]
    <2>1. 1 + j \in 1 .. Len(Behind) /\ (Taken + 1) + j = Taken + (1 + j)
      BY <1>1
    <2>2. PICK i \in Ring : own[i] = "cpu" /\ seg[i].id = Taken + (1 + j)
      BY <2>1 DEF View
    <2>3. Behind[1 + j] = Whole(seg[i])
      BY <2>1, <2>2 DEF View
    <2>4. Behind'[j] = Whole(seg'[i])
      BY <2>1, <2>2, ViewNextAt
    <2> QED
      BY <2>3, <2>4
  <1> HIDE DEF x, n
  <1>6. /\ x \o Behind' \in Seq(Frames)
        /\ Len(x \o Behind') = 1 + n
        /\ \A j \in 1 .. 1 + n :
              (x \o Behind')[j] = IF j <= 1 THEN x[j] ELSE Behind'[j - 1]
    <2>1. Len(x) = 1 /\ Len(Behind') = n
      BY <1>4 DEF n
    <2>2. /\ x \o Behind' \in Seq(Frames)
          /\ Len(x \o Behind') = Len(x) + Len(Behind')
          /\ \A j \in 1 .. Len(x) + Len(Behind') :
                (x \o Behind')[j] = IF j <= Len(x) THEN x[j]
                                                  ELSE Behind'[j - Len(x)]
      BY <1>1, <1>4, ConcatProperties
    <2> QED
      BY <2>1, <2>2
  <1>7. ASSUME NEW j \in 1 .. 1 + n
        PROVE  Behind[j] = (x \o Behind')[j]
    <2>1. (x \o Behind')[j] = IF j <= 1 THEN x[j] ELSE Behind'[j - 1]
      BY <1>6
    <2>2. CASE j = 1
      BY <1>4, <2>1, <2>2
    <2>3. CASE j > 1
      <3>1. j - 1 \in 1 .. n /\ 1 + (j - 1) = j /\ ~(j <= 1)
        BY <1>1, <2>3
      <3>2. Behind'[j - 1] = Behind[1 + (j - 1)]
        BY <1>5, <3>1
      <3> QED
        BY <2>1, <3>1, <3>2
    <2>4. j = 1 \/ j > 1
      BY <1>1
    <2> QED
      BY <2>2, <2>3, <2>4
  <1> QED
    BY <1>1, <1>6, <1>7, SeqEqual DEF x

-----------------------------------------------------------------------------
(***************************************************************************)
(* The steps, seen through Behind                                          *)
(***************************************************************************)
\* While the driver has a frame in hand its first descriptor is the oldest.
LEMMA FrameInHand ==
  ASSUME IInv, pc \in {"alloc", "copy"}
  PROVE  /\ rx_fs_desc \in Ring /\ oldest = rx_fs_desc
         /\ own[rx_fs_desc] = "cpu"
         /\ len \in Nat /\ seg[rx_fs_desc].n = len
         /\ \A d \in 0 .. len - 1 :
               seg[Plus(rx_fs_desc, d)] = Nth(seg[rx_fs_desc], d + 1)
  <1>1. PICK u \in 0 .. NumDesc : RingShape(u) /\ SegmentChain(u) /\ HeldFrame(u)
    BY DEF IInv
  <1>2. TypeOK
    BY DEF IInv
  <1>3. oldest = rx_fs_desc /\ held \in 1 .. u /\ rx_fs_desc \in Ring /\ held = len
    BY <1>1, <1>2 DEF HeldFrame, RingShape, held, oldest, TypeOK
  <1>4. Dist(rx_fs_desc, rx_fs_desc) = 0
    BY <1>3 DEF Dist, Ring
  <1>5. own[rx_fs_desc] = "cpu"
    BY <1>1, <1>3, <1>4 DEF RingShape
  <1> QED
    BY <1>1, <1>2, <1>3, <1>5 DEF HeldFrame, TypeOK

HandIsOldest == pc \in {"alloc", "copy"} => oldest = rx_fs_desc

LEMMA FrameInHandNext == IInv' => HandIsOldest'
  <1>1. IInv => HandIsOldest
    BY FrameInHand DEF HandIsOldest
  <1> QED
    BY <1>1, PTL

\* When the driver takes a descriptor in the middle of a frame, or its first.
LEMMA TakeKeeps ==
  ASSUME FifoInv, FifoInv', TakeFirst \/ TakeMiddle
  PROVE  Taken' = Taken /\ Arrived' = Arrived
  <1>1. PICK u \in 0 .. NumDesc : RingShape(u) /\ SegmentChain(u) /\ HeldFrame(u)
    BY DEF FifoInv, IInv
  <1>2. /\ TypeOK /\ IInv /\ TypeOK' /\ pc = "take" /\ UNCHANGED ring
        /\ dma_rx_desc_to_get' = Succ(dma_rx_desc_to_get)
        /\ ~LS(seg[dma_rx_desc_to_get])
        /\ g_seg_count' = g_seg_count + 1 \/ TakeFirst
        /\ pc' = "idle"
    BY DEF FifoInv, IInv, TakeFirst, TakeMiddle
  <1> DEFINE c == dma_rx_desc_to_get
  <1>3. /\ oldest \in Ring /\ held = g_seg_count /\ held \in 0 .. u - 1
        /\ c = Plus(oldest, held) /\ seg[c] \in Segment
        /\ seg[c] = Nth(seg[oldest], held + 1)
    BY <1>1, <1>2, TakeFacts
  <1>4. oldest' = oldest
    BY <1>2, OldestKept DEF Driver, ReleaseDesc
  <1>5. held' = held + 1
    <2>1. CASE TakeMiddle
      BY <1>3, <2>1 DEF TakeMiddle, held
    <2>2. CASE TakeFirst
      BY <1>3, <2>2 DEF TakeFirst, held, FS, Nth
    <2> QED
      BY <2>1, <2>2
  <1>6. RingShape(u)' /\ SegmentChain(u)'
    BY <1>1, <1>2, <1>4, <1>5, TakeShape
  <1>7. Arrived' = Arrived
    BY <1>2 DEF Arrived, ring
  <1>8. Taken = seg[c].id - 1
    BY <1>1, <1>2, <1>3, TakenIs
  <1>9. c' = Plus(oldest, held + 1)
    BY <1>2, <1>3, PlusOneMore
  <1>10. seg[c].k /= seg[c].n \/ seg[c].n = 0
    BY <1>2, <1>3 DEF LS, Segment
  <1>11. seg[c].k \in 1 .. seg[c].n
    BY <1>1, <1>3 DEF SegmentChain
  <1>12. CASE u = held + 1
    <2>1. Taken' = Arrived'
      BY <1>2, <1>5, <1>6, <1>12, TakenIsNext
    <2>2. arriving = seg[c]
      BY <1>1, <1>3, <1>12 DEF SegmentChain
    <2> QED
      BY <1>7, <1>8, <1>10, <1>11, <2>1, <2>2 DEF Arrived
  <1>13. CASE u > held + 1
    <2>1. Taken' = seg'[c'].id - 1
      BY <1>2, <1>3, <1>5, <1>6, <1>13, TakenIsNext
    <2>2. Follows(seg[c], seg[Plus(oldest, held + 1)])
      BY <1>1, <1>3, <1>13 DEF SegmentChain
    <2>3. seg[Plus(oldest, held + 1)].id = seg[c].id
      BY <1>10, <1>11, <2>2 DEF Follows
    <2> QED
      BY <1>2, <1>7, <1>8, <1>9, <2>1, <2>3 DEF ring
  <1> QED
    BY <1>3, <1>12, <1>13

\* When it takes the last one.
LEMMA TakeLastView ==
  ASSUME FifoInv, FifoInv', TakeLast
  PROVE  /\ Taken' = Taken + 1 /\ Arrived' = Arrived
         /\ dma_rx_desc_to_get \in Ring /\ own[dma_rx_desc_to_get] = "cpu"
         /\ seg[dma_rx_desc_to_get].id = Taken + 1
         /\ Whole(seg[dma_rx_desc_to_get]) = Whole(seg[rx_fs_desc'])
  <1>1. PICK u \in 0 .. NumDesc : RingShape(u) /\ SegmentChain(u) /\ HeldFrame(u)
    BY DEF FifoInv, IInv
  <1>2. /\ TypeOK /\ IInv /\ TypeOK' /\ IInv' /\ pc = "take" /\ pc' = "alloc"
        /\ UNCHANGED ring
        /\ dma_rx_desc_to_get' = Succ(dma_rx_desc_to_get)
        /\ LS(seg[dma_rx_desc_to_get])
        /\ g_seg_count' = g_seg_count + 1
    BY DEF FifoInv, IInv, TakeLast
  <1> DEFINE c == dma_rx_desc_to_get
  <1>3. /\ oldest \in Ring /\ held = g_seg_count /\ held \in 0 .. u - 1
        /\ c = Plus(oldest, held) /\ seg[c] \in Segment
        /\ seg[c] = Nth(seg[oldest], held + 1)
    BY <1>1, <1>2, TakeFacts
  <1>4. oldest' = oldest
    BY <1>2, OldestKept DEF Driver, ReleaseDesc
  <1>5. held' = held + 1
    BY <1>2, <1>3 DEF held
  <1>6. RingShape(u)' /\ SegmentChain(u)'
    BY <1>1, <1>2, <1>4, <1>5, TakeShape
  <1>7. Arrived' = Arrived
    BY <1>2 DEF Arrived, ring
  <1>8. Taken = seg[c].id - 1
    BY <1>1, <1>2, <1>3, TakenIs
  <1>9. c' = Plus(oldest, held + 1)
    BY <1>2, <1>3, PlusOneMore
  <1>10. seg[c].k = seg[c].n
    BY <1>2 DEF LS
  <1>11. Taken' = seg[c].id
    <2>1. CASE u = held + 1
      <3>1. Taken' = Arrived'
        BY <1>2, <1>5, <1>6, <2>1, TakenIsNext
      <3>2. arriving = seg[c]
        BY <1>1, <1>3, <2>1 DEF SegmentChain
      <3> QED
        BY <1>7, <1>10, <3>1, <3>2 DEF Arrived
    <2>2. CASE u > held + 1
      <3>1. Taken' = seg'[c'].id - 1
        BY <1>2, <1>3, <1>5, <1>6, <2>2, TakenIsNext
      <3>2. Follows(seg[c], seg[Plus(oldest, held + 1)])
        BY <1>1, <1>3, <2>2 DEF SegmentChain
      <3>3. seg[Plus(oldest, held + 1)].id = seg[c].id + 1
        BY <1>10, <3>2 DEF Follows
      <3>4. seg[c].id \in Int
        BY <1>3 DEF Segment
      <3> QED
        BY <1>2, <1>9, <3>1, <3>3, <3>4 DEF ring
    <2> QED
      BY <1>3, <2>1, <2>2
  <1>12. own[c] = "cpu" /\ c \in Ring
    BY <1>1, <1>2, <1>3, Positions
  <1>13. rx_fs_desc' = oldest
    <2>1. oldest' = rx_fs_desc'
      BY <1>2, FrameInHandNext DEF HandIsOldest
    <2> QED
      BY <1>4, <2>1
  <1>14. Whole(seg[c]) = Whole(seg[oldest])
    BY <1>3 DEF Whole, Nth
  <1>15. seg[c].id \in Int
    BY <1>3 DEF Segment
  <1> QED
    BY <1>7, <1>8, <1>11, <1>12, <1>13, <1>14, <1>15

LEMMA ReleaseKeeps ==
  ASSUME FifoInv, ReleaseDesc
  PROVE  Taken' = Taken /\ Arrived' = Arrived
  <1> USE DEF ReleaseDesc, globals
  <1>1. PICK u \in 0 .. NumDesc : RingShape(u) /\ SegmentChain(u) /\ HeldFrame(u)
    BY DEF FifoInv, IInv
  <1>2. /\ TypeOK /\ oldest = ptr /\ ptr \in Ring
        /\ held = g_seg_count - index /\ held' = held - 1
        /\ held \in 1 .. u /\ dma_rx_desc_to_get = Plus(ptr, held)
    BY <1>1 DEF FifoInv, IInv, TypeOK, oldest, held, RingShape
  <1>3. Arrived' = Arrived
    BY DEF Arrived
  <1>4. CASE held = NumDesc
    <2>1. dma_rx_desc_to_get = ptr
      BY <1>2, <1>4, PlusInRing
    <2>2. own'[dma_rx_desc_to_get'] = "dma"
      BY <1>2, <2>1 DEF TypeOK
    <2> QED
      BY <1>3, <1>4, <2>2 DEF Taken
  <1>5. CASE held < NumDesc
    <2>1. dma_rx_desc_to_get /= ptr
      <3>1. Dist(ptr, dma_rx_desc_to_get) = held
        BY <1>2, <1>5, DistOfPlus
      <3>2. Dist(ptr, ptr) = 0
        BY <1>2 DEF Dist, Ring
      <3> QED
        BY <1>2, <3>1, <3>2
    <2>2. own'[dma_rx_desc_to_get] = own[dma_rx_desc_to_get]
      BY <1>2, <2>1 DEF TypeOK
    <2>3. held /= NumDesc /\ held' /= NumDesc
      BY <1>2, <1>5
    <2> QED
      BY <1>3, <2>2, <2>3 DEF Taken
  <1> QED
    BY <1>2, <1>4, <1>5

LEMMA StoreView ==
  ASSUME FifoInv, FifoInv', NEW s \in Segment, Store(s), Follows(arriving, s),
         s.k \in 1 .. s.n, s.id >= 1, UNCHANGED <<globals, locals>>
  PROVE  /\ Taken' = Taken /\ Arrived = s.id - 1
         /\ Arrived' = IF s.k = s.n THEN s.id ELSE s.id - 1
         /\ dma_cur \in Ring /\ own'[dma_cur] = "cpu" /\ seg'[dma_cur] = s
         /\ \A i \in Ring : i /= dma_cur => own'[i] = own[i] /\ seg'[i] = seg[i]
         /\ own[dma_cur] = "dma"
         /\ Arrived - Taken < NumDesc
  <1> USE DEF globals, locals
  <1>1. PICK u \in 0 .. NumDesc : RingShape(u) /\ SegmentChain(u) /\ HeldFrame(u)
    BY DEF FifoInv, IInv
  <1>2. TypeOK /\ TypeOK' /\ held \in 0 .. u /\ dma_rx_desc_to_get = Plus(oldest, held)
    BY <1>1 DEF FifoInv, IInv, RingShape
  <1>3. oldest' = oldest /\ held' = held
    BY DEF oldest, held
  <1>4. /\ u + 1 \in 0 .. NumDesc
        /\ RingShape(u + 1)'
        /\ \A d \in 0 .. u - 1 : seg'[Plus(oldest, d)] = seg[Plus(oldest, d)]
        /\ seg'[Plus(oldest, u)] = s
    <2>1. u > 0 => Follows(arriving, s)
      OBVIOUS
    <2>2. UNCHANGED dma_rx_desc_to_get
      OBVIOUS
    <2> QED
      BY <1>1, <1>2, <1>3, <2>1, <2>2, StoreStep
  <1>5. Taken' = seg'[dma_rx_desc_to_get].id - 1
    BY <1>2, <1>3, <1>4, TakenIsNext
  <1>6. Arrived' = IF s.k = s.n THEN s.id ELSE s.id - 1
    BY DEF Store, Arrived
  <1>7. Arrived = s.id - 1
    <2>1. arriving.id \in Int
      BY <1>2 DEF TypeOK, Segment
    <2> QED
      BY <2>1 DEF Follows, Arrived
  <1>8. Taken' = Taken
    <2>1. CASE held = u
      BY <1>1, <1>2, <1>4, <1>5, <1>7, <2>1, TakenIs
    <2>2. CASE held < u
      BY <1>1, <1>2, <1>4, <1>5, <2>2, TakenIs
    <2> QED
      BY <1>2, <2>1, <2>2
  <1>9. /\ dma_cur \in Ring /\ own'[dma_cur] = "cpu" /\ seg'[dma_cur] = s
        /\ \A i \in Ring : i /= dma_cur => own'[i] = own[i] /\ seg'[i] = seg[i]
        /\ own[dma_cur] = "dma"
    BY <1>2 DEF Store, TypeOK
  <1>10. Arrived - Taken < NumDesc
    <2>1. Taken \in Int /\ Arrived \in Nat /\ Arrived - Taken <= u - held
      BY <1>1, Span
    <2> QED
      BY <1>2, <1>4, <2>1
  <1> QED
    BY <1>6, <1>7, <1>8, <1>9, <1>10

LEMMA InHandType ==
  ASSUME TypeOK
  PROVE  InHand \in Seq(Frames) /\ Len(InHand) <= 1 /\ Len(InHand) \in Nat
  <1>1. seg[rx_fs_desc] \in Segment /\ p \in Frames
    BY DEF TypeOK, Frames
  <1>2. Whole(seg[rx_fs_desc]) \in Frames
    BY <1>1, WholeType DEF Frames
  <1> QED
    BY <1>1, <1>2 DEF InHand

\* Steps that neither store a segment nor take a descriptor.
LEMMA OtherKeep ==
  ASSUME FifoInv, DmaSuspend \/ CheckOwn \/ AllocOk \/ AllocFail \/ CopyBuffer
                  \/ ReleaseDone \/ CheckRbu \/ PollDemand \/ Input
  PROVE  Taken' = Taken /\ Arrived' = Arrived /\ UNCHANGED <<own, seg>>
  <1>1. UNCHANGED <<own, seg, arriving, dma_rx_desc_to_get>>
    BY DEF DmaSuspend, CheckOwn, AllocOk, AllocFail, CopyBuffer, ReleaseDone,
           CheckRbu, PollDemand, Input, ring, globals
  <1>2. held' = held
    <2>1. g_seg_count \in Nat /\ index \in Nat /\ PcInv
      BY DEF FifoInv, IInv, TypeOK
    <2> QED
      BY <2>1 DEF DmaSuspend, CheckOwn, AllocOk, AllocFail, CopyBuffer,
           ReleaseDone, CheckRbu, PollDemand, Input, globals, locals, held, PcInv
  <1> QED
    BY <1>1, <1>2 DEF Taken, Arrived

LEMMA BehindKeeps ==
  ASSUME FifoInv, FifoInv',
         DmaSuspend \/ (Driver /\ ~TakeLast)
  PROVE  Behind' = Behind /\ Arrived' = Arrived
  <1>1. View /\ View'
    BY ViewLemma, ViewNext
  <1>2. CASE TakeFirst \/ TakeMiddle
    <2>1. Taken' = Taken /\ Arrived' = Arrived
      BY <1>2, TakeKeeps
    <2>2. Kept
      BY <1>2 DEF TakeFirst, TakeMiddle, ring, Kept
    <2> QED
      BY <1>1, <2>1, <2>2, BehindKept
  <1>3. CASE ReleaseDesc
    <2>1. Taken' = Taken /\ Arrived' = Arrived
      BY <1>3, ReleaseKeeps
    <2>2. Kept
      BY <1>3 DEF ReleaseDesc, FifoInv, IInv, TypeOK, Kept
    <2> QED
      BY <1>1, <2>1, <2>2, BehindKept
  <1>4. CASE DmaSuspend \/ CheckOwn \/ AllocOk \/ AllocFail \/ CopyBuffer
             \/ ReleaseDone \/ CheckRbu \/ PollDemand \/ Input
    <2>1. Taken' = Taken /\ Arrived' = Arrived /\ UNCHANGED <<own, seg>>
      BY <1>4, OtherKeep
    <2>2. Kept
      BY <2>1 DEF Kept
    <2> QED
      BY <1>1, <2>1, <2>2, BehindKept
  <1> QED
    BY <1>2, <1>3, <1>4 DEF Driver

\* The frame in hand stays until it is copied, dropped or given to the stack.
LEMMA InHandKept ==
  ASSUME FifoInv, FifoInv', ~TakeLast, ~AllocFail, ~Input, Dma \/ Driver
  PROVE  InHand' = InHand
  <1>1. IInv /\ TypeOK /\ PcInv /\ Copied
    BY DEF FifoInv, IInv
  <1>2. CASE Dma
    <2>1. UNCHANGED <<pc, p, rx_fs_desc>>
      BY <1>2 DEF Dma, DmaStoreFirst, DmaStoreNext, DmaSuspend, locals, globals
    <2>2. ASSUME pc \in {"alloc", "copy"}
          PROVE  seg'[rx_fs_desc] = seg[rx_fs_desc]
      <3>1. own[rx_fs_desc] = "cpu" /\ rx_fs_desc \in Ring
        BY <1>1, <2>2, FrameInHand
      <3> QED
        BY <1>1, <1>2, <3>1
           DEF Dma, DmaStoreFirst, DmaStoreNext, DmaSuspend, Store, TypeOK
    <2>3. CASE pc \in {"alloc", "copy"}
      BY <2>1, <2>2, <2>3 DEF InHand, Whole
    <2>4. CASE pc \notin {"alloc", "copy"}
      BY <2>1, <2>4 DEF InHand
    <2> QED
      BY <2>3, <2>4
  <1>3. CASE CheckOwn \/ TakeFirst \/ TakeMiddle \/ AllocOk \/ ReleaseDesc
             \/ ReleaseDone \/ CheckRbu \/ PollDemand
    BY <1>3 DEF CheckOwn, TakeFirst, TakeMiddle, AllocOk, ReleaseDesc,
       ReleaseDone, CheckRbu, PollDemand, InHand, Whole, globals, ring, locals
  <1>4. CASE CopyBuffer
    <2> USE <1>4 DEF CopyBuffer
    <2>1. pc = "copy" /\ UNCHANGED <<seg, rx_fs_desc>>
      BY DEF ring, globals
    <2>2. InHand = <<Whole(seg[rx_fs_desc])>>
      BY <2>1 DEF InHand
    <2>3. CASE Len(p) + 1 < len
      <3>1. pc' = "copy"
        BY <2>1, <2>3
      <3> QED
        BY <2>1, <2>2, <3>1 DEF InHand, Whole
    <2>4. CASE ~(Len(p) + 1 < len)
      <3>1. /\ len \in Nat /\ seg[rx_fs_desc].n = len /\ rx_fs_desc \in Ring
            /\ \A d \in 0 .. len - 1 :
                  seg[Plus(rx_fs_desc, d)] = Nth(seg[rx_fs_desc], d + 1)
        BY <1>1, <2>1, FrameInHand
      <3>2. /\ Len(p) \in Nat /\ Len(p) + 1 = len /\ p \in Seq(Segment)
            /\ ptr = Plus(rx_fs_desc, Len(p))
        BY <1>1, <2>1, <2>4, <3>1 DEF PcInv, TypeOK
      <3>3. seg[ptr] = Nth(seg[rx_fs_desc], len) /\ seg[ptr] \in Segment
        BY <1>1, <3>1, <3>2 DEF TypeOK
      <3>4. /\ p' \in Seq(Segment) /\ Len(p') = len
            /\ \A j \in 1 .. len : p'[j] = Nth(seg[rx_fs_desc], j)
        BY <1>1, <2>1, <3>2, <3>3 DEF Copied
      <3>5. p' = Whole(seg[rx_fs_desc])
        BY <3>1, <3>4 DEF Whole
      <3>6. pc' = "release" /\ p' /= << >>
        BY <2>4, <3>1, <3>2, <3>4
      <3> QED
        BY <2>2, <3>5, <3>6 DEF InHand
    <2> QED
      BY <2>3, <2>4
  <1> QED
    BY <1>2, <1>3, <1>4 DEF Driver

-----------------------------------------------------------------------------
(***************************************************************************)
(* Each step is one of FrameFifo or leaves its variables alone             *)
(***************************************************************************)
LEMMA HeadTailConcat ==
  ASSUME NEW S, NEW x \in S, NEW b \in Seq(S)
  PROVE  /\ <<x>> \o b /= << >>
         /\ Head(<<x>> \o b) = x
         /\ Tail(<<x>> \o b) = b
         /\ << >> \o b = b
  <1>1. <<x>> \in Seq(S) /\ Len(<<x>>) = 1
    OBVIOUS
  <1> DEFINE q == <<x>> \o b
  <1>2. /\ q \in Seq(S) /\ Len(q) = 1 + Len(b)
        /\ \A i \in 1 .. 1 + Len(b) : q[i] = IF i <= 1 THEN <<x>>[i] ELSE b[i - 1]
    BY <1>1, ConcatProperties
  <1>3. Len(b) \in Nat
    OBVIOUS
  <1> HIDE DEF q
  <1>4. q /= << >> /\ Head(q) = x
    BY <1>2, <1>3
  <1>5. Tail(q) = b
    <2>1. /\ Tail(q) \in Seq(S) /\ Len(Tail(q)) = Len(b)
          /\ \A i \in 1 .. Len(b) : Tail(q)[i] = q[i + 1]
      BY <1>2, <1>3, <1>4, HeadTailProperties
    <2>2. \A i \in 1 .. Len(b) : q[i + 1] = b[i]
      BY <1>2, <1>3
    <2> QED
      BY <2>1, <2>2, SeqEqual
  <1> QED
    BY <1>4, <1>5, ConcatEmptySeq DEF q

LEMMA StutterStep ==
  ASSUME InHand' = InHand, Behind' = Behind, Arrived' = Arrived,
         delivered' = delivered
  PROVE  UNCHANGED Fifo!vars
  BY DEF Fifo!vars, Waiting

LEMMA FifoStore ==
  ASSUME FifoInv, FifoInv', InHand' = InHand, NEW s \in Segment, Store(s),
         Follows(arriving, s), s.k \in 1 .. s.n, s.id >= 1,
         UNCHANGED <<globals, locals, delivered>>
  PROVE  [Fifo!Next]_Fifo!vars
  <1>1. View /\ View' /\ TypeOK
    BY ViewLemma, ViewNext DEF FifoInv, IInv
  <1>2. /\ Taken' = Taken /\ Arrived = s.id - 1
        /\ Arrived' = IF s.k = s.n THEN s.id ELSE s.id - 1
        /\ dma_cur \in Ring /\ own'[dma_cur] = "cpu" /\ seg'[dma_cur] = s
        /\ \A i \in Ring : i /= dma_cur => own'[i] = own[i] /\ seg'[i] = seg[i]
        /\ Arrived - Taken < NumDesc
    BY StoreView
  <1>3. s.id \in 1 .. MaxFrames /\ s.n \in 1 .. MaxSegs
    BY DEF Segment
  <1>4. Kept
    <2> SUFFICES ASSUME NEW i \in Ring, NEW j \in 1 .. Len(Behind),
                        own'[i] = "cpu", seg'[i].id = Taken + j
                 PROVE  own[i] = "cpu" /\ seg'[i] = seg[i]
      BY DEF Kept
    <2>1. /\ Len(Behind) = Arrived - Taken /\ Taken \in Int /\ Arrived \in Nat
          /\ Arrived - Taken \in Nat
      BY <1>1 DEF View
    <2>2. Taken + j < s.id
      BY <1>2, <1>3, <2>1
    <2>3. i /= dma_cur
      BY <1>2, <1>3, <2>1, <2>2
    <2> QED
      BY <1>2, <2>3
  <1>5. CASE s.k = s.n
    <2>1. Arrived' = Arrived + 1 /\ seg'[dma_cur].id = Arrived + 1
      BY <1>2, <1>3, <1>5
    <2>2. Behind' = Append(Behind, Whole(s)) /\ Whole(s) \in Frames
      BY <1>1, <1>2, <1>4, <2>1, BehindGrows
    <2>3. Behind \in Seq(Frames) /\ Len(Behind) = Arrived - Taken
      BY <1>1 DEF View
    <2>4. InHand \in Seq(Frames) /\ Len(InHand) <= 1 /\ Len(InHand) \in Nat
      BY <1>1, InHandType
    <2>5. /\ Len(Waiting) = Len(InHand) + Len(Behind)
          /\ Waiting \in Seq(Frames)
      BY <2>3, <2>4, ConcatProperties DEF Waiting
    <2>6. Len(Waiting) < NumDesc + 1
      <3>1. Arrived - Taken \in Nat
        BY <1>1 DEF View
      <3> QED
        BY <1>2, <2>3, <2>4, <2>5, <3>1
    <2>7. Waiting' = Append(Waiting, Whole(s))
      <3>1. /\ Append(Behind, Whole(s)) = Behind \o <<Whole(s)>>
            /\ Append(Waiting, Whole(s)) = Waiting \o <<Whole(s)>>
        BY <2>2, <2>3, <2>5, AppendIsConcat
      <3>2. <<Whole(s)>> \in Seq(Frames)
        BY <2>2
      <3>3. InHand \o (Behind \o <<Whole(s)>>) = (InHand \o Behind) \o <<Whole(s)>>
        BY <2>3, <2>4, <3>2, ConcatAssociative
      <3> QED
        BY <2>2, <3>1, <3>3 DEF Waiting
    <2>8. Whole(s) = Fifo!Frame(Arrived', s.n)
      BY <1>2, <1>5 DEF Whole, Nth, Fifo!Frame
    <2>9. Arrived' \in Arrived + 1 .. MaxFrames
      BY <1>2, <1>3, <1>5
    <2>10. Fifo!Arrive
      BY <1>3, <2>6, <2>7, <2>8, <2>9 DEF Fifo!Arrive
    <2> QED
      BY <2>10 DEF Fifo!Next
  <1>6. CASE s.k /= s.n
    <2>1. Arrived' = Arrived
      BY <1>2, <1>6
    <2>2. Behind' = Behind
      BY <1>1, <1>2, <1>4, <2>1, BehindKept
    <2> QED
      BY <2>1, <2>2, StutterStep
  <1> QED
    BY <1>5, <1>6

LEMMA FifoStep ==
  ASSUME FifoInv, FifoInv', [Next]_vars
  PROVE  [Fifo!Next]_Fifo!vars
  <1>1. /\ View /\ View' /\ TypeOK /\ TypeOK' /\ IInv /\ PcInv
        /\ Behind \in Seq(Frames)
    BY ViewLemma, ViewNext DEF FifoInv, IInv, View
  <1>2. CASE DmaStoreFirst
    <2>1. PICK n \in 1 .. MaxSegs : Store([id |-> arriving.id + 1, k |-> 1, n |-> n])
      BY <1>2 DEF DmaStoreFirst
    <2> DEFINE s == [id |-> arriving.id + 1, k |-> 1, n |-> n]
    <2>2. s.k \in 1 .. s.n /\ Follows(arriving, s)
      BY <1>2 DEF DmaStoreFirst, Follows
    <2>3. s \in Segment
      BY <1>1, <2>1 DEF Store, TypeOK
    <2>4. s.id >= 1
      <3>1. arriving.id \in Nat
        BY <1>1 DEF TypeOK, Segment
      <3> QED
        BY <3>1
    <2>5. UNCHANGED <<globals, locals, delivered>>
      BY <1>2 DEF DmaStoreFirst
    <2>6. InHand' = InHand
      BY <1>2, InHandKept DEF Dma, DmaStoreFirst, TakeLast, AllocFail, Input, locals
    <2> HIDE DEF s
    <2>7. Store(s)
      BY <2>1 DEF s
    <2> QED
      BY <2>2, <2>3, <2>4, <2>5, <2>6, <2>7, FifoStore
  <1>3. CASE DmaStoreNext
    <2> DEFINE s == Nth(arriving, arriving.k + 1)
    <2>1. arriving \in Segment /\ arriving.k < arriving.n
      BY <1>1, <1>3 DEF DmaStoreNext, TypeOK
    <2>2. s.k \in 1 .. s.n /\ Follows(arriving, s)
      BY <2>1 DEF Follows, Nth, Segment
    <2>3. s \in Segment
      BY <2>1, NthType
    <2>4. s.id >= 1
      BY <1>1, <2>1, FirstSegment DEF Nth
    <2>5. UNCHANGED <<globals, locals, delivered>> /\ Store(s)
      BY <1>3 DEF DmaStoreNext
    <2>6. InHand' = InHand
      BY <1>3, InHandKept DEF Dma, DmaStoreNext, TakeLast, AllocFail, Input, locals
    <2> HIDE DEF s
    <2> QED
      BY <2>2, <2>3, <2>4, <2>5, <2>6, FifoStore
  <1>4. CASE TakeLast
    <2>1. /\ Taken' = Taken + 1 /\ Arrived' = Arrived
          /\ dma_rx_desc_to_get \in Ring /\ own[dma_rx_desc_to_get] = "cpu"
          /\ seg[dma_rx_desc_to_get].id = Taken + 1
          /\ Whole(seg[dma_rx_desc_to_get]) = Whole(seg[rx_fs_desc'])
      BY <1>4, TakeLastView
    <2>2. UNCHANGED <<own, seg, delivered>> /\ pc = "take" /\ pc' = "alloc"
      BY <1>4 DEF TakeLast, ring
    <2>3. Behind = <<Whole(seg[dma_rx_desc_to_get])>> \o Behind'
      BY <1>1, <2>1, <2>2, BehindShrinks
    <2>4. InHand = << >>
      BY <1>1, <2>2 DEF InHand, PcInv
    <2>5. InHand' = <<Whole(seg[rx_fs_desc'])>>
      BY <2>2 DEF InHand, Whole
    <2>6. Waiting' = Waiting
      BY <1>1, <2>1, <2>3, <2>4, <2>5, ConcatEmptySeq DEF Waiting
    <2> QED
      BY <2>1, <2>2, <2>6 DEF Fifo!vars
  <1>5. CASE AllocFail
    <2>1. Behind' = Behind /\ Arrived' = Arrived
      BY <1>5, BehindKeeps DEF Driver, AllocFail, TakeLast
    <2>2. pc = "alloc" /\ pc' = "release" /\ p' = p /\ p = << >>
          /\ delivered' = delivered
      BY <1>1, <1>5 DEF AllocFail, PcInv
    <2>3. InHand = <<Whole(seg[rx_fs_desc])>> /\ InHand' = << >>
      BY <2>2 DEF InHand
    <2>4. Whole(seg[rx_fs_desc]) \in Frames
      BY <1>1, WholeType DEF TypeOK, Frames
    <2>5. Waiting /= << >> /\ Tail(Waiting) = Behind /\ Waiting' = Behind
      BY <1>1, <2>1, <2>3, <2>4, HeadTailConcat DEF Waiting
    <2>6. Fifo!Drop
      BY <2>1, <2>2, <2>5 DEF Fifo!Drop
    <2> QED
      BY <2>6 DEF Fifo!Next
  <1>6. CASE Input
    <2>1. Behind' = Behind /\ Arrived' = Arrived
      BY <1>6, BehindKeeps DEF Driver, Input, TakeLast
    <2>2. pc = "input" /\ pc' = "idle" /\ p' = << >> /\ p \in Frames
      BY <1>1, <1>6 DEF Input, TypeOK, Frames
    <2>3. InHand' = << >>
      BY <2>2 DEF InHand
    <2>4. CASE p = << >>
      <3>1. InHand = << >> /\ delivered' = delivered
        BY <1>6, <2>2, <2>4 DEF InHand, Input
      <3> QED
        BY <2>1, <2>3, <3>1, StutterStep
    <2>5. CASE p /= << >>
      <3>1. InHand = <<p>> /\ delivered' = Append(delivered, p)
        BY <1>6, <2>2, <2>5 DEF InHand, Input
      <3>2. /\ Waiting /= << >> /\ Head(Waiting) = p
            /\ Tail(Waiting) = Behind /\ Waiting' = Behind
        BY <1>1, <2>1, <2>2, <2>3, <3>1, HeadTailConcat DEF Waiting
      <3>3. Fifo!Deliver
        BY <2>1, <3>1, <3>2 DEF Fifo!Deliver
      <3> QED
        BY <3>3 DEF Fifo!Next
    <2> QED
      BY <2>4, <2>5
  <1>7. CASE DmaSuspend \/ (Driver /\ ~TakeLast /\ ~AllocFail /\ ~Input)
    <2>1. Behind' = Behind /\ Arrived' = Arrived
      BY <1>7, BehindKeeps
    <2>2. delivered' = delivered
      BY <1>7 DEF DmaSuspend, Driver, CheckOwn, TakeFirst, TakeMiddle, AllocOk,
                  CopyBuffer, ReleaseDesc, ReleaseDone, CheckRbu, PollDemand
    <2>3. ~TakeLast /\ ~AllocFail /\ ~Input
      BY <1>7 DEF DmaSuspend, TakeLast, AllocFail, Input, locals
    <2>4. InHand' = InHand
      BY <1>7, <2>3, InHandKept DEF Dma
    <2> QED
      BY <2>1, <2>2, <2>4, StutterStep
  <1>8. CASE UNCHANGED vars
    BY <1>8 DEF vars, ring, globals, locals, Fifo!vars, Waiting, InHand, Behind,
                Arrived, Taken, Stored, Whole, held
  <1> QED
    BY <1>2, <1>3, <1>4, <1>5, <1>6, <1>7, <1>8 DEF Next, Dma, Driver

LEMMA InitFifo == Init => Fifo!Init
  <1> SUFFICES ASSUME Init PROVE Fifo!Init
    OBVIOUS
  <1>1. own[dma_rx_desc_to_get] = "dma" /\ Arrived = 0
    BY DEF Init, Arrived, NoSegment, Ring
  <1>2. Behind = << >>
    BY <1>1 DEF Behind, Taken
  <1>3. InHand = << >>
    BY DEF Init, InHand
  <1> QED
    BY <1>1, <1>2, <1>3 DEF Init, Fifo!Init, Waiting

(***************************************************************************)
(* Frames reach the stack whole, once and in the order of their arrival,   *)
(* and only the oldest is lost, for want of a pbuf: the DMA and the driver *)
(* (ethernetif_input, low_level_input, emac_rxpkt_chainmode) implement     *)
(* FrameFifo, whatever the ring and the frames.                            *)
(***************************************************************************)
THEOREM FramesInOrderAlways == Spec => FramesInOrder
  <1>1. FifoInv /\ FifoInv' /\ [Next]_vars => [Fifo!Next]_Fifo!vars
    BY FifoStep
  <1> QED
    BY <1>1, InitFifo, FifoInductive, PTL DEF Spec, FramesInOrder, Fifo!Spec
=============================================================================
