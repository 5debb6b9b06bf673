-------------------------- MODULE RxContextsProofs --------------------------
(***************************************************************************)
(* Theorems about the two contexts that receive, for every ring, length of *)
(* frame and number of frames.                                             *)
(*                                                                         *)
(* The lemmas of EmacRxProofs hold of either context's call: PT has them   *)
(* for the thread's, PI for the interrupt's.  While a context is in a call *)
(* FifoInv holds as that context sees it, and between two calls as either  *)
(* does, since pc and p are then the same in both and it says nothing of   *)
(* the other locals.  So a call that begins finds FifoInv as the other one *)
(* left it, provided that it does not begin before the other has ended.    *)
(***************************************************************************)
EXTENDS RxContexts, SequenceTheorems, TLAPS

PT == INSTANCE EmacRxProofs WITH
        pc <- tpc, len <- tlen, ptr <- tptr, index <- tindex, p <- tp

PI == INSTANCE EmacRxProofs WITH
        pc <- ipc, len <- ilen, ptr <- iptr, index <- iindex, p <- ip

USE NumDescAssumption, FrameAssumption

-----------------------------------------------------------------------------
(***************************************************************************)
(* What the two contexts do, said in terms of PT and PI                    *)
(***************************************************************************)
LEMMA ThreadIs ==
  /\ T!Init => PT!Init
  /\ T!Dma <=> PT!Dma
  /\ T!Driver <=> PT!Driver
  /\ T!TypeOK <=> PT!TypeOK
<1>1. T!Init => PT!Init
  BY DEF T!Init, PT!Init, T!NoSegment, PT!NoSegment, T!Ring, PT!Ring
<1>2. T!Dma <=> PT!Dma
  BY DEF T!Dma, PT!Dma, T!DmaStoreFirst, PT!DmaStoreFirst, T!DmaStoreNext,
         PT!DmaStoreNext, T!DmaSuspend, PT!DmaSuspend, T!Store, PT!Store,
         T!Nth, PT!Nth, T!globals, PT!globals, T!locals, PT!locals, T!Succ,
         PT!Succ
<1>3. T!Driver <=> PT!Driver
  <2>1. (T!CheckOwn <=> PT!CheckOwn) /\ (T!TakeLast <=> PT!TakeLast)
    BY DEF T!CheckOwn, PT!CheckOwn, T!TakeLast, PT!TakeLast, T!ring, PT!ring,
           T!globals, PT!globals, T!LS, PT!LS, T!Succ, PT!Succ
  <2>2. (T!TakeFirst <=> PT!TakeFirst) /\ (T!TakeMiddle <=> PT!TakeMiddle)
    BY DEF T!TakeFirst, PT!TakeFirst, T!TakeMiddle, PT!TakeMiddle, T!ring,
           PT!ring, T!FS, PT!FS, T!LS, PT!LS, T!Succ, PT!Succ
  <2>3. (T!AllocOk <=> PT!AllocOk) /\ (T!AllocFail <=> PT!AllocFail)
    BY DEF T!AllocOk, PT!AllocOk, T!AllocFail, PT!AllocFail, T!ring, PT!ring,
           T!globals, PT!globals
  <2>4. (T!CopyBuffer <=> PT!CopyBuffer) /\ (T!ReleaseDesc <=> PT!ReleaseDesc)
    BY DEF T!CopyBuffer, PT!CopyBuffer, T!ReleaseDesc, PT!ReleaseDesc, T!ring,
           PT!ring, T!globals, PT!globals, T!Succ, PT!Succ
  <2>5. (T!ReleaseDone <=> PT!ReleaseDone) /\ (T!CheckRbu <=> PT!CheckRbu)
    BY DEF T!ReleaseDone, PT!ReleaseDone, T!CheckRbu, PT!CheckRbu, T!ring,
           PT!ring, T!globals, PT!globals
  <2>6. (T!PollDemand <=> PT!PollDemand) /\ (T!Input <=> PT!Input)
    BY DEF T!PollDemand, PT!PollDemand, T!Input, PT!Input, T!ring, PT!ring,
           T!globals, PT!globals
  <2> QED BY <2>1, <2>2, <2>3, <2>4, <2>5, <2>6 DEF T!Driver, PT!Driver
<1>4. T!TypeOK <=> PT!TypeOK
  BY DEF T!TypeOK, PT!TypeOK, T!Segment, PT!Segment, T!Ring, PT!Ring
<1> QED BY <1>1, <1>2, <1>3, <1>4

LEMMA IrqIs ==
  /\ I!Init => PI!Init
  /\ I!Dma <=> PI!Dma
  /\ I!Driver <=> PI!Driver
  /\ I!TypeOK <=> PI!TypeOK
<1>1. I!Init => PI!Init
  BY DEF I!Init, PI!Init, I!NoSegment, PI!NoSegment, I!Ring, PI!Ring
<1>2. I!Dma <=> PI!Dma
  BY DEF I!Dma, PI!Dma, I!DmaStoreFirst, PI!DmaStoreFirst, I!DmaStoreNext,
         PI!DmaStoreNext, I!DmaSuspend, PI!DmaSuspend, I!Store, PI!Store,
         I!Nth, PI!Nth, I!globals, PI!globals, I!locals, PI!locals, I!Succ,
         PI!Succ
<1>3. I!Driver <=> PI!Driver
  <2>1. (I!CheckOwn <=> PI!CheckOwn) /\ (I!TakeLast <=> PI!TakeLast)
    BY DEF I!CheckOwn, PI!CheckOwn, I!TakeLast, PI!TakeLast, I!ring, PI!ring,
           I!globals, PI!globals, I!LS, PI!LS, I!Succ, PI!Succ
  <2>2. (I!TakeFirst <=> PI!TakeFirst) /\ (I!TakeMiddle <=> PI!TakeMiddle)
    BY DEF I!TakeFirst, PI!TakeFirst, I!TakeMiddle, PI!TakeMiddle, I!ring,
           PI!ring, I!FS, PI!FS, I!LS, PI!LS, I!Succ, PI!Succ
  <2>3. (I!AllocOk <=> PI!AllocOk) /\ (I!AllocFail <=> PI!AllocFail)
    BY DEF I!AllocOk, PI!AllocOk, I!AllocFail, PI!AllocFail, I!ring, PI!ring,
           I!globals, PI!globals
  <2>4. (I!CopyBuffer <=> PI!CopyBuffer) /\ (I!ReleaseDesc <=> PI!ReleaseDesc)
    BY DEF I!CopyBuffer, PI!CopyBuffer, I!ReleaseDesc, PI!ReleaseDesc, I!ring,
           PI!ring, I!globals, PI!globals, I!Succ, PI!Succ
  <2>5. (I!ReleaseDone <=> PI!ReleaseDone) /\ (I!CheckRbu <=> PI!CheckRbu)
    BY DEF I!ReleaseDone, PI!ReleaseDone, I!CheckRbu, PI!CheckRbu, I!ring,
           PI!ring, I!globals, PI!globals
  <2>6. (I!PollDemand <=> PI!PollDemand) /\ (I!Input <=> PI!Input)
    BY DEF I!PollDemand, PI!PollDemand, I!Input, PI!Input, I!ring, PI!ring,
           I!globals, PI!globals
  <2> QED BY <2>1, <2>2, <2>3, <2>4, <2>5, <2>6 DEF I!Driver, PI!Driver
<1>4. I!TypeOK <=> PI!TypeOK
  BY DEF I!TypeOK, PI!TypeOK, I!Segment, PI!Segment, I!Ring, PI!Ring
<1> QED BY <1>1, <1>2, <1>3, <1>4

-----------------------------------------------------------------------------
\* The DMA leaves the locals of both contexts alone.
LEMMA DmaIsBoth == DmaStep => PT!Next /\ PI!Next /\ UNCHANGED <<tlocals, ilocals>>
<1> SUFFICES ASSUME DmaStep
             PROVE  PT!Next /\ PI!Next /\ UNCHANGED <<tlocals, ilocals>>
  OBVIOUS
<1>1. PT!Dma /\ UNCHANGED ilocals
  BY ThreadIs DEF DmaStep
<1> USE DEF PT!globals, PI!globals, PT!locals, PI!locals, tlocals, ilocals,
            PT!Store, PI!Store, PT!Succ, PI!Succ, PT!Nth, PI!Nth
<1>2. CASE PT!DmaStoreFirst
  BY <1>1, <1>2 DEF PT!DmaStoreFirst, PI!DmaStoreFirst, PT!Next, PT!Dma, PI!Next,
                    PI!Dma
<1>3. CASE PT!DmaStoreNext
  BY <1>1, <1>3 DEF PT!DmaStoreNext, PI!DmaStoreNext, PT!Next, PT!Dma, PI!Next,
                    PI!Dma
<1>4. CASE PT!DmaSuspend
  BY <1>1, <1>4 DEF PT!DmaSuspend, PI!DmaSuspend, PT!Next, PT!Dma, PI!Next, PI!Dma
<1> QED BY <1>1, <1>2, <1>3, <1>4 DEF PT!Dma

\* The handler's own steps touch neither ring nor driver.
HandlerStep == UNCHANGED <<shared, tlocals, ilocals>>

LEMMA HandlerIs ==
  IrqEnter \/ IrqLoop \/ IrqClear \/ UNCHANGED vars => HandlerStep
  BY DEF IrqEnter, IrqLoop, IrqClear, HandlerStep, vars

LEMMA HandlerIsStutter == HandlerStep => UNCHANGED PT!vars /\ UNCHANGED PI!vars
  BY DEF HandlerStep, shared, tlocals, ilocals, PT!vars, PT!ring, PT!globals,
         PT!locals, PI!vars, PI!ring, PI!globals, PI!locals

-----------------------------------------------------------------------------
\* What a context does not touch keeps its type.
LEMMA OtherType ==
  /\ PT!TypeOK' /\ I!TypeOK /\ UNCHANGED ilocals => PI!TypeOK'
  /\ PI!TypeOK' /\ T!TypeOK /\ UNCHANGED tlocals => PT!TypeOK'
  BY ThreadIs, IrqIs DEF PT!TypeOK, PI!TypeOK, tlocals, ilocals, PT!Segment,
                         PI!Segment, PT!Ring, PI!Ring

LEMMA NextType == TypeOK /\ [Next]_vars => TypeOK'
<1> SUFFICES ASSUME TypeOK, [Next]_vars
             PROVE  TypeOK'
  OBVIOUS
<1>1. PT!TypeOK /\ PI!TypeOK
  BY ThreadIs, IrqIs DEF TypeOK
<1>2. PT!TypeOK' /\ PI!TypeOK'
  <2>1. CASE DmaStep
    BY <1>1, <2>1, DmaIsBoth, PT!TypeStep, PI!TypeStep
  <2>2. CASE ThreadStep
    <3>1. PT!Next /\ UNCHANGED ilocals
      BY <2>2, ThreadIs DEF ThreadStep, PT!Next
    <3> QED BY <1>1, <3>1, PT!TypeStep, OtherType DEF TypeOK
  <2>3. CASE IrqCall
    <3>1. PI!Next /\ UNCHANGED tlocals
      BY <2>3, IrqIs DEF IrqCall, PI!Next
    <3> QED BY <1>1, <3>1, PI!TypeStep, OtherType DEF TypeOK
  <2>4. CASE IrqEnter \/ IrqLoop \/ IrqClear \/ UNCHANGED vars
    BY <1>1, <2>4, HandlerIs, HandlerIsStutter, PT!TypeStep, PI!TypeStep
  <2> QED BY <2>1, <2>2, <2>3, <2>4 DEF Next, Irq
<1>3. T!TypeOK' /\ I!TypeOK'
  BY <1>2, ThreadIs, IrqIs, PTL
<1>4. nis' \in BOOLEAN /\ isr' \in {"off", "loop", "call", "clear"}
  BY DEF TypeOK, Next, DmaStep, ThreadStep, Irq, IrqEnter, IrqLoop, IrqCall,
         IrqClear, vars
<1> QED BY <1>3, <1>4 DEF TypeOK

LEMMA InitType == Init => TypeOK
<1> SUFFICES ASSUME Init
             PROVE  TypeOK
  OBVIOUS
<1>1. PT!Init /\ PI!Init
  BY ThreadIs, IrqIs DEF Init
<1> QED BY <1>1, PT!TypeInit, PI!TypeInit, ThreadIs, IrqIs DEF Init, TypeOK

(***************************************************************************)
(* The globals of the driver and the locals of both contexts keep their    *)
(* types, in the firmware as it is built too, where EMAC_IRQHandler breaks *)
(* into a call: no cursor leaves the ring.                                 *)
(***************************************************************************)
THEOREM TypeCorrect == Spec => []TypeOK
  BY InitType, NextType, PTL DEF Spec

-----------------------------------------------------------------------------
\* No call begins while the other context is in one.
TakeTurns ==
  /\ isr /= "off" => tpc = "idle"
  /\ isr /= "call" => ipc = "idle"
  /\ tpc = "idle" => tp = << >>
  /\ ipc = "idle" => ip = << >>

\* FifoInv of the context whose call is in progress, of both if there is none.
RxInv ==
  /\ TypeOK
  /\ TakeTurns
  /\ ipc = "idle" => PT!FifoInv
  /\ tpc = "idle" => PI!FifoInv

\* Between two calls, the contexts differ in locals that nobody reads any more.
NoCall ==
  /\ tpc = "idle" /\ ipc = "idle" /\ tp = << >> /\ ip = << >>
  /\ TypeOK

LEMMA SameFifoInv == NoCall => (PT!FifoInv <=> PI!FifoInv)
<1> SUFFICES ASSUME NoCall
             PROVE  PT!FifoInv <=> PI!FifoInv
  OBVIOUS
<1>1. PT!oldest = PI!oldest /\ PT!held = PI!held /\ (PT!Working <=> PI!Working)
  BY DEF NoCall, PT!oldest, PI!oldest, PT!held, PI!held, PT!Working, PI!Working
<1>2. \A u : PT!RingShape(u) <=> PI!RingShape(u)
  BY <1>1 DEF PT!RingShape, PI!RingShape, PT!Plus, PI!Plus, PT!Dist, PI!Dist,
              PT!Ring, PI!Ring
<1>3. \A u : PT!SegmentChain(u) <=> PI!SegmentChain(u)
  BY <1>1 DEF PT!SegmentChain, PI!SegmentChain, PT!Plus, PI!Plus,
              PT!Follows, PI!Follows
<1>4. \A u : PT!HeldFrame(u) <=> PI!HeldFrame(u)
  BY <1>1 DEF NoCall, PT!HeldFrame, PI!HeldFrame, PT!Plus, PI!Plus, PT!Nth, PI!Nth
<1>5. /\ PT!PcInv <=> PI!PcInv
      /\ PT!SuspensionFlagged <=> PI!SuspensionFlagged
  BY DEF NoCall, PT!PcInv, PI!PcInv, PT!SuspensionFlagged, PI!SuspensionFlagged
<1>6. PT!IInv <=> PI!IInv
  BY <1>2, <1>3, <1>4, <1>5, ThreadIs, IrqIs DEF NoCall, TypeOK, PT!IInv, PI!IInv
<1>7. PT!Numbered <=> PI!Numbered
  BY <1>1 DEF PT!Numbered, PI!Numbered, PT!Ring, PI!Ring, PT!Dist, PI!Dist
<1>8. PT!Copied /\ PI!Copied
  BY DEF NoCall, PT!Copied, PI!Copied
<1> QED BY <1>6, <1>7, <1>8 DEF PT!FifoInv, PI!FifoInv

LEMMA SameFifoInvNext == NoCall' => (PT!FifoInv' <=> PI!FifoInv')
  BY SameFifoInv, PTL

LEMMA InitRxInv == Init => RxInv
<1> SUFFICES ASSUME Init
             PROVE  RxInv
  OBVIOUS
<1>1. PT!Init /\ PI!Init
  BY ThreadIs, IrqIs DEF Init
<1>2. PT!FifoInv /\ PI!FifoInv
  BY <1>1, PT!InitFifoInv, PI!InitFifoInv
<1>3. TakeTurns
  BY <1>1 DEF TakeTurns, PT!Init, PI!Init, Init
<1> QED BY <1>2, <1>3, InitType DEF RxInv

\* What one context does is a step of the driver in which the other stands.
LEMMA ThreadCalls ==
  ASSUME RxInv, ThreadStep
  PROVE  RxInv' /\ PT!FifoInv /\ PT!FifoInv' /\ PT!Next
<1>1. ipc = "idle" /\ ipc' = "idle" /\ ip' = << >> /\ isr' = isr /\ isr = "off"
  BY DEF RxInv, TakeTurns, ThreadStep, ilocals
<1>2. PT!Next /\ PT!FifoInv /\ TypeOK'
  BY <1>1, ThreadIs, NextType DEF ThreadStep, PT!Next, RxInv, Next
<1>3. PT!FifoInv'
  BY <1>2, PT!NextFifoInv
<1>4. tpc' = "idle" => tp' = << >>
  BY <1>3 DEF PT!FifoInv, PT!IInv, PT!PcInv
<1>5. tpc' = "idle" => PI!FifoInv'
  BY <1>1, <1>2, <1>3, <1>4, SameFifoInvNext DEF NoCall
<1>6. TakeTurns'
  BY <1>1, <1>4 DEF TakeTurns
<1> QED BY <1>2, <1>3, <1>5, <1>6 DEF RxInv

LEMMA IrqCalls ==
  ASSUME RxInv, IrqCall
  PROVE  RxInv' /\ PI!FifoInv /\ PI!FifoInv' /\ PI!Next
<1>1. tpc = "idle" /\ tpc' = "idle" /\ tp' = << >> /\ isr = "call"
  BY DEF RxInv, TakeTurns, IrqCall, tlocals
<1>2. PI!Next /\ PI!FifoInv /\ TypeOK'
  BY <1>1, IrqIs, NextType DEF IrqCall, PI!Next, RxInv, Next, Irq
<1>3. PI!FifoInv'
  BY <1>2, PI!NextFifoInv
<1>4. ipc' = "idle" => ip' = << >>
  BY <1>3 DEF PI!FifoInv, PI!IInv, PI!PcInv
<1>5. ipc' = "idle" => PT!FifoInv'
  BY <1>1, <1>2, <1>3, <1>4, SameFifoInvNext DEF NoCall
<1>6. TakeTurns'
  BY <1>1, <1>4 DEF TakeTurns, IrqCall
<1> QED BY <1>2, <1>3, <1>5, <1>6 DEF RxInv

LEMMA DmaCalls ==
  ASSUME RxInv, DmaStep
  PROVE  /\ RxInv'
         /\ ipc = "idle" => PT!FifoInv /\ PT!FifoInv' /\ PT!Next
         /\ tpc = "idle" => PI!FifoInv /\ PI!FifoInv' /\ PI!Next
<1>1. PT!Next /\ PI!Next /\ UNCHANGED <<tlocals, ilocals, isr>>
  BY DmaIsBoth DEF DmaStep
<1>2. TypeOK'
  BY NextType DEF RxInv, Next
<1>3. ipc = "idle" => PT!FifoInv /\ PT!FifoInv'
  BY <1>1, PT!NextFifoInv DEF RxInv
<1>4. tpc = "idle" => PI!FifoInv /\ PI!FifoInv'
  BY <1>1, PI!NextFifoInv DEF RxInv
<1>5. TakeTurns'
  BY <1>1 DEF TakeTurns, RxInv, tlocals, ilocals
<1> QED BY <1>1, <1>2, <1>3, <1>4, <1>5 DEF RxInv, tlocals, ilocals

LEMMA HandlerKeeps ==
  ASSUME ~Preemptible, RxInv,
         IrqEnter \/ IrqLoop \/ IrqClear \/ UNCHANGED vars
  PROVE  RxInv'
<1>1. HandlerStep /\ TypeOK'
  BY HandlerIs, NextType DEF RxInv, Next, Irq
<1>2. (ipc = "idle" => PT!FifoInv') /\ (tpc = "idle" => PI!FifoInv')
  BY <1>1, HandlerIsStutter, PT!NextFifoInv, PI!NextFifoInv DEF RxInv
<1>3. TakeTurns'
  BY <1>1 DEF IrqEnter, IrqLoop, IrqClear, vars, RxInv, TakeTurns, HandlerStep,
              tlocals, ilocals
<1> QED
  BY <1>1, <1>2, <1>3 DEF RxInv, HandlerStep, tlocals, ilocals

LEMMA NextRxInv ==
  ASSUME ~Preemptible, RxInv, [Next]_vars
  PROVE  RxInv'
  BY ThreadCalls, IrqCalls, DmaCalls, HandlerKeeps DEF Next, Irq

-----------------------------------------------------------------------------
\* Whoever is in a call, what arrived is the same.
LEMMA SameArrived ==
  One!Arrived = PT!Arrived /\ One!Arrived = PI!Arrived
  BY DEF One!Arrived, PT!Arrived, PI!Arrived

LEMMA ThreadView == ~Busy => One!Waiting = PT!Waiting
<1> SUFFICES ASSUME ~Busy
             PROVE  One!Waiting = PT!Waiting
  OBVIOUS
<1>1. One!held = PT!held /\ One!InHand = PT!InHand
  BY DEF One!held, PT!held, One!InHand, PT!InHand, One!Whole, PT!Whole,
         One!Nth, PT!Nth
<1>2. One!Behind = PT!Behind
  BY <1>1 DEF One!Behind, PT!Behind, One!Arrived, PT!Arrived, One!Taken, PT!Taken,
       One!Stored, PT!Stored, One!Whole, PT!Whole, One!Nth, PT!Nth, One!Ring, PT!Ring
<1> QED BY <1>1, <1>2 DEF One!Waiting, PT!Waiting

LEMMA IrqView == Busy => One!Waiting = PI!Waiting
<1> SUFFICES ASSUME Busy
             PROVE  One!Waiting = PI!Waiting
  OBVIOUS
<1>1. One!held = PI!held /\ One!InHand = PI!InHand
  BY DEF One!held, PI!held, One!InHand, PI!InHand, One!Whole, PI!Whole,
         One!Nth, PI!Nth
<1>2. One!Behind = PI!Behind
  BY <1>1 DEF One!Behind, PI!Behind, One!Arrived, PI!Arrived, One!Taken, PI!Taken,
       One!Stored, PI!Stored, One!Whole, PI!Whole, One!Nth, PI!Nth, One!Ring, PI!Ring
<1> QED BY <1>1, <1>2 DEF One!Waiting, PI!Waiting

LEMMA NoCallView == NoCall => PT!Waiting = PI!Waiting
<1> SUFFICES ASSUME NoCall
             PROVE  PT!Waiting = PI!Waiting
  OBVIOUS
<1>1. PT!held = PI!held /\ PT!InHand = PI!InHand
  BY DEF NoCall, PT!held, PI!held, PT!InHand, PI!InHand
<1>2. PT!Behind = PI!Behind
  BY <1>1 DEF PT!Behind, PI!Behind, PT!Arrived, PI!Arrived, PT!Taken, PI!Taken,
       PT!Stored, PI!Stored, PT!Whole, PI!Whole, PT!Nth, PI!Nth, PT!Ring, PI!Ring
<1> QED BY <1>1, <1>2 DEF PT!Waiting, PI!Waiting

\* The frames inside, seen as those of a context that may be in a call.
Views ==
  /\ ipc = "idle" => One!Waiting = PT!Waiting
  /\ tpc = "idle" => One!Waiting = PI!Waiting

LEMMA RxViews == RxInv => Views
<1> SUFFICES ASSUME RxInv
             PROVE  Views
  OBVIOUS
<1>1. tpc = "idle" /\ ipc = "idle" => PT!Waiting = PI!Waiting
  BY NoCallView DEF NoCall, RxInv, TakeTurns
<1> QED BY <1>1, ThreadView, IrqView DEF Views, Busy

LEMMA NextViews == RxInv' => Views'
  BY RxViews, PTL

LEMMA NextArrived == One!Arrived' = PT!Arrived' /\ One!Arrived' = PI!Arrived'
  BY DEF One!Arrived, PT!Arrived, PI!Arrived

LEMMA ThreadFifo ==
  ASSUME One!Waiting = PT!Waiting, One!Waiting' = PT!Waiting',
         PT!FifoInv, PT!FifoInv', PT!Next
  PROVE  [One!Fifo!Next]_(One!Fifo!vars)
<1>1. [PT!Fifo!Next]_(PT!Fifo!vars)
  BY PT!FifoStep
<1> QED
  BY <1>1, SameArrived, NextArrived
     DEF PT!Fifo!Next, One!Fifo!Next, PT!Fifo!Arrive, One!Fifo!Arrive,
         PT!Fifo!Deliver, One!Fifo!Deliver, PT!Fifo!Drop, One!Fifo!Drop,
         PT!Fifo!vars, One!Fifo!vars, PT!Fifo!Frame, One!Fifo!Frame

LEMMA IrqFifo ==
  ASSUME One!Waiting = PI!Waiting, One!Waiting' = PI!Waiting',
         PI!FifoInv, PI!FifoInv', PI!Next
  PROVE  [One!Fifo!Next]_(One!Fifo!vars)
<1>1. [PI!Fifo!Next]_(PI!Fifo!vars)
  BY PI!FifoStep
<1> QED
  BY <1>1, SameArrived, NextArrived
     DEF PI!Fifo!Next, One!Fifo!Next, PI!Fifo!Arrive, One!Fifo!Arrive,
         PI!Fifo!Deliver, One!Fifo!Deliver, PI!Fifo!Drop, One!Fifo!Drop,
         PI!Fifo!vars, One!Fifo!vars, PI!Fifo!Frame, One!Fifo!Frame

LEMMA HandlerFifo == HandlerStep => UNCHANGED One!Fifo!vars
  BY DEF HandlerStep, shared, tlocals, ilocals, Busy, One!Fifo!vars, One!Waiting,
         One!InHand, One!Behind, One!Arrived, One!Taken, One!Stored, One!Whole,
         One!held

LEMMA NextFifo ==
  ASSUME ~Preemptible, RxInv, [Next]_vars
  PROVE  [One!Fifo!Next]_(One!Fifo!vars)
<1>1. Views /\ Views'
  BY NextRxInv, RxViews, NextViews
<1>2. CASE DmaStep
  <2>1. UNCHANGED <<tpc, ipc>> /\ (tpc = "idle" \/ ipc = "idle")
    BY <1>2, DmaIsBoth DEF tlocals, ilocals, RxInv, TakeTurns
  <2> QED BY <1>1, <1>2, <2>1, DmaCalls, ThreadFifo, IrqFifo DEF Views
<1>3. CASE ThreadStep
  <2>1. ipc = "idle" /\ ipc' = "idle"
    BY <1>3 DEF ThreadStep, ilocals, RxInv, TakeTurns
  <2> QED BY <1>1, <1>3, <2>1, ThreadCalls, ThreadFifo DEF Views
<1>4. CASE IrqCall
  <2>1. tpc = "idle" /\ tpc' = "idle"
    BY <1>4 DEF IrqCall, tlocals, RxInv, TakeTurns
  <2> QED BY <1>1, <1>4, <2>1, IrqCalls, IrqFifo DEF Views
<1>5. CASE IrqEnter \/ IrqLoop \/ IrqClear \/ UNCHANGED vars
  BY <1>5, HandlerIs, HandlerFifo
<1> QED BY <1>2, <1>3, <1>4, <1>5 DEF Next, Irq

(***************************************************************************)
(* hNetHelloThread and EMAC_IRQHandler take turns at ethernetif_input, in  *)
(* the middle of frames too, and frames reach the stack whole, once and in *)
(* the order of their arrival.                                             *)
(***************************************************************************)
THEOREM FramesInOrderAlways ==
  ASSUME ~Preemptible
  PROVE  Spec => FramesInOrder
<1>1. Init => One!Fifo!Init
  <2> SUFFICES ASSUME Init
               PROVE  One!Fifo!Init
    OBVIOUS
  <2>1. PT!Init /\ ~Busy
    BY ThreadIs, IrqIs DEF Init, I!Init, Busy
  <2>2. PT!Fifo!Init
    BY <2>1, PT!InitFifo
  <2> QED
    BY <2>1, <2>2, ThreadView, SameArrived DEF PT!Fifo!Init, One!Fifo!Init
<1>2. RxInv /\ [Next]_vars => RxInv' /\ [One!Fifo!Next]_(One!Fifo!vars)
  BY NextRxInv, NextFifo
<1> QED
  BY <1>1, <1>2, InitRxInv, PTL DEF Spec, FramesInOrder, One!FramesInOrder,
                                    One!Fifo!Spec

-----------------------------------------------------------------------------
\* What FrameFifo is made of: whole frames, inside and delivered.
WholeFrames == {One!Fifo!Frame(id, n) : id \in Nat, n \in 1 .. MaxSegs}

OnlyWhole ==
  /\ One!Arrived \in Nat
  /\ One!Waiting \in Seq(WholeFrames)
  /\ delivered \in Seq(WholeFrames)

LEMMA FifoOnlyWhole == OnlyWhole /\ [One!Fifo!Next]_(One!Fifo!vars) => OnlyWhole'
<1> SUFFICES ASSUME OnlyWhole, [One!Fifo!Next]_(One!Fifo!vars)
             PROVE  OnlyWhole'
  OBVIOUS
<1> USE DEF OnlyWhole
<1>1. CASE One!Fifo!Arrive
  <2>1. PICK n \in 1 .. MaxSegs :
          One!Waiting' = Append(One!Waiting, One!Fifo!Frame(One!Arrived', n))
    BY <1>1 DEF One!Fifo!Arrive
  <2>2. One!Arrived' \in Nat /\ delivered' = delivered
    BY <1>1 DEF One!Fifo!Arrive
  <2>3. One!Fifo!Frame(One!Arrived', n) \in WholeFrames
    BY <2>2 DEF WholeFrames
  <2> QED BY <2>1, <2>2, <2>3, AppendProperties DEF WholeFrames
<1>2. CASE One!Fifo!Deliver
  BY <1>2, HeadTailProperties, AppendProperties DEF One!Fifo!Deliver, WholeFrames
<1>3. CASE One!Fifo!Drop
  BY <1>3, HeadTailProperties DEF One!Fifo!Drop, WholeFrames
<1>4. CASE UNCHANGED One!Fifo!vars
  BY <1>4 DEF One!Fifo!vars, WholeFrames
<1> QED BY <1>1, <1>2, <1>3, <1>4 DEF One!Fifo!Next

LEMMA WholeIsReceived == OnlyWhole => PbufIsReceivedPacket
<1> SUFFICES ASSUME OnlyWhole, NEW j \in DOMAIN delivered
             PROVE  delivered[j] = T!Whole(delivered[j][1])
  BY DEF PbufIsReceivedPacket
<1>1. PICK id \in Nat, n \in 1 .. MaxSegs : delivered[j] = One!Fifo!Frame(id, n)
  BY DEF OnlyWhole, WholeFrames
<1>2. delivered[j][1] = [id |-> id, k |-> 1, n |-> n]
  BY <1>1 DEF One!Fifo!Frame
<1> QED BY <1>1, <1>2 DEF One!Fifo!Frame, T!Whole, T!Nth

(***************************************************************************)
(* low_level_input, ethernetif.c:273: what lwIP is given is the received   *)
(* packet, if the interrupt is held off during the thread's call.  That it *)
(* is not held off is thus all that breaks this promise.                   *)
(***************************************************************************)
THEOREM PbufIsReceivedPacketAlways ==
  ASSUME ~Preemptible
  PROVE  Spec => []PbufIsReceivedPacket
<1>1. One!Fifo!Init => OnlyWhole
  BY DEF One!Fifo!Init, OnlyWhole
<1>2. OnlyWhole /\ [One!Fifo!Next]_(One!Fifo!vars) => OnlyWhole'
  BY FifoOnlyWhole
<1>3. OnlyWhole => PbufIsReceivedPacket
  BY WholeIsReceived
<1> QED
  BY <1>1, <1>2, <1>3, FramesInOrderAlways, PTL
     DEF FramesInOrder, One!FramesInOrder, One!Fifo!Spec
=============================================================================
