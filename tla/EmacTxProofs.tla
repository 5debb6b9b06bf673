---------------------------- MODULE EmacTxProofs ----------------------------
(***************************************************************************)
(* IInv is an inductive invariant of EmacTx for every size of the ring and *)
(* of its buffers, every length of packet that fits in it, every split of  *)
(* it into pbufs and any number of packets.                                *)
(*                                                                         *)
(* The DMA owns the descriptors from its own cursor up to, and without,    *)
(* dma_tx_desc_to_set.  What is copied fills the buffers behind it one by  *)
(* one, so that the length fixes the descriptor that the copy has reached, *)
(* and a packet that fits in the ring never reaches dma_tx_desc_to_set     *)
(* again from behind.                                                      *)
(*                                                                         *)
(* Content adds the bytes: the descriptors of the DMA carry the accepted   *)
(* packets from where the wire ends, without a gap.                        *)
(***************************************************************************)
EXTENDS EmacTx, DescRingProofs, SequenceTheorems, WellFoundedInduction

LEMMA Sizes ==
  MaxLen \in Nat \ {0} /\ MaxBytes \in Nat \ {0} /\ MaxFrames \in Nat
  BY NumDescAssumption, PacketAssumption

USE NumDescAssumption, Sizes

-----------------------------------------------------------------------------
(***************************************************************************)
(* The inductive invariant                                                 *)
(***************************************************************************)
\* The bytes of c full buffers.
Full(c) == c * MaxLen

\* Buffers that the copy has filled and left.
filled == Dist(dma_tx_desc_to_set, ptr)

\* The first k descriptors from dma_tx_desc_to_set on are the CPU's.
OwnsFirst(k) ==
  \A d \in 0 .. k - 1 : own[Plus(dma_tx_desc_to_set, d)] = "cpu"

\* r descriptors are with the DMA.
RingShape(r) ==
  /\ dma_tx_desc_to_set = Plus(dma_cur, r)
  /\ \A i \in Ring : own[i] = "dma" <=> Dist(dma_cur, i) < r

RingInv == \E r \in 0 .. NumDesc : RingShape(r)

\* The pbuf is a part of the packet.
PbufInv ==
  pc \in {"check", "copy", "next"} => q.len >= 1 /\ q.at + q.len <= packet.n

\* Between two pbufs; the packet's first finds nothing copied.
CheckInv ==
  pc = "check" =>
    /\ copy.length = q.at
    /\ copy.length = Full(filled) + copy.offset
    /\ q.at = 0 => filled = 0
    /\ q.at > 0 => copy.offset >= 1 /\ OwnsFirst(filled + 1)

InPbuf ==
  /\ copy.length = q.at + copy.payload
  /\ copy.count + copy.payload = q.len
  /\ copy.count >= 1

CopyInv ==
  pc = "copy" => /\ InPbuf
                 /\ copy.length = Full(filled) + copy.offset
                 /\ OwnsFirst(filled + 1)

NextInv ==
  pc = "next" => /\ InPbuf
                 /\ Overflows
                 /\ copy.length + Room = Full(filled)
                 /\ OwnsFirst(filled)

ChainInv ==
  pc = "chain" => /\ copy.length = packet.n
                  /\ copy.length = Full(filled) + copy.offset
                  /\ copy.offset >= 1
                  /\ OwnsFirst(filled + 1)

PublishInv ==
  pc = "publish" => /\ LastBuf \in 0 .. NumDesc - 1
                    /\ index <= LastBuf
                    /\ copy.length - Full(LastBuf) \in 1 .. MaxLen
                    /\ OwnsFirst(LastBuf - index + 1)

CallInv ==
  PbufInv /\ CheckInv /\ CopyInv /\ NextInv /\ ChainInv /\ PublishInv

IInv == TypeOK /\ RingInv /\ CallInv

-----------------------------------------------------------------------------
(***************************************************************************)
(* Full buffers and the division of emac_txpkt_chainmode                   *)
(***************************************************************************)
LEMMA FullFacts ==
  ASSUME NEW c \in Nat
  PROVE  Full(c) \in Nat /\ Full(0) = 0 /\ Full(c + 1) = Full(c) + MaxLen
  BY DEF Full

LEMMA FullMonotonic ==
  ASSUME NEW b \in Nat, NEW c \in Nat, b <= c
  PROVE  Full(b) <= Full(c)
<1>1. (c - b) * MaxLen >= 0
  OBVIOUS
<1>2. (c - b) * MaxLen = c * MaxLen - b * MaxLen
  OBVIOUS
<1> QED BY <1>1, <1>2 DEF Full

LEMMA DivOfFull ==
  ASSUME NEW c \in Nat, NEW o \in 0 .. MaxLen - 1
  PROVE  (Full(c) + o) \div MaxLen = c /\ (Full(c) + o) % MaxLen = o
<1>1. (c * MaxLen + o) \div MaxLen = c /\ (c * MaxLen + o) % MaxLen = o
  BY Z3
<1> QED BY <1>1 DEF Full

LEMMA BufCountOfFull ==
  ASSUME NEW c \in Nat, NEW o \in 1 .. MaxLen
  PROVE  BufCount(Full(c) + o) = c + 1
<1>1. MaxLen \in Nat \ {0} /\ Full(c) \in Nat
  BY FullFacts
<1>2. CASE c = 0
  BY <1>1, <1>2, FullFacts DEF BufCount
<1>3. CASE c > 0
  <2>1. Full(c) + o > MaxLen
    <3>1. Full(1) = MaxLen
      BY <1>1 DEF Full
    <3>2. Full(1) <= Full(c)
      BY <1>3, FullMonotonic
    <3> QED BY <1>1, <3>1, <3>2
  <2>2. CASE o < MaxLen
    <3>1. o \in 0 .. MaxLen - 1
      BY <1>1, <2>2
    <3>2. (Full(c) + o) \div MaxLen = c /\ (Full(c) + o) % MaxLen = o
      BY <3>1, DivOfFull
    <3> QED BY <1>1, <2>1, <3>2 DEF BufCount
  <2>3. CASE o = MaxLen
    <3>1. Full(c) + o = Full(c + 1) + 0 /\ c + 1 \in Nat /\ 0 \in 0 .. MaxLen - 1
      BY <1>1, <2>3, FullFacts
    <3>2. (Full(c + 1) + 0) \div MaxLen = c + 1 /\ (Full(c + 1) + 0) % MaxLen = 0
      BY <3>1, DivOfFull
    <3>3. (Full(c) + o) \div MaxLen = c + 1 /\ (Full(c) + o) % MaxLen = 0
      BY <3>1, <3>2
    <3> QED BY <1>1, <2>1, <3>3 DEF BufCount
  <2> QED BY <1>1, <2>2, <2>3
<1> QED BY <1>2, <1>3
-----------------------------------------------------------------------------
(***************************************************************************)
(* Types                                                                   *)
(***************************************************************************)
LEMMA InitIInv == Init => IInv
<1> SUFFICES ASSUME Init
             PROVE  IInv
  OBVIOUS
<1>1. 0 \in Ring /\ 0 \in 0 .. MaxFrames /\ 0 \in 0 .. MaxBytes
  BY DEF Ring
<1>2. << >> \in Seq(Byte) /\ << >> \in Seq(Seq(Byte)) /\ << >> \in Seq(Packet)
  OBVIOUS
<1>3. TypeOK
  <2>1. [id |-> 0, k |-> 0, n |-> 0] \in Byte
    BY <1>1 DEF Byte
  <2>2. buf \in [Ring -> [Offsets -> Byte]]
    BY <2>1 DEF Init
  <2>3. ctrl \in [Ring -> [fs : BOOLEAN, ls : BOOLEAN, size : 0 .. MaxLen]]
    BY DEF Init
  <2>4. copy \in [count : 0 .. MaxBytes, payload : 0 .. MaxBytes,
                  offset : 0 .. MaxLen, length : 0 .. MaxBytes]
    BY <1>1 DEF Init, Idle
  <2>5. packet \in Packet
    BY <1>1 DEF Init, Packet
  <2> QED BY <1>1, <1>2, <2>2, <2>3, <2>4, <2>5 DEF Init, TypeOK
<1>4. RingShape(0)
  <2>1. Plus(0, 0) = 0
    BY <1>1, PlusInRing
  <2>2. \A i \in Ring : ~ (Dist(0, i) < 0)
    BY <1>1, PlusOfDist
  <2> QED BY <2>1, <2>2 DEF Init, RingShape
<1>5. CallInv
  BY DEF Init, CallInv, PbufInv, CheckInv, CopyInv, NextInv, ChainInv, PublishInv
<1> QED BY <1>3, <1>4, <1>5 DEF IInv, RingInv

\* Where in the packet memcpy of n bytes reads them.
Readable(n) ==
  /\ n \in 0 .. MaxLen - copy.offset
  /\ q.at + copy.payload + n <= MaxBytes

LEMMA MemcpyType ==
  ASSUME TypeOK, NEW n \in Int, Readable(n), Memcpy(n)
  PROVE  buf' \in [Ring -> [Offsets -> Byte]]
<1>1. \A o \in Offsets : o \in copy.offset .. copy.offset + n - 1 =>
        ByteOf(packet, q.at + copy.payload + o - copy.offset) \in Byte
  <2> SUFFICES ASSUME NEW o \in copy.offset .. copy.offset + n - 1
               PROVE  ByteOf(packet, q.at + copy.payload + o - copy.offset)
                        \in Byte
    OBVIOUS
  <2>1. q.at \in Nat /\ copy.payload \in Nat /\ copy.offset \in Nat
    BY DEF TypeOK
  <2>2. q.at + copy.payload + o - copy.offset + 1 \in 0 .. MaxBytes
    BY <2>1 DEF Readable
  <2>3. packet.id \in 0 .. MaxFrames /\ packet.n \in 0 .. MaxBytes
    BY DEF TypeOK, Packet
  <2> QED BY <2>2, <2>3 DEF ByteOf, Byte
<1>2. ASSUME NEW i \in Ring, NEW o \in Offsets
      PROVE  buf[i][o] \in Byte
  BY DEF TypeOK
<1> QED BY <1>1, <1>2 DEF TypeOK, Memcpy

LEMMA ReadType ==
  ASSUME TypeOK
  PROVE  [j \in 1 .. ctrl[dma_cur].size |-> buf[dma_cur][j - 1]] \in Seq(Byte)
<1> DEFINE n == ctrl[dma_cur].size
<1>1. n \in 0 .. MaxLen
  BY DEF TypeOK
<1>2. ASSUME NEW j \in 1 .. n
      PROVE  buf[dma_cur][j - 1] \in Byte
  <2>1. buf[dma_cur] \in [Offsets -> Byte]
    BY DEF TypeOK
  <2> HIDE DEF n
  <2>2. j - 1 \in Offsets
    BY <1>1, Sizes DEF Offsets
  <2> QED BY <2>1, <2>2
<1> QED BY <1>1, <1>2

LEMMA SendType ==
  ASSUME TypeOK, DmaSend
  PROVE  sending' \in Seq(Byte) /\ wire' \in Seq(Seq(Byte))
<1> DEFINE d     == ctrl[dma_cur]
           bytes == [j \in 1 .. d.size |-> buf[dma_cur][j - 1]]
           frame == IF d.fs THEN bytes ELSE sending \o bytes
<1>1. bytes \in Seq(Byte)
  BY ReadType
<1>2. frame \in Seq(Byte)
  BY <1>1 DEF TypeOK
<1>3. IF d.ls THEN sending' = << >> /\ wire' = Append(wire, frame)
              ELSE sending' = frame /\ wire' = wire
  BY DEF DmaSend
<1> HIDE DEF frame, bytes, d
<1>4. CASE d.ls
  <2>1. << >> \in Seq(Byte)
    OBVIOUS
  <2>2. wire \in Seq(Seq(Byte))
    BY DEF TypeOK
  <2>3. Append(wire, frame) \in Seq(Seq(Byte))
    BY <1>2, <2>2
  <2> QED BY <1>3, <1>4, <2>1, <2>3
<1>5. CASE ~ d.ls
  BY <1>2, <1>3, <1>5 DEF TypeOK
<1> QED BY <1>4, <1>5

\* The copy stays inside the packet, and the packet inside its bound.
LEMMA CopyReadable ==
  ASSUME TypeOK, CallInv, pc = "copy"
  PROVE  /\ Overflows => Readable(Room)
         /\ ~Overflows => Readable(copy.count)
<1>1. /\ q.at + copy.payload + copy.count <= packet.n
      /\ packet.n <= MaxBytes
  BY DEF TypeOK, Packet, CallInv, CopyInv, InPbuf, PbufInv
<1>2. /\ copy.offset \in 0 .. MaxLen /\ copy.count \in Nat
      /\ q.at \in Nat /\ copy.payload \in Nat /\ packet.n \in Nat
  BY DEF TypeOK, Packet
<1> QED BY <1>1, <1>2 DEF Readable, Overflows, Room

LEMMA Fields ==
  ASSUME TypeOK
  PROVE  /\ copy.count \in Nat /\ copy.payload \in Nat /\ copy.length \in Nat
         /\ copy.offset \in 0 .. MaxLen /\ q.at \in Nat
         /\ q.len \in 0 .. MaxBytes /\ packet.n \in 0 .. MaxBytes
  BY DEF TypeOK, Packet

CopyType == [count : 0 .. MaxBytes, payload : 0 .. MaxBytes,
             offset : 0 .. MaxLen, length : 0 .. MaxBytes]

LEMMA CheckStepType ==
  ASSUME TypeOK, CallInv, CheckOwn \/ CheckOwnNext
  PROVE  TypeOK'
<1>1. CASE CheckOwn
  <2>1. copy' \in CopyType
    <3>1. CASE own[ptr] = "cpu"
      <4>1. copy' = [copy EXCEPT !.count = q.len, !.payload = 0]
        BY <1>1, <3>1 DEF CheckOwn
      <4>2. copy \in CopyType
        BY DEF TypeOK, CopyType
      <4>3. q.len \in 0 .. MaxBytes /\ 0 \in 0 .. MaxBytes
        BY Fields
      <4>4. [copy EXCEPT !.count = q.len] \in CopyType
        BY <4>2, <4>3 DEF CopyType
      <4> QED BY <4>1, <4>3, <4>4 DEF CopyType
    <3>2. CASE own[ptr] /= "cpu"
      BY <1>1, <3>2 DEF CheckOwn, TypeOK, CopyType
    <3> QED BY <3>1, <3>2
  <2> QED BY <1>1, <2>1 DEF CheckOwn, Refuse, ring, hist, TypeOK, CopyType
<1>2. CASE CheckOwnNext
  <2>1. copy' \in CopyType
    <3>1. CASE own[ptr] = "cpu"
      <4>1. /\ copy.length = q.at + copy.payload
            /\ copy.count + copy.payload = q.len
            /\ copy.count + copy.offset > MaxLen
            /\ q.at + q.len <= packet.n
        BY <1>2 DEF CheckOwnNext, CallInv, NextInv, InPbuf, PbufInv, Overflows
      <4>2. /\ copy.count - Room \in 0 .. MaxBytes
            /\ copy.payload + Room \in 0 .. MaxBytes
            /\ copy.length + Room \in 0 .. MaxBytes
        BY <4>1, Fields DEF Room
      <4>3. copy' = [count |-> copy.count - Room,
                     payload |-> copy.payload + Room,
                     offset |-> 0, length |-> copy.length + Room]
        BY <1>2, <3>1 DEF CheckOwnNext
      <4> QED BY <4>2, <4>3 DEF CopyType
    <3>2. CASE own[ptr] /= "cpu"
      BY <1>2, <3>2 DEF CheckOwnNext, TypeOK, CopyType
    <3> QED BY <3>1, <3>2
  <2> QED BY <1>2, <2>1 DEF CheckOwnNext, Refuse, ring, hist, TypeOK, CopyType
<1> QED BY <1>1, <1>2

LEMMA FillStepType ==
  ASSUME TypeOK, CallInv, CopyFill
  PROVE  TypeOK'
<1>1. buf' \in [Ring -> [Offsets -> Byte]]
  <2>1. Room \in Int
    BY Fields DEF Room
  <2> QED BY <2>1, CopyReadable, MemcpyType DEF CopyFill
<1>2. Succ(ptr) \in Ring
  BY SuccInRing DEF TypeOK
<1> QED BY <1>1, <1>2 DEF CopyFill, hist, TypeOK

LEMMA RestStepType ==
  ASSUME TypeOK, CallInv, CopyRest
  PROVE  TypeOK'
<1>1. buf' \in [Ring -> [Offsets -> Byte]]
  <2>1. copy.count \in Int
    BY Fields
  <2> QED BY <2>1, CopyReadable, MemcpyType DEF CopyRest
<1>2. /\ copy.length = q.at + copy.payload
      /\ copy.count + copy.payload = q.len
      /\ ~ (copy.count + copy.offset > MaxLen)
      /\ q.at + q.len <= packet.n
  BY DEF CopyRest, CallInv, CopyInv, InPbuf, PbufInv, Overflows
<1>3. /\ copy.offset + copy.count \in 0 .. MaxLen
      /\ copy.length + copy.count \in 0 .. MaxBytes
      /\ q.at + q.len \in 0 .. MaxBytes
  BY <1>2, Fields
<1>4. copy' \in CopyType
  <2>1. copy' = [copy EXCEPT !.offset = copy.offset + copy.count,
                             !.length = copy.length + copy.count]
    BY DEF CopyRest
  <2>2. copy \in CopyType
    BY DEF TypeOK, CopyType
  <2> QED BY <1>3, <2>1, <2>2 DEF CopyType
<1>5. q' \in [at : 0 .. MaxBytes, len : 0 .. MaxBytes]
      /\ pc' \in {"chain", "check"}
  <2>1. CASE q.at + q.len = packet.n
    BY <2>1 DEF CopyRest, TypeOK
  <2>2. CASE q.at + q.len /= packet.n
    <3>1. PICK len \in 1 .. packet.n - (q.at + q.len) :
            q' = [at |-> q.at + q.len, len |-> len]
      BY <2>2 DEF CopyRest
    <3>2. len \in 0 .. MaxBytes
      BY <1>3, Fields
    <3>3. pc' = "check"
      BY <2>2 DEF CopyRest
    <3> QED BY <1>3, <3>1, <3>2, <3>3
  <2> QED BY <2>1, <2>2
<1> QED BY <1>1, <1>4, <1>5 DEF CopyRest, hist, TypeOK, CopyType

\* The size that is written to a descriptor.
LEMMA DescriptorType ==
  ASSUME TypeOK, CallInv, pc = "publish"
  PROVE  Descriptor \in [fs : BOOLEAN, ls : BOOLEAN, size : 0 .. MaxLen]
<1>1. copy.length - Full(LastBuf) \in 1 .. MaxLen
  BY DEF CallInv, PublishInv
<1> QED BY <1>1 DEF Descriptor, Full

LEMMA TypeStep ==
  ASSUME TypeOK, CallInv, [Next]_vars
  PROVE  TypeOK'
<1> USE DEF TypeOK
<1>1. CASE DmaSend
  <2>1. Succ(dma_cur) \in Ring
    BY SuccInRing
  <2> QED BY <1>1, <2>1, SendType DEF DmaSend, locals, hist
<1>2. CASE DmaSuspend
  BY <1>2 DEF DmaSuspend, locals, hist
<1>3. CASE Output
  <2>1. calls + 1 \in 0 .. MaxFrames
    BY <1>3 DEF Output
  <2>2. PICK n \in 1 .. MaxBytes : \E len \in 1 .. n :
          /\ packet' = [id |-> calls + 1, n |-> n]
          /\ q' = [at |-> 0, len |-> len]
    BY <1>3 DEF Output
  <2>3. packet' \in Packet /\ q' \in [at : 0 .. MaxBytes, len : 0 .. MaxBytes]
    BY <2>1, <2>2 DEF Packet
  <2>4. copy' \in [count : 0 .. MaxBytes, payload : 0 .. MaxBytes,
                   offset : 0 .. MaxLen, length : 0 .. MaxBytes]
    BY <1>3 DEF Output, Idle
  <2> QED BY <1>3, <2>1, <2>3, <2>4 DEF Output, ring, hist
<1>4. CASE CheckOwn \/ CopyFill \/ CheckOwnNext \/ CopyRest
  BY <1>4, CheckStepType, FillStepType, RestStepType
<1>5. CASE ChainCheck
  <2>1. Append(accepted, packet) \in Seq(Packet)
    OBVIOUS
  <2> QED BY <1>5, <2>1 DEF ChainCheck, ring
<1>6. CASE Publish
  <2>1. Succ(dma_tx_desc_to_set) \in Ring
    BY SuccInRing
  <2>2. ctrl' \in [Ring -> [fs : BOOLEAN, ls : BOOLEAN, size : 0 .. MaxLen]]
    BY <1>6, DescriptorType DEF Publish
  <2>3. own' \in [Ring -> {"dma", "cpu"}] /\ index' \in Nat
        /\ pc' \in {"publish", "resume"}
    BY <1>6 DEF Publish
  <2> QED BY <1>6, <2>1, <2>2, <2>3 DEF Publish, hist
<1>7. CASE CheckTbuChained \/ PollDemandChained
  BY <1>7 DEF CheckTbuChained, PollDemandChained, hist
<1>8. CASE CheckTbu \/ PollDemand
  BY <1>8 DEF CheckTbu, PollDemand, Return, Packet
<1>9. CASE UNCHANGED vars
  BY <1>9 DEF vars, ring, locals, hist
<1> QED
  BY <1>1, <1>2, <1>3, <1>4, <1>5, <1>6, <1>7, <1>8, <1>9
  DEF Next, Dma, Driver

-----------------------------------------------------------------------------
(***************************************************************************)
(* The ring                                                                *)
(***************************************************************************)
LEMMA Cursors ==
  ASSUME TypeOK
  PROVE  dma_cur \in Ring /\ dma_tx_desc_to_set \in Ring /\ ptr \in Ring
  BY DEF TypeOK

\* A full ring has no descriptor of the CPU.
LEMMA CpuHasRoom ==
  ASSUME TypeOK, NEW r \in 0 .. NumDesc, RingShape(r),
         own[dma_tx_desc_to_set] = "cpu"
  PROVE  r < NumDesc
<1> SUFFICES ASSUME r = NumDesc
             PROVE  FALSE
  OBVIOUS
<1>1. dma_tx_desc_to_set = dma_cur
  BY Cursors, PlusInRing DEF RingShape
<1>2. Dist(dma_cur, dma_cur) \in 0 .. NumDesc - 1
  BY Cursors, PlusOfDist
<1> QED BY <1>1, <1>2, Cursors DEF RingShape

\* What the DMA has sent is the CPU's: its part shrinks from the near end.
LEMMA SendShape ==
  ASSUME TypeOK, NEW r \in 0 .. NumDesc, RingShape(r), DmaSend
  PROVE  r - 1 \in 0 .. NumDesc - 1 /\ RingShape(r - 1)'
<1>1. dma_cur \in Ring /\ own[dma_cur] = "dma"
  BY Cursors DEF DmaSend
<1>2. Dist(dma_cur, dma_cur) = 0
  BY <1>1, PlusInRing, DistOfPlus
<1>3. r - 1 \in 0 .. NumDesc - 1
  BY <1>1, <1>2 DEF RingShape
<1>4. dma_tx_desc_to_set' = Plus(dma_cur', r - 1)
  <2>1. Plus(Succ(dma_cur), r - 1) = Plus(dma_cur, r - 1 + 1)
    BY <1>1, <1>3, PlusOneMore
  <2>2. r - 1 + 1 = r
    OBVIOUS
  <2> QED BY <2>1, <2>2 DEF RingShape, DmaSend
<1>5. ASSUME NEW i \in Ring
      PROVE  own'[i] = "dma" <=> Dist(dma_cur', i) < r - 1
  <2>1. Dist(Succ(dma_cur), i) =
          IF i = dma_cur THEN NumDesc - 1 ELSE Dist(dma_cur, i) - 1
    BY <1>1, DistOneLess
  <2>2. Dist(dma_cur, i) \in 0 .. NumDesc - 1
    BY <1>1, PlusOfDist
  <2>3. own'[i] = IF i = dma_cur THEN "cpu" ELSE own[i]
    BY DEF DmaSend, TypeOK
  <2>4. dma_cur' = Succ(dma_cur)
    BY DEF DmaSend
  <2>5. own[i] = "dma" <=> Dist(dma_cur, i) < r
    BY DEF RingShape
  <2>6. CASE i = dma_cur
    BY <1>3, <2>1, <2>3, <2>4, <2>6
  <2>7. CASE i /= dma_cur
    BY <1>3, <2>1, <2>2, <2>3, <2>4, <2>5, <2>7
  <2> QED BY <2>6, <2>7
<1>6. RingShape(r - 1)'
  BY <1>4, <1>5 DEF RingShape
<1> QED BY <1>3, <1>6

LEMMA SendRing ==
  ASSUME TypeOK, RingInv, DmaSend
  PROVE  RingInv'
<1>1. PICK r \in 0 .. NumDesc : RingShape(r)
  BY DEF RingInv
<1>2. r - 1 \in 0 .. NumDesc - 1 /\ RingShape(r - 1)'
  BY <1>1, SendShape
<1>3. r - 1 \in 0 .. NumDesc
  BY <1>2
<1> QED BY <1>2, <1>3 DEF RingInv

\* What the driver publishes lengthens the DMA's part at the far end.
LEMMA PublishShape ==
  ASSUME TypeOK, NEW r \in 0 .. NumDesc, RingShape(r), Publish,
         own[dma_tx_desc_to_set] = "cpu"
  PROVE  r + 1 \in 0 .. NumDesc /\ RingShape(r + 1)'
<1>1. r \in 0 .. NumDesc - 1 /\ r + 1 \in 0 .. NumDesc
  BY CpuHasRoom
<1>2. dma_tx_desc_to_set = Plus(dma_cur, r)
  BY DEF RingShape
<1>3. dma_tx_desc_to_set' = Plus(dma_cur', r + 1)
  BY <1>1, <1>2, Cursors, PlusOneMore DEF Publish
<1>4. ASSUME NEW i \in Ring
      PROVE  own'[i] = "dma" <=> Dist(dma_cur', i) < r + 1
  <2>1. Dist(dma_cur, i) \in 0 .. NumDesc - 1 /\ Plus(dma_cur, Dist(dma_cur, i)) = i
    BY Cursors, PlusOfDist
  <2>2. Dist(dma_cur, dma_tx_desc_to_set) = r
    BY <1>1, <1>2, Cursors, DistOfPlus
  <2>3. own'[i] = IF i = dma_tx_desc_to_set THEN "dma" ELSE own[i]
    BY DEF Publish, TypeOK
  <2>4. dma_cur' = dma_cur
    BY DEF Publish
  <2>5. own[i] = "dma" <=> Dist(dma_cur, i) < r
    BY DEF RingShape
  <2>6. CASE i = dma_tx_desc_to_set
    BY <1>1, <2>2, <2>3, <2>4, <2>6
  <2>7. CASE i /= dma_tx_desc_to_set
    <3>1. Dist(dma_cur, i) /= r
      BY <1>2, <2>1, <2>7
    <3> QED BY <1>1, <2>1, <2>3, <2>4, <2>5, <2>7, <3>1
  <2> QED BY <2>6, <2>7
<1>5. RingShape(r + 1)'
  BY <1>3, <1>4 DEF RingShape
<1> QED BY <1>1, <1>5

LEMMA PublishRing ==
  ASSUME TypeOK, RingInv, Publish, own[dma_tx_desc_to_set] = "cpu"
  PROVE  RingInv'
  BY PublishShape DEF RingInv

LEMMA SameRing ==
  ASSUME RingInv, UNCHANGED <<own, dma_cur, dma_tx_desc_to_set>>
  PROVE  RingInv'
  BY DEF RingInv, RingShape

\* The DMA never takes a descriptor: the CPU keeps what it owns.
LEMMA OwnsLater ==
  ASSUME TypeOK, dma_tx_desc_to_set' = dma_tx_desc_to_set,
         \A i \in Ring : own[i] = "cpu" => own'[i] = "cpu",
         NEW k \in 0 .. NumDesc, OwnsFirst(k)
  PROVE  OwnsFirst(k)'
<1>1. \A d \in 0 .. k - 1 : Plus(dma_tx_desc_to_set, d) \in Ring
  BY Cursors, PlusInRing
<1> QED BY <1>1 DEF OwnsFirst

\* The descriptor that the copy has reached.
LEMMA FilledFacts ==
  ASSUME TypeOK
  PROVE  filled \in 0 .. NumDesc - 1 /\ ptr = Plus(dma_tx_desc_to_set, filled)
  BY Cursors, PlusOfDist DEF filled

LEMMA OwnsOneMore ==
  ASSUME TypeOK, OwnsFirst(filled), own[ptr] = "cpu"
  PROVE  OwnsFirst(filled + 1)
<1>1. filled \in 0 .. NumDesc - 1 /\ ptr = Plus(dma_tx_desc_to_set, filled)
  BY FilledFacts
<1>2. ASSUME NEW d \in 0 .. (filled + 1) - 1
      PROVE  own[Plus(dma_tx_desc_to_set, d)] = "cpu"
  <2>1. d \in 0 .. filled - 1 \/ d = filled
    BY <1>1
  <2> QED BY <1>1, <2>1 DEF OwnsFirst
<1> QED BY <1>2 DEF OwnsFirst

-----------------------------------------------------------------------------
(***************************************************************************)
(* The call.  One lemma per action: what its place in the call needs.      *)
(***************************************************************************)
\* Nothing is claimed of a call outside copy and chaining.
LEMMA ElsewhereCall ==
  ASSUME pc' \in {"idle", "resume", "demand", "out", "outdemand"}
  PROVE  CallInv'
  BY DEF CallInv, PbufInv, CheckInv, CopyInv, NextInv, ChainInv, PublishInv

\* Steps of the DMA, and steps of nobody.
LEMMA DmaCall ==
  ASSUME TypeOK, CallInv, UNCHANGED <<dma_tx_desc_to_set, calls, locals>>,
         \A i \in Ring : own[i] = "cpu" => own'[i] = "cpu"
  PROVE  CallInv'
<1>1. filled' = filled /\ LastBuf' = LastBuf /\ Overflows' = Overflows
      /\ Room' = Room /\ InPbuf' = InPbuf
  BY DEF filled, LastBuf, Overflows, Room, InPbuf, locals
<1>2. filled \in 0 .. NumDesc /\ filled + 1 \in 0 .. NumDesc
  BY FilledFacts
<1>3. PbufInv' /\ CheckInv'
  BY <1>1, <1>2, OwnsLater DEF CallInv, PbufInv, CheckInv, locals
<1>4. CopyInv' /\ NextInv'
  BY <1>1, <1>2, OwnsLater DEF CallInv, CopyInv, NextInv, locals
<1>5. ChainInv'
  BY <1>1, <1>2, OwnsLater DEF CallInv, ChainInv, locals
<1>6. PublishInv'
  <2> SUFFICES ASSUME pc = "publish"
               PROVE  PublishInv'
    BY DEF PublishInv, locals
  <2>1. LastBuf \in 0 .. NumDesc - 1 /\ index \in Nat /\ index <= LastBuf
    BY DEF CallInv, PublishInv, TypeOK
  <2>2. LastBuf - index + 1 \in 0 .. NumDesc
    BY <2>1
  <2>3. OwnsFirst(LastBuf - index + 1)'
    BY <1>1, <2>2, OwnsLater DEF CallInv, PublishInv, locals
  <2> QED BY <1>1, <2>3 DEF CallInv, PublishInv, locals
<1> QED BY <1>3, <1>4, <1>5, <1>6 DEF CallInv

LEMMA OutputCall ==
  ASSUME TypeOK, Output
  PROVE  CallInv'
<1>1. PICK n \in 1 .. MaxBytes : \E len \in 1 .. n :
        /\ packet' = [id |-> calls + 1, n |-> n]
        /\ q' = [at |-> 0, len |-> len]
  BY DEF Output
<1>2. q'.at = 0 /\ q'.len >= 1 /\ q'.at + q'.len <= packet'.n
  BY <1>1
<1>3. filled' = 0
  <2>1. ptr' = dma_tx_desc_to_set /\ dma_tx_desc_to_set' = dma_tx_desc_to_set
    BY DEF Output
  <2>2. Dist(dma_tx_desc_to_set, dma_tx_desc_to_set) = 0
    BY Cursors, PlusInRing, DistOfPlus
  <2> QED BY <2>1, <2>2 DEF filled
<1>4. copy'.length = 0 /\ copy'.offset = 0 /\ pc' = "check" /\ Full(0) = 0
  BY FullFacts DEF Output, Idle
<1> QED
  BY <1>2, <1>3, <1>4
  DEF CallInv, PbufInv, CheckInv, CopyInv, NextInv, ChainInv, PublishInv

\* The first descriptor of a pbuf: the one that the last pbuf ended in.
LEMMA CheckOwnCall ==
  ASSUME TypeOK, CallInv, CheckOwn
  PROVE  CallInv'
<1>1. CASE own[ptr] = "cpu"
  <2>1. /\ pc = "check" /\ pc' = "copy"
        /\ copy' = [copy EXCEPT !.count = q.len, !.payload = 0]
        /\ UNCHANGED <<ptr, own, dma_tx_desc_to_set, q, packet>>
    BY <1>1 DEF CheckOwn, ring
  <2>2. /\ copy'.count = q.len /\ copy'.payload = 0
        /\ copy'.length = copy.length /\ copy'.offset = copy.offset
    BY <2>1 DEF TypeOK
  <2>3. filled' = filled
    BY <2>1 DEF filled
  <2>4. OwnsFirst(filled + 1)
    <3>1. CASE q.at = 0
      <4>1. OwnsFirst(filled)
        BY <2>1, <3>1 DEF CallInv, CheckInv, OwnsFirst
      <4> QED BY <1>1, <4>1, OwnsOneMore
    <3>2. CASE q.at > 0
      BY <2>1, <3>2 DEF CallInv, CheckInv
    <3> QED BY <3>1, <3>2, Fields
  <2>5. InPbuf'
    BY <2>1, <2>2, Fields DEF InPbuf, CallInv, PbufInv, CheckInv
  <2>6. PbufInv'
    BY <2>1 DEF CallInv, PbufInv
  <2>7. CopyInv'
    BY <2>1, <2>2, <2>3, <2>4, <2>5 DEF CopyInv, CallInv, CheckInv, OwnsFirst
  <2> QED
    BY <2>1, <2>6, <2>7
    DEF CallInv, CheckInv, NextInv, ChainInv, PublishInv
<1>2. CASE own[ptr] /= "cpu"
  BY <1>2, ElsewhereCall DEF CheckOwn, Refuse
<1> QED BY <1>1, <1>2

\* A packet that fits in the ring leaves a descriptor for what is to come.
LEMMA RoomForMore ==
  ASSUME TypeOK, CallInv, pc = "copy", Overflows
  PROVE  filled + 1 \in 0 .. NumDesc - 1
<1>1. filled \in 0 .. NumDesc - 1
  BY FilledFacts
<1>2. Full(filled) + copy.offset + copy.count <= MaxBytes
  BY Fields DEF CallInv, PbufInv, CopyInv, InPbuf
<1>3. MaxBytes <= Full(NumDesc)
  BY PacketAssumption DEF Full
<1>4. Full(filled + 1) < Full(NumDesc)
  BY <1>1, <1>2, <1>3, FullFacts, Fields DEF Overflows
<1>5. ~ (NumDesc <= filled + 1)
  BY <1>1, <1>4, FullMonotonic, FullFacts
<1> QED BY <1>1, <1>5

LEMMA FillCall ==
  ASSUME TypeOK, CallInv, CopyFill
  PROVE  CallInv'
<1>1. /\ pc = "copy" /\ pc' = "next" /\ Overflows /\ ptr' = Succ(ptr)
      /\ UNCHANGED <<own, dma_tx_desc_to_set, copy, q, packet>>
  BY DEF CopyFill
<1>2. filled \in 0 .. NumDesc - 1 /\ filled + 1 \in 0 .. NumDesc - 1
  BY <1>1, FilledFacts, RoomForMore
<1>3. filled' = filled + 1
  <2>1. ptr' = Plus(dma_tx_desc_to_set, filled + 1)
    BY <1>1, <1>2, FilledFacts, Cursors, PlusOneMore
  <2>2. Dist(dma_tx_desc_to_set, ptr') = filled + 1
    BY <1>2, <2>1, Cursors, DistOfPlus
  <2> QED BY <1>1, <2>2 DEF filled
<1>4. copy.length + Room = Full(filled + 1)
  BY <1>1, <1>2, FullFacts, Fields DEF CallInv, CopyInv, Room
<1>5. OwnsFirst(filled)'
  <2>1. OwnsFirst(filled + 1)
    BY <1>1 DEF CallInv, CopyInv
  <2>2. \A d \in 0 .. filled' - 1 : own[Plus(dma_tx_desc_to_set, d)] = "cpu"
    BY <1>3, <2>1 DEF OwnsFirst
  <2> QED BY <1>1, <2>2 DEF OwnsFirst
<1>6. NextInv'
  <2>1. InPbuf' /\ Overflows' /\ Room' = Room
    BY <1>1 DEF CallInv, CopyInv, InPbuf, Overflows, Room
  <2> QED BY <1>1, <1>3, <1>4, <1>5, <2>1 DEF NextInv
<1>7. PbufInv'
  BY <1>1 DEF CallInv, PbufInv
<1> QED BY <1>1, <1>6, <1>7 DEF CallInv, CheckInv, CopyInv, ChainInv, PublishInv

LEMMA CheckOwnNextCall ==
  ASSUME TypeOK, CallInv, CheckOwnNext
  PROVE  CallInv'
<1>1. CASE own[ptr] = "cpu"
  <2>1. /\ pc = "next" /\ pc' = "copy"
        /\ copy'.count = copy.count - Room
        /\ copy'.payload = copy.payload + Room
        /\ copy'.offset = 0 /\ copy'.length = copy.length + Room
        /\ UNCHANGED <<ptr, own, dma_tx_desc_to_set, q, packet>>
    BY <1>1 DEF CheckOwnNext, ring
  <2>2. filled' = filled
    BY <2>1 DEF filled
  <2>3. OwnsFirst(filled + 1)
    BY <1>1, <2>1, OwnsOneMore DEF CallInv, NextInv
  <2>4. InPbuf'
    BY <2>1, Fields DEF InPbuf, CallInv, NextInv, Overflows, Room
  <2>5. copy'.length = Full(filled) + copy'.offset
    BY <2>1, FilledFacts, FullFacts DEF CallInv, NextInv
  <2>6. CopyInv'
    BY <2>1, <2>2, <2>3, <2>4, <2>5 DEF CopyInv, OwnsFirst
  <2>7. PbufInv'
    BY <2>1 DEF CallInv, PbufInv
  <2> QED
    BY <2>1, <2>6, <2>7
    DEF CallInv, CheckInv, NextInv, ChainInv, PublishInv
<1>2. CASE own[ptr] /= "cpu"
  BY <1>2, ElsewhereCall DEF CheckOwnNext, Refuse
<1> QED BY <1>1, <1>2

LEMMA RestCall ==
  ASSUME TypeOK, CallInv, CopyRest
  PROVE  CallInv'
<1>1. /\ pc = "copy"
      /\ copy' = [copy EXCEPT !.offset = copy.offset + copy.count,
                              !.length = copy.length + copy.count]
      /\ UNCHANGED <<ptr, own, dma_tx_desc_to_set, packet>>
  BY DEF CopyRest
<1>2. /\ copy'.offset = copy.offset + copy.count
      /\ copy'.length = copy.length + copy.count
  BY <1>1 DEF TypeOK
<1>3. filled' = filled
  BY <1>1 DEF filled
<1>4. /\ copy'.length = q.at + q.len
      /\ copy'.length = Full(filled) + copy'.offset
      /\ copy'.offset >= 1
  BY <1>1, <1>2, FilledFacts, FullFacts, Fields DEF CallInv, CopyInv, InPbuf
<1>5. OwnsFirst(filled + 1)'
  BY <1>1, <1>3 DEF CallInv, CopyInv, OwnsFirst
<1>6. CASE q.at + q.len = packet.n
  <2>1. pc' = "chain"
    BY <1>6 DEF CopyRest
  <2>2. ChainInv'
    BY <1>1, <1>3, <1>4, <1>5, <1>6 DEF ChainInv
  <2> QED
    BY <2>1, <2>2
    DEF CallInv, PbufInv, CheckInv, CopyInv, NextInv, PublishInv
<1>7. CASE q.at + q.len /= packet.n
  <2>1. PICK len \in 1 .. packet.n - (q.at + q.len) :
          q' = [at |-> q.at + q.len, len |-> len]
    BY <1>7 DEF CopyRest
  <2>2. pc' = "check"
    BY <1>7 DEF CopyRest
  <2>3. q'.at = q.at + q.len /\ q'.len = len
    BY <2>1
  <2>4. PbufInv'
    BY <1>1, <2>3, Fields DEF PbufInv
  <2>5. q'.at > 0
    BY <1>1, <2>3, Fields DEF CallInv, PbufInv
  <2>6. CheckInv'
    BY <1>3, <1>4, <1>5, <2>3, <2>5, Fields DEF CheckInv
  <2> QED
    BY <2>2, <2>4, <2>6
    DEF CallInv, CopyInv, NextInv, ChainInv, PublishInv
<1> QED BY <1>6, <1>7

\* However the packet was split, its length tells how many buffers it fills.
LEMMA ChainCounts ==
  ASSUME TypeOK, CallInv, pc = "chain"
  PROVE  /\ LastBuf = filled
         /\ copy.length - Full(filled) \in 1 .. MaxLen
         /\ copy.length = packet.n /\ copy.length >= 1
         /\ own[dma_tx_desc_to_set] = "cpu"
<1>1. /\ copy.length = Full(filled) + copy.offset
      /\ copy.offset \in 1 .. MaxLen
      /\ copy.length = packet.n
      /\ OwnsFirst(filled + 1)
  BY Fields DEF CallInv, ChainInv
<1>2. filled \in 0 .. NumDesc - 1 /\ Full(filled) \in Nat
  BY FilledFacts, FullFacts
<1>3. BufCount(copy.length) = filled + 1
  BY <1>1, <1>2, BufCountOfFull
<1>4. LastBuf = filled
  BY <1>2, <1>3 DEF LastBuf
<1>5. copy.length - Full(filled) \in 1 .. MaxLen /\ copy.length >= 1
  BY <1>1, <1>2
<1>6. own[dma_tx_desc_to_set] = "cpu"
  <2>1. 0 \in 0 .. (filled + 1) - 1
    BY <1>2
  <2>2. own[Plus(dma_tx_desc_to_set, 0)] = "cpu"
    BY <1>1, <2>1 DEF OwnsFirst
  <2> QED BY <2>2, Cursors, PlusInRing
<1> QED BY <1>1, <1>4, <1>5, <1>6

LEMMA ChainCheckCall ==
  ASSUME TypeOK, CallInv, ChainCheck
  PROVE  CallInv'
<1>1. pc = "chain" /\ index' = 0
      /\ UNCHANGED <<own, dma_tx_desc_to_set, copy, ptr>>
  BY DEF ChainCheck, ring
<1>2. pc' = "publish"
  BY <1>1, ChainCounts, Fields DEF ChainCheck
<1>3. LastBuf' = LastBuf /\ LastBuf = filled /\ filled \in 0 .. NumDesc - 1
  BY <1>1, ChainCounts, FilledFacts DEF LastBuf
<1>4. (LastBuf - index + 1)' = filled + 1
  BY <1>1, <1>3
<1>5. OwnsFirst(filled + 1)
  BY <1>1 DEF CallInv, ChainInv
<1>6. \A d \in 0 .. (LastBuf - index + 1)' - 1 :
         own[Plus(dma_tx_desc_to_set, d)] = "cpu"
  BY <1>4, <1>5 DEF OwnsFirst
<1>7. OwnsFirst(LastBuf - index + 1)'
  BY <1>1, <1>6 DEF OwnsFirst
<1>8. copy'.length - Full(filled) \in 1 .. MaxLen
  BY <1>1, ChainCounts
<1>9. PublishInv'
  BY <1>1, <1>3, <1>7, <1>8 DEF PublishInv
<1> QED
  BY <1>2, <1>9 DEF CallInv, PbufInv, CheckInv, CopyInv, NextInv, ChainInv

\* The next descriptor to publish is the CPU's.
LEMMA PublishOwned ==
  ASSUME TypeOK, CallInv, pc = "publish"
  PROVE  own[dma_tx_desc_to_set] = "cpu"
<1>1. LastBuf \in 0 .. NumDesc - 1 /\ index \in Nat /\ index <= LastBuf
      /\ OwnsFirst(LastBuf - index + 1)
  BY DEF CallInv, PublishInv, TypeOK
<1>2. 0 \in 0 .. (LastBuf - index + 1) - 1
  BY <1>1
<1>3. own[Plus(dma_tx_desc_to_set, 0)] = "cpu"
  BY <1>1, <1>2 DEF OwnsFirst
<1> QED BY <1>3, Cursors, PlusInRing

LEMMA PublishCall ==
  ASSUME TypeOK, CallInv, Publish
  PROVE  CallInv'
<1>1. CASE index < LastBuf
  <2>1. /\ pc = "publish" /\ pc' = "publish" /\ index' = index + 1
        /\ dma_tx_desc_to_set' = Succ(dma_tx_desc_to_set)
        /\ own' = [own EXCEPT ![dma_tx_desc_to_set] = "dma"]
        /\ copy' = copy
    BY <1>1 DEF Publish
  <2>2. LastBuf \in 0 .. NumDesc - 1 /\ index \in Nat
        /\ OwnsFirst(LastBuf - index + 1)
    BY <2>1 DEF CallInv, PublishInv, TypeOK
  <2>3. LastBuf' = LastBuf
    BY <2>1 DEF LastBuf
  <2>4. ASSUME NEW d \in 0 .. (LastBuf - index + 1)' - 1
        PROVE  own'[Plus(dma_tx_desc_to_set', d)] = "cpu"
    <3>1. d \in 0 .. NumDesc - 1 /\ d + 1 \in 0 .. NumDesc - 1
          /\ d + 1 \in 0 .. (LastBuf - index + 1) - 1
      BY <1>1, <2>1, <2>2, <2>3
    <3>2. Plus(dma_tx_desc_to_set', d) = Plus(dma_tx_desc_to_set, d + 1)
      BY <2>1, <3>1, Cursors, PlusOneMore
    <3>3. own[Plus(dma_tx_desc_to_set, d + 1)] = "cpu"
      BY <2>2, <3>1 DEF OwnsFirst
    <3>4. Plus(dma_tx_desc_to_set, d + 1) /= dma_tx_desc_to_set
      <4>1. Plus(dma_tx_desc_to_set, 0) = dma_tx_desc_to_set
        BY Cursors, PlusInRing
      <4>2. 0 \in 0 .. NumDesc - 1 /\ d + 1 /= 0
        BY <3>1
      <4> QED BY <3>1, <4>1, <4>2, Cursors, PlusInjective
    <3>5. Plus(dma_tx_desc_to_set, d + 1) \in Ring
      BY <3>1, Cursors, PlusInRing
    <3> QED BY <2>1, <3>2, <3>3, <3>4, <3>5 DEF TypeOK
  <2>5. OwnsFirst(LastBuf - index + 1)'
    BY <2>4 DEF OwnsFirst
  <2>6. PublishInv'
    BY <1>1, <2>1, <2>2, <2>3, <2>5 DEF CallInv, PublishInv
  <2> QED
    BY <2>1, <2>6 DEF CallInv, PbufInv, CheckInv, CopyInv, NextInv, ChainInv
<1>2. CASE ~ (index < LastBuf)
  BY <1>2, ElsewhereCall DEF Publish
<1> QED BY <1>1, <1>2

-----------------------------------------------------------------------------
(***************************************************************************)
(* The invariant                                                           *)
(***************************************************************************)
LEMMA NextIInv ==
  ASSUME IInv, [Next]_vars
  PROVE  IInv'
<1>1. TypeOK /\ RingInv /\ CallInv
  BY DEF IInv
<1>2. TypeOK'
  BY <1>1, TypeStep
<1>3. CASE DmaSend
  <2>1. RingInv'
    BY <1>1, <1>3, SendRing
  <2>2. \A i \in Ring : own[i] = "cpu" => own'[i] = "cpu"
    BY <1>1, <1>3 DEF DmaSend, TypeOK
  <2>3. CallInv'
    BY <1>1, <1>3, <2>2, DmaCall DEF DmaSend
  <2> QED BY <1>2, <2>1, <2>3 DEF IInv
<1>4. CASE DmaSuspend \/ UNCHANGED vars
  <2>1. UNCHANGED <<own, dma_cur, dma_tx_desc_to_set, calls, locals>>
    BY <1>4 DEF DmaSuspend, vars, ring
  <2> QED BY <1>1, <1>2, <2>1, SameRing, DmaCall DEF IInv
<1>5. CASE Output \/ CheckOwn \/ CopyFill \/ CheckOwnNext \/ CopyRest
           \/ ChainCheck
  <2>1. UNCHANGED <<own, dma_cur, dma_tx_desc_to_set>>
    BY <1>5 DEF Output, CheckOwn, CopyFill, CheckOwnNext, CopyRest,
                ChainCheck, ring
  <2>2. CallInv'
    BY <1>1, <1>5, OutputCall, CheckOwnCall, FillCall, CheckOwnNextCall,
       RestCall, ChainCheckCall
  <2> QED BY <1>1, <1>2, <2>1, <2>2, SameRing DEF IInv
<1>6. CASE Publish
  <2>1. RingInv'
    BY <1>1, <1>6, PublishOwned, PublishRing DEF Publish
  <2> QED BY <1>1, <1>2, <1>6, <2>1, PublishCall DEF IInv
<1>7. CASE CheckTbuChained \/ PollDemandChained \/ CheckTbu \/ PollDemand
  <2>1. UNCHANGED <<own, dma_cur, dma_tx_desc_to_set>>
        /\ pc' \in {"idle", "resume", "demand", "out", "outdemand"}
    BY <1>7 DEF CheckTbuChained, PollDemandChained, CheckTbu, PollDemand, Return
  <2> QED BY <1>1, <1>2, <2>1, SameRing, ElsewhereCall DEF IInv
<1> QED BY <1>3, <1>4, <1>5, <1>6, <1>7 DEF Next, Dma, Driver

-----------------------------------------------------------------------------
(***************************************************************************)
(* The bytes of the packet that the driver is at                           *)
(***************************************************************************)
\* The first c bytes of the packet are in the buffers.
Copied(c) ==
  \A m \in 0 .. NumDesc - 1, o \in Offsets : Full(m) + o < c =>
    buf[Plus(dma_tx_desc_to_set, m)][o] = ByteOf(packet, Full(m) + o)

\* The buffers that are still to be published have their part of the packet.
ToPublish ==
  \A m \in 0 .. LastBuf - index, o \in Offsets :
    Full(index + m) + o < packet.n =>
      buf[Plus(dma_tx_desc_to_set, m)][o] = ByteOf(packet, Full(index + m) + o)

BytesInv ==
  /\ pc \in {"check", "copy", "chain"} => Copied(copy.length)
  /\ pc = "next" => Copied(copy.length + Room)
  /\ pc = "publish" => copy.length = packet.n /\ ToPublish

\* memcpy of n bytes goes on where the copy was.
LEMMA MemcpyCopies ==
  ASSUME TypeOK, CallInv, pc = "copy", Copied(copy.length), NEW n \in Nat,
         copy.offset + n <= MaxLen, Memcpy(n),
         UNCHANGED <<dma_tx_desc_to_set, packet>>,
         NEW m \in 0 .. NumDesc - 1, NEW o \in Offsets,
         Full(m) + o < copy.length + n
  PROVE  buf'[Plus(dma_tx_desc_to_set, m)][o] = ByteOf(packet, Full(m) + o)
<1> DEFINE i == Plus(dma_tx_desc_to_set, m)
<1>1. /\ filled \in 0 .. NumDesc - 1 /\ ptr = Plus(dma_tx_desc_to_set, filled)
      /\ ptr \in Ring /\ i \in Ring /\ dma_tx_desc_to_set \in Ring
  BY FilledFacts, Cursors, PlusInRing
<1>2. /\ copy.length = Full(filled) + copy.offset
      /\ copy.length = q.at + copy.payload
      /\ copy.offset \in 0 .. MaxLen /\ copy.length \in Nat
      /\ q.at \in Nat /\ copy.payload \in Nat
  BY Fields DEF CallInv, CopyInv, InPbuf
<1>3. o \in 0 .. MaxLen - 1 /\ Full(m) \in Nat /\ Full(filled) \in Nat
  BY <1>1, FullFacts DEF Offsets
<1>4. buf'[i] = IF i = ptr
                  THEN [b \in Offsets |->
                          IF b \in copy.offset .. copy.offset + n - 1
                            THEN ByteOf(packet, q.at + copy.payload + b - copy.offset)
                            ELSE buf[ptr][b]]
                  ELSE buf[i]
  BY <1>1 DEF Memcpy, TypeOK
<1>5. CASE m < filled
  <2>1. Full(m + 1) = Full(m) + MaxLen /\ Full(m + 1) <= Full(filled)
    BY <1>1, <1>5, FullFacts, FullMonotonic
  <2>2. Full(m) + o < copy.length
    BY <1>2, <1>3, <2>1
  <2>3. i /= ptr
    BY <1>1, <1>5, PlusInjective
  <2> QED BY <1>4, <2>2, <2>3 DEF Copied
<1>6. CASE m = filled
  <2>1. buf'[i][o] = IF o \in copy.offset .. copy.offset + n - 1
                       THEN ByteOf(packet, q.at + copy.payload + o - copy.offset)
                       ELSE buf[ptr][o]
    BY <1>1, <1>4, <1>6
  <2>2. CASE o \in copy.offset .. copy.offset + n - 1
    <3>1. q.at + copy.payload + o - copy.offset = Full(m) + o
      BY <1>2, <1>3, <1>6
    <3> QED BY <2>1, <2>2, <3>1
  <2>3. CASE o \notin copy.offset .. copy.offset + n - 1
    <3>1. Full(m) + o < copy.length
      BY <1>2, <1>3, <1>6, <2>3
    <3> QED BY <1>1, <1>6, <2>1, <2>3, <3>1 DEF Copied
  <2> QED BY <2>2, <2>3
<1>7. CASE m > filled
  <2>1. Full(filled + 1) = Full(filled) + MaxLen /\ Full(filled + 1) <= Full(m)
    BY <1>1, <1>7, FullFacts, FullMonotonic
  <2> QED BY <1>2, <1>3, <2>1
<1> QED BY <1>1, <1>5, <1>6, <1>7

\* Steps that write no buffer and leave the call where it is.
LEMMA SameBytes ==
  ASSUME BytesInv, UNCHANGED <<buf, dma_tx_desc_to_set, locals>>
  PROVE  BytesInv'
  BY DEF BytesInv, Copied, ToPublish, LastBuf, Room, locals

LEMMA CopyBytes ==
  ASSUME TypeOK, CallInv, BytesInv, CopyFill \/ CheckOwnNext \/ CopyRest
  PROVE  BytesInv'
<1>1. CASE CopyFill
  <2>1. /\ pc = "copy" /\ pc' = "next" /\ Memcpy(Room)
        /\ UNCHANGED <<dma_tx_desc_to_set, packet, copy>>
    BY <1>1 DEF CopyFill
  <2>2. Room \in Nat /\ copy.offset + Room <= MaxLen
    BY Fields DEF Room
  <2>3. Copied(copy.length)
    BY <2>1 DEF BytesInv
  <2>4. Copied(copy.length + Room)'
    BY <2>1, <2>2, <2>3, MemcpyCopies DEF Copied, Room
  <2> QED BY <2>1, <2>4 DEF BytesInv
<1>2. CASE CheckOwnNext
  <2>1. /\ pc = "next" /\ UNCHANGED <<buf, dma_tx_desc_to_set, packet>>
    BY <1>2 DEF CheckOwnNext, ring
  <2>2. \/ pc' = "out"
        \/ pc' = "copy" /\ copy'.length = copy.length + Room
    BY <1>2 DEF CheckOwnNext, Refuse
  <2> QED BY <2>1, <2>2 DEF BytesInv, Copied
<1>3. CASE CopyRest
  <2>1. /\ pc = "copy" /\ pc' \in {"chain", "check"} /\ Memcpy(copy.count)
        /\ ~ Overflows /\ UNCHANGED <<dma_tx_desc_to_set, packet>>
        /\ copy' = [copy EXCEPT !.offset = @ + copy.count,
                                !.length = @ + copy.count]
    BY <1>3 DEF CopyRest
  <2>2. copy.count \in Nat /\ copy.offset + copy.count <= MaxLen
    BY <2>1, Fields DEF Overflows
  <2>3. Copied(copy.length)
    BY <2>1 DEF BytesInv
  <2>4. copy'.length = copy.length + copy.count
    BY <2>1 DEF TypeOK
  <2>5. Copied(copy.length)'
    BY <2>1, <2>2, <2>3, <2>4, MemcpyCopies DEF Copied
  <2> QED BY <2>1, <2>5 DEF BytesInv
<1> QED BY <1>1, <1>2, <1>3

LEMMA ChainBytes ==
  ASSUME TypeOK, CallInv, BytesInv, ChainCheck
  PROVE  BytesInv'
<1>1. /\ pc = "chain" /\ pc' = "publish" /\ index' = 0
      /\ UNCHANGED <<buf, dma_tx_desc_to_set, packet, copy>>
  BY ChainCounts, Fields DEF ChainCheck, ring
<1>2. LastBuf' = filled /\ filled \in 0 .. NumDesc - 1
  BY <1>1, ChainCounts, FilledFacts DEF LastBuf
<1>3. copy.length = packet.n /\ Copied(packet.n)
  BY <1>1, ChainCounts DEF BytesInv
<1>4. ASSUME NEW m \in 0 .. (LastBuf - index)', NEW o \in Offsets,
             Full(index' + m) + o < packet.n
      PROVE  buf[Plus(dma_tx_desc_to_set, m)][o]
               = ByteOf(packet, Full(index' + m) + o)
  <2>1. m \in 0 .. NumDesc - 1 /\ index' + m = m
    BY <1>1, <1>2
  <2> QED BY <1>3, <1>4, <2>1 DEF Copied
<1>5. ToPublish'
  BY <1>1, <1>4 DEF ToPublish
<1> QED BY <1>1, <1>3, <1>5 DEF BytesInv

LEMMA PublishBytes ==
  ASSUME TypeOK, CallInv, BytesInv, Publish
  PROVE  BytesInv'
<1>1. CASE index < LastBuf
  <2>1. /\ pc = "publish" /\ pc' = "publish" /\ index' = index + 1
        /\ dma_tx_desc_to_set' = Succ(dma_tx_desc_to_set)
        /\ UNCHANGED <<buf, packet, copy>>
    BY <1>1 DEF Publish
  <2>2. LastBuf' = LastBuf /\ LastBuf \in 0 .. NumDesc - 1 /\ index \in Nat
    BY <2>1 DEF LastBuf, CallInv, PublishInv, TypeOK
  <2>3. copy.length = packet.n /\ ToPublish
    BY <2>1 DEF BytesInv
  <2>4. ASSUME NEW m \in 0 .. (LastBuf - index)', NEW o \in Offsets,
               Full(index' + m) + o < packet.n
        PROVE  buf[Plus(dma_tx_desc_to_set', m)][o]
                 = ByteOf(packet, Full(index' + m) + o)
    <3>1. /\ m + 1 \in 0 .. LastBuf - index /\ m \in 0 .. NumDesc - 1
          /\ index' + m = index + (m + 1)
      BY <1>1, <2>1, <2>2
    <3>2. Plus(dma_tx_desc_to_set', m) = Plus(dma_tx_desc_to_set, m + 1)
      BY <2>1, <3>1, Cursors, PlusOneMore
    <3> QED BY <2>3, <2>4, <3>1, <3>2 DEF ToPublish
  <2>5. ToPublish'
    BY <2>1, <2>4 DEF ToPublish
  <2> QED BY <2>1, <2>3, <2>5 DEF BytesInv
<1>2. CASE ~ (index < LastBuf)
  BY <1>2 DEF Publish, BytesInv
<1> QED BY <1>1, <1>2

LEMMA BytesStep ==
  ASSUME TypeOK, CallInv, BytesInv, [Next]_vars
  PROVE  BytesInv'
<1>1. CASE Dma \/ UNCHANGED vars
  BY <1>1, SameBytes DEF Dma, DmaSend, DmaSuspend, vars, ring
<1>2. CASE Output
  <2>1. pc' = "check" /\ copy'.length = 0
    BY <1>2 DEF Output, Idle
  <2>2. \A m \in 0 .. NumDesc - 1, o \in Offsets : ~ (Full(m) + o < 0)
    BY FullFacts DEF Offsets
  <2> QED BY <2>1, <2>2 DEF BytesInv, Copied
<1>3. CASE CheckOwn
  <2>1. pc = "check" /\ UNCHANGED <<buf, dma_tx_desc_to_set, packet>>
    BY <1>3 DEF CheckOwn, ring
  <2>2. \/ pc' = "out"
        \/ pc' = "copy" /\ copy'.length = copy.length
    BY <1>3 DEF CheckOwn, Refuse, TypeOK
  <2> QED BY <2>1, <2>2 DEF BytesInv, Copied
<1>4. CASE CheckTbuChained \/ PollDemandChained \/ CheckTbu \/ PollDemand
  BY <1>4 DEF CheckTbuChained, PollDemandChained, CheckTbu, PollDemand, Return,
              BytesInv
<1> QED
  BY <1>1, <1>2, <1>3, <1>4, CopyBytes, ChainBytes, PublishBytes
  DEF Next, Driver

-----------------------------------------------------------------------------
(***************************************************************************)
(* The packets that went into the ring                                     *)
(***************************************************************************)
\* The packet of the call is the one that was accepted last.
Chained ==
  \/ pc = "publish"
  \/ pc \in {"resume", "demand", "out", "outdemand"} /\ errno = "ERR_OK"

NumbersInv ==
  /\ Arrived <= calls
  /\ pc \in {"check", "copy", "next", "chain"} =>
       packet.id = calls /\ Arrived < calls
  /\ Chained => accepted /= << >> /\ accepted[Len(accepted)] = packet
  /\ \A j \in 1 .. Len(accepted) : accepted[j].n >= 1

\* Packets of which every descriptor is published.
published == IF pc = "publish" THEN Len(accepted) - 1 ELSE Len(accepted)

OkInv == \A id \in okd : \E j \in 1 .. published : accepted[j].id = id

LEMMA AcceptedGrows ==
  ASSUME NEW s \in Seq(Packet), NEW f \in Packet
  PROVE  /\ Append(s, f) \in Seq(Packet)
         /\ Len(s) \in Nat /\ Len(Append(s, f)) = Len(s) + 1
         /\ Append(s, f) /= << >>
         /\ Append(s, f)[Len(s) + 1] = f
         /\ \A j \in 1 .. Len(s) : Append(s, f)[j] = s[j]
  OBVIOUS

\* The chaining never refuses: the copy found its descriptors free.
LEMMA ChainAccepts ==
  ASSUME TypeOK, CallInv, ChainCheck
  PROVE  /\ pc = "chain" /\ pc' = "publish" /\ index' = 0
         /\ accepted' = Append(accepted, packet)
         /\ packet \in Packet /\ accepted \in Seq(Packet) /\ packet.n >= 1
         /\ UNCHANGED <<ring, dma_tx_desc_to_set, calls, packet, copy, okd>>
<1>1. packet.n >= 1 /\ own[dma_tx_desc_to_set] = "cpu" /\ copy.length /= 0
  BY ChainCounts, Fields DEF ChainCheck
<1>2. packet \in Packet /\ accepted \in Seq(Packet)
  BY DEF TypeOK
<1> QED BY <1>1, <1>2 DEF ChainCheck

LEMMA NumbersStep ==
  ASSUME TypeOK, CallInv, NumbersInv, [Next]_vars
  PROVE  NumbersInv'
<1>1. /\ accepted \in Seq(Packet) /\ calls \in Nat /\ packet \in Packet
      /\ Arrived \in Int
  <2>1. accepted = << >> \/ (Len(accepted) \in 1 .. Len(accepted) /\ Len(accepted) \in Nat)
    BY DEF TypeOK
  <2>2. accepted = << >> \/ accepted[Len(accepted)] \in Packet
    BY <2>1 DEF TypeOK
  <2>3. Arrived \in Int
    <3>1. CASE accepted = << >>
      BY <3>1 DEF Arrived
    <3>2. CASE accepted /= << >>
      <4>1. accepted[Len(accepted)].id \in 0 .. MaxFrames
        BY <2>2, <3>2 DEF Packet
      <4> QED BY <3>2, <4>1 DEF Arrived
    <3> QED BY <3>1, <3>2
  <2> QED BY <2>3 DEF TypeOK
<1>2. CASE UNCHANGED <<calls, locals, accepted>>
  BY <1>2 DEF NumbersInv, Chained, Arrived, locals
<1>3. CASE Output
  <2>1. calls' = calls + 1 /\ pc' = "check" /\ packet'.id = calls'
        /\ UNCHANGED accepted
    BY <1>3 DEF Output, hist
  <2> QED BY <1>1, <2>1 DEF NumbersInv, Chained, Arrived
<1>4. CASE CheckOwn \/ CopyFill \/ CheckOwnNext \/ CopyRest
  <2>1. /\ pc \in {"check", "copy", "next"}
        /\ \/ pc' \in {"check", "copy", "next", "chain"}
           \/ pc' = "out" /\ errno' = "ERR_USE"
        /\ UNCHANGED <<calls, packet, accepted>>
    BY <1>4 DEF CheckOwn, CopyFill, CheckOwnNext, CopyRest, Refuse, hist
  <2> QED BY <2>1 DEF NumbersInv, Chained, Arrived
<1>5. CASE ChainCheck
  <2>1. /\ pc = "chain" /\ pc' = "publish" /\ accepted' = Append(accepted, packet)
        /\ UNCHANGED <<calls, packet>> /\ packet.n >= 1
    BY <1>5, ChainAccepts
  <2>2. /\ Len(accepted') = Len(accepted) + 1 /\ Len(accepted) \in Nat
        /\ accepted' /= << >> /\ accepted'[Len(accepted')] = packet
        /\ \A j \in 1 .. Len(accepted) : accepted'[j] = accepted[j]
    BY <1>1, <2>1, AcceptedGrows
  <2>3. Arrived' = packet.id /\ packet.id = calls
    BY <2>1, <2>2 DEF Arrived, NumbersInv
  <2>4. \A j \in 1 .. Len(accepted') : accepted'[j].n >= 1
    <3> SUFFICES ASSUME NEW j \in 1 .. Len(accepted')
                 PROVE  accepted'[j].n >= 1
      OBVIOUS
    <3>1. j \in 1 .. Len(accepted) \/ j = Len(accepted')
      BY <2>2
    <3> QED BY <2>1, <2>2, <3>1 DEF NumbersInv
  <2> QED BY <1>1, <2>1, <2>2, <2>3, <2>4 DEF NumbersInv
<1>6. CASE Publish
  <2>1. /\ pc = "publish" /\ pc' \in {"publish", "resume"}
        /\ UNCHANGED <<calls, packet, accepted>>
    BY <1>6 DEF Publish, hist
  <2> QED BY <2>1 DEF NumbersInv, Chained, Arrived
<1>7. CASE CheckTbuChained \/ PollDemandChained \/ CheckTbu \/ PollDemand
  <2>1. /\ pc \in {"resume", "demand", "out", "outdemand"}
        /\ pc' \in {"demand", "out", "outdemand", "idle"}
        /\ UNCHANGED <<calls, packet, errno, accepted>>
    BY <1>7 DEF CheckTbuChained, PollDemandChained, CheckTbu, PollDemand, Return,
                hist
  <2> QED BY <2>1 DEF NumbersInv, Chained, Arrived
<1> QED
  BY <1>2, <1>3, <1>4, <1>5, <1>6, <1>7
  DEF Next, Dma, Driver, DmaSend, DmaSuspend, vars, hist

\* Results are returned after the chaining, and accepted packets stay.
LEMMA OkStep ==
  ASSUME TypeOK, CallInv, NumbersInv, OkInv, [Next]_vars
  PROVE  OkInv'
<1>1. accepted \in Seq(Packet) /\ Len(accepted) \in Nat
  BY DEF TypeOK
<1>2. CASE UNCHANGED <<okd, accepted, pc>>
  BY <1>2 DEF OkInv, published
<1>3. CASE /\ pc /= "publish" /\ pc' /= "publish"
           /\ UNCHANGED <<okd, accepted>>
  BY <1>3 DEF OkInv, published
<1>4. CASE ChainCheck
  <2>1. /\ pc = "chain" /\ pc' = "publish" /\ okd' = okd
        /\ accepted' = Append(accepted, packet) /\ packet \in Packet
    BY <1>4, ChainAccepts
  <2>2. /\ Len(accepted') = Len(accepted) + 1
        /\ \A j \in 1 .. Len(accepted) : accepted'[j] = accepted[j]
    BY <1>1, <2>1, AcceptedGrows
  <2>3. published = Len(accepted) /\ published' = Len(accepted)
    BY <1>1, <2>1, <2>2 DEF published
  <2> QED BY <2>1, <2>2, <2>3 DEF OkInv
<1>5. CASE Publish
  <2>1. pc = "publish" /\ okd' = okd /\ accepted' = accepted
    BY <1>5 DEF Publish, hist
  <2>2. 1 .. published \subseteq 1 .. published'
    BY <1>1, <2>1 DEF published
  <2> QED BY <2>1, <2>2 DEF OkInv
<1>6. CASE (CheckTbu \/ PollDemand) /\ Return
  <2>1. /\ pc \in {"out", "outdemand"} /\ pc' = "idle" /\ accepted' = accepted
        /\ okd' = IF errno = "ERR_OK" THEN okd \union {packet.id} ELSE okd
    BY <1>6 DEF CheckTbu, PollDemand, Return
  <2>2. published = Len(accepted) /\ published' = Len(accepted)
    BY <2>1 DEF published
  <2>3. CASE errno = "ERR_OK"
    <3>1. accepted /= << >> /\ accepted[Len(accepted)] = packet
      BY <2>1, <2>3 DEF NumbersInv, Chained
    <3>2. Len(accepted) \in 1 .. Len(accepted)
      BY <1>1, <3>1
    <3> QED BY <2>1, <2>2, <2>3, <3>1, <3>2 DEF OkInv
  <2>4. CASE errno /= "ERR_OK"
    BY <2>1, <2>2, <2>4 DEF OkInv
  <2> QED BY <2>3, <2>4
<1>7. CASE Output \/ CheckOwn \/ CopyFill \/ CheckOwnNext \/ CopyRest
           \/ CheckTbuChained \/ PollDemandChained
  BY <1>3, <1>7
  DEF Output, CheckOwn, CopyFill, CheckOwnNext, CopyRest, Refuse,
      CheckTbuChained, PollDemandChained, hist
<1>8. CASE CheckTbu \/ PollDemand
  BY <1>3, <1>6, <1>8 DEF CheckTbu, PollDemand
<1> QED
  BY <1>2, <1>4, <1>5, <1>7, <1>8
  DEF Next, Dma, Driver, DmaSend, DmaSuspend, vars, hist, locals

-----------------------------------------------------------------------------
(***************************************************************************)
(* What the ring holds.  J[d] and A[d] say for the descriptor d links      *)
(* behind the DMA's cursor which accepted packet it carries and from which *)
(* byte on.  They go through the packets without a gap: from the one that  *)
(* the DMA is sending to the one that is published next.                   *)
(***************************************************************************)
\* The first k bytes of packet f.
Prefix(f, k) == [j \in 1 .. k |-> ByteOf(f, j - 1)]

Holds(i, f, at) ==
  /\ ctrl[i].fs <=> at = 0
  /\ ctrl[i].size >= 1
  /\ at + ctrl[i].size <= f.n
  /\ ctrl[i].ls <=> at + ctrl[i].size = f.n
  /\ \A o \in 0 .. ctrl[i].size - 1 : buf[i][o] = ByteOf(f, at + o)

\* Descriptor i carries packet j from byte a on, the next one j2 from a2 on.
Carries(i, j, a, j2, a2) ==
  /\ j \in 1 .. Len(accepted)
  /\ Holds(i, accepted[j], a)
  /\ ctrl[i].ls => j2 = j + 1 /\ a2 = 0
  /\ ~ ctrl[i].ls => j2 = j /\ a2 = a + ctrl[i].size

\* Where the next descriptor to publish goes on.
EndAt == IF pc = "publish" THEN Full(index) ELSE 0

Shape(r, J, A) ==
  /\ RingShape(r)
  /\ J[0] = Len(wire) + 1
  /\ sending = Prefix(accepted[J[0]], A[0])
  /\ J[r] = published + 1
  /\ A[r] = EndAt
  /\ \A d \in 0 .. r - 1 :
       Carries(Plus(dma_cur, d), J[d], A[d], J[d + 1], A[d + 1])

Marks == [0 .. NumDesc -> Nat]

DataInv == \E r \in 0 .. NumDesc, J \in Marks, A \in Marks : Shape(r, J, A)

\* What is on the wire are the packets that were accepted first.
SentInv ==
  \A j \in 1 .. Len(wire) : j <= Len(accepted) /\ wire[j] = Whole(accepted[j])

\* b is the n bytes of packet f from byte a on.
Part(b, f, a, n) ==
  /\ a \in Nat /\ n \in Nat
  /\ b \in Seq(Byte) /\ Len(b) = n
  /\ \A j \in 1 .. n : b[j] = ByteOf(f, a + (j - 1))

LEMMA PrefixBegins ==
  ASSUME NEW f, NEW n, NEW b, Part(b, f, 0, n)
  PROVE  b = Prefix(f, n)
<1> DEFINE S == Byte \union {ByteOf(f, k) : k \in Nat}
           v == Prefix(f, n)
<1> n \in Nat
  BY DEF Part
<1>1. /\ v \in Seq(S) /\ Len(v) = n
      /\ \A j \in 1 .. n : v[j] = ByteOf(f, j - 1)
  BY DEF Prefix
<1>2. b \in Seq(S) /\ Len(b) = n
  BY DEF Part
<1> HIDE DEF S, v
<1>3. ASSUME NEW j \in 1 .. n
      PROVE  b[j] = v[j]
  <2>1. b[j] = ByteOf(f, 0 + (j - 1)) /\ 0 + (j - 1) = j - 1
    BY DEF Part
  <2> QED BY <1>1, <2>1
<1>4. b = v
  BY <1>1, <1>2, <1>3, SeqEqual
<1> QED BY <1>4 DEF v

LEMMA PrefixGoesOn ==
  ASSUME NEW f, NEW a, NEW n, NEW b, Part(b, f, a, n)
  PROVE  Prefix(f, a) \o b = Prefix(f, a + n)
<1> DEFINE S == Byte \union {ByteOf(f, k) : k \in Nat}
           p == Prefix(f, a)
           w == Prefix(f, a + n)
<1> a \in Nat /\ n \in Nat
  BY DEF Part
<1>1. /\ p \in Seq(S) /\ w \in Seq(S) /\ Len(p) = a /\ Len(w) = a + n
      /\ \A j \in 1 .. a : p[j] = ByteOf(f, j - 1)
      /\ \A j \in 1 .. a + n : w[j] = ByteOf(f, j - 1)
  BY DEF Prefix
<1>2. /\ b \in Seq(S) /\ Len(b) = n
      /\ \A j \in 1 .. n : b[j] = ByteOf(f, a + (j - 1))
  BY DEF Part
<1> HIDE DEF S, p, w
<1>3. /\ p \o b \in Seq(S) /\ Len(p \o b) = a + n
      /\ \A j \in 1 .. a + n : (p \o b)[j] = IF j <= a THEN p[j] ELSE b[j - a]
  <2>1. /\ p \o b \in Seq(S) /\ Len(p \o b) = Len(p) + Len(b)
        /\ \A j \in 1 .. Len(p) + Len(b) : (p \o b)[j] =
             IF j <= Len(p) THEN p[j] ELSE b[j - Len(p)]
    BY <1>1, <1>2, ConcatProperties
  <2> QED BY <1>1, <1>2, <2>1
<1>4. ASSUME NEW j \in 1 .. a + n
      PROVE  (p \o b)[j] = w[j]
  <2>1. CASE j <= a
    BY <1>1, <1>3, <2>1
  <2>2. CASE ~ (j <= a)
    <3>1. j - a \in 1 .. n /\ a + ((j - a) - 1) = j - 1
      BY <2>2
    <3>2. b[j - a] = ByteOf(f, a + ((j - a) - 1))
      BY <1>2, <3>1
    <3> QED BY <1>1, <1>3, <2>2, <3>1, <3>2
  <2> QED BY <2>1, <2>2
<1>5. p \o b = w
  BY <1>1, <1>3, <1>4, SeqEqual
<1> QED BY <1>5 DEF p, w

LEMMA PrefixNone == \A f, g : Prefix(f, 0) = << >> /\ Prefix(f, 0) = Prefix(g, 0)
  BY DEF Prefix

LEMMA PrefixAll == \A f : Prefix(f, f.n) = Whole(f)
  BY DEF Prefix, Whole

\* The least number of a set of numbers.
LEMMA Least ==
  ASSUME NEW T, T \subseteq Nat, T /= {}
  PROVE  \E n \in T : \A m \in T : n <= m
<1>1. \E n \in T : \A m \in T : ~ (<<m, n>> \in OpToRel(<, Nat))
  BY WFMin, NatLessThanWellFounded
<1>2. PICK n \in T : \A m \in T : ~ (<<m, n>> \in OpToRel(<, Nat))
  BY <1>1
<1>3. ASSUME NEW m \in T, m < n
      PROVE  <<m, n>> \in OpToRel(<, Nat)
  BY <1>3 DEF OpToRel
<1>4. \A m \in T : n <= m
  <2> SUFFICES ASSUME NEW m \in T
               PROVE  n <= m
    OBVIOUS
  <2>1. n \in Nat /\ m \in Nat
    OBVIOUS
  <2>2. ~ (m < n)
    BY <1>2, <1>3
  <2> QED BY <2>1, <2>2
<1> QED BY <1>2, <1>4

\* From one descriptor to the next the packet is the same or the next one.
LEMMA OneByOne ==
  ASSUME NEW r \in 0 .. NumDesc, NEW J \in Marks, NEW A \in Marks,
         Shape(r, J, A), NEW d \in 0 .. r - 1
  PROVE  J[d] \in Nat /\ (J[d + 1] = J[d] \/ J[d + 1] = J[d] + 1)
<1>1. d \in 0 .. NumDesc
  OBVIOUS
<1> QED BY <1>1 DEF Shape, Carries, Marks

\* Every packet takes a descriptor: no more packets than descriptors inside.
LEMMA NoMoreThanDescriptors ==
  ASSUME NEW r \in 0 .. NumDesc, NEW J \in Marks, NEW A \in Marks,
         Shape(r, J, A)
  PROVE  J[r] <= J[0] + r
<1> DEFINE T == {d \in 0 .. r : J[d] > J[0] + d}
<1> SUFFICES ASSUME T /= {}
             PROVE  FALSE
  <2>1. r \in 0 .. r /\ r \in 0 .. NumDesc /\ 0 \in 0 .. NumDesc
    OBVIOUS
  <2>2. J[r] \in Nat /\ J[0] \in Nat
    BY <2>1 DEF Marks
  <2> QED BY <2>1, <2>2
<1>1. T \subseteq Nat /\ J[0] \in Nat
  BY DEF Marks
<1>2. \E d \in T : \A m \in T : d <= m
  <2> HIDE DEF T
  <2> QED BY <1>1, Least
<1>3. PICK d \in T : \A m \in T : d <= m
  BY <1>2
<1>4. d \in 0 .. r /\ J[d] > J[0] + d
  OBVIOUS
<1>5. d - 1 \in 0 .. r - 1 /\ d - 1 \in 0 .. r /\ (d - 1) + 1 = d
  BY <1>1, <1>4
<1>6. J[d - 1] \in Nat /\ (J[d] = J[d - 1] \/ J[d] = J[d - 1] + 1)
  BY <1>5, OneByOne
<1>7. d - 1 \in T
  BY <1>1, <1>4, <1>5, <1>6
<1> QED BY <1>3, <1>4, <1>5, <1>7

\* No packet between the first and the last is missing.
LEMMA NoneMissing ==
  ASSUME NEW r \in 0 .. NumDesc, NEW J \in Marks, NEW A \in Marks,
         Shape(r, J, A), NEW j \in Nat, J[0] <= j, j < J[r]
  PROVE  \E d \in 0 .. r - 1 : J[d] = j
<1> DEFINE T == {d \in 0 .. r : J[d] > j}
<1>1. T \subseteq Nat /\ r \in T /\ J[0] \in Nat
  <2>1. r \in 0 .. r /\ r \in 0 .. NumDesc /\ 0 \in 0 .. NumDesc
    OBVIOUS
  <2>2. J[r] \in Nat /\ J[0] \in Nat
    BY <2>1 DEF Marks
  <2> QED BY <2>1, <2>2
<1>2. \E d \in T : \A m \in T : d <= m
  <2> HIDE DEF T
  <2> QED BY <1>1, Least
<1>3. PICK d \in T : \A m \in T : d <= m
  BY <1>2
<1>4. d \in 0 .. r /\ J[d] > j
  OBVIOUS
<1>5. d /= 0
  BY <1>1, <1>4
<1>6. d - 1 \in 0 .. r - 1 /\ d - 1 \in 0 .. r /\ (d - 1) + 1 = d
  BY <1>4, <1>5
<1>7. J[d - 1] \in Nat /\ (J[d] = J[d - 1] \/ J[d] = J[d - 1] + 1)
  BY <1>6, OneByOne
<1>8. ~ (J[d - 1] > j)
  <2>1. d - 1 \notin T
    BY <1>3, <1>4, <1>6
  <2> QED BY <1>6, <2>1
<1>9. J[d - 1] = j
  BY <1>4, <1>7, <1>8
<1> QED BY <1>6, <1>9

\* Which descriptors the DMA owns, by their distance from its cursor.
LEMMA OwnedAt ==
  ASSUME TypeOK, NEW r \in 0 .. NumDesc, RingShape(r), NEW d \in 0 .. r - 1
  PROVE  Plus(dma_cur, d) \in Ring /\ own[Plus(dma_cur, d)] = "dma"
<1>1. d \in 0 .. NumDesc - 1 /\ d \in 0 .. NumDesc /\ d < r
  OBVIOUS
<1>2. Plus(dma_cur, d) \in Ring /\ Dist(dma_cur, Plus(dma_cur, d)) = d
  BY <1>1, Cursors, PlusInRing, DistOfPlus
<1> QED BY <1>1, <1>2 DEF RingShape

\* At least one packet is counted while one is chained.
LEMMA PublishedFacts ==
  ASSUME TypeOK, NumbersInv
  PROVE  /\ published \in Nat /\ Len(accepted) \in Nat
         /\ published \in {Len(accepted), Len(accepted) - 1}
         /\ pc = "publish" => published + 1 = Len(accepted)
<1>1. Len(accepted) \in Nat /\ (accepted /= << >> => Len(accepted) >= 1)
  BY DEF TypeOK
<1>2. pc = "publish" => accepted /= << >>
  BY DEF NumbersInv, Chained
<1> QED BY <1>1, <1>2 DEF published

\* The packet that the DMA is at, if any: its first packet inside.
LEMMA HeadPacket ==
  ASSUME TypeOK, NumbersInv, NEW r \in 0 .. NumDesc, NEW J \in Marks,
         NEW A \in Marks, Shape(r, J, A)
  PROVE  J[0] \in 1 .. Len(accepted) \/ (r = 0 /\ A[0] = 0)
<1>1. CASE r = 0
  BY <1>1, PublishedFacts DEF Shape, EndAt
<1>2. CASE r > 0
  <2>1. 0 \in 0 .. r - 1
    BY <1>2
  <2> QED BY <2>1 DEF Shape, Carries
<1> QED BY <1>1, <1>2

\* Steps that leave the ring alone, up to packets accepted and bytes that are
\* copied into buffers of the CPU.
LEMMA SameData ==
  ASSUME TypeOK, NumbersInv, DataInv,
         UNCHANGED <<own, ctrl, dma_cur, sending, wire, dma_tx_desc_to_set>>,
         \A i \in Ring : own[i] = "dma" => buf'[i] = buf[i],
         Len(accepted') \in Nat, Len(accepted) <= Len(accepted'),
         \A j \in 1 .. Len(accepted) : accepted'[j] = accepted[j],
         published' = published, EndAt' = EndAt
  PROVE  DataInv'
<1>1. PICK r \in 0 .. NumDesc, J \in Marks, A \in Marks : Shape(r, J, A)
  BY DEF DataInv
<1>2. Len(accepted) \in Nat
  BY PublishedFacts
<1>3. RingShape(r)'
  BY <1>1 DEF Shape, RingShape
<1>4. sending' = Prefix(accepted'[J[0]], A[0])
  <2>1. CASE J[0] \in 1 .. Len(accepted)
    BY <1>1, <2>1 DEF Shape
  <2>2. CASE A[0] = 0
    BY <1>1, <2>2, PrefixNone DEF Shape
  <2> QED BY <1>1, <2>1, <2>2, HeadPacket
<1>5. ASSUME NEW d \in 0 .. r - 1
      PROVE  Carries(Plus(dma_cur, d), J[d], A[d], J[d + 1], A[d + 1])'
  <2>1. buf'[Plus(dma_cur, d)] = buf[Plus(dma_cur, d)]
    BY <1>1, OwnedAt DEF Shape
  <2>2. Carries(Plus(dma_cur, d), J[d], A[d], J[d + 1], A[d + 1])
    BY <1>1 DEF Shape
  <2>3. J[d] \in 1 .. Len(accepted') /\ accepted'[J[d]] = accepted[J[d]]
    BY <1>2, <2>2 DEF Carries
  <2> QED BY <2>1, <2>2, <2>3 DEF Carries, Holds
<1>6. Shape(r, J, A)'
  BY <1>1, <1>3, <1>4, <1>5 DEF Shape
<1> QED BY <1>6 DEF DataInv

\* What the DMA sends from the descriptor at its cursor.
LEMMA SendBytes ==
  ASSUME TypeOK, NEW r \in 0 .. NumDesc, NEW J \in Marks, NEW A \in Marks,
         Shape(r, J, A), DmaSend
  PROVE  /\ r - 1 \in 0 .. NumDesc - 1 /\ RingShape(r - 1)'
         /\ J[0] \in 1 .. Len(accepted) /\ J[0] = Len(wire) + 1
         /\ ctrl[dma_cur].ls =>
              /\ J[1] = J[0] + 1 /\ A[1] = 0 /\ sending' = << >>
              /\ wire' = Append(wire, Whole(accepted[J[0]]))
         /\ ~ ctrl[dma_cur].ls =>
              /\ J[1] = J[0] /\ sending' = Prefix(accepted[J[0]], A[1])
              /\ wire' = wire
<1> DEFINE f     == accepted[J[0]]
           n     == ctrl[dma_cur].size
           bytes == [j \in 1 .. n |-> buf[dma_cur][j - 1]]
           frame == IF ctrl[dma_cur].fs THEN bytes ELSE sending \o bytes
<1>1. r - 1 \in 0 .. NumDesc - 1 /\ RingShape(r - 1)'
  BY SendShape DEF Shape
<1>2. 0 \in 0 .. r - 1 /\ 0 \in 0 .. NumDesc /\ 0 + 1 = 1
  BY <1>1
<1>3. Plus(dma_cur, 0) = dma_cur
  BY Cursors, PlusInRing
<1>4. Carries(dma_cur, J[0], A[0], J[1], A[1])
  BY <1>2, <1>3 DEF Shape
<1>5. n \in Nat /\ A[0] \in Nat
  BY <1>2, Cursors DEF TypeOK, Marks
<1>6. /\ ctrl[dma_cur].fs <=> A[0] = 0
      /\ ctrl[dma_cur].ls <=> A[0] + n = f.n
      /\ \A o \in 0 .. n - 1 : buf[dma_cur][o] = ByteOf(f, A[0] + o)
  BY <1>4 DEF Carries, Holds
<1>7. \A j \in 1 .. n : bytes[j] = ByteOf(f, A[0] + (j - 1))
  <2>1. \A j \in 1 .. n : j - 1 \in 0 .. n - 1
    BY <1>5
  <2> QED BY <1>6, <2>1
<1>8. frame = Prefix(f, A[0] + n)
  <2> DEFINE a == A[0]
  <2>1. n \in Nat /\ a \in Nat /\ sending = Prefix(f, a)
    BY <1>5 DEF Shape
  <2>2. Part(bytes, f, a, n)
    <3>1. bytes \in Seq(Byte) /\ Len(bytes) = n
      BY <1>5, ReadType
    <3> QED BY <1>7, <2>1, <3>1 DEF Part
  <2>3. ctrl[dma_cur].fs <=> a = 0
    BY <1>6
  <2>4. frame = IF ctrl[dma_cur].fs THEN bytes ELSE sending \o bytes
    OBVIOUS
  <2> HIDE DEF a, bytes, n, f, frame
  <2>5. CASE a = 0
    <3>1. Part(bytes, f, 0, n) /\ a + n = n
      BY <2>1, <2>2, <2>5
    <3>2. bytes = Prefix(f, n)
      BY <3>1, PrefixBegins
    <3> QED BY <2>3, <2>4, <2>5, <3>1, <3>2 DEF a
  <2>6. CASE a /= 0
    <3>1. Prefix(f, a) \o bytes = Prefix(f, a + n)
      BY <2>2, PrefixGoesOn
    <3> QED BY <2>1, <2>3, <2>4, <2>6, <3>1 DEF a
  <2> QED BY <2>5, <2>6
<1>9. IF ctrl[dma_cur].ls THEN sending' = << >> /\ wire' = Append(wire, frame)
                          ELSE sending' = frame /\ wire' = wire
  BY DEF DmaSend
<1> HIDE DEF frame, bytes
<1>10. /\ ctrl[dma_cur].ls => J[1] = J[0] + 1 /\ A[1] = 0
       /\ ~ ctrl[dma_cur].ls => J[1] = J[0] /\ A[1] = A[0] + n
       /\ J[0] \in 1 .. Len(accepted) /\ J[0] = Len(wire) + 1
  BY <1>4 DEF Carries, Shape
<1> QED BY <1>1, <1>6, <1>8, <1>9, <1>10, PrefixAll

LEMMA SendData ==
  ASSUME TypeOK, NumbersInv, DataInv, DmaSend
  PROVE  DataInv'
<1>1. PICK r \in 0 .. NumDesc, J \in Marks, A \in Marks : Shape(r, J, A)
  BY DEF DataInv
<1> DEFINE J2 == [d \in 0 .. NumDesc |-> IF d < NumDesc THEN J[d + 1] ELSE 0]
           A2 == [d \in 0 .. NumDesc |-> IF d < NumDesc THEN A[d + 1] ELSE 0]
<1>2. J2 \in Marks /\ A2 \in Marks
  BY DEF Marks
<1>3. r - 1 \in 0 .. NumDesc - 1 /\ RingShape(r - 1)'
  BY <1>1, SendBytes
<1>4. /\ ctrl[dma_cur].ls =>
           /\ J[1] = J[0] + 1 /\ A[1] = 0 /\ sending' = << >>
           /\ wire' = Append(wire, Whole(accepted[J[0]]))
      /\ ~ ctrl[dma_cur].ls =>
           /\ J[1] = J[0] /\ sending' = Prefix(accepted[J[0]], A[1])
           /\ wire' = wire
      /\ J[0] = Len(wire) + 1
  BY <1>1, SendBytes
<1>5. /\ UNCHANGED <<buf, ctrl, dma_tx_desc_to_set, pc, index, accepted>>
      /\ dma_cur' = Succ(dma_cur)
  BY DEF DmaSend, locals, hist
<1>6. J2[0] = J[1] /\ A2[0] = A[1]
  BY <1>3
<1>7. J2[0] = Len(wire') + 1 /\ sending' = Prefix(accepted'[J2[0]], A2[0])
  <2>1. CASE ctrl[dma_cur].ls
    <3>1. Len(wire') = Len(wire) + 1
      BY <1>4, <2>1 DEF TypeOK
    <3> QED BY <1>4, <1>6, <2>1, <3>1, PrefixNone
  <2>2. CASE ~ ctrl[dma_cur].ls
    BY <1>4, <1>5, <1>6, <2>2
  <2> QED BY <2>1, <2>2
<1>8. J2[r - 1] = (published + 1)' /\ A2[r - 1] = EndAt'
  <2>1. /\ r - 1 \in 0 .. NumDesc /\ r - 1 < NumDesc /\ (r - 1) + 1 = r
    BY <1>3
  <2>2. J2[r - 1] = J[r] /\ A2[r - 1] = A[r]
    BY <2>1
  <2> QED BY <1>1, <1>5, <2>2 DEF Shape, published, EndAt
<1>9. ASSUME NEW d \in 0 .. (r - 1) - 1
      PROVE  Carries(Plus(dma_cur, d), J2[d], A2[d], J2[d + 1], A2[d + 1])'
  <2>1. /\ d \in 0 .. NumDesc /\ d + 1 \in 0 .. NumDesc /\ d + 1 < NumDesc
        /\ d \in 0 .. NumDesc - 1 /\ d < NumDesc /\ d + 1 \in 0 .. r - 1
    BY <1>3
  <2>2. /\ J2[d] = J[d + 1] /\ A2[d] = A[d + 1]
        /\ J2[d + 1] = J[(d + 1) + 1] /\ A2[d + 1] = A[(d + 1) + 1]
    BY <2>1
  <2>3. Plus(dma_cur', d) = Plus(dma_cur, d + 1)
    BY <1>5, <2>1, Cursors, PlusOneMore
  <2>4. Carries(Plus(dma_cur, d + 1), J[d + 1], A[d + 1],
                J[(d + 1) + 1], A[(d + 1) + 1])
    BY <1>1, <2>1 DEF Shape
  <2> HIDE DEF J2, A2
  <2> QED BY <1>5, <2>2, <2>3, <2>4 DEF Carries, Holds
<1> HIDE DEF J2, A2
<1>10. Shape(r - 1, J2, A2)'
  BY <1>3, <1>7, <1>8, <1>9 DEF Shape
<1>11. r - 1 \in 0 .. NumDesc
  BY <1>3
<1> QED BY <1>2, <1>10, <1>11 DEF DataInv

\* What is published at dma_tx_desc_to_set.
LEMMA PublishPart ==
  ASSUME TypeOK, CallInv, BytesInv, NumbersInv, Publish, NEW i, NEW j, NEW a,
         NEW j2, NEW a2, i = dma_tx_desc_to_set, j = published + 1, a = EndAt,
         j2 = published' + 1, a2 = EndAt'
  PROVE  Carries(i, j, a, j2, a2)'
<1>1. /\ pc = "publish" /\ index \in Nat /\ i \in Ring
      /\ ctrl'[i] = Descriptor
      /\ UNCHANGED <<buf, packet, accepted>>
      /\ index' = index + 1
      /\ pc' = IF index < LastBuf THEN "publish" ELSE "resume"
  BY Cursors DEF Publish, TypeOK, hist
<1>2. /\ LastBuf \in 0 .. NumDesc - 1 /\ index <= LastBuf
      /\ copy.length - Full(LastBuf) \in 1 .. MaxLen
      /\ copy.length = packet.n /\ packet.n \in Nat
  BY <1>1, Fields DEF CallInv, PublishInv, BytesInv
<1>3. /\ accepted /= << >> /\ accepted[Len(accepted)] = packet
      /\ Len(accepted) \in Nat /\ j = Len(accepted) /\ a = Full(index)
      /\ published + 1 = Len(accepted)
  BY <1>1, PublishedFacts DEF NumbersInv, Chained, EndAt
<1>4. /\ Full(index) \in Nat /\ Full(index + 1) = Full(index) + MaxLen
      /\ Full(LastBuf) \in Nat /\ Full(index) <= Full(LastBuf)
      /\ (a = 0 <=> index = 0)
  <2>1. Full(index) = 0 <=> index = 0
    <3>1. index > 0 => Full(1) <= Full(index) /\ Full(1) = MaxLen
      BY <1>1, FullMonotonic DEF Full
    <3> QED BY <1>1, <3>1, FullFacts
  <2>2. Full(index) \in Nat /\ Full(index + 1) = Full(index) + MaxLen
    BY <1>1, FullFacts
  <2>3. LastBuf \in Nat
    BY <1>2
  <2>4. Full(LastBuf) \in Nat /\ Full(index) <= Full(LastBuf)
    BY <1>1, <1>2, <2>3, FullFacts, FullMonotonic
  <2> QED BY <1>3, <2>1, <2>2, <2>4
<1>5. /\ Descriptor.fs <=> index = 0
      /\ Descriptor.ls <=> index = LastBuf
      /\ Descriptor.size = IF index = LastBuf THEN copy.length - Full(LastBuf)
                                              ELSE MaxLen
  BY DEF Descriptor, Full
<1>6. j \in 1 .. Len(accepted') /\ accepted'[j] = packet
  <2>1. Len(accepted) >= 1
    BY <1>3 DEF TypeOK
  <2> QED BY <1>1, <1>3, <2>1
<1>7. CASE index = LastBuf
  <2>1. Descriptor.size = packet.n - a /\ Descriptor.size \in 1 .. MaxLen
    BY <1>2, <1>3, <1>5, <1>7
  <2>2. j2 = j + 1 /\ a2 = 0
    BY <1>1, <1>2, <1>3, <1>7 DEF published, EndAt
  <2>3. \A o \in 0 .. Descriptor.size - 1 : buf'[i][o] = ByteOf(packet, a + o)
    <3> SUFFICES ASSUME NEW o \in 0 .. Descriptor.size - 1
                 PROVE  buf[i][o] = ByteOf(packet, a + o)
      BY <1>1
    <3>1. o \in Offsets /\ a \in Nat
      BY <1>3, <1>4, <2>1 DEF Offsets
    <3>2. index + 0 = index /\ 0 \in 0 .. LastBuf - index
      BY <1>1, <1>2
    <3>3. o \in Int /\ packet.n \in Int /\ o < packet.n - a
      BY <1>2, <2>1, <3>1
    <3>4. Full(index + 0) + o < packet.n /\ Full(index + 0) = a
      BY <1>3, <3>1, <3>2, <3>3
    <3>5. Plus(dma_tx_desc_to_set, 0) = i
      BY Cursors, PlusInRing
    <3> QED BY <1>1, <3>1, <3>2, <3>4, <3>5 DEF BytesInv, ToPublish
  <2>4. a + Descriptor.size = packet.n
    BY <1>2, <1>3, <1>4, <2>1
  <2>5. /\ ctrl'[i].fs <=> a = 0
        /\ ctrl'[i].ls
        /\ ctrl'[i].size = Descriptor.size
    BY <1>1, <1>4, <1>5, <1>7
  <2>6. ctrl'[i].size >= 1 /\ a + ctrl'[i].size <= packet.n
    BY <1>2, <2>1, <2>4, <2>5
  <2>7. Holds(i, accepted[j], a)'
    BY <1>6, <2>3, <2>4, <2>5, <2>6 DEF Holds
  <2> QED BY <1>6, <2>2, <2>5, <2>7 DEF Carries
<1>8. CASE index < LastBuf
  <2>1. Full(index + 1) <= Full(LastBuf)
    BY <1>1, <1>2, <1>8, FullMonotonic
  <2>2. Descriptor.size = MaxLen /\ a + MaxLen < packet.n
    BY <1>2, <1>3, <1>4, <1>5, <1>8, <2>1
  <2>3. j2 = j /\ a2 = a + MaxLen
    BY <1>1, <1>3, <1>4, <1>8 DEF published, EndAt
  <2>4. \A o \in 0 .. MaxLen - 1 : buf'[i][o] = ByteOf(packet, a + o)
    <3> SUFFICES ASSUME NEW o \in 0 .. MaxLen - 1
                 PROVE  buf[i][o] = ByteOf(packet, a + o)
      BY <1>1
    <3>1. o \in Offsets /\ a \in Nat
      BY <1>3, <1>4 DEF Offsets
    <3>2. index + 0 = index /\ 0 \in 0 .. LastBuf - index
      BY <1>1, <1>2
    <3>3. Full(index + 0) + o < packet.n /\ Full(index + 0) = a
      BY <1>2, <1>3, <1>4, <2>2, <3>1, <3>2
    <3>4. Plus(dma_tx_desc_to_set, 0) = i
      BY Cursors, PlusInRing
    <3> QED BY <1>1, <3>1, <3>2, <3>3, <3>4 DEF BytesInv, ToPublish
  <2>5. ~ ctrl'[i].ls /\ ctrl'[i].size = MaxLen
    BY <1>1, <1>2, <1>5, <1>8, <2>2
  <2>6. Holds(i, accepted[j], a)'
    BY <1>1, <1>2, <1>3, <1>4, <1>5, <1>6, <1>8, <2>2, <2>4, <2>5 DEF Holds
  <2> QED BY <1>6, <2>3, <2>5, <2>6 DEF Carries
<1> QED BY <1>1, <1>2, <1>7, <1>8

LEMMA PublishData ==
  ASSUME TypeOK, CallInv, BytesInv, NumbersInv, DataInv, Publish
  PROVE  DataInv'
<1>1. PICK r \in 0 .. NumDesc, J \in Marks, A \in Marks : Shape(r, J, A)
  BY DEF DataInv
<1>2. own[dma_tx_desc_to_set] = "cpu"
  BY PublishOwned DEF Publish
<1>3. r + 1 \in 0 .. NumDesc /\ RingShape(r + 1)' /\ r \in 0 .. NumDesc - 1
  BY <1>1, <1>2, PublishShape, CpuHasRoom DEF Shape
<1>4. published' + 1 \in Nat /\ EndAt' \in Nat
  <2>1. Len(accepted) \in Nat /\ published + 1 = Len(accepted)
        /\ published \in Nat /\ accepted' = accepted
    BY PublishedFacts DEF Publish, hist
  <2>2. index' \in Nat
    BY DEF Publish, TypeOK
  <2> QED BY <2>1, <2>2, FullFacts DEF published, EndAt
<1> PICK j2 \in Nat, a2 \in Nat : j2 = published' + 1 /\ a2 = EndAt'
  BY <1>4
<1> DEFINE J2 == [J EXCEPT ![r + 1] = j2]
           A2 == [A EXCEPT ![r + 1] = a2]
<1>5. J2 \in Marks /\ A2 \in Marks
  BY DEF Marks
<1>6. /\ J2[r + 1] = j2 /\ A2[r + 1] = a2
      /\ \A d \in 0 .. r : J2[d] = J[d] /\ A2[d] = A[d]
  BY <1>3 DEF Marks
<1>7. /\ dma_tx_desc_to_set = Plus(dma_cur, r)
      /\ J[r] = published + 1 /\ A[r] = EndAt
  BY <1>1 DEF Shape, RingShape
<1>8. /\ UNCHANGED <<buf, dma_cur, sending, wire, accepted>>
      /\ ctrl' = [ctrl EXCEPT ![dma_tx_desc_to_set] = Descriptor]
  BY DEF Publish, hist
<1>9. J2[0] = Len(wire') + 1 /\ sending' = Prefix(accepted'[J2[0]], A2[0])
  <2>1. 0 \in 0 .. r
    BY <1>3
  <2>2. J2[0] = J[0] /\ A2[0] = A[0]
    BY <1>6, <2>1
  <2> QED BY <1>1, <1>8, <2>2 DEF Shape
<1>10. ASSUME NEW d \in 0 .. (r + 1) - 1
       PROVE  Carries(Plus(dma_cur, d), J2[d], A2[d], J2[d + 1], A2[d + 1])'
  <2>1. CASE d = r
    <3>1. /\ J2[d] = J[r] /\ A2[d] = A[r]
          /\ J2[d + 1] = j2 /\ A2[d + 1] = a2
      BY <1>3, <1>6, <2>1
    <3>2. PICK i \in Ring : i = dma_tx_desc_to_set
      BY Cursors
    <3>3. Plus(dma_cur', d) = i
      BY <1>7, <1>8, <2>1, <3>2
    <3>4. Carries(i, J[r], A[r], j2, a2)'
      BY <1>7, <3>2, PublishPart
    <3> HIDE DEF J2, A2
    <3> QED BY <3>1, <3>3, <3>4 DEF Carries, Holds
  <2>2. CASE d /= r
    <3>1. d \in 0 .. r - 1 /\ d \in 0 .. r /\ d + 1 \in 0 .. r
          /\ d \in 0 .. NumDesc - 1 /\ d \in 0 .. NumDesc
      BY <1>3, <2>2
    <3>2. /\ J2[d] = J[d] /\ A2[d] = A[d]
          /\ J2[d + 1] = J[d + 1] /\ A2[d + 1] = A[d + 1]
      BY <1>6, <3>1
    <3>3. Plus(dma_cur, d) \in Ring /\ Plus(dma_cur, d) /= dma_tx_desc_to_set
      BY <1>3, <1>7, <2>2, <3>1, Cursors, PlusInRing, PlusInjective
    <3>4. ctrl'[Plus(dma_cur, d)] = ctrl[Plus(dma_cur, d)]
      BY <1>8, <3>3 DEF TypeOK
    <3>5. Carries(Plus(dma_cur, d), J[d], A[d], J[d + 1], A[d + 1])
      BY <1>1, <3>1 DEF Shape
    <3> HIDE DEF J2, A2
    <3> QED BY <1>8, <3>2, <3>4, <3>5 DEF Carries, Holds
  <2> QED BY <2>1, <2>2
<1> HIDE DEF J2, A2
<1>11. Shape(r + 1, J2, A2)'
  BY <1>3, <1>6, <1>9, <1>10 DEF Shape
<1> QED BY <1>3, <1>5, <1>11 DEF DataInv

\* The steps of the driver other than Publish write no descriptor, and no
\* byte of a buffer that the DMA has.
LEMMA DriverWrites ==
  ASSUME TypeOK, CallInv, NumbersInv,
         \/ Output \/ CheckOwn \/ CopyFill \/ CheckOwnNext \/ CopyRest
         \/ ChainCheck
         \/ CheckTbuChained \/ PollDemandChained \/ CheckTbu \/ PollDemand
  PROVE  /\ UNCHANGED <<own, ctrl, dma_cur, sending, wire, dma_tx_desc_to_set>>
         /\ \A i \in Ring : own[i] = "dma" => buf'[i] = buf[i]
         /\ published' = published /\ EndAt' = EndAt
         /\ \/ accepted' = accepted
            \/ ChainCheck
<1>1. CASE CopyFill \/ CopyRest
  <2>1. /\ pc = "copy" /\ pc' \in {"next", "check", "chain"}
        /\ \E n \in {Room, copy.count} : Memcpy(n)
        /\ UNCHANGED <<own, ctrl, dma_cur, sending, wire, dma_tx_desc_to_set,
                       accepted>>
    BY <1>1 DEF CopyFill, CopyRest, hist
  <2>2. own[ptr] = "cpu"
    <3>1. filled \in 0 .. NumDesc - 1 /\ ptr = Plus(dma_tx_desc_to_set, filled)
      BY FilledFacts
    <3>2. filled \in 0 .. (filled + 1) - 1
      BY <3>1
    <3> QED BY <2>1, <3>1, <3>2 DEF CallInv, CopyInv, OwnsFirst
  <2>3. \A i \in Ring : own[i] = "dma" => buf'[i] = buf[i]
    BY <2>1, <2>2 DEF Memcpy, TypeOK
  <2> QED BY <2>1, <2>3 DEF published, EndAt
<1>2. CASE ChainCheck
  <2>1. /\ pc = "chain" /\ pc' = "publish" /\ index' = 0 /\ UNCHANGED ring
        /\ dma_tx_desc_to_set' = dma_tx_desc_to_set
        /\ accepted' = Append(accepted, packet)
        /\ accepted \in Seq(Packet) /\ packet \in Packet
    BY <1>2, ChainAccepts
  <2>2. Len(accepted') = Len(accepted) + 1 /\ Len(accepted) \in Nat
    BY <2>1, AcceptedGrows
  <2>3. published' = published /\ EndAt' = EndAt
    BY <2>1, <2>2, FullFacts DEF published, EndAt
  <2> QED BY <1>2, <2>1, <2>3 DEF ring
<1>3. CASE \/ Output \/ CheckOwn \/ CheckOwnNext
           \/ CheckTbuChained \/ PollDemandChained \/ CheckTbu \/ PollDemand
  <2>1. /\ UNCHANGED <<own, buf, ctrl, dma_cur, sending, wire,
                       dma_tx_desc_to_set, accepted>>
        /\ pc /= "publish" /\ pc' /= "publish"
    BY <1>3
    DEF Output, CheckOwn, CheckOwnNext, Refuse, CheckTbuChained,
        PollDemandChained, CheckTbu, PollDemand, Return, ring, hist
  <2> QED BY <2>1 DEF published, EndAt
<1> QED BY <1>1, <1>2, <1>3

LEMMA DataStep ==
  ASSUME TypeOK, CallInv, BytesInv, NumbersInv, DataInv, [Next]_vars
  PROVE  DataInv'
<1>1. Len(accepted) \in Nat
  BY PublishedFacts
<1>2. CASE \/ Output \/ CheckOwn \/ CopyFill \/ CheckOwnNext \/ CopyRest
           \/ ChainCheck
           \/ CheckTbuChained \/ PollDemandChained \/ CheckTbu \/ PollDemand
  <2>1. /\ UNCHANGED <<own, ctrl, dma_cur, sending, wire, dma_tx_desc_to_set>>
        /\ \A i \in Ring : own[i] = "dma" => buf'[i] = buf[i]
        /\ published' = published /\ EndAt' = EndAt
    BY <1>2, DriverWrites
  <2>2. /\ Len(accepted') \in Nat /\ Len(accepted) <= Len(accepted')
        /\ \A j \in 1 .. Len(accepted) : accepted'[j] = accepted[j]
    <3>1. CASE accepted' = accepted
      BY <1>1, <3>1
    <3>2. CASE ChainCheck
      <4>1. /\ accepted' = Append(accepted, packet)
            /\ accepted \in Seq(Packet) /\ packet \in Packet
        BY <3>2, ChainAccepts
      <4> QED BY <1>1, <4>1, AcceptedGrows
    <3> QED BY <1>2, <3>1, <3>2, DriverWrites
  <2> QED BY <2>1, <2>2, SameData
<1>3. CASE DmaSuspend \/ UNCHANGED vars
  <2>1. /\ UNCHANGED <<own, ctrl, dma_cur, sending, wire, dma_tx_desc_to_set,
                       buf, accepted, pc, index>>
    BY <1>3 DEF DmaSuspend, vars, ring, locals, hist
  <2> QED BY <1>1, <2>1, SameData DEF published, EndAt
<1> QED BY <1>2, <1>3, SendData, PublishData DEF Next, Dma, Driver

\* A step of the wire is the sending of the packet that is next.
LEMMA WireStep ==
  ASSUME TypeOK, CallInv, NumbersInv, DataInv, [Next]_vars
  PROVE  \/ wire' = wire
         \/ /\ Len(wire) + 1 \in 1 .. Len(accepted) /\ accepted' = accepted
            /\ wire' = Append(wire, Whole(accepted[Len(wire) + 1]))
<1>1. CASE DmaSend
  <2>1. PICK r \in 0 .. NumDesc, J \in Marks, A \in Marks : Shape(r, J, A)
    BY DEF DataInv
  <2>2. accepted' = accepted
    BY <1>1 DEF DmaSend, hist
  <2> QED BY <1>1, <2>1, <2>2, SendBytes
<1>2. CASE DmaSuspend \/ Publish \/ UNCHANGED vars
  BY <1>2 DEF DmaSuspend, Publish, vars, ring
<1> QED BY <1>1, <1>2, DriverWrites DEF Next, Dma, Driver

LEMMA AppendTo ==
  ASSUME TypeOK, NEW x
  PROVE  /\ Len(wire) \in Nat /\ Len(Append(wire, x)) = Len(wire) + 1
         /\ Append(wire, x)[Len(wire) + 1] = x
         /\ \A j \in 1 .. Len(wire) : Append(wire, x)[j] = wire[j]
<1>1. wire \in Seq(Seq(Byte) \union {x})
  BY DEF TypeOK
<1> QED BY <1>1

LEMMA SentStep ==
  ASSUME TypeOK, CallInv, NumbersInv, DataInv, SentInv, [Next]_vars
  PROVE  SentInv'
<1>1. Len(accepted) \in Nat /\ Len(wire) \in Nat
  BY DEF TypeOK
<1>2. CASE wire' = wire
  <2>1. \/ accepted' = accepted
        \/ /\ accepted' = Append(accepted, packet)
           /\ accepted \in Seq(Packet) /\ packet \in Packet
    <3>1. CASE ChainCheck
      BY <3>1, ChainAccepts
    <3>2. CASE Dma \/ Publish \/ UNCHANGED vars
      BY <3>2 DEF Dma, DmaSend, DmaSuspend, Publish, vars, hist
    <3> QED BY <3>1, <3>2, DriverWrites DEF Next, Driver
  <2>2. /\ Len(accepted') \in Nat /\ Len(accepted) <= Len(accepted')
        /\ \A j \in 1 .. Len(accepted) : accepted'[j] = accepted[j]
    BY <1>1, <2>1, AcceptedGrows
  <2> QED BY <1>1, <1>2, <2>2 DEF SentInv
<1>3. CASE /\ Len(wire) + 1 \in 1 .. Len(accepted) /\ accepted' = accepted
           /\ wire' = Append(wire, Whole(accepted[Len(wire) + 1]))
  <2>1. /\ Len(wire') = Len(wire) + 1
        /\ wire'[Len(wire) + 1] = Whole(accepted[Len(wire) + 1])
        /\ \A j \in 1 .. Len(wire) : wire'[j] = wire[j]
    BY <1>3, AppendTo
  <2> SUFFICES ASSUME NEW j \in 1 .. Len(wire')
               PROVE  j <= Len(accepted') /\ wire'[j] = Whole(accepted'[j])
    BY DEF SentInv
  <2>2. j \in 1 .. Len(wire) \/ j = Len(wire) + 1
    BY <1>1, <2>1
  <2> QED BY <1>1, <1>3, <2>1, <2>2 DEF SentInv
<1> QED BY <1>2, <1>3, WireStep

\* What every reachable state satisfies.
LEMMA Inductive == Spec => []IInv
<1>1. IInv /\ [Next]_vars => IInv'
  BY NextIInv
<1> QED BY InitIInv, <1>1, PTL DEF Spec

(***************************************************************************)
(* Type correctness of the transmit driver: no cursor leaves the ring, no  *)
(* byte of Tx_Buff comes from outside the packet, no size exceeds a buffer.*)
(***************************************************************************)
THEOREM TypeCorrect == Spec => []TypeOK
<1>1. IInv => TypeOK
  BY DEF IInv
<1> QED BY <1>1, Inductive, PTL

(***************************************************************************)
(* low_level_output never copies into a buffer that the DMA owns, and the  *)
(* chaining never gives the DMA a descriptor that it has, for every packet *)
(* that fits in the ring, however it is split into pbufs.                  *)
(***************************************************************************)
THEOREM WriteOwnedAlways == Spec => []WriteOwned
<1>1. IInv => WriteOwned
  <2> SUFFICES ASSUME IInv
               PROVE  WriteOwned
    OBVIOUS
  <2>1. TypeOK /\ CallInv
    BY DEF IInv
  <2>2. ASSUME pc = "copy"
        PROVE  own[ptr] = "cpu"
    <3>1. OwnsFirst(filled + 1)
      BY <2>1, <2>2 DEF CallInv, CopyInv
    <3>2. filled \in 0 .. NumDesc - 1 /\ ptr = Plus(dma_tx_desc_to_set, filled)
      BY <2>1, FilledFacts
    <3>3. filled \in 0 .. (filled + 1) - 1
      BY <3>2
    <3> QED BY <3>1, <3>2, <3>3 DEF OwnsFirst
  <2>3. pc = "publish" => own[dma_tx_desc_to_set] = "cpu"
    BY <2>1, PublishOwned
  <2> QED BY <2>2, <2>3 DEF WriteOwned
<1> QED BY <1>1, Inductive, PTL

(***************************************************************************)
(* The copy loop of low_level_output and the division of                   *)
(* emac_txpkt_chainmode count the same buffers, for every length, every    *)
(* buffer size and every split into pbufs, and the whole packet is counted.*)
(***************************************************************************)
THEOREM CountsAgreeAlways == Spec => []CountsAgree
<1>1. IInv => CountsAgree
  BY ChainCounts DEF IInv, CountsAgree, filled
<1> QED BY <1>1, Inductive, PTL

(***************************************************************************)
(* No published descriptor lies behind the one that the DMA waits for.     *)
(***************************************************************************)
THEOREM NothingStrandedAlways == Spec => []NothingStranded
<1>1. IInv => NothingStranded
  <2> SUFFICES ASSUME IInv, own[dma_cur] = "cpu", NEW i \in Ring
               PROVE  own[i] = "cpu"
    BY DEF NothingStranded
  <2>1. TypeOK /\ RingInv
    BY DEF IInv
  <2>2. PICK r \in 0 .. NumDesc : RingShape(r)
    BY <2>1 DEF RingInv
  <2>3. Dist(dma_cur, dma_cur) = 0 /\ dma_cur \in Ring
    BY <2>1, Cursors, PlusInRing, DistOfPlus
  <2>4. r = 0
    BY <2>2, <2>3 DEF RingShape
  <2>5. Dist(dma_cur, i) \in 0 .. NumDesc - 1
    BY <2>3, PlusOfDist
  <2>6. own[i] /= "dma"
    BY <2>2, <2>4, <2>5 DEF RingShape
  <2> QED BY <2>1, <2>6 DEF TypeOK
<1> QED BY <1>1, Inductive, PTL

-----------------------------------------------------------------------------
(***************************************************************************)
(* What is in the ring and on the wire                                     *)
(***************************************************************************)
Content ==
  IInv /\ BytesInv /\ NumbersInv /\ OkInv /\ DataInv /\ SentInv

LEMMA InitContent == Init => Content
<1> SUFFICES ASSUME Init
             PROVE  Content
  OBVIOUS
<1>1. IInv
  BY InitIInv
<1>2. BytesInv /\ NumbersInv /\ OkInv /\ SentInv
  BY DEF Init, BytesInv, NumbersInv, Chained, Arrived, OkInv, SentInv
<1>3. DataInv
  <2> DEFINE J == [d \in 0 .. NumDesc |-> 1]
             A == [d \in 0 .. NumDesc |-> 0]
  <2>1. J \in Marks /\ A \in Marks /\ J[0] = 1 /\ A[0] = 0
    BY DEF Marks
  <2>2. RingShape(0)
    <3>1. Plus(0, 0) = 0 /\ 0 \in Ring
      BY PlusInRing DEF Ring
    <3>2. \A k \in Ring : ~ (Dist(0, k) < 0)
      BY <3>1, PlusOfDist
    <3> QED BY <3>1, <3>2 DEF Init, RingShape
  <2>3. /\ Len(wire) = 0 /\ published = 0 /\ EndAt = 0 /\ sending = << >>
    BY DEF Init, published, EndAt
  <2> HIDE DEF J, A
  <2>4. Shape(0, J, A)
    BY <2>1, <2>2, <2>3, PrefixNone DEF Shape
  <2> QED BY <2>1, <2>4 DEF DataInv
<1> QED BY <1>1, <1>2, <1>3 DEF Content

LEMMA ContentStep ==
  ASSUME Content, [Next]_vars
  PROVE  Content'
<1>1. /\ TypeOK /\ CallInv /\ IInv
      /\ BytesInv /\ NumbersInv /\ OkInv /\ DataInv /\ SentInv
  BY DEF Content, IInv
<1>2. IInv'
  BY <1>1, NextIInv
<1> QED
  BY <1>1, <1>2, BytesStep, NumbersStep, OkStep, DataStep, SentStep DEF Content

LEMMA ContentAlways == Spec => []Content
<1>1. Content /\ [Next]_vars => Content'
  BY ContentStep
<1> QED BY InitContent, <1>1, PTL DEF Spec

(***************************************************************************)
(* A packet for which low_level_output returned ERR_OK is on the wire or   *)
(* in descriptors of the DMA, for every ring, every packet that fits in it *)
(* and every moment at which the DMA looks.                                *)
(***************************************************************************)
THEOREM OkMeansSentAlways == Spec => []OkMeansSent
<1>1. Content => OkMeansSent
  <2> SUFFICES ASSUME Content, NEW id \in okd
               PROVE  \/ \E i \in Ring : own[i] = "dma" /\ buf[i][0].id = id
                      \/ \E j \in DOMAIN wire : wire[j][1].id = id
    BY DEF OkMeansSent
  <2>1. TypeOK /\ NumbersInv /\ OkInv /\ DataInv /\ SentInv
    BY DEF Content, IInv
  <2>2. PICK j \in 1 .. published : accepted[j].id = id
    BY <2>1 DEF OkInv
  <2>3. /\ published \in Nat /\ Len(accepted) \in Nat
        /\ published <= Len(accepted) /\ Len(wire) \in Nat
    <3>1. Len(wire) \in Nat
      BY <2>1 DEF TypeOK
    <3> QED BY <2>1, <3>1, PublishedFacts
  <2>4. CASE j <= Len(wire)
    <3>1. j \in 1 .. Len(wire) /\ j \in 1 .. Len(accepted)
      BY <2>3, <2>4
    <3>2. wire[j] = Whole(accepted[j]) /\ accepted[j].n >= 1
      BY <2>1, <3>1 DEF SentInv, NumbersInv
    <3>3. accepted[j] \in Packet
      BY <2>1, <3>1 DEF TypeOK
    <3>4. accepted[j].n \in Int
      BY <3>3 DEF Packet
    <3>5. 1 \in 1 .. accepted[j].n
      BY <3>2, <3>4
    <3>6. wire[j][1].id = id
      BY <2>2, <3>2, <3>5 DEF Whole, ByteOf
    <3> QED BY <3>1, <3>6
  <2>5. CASE j > Len(wire)
    <3>1. PICK r \in 0 .. NumDesc, J \in Marks, A \in Marks : Shape(r, J, A)
      BY <2>1 DEF DataInv
    <3>2. J[0] = Len(wire) + 1 /\ J[r] = published + 1
      BY <3>1 DEF Shape
    <3>3. j \in Nat /\ J[0] <= j /\ j < J[r]
      BY <2>3, <2>5, <3>2
    <3>4. PICK d \in 0 .. r - 1 : J[d] = j
      BY <3>1, <3>3, NoneMissing
    <3>5. Carries(Plus(dma_cur, d), J[d], A[d], J[d + 1], A[d + 1])
      BY <3>1 DEF Shape
    <3>6. PICK i \in Ring : i = Plus(dma_cur, d) /\ own[i] = "dma"
      BY <2>1, <3>1, OwnedAt DEF Shape
    <3>7. Holds(i, accepted[j], A[d])
      BY <3>4, <3>5, <3>6 DEF Carries
    <3>8. 0 \in 0 .. ctrl[i].size - 1
      <4>1. ctrl[i].size \in Int /\ ctrl[i].size >= 1
        BY <2>1, <3>7 DEF Holds, TypeOK
      <4> QED BY <4>1
    <3>9. buf[i][0] = ByteOf(accepted[j], A[d] + 0)
      BY <3>7, <3>8 DEF Holds
    <3> QED BY <2>2, <3>6, <3>9 DEF ByteOf
  <2> QED BY <2>3, <2>4, <2>5
<1> QED BY <1>1, ContentAlways, PTL

-----------------------------------------------------------------------------
(***************************************************************************)
(* The driver implements FrameFifo                                         *)
(***************************************************************************)
LEMMA WholeType ==
  ASSUME NEW f \in Packet
  PROVE  Whole(f) \in Seq(Byte) /\ Whole(f) = Fifo!Frame(f.id, f.n)
<1>1. f.id \in 0 .. MaxFrames /\ f.n \in 0 .. MaxBytes
  BY DEF Packet
<1>2. \A j \in 1 .. f.n : ByteOf(f, j - 1) = [id |-> f.id, k |-> j, n |-> f.n]
  BY <1>1 DEF ByteOf
<1>3. \A j \in 1 .. f.n : [id |-> f.id, k |-> j, n |-> f.n] \in Byte
  BY <1>1 DEF Byte
<1>4. Whole(f) = [j \in 1 .. f.n |-> [id |-> f.id, k |-> j, n |-> f.n]]
  BY <1>2 DEF Whole
<1> QED BY <1>1, <1>3, <1>4 DEF Fifo!Frame

InsideView ==
  /\ Len(wire) \in Nat /\ Len(accepted) \in Nat
  /\ Inside \in Seq(Seq(Byte))
  /\ Len(Inside) = Len(accepted) - Len(wire)
  /\ \A j \in 1 .. Len(accepted) - Len(wire) :
       Inside[j] = Whole(accepted[Len(wire) + j])

LEMMA InsideType == TypeOK /\ Len(wire) <= Len(accepted) => InsideView
<1> SUFFICES ASSUME TypeOK, Len(wire) <= Len(accepted)
             PROVE  InsideView
  OBVIOUS
<1>1. Len(wire) \in Nat /\ Len(accepted) \in Nat
      /\ Len(accepted) - Len(wire) \in Nat
  BY DEF TypeOK
<1>2. ASSUME NEW j \in 1 .. Len(accepted) - Len(wire)
      PROVE  Whole(accepted[Len(wire) + j]) \in Seq(Byte)
  <2>1. Len(wire) + j \in 1 .. Len(accepted)
    BY <1>1
  <2>2. accepted[Len(wire) + j] \in Packet
    BY <2>1 DEF TypeOK
  <2> QED BY <2>2, WholeType
<1> QED BY <1>1, <1>2 DEF Inside, InsideView

LEMMA InsideNext == (TypeOK /\ Len(wire) <= Len(accepted))' => InsideView'
  BY InsideType, PTL

\* The wire never overtakes what was accepted, and the ring is big enough.
LEMMA InsideFits ==
  ASSUME Content
  PROVE  /\ Len(wire) <= Len(accepted)
         /\ pc /= "publish" => Len(accepted) - Len(wire) <= NumDesc
<1>1. TypeOK /\ NumbersInv /\ DataInv
  BY DEF Content, IInv
<1>2. PICK r \in 0 .. NumDesc, J \in Marks, A \in Marks : Shape(r, J, A)
  BY <1>1 DEF DataInv
<1>3. J[0] = Len(wire) + 1 /\ J[r] = published + 1 /\ J[r] <= J[0] + r
  BY <1>2, NoMoreThanDescriptors DEF Shape
<1>4. Len(wire) \in Nat
  BY <1>1 DEF TypeOK
<1>5. /\ Len(accepted) \in Nat /\ published \in Nat
      /\ published \in {Len(accepted), Len(accepted) - 1}
  BY <1>1, PublishedFacts
<1>6. pc /= "publish" => published = Len(accepted)
  BY DEF published
<1>7. Len(wire) <= Len(accepted)
  <2>1. CASE J[0] \in 1 .. Len(accepted)
    BY <1>3, <1>4, <1>5, <2>1
  <2>2. CASE r = 0
    BY <1>3, <1>4, <1>5, <2>2
  <2> QED BY <1>1, <1>2, <2>1, <2>2, HeadPacket
<1> QED BY <1>3, <1>4, <1>5, <1>6, <1>7

\* One packet more: the frames inside get a new last one.
LEMMA ArriveStep ==
  ASSUME Content, Content', ChainCheck
  PROVE  Fifo!Arrive
<1>1. TypeOK /\ TypeOK' /\ CallInv /\ NumbersInv
  BY DEF Content, IInv
<1>2. /\ pc = "chain" /\ accepted' = Append(accepted, packet)
      /\ packet \in Packet /\ accepted \in Seq(Packet) /\ packet.n >= 1
      /\ wire' = wire
  BY <1>1, ChainAccepts DEF ring
<1>3. /\ Len(accepted') = Len(accepted) + 1 /\ Len(accepted) \in Nat
      /\ accepted' /= << >> /\ accepted'[Len(accepted) + 1] = packet
      /\ \A j \in 1 .. Len(accepted) : accepted'[j] = accepted[j]
  BY <1>2, AcceptedGrows
<1>4. Len(wire) <= Len(accepted) /\ Len(accepted) - Len(wire) <= NumDesc
  BY <1>2, InsideFits
<1>5. /\ Len(wire) \in Nat /\ Inside \in Seq(Seq(Byte))
      /\ Len(Inside) = Len(accepted) - Len(wire)
      /\ \A j \in 1 .. Len(accepted) - Len(wire) :
           Inside[j] = Whole(accepted[Len(wire) + j])
  BY <1>1, <1>4, InsideType DEF InsideView
<1>6. Len(wire') <= Len(accepted')
  BY <1>2, <1>3, <1>4, <1>5
<1>7. /\ Inside' \in Seq(Seq(Byte))
      /\ Len(Inside') = Len(accepted') - Len(wire')
      /\ \A j \in 1 .. Len(accepted') - Len(wire') :
           Inside'[j] = Whole(accepted'[Len(wire') + j])
  BY <1>1, <1>6, InsideNext DEF InsideView
<1>8. Whole(packet) \in Seq(Byte) /\ Whole(packet) = Fifo!Frame(packet.id, packet.n)
  BY <1>2, WholeType
<1>9. Inside' = Append(Inside, Whole(packet))
  <2> DEFINE s == Inside
             t == Inside'
             x == Whole(packet)
             n == Len(accepted) - Len(wire)
  <2>1. /\ s \in Seq(Seq(Byte)) /\ t \in Seq(Seq(Byte)) /\ x \in Seq(Byte)
        /\ n \in Nat /\ Len(s) = n /\ Len(t) = n + 1
    BY <1>2, <1>3, <1>4, <1>5, <1>7, <1>8
  <2>2. \A j \in 1 .. n : t[j] = s[j]
    <3> SUFFICES ASSUME NEW j \in 1 .. n
                 PROVE  t[j] = s[j]
      OBVIOUS
    <3>1. j \in 1 .. n + 1 /\ Len(wire) + j \in 1 .. Len(accepted)
      BY <1>3, <1>5, <2>1
    <3>2. j \in 1 .. Len(accepted') - Len(wire')
      BY <1>2, <1>3, <1>5, <3>1
    <3>3. s[j] = Whole(accepted[Len(wire) + j])
      BY <1>5
    <3>4. t[j] = Whole(accepted'[Len(wire) + j])
      BY <1>2, <1>7, <3>2
    <3>5. accepted'[Len(wire) + j] = accepted[Len(wire) + j]
      BY <1>3, <3>1
    <3> HIDE DEF s, t, n
    <3> QED BY <3>3, <3>4, <3>5
  <2>3. t[n + 1] = x
    <3>1. n + 1 \in 1 .. Len(accepted') - Len(wire')
          /\ Len(wire) + (n + 1) = Len(accepted) + 1
      BY <1>2, <1>3, <1>5, <2>1
    <3>2. t[n + 1] = Whole(accepted'[Len(wire) + (n + 1)])
      BY <1>2, <1>7, <3>1
    <3> QED BY <1>3, <3>1, <3>2
  <2> HIDE DEF s, t, x, n
  <2>4. /\ Append(s, x) \in Seq(Seq(Byte)) /\ Len(Append(s, x)) = n + 1
        /\ Append(s, x)[n + 1] = x /\ \A j \in 1 .. n : Append(s, x)[j] = s[j]
    BY <2>1
  <2>5. \A j \in 1 .. n + 1 : t[j] = Append(s, x)[j]
    <3> SUFFICES ASSUME NEW j \in 1 .. n + 1
                 PROVE  t[j] = Append(s, x)[j]
      OBVIOUS
    <3>1. j \in 1 .. n \/ j = n + 1
      BY <2>1
    <3> QED BY <2>2, <2>3, <2>4, <3>1
  <2>6. t = Append(s, x)
    BY <2>1, <2>4, <2>5, SeqEqual
  <2> QED BY <2>6 DEF s, t, x
<1>10. Arrived' = packet.id /\ Arrived' \in Arrived + 1 .. MaxFrames
  <2>1. Arrived' = packet.id
    BY <1>3 DEF Arrived
  <2>2. packet.id = calls /\ Arrived < calls /\ calls \in 0 .. MaxFrames
    BY <1>1, <1>2 DEF NumbersInv, TypeOK
  <2>3. Arrived \in Int
    <3>1. accepted = << >> \/ Len(accepted) \in 1 .. Len(accepted)
      BY <1>2
    <3>2. accepted = << >> \/ accepted[Len(accepted)] \in Packet
      BY <1>2, <3>1
    <3> QED BY <3>2 DEF Arrived, Packet
  <2> QED BY <2>1, <2>2, <2>3
<1>11. packet.n \in 1 .. MaxBytes
  BY <1>2 DEF Packet
<1>12. Len(Inside) < NumDesc + 1
  BY <1>3, <1>4, <1>5
<1>13. Inside' = Append(Inside, Fifo!Frame(Arrived', packet.n))
  BY <1>8, <1>9, <1>10
<1> QED BY <1>2, <1>10, <1>11, <1>12, <1>13 DEF Fifo!Arrive

\* The last descriptor of a packet is sent: the first one inside gets out.
LEMMA DeliverStep ==
  ASSUME Content, Content', Len(wire) + 1 \in 1 .. Len(accepted),
         accepted' = accepted,
         wire' = Append(wire, Whole(accepted[Len(wire) + 1]))
  PROVE  Fifo!Deliver
<1>1. TypeOK /\ TypeOK'
  BY DEF Content, IInv
<1>2. Len(wire) <= Len(accepted) /\ Len(wire') <= Len(accepted')
  BY InsideFits
<1>3. /\ Len(wire) \in Nat /\ Len(accepted) \in Nat
      /\ Inside \in Seq(Seq(Byte)) /\ Len(Inside) = Len(accepted) - Len(wire)
      /\ \A j \in 1 .. Len(accepted) - Len(wire) :
           Inside[j] = Whole(accepted[Len(wire) + j])
  BY <1>1, <1>2, InsideType DEF InsideView
<1>4. /\ Inside' \in Seq(Seq(Byte)) /\ Len(Inside') = Len(accepted') - Len(wire')
      /\ \A j \in 1 .. Len(accepted') - Len(wire') :
           Inside'[j] = Whole(accepted'[Len(wire') + j])
  BY <1>1, <1>2, InsideNext DEF InsideView
<1>5. Len(wire') = Len(wire) + 1
  BY <1>1, AppendTo
<1> DEFINE s == Inside
           t == Inside'
           n == Len(accepted) - Len(wire)
<1>6. /\ s \in Seq(Seq(Byte)) /\ t \in Seq(Seq(Byte))
      /\ n \in Nat /\ n >= 1 /\ Len(s) = n /\ Len(t) = n - 1
  BY <1>3, <1>4, <1>5
<1>7. s[1] = Whole(accepted[Len(wire) + 1])
  BY <1>3, <1>6
<1>8. \A j \in 1 .. n - 1 : t[j] = s[j + 1]
  <2> SUFFICES ASSUME NEW j \in 1 .. n - 1
               PROVE  t[j] = s[j + 1]
    OBVIOUS
  <2>1. /\ j + 1 \in 1 .. Len(accepted) - Len(wire)
        /\ j \in 1 .. Len(accepted') - Len(wire')
        /\ Len(wire') + j = Len(wire) + (j + 1)
    BY <1>3, <1>5
  <2>2. s[j + 1] = Whole(accepted[Len(wire) + (j + 1)])
    BY <1>3, <2>1
  <2>3. t[j] = Whole(accepted[Len(wire') + j])
    BY <1>4, <2>1
  <2> HIDE DEF s, t, n
  <2> QED BY <2>1, <2>2, <2>3
<1> HIDE DEF s, t, n
<1>9. s /= << >> /\ Head(s) = s[1]
  BY <1>6
<1>10. Tail(s) = t
  <2>1. /\ Tail(s) \in Seq(Seq(Byte)) /\ Len(Tail(s)) = n - 1
        /\ \A j \in 1 .. n - 1 : Tail(s)[j] = s[j + 1]
    BY <1>6, <1>9, HeadTailProperties
  <2> QED BY <1>6, <1>8, <2>1, SeqEqual
<1>11. Arrived' = Arrived
  BY DEF Arrived
<1> QED BY <1>7, <1>9, <1>10, <1>11 DEF Fifo!Deliver, s, t

LEMMA FifoStep ==
  ASSUME Content, Content', [Next]_vars
  PROVE  [Fifo!Next]_Fifo!vars
<1>1. TypeOK /\ CallInv /\ NumbersInv /\ DataInv
  BY DEF Content, IInv
<1>2. CASE ChainCheck
  BY <1>2, ArriveStep DEF Fifo!Next
<1>3. CASE ~ ChainCheck /\ wire' = wire
  <2>1. accepted' = accepted
    <3>1. CASE Dma \/ Publish \/ UNCHANGED vars
      BY <3>1 DEF Dma, DmaSend, DmaSuspend, Publish, vars, hist
    <3> QED BY <1>1, <1>3, <3>1, DriverWrites DEF Next, Driver
  <2> QED BY <1>3, <2>1 DEF Fifo!vars, Arrived, Inside
<1>4. CASE wire' /= wire
  BY <1>1, <1>4, WireStep, DeliverStep DEF Fifo!Next
<1> QED BY <1>2, <1>3, <1>4

(***************************************************************************)
(* Packets go out whole, once and in the order of the calls, and one that  *)
(* is refused leaves no trace: low_level_output, emac_txpkt_chainmode and  *)
(* the DMA implement FrameFifo, whatever the ring, the buffers and the     *)
(* split into pbufs.                                                       *)
(***************************************************************************)
THEOREM FramesInOrderAlways == Spec => FramesInOrder
<1>1. Init => Fifo!Init
  BY DEF Init, Fifo!Init, Arrived, Inside
<1>2. Content /\ Content' /\ [Next]_vars => [Fifo!Next]_Fifo!vars
  BY FifoStep
<1> QED
  BY <1>1, <1>2, ContentAlways, PTL DEF Spec, FramesInOrder, Fifo!Spec
=============================================================================
