------------------------- MODULE HelloThreadProofs --------------------------
(***************************************************************************)
(* Theorems about UsartEdma, Sbrk and the thread that uses both, for every *)
(* table and heap, every number of descriptors and sequence of requests.   *)
(*                                                                         *)
(* SentIsAdded is for one stream in use and chains that fit in the table;  *)
(* UsartEdma says what becomes of others, and usart_streams shows one.     *)
(* With one stream the shared count is that stream's count: its chain is   *)
(* Filled, everything else is still zero, and what the EDMA has sent is as *)
(* much of the chain as lies before its cursor.                            *)
(*                                                                         *)
(* Until heap_end wraps it is either the end of what was granted or beyond *)
(* the heap, where every call fails: so a call that succeeds grants the    *)
(* part of the heap right behind all others.                               *)
(*                                                                         *)
(* The thread does nothing to table and heap that the library and _sbrk do *)
(* not, so their theorems hold of it.  It never polls the USART while a    *)
(* stream runs, so nothing comes between the poll and the byte.            *)
(***************************************************************************)
EXTENDS HelloThread, TLAPS

\* The data of the first n adds.
UpTo(n) == [i \in 1 .. n |-> i]

\* The table with n descriptors chained from slot r on.
Chained(r, n) ==
  [i \in Memory |-> IF i \in r .. r + n - 1
                      THEN [data |-> i - r + 1, next |-> i + 1] ELSE Zero]

Used(s) == added[s] /= << >>

Filled ==
  /\ (\A s \in Streams : ~Used(s)) => count = 0 /\ table = Chained(0, 0)
  /\ \A s \in Streams : Used(s) =>
       /\ \A t \in Streams \ {s} : ~Used(t)
       /\ added[s] = UpTo(count)
       /\ table = Chained(Row(s), count)

Sending ==
  \A s \in Streams :
    /\ first[s] \in {None, Row(s)}
    /\ first[s] /= None => Used(s)
    /\ cur[s] /= None =>
         /\ first[s] /= None
         /\ cur[s] \in Row(s) .. Row(s) + count
         /\ sent[s] = UpTo(cur[s] - Row(s))

Finished == \A s \in Streams : last[s] /= <<None>> =>
              first[s] /= None /\ last[s] = added[s]

IInv ==
  /\ TypeOK
  /\ Filled
  /\ Sending
  /\ Finished

-----------------------------------------------------------------------------
\* The rows lie in the table.
LEMMA RowInSlots == \A s \in Streams : Row(s) \in Slots
<1> SUFFICES ASSUME NEW s \in Streams
             PROVE  Row(s) \in Slots
  OBVIOUS
<1> USE UsartAssumption
<1> DEFINE N == NumStreams  D == DESCRIPTORS_SIZE_BUF
<1>1. /\ N \in Nat /\ D \in Nat /\ D >= 1 /\ s \in Nat /\ s + 1 <= N
  BY DEF Streams
<1>2. s * D \in Nat /\ N * D \in Nat
  BY <1>1
<1>3. s * D + D <= N * D
  <2>1. PICK k \in Nat : N = s + 1 + k
    <3>1. N - (s + 1) \in Nat /\ N = s + 1 + (N - (s + 1))
      BY <1>1
    <3> QED BY <3>1
  <2>2. N * D = s * D + D + k * D
    BY <1>1, <2>1
  <2>3. k * D \in Nat
    BY <1>1, <2>1
  <2> HIDE DEF N, D
  <2> QED BY <1>2, <1>1, <2>2, <2>3
<1> HIDE DEF N, D
<1>4. s * D \in 0 .. N * D - 1
  BY <1>1, <1>2, <1>3
<1> QED BY <1>4 DEF N, D, Row, Slots, NumSlots

LEMMA SlotsAreNat ==
  /\ NumSlots \in Nat
  /\ Slots \subseteq Memory
  /\ Memory \subseteq Nat
  /\ None \notin Memory
<1>1. NumSlots \in Nat /\ MaxAdds \in Nat
  BY UsartAssumption DEF NumSlots
<1> HIDE DEF NumSlots
<1> QED BY <1>1 DEF Slots, Memory, None

\* A call that is still possible reaches no farther than Memory.
LEMMA AddInMemory ==
  ASSUME NEW s \in Streams, count \in Data, count < MaxAdds
  PROVE  /\ Row(s) \in Nat /\ count \in Nat
         /\ count + 1 \in Data
         /\ Row(s) + count \in Memory
         /\ Row(s) + count + 1 \in Memory
<1>1. Row(s) \in Slots /\ NumSlots \in Nat /\ MaxAdds \in Nat
  BY RowInSlots, SlotsAreNat, UsartAssumption
<1> HIDE DEF NumSlots
<1> QED BY <1>1 DEF Slots, Memory, Data

LEMMA DataAreNat == Data \subseteq Nat
  BY UsartAssumption DEF Data

\* Numbers up to n are a sequence; the next one goes to its end.
LEMMA UpToSeq ==
  ASSUME NEW n \in Nat
  PROVE  /\ UpTo(n) \in Seq(1 .. n)
         /\ Len(UpTo(n)) = n
         /\ Append(UpTo(n), n + 1) = UpTo(n + 1)
         /\ UpTo(n) = << >> <=> n = 0
  BY DEF UpTo

LEMMA UpToData ==
  ASSUME NEW n \in Data
  PROVE  UpTo(n) \in Seq(Data) /\ UpTo(n) \in Seq(Data \union {None})
<1>1. 1 .. n \subseteq Data /\ n \in Nat
  BY UsartAssumption DEF Data
<1>2. UpTo(n) \in Seq(1 .. n)
  BY <1>1, UpToSeq
<1> QED BY <1>1, <1>2

-----------------------------------------------------------------------------
LEMMA InitType == Init => TypeOK
<1> SUFFICES ASSUME Init
             PROVE  TypeOK
  OBVIOUS
<1>1. 0 \in Data /\ Zero \in [data : Data, next : Memory \union {None}]
  BY UsartAssumption DEF Data, Zero
<1>2. <<None>> \in Seq(Data \union {None}) /\ << >> \in Seq(Data)
  OBVIOUS
<1> QED BY <1>1, <1>2 DEF Init, TypeOK

LEMMA AddType ==
  ASSUME TypeOK, NEW s \in Streams, Add(s)
  PROVE  TypeOK'
<1>1. /\ count + 1 \in Data
      /\ Row(s) + count + 1 \in Memory
  BY AddInMemory DEF Add, TypeOK
<1>2. [data |-> count + 1, next |-> Row(s) + count + 1]
        \in [data : Data, next : Memory \union {None}]
  BY <1>1
<1>3. Append(added[s], count + 1) \in Seq(Data)
  BY <1>1 DEF TypeOK
<1> QED BY <1>1, <1>2, <1>3 DEF Add, TypeOK

\* Whatever the EDMA loads, in the table or behind it, is a descriptor.
LEMMA TransferType ==
  ASSUME TypeOK, NEW s \in Streams, Transfer(s)
  PROVE  TypeOK'
<1>1. PICK d \in Loads(cur[s]) :
        \/ /\ cur' = [cur EXCEPT ![s] = None]
           /\ last' = [last EXCEPT ![s] = sent[s]]
           /\ fdt' = fdt \union {s}
           /\ UNCHANGED sent
        \/ /\ sent' = [sent EXCEPT ![s] = Append(@, d.data)]
           /\ cur' = [cur EXCEPT ![s] = d.next]
           /\ UNCHANGED <<fdt, last>>
  BY DEF Transfer
<1>2. d \in [data : Data, next : Memory \union {None}]
  <2>1. CASE cur[s] \in Slots
    <3>1. d = table[cur[s]]
      BY <1>1, <2>1 DEF Loads
    <3>2. cur[s] \in Memory
      BY <2>1, SlotsAreNat
    <3> QED BY <3>1, <3>2 DEF TypeOK
  <2>2. CASE cur[s] \notin Slots
    BY <2>2 DEF Loads, Data
  <2> QED BY <2>1, <2>2
<1>3. sent[s] \in Seq(Data) /\ sent[s] \in Seq(Data \union {None})
  BY DEF TypeOK
<1>4. Append(sent[s], d.data) \in Seq(Data)
  BY <1>2, <1>3
<1>5. UNCHANGED <<table, count, first, added>>
  BY DEF Transfer
<1> QED BY <1>1, <1>2, <1>3, <1>4, <1>5 DEF TypeOK

LEMMA NextType == TypeOK /\ [Next]_vars => TypeOK'
<1> SUFFICES ASSUME TypeOK, [Next]_vars
             PROVE  TypeOK'
  OBVIOUS
<1>1. CASE UNCHANGED vars
  BY <1>1 DEF TypeOK, vars
<1>2. CASE Stream1Irq
  BY <1>2 DEF Stream1Irq, TypeOK
<1>3. ASSUME NEW s \in Streams, InitStream(s)
      PROVE  TypeOK'
  BY <1>3, RowInSlots DEF InitStream, TypeOK
<1>4. ASSUME NEW s \in Streams, Start(s)
      PROVE  TypeOK'
  <2>1. first[s] \in Memory \union {None}
    <3>1. first[s] \in Slots \union {None}
      BY DEF TypeOK
    <3>2. Slots \subseteq Memory
      BY SlotsAreNat
    <3> QED BY <3>1, <3>2, Zenon
  <2>2. /\ cur' \in [Streams -> Memory \union {None}]
        /\ sent' \in [Streams -> Seq(Data)]
    BY <1>4, <2>1 DEF Start, TypeOK
  <2> QED BY <1>4, <2>2 DEF Start, TypeOK
<1> QED BY <1>1, <1>2, <1>3, <1>4, AddType, TransferType DEF Next

(***************************************************************************)
(* Whatever is added to whichever streams, a chain leads no farther than   *)
(* to the slot behind the last call's, and every variable keeps its type.  *)
(***************************************************************************)
THEOREM TypeCorrect == Spec => []TypeOK
  BY InitType, NextType, PTL DEF Spec

-----------------------------------------------------------------------------
LEMMA InitIInv == Init => IInv
<1> SUFFICES ASSUME Init
             PROVE  IInv
  OBVIOUS
<1> USE DEF Init
<1>1. Filled
  <2>1. table = Chained(0, 0)
    BY SlotsAreNat DEF Chained
  <2> QED BY <2>1 DEF Filled, Used
<1> QED BY <1>1, InitType DEF IInv, Sending, Finished

\* The chain grows by one at its end.
LEMMA ChainedGrows ==
  ASSUME NEW r \in Nat, NEW n \in Nat, r + n \in Memory,
         table = Chained(r, n)
  PROVE  [table EXCEPT ![r + n] = [data |-> n + 1, next |-> r + n + 1]]
           = Chained(r, n + 1)
<1> DEFINE new == [data |-> n + 1, next |-> r + n + 1]
<1>1. ASSUME NEW i \in Memory
      PROVE  [table EXCEPT ![r + n] = new][i] = Chained(r, n + 1)[i]
  <2>1. i \in Nat /\ r \in Nat
    BY SlotsAreNat
  <2>2. CASE i = r + n
    <3>1. i - r + 1 = n + 1 /\ i \in r .. r + (n + 1) - 1
      BY <2>1, <2>2
    <3>2. [table EXCEPT ![r + n] = new][i] = new
      BY <2>2 DEF Chained
    <3>3. Chained(r, n + 1)[i] = [data |-> i - r + 1, next |-> i + 1]
      BY <3>1 DEF Chained
    <3> QED BY <3>1, <3>2, <3>3, <2>2
  <2>3. CASE i /= r + n
    <3>1. i \in r .. r + (n + 1) - 1 <=> i \in r .. r + n - 1
      BY <2>1, <2>3
    <3>2. [table EXCEPT ![r + n] = new][i] = Chained(r, n)[i]
      BY <2>3 DEF Chained
    <3> QED BY <3>1, <3>2 DEF Chained
  <2> QED BY <2>2, <2>3
<1> QED BY <1>1 DEF Chained

LEMMA AddStep ==
  ASSUME OneStream, IInv, NEW s \in Streams, Add(s)
  PROVE  IInv'
<1> USE DEF IInv
<1> DEFINE r == Row(s)
<1>1. r \in Nat /\ count \in Nat /\ r + count \in Memory
  BY AddInMemory DEF Add, TypeOK
<1>2. \A t \in Streams \ {s} : ~Used(t)
  BY DEF Add, Used
<1>3. table = Chained(r, count) /\ added[s] = UpTo(count)
  <2>1. CASE Used(s)
    BY <2>1 DEF Filled
  <2>2. CASE ~Used(s)
    <3>1. count = 0 /\ table = Chained(0, 0)
      BY <1>2, <2>2 DEF Filled
    <3>2. Chained(r, 0) = Chained(0, 0)
      <4> HIDE DEF r
      <4> QED BY <1>1, SlotsAreNat DEF Chained
    <3>3. added[s] = UpTo(0)
      BY <2>2, UpToSeq DEF Used
    <3> QED BY <3>1, <3>2, <3>3
  <2> QED BY <2>1, <2>2
<1>4. table' = Chained(r, count + 1)
  <2>1. table' = [table EXCEPT ![r + count] =
                    [data |-> count + 1, next |-> r + count + 1]]
    BY DEF Add
  <2> HIDE DEF r
  <2> QED BY <1>1, <1>3, <2>1, ChainedGrows
<1>5. added' = [added EXCEPT ![s] = UpTo(count + 1)] /\ count' = count + 1
  BY <1>1, <1>3, UpToSeq DEF Add
<1>6. added'[s] = UpTo(count') /\ UpTo(count') /= << >>
  <2>1. added'[s] = UpTo(count')
    BY <1>5 DEF TypeOK
  <2>2. count + 1 \in Nat /\ count + 1 /= 0
    BY <1>1
  <2> QED BY <1>5, <2>1, <2>2, UpToSeq
<1>7. UNCHANGED <<first, cur, sent, fdt, last>>
  BY DEF Add
<1>8. TypeOK'
  BY AddType
<1>9. Filled'
  <2>1. \A t \in Streams \ {s} : added'[t] = << >>
    BY <1>2, <1>5 DEF Used, TypeOK
  <2> QED BY <1>4, <1>5, <1>6, <2>1 DEF Filled, Used, Row
<1>10. \A t \in Streams : first[t] = None /\ cur[t] = None
  BY <1>2 DEF Add, Sending
<1>11. Sending' /\ Finished'
  BY <1>7, <1>10 DEF Sending, Finished, Row
<1> QED BY <1>8, <1>9, <1>11

LEMMA InitStreamStep ==
  ASSUME IInv, NEW s \in Streams, InitStream(s)
  PROVE  IInv'
<1> USE DEF IInv
<1>1. TypeOK'
  BY NextType DEF Next
<1>2. Filled'
  BY DEF InitStream, Filled, Used
<1>3. first[s] \in {None, Row(s)} /\ Row(s) /= None
  BY RowInSlots, SlotsAreNat DEF Sending
<1>4. Sending' /\ Finished'
  BY <1>3 DEF InitStream, Sending, Finished, Used, TypeOK
<1> QED BY <1>1, <1>2, <1>4

LEMMA StartStep ==
  ASSUME IInv, NEW s \in Streams, Start(s)
  PROVE  IInv'
<1> USE DEF IInv
<1>1. TypeOK'
  BY NextType DEF Next
<1>2. Filled' /\ Finished'
  BY DEF Start, Filled, Used, Finished
<1>3. /\ cur' = [cur EXCEPT ![s] = Row(s)]
      /\ sent' = [sent EXCEPT ![s] = UpTo(0)]
  BY UpToSeq DEF Start, Sending
<1>4. Row(s) \in Nat /\ count \in Nat /\ Row(s) - Row(s) = 0
      /\ Row(s) \in Row(s) .. Row(s) + count
  <2>1. Row(s) \in Nat /\ count \in Nat
    BY RowInSlots, SlotsAreNat, DataAreNat DEF TypeOK
  <2> QED BY <2>1
<1>5. Sending'
  <2>1. UNCHANGED <<first, count, added>> /\ first[s] /= None
    BY DEF Start
  <2>2. cur \in [Streams -> Memory \cup {None}]
        /\ sent \in [Streams -> Seq(Data)]
    BY DEF TypeOK
  <2> SUFFICES ASSUME NEW t \in Streams
               PROVE  /\ first[t] \in {None, Row(t)}
                      /\ first[t] /= None => Used(t)
                      /\ cur'[t] /= None =>
                           /\ first[t] /= None
                           /\ cur'[t] \in Row(t) .. Row(t) + count
                           /\ sent'[t] = UpTo(cur'[t] - Row(t))
    BY <2>1 DEF Sending, Used, Row, UpTo
  <2>3. CASE t = s
    <3>1. cur'[s] = Row(s) /\ sent'[s] = UpTo(0)
      BY <1>3, <2>2
    <3> QED BY <1>4, <2>1, <2>3, <3>1 DEF Sending
  <2>4. CASE t /= s
    <3>1. cur'[t] = cur[t] /\ sent'[t] = sent[t]
      BY <1>3, <2>2, <2>4
    <3> QED BY <3>1 DEF Sending
  <2> QED BY <2>3, <2>4
<1> QED BY <1>1, <1>2, <1>5

LEMMA TransferStep ==
  ASSUME IInv, ChainsFit, NEW s \in Streams, Transfer(s)
  PROVE  IInv'
<1> USE DEF IInv
<1> DEFINE r == Row(s)  c == cur[s]  d == table[c]
<1>1. /\ first[s] /= None /\ Used(s)
      /\ c \in r .. r + count /\ sent[s] = UpTo(c - r)
  BY DEF Transfer, Sending
<1>2. added[s] = UpTo(count) /\ table = Chained(r, count)
  BY <1>1 DEF Filled
<1>3. /\ r \in Nat /\ count \in Nat /\ count \in Data
      /\ c \in Nat /\ c \in Memory
  <2>1. r \in Nat
    BY RowInSlots, SlotsAreNat
  <2>2. count \in Data /\ count \in Nat
    BY DataAreNat DEF TypeOK
  <2>3. c \in Memory /\ c \in Nat
    BY SlotsAreNat DEF Transfer, TypeOK
  <2> QED BY <2>1, <2>2, <2>3
<1>4. r + count \in Slots
  <2>1. Len(added[s]) = count
    BY <1>2, <1>3, UpToSeq
  <2> QED BY <1>1, <2>1 DEF ChainsFit, Used
<1>5. c \in Slots
  <2>1. NumSlots \in Nat
    BY SlotsAreNat
  <2> HIDE DEF r, c
  <2> QED BY <1>1, <1>3, <1>4, <2>1 DEF Slots
<1>6. \/ /\ d.data = 0
         /\ cur' = [cur EXCEPT ![s] = None]
         /\ last' = [last EXCEPT ![s] = sent[s]]
         /\ UNCHANGED sent
      \/ /\ d.data /= 0
         /\ sent' = [sent EXCEPT ![s] = Append(@, d.data)]
         /\ cur' = [cur EXCEPT ![s] = d.next]
         /\ UNCHANGED last
  BY <1>5 DEF Transfer, Loads
<1>7. UNCHANGED <<table, count, first, added>>
  BY DEF Transfer
<1>8. TypeOK' /\ Filled'
  BY <1>7, TransferType DEF Filled, Used
<1>9. CASE c = r + count
  <2>1. d.data = 0
    <3> HIDE DEF r, c
    <3> QED BY <1>2, <1>3, <1>9 DEF Chained, Zero
  <2>2. sent[s] = added[s]
    <3>1. c - r = count
      <4> HIDE DEF r, c
      <4> QED BY <1>3, <1>9
    <3> QED BY <1>1, <1>2, <3>1
  <2>3. /\ cur' = [cur EXCEPT ![s] = None]
        /\ last' = [last EXCEPT ![s] = added[s]]
        /\ UNCHANGED sent
    BY <1>6, <2>1, <2>2
  <2>4. Sending' /\ Finished'
    BY <1>1, <1>7, <2>3 DEF Sending, Finished, Used, TypeOK, Row
  <2> QED BY <1>8, <2>4
<1>10. CASE c /= r + count
  <2>1. /\ d.data = c - r + 1 /\ d.next = c + 1 /\ d.data /= 0
        /\ c - r \in Nat /\ c + 1 \in r .. r + count
        /\ c + 1 - r = c - r + 1
    <3> HIDE DEF r, c
    <3> QED BY <1>1, <1>2, <1>3, <1>10 DEF Chained
  <2>2. Append(sent[s], d.data) = UpTo(c + 1 - r)
    <3>1. Append(UpTo(c - r), c - r + 1) = UpTo(c - r + 1)
      BY <2>1, UpToSeq
    <3> QED BY <1>1, <2>1, <3>1
  <2>3. /\ cur' = [cur EXCEPT ![s] = c + 1]
        /\ sent' = [sent EXCEPT ![s] = UpTo(c + 1 - r)]
        /\ UNCHANGED last
    BY <1>6, <2>1, <2>2
  <2>4. cur'[s] = c + 1 /\ sent'[s] = UpTo(c + 1 - r)
    <3> HIDE DEF r, c
    <3> QED BY <2>3 DEF TypeOK
  <2>5. \A t \in Streams \ {s} : cur'[t] = cur[t] /\ sent'[t] = sent[t]
    BY <2>3 DEF TypeOK
  <2>6. Sending'
    <3> SUFFICES ASSUME NEW t \in Streams
                 PROVE  /\ first[t] \in {None, Row(t)}
                        /\ first[t] /= None => Used(t)
                        /\ cur'[t] /= None =>
                             /\ first[t] /= None
                             /\ cur'[t] \in Row(t) .. Row(t) + count
                             /\ sent'[t] = UpTo(cur'[t] - Row(t))
      BY <1>7 DEF Sending, Used, Row
    <3>1. CASE t = s
      <4>1. first[s] \in {None, Row(s)}
        BY DEF Sending
      <4>2. cur'[s] \in Row(s) .. Row(s) + count
        BY <2>1, <2>4
      <4>3. sent'[s] = UpTo(cur'[s] - Row(s))
        <5>1. cur'[s] - Row(s) = c + 1 - r
          BY <1>3, <2>4
        <5> QED BY <2>4, <5>1
      <4> HIDE DEF r, c
      <4> QED BY <1>1, <3>1, <4>1, <4>2, <4>3
    <3>2. CASE t /= s
      BY <2>5, <3>2 DEF Sending
    <3> QED BY <3>1, <3>2
  <2>7. Finished'
    BY <1>7, <2>3 DEF Finished
  <2> QED BY <1>8, <2>6, <2>7
<1> QED BY <1>9, <1>10

LEMMA NextIInv ==
  ASSUME OneStream, IInv, ChainsFit, [Next]_vars
  PROVE  IInv'
<1>1. CASE UNCHANGED vars
  BY <1>1 DEF IInv, TypeOK, Filled, Sending, Finished, Used, Row, vars
<1>2. CASE Stream1Irq
  BY <1>2 DEF IInv, TypeOK, Filled, Sending, Finished, Used, Row, Stream1Irq
<1> QED BY <1>1, <1>2, AddStep, InitStreamStep, StartStep, TransferStep
        DEF Next

-----------------------------------------------------------------------------
(***************************************************************************)
(* The inductive invariant: with one stream in use its descriptors are a   *)
(* chain from the first slot of its row, and, as long as that chain fits   *)
(* in the table, the EDMA is on it.                                        *)
(***************************************************************************)
THEOREM Inductive ==
  ASSUME OneStream
  PROVE  Spec /\ []ChainsFit => []IInv
<1>1. Init => IInv
  BY InitIInv
<1>2. IInv /\ ChainsFit /\ [Next]_vars => IInv'
  BY NextIInv
<1> QED BY <1>1, <1>2, PTL DEF Spec

(***************************************************************************)
(* Every transmission of a single stream whose chain fits in the table     *)
(* sends all that was added, in the order in which it was added.           *)
(***************************************************************************)
THEOREM SentIsAddedAlways ==
  ASSUME OneStream
  PROVE  Spec /\ []ChainsFit => []SentIsAdded
<1>1. IInv => SentIsAdded
  BY DEF IInv, Finished, SentIsAdded
<1> QED BY <1>1, Inductive, PTL

-----------------------------------------------------------------------------
HeapTypeOK ==
  /\ heap_end \in Nat
  /\ MemRegs \in Nat
  /\ wrapped \in BOOLEAN
  /\ granted \subseteq [at : Nat, size : Nat]

\* Where heap_end is before it wraps.
EndIsTop ==
  ~wrapped =>
    /\ prev_heap_end = HeapStart + MemRegs \/ prev_heap_end >= HeapEnd
    /\ prev_heap_end < Word

HeapInv == HeapTypeOK /\ EndIsTop /\ GrantsAreOwn

LEMMA InitHeapInv == HeapInit => HeapInv
<1> SUFFICES ASSUME HeapInit
             PROVE  HeapInv
  OBVIOUS
<1> USE HeapAssumption DEF HeapInit
<1>1. HeapTypeOK
  BY DEF HeapTypeOK
<1>2. EndIsTop
  BY DEF EndIsTop, prev_heap_end
<1>3. GrantsAreOwn
  BY DEF GrantsAreOwn
<1> QED BY <1>1, <1>2, <1>3 DEF HeapInv

LEMMA CallHeapInv ==
  ASSUME NEW incr \in 1 .. MaxIncr, HeapInv, SbrkCall(incr)
  PROVE  HeapInv'
<1> USE HeapAssumption
<1> DEFINE prev == prev_heap_end
           block == [at |-> prev, size |-> incr]
<1>1. prev \in Nat /\ prev > 0 /\ incr \in Nat /\ incr > 0
  BY DEF HeapInv, HeapTypeOK, prev_heap_end
<1>2. HeapTypeOK'
  BY <1>1 DEF HeapInv, HeapTypeOK, SbrkCall, Wrap
<1>3. ASSUME ~wrapped'
      PROVE  /\ ~wrapped
             /\ heap_end' = prev + incr
             /\ heap_end' < Word
             /\ prev_heap_end' = heap_end'
  <2>1. ~wrapped /\ ~(prev + incr >= Word)
    BY <1>3 DEF SbrkCall
  <2>2. heap_end' = prev + incr
    BY <1>1, <2>1 DEF SbrkCall, Wrap
  <2>3. heap_end' /= 0
    BY <1>1, <2>2
  <2> QED BY <1>1, <2>1, <2>2, <2>3 DEF prev_heap_end
<1>4. CASE Granted
  <2>1. ASSUME ~wrapped'
        PROVE  prev = HeapStart + MemRegs
    BY <1>1, <1>3, <1>4, <2>1 DEF HeapInv, EndIsTop, Granted
  <2>2. EndIsTop'
    BY <1>1, <1>3, <1>4, <2>1 DEF HeapInv, HeapTypeOK, EndIsTop, SbrkCall
  <2>3. GrantsAreOwn'
    <3> SUFFICES ASSUME ~wrapped'
                 PROVE  /\ HeapStart + MemRegs' < HeapEnd
                        /\ \A g \in granted' :
                             /\ HeapStart <= g.at
                             /\ g.at + g.size <= HeapStart + MemRegs'
                        /\ \A g, h \in granted' :
                             \/ g = h
                             \/ g.at + g.size <= h.at
                             \/ h.at + h.size <= g.at
      BY DEF GrantsAreOwn
    <3>1. /\ ~wrapped
          /\ prev = HeapStart + MemRegs
          /\ heap_end' = prev + incr
      BY <1>3, <2>1
    <3>2. /\ MemRegs' = MemRegs + incr
          /\ granted' = granted \union {block}
      BY <1>4 DEF SbrkCall
    <3>3. \A g \in granted : /\ HeapStart <= g.at
                             /\ g.at + g.size <= prev
                             /\ g.at \in Nat /\ g.size \in Nat
      BY <3>1 DEF HeapInv, HeapTypeOK, GrantsAreOwn
    <3>4. \A g, h \in granted : \/ g = h
                                \/ g.at + g.size <= h.at
                                \/ h.at + h.size <= g.at
      BY <3>1 DEF HeapInv, GrantsAreOwn
    <3>5. block.at = prev /\ block.size = incr
      OBVIOUS
    <3> HIDE DEF block, prev
    <3>6. HeapStart + MemRegs' < HeapEnd
      BY <1>1, <1>4, <3>1, <3>2 DEF HeapInv, HeapTypeOK, Granted
    <3>7. \A g \in granted' : /\ HeapStart <= g.at
                              /\ g.at + g.size <= HeapStart + MemRegs'
      BY <1>1, <3>1, <3>2, <3>3, <3>5 DEF HeapInv, HeapTypeOK
    <3>8. \A g, h \in granted' : \/ g = h
                                 \/ g.at + g.size <= h.at
                                 \/ h.at + h.size <= g.at
      BY <1>1, <3>2, <3>3, <3>4, <3>5
    <3> QED BY <3>6, <3>7, <3>8
  <2> QED BY <1>2, <2>2, <2>3 DEF HeapInv
<1>5. CASE ~Granted
  <2>1. MemRegs' = MemRegs /\ granted' = granted
    BY <1>5 DEF SbrkCall
  <2>2. EndIsTop'
    BY <1>1, <1>2, <1>3, <1>5, <2>1 DEF HeapInv, HeapTypeOK, EndIsTop, Granted
  <2>3. GrantsAreOwn'
    BY <1>3, <2>1 DEF HeapInv, GrantsAreOwn
  <2> QED BY <1>2, <2>2, <2>3 DEF HeapInv
<1> QED BY <1>4, <1>5

(***************************************************************************)
(* A block that _sbrk returns lies in the heap and overlaps no other,      *)
(* whatever calls failed, until failed calls have wrapped heap_end.        *)
(***************************************************************************)
THEOREM GrantsAreOwnAlways == HeapSpec => []GrantsAreOwn
<1>1. HeapInit => HeapInv
  BY InitHeapInv
<1>2. HeapInv /\ [HeapNext]_heapVars => HeapInv'
  <2> SUFFICES ASSUME HeapInv, [HeapNext]_heapVars
               PROVE  HeapInv'
    OBVIOUS
  <2>1. CASE HeapNext
    BY <2>1, CallHeapInv DEF HeapNext
  <2>2. CASE UNCHANGED heapVars
    BY <2>2 DEF heapVars, HeapInv, HeapTypeOK, EndIsTop, GrantsAreOwn,
                prev_heap_end
  <2> QED BY <2>1, <2>2
<1>3. HeapInv => GrantsAreOwn
  BY DEF HeapInv
<1> QED BY <1>1, <1>2, <1>3, PTL DEF HeapSpec

-----------------------------------------------------------------------------
LEMMA ThreadStep ==
  [HelloNext]_helloVars => [Next]_vars /\ [HeapNext]_heapVars
<1> SUFFICES ASSUME [HelloNext]_helloVars
             PROVE  [Next]_vars /\ [HeapNext]_heapVars
  OBVIOUS
<1>1. CASE Hardware \/ Irq
  BY <1>1 DEF Hardware, Shift, EdmaStep, Irq, Next
<1>2. CASE Write
  BY <1>2 DEF Write, WritePoll, WritePut
<1>3. CASE Advance
  <2>1. CASE UsartInit \/ StdoutBuffer \/ PrintListDone \/ MemTest
    BY <2>1 DEF UsartInit, StdoutBuffer, PrintListDone, MemTest
  <2>2. CASE MemTestDone \/ Wake
    BY <2>2 DEF MemTestDone, Wake
  <2>3. CASE AddDescriptor \/ EdmaInit \/ StartTransmit
    BY <2>3 DEF AddDescriptor, EdmaInit, StartTransmit, Next
  <2> QED BY <1>3, <2>1, <2>2, <2>3 DEF Advance
<1>4. CASE UNCHANGED helloVars
  BY <1>4 DEF helloVars
<1> QED BY <1>1, <1>2, <1>3, <1>4 DEF HelloNext

(***************************************************************************)
(* The thread keeps to the library's table and to _sbrk: it implements     *)
(* both, and what holds of them holds of it.                               *)
(***************************************************************************)
THEOREM HelloImplementsLibraries == HelloSpec => Spec /\ HeapSpec
<1>1. HelloInit => Init /\ HeapInit
  BY DEF HelloInit
<1>2. [HelloNext]_helloVars => [Next]_vars /\ [HeapNext]_heapVars
  BY ThreadStep
<1> QED BY <1>1, <1>2, PTL DEF HelloSpec, Spec, HeapSpec

\* The thread adds what fits, and nobody else adds.
LEMMA ThreadFits == ChainsFit /\ TypeOK /\ [HelloNext]_helloVars => ChainsFit'
<1> SUFFICES ASSUME ChainsFit, TypeOK, [HelloNext]_helloVars
             PROVE  ChainsFit'
  OBVIOUS
<1>1. CASE AddDescriptor
  <2>1. PICK s \in Streams : Row(s) + Len(added[s]) + 1 \in Slots /\ Add(s)
    BY <1>1 DEF AddDescriptor
  <2>2. added' = [added EXCEPT ![s] = Append(@, count + 1)]
    BY <2>1 DEF Add
  <2>3. added[s] \in Seq(Data) /\ Row(s) \in Nat
    BY RowInSlots, SlotsAreNat DEF TypeOK
  <2>4. Row(s) + Len(added'[s]) \in Slots
    <3>1. Len(added'[s]) = Len(added[s]) + 1 /\ Len(added[s]) \in Nat
      BY <2>2, <2>3 DEF TypeOK
    <3> QED BY <2>1, <2>3, <3>1
  <2> QED BY <2>2, <2>4 DEF ChainsFit, TypeOK, Row
<1>2. CASE UNCHANGED added
  BY <1>2 DEF ChainsFit, Row
<1>3. ASSUME ~AddDescriptor
      PROVE  UNCHANGED added
  <2>1. CASE Hardware \/ Irq
    BY <2>1 DEF Hardware, Shift, EdmaStep, Transfer, Irq, Stream1Irq, vars
  <2>2. CASE Write
    BY <2>2 DEF Write, WritePoll, WritePut, vars
  <2>3. CASE Advance
    BY <1>3, <2>3 DEF Advance, UsartInit, EdmaInit, InitStream, StdoutBuffer,
       PrintListDone, MemTest, MemTestDone, StartTransmit, Start, Wake, vars
  <2>4. CASE UNCHANGED helloVars
    BY <2>4 DEF helloVars, vars
  <2> QED BY <2>1, <2>2, <2>3, <2>4 DEF HelloNext
<1> QED BY <1>1, <1>2, <1>3

(***************************************************************************)
(* What the thread of one stream adds is sent, all of it and in order,     *)
(* however many descriptors between its row and the end of the table.      *)
(***************************************************************************)
THEOREM HelloSentIsAdded ==
  ASSUME OneStream
  PROVE  HelloSpec => []SentIsAdded
<1>1. HelloInit => ChainsFit
  BY DEF HelloInit, Init, ChainsFit
<1>2. HelloSpec => Spec
  BY HelloImplementsLibraries
<1>3. HelloSpec => []TypeOK
  BY <1>2, TypeCorrect, PTL
<1>4. HelloSpec => []ChainsFit
  BY <1>1, <1>3, ThreadFits, PTL DEF HelloSpec
<1> QED BY <1>2, <1>4, SentIsAddedAlways, PTL

-----------------------------------------------------------------------------
\* No stream is set up, or runs, before the thread gets that far.
PhaseInv ==
  /\ pc \in {"init", "add"} => \A s \in Streams : first[s] = None
  /\ pc \notin {"delay", "sleep"} => \A s \in Streams : cur[s] = None

\* What _write polled is still so when it writes.
PollInv ==
  /\ dt = "off" => pc = "init"
  /\ polled => pc \in {"list", "mem"} /\ dt = "empty"
  /\ ~lost

HelloInv == PhaseInv /\ PollInv

LEMMA InitHelloInv == HelloInit => HelloInv
  BY DEF HelloInit, Init, HelloInv, PhaseInv, PollInv

\* A stream that runs belongs to a thread that has done its printing.
LEMMA HardwareStep == HelloInv /\ (Hardware \/ Irq) => HelloInv'
<1> SUFFICES ASSUME HelloInv, Hardware \/ Irq
             PROVE  HelloInv'
  OBVIOUS
<1> USE DEF HelloInv, PhaseInv, PollInv
<1>1. CASE Shift
  BY <1>1 DEF Shift, vars, thread
<1>2. ASSUME NEW s \in Streams, EdmaStep(s)
      PROVE  HelloInv'
  <2>1. pc \in {"delay", "sleep"} /\ ~polled
    BY <1>2 DEF EdmaStep, Transfer
  <2>2. UNCHANGED <<pc, polled>>
    BY <1>2 DEF EdmaStep, thread
  <2>3. (dt' = "off" => dt = "off") /\ ~lost'
    BY <1>2 DEF EdmaStep, PutByte, usart
  <2> QED BY <2>1, <2>2, <2>3
<1>3. CASE Irq
  BY <1>3 DEF Irq, Stream1Irq, usart, thread
<1> QED BY <1>1, <1>2, <1>3 DEF Hardware

LEMMA ThreadAdvances == HelloInv /\ (Write \/ Advance) => HelloInv'
<1> SUFFICES ASSUME HelloInv, Write \/ Advance
             PROVE  HelloInv'
  OBVIOUS
<1> USE DEF HelloInv, PhaseInv, PollInv
<1>1. CASE Write
  <2>1. CASE WritePoll
    BY <2>1 DEF WritePoll, vars, usart
  <2>2. CASE WritePut
    <3>1. pc \in {"list", "mem"} /\ dt = "empty" /\ ~lost
      BY <2>2 DEF WritePut
    <3>2. dt' = "full" /\ ~lost'
      BY <2>2, <3>1 DEF WritePut, PutByte
    <3>3. ~polled' /\ UNCHANGED <<pc, first, cur>>
      BY <2>2 DEF WritePut, vars
    <3> QED BY <3>1, <3>2, <3>3
  <2> QED BY <1>1, <2>1, <2>2 DEF Write
<1>2. CASE UsartInit \/ StdoutBuffer \/ PrintListDone
  BY <1>2 DEF UsartInit, StdoutBuffer, PrintListDone, vars, usart
<1>3. CASE AddDescriptor
  BY <1>3 DEF AddDescriptor, Add, usart, thread
<1>4. CASE EdmaInit
  BY <1>4 DEF EdmaInit, InitStream, usart
<1>5. CASE MemTest \/ MemTestDone \/ Wake
  BY <1>5 DEF MemTest, MemTestDone, Wake, vars, usart
<1>6. CASE StartTransmit
  BY <1>6 DEF StartTransmit, Start, usart
<1> QED BY <1>1, <1>2, <1>3, <1>4, <1>5, <1>6 DEF Advance

(***************************************************************************)
(* No byte in the data register is overwritten, neither by _write nor by   *)
(* the EDMA.                                                               *)
(***************************************************************************)
THEOREM NothingLostAlways == HelloSpec => []NothingLost
<1>1. HelloInit => HelloInv
  BY InitHelloInv
<1>2. HelloInv /\ [HelloNext]_helloVars => HelloInv'
  <2>1. HelloInv /\ UNCHANGED helloVars => HelloInv'
    BY DEF HelloInv, PhaseInv, PollInv, helloVars, vars, usart, thread
  <2> QED BY <2>1, HardwareStep, ThreadAdvances DEF HelloNext
<1>3. HelloInv => NothingLost
  BY DEF HelloInv, PollInv, NothingLost
<1> QED BY <1>1, <1>2, <1>3, PTL DEF HelloSpec
=============================================================================
