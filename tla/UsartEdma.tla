----------------------------- MODULE UsartEdma ------------------------------
(***************************************************************************)
(* hUsart.c, built with STATIC_MEM = 1: the table EdmaDescriptors, one row *)
(* per EDMA stream, and the chains that the EDMA follows in it.  A chain   *)
(* begins at the first slot of the stream's row; every descriptor that is  *)
(* added links to the slot behind its own, and the EDMA stops at a slot    *)
(* that is still zero.  Slots are numbered through the table and on into   *)
(* the memory behind it, where other variables lie: nothing keeps a row    *)
(* from running into the next one, or the last one from leaving the table. *)
(*                                                                         *)
(* Descriptors are added before hUsartEdmaInit of their stream, as its     *)
(* comment asks.                                                           *)
(***************************************************************************)
EXTENDS Integers, Sequences

CONSTANTS
  NumStreams,             \* EDMA_COUNT_STREAM
  DESCRIPTORS_SIZE_BUF,
  MaxAdds,                \* bound: calls of hUsartEdmaAddDescriptors
  OneStream               \* whether only one stream is used

ASSUME UsartAssumption ==
  /\ {NumStreams, DESCRIPTORS_SIZE_BUF} \subseteq Nat \ {0}
  /\ MaxAdds \in Nat
  /\ OneStream \in BOOLEAN

VARIABLES
  table,      \* EdmaDescriptors: the data and the link of each descriptor;
              \* behind its slots, what the library has written there
  count,      \* the static variable of hUsartEdmaAddDescriptors
  first,      \* link list pointer of each stream, None before its Init
  cur,        \* the slot that the stream's EDMA loads next
  sent,       \* the data sent since the transmission began
  fdt,        \* streams with their full data transfer flag set
  added,      \* the data added to each stream
  last        \* what each stream's last transmission sent

vars == <<table, count, first, cur, sent, fdt, added, last>>

Streams == 0 .. NumStreams - 1

NumSlots == NumStreams * DESCRIPTORS_SIZE_BUF

Slots == 0 .. NumSlots - 1

\* The table and as much behind it as MaxAdds descriptors can reach.
Memory == 0 .. NumSlots + MaxAdds - 1

None == -1

Zero == [data |-> 0, next |-> None]

\* FindCountDescriptors: the slot at which the row of stream s begins.
Row(s) == s * DESCRIPTORS_SIZE_BUF

Init ==
  /\ table = [i \in Memory |-> Zero]
  /\ count = 0
  /\ first = [s \in Streams |-> None]
  /\ cur = [s \in Streams |-> None]
  /\ sent = [s \in Streams |-> << >>]
  /\ fdt = {}
  /\ added = [s \in Streams |-> << >>]
  /\ last = [s \in Streams |-> <<None>>]

\* Fault: the count is not advanced, so each descriptor replaces the last.
AddReplaces(s) ==
  /\ first[s] = None
  /\ count < MaxAdds
  /\ OneStream => \A t \in Streams \ {s} : added[t] = << >>
  /\ table' = [table EXCEPT ![Row(s) + count] =
                 [data |-> count + 1, next |-> Row(s) + count + 1]]
  /\ added' = [added EXCEPT ![s] = Append(@, count + 1)]
  /\ UNCHANGED <<count, first, cur, sent, fdt, last>>

\* Fault: the count is advanced for the link too, and once more at the end.
AddCountsTwice(s) ==
  /\ first[s] = None
  /\ count < MaxAdds
  /\ OneStream => \A t \in Streams \ {s} : added[t] = << >>
  /\ table' = [table EXCEPT ![Row(s) + count] =
                 [data |-> count + 1, next |-> Row(s) + count + 1]]
  /\ count' = count + 2
  /\ added' = [added EXCEPT ![s] = Append(@, count + 1)]
  /\ UNCHANGED <<first, cur, sent, fdt, last>>

(***************************************************************************)
(* hUsartEdmaAddDescriptors: count says which call of all this is, not     *)
(* which one for the stream, and is compared with nothing.                 *)
(***************************************************************************)
Add(s) ==
  /\ first[s] = None
  /\ count < MaxAdds
  /\ OneStream => \A t \in Streams \ {s} : added[t] = << >>
  /\ table' = [table EXCEPT ![Row(s) + count] =
                 [data |-> count + 1, next |-> Row(s) + count + 1]]
  /\ count' = count + 1
  /\ added' = [added EXCEPT ![s] = Append(@, count + 1)]
  /\ UNCHANGED <<first, cur, sent, fdt, last>>

\* hUsartEdmaInit, UsartEdmaSetDescriptors
InitStream(s) ==
  /\ added[s] /= << >>
  /\ first' = [first EXCEPT ![s] = Row(s)]
  /\ UNCHANGED <<table, count, cur, sent, fdt, added, last>>

\* hUsartEdmaStartTransmit; nothing comes of it while the stream runs.
Start(s) ==
  /\ first[s] /= None
  /\ cur[s] = None
  /\ cur' = [cur EXCEPT ![s] = first[s]]
  /\ sent' = [sent EXCEPT ![s] = << >>]
  /\ UNCHANGED <<table, count, first, fdt, added, last>>

\* What the EDMA may find: behind the table the variables that lie there,
\* with what was added on top of them or with values of their own again.
Loads(i) ==
  IF i \in Slots THEN {table[i]} ELSE [data : 0 .. MaxAdds, next : Memory]

(***************************************************************************)
(* The EDMA loads a descriptor and sends its data, or ends.  How much it   *)
(* sends once it has left the table is bounded by MaxAdds.                 *)
(***************************************************************************)
Transfer(s) ==
  /\ cur[s] /= None
  /\ cur[s] \notin Slots => Len(sent[s]) <= MaxAdds
  /\ \E d \in Loads(cur[s]) :
       \/ /\ d.data = 0
          /\ cur' = [cur EXCEPT ![s] = None]
          /\ last' = [last EXCEPT ![s] = sent[s]]
          /\ fdt' = fdt \union {s}
          /\ UNCHANGED sent
       \/ /\ d.data /= 0
          /\ sent' = [sent EXCEPT ![s] = Append(@, d.data)]
          /\ cur' = [cur EXCEPT ![s] = d.next]
          /\ UNCHANGED <<fdt, last>>
  /\ UNCHANGED <<table, count, first, added>>

\* EDMA_Stream1_IRQHandler; the other streams have none.
Stream1Irq ==
  /\ 0 \in fdt
  /\ fdt' = fdt \ {0}
  /\ UNCHANGED <<table, count, first, cur, sent, added, last>>

Next ==
  \/ Stream1Irq
  \/ \E s \in Streams : Add(s) \/ InitStream(s) \/ Start(s) \/ Transfer(s)

Spec == Init /\ [][Next]_vars

-----------------------------------------------------------------------------
Data == 0 .. MaxAdds

\* Chains may lead behind the table, as far as there were calls to add to.
TypeOK ==
  /\ table \in [Memory -> [data : Data, next : Memory \union {None}]]
  /\ count \in Data
  /\ first \in [Streams -> Slots \union {None}]
  /\ cur \in [Streams -> Memory \union {None}]
  /\ sent \in [Streams -> Seq(Data)]
  /\ fdt \subseteq Streams
  /\ added \in [Streams -> Seq(Data)]
  /\ last \in [Streams -> Seq(Data \union {None})]

(***************************************************************************)
(* hUsart.c:166-169: the function adds data to the stream's descriptors    *)
(* and returns 0 for success.  A transmission sends what was added to its  *)
(* stream by successful calls, all of it and in order.  It takes a single  *)
(* stream and a chain that ends in the table: the EDMA of a chain behind   *)
(* the table sends what it finds there.                                    *)
(***************************************************************************)
SentIsAdded == \A s \in Streams : last[s] \in {<<None>>, added[s]}

\* What a caller can see to: the chains, and the zero that ends each, fit
\* between the beginning of the row and the end of the table.
ChainsFit ==
  \A s \in Streams : added[s] /= << >> => Row(s) + Len(added[s]) \in Slots
=============================================================================
