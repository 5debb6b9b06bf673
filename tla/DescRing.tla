------------------------------ MODULE DescRing ------------------------------
(***************************************************************************)
(* The chained descriptor ring that the Ethernet driver shares with the    *)
(* EMAC DMA.  Descriptors are named by their index in DMARxDscrTab or      *)
(* DMATxDscrTab; the pointer buf2nextdescaddr of each is Succ.  The        *)
(* arithmetic is written without % so that it stays linear.                *)
(***************************************************************************)
EXTENDS Integers

CONSTANT NumDesc      \* EMAC_RXBUFNB, EMAC_TXBUFNB

ASSUME NumDescAssumption == NumDesc \in Nat \ {0}

Ring == 0 .. NumDesc - 1

\* Fault: the last descriptor is not linked back to the first.
SuccUnlinked(i) == i + 1

\* desc->buf2nextdescaddr
Succ(i) == IF i = NumDesc - 1 THEN 0 ELSE i + 1

Pred(i) == IF i = 0 THEN NumDesc - 1 ELSE i - 1

\* The descriptor k links after i, for k in 0 .. NumDesc.
Plus(i, k) == IF i + k < NumDesc THEN i + k ELSE i + k - NumDesc

\* The number of links to follow from r to reach i.
Dist(r, i) == IF r <= i THEN i - r ELSE i - r + NumDesc
=============================================================================
