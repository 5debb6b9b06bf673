--------------------------- MODULE DescRingProofs ---------------------------
(***************************************************************************)
(* How following the links of the ring and counting them go together, for  *)
(* a ring of any size.                                                     *)
(***************************************************************************)
EXTENDS DescRing, TLAPS

\* Following links stays in the ring; all of them lead back to the start.
LEMMA PlusInRing ==
  ASSUME NEW r \in Ring, NEW k \in 0 .. NumDesc
  PROVE  /\ Plus(r, k) \in Ring
         /\ Plus(r, 0) = r
         /\ Plus(r, NumDesc) = r
  BY NumDescAssumption DEF Ring, Plus

\* The next descriptor is in the ring, and so is the previous one.
LEMMA SuccInRing ==
  ASSUME NEW r \in Ring
  PROVE  Succ(r) \in Ring /\ Pred(r) \in Ring /\ Pred(Succ(r)) = r
  BY NumDescAssumption DEF Ring, Succ, Pred

\* Dist counts the links that Plus follows.
LEMMA DistOfPlus ==
  ASSUME NEW r \in Ring, NEW k \in 0 .. NumDesc - 1
  PROVE  Dist(r, Plus(r, k)) = k
  BY NumDescAssumption DEF Ring, Plus, Dist

LEMMA PlusOfDist ==
  ASSUME NEW r \in Ring, NEW i \in Ring
  PROVE  Dist(r, i) \in 0 .. NumDesc - 1 /\ Plus(r, Dist(r, i)) = i
  BY NumDescAssumption DEF Ring, Plus, Dist

\* One link more, at the far end or at the near end.
LEMMA PlusOneMore ==
  ASSUME NEW r \in Ring, NEW k \in 0 .. NumDesc - 1
  PROVE  Succ(Plus(r, k)) = Plus(r, k + 1) /\ Plus(Succ(r), k) = Plus(r, k + 1)
  BY NumDescAssumption DEF Ring, Plus, Succ

LEMMA DistOneLess ==
  ASSUME NEW r \in Ring, NEW i \in Ring
  PROVE  Dist(Succ(r), i) = IF i = r THEN NumDesc - 1 ELSE Dist(r, i) - 1
  BY NumDescAssumption DEF Ring, Dist, Succ

\* Different numbers of links, fewer than the ring has, lead to different places.
LEMMA PlusInjective ==
  ASSUME NEW r \in Ring, NEW j \in 0 .. NumDesc - 1, NEW k \in 0 .. NumDesc - 1,
         Plus(r, j) = Plus(r, k)
  PROVE  j = k
  BY NumDescAssumption DEF Ring, Plus
=============================================================================
