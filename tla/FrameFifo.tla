----------------------------- MODULE FrameFifo ------------------------------
(***************************************************************************)
(* What either half of the driver promises: frames come out whole, once,   *)
(* and in the order in which they went in.  The only frame that may be     *)
(* lost is the oldest one (for want of a pbuf, on the receive side).  A    *)
(* frame is the sequence of the segments that descriptors cut it into.     *)
(***************************************************************************)
EXTENDS Naturals, Sequences

CONSTANTS
  MaxSegs,     \* most descriptors that one frame takes
  MaxFrames,   \* bound: frames that go in
  Capacity,    \* frames that wait at the same time
  Lossy        \* whether the oldest frame may be lost

VARIABLES
  arrived,     \* the frame that went in last
  queue,       \* whole frames inside, oldest first
  out          \* frames that came out

vars == <<arrived, queue, out>>

Frame(id, n) == [j \in 1 .. n |-> [id |-> id, k |-> j, n |-> n]]

Init ==
  /\ arrived = 0
  /\ queue = << >>
  /\ out = << >>

\* Frames are numbered as they are offered; one that is refused leaves a gap.
Arrive ==
  /\ Len(queue) < Capacity
  /\ arrived' \in arrived + 1 .. MaxFrames
  /\ \E n \in 1 .. MaxSegs : queue' = Append(queue, Frame(arrived', n))
  /\ UNCHANGED out

Deliver ==
  /\ queue /= << >>
  /\ out' = Append(out, Head(queue))
  /\ queue' = Tail(queue)
  /\ UNCHANGED arrived

Drop ==
  /\ Lossy
  /\ queue /= << >>
  /\ queue' = Tail(queue)
  /\ UNCHANGED <<arrived, out>>

Next == Arrive \/ Deliver \/ Drop

Spec == Init /\ [][Next]_vars
=============================================================================
