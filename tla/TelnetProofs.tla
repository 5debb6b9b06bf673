---------------------------- MODULE TelnetProofs ----------------------------
(***************************************************************************)
(* Theorems about Telnet, for any number of connections, any heap and any  *)
(* lines; all but TypeCorrect as long as no connection fails after         *)
(* tcp_close.  The run telnet_reset shows that the assumption is needed.   *)
(*                                                                         *)
(* Two connections never share a name, so the bytes in a connection's name *)
(* are those that were typed on it, and the rest is about one line: where  *)
(* it ends and how much of it is kept.                                     *)
(***************************************************************************)
EXTENDS Telnet, TLAPS, SequenceTheorems, WellFoundedInduction

(***************************************************************************)
(* The types of what says whose a block is; the bytes in it do not matter. *)
(***************************************************************************)
OwnersTyped ==
  /\ state \in [Conns -> {"free", "open", "closing"}]
  /\ arg \in [Conns -> Blocks \union {NULL}]
  /\ used \subseteq Blocks

\* OnlyNoPcbLeaks, block by block
LeakInv ==
  /\ leaked \subseteq used
  /\ \A b \in used \ leaked : \E c \in Conns : state[c] = "open" /\ arg[c] = b
  /\ \A c \in Conns : state[c] = "open" => arg[c] \notin leaked

IInv == OwnersTyped /\ NameIsOwn /\ LeakInv

-----------------------------------------------------------------------------
LEMMA InitIInv == Init => IInv
  BY DEF Init, IInv, OwnersTyped, NameIsOwn, LeakInv

\* What mem_calloc returns is a block that was nobody's, or NULL.
LEMMA CallocFresh ==
  ASSUME NEW b, Calloc(b), used \subseteq Blocks
  PROVE  /\ b \in Blocks \union {NULL}
         /\ b \notin used
         /\ used \subseteq used' /\ used' \subseteq Blocks
         /\ used' = used \union ({b} \ {NULL})
  BY NullAssumption DEF Calloc, heap

LEMMA AcceptStep ==
  ASSUME IInv, NEW c \in Conns, Accept(c)
  PROVE  IInv'
<1> USE DEF IInv, OwnersTyped
<1>1. PICK b \in Blocks \union {NULL} :
        Calloc(b) /\ arg' = [arg EXCEPT ![c] = b]
  BY DEF Accept
<1>2. b \notin used /\ used' \subseteq Blocks
      /\ used' = used \union ({b} \ {NULL})
  BY <1>1, CallocFresh
<1>3. state' = [state EXCEPT ![c] = "open"] /\ leaked' = leaked
      /\ state[c] = "free"
  BY DEF Accept
<1>4. OwnersTyped'
  BY <1>1, <1>2, <1>3
<1>5. NameIsOwn'
  BY <1>1, <1>2, <1>3 DEF NameIsOwn
<1>6. LeakInv'
  <2>1. \A d \in Conns : state[d] = "open" =>
          state'[d] = "open" /\ arg'[d] = arg[d]
    BY <1>1, <1>3
  <2>2. state'[c] = "open" /\ arg'[c] = b
    BY <1>1, <1>3
  <2>3. \A d \in Conns : state'[d] = "open" => d = c \/ state[d] = "open"
    BY <1>3
  <2>4. leaked' \subseteq used' /\ b \notin leaked
    BY <1>2, <1>3 DEF LeakInv
  <2>5. \A x \in used' \ leaked' : x = b \/ x \in used \ leaked
    BY <1>2, <1>3
  <2> QED BY <1>3, <2>1, <2>2, <2>3, <2>4, <2>5 DEF LeakInv
<1> QED BY <1>4, <1>5, <1>6

LEMMA AcceptNoPcbStep ==
  ASSUME IInv, AcceptNoPcb
  PROVE  IInv'
<1> USE DEF IInv, OwnersTyped
<1>1. PICK b \in Blocks \union {NULL} :
        Calloc(b) /\ leaked' = leaked \union ({b} \ {NULL})
  BY DEF AcceptNoPcb
<1>2. b \notin used /\ used' \subseteq Blocks
      /\ used' = used \union ({b} \ {NULL})
  BY <1>1, CallocFresh
<1>3. state' = state /\ arg' = arg
  BY DEF AcceptNoPcb
<1>4. OwnersTyped' /\ NameIsOwn'
  BY <1>2, <1>3 DEF NameIsOwn
<1>5. \A c \in Conns : state[c] = "open" /\ arg[c] = b => b = NULL
  BY <1>2 DEF NameIsOwn
<1>6. NULL \notin leaked'
  BY <1>1, NullAssumption DEF LeakInv
<1>7. LeakInv'
  BY <1>1, <1>2, <1>3, <1>5, <1>6 DEF LeakInv
<1> QED BY <1>4, <1>7

\* Freeing a connection's name when it is done with it hurts no other.
LEMMA FreeStep ==
  ASSUME IInv, NEW c \in Conns, state[c] = "open", Free(arg[c]),
         NEW s \in {"free", "closing"}, state' = [state EXCEPT ![c] = s],
         arg' \in {arg, [arg EXCEPT ![c] = NULL]}, leaked' = leaked
  PROVE  IInv'
<1> USE DEF IInv, OwnersTyped
<1>1. used' = used \ {arg[c]}
  BY DEF Free
<1>2. OwnersTyped'
  BY <1>1
<1>3. \A d \in Conns : state'[d] = "open" =>
        d /= c /\ state[d] = "open" /\ arg'[d] = arg[d]
  OBVIOUS
<1>4. \A d \in Conns : state'[d] = "open" /\ arg[d] /= NULL =>
        arg[d] \in used /\ arg[d] /= arg[c]
  BY <1>3 DEF NameIsOwn
<1>5. NameIsOwn'
  BY <1>1, <1>3, <1>4 DEF NameIsOwn
<1>6. LeakInv'
  <2>1. leaked \subseteq used'
    BY <1>1 DEF LeakInv
  <2>2. \A x \in used' \ leaked :
          \E d \in Conns : state'[d] = "open" /\ arg'[d] = x
    <3> SUFFICES ASSUME NEW x \in used' \ leaked
                 PROVE  \E d \in Conns : state'[d] = "open" /\ arg'[d] = x
      OBVIOUS
    <3>1. PICK d \in Conns : state[d] = "open" /\ arg[d] = x
      BY <1>1 DEF LeakInv
    <3>2. d /= c
      BY <1>1, <3>1
    <3> QED BY <3>1, <3>2
  <2> QED BY <1>3, <2>1, <2>2 DEF LeakInv
<1> QED BY <1>2, <1>5, <1>6

LEMMA NextIInv ==
  ASSUME ~ResetsAfterClose, IInv, [Next]_vars
  PROVE  IInv'
<1> USE DEF IInv, OwnersTyped
<1>1. CASE UNCHANGED vars
  BY <1>1 DEF NameIsOwn, LeakInv, vars, heap, hist
<1>2. CASE AcceptNoPcb
  BY <1>2, AcceptNoPcbStep
<1>3. ASSUME NEW c \in Conns, Accept(c)
      PROVE  IInv'
  BY <1>3, AcceptStep
<1>4. ASSUME NEW c \in Conns, RecvNoName(c)
      PROVE  IInv'
  BY <1>4 DEF NameIsOwn, LeakInv, RecvNoName, heap, hist
<1>5. ASSUME NEW c \in Conns, RecvClose(c)
      PROVE  IInv'
  <2>1. /\ state[c] = "open" /\ Free(arg[c])
        /\ state' = [state EXCEPT ![c] = "closing"] /\ arg' = arg
        /\ leaked' = leaked
    BY <1>5 DEF RecvClose
  <2> QED BY <2>1, FreeStep
<1>6. ASSUME NEW c \in Conns, Closed(c)
      PROVE  IInv'
  BY <1>6 DEF NameIsOwn, LeakInv, Closed, heap, hist
<1>7. ASSUME NEW c \in Conns, ConnErr(c)
      PROVE  IInv'
  <2>1. /\ state[c] = "open" /\ Free(arg[c])
        /\ state' = [state EXCEPT ![c] = "free"]
        /\ arg' = [arg EXCEPT ![c] = NULL] /\ leaked' = leaked
    BY <1>7 DEF ConnErr
  <2> QED BY <2>1, FreeStep
<1>8. ASSUME NEW c \in Conns, NEW p \in Packets, RecvPart(c, p) \/ RecvLine(c, p)
      PROVE  IInv'
  BY <1>8 DEF NameIsOwn, LeakInv, RecvPart, RecvLine
<1>9. CASE Next
  BY <1>9, <1>2, <1>3, <1>4, <1>5, <1>6, <1>7, <1>8 DEF Next
<1> QED BY <1>1, <1>9

-----------------------------------------------------------------------------
(***************************************************************************)
(* The name of an open connection is allocated and its alone, whatever the *)
(* order in which lwIP accepts, delivers, closes and fails connections and *)
(* whatever the heap gives, if none fails after tcp_close.                 *)
(***************************************************************************)
THEOREM NameIsOwnAlways ==
  ASSUME ~ResetsAfterClose
  PROVE  Spec => []NameIsOwn
<1>1. Init => IInv
  BY InitIInv
<1>2. IInv /\ [Next]_vars => IInv'
  BY NextIInv
<1>3. IInv => NameIsOwn
  BY DEF IInv
<1> QED BY <1>1, <1>2, <1>3, PTL DEF Spec

(***************************************************************************)
(* Under the same assumption a block in use that no open connection has    *)
(* was allocated for a NULL pcb: whatever is closed or fails, its name is  *)
(* given back.                                                             *)
(***************************************************************************)
THEOREM OnlyNoPcbLeaksAlways ==
  ASSUME ~ResetsAfterClose
  PROVE  Spec => []OnlyNoPcbLeaks
<1>1. Init => IInv
  BY InitIInv
<1>2. IInv /\ [Next]_vars => IInv'
  BY NextIInv
<1>3. IInv => OnlyNoPcbLeaks
  BY NullAssumption DEF IInv, OwnersTyped, NameIsOwn, LeakInv, OnlyNoPcbLeaks
<1> QED BY <1>1, <1>2, <1>3, PTL DEF Spec

-----------------------------------------------------------------------------
(***************************************************************************)
(* The bytes of lines                                                      *)
(***************************************************************************)
Chars == Letters \union End

USE TelnetAssumption

LEMMA TextIs ==
  ASSUME NEW s
  PROVE  s \in Text <=> s \in Seq(Chars) /\ Len(s) <= MAX_NAME_SIZE
  <1>1. ASSUME s \in Text PROVE s \in Seq(Chars) /\ Len(s) <= MAX_NAME_SIZE
    <2>1. PICK n \in 0 .. MAX_NAME_SIZE : s \in [1 .. n -> Chars]
      BY <1>1 DEF Text, Chars
    <2> QED
      BY <2>1
  <1>2. ASSUME s \in Seq(Chars), Len(s) <= MAX_NAME_SIZE PROVE s \in Text
    <2>1. Len(s) \in 0 .. MAX_NAME_SIZE /\ s \in [1 .. Len(s) -> Chars]
      BY <1>2
    <2> QED
      BY <2>1 DEF Text, Chars
  <1> QED
    BY <1>1, <1>2

LEMMA PacketIs ==
  ASSUME NEW p \in Packets
  PROVE  p \in Seq(Chars) /\ Len(p) \in Nat /\ Len(p) >= 1
  <1>1. PICK n \in 1 .. MaxPacket : p \in [1 .. n -> Chars]
    BY DEF Packets, Chars
  <1> QED
    BY <1>1

\* Take returns a prefix.
LEMMA TakeIs ==
  ASSUME NEW S, NEW s \in Seq(S), NEW n \in Nat
  PROVE  /\ Take(s, n) \in Seq(S)
         /\ Len(Take(s, n)) = IF Len(s) < n THEN Len(s) ELSE n
         /\ \A i \in 1 .. Len(Take(s, n)) : Take(s, n)[i] = s[i]
  <1> DEFINE m == IF Len(s) < n THEN Len(s) ELSE n
  <1>1. m \in 0 .. Len(s)
    OBVIOUS
  <1>2. /\ SubSeq(s, 1, m) \in Seq(S)
        /\ Len(SubSeq(s, 1, m)) = m
        /\ \A i \in 1 .. m : SubSeq(s, 1, m)[i] = s[i]
    <2> HIDE DEF m
    <2> QED
      BY <1>1, SubSeqProperties
  <1> QED
    BY <1>2 DEF Take

LEMMA TakeAll ==
  ASSUME NEW S, NEW s \in Seq(S), NEW n \in Nat, Len(s) <= n
  PROVE  Take(s, n) = s
  BY TakeIs, SeqEqual

\* Where the first CR or LF is.
LEMMA FirstEndIs ==
  ASSUME NEW s \in Seq(Chars), Done(s)
  PROVE  /\ FirstEnd(s) \in 1 .. Len(s)
         /\ s[FirstEnd(s)] \in End
         /\ \A j \in 1 .. FirstEnd(s) - 1 : s[j] \notin End
  <1> DEFINE T == {n \in Nat : n \in 1 .. Len(s) /\ s[n] \in End}
  <1>1. T \subseteq Nat /\ T # {}
    BY DEF Done
  <1>2. \E n \in T : \A m \in T : ~ (<<m, n>> \in OpToRel(<, Nat))
    <2> HIDE DEF T
    <2> QED
      BY <1>1, WFMin, NatLessThanWellFounded
  <1>3. PICK n \in T : \A m \in T : ~ (<<m, n>> \in OpToRel(<, Nat))
    BY <1>2
  <1>4. ASSUME NEW m \in Nat, m < n PROVE <<m, n>> \in OpToRel(<, Nat)
    BY <1>1, <1>4 DEF OpToRel
  <1>5. n \in 1 .. Len(s) /\ s[n] \in End
    OBVIOUS
  <1>6. \A j \in 1 .. n - 1 : s[j] \notin End
    <2> SUFFICES ASSUME NEW j \in 1 .. n - 1, s[j] \in End PROVE FALSE
      OBVIOUS
    <2>1. j \in T /\ j < n /\ j \in Nat
      BY <1>5
    <2> QED
      BY <1>3, <1>4, <2>1
  <1> QED
    BY <1>5, <1>6 DEF FirstEnd

\* The first CR or LF of a line that begins with other bytes.
LEMMA FirstEndBehind ==
  ASSUME NEW t \in Seq(Chars), \A i \in 1 .. Len(t) : t[i] \notin End,
         NEW p \in Seq(Chars), Done(p)
  PROVE  /\ Read(p) \in Seq(Chars) /\ Len(Read(p)) = FirstEnd(p)
         /\ t \o Read(p) \in Seq(Chars)
         /\ Len(t \o Read(p)) = Len(t) + FirstEnd(p)
         /\ Done(t \o Read(p))
         /\ FirstEnd(t \o Read(p)) = Len(t) + FirstEnd(p)
         /\ \A i \in 1 .. Len(t) + FirstEnd(p) - 1 : (t \o Read(p))[i] \notin End
         /\ (t \o Read(p))[Len(t) + FirstEnd(p)] \in End
  <1> DEFINE k == FirstEnd(p)
             r == Read(p)
             s == t \o r
  <1>1. /\ k \in 1 .. Len(p) /\ p[k] \in End
        /\ \A j \in 1 .. k - 1 : p[j] \notin End
    BY FirstEndIs
  <1>2. r = SubSeq(p, 1, k)
    BY DEF Read
  <1> HIDE DEF k, r
  <1>3. /\ r \in Seq(Chars) /\ Len(r) = k
        /\ \A i \in 1 .. k : r[i] = p[i]
    BY <1>1, <1>2, SubSeqProperties
  <1>4. /\ s \in Seq(Chars) /\ Len(s) = Len(t) + k
        /\ \A i \in 1 .. Len(t) : s[i] = t[i]
        /\ \A i \in Len(t) + 1 .. Len(t) + k : s[i] = r[i - Len(t)]
    <2>1. /\ t \o r \in Seq(Chars) /\ Len(t \o r) = Len(t) + Len(r)
          /\ \A i \in 1 .. Len(t) + Len(r) :
               (t \o r)[i] = IF i <= Len(t) THEN t[i] ELSE r[i - Len(t)]
      BY <1>3, ConcatProperties
    <2> QED
      BY <1>1, <1>3, <2>1
  <1> HIDE DEF s
  <1>5. k \in Nat /\ k >= 1 /\ Len(t) \in Nat
    BY <1>1
  <1>6. ASSUME NEW i \in 1 .. Len(t) + k - 1 PROVE s[i] \notin End
    <2>1. CASE i <= Len(t)
      BY <1>4, <1>5, <2>1
    <2>2. CASE i > Len(t)
      <3>1. i - Len(t) \in 1 .. k - 1 /\ i \in Len(t) + 1 .. Len(t) + k
        BY <1>5, <2>2
      <3>2. s[i] = r[i - Len(t)]
        BY <1>4, <3>1
      <3>3. r[i - Len(t)] = p[i - Len(t)]
        BY <1>3, <1>5, <3>1
      <3> QED
        BY <1>1, <3>1, <3>2, <3>3
    <2> QED
      BY <1>5, <2>1, <2>2
  <1>7. s[Len(t) + k] \in End
    <2>1. s[Len(t) + k] = r[k]
      BY <1>4, <1>5
    <2> QED
      BY <1>1, <1>3, <1>5, <2>1
  <1>8. Done(s)
    BY <1>4, <1>5, <1>7 DEF Done
  <1>9. FirstEnd(s) = Len(t) + k
    <2>1. /\ FirstEnd(s) \in 1 .. Len(s) /\ s[FirstEnd(s)] \in End
          /\ \A j \in 1 .. FirstEnd(s) - 1 : s[j] \notin End
      BY <1>4, <1>8, FirstEndIs
    <2> QED
      BY <1>4, <1>5, <1>6, <1>7, <2>1
  <1> QED
    BY <1>3, <1>4, <1>6, <1>7, <1>8, <1>9 DEF s, r, k

(***************************************************************************)
(* A line that is complete goes out as it was typed, up to its end and as  *)
(* far as it fits, with CR LF behind it.                                   *)
(***************************************************************************)
LEMMA LineSent ==
  ASSUME NEW t \in Seq(Chars), \A i \in 1 .. Len(t) : t[i] \notin End,
         Len(t) <= MAX_NAME_SIZE,
         NEW p \in Seq(Chars), Done(p)
  PROVE  Finish(Collect(t, p)) = Line(t \o Read(p)) \o <<"CR", "LF">>
  <1> DEFINE k    == FirstEnd(p)
             s    == t \o Read(p)
             name == Take(s, MAX_NAME_SIZE)
             kept == IF Len(t) + k - 1 < MAX_NAME_SIZE - 2
                     THEN Len(t) + k - 1 ELSE MAX_NAME_SIZE - 2
  <1>1. /\ s \in Seq(Chars) /\ Len(s) = Len(t) + k
        /\ Done(s) /\ FirstEnd(s) = Len(t) + k
        /\ \A i \in 1 .. Len(t) + k - 1 : s[i] \notin End
        /\ s[Len(t) + k] \in End
    BY FirstEndBehind
  <1>2. k \in Nat /\ k >= 1 /\ Len(t) \in Nat
    BY FirstEndIs
  <1>3. Collect(t, p) = name
    BY DEF Collect
  <1> HIDE DEF k, s
  <1>4. /\ Line(s) = Take(SubSeq(s, 1, Len(t) + k - 1), MAX_NAME_SIZE - 2)
        /\ MAX_NAME_SIZE - 2 \in Nat
    <2>1. Line(s) = Take(SubSeq(s, 1, FirstEnd(s) - 1), MAX_NAME_SIZE - 2)
      BY <1>1 DEF Line
    <2>2. FirstEnd(s) - 1 = Len(t) + k - 1
      BY <1>1, <1>2
    <2> QED
      BY <2>1, <2>2
  <1>5. /\ name \in Seq(Chars)
        /\ Len(name) = IF Len(t) + k < MAX_NAME_SIZE THEN Len(t) + k ELSE MAX_NAME_SIZE
        /\ \A i \in 1 .. Len(name) : name[i] = s[i]
    BY <1>1, <1>2, TakeIs
  <1>6. kept \in Nat /\ kept <= Len(name) /\ kept <= Len(t) + k - 1
    BY <1>2, <1>5
  <1> HIDE DEF name
  <1>7. Finish(name) = Append(Append(Take(name, kept), "CR"), "LF")
    <2> DEFINE n      == Len(name)
               length == IF name[n] \in End /\ n + 1 <= MAX_NAME_SIZE THEN n + 1
                         ELSE IF n + 2 <= MAX_NAME_SIZE THEN n + 2
                         ELSE MAX_NAME_SIZE
    <2>1. n \in Nat /\ n >= 1 /\ n <= MAX_NAME_SIZE /\ n <= Len(t) + k
      BY <1>2, <1>5
    <2>2. ~ (n >= 2 /\ name[n - 1] = "CR" /\ name[n] = "LF")
      <3> SUFFICES ASSUME n >= 2 PROVE name[n - 1] \notin End
        BY DEF End
      <3>1. n - 1 \in 1 .. n /\ n - 1 \in 1 .. Len(t) + k - 1
        BY <2>1, <1>2
      <3>2. name[n - 1] = s[n - 1]
        BY <1>5, <3>1
      <3> QED
        BY <1>1, <3>1, <3>2
    <2>3. Finish(name) = Append(Append(Take(name, length - 2), "CR"), "LF")
      BY <2>2 DEF Finish
    <2>4. length - 2 = kept
      <3>1. CASE Len(t) + k < MAX_NAME_SIZE
        <4>1. n = Len(t) + k
          BY <1>5, <3>1
        <4>2. name[n] = s[Len(t) + k]
          BY <1>5, <2>1, <4>1
        <4>3. length = n + 1
          BY <1>1, <2>1, <3>1, <4>1, <4>2
        <4> QED
          BY <1>2, <3>1, <4>1, <4>3
      <3>2. CASE ~ (Len(t) + k < MAX_NAME_SIZE)
        <4>1. n = MAX_NAME_SIZE
          BY <1>5, <3>2
        <4>2. length = MAX_NAME_SIZE
          BY <4>1, <2>1
        <4> QED
          BY <1>2, <3>2, <4>2
      <3> QED
        BY <3>1, <3>2
    <2> HIDE DEF length
    <2> QED
      BY <2>3, <2>4
  <1>8. Take(name, kept) = Line(s)
    <2> DEFINE front == SubSeq(s, 1, Len(t) + k - 1)
    <2>1. /\ front \in Seq(Chars) /\ Len(front) = Len(t) + k - 1
          /\ \A i \in 1 .. Len(t) + k - 1 : front[i] = s[i]
      <3>1. Len(t) + k - 1 \in 0 .. Len(s)
        BY <1>1, <1>2
      <3> QED
        BY <1>1, <3>1, SubSeqProperties
    <2> HIDE DEF front
    <2>2. /\ Take(front, MAX_NAME_SIZE - 2) \in Seq(Chars)
          /\ Len(Take(front, MAX_NAME_SIZE - 2)) = kept
          /\ \A i \in 1 .. kept : Take(front, MAX_NAME_SIZE - 2)[i] = front[i]
      BY <1>2, <1>4, <2>1, TakeIs
    <2>3. /\ Take(name, kept) \in Seq(Chars) /\ Len(Take(name, kept)) = kept
          /\ \A i \in 1 .. kept : Take(name, kept)[i] = name[i]
      BY <1>5, <1>6, TakeIs
    <2>4. \A i \in 1 .. kept : name[i] = front[i]
      BY <1>2, <1>5, <1>6, <2>1
    <2>5. Line(s) = Take(front, MAX_NAME_SIZE - 2)
      BY <1>4 DEF front
    <2> HIDE DEF kept
    <2> QED
      BY <2>2, <2>3, <2>4, <2>5, SeqEqual
  <1>9. Append(Append(Line(s), "CR"), "LF") = Line(s) \o <<"CR", "LF">>
    <2>1. Line(s) \in Seq(Chars)
      BY <1>5, <1>6, <1>8, TakeIs
    <2>2. "CR" \in Chars /\ "LF" \in Chars
      BY DEF Chars, End
    <2> HIDE DEF s
    <2> QED
      BY <2>1, <2>2
  <1> QED
    BY <1>3, <1>7, <1>8, <1>9 DEF s

-----------------------------------------------------------------------------
(***************************************************************************)
(* Types                                                                   *)
(***************************************************************************)
LEMMA EmptyText == << >> \in Text
  <1>1. << >> \in Seq(Chars) /\ Len(<< >>) = 0
    OBVIOUS
  <1>2. << >> \in Seq(Chars) /\ Len(<< >>) <= MAX_NAME_SIZE
    BY <1>1
  <1> QED
    BY <1>2, TextIs

\* What is kept of a line fits.
LEMMA TakeText ==
  ASSUME NEW s \in Seq(Chars), NEW n \in 0 .. MAX_NAME_SIZE
  PROVE  Take(s, n) \in Text
  <1>1. /\ Take(s, n) \in Seq(Chars)
        /\ Len(Take(s, n)) = IF Len(s) < n THEN Len(s) ELSE n
    BY TakeIs
  <1>2. Len(Take(s, n)) <= MAX_NAME_SIZE
    BY <1>1
  <1> QED
    BY <1>1, <1>2, TextIs

LEMMA Sizes == MAX_NAME_SIZE \in Nat /\ MAX_NAME_SIZE \in 0 .. MAX_NAME_SIZE
  OBVIOUS

LEMMA ReadIs ==
  ASSUME NEW p \in Packets
  PROVE  Read(p) \in Seq(Chars) /\ Len(Read(p)) >= 1
  <1>1. p \in Seq(Chars) /\ Len(p) >= 1
    BY PacketIs
  <1>2. CASE Done(p)
    <2>1. FirstEnd(p) \in 1 .. Len(p)
      BY <1>1, <1>2, FirstEndIs
    <2>2. SubSeq(p, 1, FirstEnd(p)) \in Seq(Chars)
          /\ Len(SubSeq(p, 1, FirstEnd(p))) = FirstEnd(p)
      BY <1>1, <2>1, SubSeqProperties
    <2> QED
      BY <1>2, <2>1, <2>2 DEF Read
  <1> QED
    BY <1>1, <1>2 DEF Read

LEMMA CollectText ==
  ASSUME NEW name \in Text, NEW p \in Packets
  PROVE  Collect(name, p) \in Text /\ Len(Collect(name, p)) >= 1
  <1>1. name \in Seq(Chars) /\ Read(p) \in Seq(Chars) /\ Len(Read(p)) >= 1
    BY TextIs, ReadIs
  <1>2. name \o Read(p) \in Seq(Chars) /\ Len(name \o Read(p)) >= 1
    BY <1>1, ConcatProperties
  <1>3. Collect(name, p) \in Text
    BY <1>2, Sizes, TakeText DEF Collect
  <1>4. Len(Take(name \o Read(p), MAX_NAME_SIZE)) >= 1
    <2> DEFINE s == name \o Read(p)
    <2> HIDE DEF s
    <2>1. Len(Take(s, MAX_NAME_SIZE))
            = IF Len(s) < MAX_NAME_SIZE THEN Len(s) ELSE MAX_NAME_SIZE
      BY <1>2, Sizes, TakeIs DEF s
    <2>2. Len(s) \in Nat /\ Len(s) >= 1
      BY <1>2 DEF s
    <2>3. Len(Take(s, MAX_NAME_SIZE)) >= 1
      BY <2>1, <2>2
    <2> QED
      BY <2>3 DEF s
  <1> QED
    BY <1>3, <1>4 DEF Collect

LEMMA FinishText ==
  ASSUME NEW name \in Text, Len(name) >= 1
  PROVE  Finish(name) \in Text
  <1> DEFINE n      == Len(name)
             length == IF name[n] \in End /\ n + 1 <= MAX_NAME_SIZE THEN n + 1
                       ELSE IF n + 2 <= MAX_NAME_SIZE THEN n + 2
                       ELSE MAX_NAME_SIZE
  <1>1. name \in Seq(Chars) /\ n \in 1 .. MAX_NAME_SIZE
    BY TextIs
  <1>2. length \in 2 .. MAX_NAME_SIZE
    BY <1>1
  <1>3. Finish(name) \in {name, Append(Append(Take(name, length - 2), "CR"), "LF")}
    BY DEF Finish
  <1> HIDE DEF length
  <1>4. /\ Take(name, length - 2) \in Seq(Chars)
        /\ Len(Take(name, length - 2)) <= length - 2
    BY <1>1, <1>2, TakeIs
  <1>5. "CR" \in Chars /\ "LF" \in Chars
    BY DEF Chars, End
  <1>6. /\ Append(Append(Take(name, length - 2), "CR"), "LF") \in Seq(Chars)
        /\ Len(Append(Append(Take(name, length - 2), "CR"), "LF")) <= length
    BY <1>2, <1>4, <1>5
  <1>7. Append(Append(Take(name, length - 2), "CR"), "LF") \in Text
    <2>1. Len(Append(Append(Take(name, length - 2), "CR"), "LF")) <= MAX_NAME_SIZE
      BY <1>2, <1>6
    <2> QED
      BY <1>6, <2>1, TextIs
  <1> QED
    BY <1>3, <1>7

LEMMA LineText ==
  ASSUME NEW s \in Seq(Chars)
  PROVE  Line(s) \in Text
  <1>1. MAX_NAME_SIZE - 2 \in 0 .. MAX_NAME_SIZE
    OBVIOUS
  <1>2. CASE Done(s)
    <2>1. FirstEnd(s) - 1 \in 0 .. Len(s)
      BY <1>2, FirstEndIs
    <2>2. SubSeq(s, 1, FirstEnd(s) - 1) \in Seq(Chars)
      BY <2>1, SubSeqProperties
    <2> QED
      BY <1>1, <1>2, <2>2, TakeText DEF Line
  <1> QED
    BY <1>1, <1>2, TakeText DEF Line

LEMMA FreeType ==
  ASSUME TypeOK, NEW b, Free(b)
  PROVE  used' \subseteq Blocks /\ bytes' \in [Blocks -> Text]
  BY EmptyText DEF TypeOK, Free

LEMMA CallocType ==
  ASSUME TypeOK, NEW b, Calloc(b)
  PROVE  /\ b \in Blocks \union {NULL}
         /\ used' \subseteq Blocks /\ bytes' \in [Blocks -> Text]
  BY EmptyText DEF TypeOK, Calloc, heap

LEMMA NextType ==
  ASSUME TypeOK, [Next]_vars
  PROVE  TypeOK'
  <1> USE DEF TypeOK
  <1>1. CASE UNCHANGED vars
    BY <1>1 DEF vars, heap, hist
  <1>2. CASE AcceptNoPcb
    BY <1>2, CallocType DEF AcceptNoPcb
  <1>3. ASSUME NEW c \in Conns, Accept(c)
        PROVE  TypeOK'
    BY <1>3, CallocType, EmptyText DEF Accept
  <1>4. ASSUME NEW c \in Conns, RecvNoName(c)
        PROVE  TypeOK'
    BY <1>4 DEF RecvNoName, heap, hist
  <1>5. ASSUME NEW c \in Conns, RecvClose(c)
        PROVE  TypeOK'
    BY <1>5, FreeType, EmptyText DEF RecvClose
  <1>6. ASSUME NEW c \in Conns, Closed(c)
        PROVE  TypeOK'
    BY <1>6 DEF Closed, heap, hist
  <1>7. ASSUME NEW c \in Conns, ConnErr(c)
        PROVE  TypeOK'
    BY <1>7, FreeType, EmptyText DEF ConnErr
  <1>8. ASSUME NEW c \in Conns, NEW p \in Packets, RecvPart(c, p)
        PROVE  TypeOK'
    <2>1. arg[c] \in Blocks /\ bytes[arg[c]] \in Text /\ typed[c] \in Text
      BY <1>8 DEF RecvPart
    <2>2. Collect(bytes[arg[c]], p) \in Text
      BY <2>1, CollectText
    <2>3. Take(typed[c] \o p, MAX_NAME_SIZE) \in Text
      <3>1. typed[c] \o p \in Seq(Chars)
        BY <2>1, TextIs, PacketIs, ConcatProperties
      <3> QED
        BY <3>1, Sizes, TakeText
    <2> QED
      BY <1>8, <2>1, <2>2, <2>3 DEF RecvPart
  <1>9. ASSUME NEW c \in Conns, NEW p \in Packets, RecvLine(c, p)
        PROVE  TypeOK'
    <2>1. arg[c] \in Blocks /\ bytes[arg[c]] \in Text /\ typed[c] \in Text
      BY <1>9 DEF RecvLine
    <2>2. Finish(Collect(bytes[arg[c]], p)) \in Text
      BY <2>1, CollectText, FinishText
    <2>3. Line(typed[c] \o Read(p)) \in Text
      <3>1. typed[c] \o Read(p) \in Seq(Chars)
        BY <2>1, TextIs, ReadIs, ConcatProperties
      <3> QED
        BY <3>1, LineText
    <2>4. reply' \in Text /\ asked' \in Text
      BY <1>9, <2>2, <2>3 DEF RecvLine, Write
    <2> QED
      BY <1>9, <2>4, EmptyText DEF RecvLine
  <1> QED
    BY <1>1, <1>2, <1>3, <1>4, <1>5, <1>6, <1>7, <1>8, <1>9 DEF Next

(***************************************************************************)
(* No line overruns name->bytes, neither while it is collected nor when    *)
(* CR LF is put behind it, and whatever connections do: the type of the    *)
(* buffers is kept.                                                        *)
(***************************************************************************)
THEOREM TypeCorrect == Spec => []TypeOK
  <1>1. Init => TypeOK
    BY EmptyText DEF Init, TypeOK
  <1>2. TypeOK /\ [Next]_vars => TypeOK'
    BY NextType
  <1> QED
    BY <1>1, <1>2, PTL DEF Spec

-----------------------------------------------------------------------------
(***************************************************************************)
(* Replies                                                                 *)
(***************************************************************************)
\* No end has been seen of a line that is still being typed.
Unfinished == \A c \in Conns : \A i \in 1 .. Len(typed[c]) : typed[c][i] \notin End

\* The name of an open connection holds what was typed on it.
Collected ==
  \A c \in Conns : state[c] = "open" /\ arg[c] /= NULL => bytes[arg[c]] = typed[c]

ReplyInv == IInv /\ TypeOK /\ Unfinished /\ Collected /\ ReplyIsTyped

LEMMA InitReplyInv == Init => ReplyInv
  <1>1. Init => TypeOK
    BY EmptyText DEF Init, TypeOK
  <1> QED
    BY <1>1, InitIInv DEF Init, ReplyInv, Unfinished, Collected, ReplyIsTyped

\* Other connections keep their names when one is taken or given back.
LEMMA FreeCollected ==
  ASSUME ReplyInv, NEW c \in Conns, state[c] = "open", Free(arg[c]),
         NEW s \in {"free", "closing"}, state' = [state EXCEPT ![c] = s],
         arg' \in {arg, [arg EXCEPT ![c] = NULL]},
         typed' = [typed EXCEPT ![c] = << >>]
  PROVE  Unfinished' /\ Collected'
  <1> USE DEF ReplyInv, TypeOK
  <1>1. Unfinished'
    BY DEF Unfinished
  <1>2. ASSUME NEW d \in Conns, state'[d] = "open", arg'[d] /= NULL
        PROVE  bytes'[arg'[d]] = typed'[d]
    <2>1. d /= c /\ state[d] = "open" /\ arg'[d] = arg[d] /\ arg[d] \in Blocks
      BY <1>2
    <2>2. arg[d] /= arg[c]
      BY <1>2, <2>1 DEF IInv, NameIsOwn
    <2>3. bytes'[arg[d]] = bytes[arg[d]] /\ typed'[d] = typed[d]
      BY <2>1, <2>2 DEF Free
    <2> QED
      BY <1>2, <2>1, <2>3 DEF Collected
  <1> QED
    BY <1>1, <1>2 DEF Collected

LEMMA CallocCollected ==
  ASSUME ReplyInv, NEW b, Calloc(b), NEW d \in Conns,
         state[d] = "open", arg[d] /= NULL
  PROVE  bytes'[arg[d]] = typed[d]
  <1>1. arg[d] \in used /\ arg[d] \in Blocks /\ bytes[arg[d]] = typed[d]
    BY DEF ReplyInv, IInv, OwnersTyped, NameIsOwn, Collected
  <1>2. bytes'[arg[d]] = bytes[arg[d]]
    BY <1>1 DEF Calloc, heap, ReplyInv, TypeOK
  <1> QED
    BY <1>1, <1>2

LEMMA PartCollected ==
  ASSUME ReplyInv, NEW c \in Conns, NEW p \in Packets, RecvPart(c, p)
  PROVE  Unfinished' /\ Collected'
  <1> USE DEF ReplyInv, TypeOK
  <1>1. /\ state[c] = "open" /\ arg[c] \in Blocks /\ arg[c] /= NULL
        /\ bytes[arg[c]] = typed[c] /\ typed[c] \in Seq(Chars)
        /\ p \in Seq(Chars)
        /\ Read(p) = p
    BY TextIs, PacketIs DEF RecvPart, Collected, Read
  <1>2. /\ UNCHANGED <<state, arg>>
        /\ bytes' = [bytes EXCEPT ![arg[c]] = Take(typed[c] \o p, MAX_NAME_SIZE)]
        /\ typed' = [typed EXCEPT ![c] = Take(typed[c] \o p, MAX_NAME_SIZE)]
    BY <1>1 DEF RecvPart, Collect
  <1>3. ASSUME NEW i \in 1 .. Len(Take(typed[c] \o p, MAX_NAME_SIZE))
        PROVE  Take(typed[c] \o p, MAX_NAME_SIZE)[i] \notin End
    <2>1. /\ typed[c] \o p \in Seq(Chars)
          /\ Len(typed[c] \o p) = Len(typed[c]) + Len(p)
          /\ \A j \in 1 .. Len(typed[c]) + Len(p) :
               (typed[c] \o p)[j] = IF j <= Len(typed[c]) THEN typed[c][j]
                                     ELSE p[j - Len(typed[c])]
      BY <1>1, ConcatProperties
    <2>2. /\ Take(typed[c] \o p, MAX_NAME_SIZE)[i] = (typed[c] \o p)[i]
          /\ i \in 1 .. Len(typed[c]) + Len(p)
      <3> DEFINE s == typed[c] \o p
      <3>1. /\ Len(Take(s, MAX_NAME_SIZE))
                 = IF Len(s) < MAX_NAME_SIZE THEN Len(s) ELSE MAX_NAME_SIZE
            /\ \A j \in 1 .. Len(Take(s, MAX_NAME_SIZE)) :
                 Take(s, MAX_NAME_SIZE)[j] = s[j]
        BY <2>1, Sizes, TakeIs
      <3>2. Len(s) = Len(typed[c]) + Len(p) /\ Len(s) \in Nat
        BY <2>1
      <3>3. i \in 1 .. Len(Take(s, MAX_NAME_SIZE))
        OBVIOUS
      <3> HIDE DEF s
      <3>4. i \in 1 .. Len(s)
        BY <3>1, <3>2, <3>3
      <3>5. Take(s, MAX_NAME_SIZE)[i] = s[i]
        BY <3>1, <3>3
      <3> QED
        BY <3>2, <3>4, <3>5 DEF s
    <2>3. CASE i <= Len(typed[c])
      <3>1. i \in 1 .. Len(typed[c])
        BY <2>2, <2>3
      <3> QED
        BY <2>1, <2>2, <2>3, <3>1 DEF Unfinished
    <2>4. CASE i > Len(typed[c])
      <3>1. i - Len(typed[c]) \in 1 .. Len(p)
        BY <1>1, <2>2, <2>4
      <3>2. p[i - Len(typed[c])] \notin End
        BY <1>1, <3>1 DEF RecvPart, Done
      <3>3. ~ (i <= Len(typed[c]))
        BY <1>1, <2>4
      <3> QED
        BY <2>1, <2>2, <3>2, <3>3
    <2> QED
      BY <1>1, <2>3, <2>4
  <1>4. Unfinished'
    BY <1>2, <1>3 DEF Unfinished
  <1>5. ASSUME NEW d \in Conns, state'[d] = "open", arg'[d] /= NULL
        PROVE  bytes'[arg'[d]] = typed'[d]
    <2>1. CASE d = c
      BY <1>1, <1>2, <2>1
    <2>2. CASE d /= c
      <3>1. arg[d] /= arg[c] /\ arg[d] \in Blocks
        BY <1>1, <1>2, <1>5, <2>2 DEF IInv, NameIsOwn
      <3> QED
        BY <1>2, <1>5, <2>2, <3>1 DEF Collected
    <2> QED
      BY <2>1, <2>2
  <1> QED
    BY <1>4, <1>5 DEF Collected

LEMMA LineCollected ==
  ASSUME ReplyInv, NEW c \in Conns, NEW p \in Packets, RecvLine(c, p)
  PROVE  Unfinished' /\ Collected' /\ ReplyIsTyped'
  <1> USE DEF ReplyInv, TypeOK
  <1>1. /\ state[c] = "open" /\ arg[c] \in Blocks /\ arg[c] /= NULL
        /\ bytes[arg[c]] = typed[c] /\ typed[c] \in Text
        /\ Done(p)
    BY DEF RecvLine, Collected
  <1>2. /\ UNCHANGED <<state, arg>>
        /\ bytes' = [bytes EXCEPT ![arg[c]] = << >>]
        /\ typed' = [typed EXCEPT ![c] = << >>]
    BY DEF RecvLine
  <1>3. Unfinished'
    BY <1>2 DEF Unfinished
  <1>4. ASSUME NEW d \in Conns, state'[d] = "open", arg'[d] /= NULL
        PROVE  bytes'[arg'[d]] = typed'[d]
    <2>1. CASE d = c
      BY <1>1, <1>2, <2>1
    <2>2. CASE d /= c
      <3>1. arg[d] /= arg[c] /\ arg[d] \in Blocks
        BY <1>1, <1>2, <1>4, <2>2 DEF IInv, NameIsOwn
      <3> QED
        BY <1>2, <1>4, <2>2, <3>1 DEF Collected
    <2> QED
      BY <2>1, <2>2
  <1>5. ReplyIsTyped'
    <2>1. Finish(Collect(typed[c], p)) = Line(typed[c] \o Read(p)) \o <<"CR", "LF">>
      <3>1. /\ typed[c] \in Seq(Chars) /\ Len(typed[c]) <= MAX_NAME_SIZE
            /\ p \in Seq(Chars)
        BY <1>1, TextIs, PacketIs
      <3>2. \A i \in 1 .. Len(typed[c]) : typed[c][i] \notin End
        BY DEF Unfinished
      <3> QED
        BY <1>1, <3>1, <3>2, LineSent
    <2>2. Write(c, Finish(Collect(typed[c], p)), p)
      BY <1>1 DEF RecvLine
    <2> QED
      BY <2>1, <2>2 DEF Write, ReplyIsTyped
  <1> QED
    BY <1>3, <1>4, <1>5 DEF Collected

LEMMA NextReplyInv ==
  ASSUME ~ResetsAfterClose, ReplyInv, [Next]_vars
  PROVE  ReplyInv'
  <1>1. IInv' /\ TypeOK'
    BY NextIInv, NextType DEF ReplyInv
  <1> SUFFICES Unfinished' /\ Collected' /\ ReplyIsTyped'
    BY <1>1 DEF ReplyInv
  <1>2. CASE UNCHANGED vars
    BY <1>2 DEF ReplyInv, Unfinished, Collected, ReplyIsTyped, vars, heap, hist
  <1>3. CASE AcceptNoPcb
    <2>1. PICK b \in Blocks \union {NULL} : Calloc(b)
      BY <1>3 DEF AcceptNoPcb
    <2> QED
      BY <1>3, <2>1, CallocCollected
      DEF AcceptNoPcb, ReplyInv, Unfinished, Collected, ReplyIsTyped
  <1>4. ASSUME NEW c \in Conns, Accept(c)
        PROVE  Unfinished' /\ Collected' /\ ReplyIsTyped'
    <2>1. PICK b \in Blocks \union {NULL} :
            Calloc(b) /\ arg' = [arg EXCEPT ![c] = b]
      BY <1>4 DEF Accept
    <2>2. /\ state' = [state EXCEPT ![c] = "open"]
          /\ typed' = [typed EXCEPT ![c] = << >>]
          /\ UNCHANGED <<reply, asked>>
      BY <1>4 DEF Accept
    <2>3. Unfinished'
      BY <2>2 DEF Unfinished, ReplyInv, TypeOK
    <2>4. ASSUME NEW d \in Conns, state'[d] = "open", arg'[d] /= NULL
          PROVE  bytes'[arg'[d]] = typed'[d]
      <3>1. CASE d = c
        <4>1. arg'[d] = b /\ typed'[d] = << >> /\ b /= NULL
          BY <2>1, <2>2, <2>4, <3>1 DEF ReplyInv, TypeOK
        <4>2. bytes' = [bytes EXCEPT ![b] = << >>] /\ b \in Blocks
          BY <2>1, <4>1 DEF Calloc
        <4> QED
          BY <4>1, <4>2 DEF ReplyInv, TypeOK
      <3>2. CASE d /= c
        <4>1. state[d] = "open" /\ arg[d] /= NULL /\ arg'[d] = arg[d]
              /\ typed'[d] = typed[d]
          BY <2>1, <2>2, <2>4, <3>2 DEF ReplyInv, TypeOK
        <4> QED
          BY <2>1, <4>1, CallocCollected
      <3> QED
        BY <3>1, <3>2
    <2> QED
      BY <2>2, <2>3, <2>4 DEF Collected, ReplyInv, ReplyIsTyped
  <1>5. ASSUME NEW c \in Conns, RecvNoName(c)
        PROVE  Unfinished' /\ Collected' /\ ReplyIsTyped'
    BY <1>5 DEF RecvNoName, ReplyInv, Unfinished, Collected, ReplyIsTyped, heap, hist
  <1>6. ASSUME NEW c \in Conns, RecvClose(c)
        PROVE  Unfinished' /\ Collected' /\ ReplyIsTyped'
    <2>1. /\ state[c] = "open" /\ Free(arg[c])
          /\ state' = [state EXCEPT ![c] = "closing"]
          /\ typed' = [typed EXCEPT ![c] = << >>]
          /\ arg' = arg /\ UNCHANGED <<reply, asked>>
      BY <1>6 DEF RecvClose
    <2>2. Unfinished' /\ Collected'
      BY <2>1, FreeCollected
    <2> QED
      BY <2>1, <2>2 DEF ReplyInv, ReplyIsTyped
  <1>7. ASSUME NEW c \in Conns, Closed(c)
        PROVE  Unfinished' /\ Collected' /\ ReplyIsTyped'
    BY <1>7 DEF Closed, ReplyInv, TypeOK, Unfinished, Collected, ReplyIsTyped, heap, hist
  <1>8. ASSUME NEW c \in Conns, ConnErr(c)
        PROVE  Unfinished' /\ Collected' /\ ReplyIsTyped'
    <2>1. /\ state[c] = "open" /\ Free(arg[c])
          /\ state' = [state EXCEPT ![c] = "free"]
          /\ typed' = [typed EXCEPT ![c] = << >>]
          /\ arg' = [arg EXCEPT ![c] = NULL] /\ UNCHANGED <<reply, asked>>
      BY <1>8 DEF ConnErr
    <2>2. Unfinished' /\ Collected'
      BY <2>1, FreeCollected
    <2> QED
      BY <2>1, <2>2 DEF ReplyInv, ReplyIsTyped
  <1>9. ASSUME NEW c \in Conns, NEW p \in Packets, RecvPart(c, p)
        PROVE  Unfinished' /\ Collected' /\ ReplyIsTyped'
    <2>1. UNCHANGED <<reply, asked>>
      BY <1>9 DEF RecvPart
    <2> QED
      BY <1>9, <2>1, PartCollected DEF ReplyInv, ReplyIsTyped
  <1>10. ASSUME NEW c \in Conns, NEW p \in Packets, RecvLine(c, p)
         PROVE  Unfinished' /\ Collected' /\ ReplyIsTyped'
    BY <1>10, LineCollected
  <1> QED
    BY <1>2, <1>3, <1>4, <1>5, <1>6, <1>7, <1>8, <1>9, <1>10 DEF Next

(***************************************************************************)
(* The reply of helloworld_recv is the line as it was typed on this        *)
(* connection, cut to fit, with CR LF behind it: however its bytes are     *)
(* spread over packets, whatever other connections do and however long it  *)
(* is, if no connection fails after tcp_close.                             *)
(***************************************************************************)
THEOREM ReplyIsTypedAlways ==
  ASSUME ~ResetsAfterClose
  PROVE  Spec => []ReplyIsTyped
  <1>1. Init => ReplyInv
    BY InitReplyInv
  <1>2. ReplyInv /\ [Next]_vars => ReplyInv'
    BY NextReplyInv
  <1>3. ReplyInv => ReplyIsTyped
    BY DEF ReplyInv
  <1> QED
    BY <1>1, <1>2, <1>3, PTL DEF Spec
=============================================================================
