------------------------------- MODULE Telnet -------------------------------
(***************************************************************************)
(* telnet.c: the server that asks for a name and greets.  lwIP calls       *)
(* helloworld_accept, _recv and _conn_err one at a time; a connection's    *)
(* argument is a struct name from lwIP's heap, in which the line typed so  *)
(* far is collected.                                                       *)
(*                                                                         *)
(* lwIP is external: it has a fixed number of pcbs, calls accept with a    *)
(* NULL pcb when they are used up, keeps the data that recv refuses and    *)
(* offers it again, and does not take arg and callbacks off a pcb that was *)
(* closed before the connection is gone.                                   *)
(***************************************************************************)
EXTENDS Integers, Sequences, FiniteSets

CONSTANTS
  Conns,             \* pcbs: MEMP_NUM_TCP_PCB
  Blocks,            \* the struct names that the heap has room for
  MAX_NAME_SIZE,
  Letters,           \* bytes other than CR and LF
  MaxPacket,         \* bound: bytes in one call of helloworld_recv
  ResetsAfterClose   \* whether a connection can fail after tcp_close

ASSUME TelnetAssumption ==
  /\ MAX_NAME_SIZE \in Nat /\ MAX_NAME_SIZE >= 2
  /\ MaxPacket \in Nat
  /\ ResetsAfterClose \in BOOLEAN

CONSTANT NULL

ASSUME NullAssumption == NULL \notin Blocks

VARIABLES
  state,      \* of each pcb: "free", "open" or "closing" (after tcp_close)
  arg,        \* its callback_arg
  refused,    \* pcbs whose refused_data is set
  used,       \* allocated blocks
  bytes,      \* bytes[b] is name->bytes up to name->length
  typed,      \* the line being typed on each, up to MAX_NAME_SIZE bytes
  reply,      \* the name that was sent last
  asked,      \* the line that it answers
  leaked      \* names that were allocated for a NULL pcb

heap == <<used, bytes>>
hist == <<typed, reply, asked, leaked>>
vars == <<state, arg, refused, heap, hist>>

End == {"CR", "LF"}

Packets == UNION {[1 .. n -> Letters \union End] : n \in 1 .. MaxPacket}

\* The first n bytes of s, or all of them.
Take(s, n) == SubSeq(s, 1, IF Len(s) < n THEN Len(s) ELSE n)

Init ==
  /\ state = [c \in Conns |-> "free"]
  /\ arg = [c \in Conns |-> NULL]
  /\ refused = {}
  /\ used = {}
  /\ bytes = [b \in Blocks |-> << >>]
  /\ typed = [c \in Conns |-> << >>]
  /\ reply = << >>
  /\ asked = << >>
  /\ leaked = {}

-----------------------------------------------------------------------------
\* mem_calloc
Calloc(b) ==
  IF used = Blocks
    THEN b = NULL /\ UNCHANGED heap
    ELSE /\ b \in Blocks \ used
         /\ used' = used \union {b}
         /\ bytes' = [bytes EXCEPT ![b] = << >>]

\* mem_free: nothing tells whose block it is now.
Free(b) ==
  /\ used' = used \ {b}
  /\ bytes' = [x \in Blocks |-> IF x = b THEN << >> ELSE bytes[x]]

Accept(c) ==
  /\ state[c] = "free"
  /\ \E b \in Blocks \union {NULL} : Calloc(b) /\ arg' = [arg EXCEPT ![c] = b]
  /\ state' = [state EXCEPT ![c] = "open"]
  /\ typed' = [typed EXCEPT ![c] = << >>]
  /\ UNCHANGED <<refused, reply, asked, leaked>>

\* helloworld_accept looks neither at pcb nor at err.
AcceptNoPcb ==
  /\ \A c \in Conns : state[c] /= "free"
  /\ \E b \in Blocks \union {NULL} :
       Calloc(b) /\ leaked' = leaked \union ({b} \ {NULL})
  /\ UNCHANGED <<state, arg, refused, typed, reply, asked>>

-----------------------------------------------------------------------------
Done(p) == \E i \in DOMAIN p : p[i] \in End

FirstEnd(p) ==
  CHOOSE i \in DOMAIN p : p[i] \in End /\ \A j \in 1 .. i - 1 : p[j] \notin End

(***************************************************************************)
(* The bytes that the loops of helloworld_recv look at: up to and with the *)
(* first CR or LF; the rest of the packet is discarded.                    *)
(***************************************************************************)
Read(p) == IF Done(p) THEN SubSeq(p, 1, FirstEnd(p)) ELSE p

\* Those for which name->bytes has no room are dropped.
Collect(name, p) == Take(name \o Read(p), MAX_NAME_SIZE)

\* Fault: CR and LF are put behind a line that fills the buffer.
FinishUnbounded(name) ==
  LET length == IF name[Len(name)] \in End THEN Len(name) + 1
                                           ELSE Len(name) + 2
  IN  Append(Append(Take(name, length - 2), "CR"), "LF")

(***************************************************************************)
(* The end of the line becomes CR LF, in place of the last bytes if there  *)
(* is no room behind them.  Before bytes[0] lies length, which is no CR.   *)
(***************************************************************************)
Finish(name) ==
  LET n      == Len(name)
      length == IF name[n] \in End /\ n + 1 <= MAX_NAME_SIZE THEN n + 1
                ELSE IF n + 2 <= MAX_NAME_SIZE THEN n + 2
                ELSE MAX_NAME_SIZE
  IN  IF n >= 2 /\ name[n - 1] = "CR" /\ name[n] = "LF" THEN name
      ELSE Append(Append(Take(name, length - 2), "CR"), "LF")

\* What was typed, without its end, as far as a name can hold it.
Line(s) ==
  Take(IF Done(s) THEN SubSeq(s, 1, FirstEnd(s) - 1) ELSE s, MAX_NAME_SIZE - 2)

\* Without a name ERR_ARG is returned and lwIP keeps the pbuf just freed.
RecvNoName(c) ==
  /\ state[c] = "open"
  /\ arg[c] = NULL
  /\ refused' = refused \union {c}
  /\ UNCHANGED <<state, arg, heap, hist>>

RecvPart(c, p) ==
  /\ state[c] = "open"
  /\ arg[c] /= NULL
  /\ ~Done(p)
  /\ bytes' = [bytes EXCEPT ![arg[c]] = Collect(@, p)]
  /\ typed' = [typed EXCEPT ![c] = Take(@ \o p, MAX_NAME_SIZE)]
  /\ UNCHANGED <<state, arg, refused, used, reply, asked, leaked>>

(***************************************************************************)
(* tcp_write of the name: without memory it sends nothing and says so, of  *)
(* which the code takes no notice.                                         *)
(***************************************************************************)
Write(c, line, p) ==
  \/ /\ reply' = line
     /\ asked' = Line(typed[c] \o Read(p))
  \/ UNCHANGED <<reply, asked>>

\* Fault: name->length is reset only if the reply went out.
RecvLineKept(c, p) ==
  /\ state[c] = "open"
  /\ arg[c] /= NULL
  /\ Done(p)
  /\ LET line == Finish(Collect(bytes[arg[c]], p))
     IN  /\ Write(c, line, p)
         /\ bytes' = [bytes EXCEPT ![arg[c]] =
                        IF reply' = line THEN << >> ELSE line]
  /\ typed' = [typed EXCEPT ![c] = << >>]
  /\ UNCHANGED <<state, arg, refused, used, leaked>>

RecvLine(c, p) ==
  /\ state[c] = "open"
  /\ arg[c] /= NULL
  /\ Done(p)
  /\ Write(c, Finish(Collect(bytes[arg[c]], p)), p)
  /\ bytes' = [bytes EXCEPT ![arg[c]] = << >>]
  /\ typed' = [typed EXCEPT ![c] = << >>]
  /\ UNCHANGED <<state, arg, refused, used, leaked>>

\* Fault: the connection is closed and its name kept.
RecvCloseKeeps(c) ==
  /\ state[c] = "open"
  /\ c \notin refused
  /\ state' = [state EXCEPT ![c] = "closing"]
  /\ typed' = [typed EXCEPT ![c] = << >>]
  /\ UNCHANGED <<arg, refused, heap, reply, asked, leaked>>

\* The remote end closes; a pcb with refused data does not get that far.
RecvClose(c) ==
  /\ state[c] = "open"
  /\ c \notin refused
  /\ Free(arg[c])
  /\ state' = [state EXCEPT ![c] = "closing"]
  /\ typed' = [typed EXCEPT ![c] = << >>]
  /\ UNCHANGED <<arg, refused, reply, asked, leaked>>

\* The last ACK of a closed connection: lwIP frees the pcb, no callback.
Closed(c) ==
  /\ state[c] = "closing"
  /\ state' = [state EXCEPT ![c] = "free"]
  /\ arg' = [arg EXCEPT ![c] = NULL]
  /\ UNCHANGED <<refused, heap, hist>>

\* Fault: the callback frees a name that the pcb goes on using.
ConnErrPcbKept(c) ==
  /\ state[c] = "open"
  /\ Free(arg[c])
  /\ UNCHANGED <<state, arg, refused, hist>>

(***************************************************************************)
(* helloworld_conn_err: the connection was reset, timed out or gave its    *)
(* pcb to a new one.  lwIP has freed the pcb.                              *)
(***************************************************************************)
ConnErr(c) ==
  /\ state[c] = "open" \/ (ResetsAfterClose /\ state[c] = "closing")
  /\ Free(arg[c])
  /\ state' = [state EXCEPT ![c] = "free"]
  /\ arg' = [arg EXCEPT ![c] = NULL]
  /\ refused' = refused \ {c}
  /\ typed' = [typed EXCEPT ![c] = << >>]
  /\ UNCHANGED <<reply, asked, leaked>>

Next ==
  \/ AcceptNoPcb
  \/ \E c \in Conns :
       \/ Accept(c) \/ RecvNoName(c) \/ RecvClose(c) \/ Closed(c) \/ ConnErr(c)
       \/ \E p \in Packets : RecvPart(c, p) \/ RecvLine(c, p)

Spec == Init /\ [][Next]_vars

-----------------------------------------------------------------------------
Text == UNION {[1 .. n -> Letters \union End] : n \in 0 .. MAX_NAME_SIZE}

\* name->length never exceeds the buffer, nor does the line that is sent.
TypeOK ==
  /\ state \in [Conns -> {"free", "open", "closing"}]
  /\ arg \in [Conns -> Blocks \union {NULL}]
  /\ refused \subseteq Conns
  /\ used \subseteq Blocks
  /\ bytes \in [Blocks -> Text]
  /\ typed \in [Conns -> Text]
  /\ reply \in Text
  /\ asked \in Text
  /\ leaked \subseteq Blocks

(***************************************************************************)
(* telnet.c:139: "We free the allocated memory and we close the            *)
(* connection".  The name of a connection that is not closed is allocated  *)
(* and no other connection's.                                              *)
(***************************************************************************)
NameIsOwn ==
  \A c \in Conns : state[c] = "open" /\ arg[c] /= NULL =>
     /\ arg[c] \in used
     /\ \A d \in Conns \ {c} : state[d] = "open" => arg[d] /= arg[c]

(***************************************************************************)
(* Nothing leaks but the names that helloworld_accept allocates for a NULL *)
(* pcb: every other block in use is the name of a connection that is open, *)
(* and the leaked ones are never given to one.                             *)
(***************************************************************************)
OnlyNoPcbLeaks ==
  /\ used \ leaked = {arg[c] : c \in {d \in Conns : state[d] = "open"}} \ {NULL}
  /\ leaked \subseteq used

(***************************************************************************)
(* However the bytes of a line are spread over packets, and whatever other *)
(* connections do meanwhile, and whether earlier replies went out or not,  *)
(* the reply is the line as it was typed on this connection, cut to fit,   *)
(* with CR LF at its end.                                                  *)
(***************************************************************************)
ReplyIsTyped == reply /= << >> => reply = asked \o <<"CR", "LF">>
=============================================================================
