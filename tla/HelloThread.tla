---------------------------- MODULE HelloThread -----------------------------
(***************************************************************************)
(* UsartHelloThread and memTest of main.c over the library hUsart.c        *)
(* (UsartEdma) and the newlib stubs (Sbrk, _write).  The thread first      *)
(* prints, byte by byte through _write, which polls the USART; then it     *)
(* starts a transmission by the EDMA once a second.  Both write the same   *)
(* data register, which holds one byte that has not been shifted out.      *)
(*                                                                         *)
(* What a descriptor sends counts as one byte.  The thread may use any     *)
(* stream and add as many descriptors as fit from the stream's row to the  *)
(* end of the table; main.c adds two to the first stream.                  *)
(***************************************************************************)
EXTENDS UsartEdma, Sbrk

CONSTANT Depth      \* the argument of memTest

VARIABLES
  pc,         \* where the thread is
  depth,      \* calls of memTest on the stack
  stdout,     \* stdio has looked for a buffer
  polled,     \* _write has seen USART_TDBE_FLAG
  dt,         \* the USART's data register: "off", "empty" or "full"
  lost        \* a byte was written to dt and did not go out

usart     == <<dt, lost>>
thread    == <<pc, depth, stdout, polled>>
helloVars == <<vars, heapVars, usart, thread>>

HelloInit ==
  /\ Init
  /\ HeapInit
  /\ pc = "init"
  /\ depth = 0
  /\ stdout = FALSE
  /\ polled = FALSE
  /\ dt = "off"
  /\ lost = FALSE

PutByte ==
  /\ dt' = IF dt = "off" THEN "off" ELSE "full"
  /\ lost' = (lost \/ dt /= "empty")

-----------------------------------------------------------------------------
\* The byte goes to the shift register, and TDBE is set.
Shift ==
  /\ dt = "full"
  /\ dt' = "empty"
  /\ UNCHANGED <<vars, heapVars, thread, lost>>

\* The USART requests data of the EDMA when dt is empty.
EdmaStep(s) ==
  /\ Transfer(s)
  /\ IF sent' /= sent THEN dt = "empty" /\ PutByte ELSE UNCHANGED usart
  /\ UNCHANGED <<heapVars, thread>>

Irq == Stream1Irq /\ UNCHANGED <<heapVars, usart, thread>>

-----------------------------------------------------------------------------
\* Fault: the clock of this USART is not enabled.
UsartInitNoClock ==
  /\ pc = "init"
  /\ pc' = "add"
  /\ UNCHANGED <<vars, heapVars, usart, depth, stdout, polled>>

\* hUsartInit, UsartClockEn
UsartInit ==
  /\ pc = "init"
  /\ dt' = "empty"
  /\ pc' = "add"
  /\ UNCHANGED <<vars, heapVars, lost, depth, stdout, polled>>

AddDescriptor ==
  /\ pc = "add"
  /\ \E s \in Streams :
       /\ Row(s) + Len(added[s]) + 1 \in Slots
       /\ Add(s)
  /\ UNCHANGED <<heapVars, usart, thread>>

EdmaInit ==
  /\ pc = "add"
  /\ \E s \in Streams : InitStream(s)
  /\ pc' = "list"
  /\ UNCHANGED <<heapVars, usart, depth, stdout, polled>>

\* The first printf asks for a buffer, and goes without if there is none.
StdoutBuffer ==
  /\ pc = "list"
  /\ ~stdout
  /\ HeapNext
  /\ stdout' = TRUE
  /\ UNCHANGED <<vars, usart, pc, depth, polled>>

\* Fault: as in hUsartTransmitData, TDBE is waited for after the byte only.
WritePollSkipped ==
  /\ pc \in {"list", "mem"}
  /\ stdout /\ ~polled
  /\ polled' = TRUE
  /\ UNCHANGED <<vars, heapVars, usart, pc, depth, stdout>>

\* _write, called by the printf of PrintList and memTest
WritePoll ==
  /\ pc \in {"list", "mem"}
  /\ stdout /\ ~polled
  /\ dt = "empty"
  /\ polled' = TRUE
  /\ UNCHANGED <<vars, heapVars, usart, pc, depth, stdout>>

WritePut ==
  /\ polled
  /\ PutByte
  /\ polled' = FALSE
  /\ UNCHANGED <<vars, heapVars, pc, depth, stdout>>

PrintListDone ==
  /\ pc = "list"
  /\ stdout /\ ~polled
  /\ pc' = "mem"
  /\ UNCHANGED <<vars, heapVars, usart, depth, stdout, polled>>

\* malloc has the memory, or gets it from _sbrk, or memTest gives up.
MemTest ==
  /\ pc = "mem"
  /\ ~polled
  /\ depth < Depth
  /\ \/ /\ UNCHANGED heapVars
        /\ depth' = depth + 1
     \/ /\ HeapNext
        /\ depth' = IF granted' /= granted THEN depth + 1 ELSE Depth
  /\ UNCHANGED <<vars, usart, pc, stdout, polled>>

MemTestDone ==
  /\ pc = "mem"
  /\ ~polled
  /\ depth = Depth
  /\ pc' = "delay"
  /\ UNCHANGED <<vars, heapVars, usart, depth, stdout, polled>>

StartTransmit ==
  /\ pc = "delay"
  /\ \E s \in Streams : Start(s)
  /\ pc' = "sleep"
  /\ UNCHANGED <<heapVars, usart, depth, stdout, polled>>

\* vTaskDelay: a second is some hundred times what a transmission takes.
Wake ==
  /\ pc = "sleep"
  /\ \A s \in Streams : cur[s] = None
  /\ pc' = "delay"
  /\ UNCHANGED <<vars, heapVars, usart, depth, stdout, polled>>

-----------------------------------------------------------------------------
Hardware == Shift \/ \E s \in Streams : EdmaStep(s)

Write == WritePoll \/ WritePut

\* The thread gets on; how much it prints is bounded.
Advance ==
  \/ UsartInit \/ AddDescriptor \/ EdmaInit \/ StdoutBuffer
  \/ PrintListDone \/ MemTest \/ MemTestDone \/ StartTransmit \/ Wake

HelloNext == Hardware \/ Irq \/ Write \/ Advance

HelloSpec ==
  /\ HelloInit /\ [][HelloNext]_helloVars
  /\ WF_helloVars(Hardware)
  /\ WF_helloVars(WritePut)
  /\ SF_helloVars(Advance)

-----------------------------------------------------------------------------
(***************************************************************************)
(* Polled output and the EDMA share the data register; neither writes it   *)
(* while the other's byte, or its own, is still in it.                     *)
(***************************************************************************)
NothingLost == ~lost

(***************************************************************************)
(* The thread comes to its transmissions, however memTest's allocations    *)
(* end, and each sends all that was added, again and again.                *)
(***************************************************************************)
HelloIsSent ==
  []<>(\E s \in Streams : cur[s] /= None /\ sent[s] = added[s])
=============================================================================
