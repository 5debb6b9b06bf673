-------------------------------- MODULE Sbrk --------------------------------
(***************************************************************************)
(* _sbrk of newLibs.c over the heap that the linker script lays out.       *)
(* heap_end moves also when the call fails, and the check is against the   *)
(* new value, in the arithmetic of the machine's addresses: after enough   *)
(* failed calls heap_end wraps.                                            *)
(***************************************************************************)
EXTENDS Naturals

CONSTANTS
  HeapStart,      \* __heap_start
  HeapEnd,        \* __heap_end
  Word,           \* number of addresses
  MaxIncr         \* bound: largest request

ASSUME HeapAssumption ==
  /\ {HeapStart, HeapEnd, Word, MaxIncr} \subseteq Nat
  /\ 0 < HeapStart
  /\ HeapStart < HeapEnd
  /\ HeapEnd < Word

VARIABLES
  heap_end,     \* 0 before the first call
  MemRegs,      \* counts what was granted
  wrapped,      \* heap_end has wrapped
  granted       \* the blocks that calls returned

heapVars == <<heap_end, MemRegs, wrapped, granted>>

HeapInit ==
  /\ heap_end = 0
  /\ MemRegs = 0
  /\ wrapped = FALSE
  /\ granted = {}

prev_heap_end == IF heap_end = 0 THEN HeapStart ELSE heap_end

Wrap(a) == IF a < Word THEN a ELSE a - Word

\* Fault: the check is against the end before the call.
GrantedEarly == prev_heap_end < HeapEnd

Granted == heap_end' < HeapEnd

\* newlib gives memory back only above its trim threshold, which is larger
\* than this heap: incr is positive.
SbrkCall(incr) ==
  /\ heap_end' = Wrap(prev_heap_end + incr)
  /\ wrapped' = (wrapped \/ prev_heap_end + incr >= Word)
  /\ IF Granted
       THEN /\ MemRegs' = MemRegs + incr
            /\ granted' = granted \union {[at |-> prev_heap_end, size |-> incr]}
       ELSE UNCHANGED <<MemRegs, granted>>

HeapNext == \E incr \in 1 .. MaxIncr : SbrkCall(incr)

HeapSpec == HeapInit /\ [][HeapNext]_heapVars

-----------------------------------------------------------------------------
(***************************************************************************)
(* Whatever calls failed in between, a block that _sbrk returns lies in    *)
(* the heap and overlaps no other, and MemRegs counts exactly the part of  *)
(* the heap that is in use, until failed calls have wrapped heap_end.      *)
(***************************************************************************)
GrantsAreOwn ==
  ~wrapped =>
    /\ HeapStart + MemRegs < HeapEnd
    /\ \A g \in granted : /\ HeapStart <= g.at
                          /\ g.at + g.size <= HeapStart + MemRegs
    /\ \A g, h \in granted :
         g = h \/ g.at + g.size <= h.at \/ h.at + h.size <= g.at
=============================================================================
