----------------------------- MODULE NetTimers ------------------------------
(***************************************************************************)
(* netconf.c's software timers.  TMR6_DAC_GLOBAL_IRQHandler advances       *)
(* local_time, an unsigned counter that wraps; hNetHelloThread passes its  *)
(* value to lwip_periodic_handle once per round and then sleeps.           *)
(* lwip_periodic_handle compares it with tcp_timer, arp_timer and          *)
(* link_timer, in this order, and runs what is due.                        *)
(*                                                                         *)
(* The wrapped counter is all that the code knows of time.  since and      *)
(* passed keep, beside it, how long ago each process really ran.           *)
(***************************************************************************)
EXTENDS Integers

CONSTANTS
  Wrap,        \* 2^32, in ticks of SYSTEMTICK_PERIOD_MS
  Tcp,         \* TCP_TMR_INTERVAL, in ticks
  Arp,         \* ARP_TMR_INTERVAL
  Link,        \* 500 ms
  Delay,       \* vTaskDelay at the end of a round
  Slack        \* bound: ticks that a round may take besides the delay

ASSUME TimersAssumption ==
  /\ {Wrap, Tcp, Arp, Link, Delay} \subseteq Nat \ {0}
  /\ Slack \in Nat
  /\ \A i \in {Tcp, Arp, Link} : i + Delay + 2 * Slack < Wrap

VARIABLES
  local_time,
  timer,       \* tcp_timer, arp_timer and link_timer
  localtime,   \* the argument of the call in progress
  pc,          \* the comparison that comes next, or "asleep"
  slept,       \* ticks since the round began or the thread went to sleep
  since,       \* ticks since each process ran (or since the start)
  passed,      \* ticks since localtime was read
  wrapped      \* local_time wrapped since the process ran

vars == <<local_time, timer, localtime, pc, slept, since, passed, wrapped>>

Timers == {"tcp", "arp", "link"}

Interval == [tcp |-> Tcp, arp |-> Arp, link |-> Link]

After == [tcp |-> "arp", arp |-> "link", link |-> "asleep"]

Init ==
  /\ local_time = 0
  /\ timer = [t \in Timers |-> 0]
  /\ localtime = 0
  /\ pc = "asleep"
  /\ slept = Delay
  /\ since = [t \in Timers |-> 0]
  /\ passed = 0
  /\ wrapped = [t \in Timers |-> FALSE]

\* Unsigned subtraction.
Minus(a, b) == (a + Wrap - b) % Wrap

\* Fault: the times are compared and not their difference.
DueCompared(t) == localtime >= timer[t] + Interval[t]

Due(t) ==
  \/ Minus(localtime, timer[t]) >= Interval[t]
  \/ localtime < timer[t]

\* Fault: local_time does not wrap.
TickNoWrap ==
  /\ slept < (IF pc = "asleep" THEN Delay ELSE 0) + Slack
  /\ local_time' = local_time + 1
  /\ since' = [t \in Timers |-> since[t] + 1]
  /\ passed' = passed + 1
  /\ slept' = slept + 1
  /\ UNCHANGED <<timer, localtime, pc, wrapped>>

\* TMR6 overflows: time_update.
Tick ==
  /\ slept < (IF pc = "asleep" THEN Delay ELSE 0) + Slack
  /\ local_time' = (local_time + 1) % Wrap
  /\ since' = [t \in Timers |-> since[t] + 1]
  /\ wrapped' = [t \in Timers |-> wrapped[t] \/ local_time' = 0]
  /\ passed' = passed + 1
  /\ slept' = slept + 1
  /\ UNCHANGED <<timer, localtime, pc>>

\* lwip_periodic_handle(local_time)
Round ==
  /\ pc = "asleep"
  /\ slept >= Delay
  /\ localtime' = local_time
  /\ passed' = 0
  /\ slept' = 0
  /\ pc' = "tcp"
  /\ UNCHANGED <<local_time, timer, since, wrapped>>

\* Fault: the timer goes on by its interval and not to the time it is.
RunAdvances(t) ==
  /\ timer' = [timer EXCEPT ![t] = (@ + Interval[t]) % Wrap]
  /\ since' = [since EXCEPT ![t] = passed]
  /\ wrapped' = [wrapped EXCEPT ![t] = local_time < localtime]

\* The timer takes localtime, which may be behind local_time by now.
Run(t) ==
  /\ timer' = [timer EXCEPT ![t] = localtime]
  /\ since' = [since EXCEPT ![t] = passed]
  /\ wrapped' = [wrapped EXCEPT ![t] = local_time < localtime]

Check(t) ==
  /\ pc = t
  /\ IF Due(t) THEN Run(t) ELSE UNCHANGED <<timer, since, wrapped>>
  /\ pc' = After[t]
  /\ slept' = IF t = "link" THEN 0 ELSE slept
  /\ UNCHANGED <<local_time, localtime, passed>>

Poll == Round \/ \E t \in Timers : Check(t)

Next == Tick \/ Poll

Spec == Init /\ [][Next]_vars

-----------------------------------------------------------------------------
TypeOK ==
  /\ local_time \in 0 .. Wrap - 1
  /\ timer \in [Timers -> 0 .. Wrap - 1]
  /\ localtime \in 0 .. Wrap - 1
  /\ pc \in Timers \union {"asleep"}
  /\ slept \in 0 .. Delay + Slack
  /\ since \in [Timers -> Nat]
  /\ passed \in 0 .. Delay + 2 * Slack
  /\ wrapped \in [Timers -> BOOLEAN]

Checked(t) ==
  \/ t = "tcp" /\ pc /= "tcp"
  \/ t = "arp" /\ pc \in {"link", "asleep"}
  \/ t = "link" /\ pc = "asleep"

(***************************************************************************)
(* No round leaves a process overdue: at the time that the round read, it  *)
(* had run less than its interval ago, whether or not local_time wrapped.  *)
(***************************************************************************)
NoneOverdue ==
  \A t \in Timers : Checked(t) => since[t] - passed < Interval[t]

(***************************************************************************)
(* No process runs early, but for once after a wrap, when local_time is    *)
(* smaller than its timer.                                                 *)
(***************************************************************************)
NotEarly ==
  [][\A t \in Timers : timer'[t] /= timer[t] =>
       since[t] - passed >= Interval[t] \/ wrapped[t]]_vars
=============================================================================
