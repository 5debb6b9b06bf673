-------------------------- MODULE NetTimersProofs ---------------------------
(***************************************************************************)
(* Theorems about NetTimers, for every width of local_time, all intervals  *)
(* and every delay that TimersAssumption admits.                           *)
(*                                                                         *)
(* The argument: the wrapped difference of two times is the true one as    *)
(* long as no process is left alone for a whole turn of the clock, and     *)
(* none is because no round leaves one overdue.                            *)
(***************************************************************************)
EXTENDS NetTimers, TLAPS

\* How long ago t ran at the time that the round read.
age(t) == since[t] - passed

(***************************************************************************)
(* What the code's times say of the true ones.                             *)
(***************************************************************************)
ClockInv ==
  /\ local_time = (localtime + passed) % Wrap
  /\ \A t \in Timers : age(t) >= 0 /\ Minus(localtime, timer[t]) = age(t)

\* No round takes, or is late by, more than Slack.
PaceInv ==
  /\ pc = "asleep" => slept <= Delay + Slack /\ passed <= slept + Slack
  /\ pc /= "asleep" => slept <= Slack /\ passed = slept

\* A process is overdue only until the round under way comes to it.
AgeInv ==
  \A t \in Timers :
    /\ Checked(t) => age(t) < Interval[t]
    /\ age(t) < Interval[t] + Delay + 2 * Slack

\* Without a wrap local_time is where since counts to.
WrapInv == \A t \in Timers : ~wrapped[t] => local_time = timer[t] + since[t]

IInv == TypeOK /\ ClockInv /\ PaceInv /\ AgeInv /\ WrapInv

-----------------------------------------------------------------------------
(***************************************************************************)
(* Arithmetic of the wrapped clock                                         *)
(***************************************************************************)
LEMMA Sizes ==
  /\ Wrap \in Nat \ {0} /\ Delay \in Nat \ {0} /\ Slack \in Nat
  /\ \A t \in Timers : /\ Interval[t] \in Nat \ {0}
                       /\ Interval[t] + Delay + 2 * Slack < Wrap
  BY TimersAssumption DEF Timers, Interval

\* At most one turn is taken off.
LEMMA ModOnce ==
  ASSUME NEW x \in 0 .. 2 * Wrap - 1
  PROVE  x % Wrap = IF x < Wrap THEN x ELSE x - Wrap
<1>1. Wrap \in Nat \ {0}
  BY Sizes
<1>2. CASE x < Wrap
  BY <1>1, <1>2, Z3
<1>3. CASE ~ (x < Wrap)
  BY <1>1, <1>3, Z3
<1> QED BY <1>2, <1>3

LEMMA MinusOnce ==
  ASSUME NEW a \in 0 .. Wrap - 1, NEW b \in 0 .. Wrap - 1
  PROVE  Minus(a, b) = IF a >= b THEN a - b ELSE a - b + Wrap
<1> DEFINE x == a + Wrap - b
<1>1. x \in 0 .. 2 * Wrap - 1
  BY Sizes
<1>2. Minus(a, b) = x % Wrap
  BY DEF Minus
<1>3. x = a + Wrap - b
  OBVIOUS
<1> HIDE DEF x
<1>4. x % Wrap = IF x < Wrap THEN x ELSE x - Wrap
  BY <1>1, ModOnce
<1> QED BY <1>2, <1>3, <1>4, Sizes

-----------------------------------------------------------------------------
LEMMA InitIInv == Init => IInv
<1> SUFFICES ASSUME Init
             PROVE  IInv
  OBVIOUS
<1> USE Sizes
<1>1. TypeOK
  BY DEF Init, TypeOK, Timers
<1>2. ClockInv
  <2>1. Minus(0, 0) = 0
    BY MinusOnce
  <2>2. (0 + 0) % Wrap = 0
    BY ModOnce
  <2> QED BY <2>1, <2>2 DEF Init, ClockInv, age
<1>3. PaceInv /\ AgeInv /\ WrapInv
  BY DEF Init, PaceInv, AgeInv, WrapInv, age
<1> QED BY <1>1, <1>2, <1>3 DEF IInv

\* local_time, as the time that was read and the time since.
LEMMA LocalTime ==
  ASSUME TypeOK, ClockInv
  PROVE  local_time = IF localtime + passed < Wrap THEN localtime + passed
                      ELSE localtime + passed - Wrap
<1> DEFINE x == localtime + passed
<1>1. localtime \in 0 .. Wrap - 1 /\ passed \in 0 .. Delay + 2 * Slack
      /\ local_time \in 0 .. Wrap - 1 /\ Wrap \in Nat
      /\ Delay + 2 * Slack < Wrap
  BY TimersAssumption DEF TypeOK
<1>2. x \in 0 .. 2 * Wrap - 1
  BY <1>1, Sizes
<1>3. x = localtime + passed
  OBVIOUS
<1>4. local_time = x % Wrap
  BY DEF ClockInv
<1> HIDE DEF x
<1>5. local_time = IF x < Wrap THEN x ELSE x - Wrap
  BY <1>2, <1>4, ModOnce
<1> QED BY <1>1, <1>2, <1>3, <1>5

LEMMA TickStep ==
  ASSUME IInv, Tick
  PROVE  IInv'
<1> USE Sizes
<1>1. TypeOK /\ ClockInv /\ PaceInv /\ AgeInv /\ WrapInv
  BY DEF IInv
<1>2. /\ local_time' = (local_time + 1) % Wrap
      /\ since' = [t \in Timers |-> since[t] + 1]
      /\ wrapped' = [t \in Timers |-> wrapped[t] \/ local_time' = 0]
      /\ passed' = passed + 1 /\ slept' = slept + 1
      /\ UNCHANGED <<timer, localtime, pc>>
      /\ slept < (IF pc = "asleep" THEN Delay ELSE 0) + Slack
  BY DEF Tick
<1>3. local_time \in 0 .. Wrap - 1 /\ localtime \in 0 .. Wrap - 1
      /\ slept \in Nat /\ passed \in Nat
  BY <1>1 DEF TypeOK
<1>4. PaceInv'
  BY <1>1, <1>2, <1>3 DEF PaceInv
<1>5. passed + 1 \in 0 .. Delay + 2 * Slack
  BY <1>2, <1>3, <1>4 DEF PaceInv
<1>6. Delay + 2 * Slack < Wrap
  BY TimersAssumption
<1>7. local_time' = IF local_time + 1 < Wrap THEN local_time + 1 ELSE 0
  <2>1. local_time + 1 \in 0 .. 2 * Wrap - 1
    BY <1>3
  <2> QED BY <1>2, <1>3, <2>1, ModOnce
<1>8. local_time' = (localtime' + passed') % Wrap
  <2> DEFINE x == localtime + passed
             y == localtime + (passed + 1)
  <2>1. /\ x \in 0 .. 2 * Wrap - 1 /\ y \in 0 .. 2 * Wrap - 1
        /\ y = x + 1
    BY <1>3, <1>5, <1>6
  <2>2. local_time = x % Wrap
    BY <1>1 DEF ClockInv
  <2>3. (localtime' + passed') % Wrap = y % Wrap
    BY <1>2
  <2> HIDE DEF x, y
  <2>4. /\ x % Wrap = IF x < Wrap THEN x ELSE x - Wrap
        /\ y % Wrap = IF y < Wrap THEN y ELSE y - Wrap
    BY <2>1, ModOnce
  <2>5. y % Wrap = local_time'
    BY <1>7, <2>1, <2>2, <2>4
  <2> QED BY <2>3, <2>5
<1>9. \A t \in Timers : age(t)' = age(t)
  BY <1>1, <1>2, <1>3 DEF age, TypeOK
<1>10. ClockInv'
  BY <1>1, <1>2, <1>8, <1>9 DEF ClockInv, Minus
<1>11. AgeInv'
  BY <1>1, <1>2, <1>9 DEF AgeInv, Checked
<1>12. WrapInv'
  <2> SUFFICES ASSUME NEW t \in Timers, ~wrapped'[t]
               PROVE  local_time' = timer'[t] + since'[t]
    BY DEF WrapInv
  <2>1. ~wrapped[t] /\ local_time' /= 0
    BY <1>2
  <2>2. local_time = timer[t] + since[t]
    BY <1>1, <2>1 DEF WrapInv
  <2>3. timer[t] \in Nat /\ since[t] \in Nat
    BY <1>1, <1>3 DEF TypeOK
  <2> QED BY <1>2, <1>3, <1>7, <2>1, <2>2, <2>3
<1>13. TypeOK'
  <2>1. local_time' \in 0 .. Wrap - 1
    BY <1>3, <1>7
  <2>2. slept' \in 0 .. Delay + Slack
    BY <1>2, <1>3
  <2>3. since' \in [Timers -> Nat] /\ wrapped' \in [Timers -> BOOLEAN]
    BY <1>1, <1>2 DEF TypeOK
  <2> QED BY <1>1, <1>2, <1>5, <2>1, <2>2, <2>3 DEF TypeOK
<1> QED BY <1>4, <1>10, <1>11, <1>12, <1>13 DEF IInv

\* A round reads local_time; what it reads is the time that has passed since.
LEMMA RoundStep ==
  ASSUME IInv, Round
  PROVE  IInv'
<1> USE Sizes
<1>1. TypeOK /\ ClockInv /\ PaceInv /\ AgeInv /\ WrapInv
  BY DEF IInv
<1>2. /\ pc = "asleep" /\ pc' = "tcp" /\ localtime' = local_time
      /\ passed' = 0 /\ slept' = 0
      /\ UNCHANGED <<local_time, timer, since, wrapped>>
  BY DEF Round
<1>3. /\ local_time \in 0 .. Wrap - 1 /\ localtime \in 0 .. Wrap - 1
      /\ \A t \in Timers : timer[t] \in 0 .. Wrap - 1 /\ since[t] \in Nat
      /\ passed \in 0 .. Delay + 2 * Slack
  BY <1>1 DEF TypeOK
<1>4. TypeOK'
  BY <1>1, <1>2 DEF TypeOK, Timers
<1>5. local_time' = (localtime' + passed') % Wrap
  <2>1. local_time % Wrap = local_time
    <3>1. local_time \in 0 .. 2 * Wrap - 1
      BY <1>3
    <3> QED BY <1>3, <3>1, ModOnce
  <2>2. local_time + 0 = local_time
    BY <1>3
  <2> QED BY <1>2, <2>1, <2>2
<1>6. ASSUME NEW t \in Timers
      PROVE  /\ age(t)' = age(t) + passed
             /\ age(t) >= 0 /\ age(t) < Interval[t] /\ age(t) \in Int
  BY <1>1, <1>2, <1>3 DEF age, AgeInv, Checked, ClockInv, Timers
<1>7. ASSUME NEW t \in Timers
      PROVE  Minus(localtime', timer'[t]) = age(t)'
  <2>1. Minus(localtime, timer[t]) = age(t)
    BY <1>1 DEF ClockInv
  <2>2. age(t) + passed < Wrap /\ passed < Wrap
    BY <1>3, <1>6
  <2>3. age(t) = IF localtime >= timer[t] THEN localtime - timer[t]
                 ELSE localtime - timer[t] + Wrap
    BY <1>3, <2>1, MinusOnce
  <2>4. Minus(local_time, timer[t]) =
          IF local_time >= timer[t] THEN local_time - timer[t]
          ELSE local_time - timer[t] + Wrap
    BY <1>3, MinusOnce
  <2>5. local_time = IF localtime + passed < Wrap THEN localtime + passed
                     ELSE localtime + passed - Wrap
    BY <1>1, LocalTime
  <2>6. Minus(local_time, timer[t]) = age(t) + passed
    BY <1>3, <1>6, <2>2, <2>3, <2>4, <2>5
  <2> QED BY <1>2, <1>6, <2>6
<1>8. ClockInv'
  BY <1>3, <1>5, <1>6, <1>7 DEF ClockInv
<1>9. PaceInv'
  BY <1>2 DEF PaceInv
<1>10. AgeInv'
  <2>1. \A t \in Timers : ~Checked(t)'
    BY <1>2 DEF Checked, Timers
  <2>2. \A t \in Timers : age(t)' < Interval[t] + Delay + 2 * Slack
    BY <1>3, <1>6
  <2> QED BY <2>1, <2>2 DEF AgeInv
<1>11. WrapInv'
  BY <1>1, <1>2 DEF WrapInv
<1> QED BY <1>4, <1>8, <1>9, <1>10, <1>11 DEF IInv

\* The wrapped difference finds out who is overdue.
LEMMA DueIsTrue ==
  ASSUME IInv, NEW t \in Timers
  PROVE  /\ age(t) >= Interval[t] => Due(t)
         /\ Due(t) => age(t) >= Interval[t] \/ localtime < timer[t]
  BY DEF IInv, ClockInv, Due

\* And the extra test is true only behind a wrap.
LEMMA SmallerIsWrapped ==
  ASSUME IInv, NEW t \in Timers, localtime < timer[t]
  PROVE  wrapped[t]
<1> SUFFICES ASSUME ~wrapped[t]
             PROVE  FALSE
  OBVIOUS
<1> USE Sizes
<1>1. TypeOK /\ ClockInv /\ PaceInv /\ WrapInv
  BY DEF IInv
<1>2. /\ local_time \in 0 .. Wrap - 1 /\ localtime \in 0 .. Wrap - 1
      /\ timer[t] \in 0 .. Wrap - 1 /\ since[t] \in Nat
      /\ passed \in 0 .. Delay + 2 * Slack
  BY <1>1 DEF TypeOK
<1>3. local_time = timer[t] + since[t] /\ since[t] - passed >= 0
  BY <1>1 DEF WrapInv, ClockInv, age
<1>4. local_time = IF localtime + passed < Wrap THEN localtime + passed
                   ELSE localtime + passed - Wrap
  BY <1>1, LocalTime
<1> QED BY <1>2, <1>3, <1>4

LEMMA CheckStep ==
  ASSUME IInv, NEW t \in Timers, Check(t)
  PROVE  IInv'
<1> USE Sizes
<1>1. TypeOK /\ ClockInv /\ PaceInv /\ AgeInv /\ WrapInv
  BY DEF IInv
<1>2. /\ pc = t /\ pc' = After[t]
      /\ slept' = IF t = "link" THEN 0 ELSE slept
      /\ UNCHANGED <<local_time, localtime, passed>>
  BY DEF Check
<1>3. /\ local_time \in 0 .. Wrap - 1 /\ localtime \in 0 .. Wrap - 1
      /\ \A u \in Timers : timer[u] \in 0 .. Wrap - 1 /\ since[u] \in Nat
      /\ passed \in 0 .. Delay + 2 * Slack
  BY <1>1 DEF TypeOK
<1>4. pc' \in Timers \union {"asleep"}
  BY <1>2 DEF After, Timers
<1>5. slept' \in 0 .. Delay + Slack
  BY <1>1, <1>2 DEF TypeOK
<1>6. PaceInv'
  BY <1>1, <1>2, <1>3, <1>5 DEF PaceInv, After, Timers, TypeOK
<1>7. \A u \in Timers : Checked(u)' => u = t \/ Checked(u)
  BY <1>2 DEF Checked, After, Timers
<1>8. CASE Due(t)
  <2>1. /\ timer' = [timer EXCEPT ![t] = localtime]
        /\ since' = [since EXCEPT ![t] = passed]
        /\ wrapped' = [wrapped EXCEPT ![t] = local_time < localtime]
    BY <1>8 DEF Check, Run
  <2>2. TypeOK'
    BY <1>1, <1>2, <1>3, <1>4, <1>5, <2>1 DEF TypeOK
  <2>3. \A u \in Timers : age(u)' = IF u = t THEN 0 ELSE age(u)
    BY <1>1, <1>2, <1>3, <2>1 DEF age, TypeOK
  <2>4. ClockInv'
    <3>1. Minus(localtime, localtime) = 0
      BY <1>3, MinusOnce
    <3>2. \A u \in Timers : timer'[u] = IF u = t THEN localtime ELSE timer[u]
      BY <1>1, <2>1 DEF TypeOK
    <3>3. ASSUME NEW u \in Timers
          PROVE  age(u)' >= 0 /\ Minus(localtime', timer'[u]) = age(u)'
      <4>1. CASE u = t
        BY <1>2, <2>3, <3>1, <3>2, <4>1
      <4>2. CASE u /= t
        BY <1>1, <1>2, <2>3, <3>2, <4>2 DEF ClockInv
      <4> QED BY <4>1, <4>2
    <3> QED BY <1>1, <1>2, <3>3 DEF ClockInv
  <2>5. AgeInv'
    BY <1>1, <1>7, <2>3 DEF AgeInv
  <2>6. WrapInv'
    <3> SUFFICES ASSUME NEW u \in Timers, ~wrapped'[u]
                 PROVE  local_time' = timer'[u] + since'[u]
      BY DEF WrapInv
    <3>1. CASE u = t
      <4>1. ~ (local_time < localtime)
        BY <1>1, <2>1, <3>1 DEF TypeOK
      <4>2. local_time = localtime + passed
        BY <1>1, <1>3, <4>1, LocalTime
      <4>3. timer'[u] = localtime /\ since'[u] = passed
        BY <1>1, <2>1, <3>1 DEF TypeOK
      <4> QED BY <1>2, <4>2, <4>3
    <3>2. CASE u /= t
      BY <1>1, <1>2, <2>1, <3>2 DEF WrapInv, TypeOK
    <3> QED BY <3>1, <3>2
  <2> QED BY <1>6, <2>2, <2>4, <2>5, <2>6 DEF IInv
<1>9. CASE ~Due(t)
  <2>1. UNCHANGED <<timer, since, wrapped>>
    BY <1>9 DEF Check
  <2>2. TypeOK'
    BY <1>1, <1>2, <1>4, <1>5, <2>1 DEF TypeOK
  <2>3. \A u \in Timers : age(u)' = age(u)
    BY <1>2, <2>1 DEF age
  <2>4. ClockInv' /\ WrapInv'
    BY <1>1, <1>2, <2>1, <2>3 DEF ClockInv, WrapInv
  <2>5. age(t) < Interval[t]
    BY <1>3, <1>9, DueIsTrue DEF age
  <2>6. AgeInv'
    BY <1>1, <1>7, <2>3, <2>5 DEF AgeInv
  <2> QED BY <1>6, <2>2, <2>4, <2>6 DEF IInv
<1> QED BY <1>8, <1>9

LEMMA NextIInv ==
  ASSUME IInv, [Next]_vars
  PROVE  IInv'
<1>1. CASE Tick
  BY <1>1, TickStep
<1>2. CASE Poll
  BY <1>2, RoundStep, CheckStep DEF Poll
<1>3. CASE UNCHANGED vars
  BY <1>3 DEF vars, IInv, TypeOK, ClockInv, PaceInv, AgeInv, WrapInv, age,
     Checked
<1> QED BY <1>1, <1>2, <1>3 DEF Next

\* What every reachable state satisfies.
LEMMA Inductive == Spec => []IInv
<1>1. IInv /\ [Next]_vars => IInv'
  BY NextIInv
<1> QED BY InitIInv, <1>1, PTL DEF Spec

-----------------------------------------------------------------------------
(***************************************************************************)
(* Every variable keeps its type: local_time and the timers stay below the *)
(* wrap, and no round takes longer than it may.                            *)
(***************************************************************************)
THEOREM TypeCorrect == Spec => []TypeOK
<1>1. IInv => TypeOK
  BY DEF IInv
<1> QED BY <1>1, Inductive, PTL

(***************************************************************************)
(* lwip_periodic_handle leaves no process overdue, for every width of the  *)
(* clock, all intervals and any delay that is short against its turn.      *)
(***************************************************************************)
THEOREM NoneOverdueAlways == Spec => []NoneOverdue
<1>1. IInv => NoneOverdue
  BY DEF IInv, AgeInv, NoneOverdue, age
<1> QED BY <1>1, Inductive, PTL

(***************************************************************************)
(* A process runs before its interval is over only behind a wrap of        *)
(* local_time.                                                             *)
(***************************************************************************)
THEOREM NotEarlyAlways == Spec => NotEarly
<1>1. IInv /\ [Next]_vars =>
        [\A t \in Timers : timer'[t] /= timer[t] =>
           since[t] - passed >= Interval[t] \/ wrapped[t]]_vars
  <2> SUFFICES ASSUME IInv, Next, NEW t \in Timers, timer'[t] /= timer[t]
               PROVE  since[t] - passed >= Interval[t] \/ wrapped[t]
    OBVIOUS
  <2>1. timer \in [Timers -> 0 .. Wrap - 1]
    BY DEF IInv, TypeOK
  <2>2. PICK u \in Timers : Check(u)
    BY DEF Next, Poll, Tick, Round
  <2>3. u = t /\ Due(t)
    BY <2>1, <2>2 DEF Check, Run
  <2> QED BY <2>3, DueIsTrue, SmallerIsWrapped DEF age
<1> QED BY <1>1, Inductive, PTL DEF Spec, NotEarly
=============================================================================
