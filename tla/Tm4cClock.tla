------------------------------- MODULE Tm4cClock -------------------------------
(***************************************************************************)
(* When the main loop of TestAppTM4C129+88E6352/main.cpp polls and ticks:  *)
(* it compares a clock of 32 bits with the times that it computed, and     *)
(* reads the clock anew for each.                                          *)
(***************************************************************************)
EXTENDS Integers, TLAPS

CONSTANTS Modulus,      \* the clock's, 2^32 ms in the code
          PollPeriod,   \* 100 ms
          TickPeriod,   \* 1000 ms
          MaxPass,      \* a pass through the loop takes no longer
          MaxTime       \* bound: how long the board runs

VARIABLES
  time,               \* since the bridge was started
  next_stp_1s_tick, next_port_poll,
  ticks, polls,       \* calls of the library's tick, and polls, so far
  at,                 \* where the loop is
  spent               \* in this pass

vars == <<time, next_stp_1s_tick, next_port_poll, ticks, polls, at, spent>>

clock_get_time_ms == time % Modulus
Later(t, period) == (t + period) % Modulus

Init ==
  /\ time = 0 /\ spent = 0 /\ at = "receive"
  /\ next_stp_1s_tick = Later(clock_get_time_ms, TickPeriod)
  /\ next_port_poll = Later(clock_get_time_ms, PollPeriod)
  /\ ticks = 0 /\ polls = 0

-----------------------------------------------------------------------------
TimePasses ==
  /\ time < MaxTime /\ spent < MaxPass
  /\ time' = time + 1 /\ spent' = spent + 1
  /\ UNCHANGED <<next_stp_1s_tick, next_port_poll, ticks, polls, at>>

FramesReceived ==
  /\ at = "receive"
  /\ at' = "poll"
  /\ UNCHANGED <<time, next_stp_1s_tick, next_port_poll, ticks, polls, spent>>

\* poll_port_status_and_call_library
CheckPoll ==
  /\ at = "poll"
  /\ at' = "tick"
  /\ IF clock_get_time_ms >= next_port_poll
     THEN polls' = polls + 1 /\ next_port_poll' = Later(next_port_poll, PollPeriod)
     ELSE UNCHANGED <<polls, next_port_poll>>
  /\ UNCHANGED <<time, next_stp_1s_tick, ticks, spent>>

\* Variant: the next tick is due a second after this one.
CheckTickAfterThis ==
  /\ at = "tick"
  /\ at' = "receive" /\ spent' = 0
  /\ IF clock_get_time_ms >= next_stp_1s_tick
     THEN ticks' = ticks + 1 /\ next_stp_1s_tick' = Later(clock_get_time_ms, TickPeriod)
     ELSE UNCHANGED <<ticks, next_stp_1s_tick>>
  /\ UNCHANGED <<time, next_port_poll, polls>>

\* STP_OnOneSecondTick
CheckTick ==
  /\ at = "tick"
  /\ at' = "receive" /\ spent' = 0
  /\ IF clock_get_time_ms >= next_stp_1s_tick
     THEN ticks' = ticks + 1 /\ next_stp_1s_tick' = Later(next_stp_1s_tick, TickPeriod)
     ELSE UNCHANGED <<ticks, next_stp_1s_tick>>
  /\ UNCHANGED <<time, next_port_poll, polls>>

\* The board is switched off.
Off == time = MaxTime /\ UNCHANGED vars

Next == TimePasses \/ FramesReceived \/ CheckPoll \/ CheckTick \/ Off

Spec == Init /\ [][Next]_vars

-----------------------------------------------------------------------------
\* However long the passes take, up to MaxPass, the delays do not add up: the
\* library has been ticked once for each second, the last one perhaps not yet,
\* and so have the links been polled.
InTime == /\ (time \div TickPeriod) - ticks \in {0, 1}
          /\ (time \div PollPeriod) - polls \in {0, 1}

-----------------------------------------------------------------------------
(***************************************************************************)
(* That it keeps its times, whatever the periods.                          *)
(***************************************************************************)
\* The clock does not come round while the board runs (49 days in the code), and
\* a pass through the loop is short against the periods.
Leisurely ==
  /\ Modulus \in Nat /\ MaxTime \in Nat /\ MaxPass \in Nat
  /\ TickPeriod \in Nat \ {0} /\ PollPeriod \in Nat \ {0}
  /\ MaxTime + TickPeriod < Modulus /\ MaxTime + PollPeriod < Modulus
  /\ MaxPass <= TickPeriod /\ 2 * MaxPass <= PollPeriod

\* Each period is due once, and a pass after it was due its turn has come: a tick
\* in the pass that the clock was read in, a poll in the next one at the latest.
OnTime ==
  /\ at \in {"receive", "poll", "tick"}
  /\ time \in 0 .. MaxTime /\ spent \in 0 .. MaxPass /\ ticks \in Nat /\ polls \in Nat
  /\ next_stp_1s_tick = (ticks + 1) * TickPeriod /\ ticks * TickPeriod <= time
  /\ time < next_stp_1s_tick + spent
  /\ next_port_poll = (polls + 1) * PollPeriod /\ polls * PollPeriod <= time
  /\ time < next_port_poll + spent + IF at = "tick" THEN 0 ELSE MaxPass

LEMMA SmallClock ==
  ASSUME NEW m \in Nat, NEW n \in Nat, n < m
  PROVE  n % m = n
  BY SMT

\* A product whose first factor grows by one.
LEMMA OneMore ==
  ASSUME NEW n \in Nat, NEW p \in Nat
  PROVE  (n + 1) * p = n * p + p /\ n * p \in Nat
  BY SMT

\* The periods that have passed at time t, one of which may not have been counted.
LEMMA PeriodsPassed ==
  ASSUME NEW t \in Nat, NEW n \in Nat, NEW p \in Nat \ {0},
         n * p <= t, t < (n + 1) * p + p
  PROVE  (t \div p) - n \in {0, 1}
<1> DEFINE d == t \div p
<1>1. d \in Nat /\ d * p <= t /\ t < (d + 1) * p
  BY SMT
<1> HIDE DEF d
<1>2. ASSUME d < n PROVE FALSE
  <2>1. d + 1 <= n
    BY <1>1, <1>2, SMT
  <2>2. (d + 1) * p <= n * p
    BY <1>1, <2>1, SMT
  <2> QED BY <1>1, <2>2, SMT
<1>3. ASSUME d > n + 1 PROVE FALSE
  <2>1. n + 2 <= d
    BY <1>1, <1>3, SMT
  <2>2. (n + 2) * p <= d * p
    BY <1>1, <2>1, SMT
  <2>3. (n + 2) * p = (n + 1) * p + p
    BY SMT
  <2> QED BY <1>1, <2>2, <2>3, SMT
<1>4. d = n \/ d = n + 1
  BY <1>1, <1>2, <1>3, SMT
<1> QED BY <1>1, <1>4, SMT DEF d

LEMMA OnTimeAtStart ==
  ASSUME Leisurely, Init
  PROVE  OnTime
<1>1. time = 0 /\ clock_get_time_ms = 0
  BY SmallClock, SMT DEF Leisurely, Init, clock_get_time_ms
<1>2. Later(0, TickPeriod) = TickPeriod /\ Later(0, PollPeriod) = PollPeriod
  <2>1. ASSUME NEW p \in {TickPeriod, PollPeriod}
        PROVE  p \in Nat /\ p < Modulus /\ 0 + p = p
    BY <2>1, SMT DEF Leisurely
  <2> QED BY <2>1, SmallClock, SMT DEF Later, Leisurely
<1>3. (0 + 1) * TickPeriod = TickPeriod /\ (0 + 1) * PollPeriod = PollPeriod
  BY SMT DEF Leisurely
<1>4. 0 * TickPeriod = 0 /\ 0 * PollPeriod = 0
  BY SMT DEF Leisurely
<1> QED BY <1>1, <1>2, <1>3, <1>4, SMT DEF Init, OnTime, Leisurely

\* The time that is due next, when `due` has come to pass.
LEMMA NextDue ==
  ASSUME Leisurely, NEW p \in {TickPeriod, PollPeriod}, NEW n \in Nat, NEW due \in Nat,
         due = (n + 1) * p, due <= time, time \in 0 .. MaxTime
  PROVE  /\ Later(due, p) = (n + 1 + 1) * p
         /\ Later(due, p) = due + p
<1>1. p \in Nat /\ MaxTime + p < Modulus /\ Modulus \in Nat /\ MaxTime \in Nat
  BY SMT DEF Leisurely
<1>2. due + p \in Nat /\ due + p < Modulus
  BY <1>1, SMT
<1>3. (n + 1 + 1) * p = due + p
  BY <1>1, SMT
<1> QED BY <1>1, <1>2, <1>3, SmallClock, SMT DEF Later

LEMMA OnTimeKept ==
  ASSUME Leisurely, OnTime, [Next]_vars
  PROVE  OnTime'
<1>1. clock_get_time_ms = time
  BY SmallClock, SMT DEF Leisurely, OnTime, clock_get_time_ms
<1>2. next_stp_1s_tick \in Nat /\ next_port_poll \in Nat
  BY OneMore, SMT DEF Leisurely, OnTime
<1>3. CASE TimePasses
  BY <1>2, <1>3, SMT DEF TimePasses, OnTime, Leisurely
<1>4. CASE FramesReceived
  BY <1>2, <1>4, SMT DEF FramesReceived, OnTime, Leisurely
<1>5. CASE CheckPoll
  <2>1. CASE time >= next_port_poll
    <3>1. next_port_poll' = (polls + 1 + 1) * PollPeriod /\ next_port_poll' = next_port_poll + PollPeriod
      BY <1>1, <1>2, <1>5, <2>1, NextDue, SMT DEF CheckPoll, OnTime
    <3>2. /\ polls' = polls + 1 /\ at' = "tick"
          /\ UNCHANGED <<time, next_stp_1s_tick, ticks, spent>>
      BY <1>1, <2>1, <1>5, SMT DEF CheckPoll
    <3>3. time < next_port_poll' + spent
      BY <1>2, <1>5, <3>1, SMT DEF CheckPoll, OnTime, Leisurely
    <3>4. polls' * PollPeriod <= time
      BY <2>1, <3>2, SMT DEF OnTime
    <3>5. next_port_poll' = (polls' + 1) * PollPeriod /\ polls' \in Nat
      BY <3>1, <3>2, SMT DEF OnTime
    <3> QED BY <3>2, <3>3, <3>4, <3>5, SMT DEF OnTime
  <2>2. CASE time < next_port_poll
    <3>1. UNCHANGED <<polls, next_port_poll, time, next_stp_1s_tick, ticks, spent>> /\ at' = "tick"
      BY <1>1, <1>2, <1>5, <2>2, SMT DEF CheckPoll, OnTime
    <3>2. time < next_port_poll + spent
      BY <1>2, <2>2, SMT DEF OnTime, Leisurely
    <3> QED BY <3>1, <3>2, SMT DEF OnTime
  <2> QED BY <1>2, <2>1, <2>2, SMT DEF OnTime
<1>6. CASE CheckTick
  <2>1. /\ at' = "receive" /\ spent' = 0 /\ UNCHANGED <<time, next_port_poll, polls>>
        /\ at = "tick"
    BY <1>6, SMT DEF CheckTick
  <2>2. time < next_port_poll + 0 + MaxPass
    BY <1>2, <2>1, SMT DEF OnTime, Leisurely
  <2>3. CASE time >= next_stp_1s_tick
    <3>1. next_stp_1s_tick' = (ticks + 1 + 1) * TickPeriod
          /\ next_stp_1s_tick' = next_stp_1s_tick + TickPeriod
      BY <1>1, <1>2, <1>6, <2>3, NextDue, SMT DEF CheckTick, OnTime
    <3>2. ticks' = ticks + 1
      BY <1>1, <2>3, <1>6, SMT DEF CheckTick
    <3>3. time < next_stp_1s_tick' + 0
      BY <1>2, <3>1, SMT DEF OnTime, Leisurely
    <3>4. ticks' * TickPeriod <= time
      BY <2>3, <3>2, SMT DEF OnTime
    <3>5. next_stp_1s_tick' = (ticks' + 1) * TickPeriod /\ ticks' \in Nat
      BY <3>1, <3>2, SMT DEF OnTime
    <3>6. /\ at' \in {"receive", "poll", "tick"} /\ time' \in 0 .. MaxTime /\ spent' \in 0 .. MaxPass
          /\ polls' \in Nat
      BY <2>1, SMT DEF OnTime, Leisurely
    <3>7. next_port_poll' = (polls' + 1) * PollPeriod /\ polls' * PollPeriod <= time'
      BY <2>1, SMT DEF OnTime
    <3>8. time' < next_port_poll' + spent' + IF at' = "tick" THEN 0 ELSE MaxPass
      BY <2>1, <2>2, SMT
    <3>9. time' < next_stp_1s_tick' + spent' /\ ticks' * TickPeriod <= time'
      BY <2>1, <3>3, <3>4, SMT
    <3> QED BY <3>5, <3>6, <3>7, <3>8, <3>9, Zenon DEF OnTime
  <2>4. CASE time < next_stp_1s_tick
    <3>1. UNCHANGED <<ticks, next_stp_1s_tick>>
      BY <1>1, <1>2, <1>6, <2>4, SMT DEF CheckTick, OnTime
    <3> QED BY <1>2, <2>1, <2>2, <2>4, <3>1, SMT DEF OnTime, Leisurely
  <2> QED BY <1>2, <2>3, <2>4, SMT DEF OnTime
<1>7. CASE UNCHANGED vars
  BY <1>7, SMT DEF vars, OnTime
<1> QED BY <1>3, <1>4, <1>5, <1>6, <1>7, Zenon DEF Next, Off

LEMMA OnTimeIsInTime ==
  ASSUME Leisurely, OnTime
  PROVE  InTime
<1>1. time < (ticks + 1) * TickPeriod + TickPeriod
  BY OneMore, SMT DEF OnTime, Leisurely
<1>2. time < (polls + 1) * PollPeriod + PollPeriod
  BY OneMore, SMT DEF OnTime, Leisurely
<1> QED BY <1>1, <1>2, PeriodsPassed, SMT DEF OnTime, Leisurely, InTime

\* In time at any moment, for every clock and all periods.
THEOREM InTimeHolds ==
  ASSUME Leisurely
  PROVE  Spec => []InTime
<1>1. Init => OnTime
  BY OnTimeAtStart
<1>2. OnTime /\ [Next]_vars => OnTime'
  BY OnTimeKept
<1>3. OnTime => InTime
  BY OnTimeIsInTime
<1> QED BY <1>1, <1>2, <1>3, PTL DEF Spec

=============================================================================
