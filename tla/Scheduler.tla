------------------------------ MODULE Scheduler ------------------------------
(***************************************************************************)
(* drivers/scheduler.cpp: software timers.  The tick interrupt posts an    *)
(* event for a timer that has timed out, the main loop runs its callback.  *)
(* next_tick_count is kept as the difference to tick_count, `due`; one     *)
(* that has passed never matches again and stays at -1.  The event queue   *)
(* has room for QueueRoom events; when there are as many, a push is        *)
(* refused, or it overruns the queue where no wrap is needed (EventQueue): *)
(* its events being of one size, all pushes of one tick fare alike.  The   *)
(* fields of a slot that is not used, which nobody reads, are cleared.     *)
(***************************************************************************)
EXTENDS Integers, Sequences

CONSTANTS TimerCount,   \* timer_count, 32 in the code
          Periods,      \* periods that are scheduled, in ticks
          QueueRoom,
          Other,        \* an event of another driver
          MaxOther      \* bound: how many of those there are

VARIABLES timers,   \* the slots
          queue,    \* events posted, the one being processed at the head
          main,     \* where the main program is in on_timer_event
          held,     \* timers scheduled and not cancelled by the application
          others,   \* how many other events have been posted
          raced,    \* history: the tick posted an event for a timer that was cancelled
          overrun   \* history: the event queue was overrun

vars == <<timers, queue, main, held, others, raced, overrun>>

Timers == 1 .. TimerCount
timer_t == [used : BOOLEAN, repeatable : BOOLEAN, canceled : BOOLEAN, pending : BOOLEAN,
            irql : BOOLEAN, period : Periods \cup {0}, due : Int]

Free == [used |-> FALSE, repeatable |-> FALSE, canceled |-> FALSE, pending |-> FALSE,
         irql |-> FALSE, period |-> 0, due |-> -1]

Init ==
  /\ timers = [t \in Timers |-> Free]
  /\ queue = <<>> /\ main = "idle" /\ held = {} /\ others = 0
  /\ raced = FALSE /\ overrun = FALSE

-----------------------------------------------------------------------------
\* Slots and queue, as one record, after timer `t` has timed out.  `quits`:
\* the callback of an interrupt-level timer cancels it.
InterruptTimer(s, t, quits) ==
  LET r == s.timers[t] IN
  [s EXCEPT !.timers[t] = IF r.canceled \/ quits THEN Free
                          ELSE IF r.repeatable THEN [r EXCEPT !.due = r.due + r.period]
                          ELSE r]

\* Variant: no retry when the queue is full.
EventTimerOnce(s, t) ==
  IF Len(s.queue) < QueueRoom
  THEN [s EXCEPT !.queue = Append(@, t), !.timers[t].pending = TRUE,
                 !.timers[t].due = IF s.timers[t].repeatable THEN @ + s.timers[t].period ELSE @]
  ELSE s

EventTimer(s, t) ==
  IF Len(s.queue) < QueueRoom
  THEN [s EXCEPT !.queue = Append(@, t), !.timers[t].pending = TRUE,
                 !.timers[t].due = IF s.timers[t].repeatable THEN @ + s.timers[t].period ELSE @]
  ELSE [s EXCEPT !.timers[t].due = @ + 1]

on_timer_timeout(s, t, quits) ==
  IF s.timers[t].irql THEN InterruptTimer(s, t, quits) ELSE EventTimer(s, t)

\* One round of the loop of timer_callback_irql, after tick_count++.
Countdown(due) == IF due < 0 THEN -1 ELSE due - 1

Counted(s, t) == [s EXCEPT !.timers[t].due = Countdown(@)]

\* What the round does with slot `t`, once counted down.
Checked(u, t, quits) ==
  IF ~(u.timers[t].used /\ u.timers[t].due = 0) THEN u
  ELSE IF u.timers[t].pending THEN [u EXCEPT !.timers[t].due = @ + 1]
  ELSE on_timer_timeout(u, t, quits)

\* Variant: a second event is posted for a timer whose first is still waiting.
TimerTicksAgain(s, t, quits) ==
  LET u == Counted(s, t) IN
  IF ~(u.timers[t].used /\ u.timers[t].due = 0) THEN u
  ELSE on_timer_timeout(u, t, quits)

TimerTicks(s, t, quits) == Checked(Counted(s, t), t, quits)

\* The loop of timer_callback_irql.  `quit` are the interrupt-level timers that
\* cancel themselves.
AllTimersTick(quit) ==
  LET after[t \in 0 .. TimerCount] ==
        IF t = 0 THEN [timers |-> timers, queue |-> queue]
        ELSE TimerTicks(after[t - 1], t, t \in quit)
  IN  after[TimerCount]

\* The program has not stopped at an assertion, and its queue is in order.
Running == main # "halted" /\ ~overrun

\* An event is to be posted for the timer; a timer that was cancelled and is no
\* longer pending is not told from the others.
Posts(t) == timers[t].used /\ ~timers[t].pending /\ ~timers[t].irql /\ timers[t].due = 1

\* The tick interrupt, between any two steps of the main program.  Bound: the
\* first that posts for a timer that was cancelled is the last.
Tick ==
  /\ Running /\ ~raced
  /\ \E quit \in SUBSET {t \in held : timers[t].irql /\ timers[t].due = 1} :
       /\ timers' = AllTimersTick(quit).timers
       /\ queue' = AllTimersTick(quit).queue
       /\ held' = held \ quit
  /\ overrun' \in {FALSE, \E t \in Timers : Posts(t) /\ ~timers'[t].pending}
  /\ raced' = \E t \in Timers : Posts(t) /\ timers[t].canceled /\ timers'[t].pending
  /\ UNCHANGED <<main, others>>

\* Another interrupt handler posts an event; one that is refused is lost.
PostOther ==
  /\ Running /\ others < MaxOther
  /\ \/ /\ Len(queue) < QueueRoom
        /\ queue' = Append(queue, Other) /\ others' = others + 1
        /\ UNCHANGED overrun
     \/ /\ Len(queue) = QueueRoom
        /\ overrun' = TRUE
        /\ UNCHANGED <<queue, others>>
  /\ UNCHANGED <<timers, main, held, raced>>

-----------------------------------------------------------------------------
\* The application calls the scheduler from the main program: while it starts,
\* or from the callback of an event.
InApplication == Running /\ main \in {"idle", "callback"}

\* schedule_internal, interrupts off.  The application is taken to stay within
\* the slots (the assertion in line 175).
Schedule(period, repeatable, irql) ==
  /\ InApplication
  /\ repeatable => period > 0
  /\ \E t \in Timers :
       /\ ~timers[t].used
       /\ \A other \in 1 .. t - 1 : timers[other].used
       /\ LET s == [timers |-> [timers EXCEPT ![t] =
                      [used |-> TRUE, repeatable |-> repeatable, canceled |-> FALSE,
                       pending |-> FALSE, irql |-> irql, period |-> period, due |-> period]],
                    queue |-> queue]
              e == IF period = 0 THEN on_timer_timeout(s, t, FALSE) ELSE s
          IN  timers' = e.timers /\ queue' = e.queue
       /\ held' = held \cup {t}
       /\ overrun' \in {FALSE, period = 0 /\ ~irql /\ ~timers'[t].pending}
  /\ UNCHANGED <<main, others, raced>>

\* scheduler_cancel_timer, interrupts off.
Cancel(t) ==
  /\ timers' = [timers EXCEPT ![t] = IF @.pending THEN [@ EXCEPT !.canceled = TRUE]
                                     ELSE Free]
  /\ held' = held \ {t}
  /\ UNCHANGED <<queue, main, others, raced, overrun>>

\* Any of its timers, the one whose callback is running (line 97) included.
ApplicationCancels == InApplication /\ \E t \in held : Cancel(t)

-----------------------------------------------------------------------------
\* The main loop takes the next event.
TakeEvent ==
  /\ main = "idle"
  /\ queue # <<>>
  /\ main' = IF Head(queue) = Other THEN "callback" ELSE "on_timer_event"
  /\ UNCHANGED <<timers, queue, held, others, raced, overrun>>

\* on_timer_event starts with two assertions.
Asserted == timers[Head(queue)].used /\ timers[Head(queue)].pending

AssertionFails ==
  /\ main = "on_timer_event" /\ ~Asserted
  /\ main' = "halted"
  /\ UNCHANGED <<timers, queue, held, others, raced, overrun>>

\* on_timer_event for a timer that was cancelled while the event waited.
DropCanceled ==
  /\ main = "on_timer_event" /\ Asserted
  /\ timers[Head(queue)].canceled
  /\ timers' = [timers EXCEPT ![Head(queue)] = Free]
  /\ queue' = Tail(queue)
  /\ main' = "idle"
  /\ UNCHANGED <<held, others, raced, overrun>>

\* Variant: the callback runs whether the timer was cancelled or not.
RunCallbackAnyway ==
  /\ main = "on_timer_event" /\ Asserted
  /\ main' = "callback"
  /\ UNCHANGED <<timers, queue, held, others, raced, overrun>>

RunCallback ==
  /\ main = "on_timer_event" /\ Asserted
  /\ ~timers[Head(queue)].canceled
  /\ main' = "callback"
  /\ UNCHANGED <<timers, queue, held, others, raced, overrun>>

\* The callback has returned: pending = false.
CallbackReturns ==
  /\ main = "callback"
  /\ Head(queue) # Other
  /\ timers' = [timers EXCEPT ![Head(queue)].pending = FALSE]
  /\ main' = "returned"
  /\ UNCHANGED <<queue, held, others, raced, overrun>>

\* Variant: a timer that its own callback has cancelled is not freed.
EventDoneKeepsSlot ==
  /\ main = "returned"
  /\ queue' = Tail(queue)
  /\ main' = "idle"
  /\ UNCHANGED <<timers, held, others, raced, overrun>>

\* The end of on_timer_event, an interrupt later perhaps: a timer that its own
\* callback has cancelled is freed, whether the tick has posted for it again or not.
EventDone ==
  /\ main = "returned"
  /\ timers' = [timers EXCEPT ![Head(queue)] = IF @.canceled THEN Free ELSE @]
  /\ queue' = Tail(queue)
  /\ main' = "idle"
  /\ UNCHANGED <<held, others, raced, overrun>>

OtherDone ==
  /\ main = "callback"
  /\ Head(queue) = Other
  /\ queue' = Tail(queue)
  /\ main' = "idle"
  /\ UNCHANGED <<timers, held, others, raced, overrun>>

MainStep ==
  /\ Running
  /\ \/ TakeEvent \/ AssertionFails \/ DropCanceled \/ RunCallback
     \/ CallbackReturns \/ EventDone \/ OtherDone

\* An assertion stops the program; what it does with overwritten events is undefined.
Stopped == ~Running /\ UNCHANGED vars

Next ==
  \/ Tick \/ PostOther
  \/ \E period \in Periods, repeatable, irql \in BOOLEAN : Schedule(period, repeatable, irql)
  \/ ApplicationCancels
  \/ MainStep
  \/ Stopped

\* The tick interrupt keeps coming and callbacks return.
Spec == Init /\ [][Next]_vars /\ WF_vars(Tick) /\ WF_vars(MainStep)

-----------------------------------------------------------------------------
TypeOK ==
  /\ timers \in [Timers -> timer_t]
  /\ queue \in Seq(Timers \cup {Other}) /\ Len(queue) <= QueueRoom
  /\ main \in {"idle", "on_timer_event", "callback", "returned", "halted"}
  /\ held \subseteq Timers
  /\ others \in 0 .. MaxOther
  /\ raced \in BOOLEAN /\ overrun \in BOOLEAN

Waiting(t) == \E i \in DOMAIN queue : queue[i] = t /\ (i = 1 => main # "returned")

\* Until the tick comes between the lines 96 and 98 of a callback that cancels
\* its own timer, a timer has at most one event in the queue, and exactly while it
\* is used and pending: no event outlives the slot it was posted for, a fast timer
\* cannot fill the queue (scheduler.cpp:148), and none loses its event.
PostedOnce ==
  raced \/ overrun \/
    /\ \A t \in Timers : Waiting(t) <=> timers[t].used /\ timers[t].pending
    /\ \A i, j \in DOMAIN queue : queue[i] = queue[j] /\ queue[i] # Other =>
         i = j \/ (main = "returned" /\ 1 \in {i, j})

\* What the application holds is what it scheduled: scheduler_cancel_timer
\* (line 225) finds the timer used and not yet cancelled; and the program stops
\* at the assertions of on_timer_event for no other reason than that race.
HeldIsLive ==
  /\ raced \/ overrun \/ \A t \in held : timers[t].used /\ ~timers[t].canceled
  /\ main = "halted" => raced

\* What the assertions in lines 88 and 89 say.
EventFindsItsTimer ==
  main = "on_timer_event" => timers[Head(queue)].used /\ timers[Head(queue)].pending

\* For the properties of MCBoards.
CallbackBegins == main = "on_timer_event" /\ main' = "callback"
CallsBack(t) == main = "callback" /\ Head(queue) = t
Cancelled(t) == timers[t].used /\ t \notin held
Repeats(t) == t \in held /\ timers[t].repeatable /\ ~timers[t].irql
==============================================================================
