-------------------------- MODULE Scheduler_proofs --------------------------
(***************************************************************************)
(* Theorems about the scheduler, for any number of slots, any periods and  *)
(* a queue of any length; and that counting up from 0 reaches every number *)
(* with what each step keeps.                                              *)
(***************************************************************************)
EXTENDS Scheduler, TLAPS, WellFoundedInduction

-----------------------------------------------------------------------------
(***************************************************************************)
(* Induction.  The theorems of the library take a property as a parameter; *)
(* for a set of numbers the same follows from its least member.            *)
(***************************************************************************)
LEMMA Least ==
  ASSUME NEW S, S \subseteq Nat, S # {}
  PROVE  \E n \in S : \A m \in S : n <= m
<1> DEFINE R == {ss \in Nat \X Nat : ss[1] < ss[2]}
<1>1. IsWellFoundedOn(R, Nat)
  BY NatLessThanWellFounded, Zenon DEF OpToRel
<1>2. PICK x \in S : \A y \in S : ~(<<y, x>> \in R)
  BY <1>1, WFMin, Zenon
<1>3. ASSUME NEW y \in S
      PROVE  x <= y
  <2>1. x \in Nat /\ y \in Nat
    OBVIOUS
  <2>2. ~(x > y)
    <3>1. <<y, x>> \in Nat \X Nat /\ <<y, x>>[1] = y /\ <<y, x>>[2] = x
      BY <2>1
    <3>2. ~(y < x)
      BY <1>2, <3>1, Zenon
    <3> QED BY <3>2, <2>1, SMT
  <2> QED BY <2>1, <2>2, SMT
<1> QED BY <1>3

LEMMA InductionNat ==
  ASSUME NEW S, 0 \in S, \A n \in Nat : n \in S => n + 1 \in S
  PROVE  Nat \subseteq S
<1> DEFINE T == Nat \ S
<1>1. SUFFICES ASSUME T # {} PROVE FALSE
  BY Zenon
<1>2. PICK n \in T : \A m \in T : n <= m
  BY <1>1, Least, Zenon
<1>3. n # 0 
  OBVIOUS
<1>4. n - 1 \in Nat /\ n - 1 \notin T
  BY <1>2, <1>3, SMT
<1>5. n - 1 \in S
  BY <1>4
<1> QED BY <1>5, <1>4, SMT


-----------------------------------------------------------------------------
(***************************************************************************)
(* The scheduler.  Between any two rounds of the loop of the tick, with    *)
(* the slots tm, the queue q, the main program at m and the timers h held  *)
(* by the application: an event waits for a timer that is used exactly     *)
(* while it is pending; what is used and not cancelled is held.  It is so  *)
(* until the tick has posted for a timer that its own callback cancelled;  *)
(* from then on only the types remain.                                     *)
(***************************************************************************)
Waits(t, q, m) == \E i \in DOMAIN q : q[i] = t /\ (i = 1 => m # "returned")

Slot(s, t, q, h, m) ==
  /\ t \in h <=> s.used /\ ~s.canceled
  /\ Waits(t, q, m) => s.used /\ ~s.irql
  /\ s.used => (s.pending <=> Waits(t, q, m))
  /\ m \in {"callback", "returned"} /\ Head(q) = t => s.used /\ ~s.irql

Distinct(q, m) ==
  \A i, j \in DOMAIN q : q[i] = q[j] /\ q[i] # Other =>
    i = j \/ (m = "returned" /\ 1 \in {i, j})

\* Where the main program may be, with this queue.
Sensible(q, m) ==
  /\ m \in {"idle", "on_timer_event", "callback", "returned", "halted"}
  /\ m # "idle" => q # << >>
  /\ m \in {"on_timer_event", "returned"} => Head(q) # Other

Typed(tm, q, h, m) ==
  /\ tm \in [Timers -> timer_t]
  /\ q \in Seq(Timers \cup {Other}) /\ Len(q) <= QueueRoom
  /\ h \subseteq Timers
  /\ Sensible(q, m)

Schedules(tm, q, h, m) ==
  /\ tm \in [Timers -> timer_t]
  /\ q \in Seq(Timers \cup {Other}) /\ Len(q) <= QueueRoom
  /\ h \subseteq Timers
  /\ Sensible(q, m) /\ Distinct(q, m)
  /\ \A t \in Timers : Slot(tm[t], t, q, h, m)

\* No event waits for the timer that the callback which has returned cancelled.
Unraced(tm, q, m) ==
  m = "returned" /\ tm[Head(q)].canceled => ~tm[Head(q)].pending

\* How the queue is read by Waits and Distinct.
LEMMA QueueFacts ==
  ASSUME NEW S, NEW q \in Seq(S)
  PROVE  /\ Len(q) \in Nat /\ DOMAIN q = 1 .. Len(q)
         /\ q # << >> => /\ Len(q) > 0 /\ Head(q) = q[1] /\ q[1] \in S
                         /\ Tail(q) \in Seq(S) /\ Len(Tail(q)) = Len(q) - 1
                         /\ \A i \in 1 .. Len(q) - 1 : Tail(q)[i] = q[i + 1]
BY SMT

LEMMA AppendFacts ==
  ASSUME NEW S, NEW q \in Seq(S), NEW e \in S
  PROVE  /\ Append(q, e) \in Seq(S) /\ Len(Append(q, e)) = Len(q) + 1
         /\ DOMAIN Append(q, e) = 1 .. Len(q) + 1
         /\ \A i \in 1 .. Len(q) : Append(q, e)[i] = q[i]
         /\ Append(q, e)[Len(q) + 1] = e
         /\ q # << >> => Head(Append(q, e)) = Head(q)
         /\ Append(q, e) # << >>
BY SMT

\* An event that is posted waits; the others wait as before.
LEMMA AppendWaits ==
  ASSUME NEW S, NEW q \in Seq(S), NEW e \in S, NEW m, Sensible(q, m)
  PROVE  /\ \A u : Waits(u, Append(q, e), m) <=> Waits(u, q, m) \/ u = e
         /\ Sensible(Append(q, e), m)
         /\ Distinct(q, m) /\ (e = Other \/ ~Waits(e, q, m)) => Distinct(Append(q, e), m)
<1>1. /\ Len(q) \in Nat /\ DOMAIN q = 1 .. Len(q)
      /\ q # << >> => Len(q) > 0
  BY QueueFacts
<1>2. /\ DOMAIN Append(q, e) = 1 .. Len(q) + 1
      /\ \A i \in 1 .. Len(q) : Append(q, e)[i] = q[i]
      /\ Append(q, e)[Len(q) + 1] = e
      /\ q # << >> => Head(Append(q, e)) = Head(q)
      /\ Append(q, e) # << >>
  BY AppendFacts
<1> DEFINE a == Append(q, e)
<1>3. m = "returned" => Len(q) > 0
  BY <1>1 DEF Sensible
<1> HIDE DEF a
<1>4. ASSUME NEW u PROVE Waits(u, a, m) <=> Waits(u, q, m) \/ u = e
  <2>1. ASSUME Waits(u, a, m) PROVE Waits(u, q, m) \/ u = e
    <3>1. PICK i \in 1 .. Len(q) + 1 : a[i] = u /\ (i = 1 => m # "returned")
      BY <1>2, <2>1, Zenon DEF Waits, a
    <3>2. CASE i \in 1 .. Len(q)
      BY <1>1, <1>2, <3>1, <3>2, Zenon DEF Waits, a
    <3>3. CASE i \notin 1 .. Len(q)
      <4>1. i = Len(q) + 1
        BY <1>1, <3>3, SMT
      <4> QED BY <1>2, <3>1, <4>1, Zenon DEF a
    <3> QED BY <3>2, <3>3
  <2>2. ASSUME Waits(u, q, m) PROVE Waits(u, a, m)
    <3>1. PICK i \in 1 .. Len(q) : q[i] = u /\ (i = 1 => m # "returned")
      BY <1>1, <2>2, Zenon DEF Waits
    <3>2. i \in 1 .. Len(q) + 1
      BY <1>1, SMT
    <3> QED BY <1>2, <3>1, <3>2, Zenon DEF Waits, a
  <2>3. ASSUME u = e PROVE Waits(u, a, m)
    <3>1. Len(q) + 1 \in 1 .. Len(q) + 1 /\ (Len(q) + 1 = 1 => m # "returned")
      BY <1>1, <1>3, SMT
    <3> QED BY <1>2, <2>3, <3>1, Zenon DEF Waits, a
  <2> QED BY <2>1, <2>2, <2>3
<1>5. Sensible(a, m)
  BY <1>2, Zenon DEF Sensible, a
<1>6. ASSUME Distinct(q, m), e = Other \/ ~Waits(e, q, m) PROVE Distinct(a, m)
  <2>1. ASSUME NEW i \in 1 .. Len(q) + 1, NEW j \in 1 .. Len(q) + 1, a[i] = a[j], a[i] # Other
        PROVE  i = j \/ (m = "returned" /\ 1 \in {i, j})
    <3>1. ASSUME NEW k \in 1 .. Len(q), a[k] = e, e # Other PROVE k = 1 /\ m = "returned"
      BY <1>1, <1>2, <1>6, <3>1, Zenon DEF Waits, a
    <3>2. CASE i \in 1 .. Len(q) /\ j \in 1 .. Len(q)
      <4>1. a[i] = q[i] /\ a[j] = q[j]
        BY <1>2, <3>2, Zenon DEF a
      <4> QED BY <1>1, <1>6, <2>1, <3>2, <4>1, Zenon DEF Distinct
    <3>3. CASE i \notin 1 .. Len(q) /\ j \in 1 .. Len(q)
      <4>1. i = Len(q) + 1
        BY <1>1, <3>3, SMT
      <4> QED BY <1>2, <2>1, <3>1, <3>3, <4>1, Zenon DEF a
    <3>4. CASE i \in 1 .. Len(q) /\ j \notin 1 .. Len(q)
      <4>1. j = Len(q) + 1
        BY <1>1, <3>4, SMT
      <4> QED BY <1>2, <2>1, <3>1, <3>4, <4>1, Zenon DEF a
    <3>5. CASE i \notin 1 .. Len(q) /\ j \notin 1 .. Len(q)
      BY <1>1, <3>5, SMT
    <3> QED BY <3>2, <3>3, <3>4, <3>5, Zenon
  <2> QED BY <1>2, <2>1, Zenon DEF Distinct, a
<1> QED BY <1>4, <1>5, <1>6, Zenon DEF a

\* The event at the head is taken from the queue when it has been processed.
LEMMA TailWaits ==
  ASSUME NEW S, NEW q \in Seq(S), q # << >>, NEW m, Distinct(q, m)
  PROVE  /\ m = "returned" => \A u : Waits(u, Tail(q), "idle") <=> Waits(u, q, m)
         /\ m # "returned" => \A u : u # Other =>
              (Waits(u, Tail(q), "idle") <=> Waits(u, q, m) /\ u # Head(q))
         /\ Sensible(Tail(q), "idle") /\ Distinct(Tail(q), "idle")
<1>1. /\ Len(q) \in Nat /\ DOMAIN q = 1 .. Len(q)
      /\ Len(q) > 0 /\ Head(q) = q[1]
      /\ Tail(q) \in Seq(S) /\ Len(Tail(q)) = Len(q) - 1
      /\ \A i \in 1 .. Len(q) - 1 : Tail(q)[i] = q[i + 1]
  BY QueueFacts
<1>2. DOMAIN Tail(q) = 1 .. Len(q) - 1
  BY <1>1, QueueFacts
<1> DEFINE r == Tail(q)
<1> HIDE DEF r
<1>3. "idle" # "returned"
  OBVIOUS
<1>4. ASSUME NEW u
      PROVE  Waits(u, r, "idle") <=> \E i \in 2 .. Len(q) : q[i] = u
  <2>1. Waits(u, r, "idle") <=> \E i \in 1 .. Len(q) - 1 : q[i + 1] = u
    BY <1>1, <1>2, <1>3, Zenon DEF Waits, r
  <2>2. ASSUME NEW i \in 1 .. Len(q) - 1 PROVE i + 1 \in 2 .. Len(q)
    BY <1>1, SMT
  <2>3. ASSUME NEW i \in 2 .. Len(q) PROVE i - 1 \in 1 .. Len(q) - 1 /\ (i - 1) + 1 = i
    BY <1>1, SMT
  <2> QED BY <2>1, <2>2, <2>3, Zenon
<1>5. \A i \in 1 .. Len(q) : i = 1 \/ i \in 2 .. Len(q)
  BY <1>1, SMT
<1>6. \A i \in 2 .. Len(q) : i # 1 /\ i \in 1 .. Len(q)
  BY <1>1, SMT
<1>7. ASSUME m = "returned", NEW u PROVE Waits(u, r, "idle") <=> Waits(u, q, m)
  BY <1>1, <1>4, <1>5, <1>6, <1>7, Zenon DEF Waits
<1>8. ASSUME m # "returned", NEW u, u # Other
      PROVE  Waits(u, r, "idle") <=> Waits(u, q, m) /\ u # Head(q)
  <2>1. ASSUME NEW i \in 2 .. Len(q), q[i] = u PROVE Waits(u, q, m) /\ u # Head(q)
    <3>1. 1 \in 1 .. Len(q)
      BY <1>1, SMT
    <3> QED BY <1>1, <1>6, <1>8, <2>1, <3>1, Zenon DEF Waits, Distinct
  <2>2. ASSUME Waits(u, q, m), u # Head(q) PROVE \E i \in 2 .. Len(q) : q[i] = u
    BY <1>1, <1>5, <2>2, Zenon DEF Waits
  <2> QED BY <1>4, <2>1, <2>2, Zenon
<1>9. Distinct(r, "idle")
  <2>1. ASSUME NEW i \in 1 .. Len(q) - 1, NEW j \in 1 .. Len(q) - 1, r[i] = r[j], r[i] # Other
        PROVE  i = j
    <3>1. i + 1 \in 1 .. Len(q) /\ j + 1 \in 1 .. Len(q) /\ i + 1 # 1 /\ j + 1 # 1
          /\ (i + 1 = j + 1 => i = j)
      BY <1>1, SMT
    <3>2. q[i + 1] = q[j + 1] /\ q[i + 1] # Other
      BY <1>1, <2>1, Zenon DEF r
    <3> QED BY <1>1, <3>1, <3>2, Zenon DEF Distinct
  <2> QED BY <1>2, <2>1, Zenon DEF Distinct, r
<1>10. Sensible(r, "idle")
  BY DEF Sensible
<1> QED BY <1>7, <1>8, <1>9, <1>10, Zenon DEF r

\* The sizes that a theorem about the scheduler is for.
Slotted ==
  /\ TimerCount \in Nat /\ Periods \subseteq Nat /\ QueueRoom \in Nat /\ MaxOther \in Nat
  /\ Other \notin Timers

\* The fields of a slot that matter, after it was given another due time.
Alike(s, r) ==
  /\ s.irql = r.irql /\ s.used = r.used /\ s.canceled = r.canceled /\ s.pending = r.pending

\* What timing out does to a slot r and the queue.
TimesOut(s, r, q1, q, t, quits) ==
  \/ /\ r.irql /\ q1 = q
     /\ IF r.canceled \/ quits THEN s = Free ELSE Alike(s, r)
  \/ /\ ~r.irql /\ Len(q) < QueueRoom /\ q1 = Append(q, t)
     /\ s.irql = r.irql /\ s.used = r.used /\ s.canceled = r.canceled /\ s.pending = TRUE
  \/ ~r.irql /\ q1 = q /\ Alike(s, r)

LEMMA SlotFacts ==
  ASSUME Slotted, NEW r \in timer_t
  PROVE  /\ r.used \in BOOLEAN /\ r.canceled \in BOOLEAN /\ r.pending \in BOOLEAN /\ r.irql \in BOOLEAN
         /\ r.repeatable \in BOOLEAN /\ r.period \in Int /\ r.due \in Int
         /\ \A d \in Int : [r EXCEPT !.due = d] \in timer_t /\ Alike([r EXCEPT !.due = d], r)
                           /\ [r EXCEPT !.due = d].due = d
         /\ \A d \in Int : /\ [r EXCEPT !.pending = TRUE, !.due = d] \in timer_t
                          /\ [r EXCEPT !.pending = TRUE, !.due = d].irql = r.irql
                          /\ [r EXCEPT !.pending = TRUE, !.due = d].used = r.used
                          /\ [r EXCEPT !.pending = TRUE, !.due = d].canceled = r.canceled
                          /\ [r EXCEPT !.pending = TRUE, !.due = d].pending = TRUE
         /\ Free \in timer_t /\ ~Free.used /\ ~Free.canceled /\ ~Free.pending
<1>1. Periods \cup {0} \subseteq Int
  BY DEF Slotted
<1>2. /\ r.used \in BOOLEAN /\ r.canceled \in BOOLEAN /\ r.pending \in BOOLEAN /\ r.irql \in BOOLEAN
      /\ r.repeatable \in BOOLEAN /\ r.period \in Int /\ r.due \in Int
  BY <1>1 DEF timer_t
<1>3. ASSUME NEW d \in Int
      PROVE  /\ [r EXCEPT !.due = d] \in timer_t /\ Alike([r EXCEPT !.due = d], r)
             /\ [r EXCEPT !.due = d].due = d
  BY DEF timer_t, Alike
<1>4. ASSUME NEW d \in Int
      PROVE  /\ [r EXCEPT !.pending = TRUE, !.due = d] \in timer_t
             /\ [r EXCEPT !.pending = TRUE, !.due = d].irql = r.irql
             /\ [r EXCEPT !.pending = TRUE, !.due = d].used = r.used
             /\ [r EXCEPT !.pending = TRUE, !.due = d].canceled = r.canceled
             /\ [r EXCEPT !.pending = TRUE, !.due = d].pending = TRUE
  BY DEF timer_t
<1>5. Free \in timer_t /\ ~Free.used /\ ~Free.canceled /\ ~Free.pending
  BY DEF timer_t, Free
<1> QED BY <1>2, <1>3, <1>4, <1>5, Zenon

LEMMA PairFacts ==
  ASSUME NEW e, NEW tm, NEW q, e = [timers |-> tm, queue |-> q]
  PROVE  e.timers = tm /\ e.queue = q /\ e = [timers |-> e.timers, queue |-> e.queue]
OBVIOUS

\* on_timer_timeout on a slot.
IsTimeout(e, tm, q, t, quits) ==
  e = on_timer_timeout([timers |-> tm, queue |-> q], t, quits)

\* The slot t is written, as timing out writes it.
Rewrites(e, tm, q, t, quits) ==
  \E s \in timer_t : /\ e = [timers |-> e.timers, queue |-> e.queue]
                            /\ e.timers = [tm EXCEPT ![t] = s]
                            /\ TimesOut(s, tm[t], e.queue, q, t, quits)

LEMMA TimeoutFacts ==
  ASSUME Slotted, NEW tm \in [Timers -> timer_t], NEW q, NEW t \in Timers,
         NEW quits \in BOOLEAN, NEW e, IsTimeout(e, tm, q, t, quits)
  PROVE  Rewrites(e, tm, q, t, quits)
<1> SUFFICES \E s \in timer_t : /\ e = [timers |-> e.timers, queue |-> e.queue]
                                       /\ e.timers = [tm EXCEPT ![t] = s]
                                       /\ TimesOut(s, tm[t], e.queue, q, t, quits)
  BY Zenon DEF Rewrites
<1> DEFINE r == tm[t]
           a == [timers |-> tm, queue |-> q]
<1>0. e = on_timer_timeout(a, t, quits)
  BY Zenon DEF IsTimeout
<1>1. r \in timer_t
  OBVIOUS
<1>2. /\ r.used \in BOOLEAN /\ r.canceled \in BOOLEAN /\ r.pending \in BOOLEAN /\ r.irql \in BOOLEAN
      /\ r.repeatable \in BOOLEAN /\ r.period \in Int /\ r.due \in Int
  BY <1>1, SlotFacts, Zenon
<1>3. /\ \A d \in Int : [r EXCEPT !.due = d] \in timer_t /\ Alike([r EXCEPT !.due = d], r)
      /\ \A d \in Int : /\ [r EXCEPT !.pending = TRUE, !.due = d] \in timer_t
                       /\ [r EXCEPT !.pending = TRUE, !.due = d].irql = r.irql
                       /\ [r EXCEPT !.pending = TRUE, !.due = d].used = r.used
                       /\ [r EXCEPT !.pending = TRUE, !.due = d].canceled = r.canceled
                       /\ [r EXCEPT !.pending = TRUE, !.due = d].pending = TRUE
      /\ Free \in timer_t
  BY <1>1, SlotFacts, Zenon
<1>4. /\ a.timers = tm /\ a.queue = q /\ a = [timers |-> [tm EXCEPT ![t] = r], queue |-> q]
      /\ \A b : [a EXCEPT !.queue = b] = [timers |-> [tm EXCEPT ![t] = r], queue |-> b]
  OBVIOUS
<1> HIDE DEF r, a
<1>5. r.due + r.period \in Int /\ r.due + 1 \in Int
  BY <1>2, SMT
<1>6. a.timers[t] = r
  BY <1>4, Zenon DEF r
<1>7. SUFFICES \E s \in timer_t :
                 /\ e = [timers |-> [tm EXCEPT ![t] = s], queue |-> e.queue]
                 /\ TimesOut(s, r, e.queue, q, t, quits)
  <2>1. ASSUME NEW s, e = [timers |-> [tm EXCEPT ![t] = s], queue |-> e.queue]
        PROVE  e = [timers |-> e.timers, queue |-> e.queue] /\ e.timers = [tm EXCEPT ![t] = s]
    BY <2>1, PairFacts, Zenon
  <2> QED BY <2>1, Zenon DEF r
<1>8. CASE r.irql
  <2> DEFINE d == r.due + r.period
             s == IF r.canceled \/ quits THEN Free
                  ELSE IF r.repeatable THEN [r EXCEPT !.due = d] ELSE r
  <2>1. e = InterruptTimer(a, t, quits)
    BY <1>0, <1>6, <1>8, Zenon DEF on_timer_timeout
  <2>2. InterruptTimer(a, t, quits) = [timers |-> [tm EXCEPT ![t] = s], queue |-> q]
    <3>1. ASSUME NEW v
          PROVE  [a EXCEPT !.timers[t] = v] = [timers |-> [tm EXCEPT ![t] = v], queue |-> q]
      BY DEF a
    <3>2. InterruptTimer(a, t, quits) =
            [a EXCEPT !.timers[t] =
               IF a.timers[t].canceled \/ quits THEN Free
               ELSE IF a.timers[t].repeatable
               THEN [a.timers[t] EXCEPT !.due = a.timers[t].due + a.timers[t].period]
               ELSE a.timers[t]]
      BY Zenon DEF InterruptTimer
    <3>3. s = IF a.timers[t].canceled \/ quits THEN Free
              ELSE IF a.timers[t].repeatable
              THEN [a.timers[t] EXCEPT !.due = a.timers[t].due + a.timers[t].period]
              ELSE a.timers[t]
      BY <1>6, Zenon
    <3>4. InterruptTimer(a, t, quits) = [a EXCEPT !.timers[t] = s]
      BY <3>2, <3>3, Zenon
    <3> HIDE DEF s
    <3> QED BY <3>1, <3>4, Zenon
  <2>3. d \in Int
    BY <1>5, Zenon
  <2> HIDE DEF d
  <2>4. s \in timer_t /\ IF r.canceled \/ quits THEN s = Free ELSE Alike(s, r)
    BY <1>1, <1>3, <2>3, Zenon DEF Alike
  <2> HIDE DEF s
  <2>5. e = [timers |-> [tm EXCEPT ![t] = s], queue |-> q]
    BY <2>1, <2>2, Zenon
  <2>6. e.queue = q
    BY <2>5, PairFacts, Zenon
  <2> QED BY <1>8, <2>4, <2>5, <2>6, Zenon DEF TimesOut
<1>9. CASE ~r.irql /\ Len(q) < QueueRoom
  <2> DEFINE d == IF r.repeatable THEN r.due + r.period ELSE r.due
             s == [r EXCEPT !.pending = TRUE, !.due = d]
  <2>1. d \in Int
    BY <1>2, <1>5, Zenon
  <2>2. e = EventTimer(a, t)
    BY <1>0, <1>6, <1>9, Zenon DEF on_timer_timeout
  <2>3. EventTimer(a, t) =
          [a EXCEPT !.queue = Append(q, t), !.timers[t].pending = TRUE, !.timers[t].due = d]
    BY <1>4, <1>6, <1>9, Zenon DEF EventTimer
  <2> HIDE DEF d
  <2>5. e = [timers |-> [tm EXCEPT ![t] = s], queue |-> Append(q, t)]
    <3> DEFINE b == Append(q, t)
               r1 == [r EXCEPT !.pending = TRUE]
               a0 == [timers |-> [tm EXCEPT ![t] = r], queue |-> b]
               a1 == [timers |-> [tm EXCEPT ![t] = r1], queue |-> b]
    <3>0. [a EXCEPT !.queue = Append(q, t)] = a0
      BY <1>4, Zenon
    <3> HIDE DEF b
    <3>1. [a0 EXCEPT !.timers[t].pending = TRUE] = a1
      <4>1. ASSUME NEW v
            PROVE  [a0 EXCEPT !.timers[t].pending = v] =
                   [timers |-> [tm EXCEPT ![t] = [r EXCEPT !.pending = v]], queue |-> b]
        OBVIOUS
      <4> QED BY <4>1, Zenon
    <3>2. [a1 EXCEPT !.timers[t].due = d] = [timers |-> [tm EXCEPT ![t] = s], queue |-> b]
      <4>1. s = [r1 EXCEPT !.due = d]
        OBVIOUS
      <4> HIDE DEF r1, s
      <4> QED BY <4>1
    <3>3. b = Append(q, t)
      BY DEF b
    <3> HIDE DEF a0, a1, s
    <3> QED BY <2>2, <2>3, <3>0, <3>1, <3>2, <3>3, Zenon
  <2>6. /\ s \in timer_t /\ s.irql = r.irql /\ s.used = r.used
        /\ s.canceled = r.canceled /\ s.pending = TRUE
    BY <1>3, <2>1, Zenon
  <2> HIDE DEF s
  <2>7. e.queue = Append(q, t)
    BY <2>5, PairFacts, Zenon
  <2> QED BY <1>9, <2>5, <2>6, <2>7, Zenon DEF TimesOut
<1>10. CASE ~r.irql /\ ~(Len(q) < QueueRoom)
  <2> DEFINE d == r.due + 1
             s == [r EXCEPT !.due = d]
  <2>2. e = EventTimer(a, t)
    BY <1>0, <1>6, <1>10, Zenon DEF on_timer_timeout
  <2>3. EventTimer(a, t) = [a EXCEPT !.timers[t].due = d]
    BY <1>4, <1>6, <1>10, Zenon DEF EventTimer
  <2>4. d \in Int
    BY <1>5, Zenon
  <2> HIDE DEF d
  <2>5. e = [timers |-> [tm EXCEPT ![t] = s], queue |-> q]
    <3>1. [a EXCEPT !.timers[t].due = d] = [timers |-> [tm EXCEPT ![t] = [r EXCEPT !.due = d]], queue |-> q]
      BY DEF a, r
    <3> QED BY <2>2, <2>3, <3>1, Zenon
  <2>6. s \in timer_t /\ Alike(s, r)
    BY <1>3, <2>4, Zenon
  <2> HIDE DEF s
  <2>7. e.queue = q
    BY <2>5, PairFacts, Zenon
  <2> QED BY <1>10, <2>5, <2>6, <2>7, Zenon DEF TimesOut
<1> QED BY <1>2, <1>8, <1>9, <1>10, Zenon

\* The slot of t is written, and perhaps its event posted.
LEMMA SlotWritten ==
  ASSUME Slotted, NEW tm, NEW q, NEW h, NEW m, Schedules(tm, q, h, m),
         NEW t \in Timers, NEW s \in timer_t, NEW q1, NEW h1,
         q1 \in Seq(Timers \cup {Other}) /\ Len(q1) <= QueueRoom,
         Sensible(q1, m) /\ Distinct(q1, m), q # << >> => Head(q1) = Head(q),
         h1 \subseteq Timers, \A u : u # t => (u \in h1 <=> u \in h),
         \A u \in Timers : u # t => (Waits(u, q1, m) <=> Waits(u, q, m)),
         Slot(s, t, q1, h1, m)
  PROVE  Schedules([tm EXCEPT ![t] = s], q1, h1, m)
<1> DEFINE tm1 == [tm EXCEPT ![t] = s]
<1>1. /\ tm1 \in [Timers -> timer_t] /\ tm1[t] = s
      /\ \A u \in Timers : u # t => tm1[u] = tm[u]
  <2>1. tm \in [Timers -> timer_t]
    BY Zenon DEF Schedules
  <2> QED BY <2>1
<1> HIDE DEF tm1
<1>2. ASSUME NEW u \in Timers, u # t
      PROVE  Slot(tm[u], u, q1, h1, m)
  <2>1. Slot(tm[u], u, q, h, m) /\ (m \in {"callback", "returned"} => Head(q1) = Head(q))
    <3>1. m \in {"callback", "returned"} => m # "idle"
      OBVIOUS
    <3> QED BY <3>1, Zenon DEF Schedules, Sensible
  <2>2. (u \in h1 <=> u \in h) /\ (Waits(u, q1, m) <=> Waits(u, q, m))
    BY <1>2, Zenon
  <2> QED BY <2>1, <2>2, Zenon DEF Slot
<1>3. \A u \in Timers : Slot(tm1[u], u, q1, h1, m)
  BY <1>1, <1>2, Zenon
<1> QED BY <1>1, <1>3, Zenon DEF Schedules, tm1

LEMMA AlikeKeeps ==
  ASSUME Slotted, NEW tm, NEW q, NEW h, NEW m, Schedules(tm, q, h, m),
         NEW t \in Timers, NEW s \in timer_t, Alike(s, tm[t])
  PROVE  Schedules([tm EXCEPT ![t] = s], q, h, m)
<1>1. /\ q \in Seq(Timers \cup {Other}) /\ Len(q) <= QueueRoom
      /\ Sensible(q, m) /\ Distinct(q, m) /\ h \subseteq Timers
      /\ Slot(tm[t], t, q, h, m)
  BY Zenon DEF Schedules
<1>2. Slot(s, t, q, h, m)
  BY <1>1, Zenon DEF Slot, Alike
<1> QED BY <1>1, <1>2, SlotWritten, Zenon

\* The timers held after t has cancelled itself or not; only one of interrupt level does.
StillHeld(h1, h, t, quits) == h1 = IF quits THEN h \ {t} ELSE h

MayQuit(quits, r, t, h) == quits => r.irql /\ t \in h

\* The slot t, which is used and not pending, times out.
Expires(tm1, q1, h1, tm, q, h, m, t, s, quits) ==
  /\ Schedules(tm, q, h, m)
  /\ t \in Timers /\ tm[t].used /\ ~tm[t].pending
  /\ quits \in BOOLEAN /\ MayQuit(quits, tm[t], t, h)
  /\ s \in timer_t /\ TimesOut(s, tm[t], q1, q, t, quits)
  /\ StillHeld(h1, h, t, quits)
  /\ tm1 = [tm EXCEPT ![t] = s]

LEMMA TimeoutKeeps ==
  ASSUME Slotted, NEW tm1, NEW q1, NEW h1, NEW tm, NEW q, NEW h, NEW m, NEW t, NEW s, NEW quits,
         Expires(tm1, q1, h1, tm, q, h, m, t, s, quits)
  PROVE  Schedules(tm1, q1, h1, m)
<1>0. /\ Schedules(tm, q, h, m)
      /\ t \in Timers /\ tm[t].used /\ ~tm[t].pending
      /\ quits \in BOOLEAN /\ MayQuit(quits, tm[t], t, h)
      /\ s \in timer_t /\ TimesOut(s, tm[t], q1, q, t, quits)
      /\ StillHeld(h1, h, t, quits)
  BY Zenon DEF Expires
<1> SUFFICES Schedules([tm EXCEPT ![t] = s], q1, h1, m)
  BY Zenon DEF Expires
<1> DEFINE r == tm[t]
<1>1. /\ q \in Seq(Timers \cup {Other}) /\ Len(q) <= QueueRoom
      /\ Sensible(q, m) /\ Distinct(q, m) /\ h \subseteq Timers
      /\ Slot(r, t, q, h, m)
  BY <1>0, Zenon DEF Schedules
<1>2. r \in timer_t
  BY <1>0, Zenon DEF Schedules
<1>3. r.used \in BOOLEAN /\ r.canceled \in BOOLEAN /\ r.pending \in BOOLEAN /\ r.irql \in BOOLEAN
  BY <1>2, SlotFacts, Zenon
<1>4. h1 \subseteq Timers /\ \A u : u # t => (u \in h1 <=> u \in h)
  BY <1>0, <1>1, Zenon DEF StillHeld
<1>5. t \in h1 <=> t \in h /\ ~quits
  BY <1>0, Zenon DEF StillHeld
<1>6. ~Waits(t, q, m) /\ r.used /\ ~r.pending /\ (quits => r.irql /\ t \in h)
  BY <1>0, <1>1, Zenon DEF Slot, MayQuit
<1> HIDE DEF r
<1>7. CASE r.irql /\ q1 = q
  <2>0. IF r.canceled \/ quits THEN s = Free ELSE Alike(s, r)
    BY <1>0, <1>7, Zenon DEF TimesOut, r
  <2>1. CASE r.canceled \/ quits
    <3>1. ~s.used
      BY <1>2, <2>0, <2>1, SlotFacts, Zenon
    <3>2. t \notin h1
      BY <1>1, <1>5, <2>1, Zenon DEF Slot
    <3>3. Slot(s, t, q, h1, m)
      BY <1>1, <1>6, <1>7, <3>1, <3>2, Zenon DEF Slot
    <3> QED BY <1>0, <1>1, <1>4, <1>7, <3>3, SlotWritten, Zenon
  <2>2. CASE ~(r.canceled \/ quits)
    <3>1. s.irql = r.irql /\ s.pending = r.pending /\ s.canceled = r.canceled /\ s.used = r.used
      BY <2>0, <2>2, Zenon DEF Alike
    <3>2. Slot(s, t, q, h1, m)
      BY <1>1, <1>5, <1>6, <1>7, <2>2, <3>1, Zenon DEF Slot
    <3> QED BY <1>0, <1>1, <1>4, <1>7, <3>2, SlotWritten, Zenon
  <2> QED BY <2>1, <2>2
<1>8. CASE /\ ~r.irql /\ Len(q) < QueueRoom /\ q1 = Append(q, t)
           /\ s.irql = r.irql /\ s.used = r.used /\ s.canceled = r.canceled /\ s.pending = TRUE
  <2>1. t \in Timers \cup {Other} /\ t # Other
    BY <1>0, Zenon DEF Slotted
  <2>2. /\ \A u : Waits(u, q1, m) <=> Waits(u, q, m) \/ u = t
        /\ Sensible(q1, m) /\ Distinct(q1, m)
    <3> DEFINE T == Timers \cup {Other}
    <3>1. q \in Seq(T) /\ t \in T /\ Sensible(q, m)
      BY <1>1, <2>1
    <3> HIDE DEF T
    <3>2. /\ \A u : Waits(u, Append(q, t), m) <=> Waits(u, q, m) \/ u = t
          /\ Sensible(Append(q, t), m)
          /\ Distinct(q, m) /\ (t = Other \/ ~Waits(t, q, m)) => Distinct(Append(q, t), m)
      BY <3>1, AppendWaits
    <3> QED BY <1>1, <1>6, <1>8, <3>2, Zenon
  <2>3. /\ q1 \in Seq(Timers \cup {Other}) /\ Len(q1) = Len(q) + 1
        /\ q # << >> => Head(q1) = Head(q)
    <3> DEFINE T == Timers \cup {Other}
    <3>1. q \in Seq(T) /\ t \in T
      BY <1>1, <2>1
    <3> HIDE DEF T
    <3>2. q1 \in Seq(T) /\ Len(q1) = Len(q) + 1 /\ (q # << >> => Head(q1) = Head(q))
      BY <1>8, <3>1, AppendFacts
    <3> QED BY <3>2 DEF T
  <2>4. Len(q1) <= QueueRoom
    BY <1>1, <1>8, <2>3, SMT DEF Slotted
  <2>5. Slot(s, t, q1, h1, m)
    <3>1. m \in {"callback", "returned"} => q # << >>
      <4>1. m \in {"callback", "returned"} => m # "idle"
        OBVIOUS
      <4> QED BY <1>1, <4>1, Zenon DEF Sensible
    <3>2. Waits(t, q1, m)
      BY <2>2, Zenon
    <3>3. t \in h1 <=> t \in h
      BY <1>5, <1>6, <1>8, Zenon
    <3> QED BY <1>1, <1>6, <1>8, <2>3, <3>1, <3>2, <3>3, Zenon DEF Slot
  <2> QED BY <1>0, <1>1, <1>4, <2>2, <2>3, <2>4, <2>5, SlotWritten, Zenon
<1>9. CASE ~r.irql /\ q1 = q /\ Alike(s, r)
  <2>1. h1 = h
    BY <1>0, <1>6, <1>9, Zenon DEF StillHeld
  <2> QED BY <1>0, <1>9, <2>1, AlikeKeeps, Zenon DEF r
<1> QED BY <1>0, <1>7, <1>8, <1>9, Zenon DEF TimesOut, r

\* One round of the loop of the tick keeps everything in order, and the other slots.
IsRound(a, tm, q, t, quits) ==
  a = TimerTicks([timers |-> tm, queue |-> q], t, quits)

\* In a tick an event is posted only for a timer that is due, and none is cancelled.
Turns(s, r) ==
  /\ s.pending /\ ~r.pending => r.used /\ ~r.irql /\ r.due = 1
  /\ s.canceled => r.canceled

\* The event at the head stays there.
Heads(q1, q) == q # << >> => q1 # << >> /\ Head(q1) = Head(q)

AfterRound(a, tm, q, h1, m, t) ==
  /\ a = [timers |-> a.timers, queue |-> a.queue]
  /\ Schedules(a.timers, a.queue, h1, m)
  /\ \A u \in Timers : u # t => a.timers[u] = tm[u]
  /\ Turns(a.timers[t], tm[t]) /\ Heads(a.queue, q)

RoundRuns(a, h1, tm, q, h, m, t, quits) ==
  /\ Schedules(tm, q, h, m)
  /\ t \in Timers
  /\ quits \in BOOLEAN /\ MayQuit(quits, tm[t], t, h) /\ (quits => tm[t].due = 1)
  /\ StillHeld(h1, h, t, quits)
  /\ IsRound(a, tm, q, t, quits)

LEMMA RoundKeeps ==
  ASSUME Slotted, NEW a, NEW h1, NEW tm, NEW q, NEW h, NEW m, NEW t, NEW quits,
         RoundRuns(a, h1, tm, q, h, m, t, quits)
  PROVE  AfterRound(a, tm, q, h1, m, t)
<1> /\ Schedules(tm, q, h, m)
    /\ t \in Timers
    /\ quits \in BOOLEAN /\ MayQuit(quits, tm[t], t, h) /\ (quits => tm[t].due = 1)
    /\ StillHeld(h1, h, t, quits)
    /\ IsRound(a, tm, q, t, quits)
  BY Zenon DEF RoundRuns
<1>0. ASSUME NEW s \in timer_t
      PROVE  /\ \A u \in Timers : u # t => [tm EXCEPT ![t] = s][u] = tm[u]
             /\ [tm EXCEPT ![t] = s][t] = s
  <2>1. tm \in [Timers -> timer_t]
    BY Zenon DEF Schedules
  <2> QED BY <2>1
<1>1. SUFFICES \E s \in timer_t :
                 /\ a = [timers |-> [tm EXCEPT ![t] = s], queue |-> a.queue]
                 /\ Schedules([tm EXCEPT ![t] = s], a.queue, h1, m)
                 /\ Turns(s, tm[t]) /\ Heads(a.queue, q)
  <2>1. ASSUME NEW s, a = [timers |-> [tm EXCEPT ![t] = s], queue |-> a.queue]
        PROVE  a = [timers |-> a.timers, queue |-> a.queue] /\ a.timers = [tm EXCEPT ![t] = s]
    BY <2>1, PairFacts, Zenon
  <2>2. PICK s \in timer_t :
          /\ a = [timers |-> [tm EXCEPT ![t] = s], queue |-> a.queue]
          /\ Schedules([tm EXCEPT ![t] = s], a.queue, h1, m)
          /\ Turns(s, tm[t]) /\ Heads(a.queue, q)
    BY Zenon
  <2>3. a = [timers |-> a.timers, queue |-> a.queue] /\ a.timers = [tm EXCEPT ![t] = s]
    BY <2>1, <2>2, Zenon
  <2>4. a.timers[t] = s /\ \A u \in Timers : u # t => a.timers[u] = tm[u]
    <3> DEFINE w == [tm EXCEPT ![t] = s]
    <3>1. w[t] = s /\ \A u \in Timers : u # t => w[u] = tm[u]
      BY <1>0, Zenon
    <3>2. a.timers = w
      BY <2>3, Zenon
    <3> HIDE DEF w
    <3> QED BY <3>1, <3>2, Zenon
  <2> QED BY <2>2, <2>3, <2>4, Zenon DEF AfterRound
<1> DEFINE r == tm[t]
           d == Countdown(r.due)
           r1 == [r EXCEPT !.due = d]
           tm1 == [tm EXCEPT ![t] = r1]
           u == [timers |-> tm1, queue |-> q]
<1>2. tm \in [Timers -> timer_t] /\ r \in timer_t
  BY Zenon DEF Schedules
<1>3. r.due \in Int /\ r.used \in BOOLEAN /\ r.irql \in BOOLEAN /\ r.pending \in BOOLEAN
  BY <1>2, SlotFacts, Zenon
<1>4. d \in Int /\ (r.due = 1 <=> d = 0)
  <2> HIDE DEF r
  <2> QED BY <1>3, SMT DEF Countdown
<1>5. /\ [[timers |-> tm, queue |-> q] EXCEPT !.timers[t].due = Countdown(@)] = u
      /\ u.timers = tm1 /\ tm1[t] = r1 /\ tm1 \in [Timers -> timer_t]
      /\ r1 \in timer_t /\ Alike(r1, r) /\ r1.due = d
  <2>1. r1 \in timer_t /\ Alike(r1, r) /\ r1.due = d
    <3> HIDE DEF r, d
    <3> QED BY <1>2, <1>4 DEF timer_t, Alike
  <2>2. [[timers |-> tm, queue |-> q] EXCEPT !.timers[t].due = Countdown(@)] = u
    <3>1. [timers |-> tm, queue |-> q].timers[t].due = r.due
      OBVIOUS
    <3>2. ASSUME NEW v
          PROVE  [[timers |-> tm, queue |-> q] EXCEPT !.timers[t].due = v] =
                 [timers |-> [tm EXCEPT ![t] = [tm[t] EXCEPT !.due = v]], queue |-> q]
      OBVIOUS
    <3>3. [[timers |-> tm, queue |-> q] EXCEPT !.timers[t].due = d] = u
      BY <3>2, Zenon
    <3> QED BY <3>1, <3>3, Zenon
  <2>3. u.timers = tm1
    OBVIOUS
  <2> HIDE DEF r1
  <2>4. tm1[t] = r1 /\ tm1 \in [Timers -> timer_t]
    BY <1>2, <2>1
  <2> QED BY <2>1, <2>2, <2>3, <2>4, Zenon
<1> HIDE DEF r, d, r1, tm1, u
<1>6. a = IF ~(r1.used /\ r1.due = 0) THEN u
          ELSE IF r1.pending THEN [u EXCEPT !.timers[t].due = @ + 1]
          ELSE on_timer_timeout(u, t, quits)
  <2>1. a = IF ~(u.timers[t].used /\ u.timers[t].due = 0) THEN u
            ELSE IF u.timers[t].pending THEN [u EXCEPT !.timers[t].due = @ + 1]
            ELSE on_timer_timeout(u, t, quits)
    <3>1. Counted([timers |-> tm, queue |-> q], t) = u
      BY <1>5, Zenon DEF Counted
    <3>2. a = Checked(u, t, quits)
      BY <3>1, Zenon DEF IsRound, TimerTicks
    <3> QED BY <3>2, Zenon DEF Checked
  <2>2. u.timers[t] = r1
    BY <1>5, Zenon
  <2> QED BY <2>1, <2>2, Zenon
<1>7. r1.used = r.used /\ r1.pending = r.pending /\ r1.irql = r.irql /\ r1.canceled = r.canceled
  BY <1>5, Zenon DEF Alike
<1>8. quits => t \in h /\ r1.irql /\ r1.due = 0 /\ r1.used /\ ~r1.pending
  <2>1. quits => t \in h /\ r.irql /\ r.due = 1
    BY Zenon DEF r, MayQuit
  <2>2. Slot(r, t, q, h, m)
    BY Zenon DEF Schedules, r
  <2>3. t \in h /\ r.irql => r.used /\ ~r.pending
    BY <2>2, Zenon DEF Slot
  <2> QED BY <1>4, <1>5, <1>7, <2>1, <2>3, Zenon
<1>9. Schedules(tm1, q, h, m)
  BY <1>5, AlikeKeeps, Zenon DEF r, tm1
<1>10. CASE ~(r1.used /\ r1.due = 0)
  <2>1. h1 = h /\ a = u
    BY <1>6, <1>8, <1>10, Zenon DEF StillHeld
  <2>2. a = [timers |-> [tm EXCEPT ![t] = r1], queue |-> a.queue] /\ a.queue = q
    <3>1. a = [timers |-> [tm EXCEPT ![t] = r1], queue |-> q]
      BY <2>1, Zenon DEF u, tm1
    <3> QED BY <3>1, PairFacts, Zenon
  <2>3. Turns(r1, tm[t])
    BY <1>7, Zenon DEF Turns, r
  <2> QED BY <1>5, <1>9, <2>1, <2>2, <2>3, Zenon DEF tm1, Heads
<1>11. CASE (r1.used /\ r1.due = 0) /\ r1.pending
  <2> DEFINE r2 == [r1 EXCEPT !.due = r1.due + 1]
  <2>1. h1 = h /\ a = [u EXCEPT !.timers[t].due = @ + 1]
    BY <1>6, <1>8, <1>11, Zenon DEF StillHeld
  <2>2. a = [timers |-> [tm EXCEPT ![t] = r2], queue |-> q]
    <3>1. u.timers[t].due + 1 = r1.due + 1
      BY <1>5, Zenon
    <3>2. ASSUME NEW v
          PROVE  [u EXCEPT !.timers[t].due = v] =
                 [timers |-> [tm EXCEPT ![t] = [r1 EXCEPT !.due = v]], queue |-> q]
      BY <1>2 DEF u, tm1
    <3>3. a = [u EXCEPT !.timers[t].due = r1.due + 1]
      BY <2>1, <3>1, Zenon
    <3> QED BY <3>2, <3>3, Zenon
  <2>3. r2 \in timer_t /\ Alike(r2, r1)
    <3>1. r1.due + 1 \in Int
      BY <1>4, <1>5, SMT
    <3>2. r1 \in timer_t
      BY <1>5, Zenon
    <3> QED BY <3>1, <3>2 DEF timer_t, Alike
  <2> HIDE DEF r2
  <2>4. Alike(r2, tm[t])
    BY <1>7, <2>3, Zenon DEF Alike, r
  <2>5. Schedules([tm EXCEPT ![t] = r2], q, h, m)
    BY <2>3, <2>4, AlikeKeeps, Zenon
  <2>6. a.queue = q
    BY <2>2, PairFacts, Zenon
  <2>7. Turns(r2, tm[t])
    BY <2>4, Zenon DEF Turns, Alike
  <2> QED BY <2>1, <2>2, <2>3, <2>5, <2>6, <2>7, Zenon DEF Heads
<1>12. CASE r1.used /\ r1.due = 0 /\ ~r1.pending
  <2>1. IsTimeout(a, tm1, q, t, quits)
    BY <1>6, <1>12, Zenon DEF IsTimeout, u
  <2>2. PICK s \in timer_t :
          /\ a = [timers |-> a.timers, queue |-> a.queue]
          /\ a.timers = [tm1 EXCEPT ![t] = s]
          /\ TimesOut(s, tm1[t], a.queue, q, t, quits)
    <3>1. tm1 \in [Timers -> timer_t]
      BY <1>5, Zenon
    <3>2. Rewrites(a, tm1, q, t, quits)
      BY <2>1, <3>1, TimeoutFacts, Zenon
    <3> QED BY <3>2, Zenon DEF Rewrites
  <2>3. tm1[t].used /\ ~tm1[t].pending /\ MayQuit(quits, tm1[t], t, h)
    BY <1>5, <1>8, <1>12, Zenon DEF MayQuit
  <2>4. Expires(a.timers, a.queue, h1, tm1, q, h, m, t, s, quits)
    BY <1>9, <2>2, <2>3, Zenon DEF Expires
  <2>5. Schedules(a.timers, a.queue, h1, m)
    BY <2>4, TimeoutKeeps, Zenon
  <2>6. [tm1 EXCEPT ![t] = s] = [tm EXCEPT ![t] = s]
    BY <1>2 DEF tm1
  <2>7. Turns(s, tm[t])
    <3>1. TimesOut(s, r1, a.queue, q, t, quits)
      BY <1>5, <2>2, Zenon
    <3>2. ~Free.canceled /\ ~Free.pending
      BY <1>2, SlotFacts, Zenon
    <3>3. r.due = 1
      BY <1>4, <1>5, <1>12, Zenon
    <3> QED BY <1>7, <1>12, <3>1, <3>2, <3>3, Zenon DEF TimesOut, Alike, Turns, r
  <2>8. Heads(a.queue, q)
    <3>1. CASE a.queue = q
      BY <3>1, Zenon DEF Heads
    <3>2. CASE a.queue = Append(q, t)
      <4> DEFINE T == Timers \cup {Other}
      <4>1. q \in Seq(T) /\ t \in T
        BY Zenon DEF Schedules
      <4> HIDE DEF T
      <4>2. Append(q, t) # << >> /\ (q # << >> => Head(Append(q, t)) = Head(q))
        BY <4>1, AppendFacts
      <4> QED BY <3>2, <4>2, Zenon DEF Heads
    <3> QED BY <2>2, <3>1, <3>2, Zenon DEF TimesOut
  <2> QED BY <2>2, <2>5, <2>6, <2>7, <2>8, Zenon
<1> QED BY <1>10, <1>11, <1>12, Zenon

\* The function of AllTimersTick is defined.
Round(e, t, quit) == TimerTicks(e, t, t \in quit)

AreRounds(f, n, e, quit) ==
  f = [t \in 0 .. n |-> IF t = 0 THEN e ELSE Round(f[t - 1], t, quit)]

LEMMA RoundsExist ==
  ASSUME NEW n \in Nat, NEW e, NEW quit
  PROVE  \E f : AreRounds(f, n, e, quit)
<1> DEFINE Ok(k, f) == f = [t \in 0 .. k |-> IF t = 0 THEN e ELSE Round(f[t - 1], t, quit)]
           S == {k \in Nat : \E f : Ok(k, f)}
<1>1. 0 \in S
  <2> DEFINE f == [t \in 0 .. 0 |-> e]
  <2>1. \A t \in 0 .. 0 : t = 0
    BY SMT
  <2>2. Ok(0, f)
    BY <2>1, Zenon
  <2> QED BY <2>2, Zenon
<1>2. ASSUME NEW k \in Nat, k \in S
      PROVE  k + 1 \in S
  <2>1. PICK f : Ok(k, f)
    BY <1>2, Zenon
  <2> DEFINE g == [t \in 0 .. k + 1 |-> IF t = 0 THEN e ELSE Round(f[t - 1], t, quit)]
  <2>2. ASSUME NEW t \in 0 .. k + 1
        PROVE  g[t] = IF t = 0 THEN e ELSE Round(g[t - 1], t, quit)
    <3>1. CASE t = 0
      BY <3>1, Zenon
    <3>2. CASE t # 0
      <4>1. t - 1 \in 0 .. k /\ t - 1 \in 0 .. k + 1
        BY <3>2, SMT
      <4>2. g[t - 1] = f[t - 1]
        <5>1. f[t - 1] = IF t - 1 = 0 THEN e ELSE Round(f[(t - 1) - 1], t - 1, quit)
          BY <2>1, <4>1, Zenon
        <5> QED BY <5>1, <4>1, Zenon
      <4> QED BY <4>2, <3>2, Zenon
    <3> QED BY <3>1, <3>2
  <2>3. Ok(k + 1, g)
    BY <2>2, Zenon
  <2>4. k + 1 \in Nat
    OBVIOUS
  <2> QED BY <2>3, <2>4, Zenon
<1> HIDE DEF S
<1>3. Nat \subseteq S
  BY <1>1, <1>2, InductionNat, Zenon
<1> QED BY <1>3, Zenon DEF S, AreRounds

\* The whole tick, round by round.
LEMMA TickKeeps ==
  ASSUME Slotted, Schedules(timers, queue, held, main),
         NEW quit, quit \subseteq {t \in held : timers[t].irql /\ timers[t].due = 1},
         NEW a, a = AllTimersTick(quit)
  PROVE  /\ Schedules(a.timers, a.queue, held \ quit, main)
         /\ \A u \in Timers : Turns(a.timers[u], timers[u])
         /\ Heads(a.queue, queue)
<1> DEFINE e == [timers |-> timers, queue |-> queue]
<1> HIDE DEF e
<1> DEFINE f == CHOOSE g : AreRounds(g, TimerCount, e, quit)
<1>1. TimerCount \in Nat
  BY Zenon DEF Slotted
<1>2. AreRounds(f, TimerCount, e, quit)
  BY <1>1, RoundsExist, Zenon
<1>3. a = f[TimerCount]
  BY Zenon DEF AllTimersTick, AreRounds, Round, e
<1> HIDE DEF f
<1> DEFINE H(k) == held \ (quit \cap (1 .. k))
           Right(k) == /\ f[k] = [timers |-> f[k].timers, queue |-> f[k].queue]
                       /\ Schedules(f[k].timers, f[k].queue, H(k), main)
                       /\ \A u \in Timers : u > k => f[k].timers[u] = timers[u]
                       /\ \A u \in Timers : u <= k => Turns(f[k].timers[u], timers[u])
                       /\ Heads(f[k].queue, queue)
           S == {k \in Nat : k <= TimerCount => Right(k)}
<1>4. 0 \in S
  <2>1. f[0] = e /\ 0 \in Nat
    <3>1. 0 \in 0 .. TimerCount
      BY <1>1, SMT
    <3> QED BY <1>2, <3>1, Zenon DEF AreRounds
  <2>2. f[0].timers = timers /\ f[0].queue = queue /\ f[0] = [timers |-> f[0].timers, queue |-> f[0].queue]
    BY <2>1, PairFacts, Zenon DEF e
  <2>3. H(0) = held
    <3>1. 1 .. 0 = {}
      BY SMT
    <3> QED BY <3>1, Zenon
  <2>4. \A u \in Timers : ~(u <= 0)
    BY SMT DEF Timers
  <2> QED BY <2>1, <2>2, <2>3, <2>4, Zenon DEF Heads
<1>5. ASSUME NEW k \in Nat, k \in S
      PROVE  k + 1 \in S
  <2>1. SUFFICES ASSUME k + 1 <= TimerCount PROVE Right(k + 1)
    BY SMT
  <2>2. Right(k)
    BY <1>1, <1>5, <2>1, SMT
  <2> DEFINE t == k + 1
             z == t \in quit
             b == f[k].timers
             c == f[k].queue
  <2>3. /\ t \in Timers /\ t \notin 1 .. k /\ t > k /\ t # 0 /\ t - 1 = k /\ t \in 0 .. TimerCount
        /\ \A u \in Timers : u > t => u > k /\ u # t
        /\ \A u \in Timers : u <= t /\ u # t => u <= k
        /\ 1 .. t = (1 .. k) \cup {t}
    BY <1>1, <2>1, SMT DEF Timers
  <2>4. z \in BOOLEAN
    OBVIOUS
  <2>5. MayQuit(z, b[t], t, H(k)) /\ (z => b[t].due = 1)
    BY <2>2, <2>3, Zenon DEF MayQuit
  <2>6. StillHeld(H(t), H(k), t, z)
    BY <2>3, Zenon DEF StillHeld
  <2>7. IsRound(f[t], b, c, t, z)
    <3>1. f[t] = Round(f[k], t, quit)
      BY <1>2, <2>3, Zenon DEF AreRounds
    <3>2. f[k] = [timers |-> b, queue |-> c]
      BY <2>2, Zenon
    <3>3. Round(f[k], t, quit) = TimerTicks(f[k], t, z)
      BY Zenon DEF Round
    <3> QED BY <3>1, <3>2, <3>3, Zenon DEF IsRound
  <2>8. Schedules(b, c, H(k), main)
    BY <2>2, Zenon
  <2> HIDE DEF z, b, c, t, H
  <2>9. AfterRound(f[t], b, c, H(t), main, t)
    <3>1. RoundRuns(f[t], H(t), b, c, H(k), main, t, z)
      BY <2>3, <2>4, <2>5, <2>6, <2>7, <2>8, Zenon DEF RoundRuns
    <3> QED BY <3>1, RoundKeeps, Zenon
  <2>10. \A u \in Timers : u > t => f[t].timers[u] = timers[u]
    BY <2>2, <2>3, <2>9, Zenon DEF AfterRound, b
  <2>11. ASSUME NEW u \in Timers, u <= t PROVE Turns(f[t].timers[u], timers[u])
    <3>1. CASE u = t
      BY <2>2, <2>3, <2>9, <3>1, Zenon DEF AfterRound, b
    <3>2. CASE u # t
      BY <2>2, <2>3, <2>9, <2>11, <3>2, Zenon DEF AfterRound, b
    <3> QED BY <3>1, <3>2
  <2>12. Heads(f[t].queue, queue)
    BY <2>2, <2>9, Zenon DEF AfterRound, Heads, c
  <2> QED BY <2>9, <2>10, <2>11, <2>12, Zenon DEF AfterRound, t
<1> HIDE DEF S
<1>6. Nat \subseteq S
  BY <1>4, <1>5, InductionNat, Zenon
<1>7. TimerCount \in S /\ TimerCount <= TimerCount
  BY <1>1, <1>6, SMT
<1>8. Schedules(a.timers, a.queue, H(TimerCount), main)
  BY <1>3, <1>7, Zenon DEF S
<1>9. H(TimerCount) = held \ quit
  BY Zenon DEF Schedules, Timers
<1>10. \A u \in Timers : Turns(a.timers[u], timers[u])
  <2>1. \A u \in Timers : u <= TimerCount
    BY <1>1, SMT DEF Timers
  <2> QED BY <1>3, <1>7, <2>1, Zenon DEF S
<1>11. Heads(a.queue, queue)
  BY <1>3, <1>7, Zenon DEF S
<1> QED BY <1>8, <1>9, <1>10, <1>11, Zenon

\* One field of a slot is written.
LEMMA FieldWritten ==
  ASSUME NEW tm \in [Timers -> timer_t], NEW t \in Timers, NEW v
  PROVE  [tm EXCEPT ![t].pending = v] = [tm EXCEPT ![t] = [tm[t] EXCEPT !.pending = v]]
OBVIOUS

LEMMA FieldFacts ==
  ASSUME NEW r \in timer_t, NEW v \in BOOLEAN
  PROVE  /\ [r EXCEPT !.pending = v] \in timer_t /\ [r EXCEPT !.pending = v].irql = r.irql
         /\ [r EXCEPT !.pending = v].used = r.used /\ [r EXCEPT !.pending = v].canceled = r.canceled
         /\ [r EXCEPT !.pending = v].pending = v
         /\ [r EXCEPT !.canceled = v] \in timer_t /\ [r EXCEPT !.canceled = v].irql = r.irql
         /\ [r EXCEPT !.canceled = v].used = r.used /\ [r EXCEPT !.canceled = v].canceled = v
         /\ [r EXCEPT !.canceled = v].pending = r.pending
BY DEF timer_t

\* The slots after t was written, wherever the queue and the main program are now.
Stands(tm1, q1, h1, m1, tm, t, s) ==
  /\ tm \in [Timers -> timer_t] /\ t \in Timers /\ s \in timer_t
  /\ q1 \in Seq(Timers \cup {Other}) /\ Len(q1) <= QueueRoom
  /\ h1 \subseteq Timers
  /\ Sensible(q1, m1) /\ Distinct(q1, m1)
  /\ \A u \in Timers : u # t => Slot(tm[u], u, q1, h1, m1)
  /\ Slot(s, t, q1, h1, m1)
  /\ tm1 = [tm EXCEPT ![t] = s]

LEMMA SlotsStand ==
  ASSUME NEW tm1, NEW q1, NEW h1, NEW m1, NEW tm, NEW t, NEW s,
         Stands(tm1, q1, h1, m1, tm, t, s)
  PROVE  Schedules(tm1, q1, h1, m1)
<1>1. /\ tm \in [Timers -> timer_t] /\ t \in Timers /\ s \in timer_t
      /\ tm1 = [tm EXCEPT ![t] = s]
  BY Zenon DEF Stands
<1>2. /\ tm1 \in [Timers -> timer_t] /\ tm1[t] = s
      /\ \A u \in Timers : u # t => tm1[u] = tm[u]
  BY <1>1
<1>3. \A u \in Timers : Slot(tm1[u], u, q1, h1, m1)
  BY <1>2, Zenon DEF Stands
<1> QED BY <1>2, <1>3, Zenon DEF Schedules, Stands

\* Another interrupt's event is posted.
LEMMA PostOtherKeeps ==
  ASSUME Slotted, Schedules(timers, queue, held, main), PostOther
  PROVE  Schedules(timers', queue', held', main') /\ (Unraced(timers, queue, main) => Unraced(timers', queue', main'))
<1>0. CASE queue' = queue
  BY <1>0, Zenon DEF PostOther
<1>a. SUFFICES ASSUME queue' # queue
      PROVE  Schedules(timers', queue', held', main') /\ (Unraced(timers, queue, main) => Unraced(timers', queue', main'))
  BY <1>0, Zenon
<1> DEFINE T == Timers \cup {Other}
<1>1. queue \in Seq(T) /\ Other \in T /\ Sensible(queue, main) /\ Distinct(queue, main)
  BY Zenon DEF Schedules
<1>2. timers' = timers /\ queue' = Append(queue, Other) /\ main' = main /\ held' = held /\ Len(queue) < QueueRoom
  BY <1>a, Zenon DEF PostOther
<1> HIDE DEF T
<1>3. /\ \A u : Waits(u, Append(queue, Other), main) <=> Waits(u, queue, main) \/ u = Other
      /\ Sensible(Append(queue, Other), main)
      /\ Distinct(queue, main) /\ (Other = Other \/ ~Waits(Other, queue, main)) => Distinct(Append(queue, Other), main)
  BY <1>1, AppendWaits
<1>4. /\ Append(queue, Other) \in Seq(T) /\ Len(Append(queue, Other)) = Len(queue) + 1
      /\ queue # << >> => Head(Append(queue, Other)) = Head(queue)
  BY <1>1, AppendFacts
<1>5. Len(queue) \in Nat
  BY <1>1, QueueFacts
<1> DEFINE q1 == Append(queue, Other)
<1>6. q1 \in Seq(Timers \cup {Other})
  BY <1>4 DEF T
<1> HIDE DEF q1
<1>7. Len(q1) <= QueueRoom
  BY <1>2, <1>4, <1>5, SMT DEF q1, Slotted
<1>8. ASSUME NEW t \in Timers PROVE Slot(timers[t], t, q1, held, main)
  <2>1. t # Other
    BY Zenon DEF Slotted
  <2>2. main \in {"callback", "returned"} => queue # << >>
    <3>1. main \in {"callback", "returned"} => main # "idle"
      OBVIOUS
    <3> QED BY <1>1, <3>1, Zenon DEF Sensible
  <2>3. Slot(timers[t], t, queue, held, main)
    BY Zenon DEF Schedules
  <2> QED BY <1>3, <1>4, <2>1, <2>2, <2>3, Zenon DEF Slot, q1
<1>9. Schedules(timers, q1, held, main)
  BY <1>1, <1>3, <1>6, <1>7, <1>8, Zenon DEF Schedules, q1
<1>10. main = "returned" => Head(q1) = Head(queue)
  <2>1. main = "returned" => main # "idle"
    OBVIOUS
  <2> QED BY <1>1, <1>4, <2>1, Zenon DEF Sensible, q1
<1> QED BY <1>2, <1>9, <1>10, Zenon DEF q1, Unraced

\* The main loop takes an event, and runs the callback of one not cancelled.
LEMMA TakeEventKeeps ==
  ASSUME Slotted, Schedules(timers, queue, held, main), TakeEvent
  PROVE  Schedules(timers', queue', held', main')
<1>1. timers' = timers /\ queue' = queue /\ held' = held /\ main = "idle" /\ queue # << >>
      /\ main' = IF Head(queue) = Other THEN "callback" ELSE "on_timer_event"
  BY Zenon DEF TakeEvent
<1> DEFINE m1 == IF Head(queue) = Other THEN "callback" ELSE "on_timer_event"
<1>2. m1 \in {"callback", "on_timer_event"} /\ (m1 = "callback" => Head(queue) = Other) /\ (m1 # "callback" => Head(queue) # Other)
  OBVIOUS
<1> HIDE DEF m1
<1>3. /\ m1 \in {"idle", "on_timer_event", "callback", "returned", "halted"} /\ m1 # "returned" /\ main # "returned"
      /\ (m1 \in {"on_timer_event", "returned"} => Head(queue) # Other)
      /\ (m1 \in {"callback", "returned"} => Head(queue) = Other)
  BY <1>1, <1>2
<1>4. Sensible(queue, m1)
  BY <1>1, <1>3, Zenon DEF Sensible
<1>5. Distinct(queue, m1)
  BY <1>3, Zenon DEF Distinct, Schedules
<1>6. ASSUME NEW t \in Timers PROVE Slot(timers[t], t, queue, held, m1)
  <2>1. Slot(timers[t], t, queue, held, main) /\ t # Other
    BY Zenon DEF Schedules, Slotted
  <2>2. Waits(t, queue, m1) <=> Waits(t, queue, main)
    BY <1>3, Zenon DEF Waits
  <2> QED BY <1>3, <2>1, <2>2, Zenon DEF Slot
<1>7. Schedules(timers, queue, held, m1)
  BY <1>4, <1>5, <1>6, Zenon DEF Schedules
<1> QED BY <1>1, <1>7, Zenon DEF m1

\* The event at the head is one that waits.
LEMMA HeadWaits ==
  ASSUME Slotted, NEW tm, NEW q, NEW h, NEW m, Schedules(tm, q, h, m), m = "on_timer_event"
  PROVE  /\ Head(q) \in Timers /\ Waits(Head(q), q, m) /\ q # << >>
         /\ Slot(tm[Head(q)], Head(q), q, h, m)
         /\ tm[Head(q)].used /\ tm[Head(q)].pending /\ ~tm[Head(q)].irql
<1> DEFINE T == Timers \cup {Other}
<1>1. m # "idle" /\ m \in {"on_timer_event", "returned"} /\ m # "returned"
  OBVIOUS
<1>2. q \in Seq(T) /\ q # << >> /\ Head(q) # Other
  BY <1>1, Zenon DEF Schedules, Sensible
<1> HIDE DEF T
<1>3. DOMAIN q = 1 .. Len(q) /\ Len(q) \in Nat /\ Len(q) > 0 /\ Head(q) = q[1] /\ q[1] \in T
  BY <1>2, QueueFacts
<1>4. 1 \in 1 .. Len(q)
  BY <1>3, SMT
<1>5. Head(q) \in Timers
  BY <1>2, <1>3, Zenon DEF T
<1>6. Waits(Head(q), q, m)
  BY <1>1, <1>3, <1>4, Zenon DEF Waits
<1>7. Slot(tm[Head(q)], Head(q), q, h, m)
  BY <1>5, Zenon DEF Schedules
<1> QED BY <1>2, <1>5, <1>6, <1>7, Zenon DEF Slot

LEMMA RunCallbackKeeps ==
  ASSUME Slotted, Schedules(timers, queue, held, main), RunCallback
  PROVE  Schedules(timers', queue', held', main') /\ Head(queue) \in held
<1>1. timers' = timers /\ queue' = queue /\ held' = held /\ main = "on_timer_event" /\ main' = "callback"
      /\ ~timers[Head(queue)].canceled
  BY Zenon DEF RunCallback
<1>2. /\ queue # << >> /\ Slot(timers[Head(queue)], Head(queue), queue, held, main)
      /\ timers[Head(queue)].used /\ ~timers[Head(queue)].irql
  BY <1>1, HeadWaits, Zenon
<1>3. Head(queue) \in held
  BY <1>1, <1>2, Zenon DEF Slot
<1>4. "callback" \in {"idle", "on_timer_event", "callback", "returned", "halted"} /\ "callback" # "returned"
      /\ main # "returned" /\ "callback" \notin {"on_timer_event", "returned"}
  BY <1>1
<1>5. Sensible(queue, "callback")
  BY <1>2, <1>4, Zenon DEF Sensible
<1>6. Distinct(queue, "callback")
  BY <1>4, Zenon DEF Distinct, Schedules
<1>7. ASSUME NEW t \in Timers PROVE Slot(timers[t], t, queue, held, "callback")
  <2>1. Slot(timers[t], t, queue, held, main)
    BY Zenon DEF Schedules
  <2>2. Waits(t, queue, "callback") <=> Waits(t, queue, main)
    BY <1>4, Zenon DEF Waits
  <2> QED BY <1>2, <1>3, <2>1, <2>2, Zenon DEF Slot
<1>8. Schedules(timers, queue, held, "callback")
  BY <1>5, <1>6, <1>7, Zenon DEF Schedules
<1> QED BY <1>1, <1>3, <1>8, Zenon

\* The event at the head has been processed.
LEMMA TailFacts ==
  ASSUME Slotted, NEW tm, NEW q, NEW h, NEW m, Schedules(tm, q, h, m), q # << >>
  PROVE  /\ Tail(q) \in Seq(Timers \cup {Other}) /\ Len(Tail(q)) <= QueueRoom
         /\ m = "returned" => \A u : Waits(u, Tail(q), "idle") <=> Waits(u, q, m)
         /\ m # "returned" => \A u : u # Other =>
              (Waits(u, Tail(q), "idle") <=> Waits(u, q, m) /\ u # Head(q))
         /\ Sensible(Tail(q), "idle") /\ Distinct(Tail(q), "idle")
<1> DEFINE T == Timers \cup {Other}
<1>1. q \in Seq(T) /\ Distinct(q, m) /\ Len(q) <= QueueRoom
  BY Zenon DEF Schedules
<1> HIDE DEF T
<1>2. Tail(q) \in Seq(T) /\ Len(Tail(q)) = Len(q) - 1 /\ Len(q) \in Nat
  BY <1>1, QueueFacts
<1>3. Len(Tail(q)) <= QueueRoom
  BY <1>1, <1>2, SMT DEF Slotted
<1>4. /\ m = "returned" => \A u : Waits(u, Tail(q), "idle") <=> Waits(u, q, m)
      /\ m # "returned" => \A u : u # Other =>
           (Waits(u, Tail(q), "idle") <=> Waits(u, q, m) /\ u # Head(q))
      /\ Sensible(Tail(q), "idle") /\ Distinct(Tail(q), "idle")
  BY <1>1, TailWaits, Zenon
<1> QED BY <1>2, <1>3, <1>4, Zenon DEF T

LEMMA OtherDoneKeeps ==
  ASSUME Slotted, Schedules(timers, queue, held, main), OtherDone
  PROVE  Schedules(timers', queue', held', main')
<1>1. timers' = timers /\ queue' = Tail(queue) /\ held' = held /\ main = "callback" /\ main' = "idle" /\ Head(queue) = Other
  BY Zenon DEF OtherDone
<1>2. main # "idle" /\ main # "returned" /\ "idle" \notin {"callback", "returned"}
  BY <1>1
<1>3. queue # << >>
  BY <1>2, Zenon DEF Schedules, Sensible
<1>4. /\ Tail(queue) \in Seq(Timers \cup {Other}) /\ Len(Tail(queue)) <= QueueRoom
      /\ \A u : u # Other => (Waits(u, Tail(queue), "idle") <=> Waits(u, queue, main) /\ u # Head(queue))
      /\ Sensible(Tail(queue), "idle") /\ Distinct(Tail(queue), "idle")
  BY <1>2, <1>3, TailFacts, Zenon
<1>5. ASSUME NEW t \in Timers PROVE Slot(timers[t], t, Tail(queue), held, "idle")
  <2>1. Slot(timers[t], t, queue, held, main) /\ t # Other
    BY Zenon DEF Schedules, Slotted
  <2> QED BY <1>1, <1>2, <1>4, <2>1, Zenon DEF Slot
<1>6. Schedules(timers, Tail(queue), held, "idle")
  BY <1>4, <1>5, Zenon DEF Schedules
<1> QED BY <1>1, <1>6, Zenon

LEMMA DropCanceledKeeps ==
  ASSUME Slotted, Schedules(timers, queue, held, main), DropCanceled
  PROVE  Schedules(timers', queue', held', main')
<1> DEFINE t == Head(queue)
           s == Free
<1>1. /\ timers' = [timers EXCEPT ![t] = s] /\ queue' = Tail(queue) /\ held' = held
      /\ main = "on_timer_event" /\ main' = "idle" /\ timers[t].canceled
  BY Zenon DEF DropCanceled
<1>2. main # "idle" /\ main # "returned" /\ "idle" \notin {"callback", "returned"}
  BY <1>1
<1>3. /\ t \in Timers /\ queue # << >> /\ Slot(timers[t], t, queue, held, main)
  BY <1>1, HeadWaits, Zenon
<1>4. timers \in [Timers -> timer_t] /\ timers[t] \in timer_t /\ held \subseteq Timers
  BY <1>3, Zenon DEF Schedules
<1>5. timers' = [timers EXCEPT ![t] = s]
  BY <1>1, Zenon
<1>6. s \in timer_t /\ ~s.used
  BY <1>4, SlotFacts, Zenon
<1> HIDE DEF t, s
<1>7. /\ Tail(queue) \in Seq(Timers \cup {Other}) /\ Len(Tail(queue)) <= QueueRoom
      /\ \A u : u # Other => (Waits(u, Tail(queue), "idle") <=> Waits(u, queue, main) /\ u # t)
      /\ Sensible(Tail(queue), "idle") /\ Distinct(Tail(queue), "idle")
  BY <1>2, <1>3, TailFacts, Zenon DEF t
<1>8. t # Other
  BY <1>3, Zenon DEF Slotted
<1>9. Slot(s, t, Tail(queue), held, "idle")
  BY <1>1, <1>2, <1>3, <1>6, <1>7, <1>8, Zenon DEF Slot
<1>10. ASSUME NEW u \in Timers, u # t PROVE Slot(timers[u], u, Tail(queue), held, "idle")
  <2>1. Slot(timers[u], u, queue, held, main) /\ u # Other
    BY Zenon DEF Schedules, Slotted
  <2> QED BY <1>2, <1>7, <1>10, <2>1, Zenon DEF Slot
<1>11. Stands(timers', queue', held', main', timers, t, s)
  BY <1>1, <1>3, <1>4, <1>5, <1>6, <1>7, <1>9, <1>10, Zenon DEF Stands
<1> QED BY <1>11, SlotsStand, Zenon

LEMMA EventDoneKeeps ==
  ASSUME Slotted, Schedules(timers, queue, held, main), Unraced(timers, queue, main), EventDone
  PROVE  Schedules(timers', queue', held', main')
<1> DEFINE t == Head(queue)
           s == IF timers[t].canceled THEN Free ELSE timers[t]
<1>1. /\ timers' = [timers EXCEPT ![t] = s] /\ queue' = Tail(queue) /\ held' = held
      /\ main = "returned" /\ main' = "idle"
  BY Zenon DEF EventDone
<1>2. /\ main # "idle" /\ main \in {"callback", "returned"} /\ "idle" \notin {"callback", "returned"}
      /\ main \in {"on_timer_event", "returned"}
  BY <1>1
<1>3. queue # << >> /\ t \in Timers
  <2> DEFINE T == Timers \cup {Other}
  <2>1. queue \in Seq(T) /\ queue # << >> /\ Head(queue) # Other
    BY <1>2, Zenon DEF Schedules, Sensible
  <2> HIDE DEF T
  <2>2. Head(queue) \in T
    BY <2>1, QueueFacts
  <2> QED BY <2>1, <2>2, Zenon DEF T
<1>4. /\ timers \in [Timers -> timer_t] /\ timers[t] \in timer_t /\ held \subseteq Timers
      /\ Slot(timers[t], t, queue, held, main)
  BY <1>3, Zenon DEF Schedules
<1>5. Free \in timer_t /\ ~Free.used
  BY <1>4, SlotFacts, Zenon
<1>6. s \in timer_t
  BY <1>4, <1>5, Zenon
<1>7. timers[t].canceled => ~Waits(t, queue, main) /\ t \notin held
  BY <1>1, <1>2, <1>4, Zenon DEF Slot, Unraced
<1>8. (timers[t].canceled => ~s.used) /\ (~timers[t].canceled => s = timers[t])
  BY <1>5, Zenon
<1> HIDE DEF t, s
<1>10. /\ Tail(queue) \in Seq(Timers \cup {Other}) /\ Len(Tail(queue)) <= QueueRoom
       /\ \A u : Waits(u, Tail(queue), "idle") <=> Waits(u, queue, main)
       /\ Sensible(Tail(queue), "idle") /\ Distinct(Tail(queue), "idle")
  BY <1>1, <1>3, TailFacts, Zenon
<1>11. Slot(s, t, Tail(queue), held, "idle")
  BY <1>2, <1>4, <1>7, <1>8, <1>10, Zenon DEF Slot
<1>12. ASSUME NEW u \in Timers, u # t PROVE Slot(timers[u], u, Tail(queue), held, "idle")
  <2>1. Slot(timers[u], u, queue, held, main)
    BY Zenon DEF Schedules
  <2> QED BY <1>2, <1>10, <2>1, Zenon DEF Slot
<1>13. Stands(timers', queue', held', main', timers, t, s)
  BY <1>1, <1>3, <1>4, <1>6, <1>10, <1>11, <1>12, Zenon DEF Stands
<1> QED BY <1>13, SlotsStand, Zenon

LEMMA CallbackReturnsKeeps ==
  ASSUME Slotted, Schedules(timers, queue, held, main), CallbackReturns
  PROVE  Schedules(timers', queue', held', main') /\ Unraced(timers', queue', main')
<1> DEFINE t == Head(queue)
           s == [timers[t] EXCEPT !.pending = FALSE]
<1>1. /\ timers' = [timers EXCEPT ![t].pending = FALSE] /\ queue' = queue /\ held' = held
      /\ main = "callback" /\ main' = "returned" /\ t # Other
  BY Zenon DEF CallbackReturns
<1>2. /\ main # "idle" /\ main \in {"callback", "returned"} /\ main # "returned"
      /\ "returned" \in {"callback", "returned"}
      /\ "returned" \in {"idle", "on_timer_event", "callback", "returned", "halted"}
  BY <1>1
<1> DEFINE T == Timers \cup {Other}
<1>3. queue \in Seq(T) /\ queue # << >> /\ Distinct(queue, main)
  BY <1>2, Zenon DEF Schedules, Sensible
<1> HIDE DEF T
<1>4. /\ DOMAIN queue = 1 .. Len(queue) /\ Len(queue) \in Nat /\ Len(queue) > 0 /\ t = queue[1] /\ queue[1] \in T
  BY <1>3, QueueFacts
<1>5. 1 \in 1 .. Len(queue)
  BY <1>4, SMT
<1>6. t \in Timers
  BY <1>1, <1>4, Zenon DEF T
<1>7. /\ timers \in [Timers -> timer_t] /\ timers[t] \in timer_t /\ held \subseteq Timers
      /\ Slot(timers[t], t, queue, held, main) /\ Len(queue) <= QueueRoom /\ queue \in Seq(Timers \cup {Other})
  BY <1>6, Zenon DEF Schedules
<1>8. timers' = [timers EXCEPT ![t] = s]
  BY <1>1, <1>6, <1>7, FieldWritten, Zenon
<1>9. /\ s \in timer_t /\ s.used = timers[t].used /\ s.canceled = timers[t].canceled
      /\ ~s.pending /\ s.irql = timers[t].irql
  BY <1>7, FieldFacts, Zenon
<1> HIDE DEF t, s
<1>10. ~Waits(t, queue, "returned")
  BY <1>1, <1>2, <1>3, <1>4, <1>5, Zenon DEF Waits, Distinct
<1>11. \A u : u # t => (Waits(u, queue, "returned") <=> Waits(u, queue, main))
  BY <1>2, <1>4, Zenon DEF Waits
<1>12. Sensible(queue, "returned") /\ Distinct(queue, "returned")
  BY <1>1, <1>2, <1>3, Zenon DEF Sensible, Distinct, t
<1>13. Slot(s, t, queue, held, "returned")
  BY <1>2, <1>7, <1>9, <1>10, Zenon DEF Slot
<1>14. ASSUME NEW u \in Timers, u # t PROVE Slot(timers[u], u, queue, held, "returned")
  <2>1. Slot(timers[u], u, queue, held, main)
    BY Zenon DEF Schedules
  <2> QED BY <1>2, <1>11, <1>14, <2>1, Zenon DEF Slot
<1>15. Stands(timers', queue', held', main', timers, t, s)
  BY <1>1, <1>6, <1>7, <1>8, <1>9, <1>12, <1>13, <1>14, Zenon DEF Stands
<1>16. timers'[t] = s
  BY <1>6, <1>7, <1>8
<1> QED BY <1>1, <1>9, <1>15, <1>16, SlotsStand, Zenon DEF Unraced, t

\* A timer is cancelled, its event waiting or not.
LEMMA CancelKeeps ==
  ASSUME Slotted, Schedules(timers, queue, held, main), ApplicationCancels
  PROVE  Schedules(timers', queue', held', main')
<1> DEFINE Rest(r) == IF r.pending THEN [r EXCEPT !.canceled = TRUE] ELSE Free
<1>1. PICK t \in held : /\ timers' = [timers EXCEPT ![t] = Rest(timers[t])]
                        /\ held' = held \ {t} /\ queue' = queue /\ main' = main
  BY Zenon DEF ApplicationCancels, Cancel
<1>2. main \in {"idle", "callback"}
  BY Zenon DEF ApplicationCancels, InApplication
<1>3. main # "returned" /\ (main \in {"callback", "returned"} => main = "callback" /\ main # "idle")
  BY <1>2
<1> DEFINE r == timers[t]
           s == Rest(r)
<1>4. /\ t \in Timers /\ timers \in [Timers -> timer_t] /\ r \in timer_t /\ held \subseteq Timers
      /\ Slot(r, t, queue, held, main)
      /\ queue \in Seq(Timers \cup {Other}) /\ Len(queue) <= QueueRoom
      /\ Sensible(queue, main) /\ Distinct(queue, main)
  BY Zenon DEF Schedules
<1>5. timers' = [timers EXCEPT ![t] = s]
  BY <1>1, Zenon
<1>6. /\ s \in timer_t
      /\ r.pending => s.canceled /\ s.used = r.used /\ s.pending = r.pending /\ s.irql = r.irql
      /\ ~r.pending => ~s.used
  <2>1. CASE r.pending
    <3>1. s = [r EXCEPT !.canceled = TRUE]
      BY <2>1, Zenon
    <3> HIDE DEF s, r
    <3> QED BY <1>4, <2>1, <3>1, FieldFacts, Zenon
  <2>2. CASE ~r.pending
    <3>1. s = Free
      BY <2>2, Zenon
    <3> HIDE DEF s, r
    <3> QED BY <1>4, <2>2, <3>1, SlotFacts, Zenon
  <2> QED BY <2>1, <2>2, Zenon
<1> HIDE DEF s, r
<1>7. r.used /\ ~r.canceled
  BY <1>4, Zenon DEF Slot
<1>8. t \notin held'
  BY <1>1, Zenon
<1>9. Slot(s, t, queue, held', main)
  <2>1. CASE r.pending
    BY <1>3, <1>4, <1>6, <1>7, <1>8, <2>1, Zenon DEF Slot
  <2>2. CASE ~r.pending
    <3>1. ~Waits(t, queue, main)
      BY <1>4, <1>7, <2>2, Zenon DEF Slot
    <3>2. ~(main \in {"callback", "returned"} /\ Head(queue) = t)
      <4>1. SUFFICES ASSUME main = "callback", main # "idle", Head(queue) = t PROVE FALSE
        BY <1>3, Zenon
      <4>2. 1 \in DOMAIN queue /\ queue[1] = t
        <5> DEFINE T == Timers \cup {Other}
        <5>1. queue \in Seq(T) /\ queue # << >>
          BY <1>4, <4>1, Zenon DEF Sensible
        <5> HIDE DEF T
        <5>2. DOMAIN queue = 1 .. Len(queue) /\ Len(queue) \in Nat /\ Len(queue) > 0 /\ Head(queue) = queue[1]
          BY <5>1, QueueFacts
        <5>3. 1 \in 1 .. Len(queue)
          BY <5>2, SMT
        <5> QED BY <4>1, <5>2, <5>3, Zenon
      <4> QED BY <1>3, <3>1, <4>2, Zenon DEF Waits
    <3> QED BY <1>6, <1>8, <2>2, <3>1, <3>2, Zenon DEF Slot
  <2> QED BY <2>1, <2>2
<1>10. ASSUME NEW u \in Timers, u # t PROVE Slot(timers[u], u, queue, held', main)
  <2>1. Slot(timers[u], u, queue, held, main)
    BY Zenon DEF Schedules
  <2>2. u \in held' <=> u \in held
    BY <1>1, <1>10, Zenon
  <2> QED BY <2>1, <2>2, Zenon DEF Slot
<1>11. held' \subseteq Timers
  BY <1>1, <1>4, Zenon
<1>12. Stands(timers', queue', held', main', timers, t, s)
  BY <1>1, <1>4, <1>5, <1>6, <1>9, <1>10, <1>11, Zenon DEF Stands
<1> QED BY <1>12, SlotsStand, Zenon

\* A free slot is given to a timer, which times out at once when its period is 0.
LEMMA ScheduleKeeps ==
  ASSUME Slotted, Schedules(timers, queue, held, main),
         NEW period \in Periods, NEW repeatable \in BOOLEAN, NEW irql \in BOOLEAN,
         Schedule(period, repeatable, irql)
  PROVE  Schedules(timers', queue', held', main')
<1> DEFINE new == [used |-> TRUE, repeatable |-> repeatable, canceled |-> FALSE,
                   pending |-> FALSE, irql |-> irql, period |-> period, due |-> period]
<1>1. PICK t \in Timers :
        /\ ~timers[t].used
        /\ LET a == [timers |-> [timers EXCEPT ![t] = new], queue |-> queue]
               e == IF period = 0 THEN on_timer_timeout(a, t, FALSE) ELSE a
           IN  timers' = e.timers /\ queue' = e.queue
        /\ held' = held \cup {t}
  BY Zenon DEF Schedule, Timers
<1>2. main' = main /\ main \in {"idle", "callback"}
  BY Zenon DEF Schedule, InApplication
<1>3. main # "returned"
  BY <1>2
<1>4. /\ new \in timer_t /\ new.used /\ ~new.canceled /\ ~new.pending
      /\ new.irql \in BOOLEAN
  <2>1. period \in Int /\ period \in Periods \cup {0}
    BY DEF Slotted
  <2> QED BY <2>1 DEF timer_t
<1> HIDE DEF new
<1>5. /\ held \subseteq Timers /\ timers \in [Timers -> timer_t]
      /\ Slot(timers[t], t, queue, held, main)
      /\ queue \in Seq(Timers \cup {Other}) /\ Len(queue) <= QueueRoom
      /\ Sensible(queue, main) /\ Distinct(queue, main)
  BY Zenon DEF Schedules
<1>6. ~Waits(t, queue, main) /\ ~(main \in {"callback", "returned"} /\ Head(queue) = t)
  BY <1>1, <1>5, Zenon DEF Slot
<1> DEFINE tm == [timers EXCEPT ![t] = new]
           h == held \cup {t}
<1>7. Slot(new, t, queue, h, main)
  BY <1>4, <1>6, Zenon DEF Slot
<1>8. ASSUME NEW u \in Timers, u # t PROVE Slot(timers[u], u, queue, h, main)
  <2>1. Slot(timers[u], u, queue, held, main)
    BY Zenon DEF Schedules
  <2>2. u \in h <=> u \in held
    BY <1>8, Zenon
  <2> QED BY <2>1, <2>2, Zenon DEF Slot
<1>9. h \subseteq Timers
  BY <1>5, Zenon
<1>10. tm[t] = new /\ tm \in [Timers -> timer_t]
  BY <1>4, <1>5
<1>11. tm = [timers EXCEPT ![t] = new] /\ held' = h
  BY <1>1, Zenon
<1> HIDE DEF tm, h
<1>12. Schedules(tm, queue, h, main)
  <2>1. Stands(tm, queue, h, main, timers, t, new)
    BY <1>4, <1>5, <1>7, <1>8, <1>9, <1>11, Zenon DEF Stands
  <2> QED BY <2>1, SlotsStand, Zenon
<1>13. CASE period # 0
  <2> DEFINE a == [timers |-> tm, queue |-> queue]
  <2>1. a.timers = tm /\ a.queue = queue
    BY PairFacts, Zenon
  <2>2. timers' = a.timers /\ queue' = a.queue
    BY <1>1, <1>11, <1>13, Zenon
  <2>3. timers' = tm /\ queue' = queue
    BY <2>1, <2>2, Zenon
  <2> QED BY <1>2, <1>11, <1>12, <2>3, Zenon
<1>14. CASE period = 0
  <2> DEFINE z == FALSE
             e == on_timer_timeout([timers |-> tm, queue |-> queue], t, z)
  <2>1. timers' = e.timers /\ queue' = e.queue
    BY <1>1, <1>11, <1>14, Zenon
  <2>2. z \in BOOLEAN /\ MayQuit(z, tm[t], t, h) /\ StillHeld(h, h, t, z)
    BY Zenon DEF MayQuit, StillHeld
  <2>3. IsTimeout(e, tm, queue, t, z)
    BY Zenon DEF IsTimeout
  <2> HIDE DEF z, e
  <2>4. Rewrites(e, tm, queue, t, z)
    BY <1>10, <2>2, <2>3, TimeoutFacts, Zenon
  <2>5. PICK s \in timer_t : /\ e.timers = [tm EXCEPT ![t] = s]
                                   /\ TimesOut(s, tm[t], e.queue, queue, t, z)
    BY <2>4, Zenon DEF Rewrites
  <2>6. tm[t].used /\ ~tm[t].pending
    BY <1>4, <1>10, Zenon
  <2>7. Expires(e.timers, e.queue, h, tm, queue, h, main, t, s, z)
    BY <1>12, <2>2, <2>5, <2>6, Zenon DEF Expires
  <2>8. Schedules(e.timers, e.queue, h, main)
    BY <2>7, TimeoutKeeps, Zenon
  <2> QED BY <1>2, <1>11, <2>1, <2>8, Zenon
<1> QED BY <1>13, <1>14

\* The tick interrupt; on_timer_timeout and the rounds of the loop are above.
LEMMA TicksKeep ==
  ASSUME Slotted, Schedules(timers, queue, held, main), Tick
  PROVE  /\ Schedules(timers', queue', held', main')
         /\ Unraced(timers, queue, main) /\ ~raced' => Unraced(timers', queue', main')
<1>1. PICK quit \in SUBSET {t \in held : timers[t].irql /\ timers[t].due = 1} :
        /\ timers' = AllTimersTick(quit).timers
        /\ queue' = AllTimersTick(quit).queue
        /\ held' = held \ quit /\ main' = main
  BY Zenon DEF Tick
<1> DEFINE a == AllTimersTick(quit)
<1>2. timers' = a.timers /\ queue' = a.queue
  BY <1>1, Zenon
<1>3. /\ Schedules(a.timers, a.queue, held \ quit, main)
      /\ \A u \in Timers : Turns(a.timers[u], timers[u])
      /\ Heads(a.queue, queue)
  <2>1. quit \subseteq {t \in held : timers[t].irql /\ timers[t].due = 1}
    OBVIOUS
  <2>2. a = AllTimersTick(quit)
    OBVIOUS
  <2> HIDE DEF a
  <2> QED BY <2>1, <2>2, TickKeeps, Zenon
<1> HIDE DEF a
<1>4. ASSUME Unraced(timers, queue, main), ~raced', main = "returned",
             timers'[Head(queue')].canceled, timers'[Head(queue')].pending
      PROVE  FALSE
  <2> DEFINE t == Head(queue)
  <2>1. main # "idle" /\ main \in {"on_timer_event", "returned"}
    BY <1>4
  <2>2. queue # << >> /\ t \in Timers
    <3> DEFINE T == Timers \cup {Other}
    <3>1. queue \in Seq(T) /\ queue # << >> /\ Head(queue) # Other
      BY <2>1, Zenon DEF Schedules, Sensible
    <3> HIDE DEF T
    <3>2. Head(queue) \in T
      BY <3>1, QueueFacts
    <3> QED BY <3>1, <3>2, Zenon DEF T
  <2>3. Head(queue') = t
    BY <1>2, <1>3, <2>2, Zenon DEF Heads
  <2>4. Turns(timers'[t], timers[t])
    BY <1>2, <1>3, <2>2, Zenon
  <2>5. timers[t].canceled /\ timers'[t].pending
    BY <1>4, <2>3, <2>4, Zenon DEF Turns
  <2>6. ~timers[t].pending
    BY <1>4, <2>5, Zenon DEF Unraced
  <2>7. Posts(t)
    BY <2>4, <2>5, <2>6, Zenon DEF Turns, Posts
  <2>8. raced' <=> \E u \in Timers : Posts(u) /\ timers[u].canceled /\ timers'[u].pending
    BY Zenon DEF Tick
  <2> QED BY <1>4, <2>2, <2>5, <2>7, <2>8, Zenon
<1> QED BY <1>1, <1>2, <1>3, <1>4, Zenon DEF Unraced

LEMMA TimersStart ==
  ASSUME Slotted, Init
  PROVE  Schedules(timers, queue, held, main) /\ main # "returned"
<1>1. /\ timers = [t \in Timers |-> Free] /\ queue = << >> /\ main = "idle" /\ held = {}
  BY Zenon DEF Init, Timers
<1>2. Free \in timer_t /\ ~Free.used
  BY DEF timer_t, Free
<1>3. timers \in [Timers -> timer_t] /\ \A t \in Timers : timers[t] = Free
  BY <1>1, <1>2
<1>4. /\ queue \in Seq(Timers \cup {Other}) /\ Len(queue) <= QueueRoom
      /\ DOMAIN queue = {}
  BY <1>1 DEF Slotted
<1>5. /\ main \in {"idle", "on_timer_event", "callback", "returned", "halted"} /\ main # "returned"
      /\ main \notin {"on_timer_event", "returned"} /\ main \notin {"callback", "returned"}
  BY <1>1
<1>6. Sensible(queue, main) /\ Distinct(queue, main) /\ \A t : ~Waits(t, queue, main)
  BY <1>1, <1>4, <1>5, Zenon DEF Sensible, Distinct, Waits
<1>7. \A t \in Timers : Slot(timers[t], t, queue, held, main)
  BY <1>1, <1>2, <1>3, <1>5, <1>6, Zenon DEF Slot
<1> QED BY <1>1, <1>3, <1>4, <1>5, <1>6, <1>7, Zenon DEF Schedules

\* No step but EventDone and the tick is about a callback that has returned.
LEMMA TimersKeep ==
  ASSUME Slotted, Schedules(timers, queue, held, main), Unraced(timers, queue, main), Next
  PROVE  /\ Schedules(timers', queue', held', main')
         /\ raced' \/ Unraced(timers', queue', main')
         /\ main' = "halted" => main = "halted"
<1>1. CASE Tick
  BY <1>1, TicksKeep, Zenon DEF Tick
<1>2. CASE PostOther
  BY <1>2, PostOtherKeeps, Zenon DEF PostOther
<1>3. CASE ApplicationCancels \/ \E p \in Periods, r, i \in BOOLEAN : Schedule(p, r, i)
  <2>1. main' = main /\ main \in {"idle", "callback"}
    BY <1>3, Zenon DEF Schedule, ApplicationCancels, Cancel, InApplication
  <2>2. main' # "returned"
    BY <2>1
  <2> QED BY <1>3, <2>1, <2>2, CancelKeeps, ScheduleKeeps, Zenon DEF Unraced
<1>4. CASE CallbackReturns
  <2>1. main' = "returned" /\ main' # "halted"
    BY <1>4 DEF CallbackReturns
  <2> QED BY <1>4, <2>1, CallbackReturnsKeeps, Zenon
<1>5. CASE TakeEvent \/ DropCanceled \/ RunCallback \/ EventDone \/ OtherDone
  <2>1. main' \in {"idle", "callback", "on_timer_event"}
    BY <1>5 DEF TakeEvent, DropCanceled, RunCallback, EventDone, OtherDone
  <2>2. main' # "returned" /\ main' # "halted"
    BY <2>1
  <2> QED BY <1>5, <2>2, TakeEventKeeps, DropCanceledKeeps, RunCallbackKeeps, EventDoneKeeps,
             OtherDoneKeeps, Zenon DEF Unraced
<1>6. ~AssertionFails
  BY HeadWaits, Zenon DEF AssertionFails, Asserted
<1>7. CASE Stopped
  BY <1>7, Zenon DEF Stopped, vars
<1> QED BY <1>1, <1>2, <1>3, <1>4, <1>5, <1>6, <1>7, Zenon DEF Next, MainStep

(***************************************************************************)
(* After the race: what is left are the types.                             *)
(***************************************************************************)
LEMMA SchedulesTyped ==
  ASSUME NEW tm, NEW q, NEW h, NEW m, Schedules(tm, q, h, m)
  PROVE  Typed(tm, q, h, m)
BY Zenon DEF Schedules, Typed

LEMMA SlotTyped ==
  ASSUME NEW tm \in [Timers -> timer_t], NEW t, NEW s, t \in Timers => s \in timer_t
  PROVE  [tm EXCEPT ![t] = s] \in [Timers -> timer_t]
OBVIOUS

LEMMA QueueTyped ==
  ASSUME Slotted, NEW tm, NEW q, NEW h, NEW m, Typed(tm, q, h, m), m # "idle"
  PROVE  /\ Tail(q) \in Seq(Timers \cup {Other}) /\ Len(Tail(q)) <= QueueRoom
         /\ Sensible(Tail(q), "idle")
         /\ Head(q) # Other => Head(q) \in Timers
<1> DEFINE T == Timers \cup {Other}
<1>1. q \in Seq(T) /\ Len(q) <= QueueRoom /\ q # << >>
  BY Zenon DEF Typed, Sensible
<1> HIDE DEF T
<1>2. Tail(q) \in Seq(T) /\ Len(Tail(q)) = Len(q) - 1 /\ Len(q) \in Nat /\ Head(q) \in T
  BY <1>1, QueueFacts
<1>3. Len(Tail(q)) <= QueueRoom
  BY <1>1, <1>2, SMT DEF Slotted
<1>4. Sensible(Tail(q), "idle")
  BY DEF Sensible
<1> QED BY <1>2, <1>3, <1>4, Zenon DEF T

\* An event is posted, by an interrupt or by schedule_internal.
LEMMA AppendTyped ==
  ASSUME Slotted, NEW tm, NEW q, NEW h, NEW m, Typed(tm, q, h, m), Len(q) < QueueRoom,
         NEW e \in Timers \cup {Other}
  PROVE  Typed(tm, Append(q, e), h, m)
<1> DEFINE T == Timers \cup {Other}
<1>1. q \in Seq(T) /\ e \in T
  BY Zenon DEF Typed
<1> HIDE DEF T
<1>2. /\ Append(q, e) \in Seq(T) /\ Len(Append(q, e)) = Len(q) + 1
      /\ q # << >> => Head(Append(q, e)) = Head(q)
      /\ Append(q, e) # << >> /\ Len(q) \in Nat
  BY <1>1, AppendFacts, QueueFacts
<1>3. Len(Append(q, e)) <= QueueRoom
  BY <1>2, SMT DEF Slotted
<1>4. m \in {"on_timer_event", "returned"} => m # "idle"
  OBVIOUS
<1> QED BY <1>2, <1>3, <1>4, Zenon DEF Typed, Sensible, T

LEMMA ScheduleTyped ==
  ASSUME Slotted, Typed(timers, queue, held, main),
         NEW period \in Periods, NEW repeatable \in BOOLEAN, NEW irql \in BOOLEAN,
         Schedule(period, repeatable, irql)
  PROVE  Typed(timers', queue', held', main')
<1> DEFINE new == [used |-> TRUE, repeatable |-> repeatable, canceled |-> FALSE,
                   pending |-> FALSE, irql |-> irql, period |-> period, due |-> period]
<1>1. PICK t \in Timers :
        /\ LET a == [timers |-> [timers EXCEPT ![t] = new], queue |-> queue]
               e == IF period = 0 THEN on_timer_timeout(a, t, FALSE) ELSE a
           IN  timers' = e.timers /\ queue' = e.queue
        /\ held' = held \cup {t}
  BY Zenon DEF Schedule, Timers
<1>2. main' = main
  BY Zenon DEF Schedule
<1>3. new \in timer_t
  <2>1. period \in Int /\ period \in Periods \cup {0}
    BY DEF Slotted
  <2> QED BY <2>1 DEF timer_t
<1> HIDE DEF new
<1> DEFINE tm == [timers EXCEPT ![t] = new]
           h == held \cup {t}
<1>4. tm \in [Timers -> timer_t]
  BY <1>3, SlotTyped, Zenon DEF Typed
<1>5. Typed(tm, queue, h, main)
  BY <1>4, Zenon DEF Typed
<1> HIDE DEF tm
<1>6. CASE period # 0
  <2>1. timers' = tm /\ queue' = queue
    BY <1>1, <1>6, PairFacts, Zenon DEF tm
  <2> QED BY <1>1, <1>2, <1>5, <2>1, Zenon
<1>7. CASE period = 0
  <2> DEFINE z == FALSE
             e == on_timer_timeout([timers |-> tm, queue |-> queue], t, z)
  <2>1. timers' = e.timers /\ queue' = e.queue
    BY <1>1, <1>7, Zenon DEF tm
  <2>2. IsTimeout(e, tm, queue, t, z) /\ z \in BOOLEAN
    BY Zenon DEF IsTimeout
  <2> HIDE DEF z, e
  <2>3. Rewrites(e, tm, queue, t, z)
    BY <1>4, <2>2, TimeoutFacts, Zenon
  <2>4. PICK s \in timer_t : /\ e.timers = [tm EXCEPT ![t] = s]
                             /\ TimesOut(s, tm[t], e.queue, queue, t, z)
    BY <2>3, Zenon DEF Rewrites
  <2>5. e.timers \in [Timers -> timer_t]
    BY <1>4, <2>4, SlotTyped, Zenon
  <2>6. e.queue = queue \/ (Len(queue) < QueueRoom /\ e.queue = Append(queue, t))
    BY <2>4, Zenon DEF TimesOut
  <2>7. Typed(e.timers, queue, h, main)
    BY <1>5, <2>5, Zenon DEF Typed
  <2>8. t \in Timers \cup {Other}
    BY Zenon
  <2> HIDE DEF h
  <2>9. Typed(e.timers, e.queue, h, main)
    BY <2>6, <2>7, <2>8, AppendTyped, Zenon
  <2> QED BY <1>1, <1>2, <2>1, <2>9, Zenon DEF h
<1> QED BY <1>6, <1>7

LEMMA TypesKept ==
  ASSUME Slotted, Typed(timers, queue, held, main), Next, ~Tick
  PROVE  Typed(timers', queue', held', main')
<1>1. CASE PostOther
  <2>1. Other \in Timers \cup {Other}
    OBVIOUS
  <2> QED BY <1>1, <2>1, AppendTyped, Zenon DEF PostOther
<1>2. CASE ApplicationCancels
  <2>1. PICK t \in held :
          /\ timers' = [timers EXCEPT ![t] = IF timers[t].pending THEN [timers[t] EXCEPT !.canceled = TRUE]
                                             ELSE Free]
          /\ held' = held \ {t} /\ queue' = queue /\ main' = main
    BY <1>2, Zenon DEF ApplicationCancels, Cancel
  <2>2. timers \in [Timers -> timer_t] /\ timers[t] \in timer_t /\ held' \subseteq Timers
    BY <2>1, Zenon DEF Typed
  <2>3. [timers[t] EXCEPT !.canceled = TRUE] \in timer_t /\ Free \in timer_t
    BY <2>2, FieldFacts, SlotFacts
  <2>4. timers' \in [Timers -> timer_t]
    BY <2>1, <2>2, <2>3, SlotTyped, Zenon
  <2> QED BY <2>1, <2>2, <2>4, Zenon DEF Typed
<1>3. CASE \E p \in Periods, r, i \in BOOLEAN : Schedule(p, r, i)
  BY <1>3, ScheduleTyped, Zenon
<1>4. CASE TakeEvent
  <2> DEFINE m1 == IF Head(queue) = Other THEN "callback" ELSE "on_timer_event"
  <2>1. queue # << >> /\ main' = m1 /\ timers' = timers /\ queue' = queue /\ held' = held
    BY <1>4, Zenon DEF TakeEvent
  <2>2. Sensible(queue, m1)
    BY <2>1 DEF Sensible
  <2> HIDE DEF m1
  <2> QED BY <2>1, <2>2, Zenon DEF Typed
<1>5. CASE AssertionFails \/ RunCallback
  <2>1. main = "on_timer_event" /\ main' \in {"halted", "callback"} /\ timers' = timers /\ queue' = queue /\ held' = held
    BY <1>5 DEF AssertionFails, RunCallback
  <2>2. Sensible(queue, main) => Sensible(queue, main')
    BY <2>1 DEF Sensible
  <2> QED BY <2>1, <2>2, Zenon DEF Typed
<1>6. CASE CallbackReturns
  <2> DEFINE t == Head(queue)
  <2>1. /\ main = "callback" /\ main' = "returned" /\ Head(queue) # Other
        /\ timers' = [timers EXCEPT ![t].pending = FALSE] /\ queue' = queue /\ held' = held
    BY <1>6, Zenon DEF CallbackReturns
  <2>2. Sensible(queue, main) => Sensible(queue, main')
    BY <2>1 DEF Sensible
  <2>3. t \in Timers
    BY <2>1, QueueTyped
  <2> HIDE DEF t
  <2>4. timers \in [Timers -> timer_t]
    BY Zenon DEF Typed
  <2>5. timers' = [timers EXCEPT ![t] = [timers[t] EXCEPT !.pending = FALSE]]
    BY <2>1, <2>3, <2>4, FieldWritten, Zenon
  <2>6. [timers[t] EXCEPT !.pending = FALSE] \in timer_t
    BY <2>3, <2>4, FieldFacts
  <2>7. timers' \in [Timers -> timer_t]
    BY <2>4, <2>5, <2>6, SlotTyped, Zenon
  <2> QED BY <2>1, <2>2, <2>7, Zenon DEF Typed
<1>7. CASE DropCanceled \/ EventDone
  <2> DEFINE t == Head(queue)
  <2>1. /\ main # "idle" /\ main \in {"on_timer_event", "returned"} /\ main' = "idle"
        /\ queue' = Tail(queue) /\ held' = held
    BY <1>7 DEF DropCanceled, EventDone
  <2>2. t \in Timers /\ timers \in [Timers -> timer_t]
    <3>1. Head(queue) # Other
      BY <2>1, Zenon DEF Typed, Sensible
    <3> QED BY <2>1, <3>1, QueueTyped, Zenon DEF Typed
  <2>3. timers' = [timers EXCEPT ![t] = Free] \/ timers' = [timers EXCEPT ![t] = timers[t]]
    BY <1>7, Zenon DEF DropCanceled, EventDone
  <2> HIDE DEF t
  <2>4. Free \in timer_t /\ timers[t] \in timer_t
    BY <2>2, SlotFacts
  <2>5. timers' \in [Timers -> timer_t]
    BY <2>2, <2>3, <2>4, SlotTyped, Zenon
  <2> QED BY <2>1, <2>5, QueueTyped, Zenon DEF Typed
<1>8. CASE OtherDone
  <2>1. main # "idle" /\ main' = "idle" /\ timers' = timers /\ queue' = Tail(queue) /\ held' = held
    BY <1>8 DEF OtherDone
  <2> QED BY <2>1, QueueTyped, Zenon DEF Typed
<1>9. CASE Stopped
  BY <1>9, Zenon DEF Stopped, vars
<1> QED BY <1>1, <1>2, <1>3, <1>4, <1>5, <1>6, <1>7, <1>8, <1>9, Zenon DEF Next, MainStep

(***************************************************************************)
(* The inductive invariant, and what it says.                              *)
(***************************************************************************)
Scheduled ==
  /\ Typed(timers, queue, held, main)
  /\ others \in 0 .. MaxOther /\ raced \in BOOLEAN /\ overrun \in BOOLEAN
  /\ raced \/ (Schedules(timers, queue, held, main) /\ Unraced(timers, queue, main))
  /\ main = "halted" => raced

LEMMA ScheduledAtStart ==
  ASSUME Slotted, Init
  PROVE  Scheduled
<1>1. 0 \in 0 .. MaxOther
  BY SMT DEF Slotted
<1>2. main # "halted" /\ raced \in BOOLEAN /\ overrun \in BOOLEAN /\ others = 0
  BY DEF Init
<1> QED BY <1>1, <1>2, TimersStart, SchedulesTyped, Zenon DEF Scheduled, Unraced

\* The histories, and how many events of others were posted.
LEMMA HistoriesKept ==
  ASSUME Slotted, Scheduled, Next
  PROVE  /\ others' \in 0 .. MaxOther /\ raced' \in BOOLEAN /\ overrun' \in BOOLEAN
         /\ Tick => ~raced
         /\ ~Tick => raced' = raced
<1>1. CASE Tick
  <2> DEFINE B == \E t \in Timers : Posts(t) /\ ~timers'[t].pending
             R == \E t \in Timers : Posts(t) /\ timers[t].canceled /\ timers'[t].pending
  <2>1. others' = others /\ overrun' \in {FALSE, B} /\ raced' = R /\ ~raced
    BY <1>1, Zenon DEF Tick
  <2>2. B \in BOOLEAN /\ R \in BOOLEAN
    OBVIOUS
  <2> HIDE DEF B, R
  <2>3. overrun' \in BOOLEAN
    BY <2>1, <2>2
  <2> QED BY <1>1, <2>1, <2>2, <2>3, Zenon DEF Scheduled
<1>2. CASE PostOther
  <2>1. raced' = raced /\ (overrun' = overrun \/ overrun' = TRUE) /\ (others' = others \/ (others' = others + 1 /\ others < MaxOther))
    BY <1>2, Zenon DEF PostOther
  <2>2. others' \in 0 .. MaxOther
    BY <2>1, SMT DEF Slotted, Scheduled
  <2> QED BY <2>1, <2>2 DEF Scheduled, PostOther, Tick
<1>3. CASE \E p \in Periods, r, i \in BOOLEAN : Schedule(p, r, i)
  <2>0. PICK p \in Periods, r \in BOOLEAN, i \in BOOLEAN : Schedule(p, r, i)
    BY <1>3, Zenon
  <2>1. /\ \E t \in Timers : overrun' \in {FALSE, p = 0 /\ ~i /\ ~timers'[t].pending}
        /\ others' = others /\ raced' = raced
    BY <2>0, Zenon DEF Schedule
  <2>a. PICK t \in Timers : overrun' \in {FALSE, p = 0 /\ ~i /\ ~timers'[t].pending}
    BY <2>1, Zenon
  <2> DEFINE B == p = 0 /\ ~i /\ ~timers'[t].pending
  <2>2. B \in BOOLEAN
    OBVIOUS
  <2>3. overrun' \in {FALSE, B}
    BY <2>a
  <2> HIDE DEF B
  <2>4. overrun' \in BOOLEAN
    BY <2>2, <2>3
  <2> QED BY <2>1, <2>4, Zenon DEF Scheduled, Tick
<1>4. CASE ApplicationCancels \/ MainStep \/ Stopped
  <2>1. others' = others /\ raced' = raced /\ overrun' = overrun
    BY <1>4, Zenon DEF ApplicationCancels, Cancel, MainStep, TakeEvent, AssertionFails, DropCanceled,
       RunCallback, CallbackReturns, EventDone, OtherDone, Stopped, vars
  <2> QED BY <2>1, Zenon DEF Scheduled, Tick
<1> QED BY <1>1, <1>2, <1>3, <1>4, Zenon DEF Next

LEMMA ScheduledKept ==
  ASSUME Slotted, Scheduled, [Next]_vars
  PROVE  Scheduled'
<1>1. CASE Next /\ ~raced
  <2>1. Schedules(timers, queue, held, main) /\ Unraced(timers, queue, main)
    BY <1>1, Zenon DEF Scheduled
  <2>2. /\ Schedules(timers', queue', held', main')
        /\ raced' \/ Unraced(timers', queue', main')
        /\ main' = "halted" => main = "halted"
    BY <1>1, <2>1, TimersKeep, Zenon
  <2>3. Typed(timers', queue', held', main')
    BY <2>2, SchedulesTyped, Zenon
  <2> QED BY <1>1, <2>2, <2>3, HistoriesKept, Zenon DEF Scheduled
<1>2. CASE Next /\ raced
  <2>1. raced' /\ ~Tick
    BY <1>2, HistoriesKept, Zenon
  <2>2. Typed(timers', queue', held', main')
    BY <1>2, <2>1, TypesKept, Zenon DEF Scheduled
  <2> QED BY <1>2, <2>1, <2>2, HistoriesKept, Zenon DEF Scheduled
<1>3. CASE UNCHANGED vars
  BY <1>3, Zenon DEF Scheduled, vars
<1> QED BY <1>1, <1>2, <1>3

LEMMA ScheduledPosts ==
  ASSUME Slotted, Scheduled
  PROVE  /\ PostedOnce /\ HeldIsLive
         /\ raced \/ EventFindsItsTimer
<1>1. CASE raced
  BY <1>1, Zenon DEF PostedOnce, HeldIsLive
<1>2. CASE ~raced
  <2>1. Schedules(timers, queue, held, main)
    BY <1>2, Zenon DEF Scheduled
  <2>2. \A t \in Timers : /\ t \in held <=> timers[t].used /\ ~timers[t].canceled
                          /\ timers[t].used => (timers[t].pending <=> Waits(t, queue, main))
                          /\ Waits(t, queue, main) => timers[t].used
    BY <2>1, Zenon DEF Schedules, Slot
  <2>3. \A t \in Timers : Waiting(t) <=> timers[t].used /\ timers[t].pending
    BY <2>2, Zenon DEF Waiting, Waits
  <2>4. PostedOnce
    BY <2>1, <2>3, Zenon DEF PostedOnce, Schedules, Distinct
  <2>5. \A t \in held : timers[t].used /\ ~timers[t].canceled
    BY <2>1, <2>2, Zenon DEF Schedules
  <2>6. EventFindsItsTimer
    BY <2>1, HeadWaits, Zenon DEF EventFindsItsTimer
  <2> QED BY <2>4, <2>5, <2>6, Zenon DEF HeldIsLive, Scheduled
<1> QED BY <1>1, <1>2

LEMMA ScheduledTyped ==
  ASSUME Scheduled
  PROVE  TypeOK
BY Zenon DEF Scheduled, Typed, Sensible, TypeOK

\* A callback begins only for a timer that is held.
LEMMA CallbackIsHeld ==
  ASSUME Slotted, Scheduled, Next, CallbackBegins
  PROVE  raced \/ Head(queue) \in held
<1>1. SUFFICES ASSUME ~raced PROVE Head(queue) \in held
  BY Zenon
<1>2. Schedules(timers, queue, held, main)
  BY <1>1, Zenon DEF Scheduled
<1>3. main = "on_timer_event" /\ main' = "callback"
  BY Zenon DEF CallbackBegins
<1>4. /\ main # main' /\ main # "idle" /\ main # "callback" /\ main # "returned"
      /\ main \notin {"idle", "callback"} /\ main' # "idle" /\ main' # "halted"
  BY <1>3
<1>5. RunCallback
  BY <1>4, Zenon DEF Next, MainStep, Tick, PostOther, Schedule, ApplicationCancels, Stopped, vars,
     InApplication, TakeEvent, AssertionFails, DropCanceled, CallbackReturns, EventDone, OtherDone
<1> QED BY <1>2, <1>5, RunCallbackKeeps, Zenon

\* The scheduler by itself, with callbacks that cancel any timer, their own
\* included, and a queue that refuses or is overrun: through any interleaving of
\* ticks, calls of the application and steps of the main loop, one event waits for
\* a timer exactly while it is pending, what is held is in use, and the program
\* does not stop at the assertions of scheduler.cpp:88-89; until a tick comes
\* between the lines 96 and 98 and posts for a timer that its own callback has just
\* cancelled.  That is the only way to those assertions.
THEOREM ScheduledHolds ==
  ASSUME Slotted
  PROVE  Spec => []( /\ PostedOnce /\ HeldIsLive
                     /\ (raced \/ EventFindsItsTimer)
                     /\ (main = "halted" => raced) )
<1>1. Init => Scheduled
  BY ScheduledAtStart
<1>2. Scheduled /\ [Next]_vars => Scheduled'
  BY ScheduledKept
<1>3. Scheduled => /\ PostedOnce /\ HeldIsLive
                   /\ (raced \/ EventFindsItsTimer)
                   /\ (main = "halted" => raced)
  BY ScheduledPosts, Zenon DEF Scheduled
<1> QED BY <1>1, <1>2, <1>3, PTL DEF Spec

=============================================================================
