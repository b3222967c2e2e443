--------------------------- MODULE MCBoards_proofs ---------------------------
(***************************************************************************)
(* Theorems about the parts of the test applications, for every size of    *)
(* their buffers and any number of ports, timers, events and frames.       *)
(***************************************************************************)
EXTENDS MCBoards, SequencesExt, TLAPS

-----------------------------------------------------------------------------
LEMMA ConcatRange ==
  ASSUME NEW T, NEW s \in Seq(T), NEW t \in Seq(T)
  PROVE  Range(s \o t) = Range(s) \cup Range(t)
<1>1. /\ DOMAIN (s \o t) = 1 .. Len(s) + Len(t)
      /\ DOMAIN s = 1 .. Len(s) /\ DOMAIN t = 1 .. Len(t) /\ Len(s) \in Nat /\ Len(t) \in Nat
      /\ \A i \in 1 .. Len(s) + Len(t) : (s \o t)[i] = IF i <= Len(s) THEN s[i] ELSE t[i - Len(s)]
  BY SMT
<1>2. ASSUME NEW c, c \in Range(s \o t) PROVE c \in Range(s) \cup Range(t)
  <2>1. PICK i \in 1 .. Len(s) + Len(t) : c = (s \o t)[i]
    BY <1>1, <1>2, Zenon DEF Range
  <2>2. CASE i <= Len(s)
    <3>1. i \in DOMAIN s /\ c = s[i]
      BY <1>1, <2>1, <2>2, SMT
    <3> QED BY <3>1, Zenon DEF Range
  <2>3. CASE ~(i <= Len(s))
    <3>1. i - Len(s) \in DOMAIN t /\ c = t[i - Len(s)]
      BY <1>1, <2>1, <2>3, SMT
    <3> QED BY <3>1, Zenon DEF Range
  <2> QED BY <2>2, <2>3
<1>3. ASSUME NEW c, c \in Range(s) PROVE c \in Range(s \o t)
  <2>1. PICK i \in 1 .. Len(s) : c = s[i]
    BY <1>1, <1>3, Zenon DEF Range
  <2>2. i \in DOMAIN (s \o t) /\ (s \o t)[i] = c
    BY <1>1, <2>1, SMT
  <2> QED BY <2>2, Zenon DEF Range
<1>4. ASSUME NEW c, c \in Range(t) PROVE c \in Range(s \o t)
  <2>1. PICK i \in 1 .. Len(t) : c = t[i]
    BY <1>1, <1>4, Zenon DEF Range
  <2>2. Len(s) + i \in DOMAIN (s \o t) /\ (s \o t)[Len(s) + i] = c
    BY <1>1, <2>1, SMT
  <2> QED BY <2>2, Zenon DEF Range
<1> QED BY <1>2, <1>3, <1>4, Zenon

LEMMA FlattenExists ==
  ASSUME NEW n \in Nat, NEW s
  PROVE  \E f : f = [i \in 1 .. n |-> IF i = 1 THEN s[i] ELSE f[i - 1] \o s[i]]
<1> DEFINE Ok(k, f) == f = [i \in 1 .. k |-> IF i = 1 THEN s[i] ELSE f[i - 1] \o s[i]]
           S == {k \in Nat : \E f : Ok(k, f)}
<1>1. 0 \in S
  <2> DEFINE f == [i \in 1 .. 0 |-> s[i]]
  <2>1. Ok(0, f)
    BY SMT
  <2> QED BY <2>1, Zenon
<1>2. ASSUME NEW k \in Nat, k \in S
      PROVE  k + 1 \in S
  <2>1. PICK f : Ok(k, f)
    BY <1>2, Zenon
  <2> DEFINE g == [i \in 1 .. k + 1 |-> IF i = 1 THEN s[i] ELSE f[i - 1] \o s[i]]
  <2>2. ASSUME NEW i \in 1 .. k + 1
        PROVE  g[i] = IF i = 1 THEN s[i] ELSE g[i - 1] \o s[i]
    <3>1. CASE i = 1
      BY <3>1
    <3>2. CASE i # 1
      <4>1. i - 1 \in 1 .. k /\ i - 1 \in 1 .. k + 1
        BY <3>2, SMT
      <4>2. g[i - 1] = f[i - 1]
        <5>1. f[i - 1] = IF i - 1 = 1 THEN s[i - 1] ELSE f[(i - 1) - 1] \o s[i - 1]
          BY <2>1, <4>1, Zenon
        <5> QED BY <5>1, <4>1, Zenon
      <4> QED BY <4>2, <3>2, Zenon
    <3> QED BY <3>1, <3>2
  <2>3. Ok(k + 1, g)
    BY <2>2, Zenon
  <2>4. k + 1 \in Nat
    OBVIOUS
  <2> QED BY <2>3, <2>4, Zenon
<1> HIDE DEF S
<1>3. Nat \subseteq S
  BY <1>1, <1>2, Timers!InductionNat, Zenon
<1> QED BY <1>3, Zenon DEF S

LEMMA FlattenFacts ==
  ASSUME NEW T, NEW n \in Nat, NEW s \in [1 .. n -> Seq(T)]
  PROVE  /\ FlattenSeq(s) \in Seq(T)
         /\ \A c : c \in Range(FlattenSeq(s)) <=> \E i \in 1 .. n : c \in Range(s[i])
<1>0. s \in Seq(Seq(T)) /\ Len(s) = n
  BY SMT
<1>1. CASE n = 0
  <2>1. FlattenSeq(s) = << >>
    BY <1>0, <1>1, SMT DEF FlattenSeq
  <2> QED BY <1>1, <2>1, SMT DEF Range
<1>2. CASE n # 0
  <2> DEFINE f == CHOOSE g : g = [i \in 1 .. n |-> IF i = 1 THEN s[i] ELSE g[i - 1] \o s[i]]
  <2>1. f = [i \in 1 .. n |-> IF i = 1 THEN s[i] ELSE f[i - 1] \o s[i]]
    BY FlattenExists, Zenon
  <2>2. FlattenSeq(s) = f[n]
    BY <1>0, <1>2, Zenon DEF FlattenSeq
  <2> HIDE DEF f
  <2> DEFINE Right(k) == /\ f[k] \in Seq(T)
                         /\ \A c : c \in Range(f[k]) <=> \E i \in 1 .. k : c \in Range(s[i])
             S == {k \in Nat : k + 1 <= n => Right(k + 1)}
  <2>3. 0 \in S
    <3>1. f[1] = s[1]
      BY <2>1, <1>2, SMT
    <3>2. s[1] \in Seq(T)
      BY <1>2, SMT
    <3>3. \A c : c \in Range(f[1]) <=> \E i \in 1 .. 1 : c \in Range(s[i])
      BY <3>1, SMT
    <3>4. Right(1)
      BY <3>1, <3>2, <3>3, Zenon
    <3> QED BY <3>4, SMT
  <2>4. ASSUME NEW k \in Nat, k \in S
        PROVE  k + 1 \in S
    <3>1. SUFFICES ASSUME k + 2 <= n PROVE Right(k + 2)
      BY SMT
    <3>2. Right(k + 1)
      BY <2>4, <3>1, SMT
    <3>3. f[k + 2] = f[k + 1] \o s[k + 2]
      <4>1. k + 2 \in 1 .. n /\ k + 2 # 1 /\ (k + 2) - 1 = k + 1
        BY <3>1, SMT
      <4> QED BY <2>1, <4>1, Zenon
    <3>4. s[k + 2] \in Seq(T)
      BY <3>1, SMT
    <3>5. Range(f[k + 2]) = Range(f[k + 1]) \cup Range(s[k + 2])
      <4>1. Range(f[k + 1] \o s[k + 2]) = Range(f[k + 1]) \cup Range(s[k + 2])
        <5>1. f[k + 1] \in Seq(T)
          BY <3>2
        <5> HIDE DEF Right
        <5> QED BY <5>1, <3>4, ConcatRange
      <4> QED BY <3>3, <4>1, Zenon
    <3>6. 1 .. k + 2 = (1 .. k + 1) \cup {k + 2}
      BY SMT
    <3>7. f[k + 2] \in Seq(T)
      BY <3>2, <3>3, <3>4, SMT
    <3> QED BY <3>2, <3>5, <3>6, <3>7, Zenon
  <2> HIDE DEF S
  <2>5. Nat \subseteq S
    BY <2>3, <2>4, Timers!InductionNat, Zenon
  <2>6. n - 1 \in Nat /\ (n - 1) + 1 = n
    BY <1>2, SMT
  <2>7. Right(n)
    BY <2>5, <2>6, SMT DEF S
  <2> QED BY <2>2, <2>7, Zenon
<1> QED BY <1>1, <1>2

-----------------------------------------------------------------------------
(***************************************************************************)
(* The theorems of three of the parts, for every size, event and period.   *)
(***************************************************************************)
\* A part's invariant holds while the behaviour is about that part.
LEMMA QueueKept ==
  ASSUME Queue!Sized, which = "queue" => Queue!Kept, [Next]_all
  PROVE  (which = "queue" => Queue!Kept)'
<1>1. CASE which = "queue"
  <2>1. Queue!Kept /\ [Queue!Next]_(Queue!vars)
    BY <1>1, Zenon DEF Next, In, all, Queue!vars
  <2> QED BY <2>1, Queue!RingKept, Zenon
<1>2. CASE which # "queue"
  BY <1>2, Zenon DEF Next, In, all
<1> QED BY <1>1, <1>2

LEMMA ClockKept ==
  ASSUME Clock!Leisurely, which = "clock" => Clock!OnTime, [Next]_all
  PROVE  (which = "clock" => Clock!OnTime)'
<1>1. CASE which = "clock"
  <2>1. Clock!OnTime /\ [Clock!Next]_(Clock!vars)
    BY <1>1, Zenon DEF Next, In, all, Clock!vars
  <2> QED BY <2>1, Clock!OnTimeKept, Zenon
<1>2. CASE which # "clock"
  BY <1>2, Zenon DEF Next, In, all
<1> QED BY <1>1, <1>2

LEMMA TimersKept ==
  ASSUME Timers!Slotted, which = "timers" => Timers!Scheduled, [Next]_all
  PROVE  (which = "timers" => Timers!Scheduled)'
<1>1. CASE which = "timers"
  <2>1. Timers!Scheduled /\ [Timers!Next]_(Timers!vars)
    BY <1>1, Zenon DEF Next, In, all, Timers!vars
  <2> QED BY <2>1, Timers!ScheduledKept, Zenon
<1>2. CASE which # "timers"
  BY <1>2, Zenon DEF Next, In, all
<1> QED BY <1>1, <1>2

LEMMA QueueStarts ==
  ASSUME Queue!Sized
  PROVE  Init => (which = "queue" => Queue!Kept)
<1>1. ASSUME Queue!Init
      PROVE  Queue!Kept
  <2>1. Queue!Ring
    BY <1>1, Queue!RingAtStart, Zenon
  <2> QED BY <2>1, Zenon DEF Queue!Kept, Queue!Ring
<1> QED BY <1>1, Zenon DEF Init

\* Until a push for which there is no room overruns the queue, the words of an
\* event stay untouched while its callback runs, in a buffer of any size, however
\* pushes wrap and fall between the steps of event_queue_pop_all (event_queue.cpp).
THEOREM PayloadUntouchedHolds ==
  ASSUME Queue!Sized
  PROVE  Spec => []PayloadUntouched
<1>1. Init => (which = "queue" => Queue!Kept)
  BY QueueStarts
<1>2. (which = "queue" => Queue!Kept) /\ [Next]_all => (which = "queue" => Queue!Kept)'
  BY QueueKept
<1>3. (which = "queue" => Queue!Kept) => PayloadUntouched
  <2>1. ASSUME Queue!Ring
        PROVE  Queue!PayloadIntact
    BY <2>1, Queue!RingPayload, Zenon
  <2> QED BY <2>1, Zenon DEF PayloadUntouched, Queue!Kept, Queue!PayloadUntouched
<1> QED BY <1>1, <1>2, <1>3, PTL DEF Spec

\* A queue that was emptied, and never overrun, takes any event wherever its
\* pointers stand, if no event takes more than half of the buffer and half a word
\* (scheduler.cpp:120-126 and event_queue.cpp).
THEOREM TakesAnyWhenEmptyHolds ==
  ASSUME Queue!Sized, Queue!Roomy
  PROVE  Spec => []TakesAnyWhenEmpty
<1>1. Init => (which = "queue" => Queue!Kept)
  BY QueueStarts
<1>2. (which = "queue" => Queue!Kept) /\ [Next]_all => (which = "queue" => Queue!Kept)'
  BY QueueKept
<1>3. (which = "queue" => Queue!Kept) => TakesAnyWhenEmpty
  <2>1. ASSUME Queue!Ring
        PROVE  Queue!TakesAnyWhenEmpty
    BY <2>1, Queue!RingTakesAny, Zenon
  <2> QED BY <2>1, Zenon DEF TakesAnyWhenEmpty, Queue!Kept, Queue!TakesAnyWhenEmpty
<1> QED BY <1>1, <1>2, <1>3, PTL DEF Spec

\* With any number of slots and any periods, through any interleaving of ticks,
\* calls of the application and of the callbacks, and steps of the main loop, a
\* timer has one event in the queue exactly while it is pending, and what the
\* application holds, or an event is posted for, is a timer in use; until a timer
\* that its own callback has cancelled is posted again between the lines 96 and 98
\* of scheduler.cpp (88, 89, 148 and 225).
THEOREM PostedOnceHolds ==
  ASSUME Timers!Slotted
  PROVE  Spec => []PostedOnce
<1>1. Init => (which = "timers" => Timers!Scheduled)
  BY Timers!ScheduledAtStart, Zenon DEF Init
<1>2. (which = "timers" => Timers!Scheduled) /\ [Next]_all => (which = "timers" => Timers!Scheduled)'
  BY TimersKept
<1>3. (which = "timers" => Timers!Scheduled) => PostedOnce
  BY Timers!ScheduledPosts, Zenon DEF PostedOnce
<1> QED BY <1>1, <1>2, <1>3, PTL DEF Spec

\* Until that race of a callback with the tick, the callback of a timer that was
\* cancelled is never called afterwards, though its event may wait in the queue
\* when it is cancelled, or it is its own callback that cancels it
\* (scheduler.cpp:91-98).
THEOREM QuietOnceCancelledHolds ==
  ASSUME Timers!Slotted
  PROVE  Spec => QuietOnceCancelled
<1>1. Init => (which = "timers" => Timers!Scheduled)
  BY Timers!ScheduledAtStart, Zenon DEF Init
<1>2. (which = "timers" => Timers!Scheduled) /\ [Next]_all => (which = "timers" => Timers!Scheduled)'
  BY TimersKept
<1>3. (which = "timers" => Timers!Scheduled) /\ [Next]_all
        => [which = "timers" /\ Timers!CallbackBegins => x6 \/ Head(x2) \in x4]_all
  <2> SUFFICES ASSUME Timers!Scheduled, Next, which = "timers", Timers!CallbackBegins
               PROVE  x6 \/ Head(x2) \in x4
    BY Zenon DEF all
  <2>1. Timers!Next
    BY Zenon DEF Next, In
  <2> QED BY <2>1, Timers!CallbackIsHeld, Zenon
<1> QED BY <1>1, <1>2, <1>3, PTL DEF Spec, QuietOnceCancelled

\* The main loop of the TM4C129 board keeps its times, for every clock that does not
\* come round, and all periods that are long against a pass of the loop.
THEOREM InTimeHolds ==
  ASSUME Clock!Leisurely
  PROVE  Spec => []InTime
<1>1. Init => (which = "clock" => Clock!OnTime)
  BY Clock!OnTimeAtStart, Zenon DEF Init
<1>2. (which = "clock" => Clock!OnTime) /\ [Next]_all => (which = "clock" => Clock!OnTime)'
  BY ClockKept
<1>3. (which = "clock" => Clock!OnTime) => InTime
  BY Clock!OnTimeIsInTime, Zenon DEF InTime
<1> QED BY <1>1, <1>2, <1>3, PTL DEF Spec

-----------------------------------------------------------------------------
(***************************************************************************)
(* The applications.  All five see the library through LibraryCalls, with  *)
(* the same first six variables.                                           *)
(***************************************************************************)
Lib == INSTANCE LibraryCalls WITH
  started <- x1, portEnabled <- x2, learning <- x3, forwarding <- x4, calling <- x5,
  callbacks <- x6

\* The ports are numbered from 1.
Numbered == \E n \in Nat : Ports = 1 .. n

BridgeCallbacks == [to : {"trapping", "started"}, port : {0}, enable : BOOLEAN]
PortCallbacks   == [to : {"learning", "forwarding", "flush"}, port : Ports, enable : BOOLEAN]

\* Whether the call that is running has still to do this, ...
Asks(to, p, enable) == Lib!Callback(to, p, enable) \in Range(x6)

\* ... and what learning, forwarding and started will be when it has done all.
WillLearn(p)   == Asks("learning", p, TRUE) \/ (x3[p] /\ ~Asks("learning", p, FALSE))
WillForward(p) == Asks("forwarding", p, TRUE) \/ (x4[p] /\ ~Asks("forwarding", p, FALSE))
WillRun        == Asks("started", 0, TRUE) \/ (x1 /\ ~Asks("started", 0, FALSE))

\* A port that will forward will learn.
ForwardingLearns == \A p \in Ports : WillForward(p) => WillLearn(p)

(***************************************************************************)
(* A call asks for each thing in one sense only; trapping is asked for as  *)
(* the bridge will be.                                                     *)
(***************************************************************************)
Consistent ==
  /\ x1 \in BOOLEAN /\ x3 \in [Ports -> BOOLEAN] /\ x4 \in [Ports -> BOOLEAN]
  /\ x6 \in Seq(BridgeCallbacks \cup PortCallbacks)
  /\ x5 = Lib!None => x6 = << >>
  /\ ~(Asks("started", 0, TRUE) /\ Asks("started", 0, FALSE))
  /\ \A p \in Ports : /\ ~(Asks("learning", p, TRUE) /\ Asks("learning", p, FALSE))
                     /\ ~(Asks("forwarding", p, TRUE) /\ Asks("forwarding", p, FALSE))
  /\ ForwardingLearns
  /\ Asks("trapping", 0, TRUE) => WillRun
  /\ Asks("trapping", 0, FALSE) => ~WillRun

\* Before the application starts the bridge, and after it has stopped it.
Pristine == x5 = Lib!None /\ ~x1 /\ \A p \in Ports : ~x3[p] /\ ~x4[p]
Restored == ~WillRun => \A p \in Ports : WillForward(p)

\* The steps of LibraryCalls, but for the start, the stop and what a callback does:
\* a call, a machine that enters a state or flushes, the return; and with the stop.
Moves ==
  \/ \E name : Lib!Call(name, << >>)
  \/ Lib!MachineStep
  \/ Lib!Return
  \/ UNCHANGED <<x1, x3, x4, x5, x6>>
Proceeds == Lib!STP_StopBridge \/ Moves

-----------------------------------------------------------------------------
\* What an empty and what a short list asks for.
LEMMA AsksNothing ==
  ASSUME x6 = << >>
  PROVE  \A to, p, e : ~Asks(to, p, e)
<1>1. Range(x6) = {}
  BY SMT DEF Range
<1> QED BY <1>1, Zenon DEF Asks

LEMMA RangeOfOne ==
  ASSUME NEW c
  PROVE  Range(<<c>>) = {c}
  BY SMT DEF Range

LEMMA ShortSeq ==
  ASSUME NEW T, NEW c \in T, NEW d \in T
  PROVE  << >> \in Seq(T) /\ <<c>> \in Seq(T) /\ <<c, d>> \in Seq(T)
  BY SMT

LEMMA RangeOfTwo ==
  ASSUME NEW c, NEW d
  PROVE  Range(<<c, d>>) = {c, d}
<1>1. DOMAIN <<c, d>> = {1, 2}
  BY SMT
<1>2. <<c, d>>[1] = c /\ <<c, d>>[2] = d
  OBVIOUS
<1> QED BY <1>1, <1>2, Zenon DEF Range

LEMMA RangeOfTail ==
  ASSUME NEW T, NEW s \in Seq(T), s # << >>
  PROVE  /\ Head(s) \in T /\ Tail(s) \in Seq(T)
         /\ Range(s) = {Head(s)} \cup Range(Tail(s))
<1>1. /\ Len(s) \in Nat \ {0} /\ DOMAIN s = 1 .. Len(s) /\ Head(s) = s[1]
      /\ Tail(s) \in Seq(T) /\ DOMAIN Tail(s) = 1 .. Len(s) - 1
      /\ \A i \in 1 .. Len(s) - 1 : Tail(s)[i] = s[i + 1]
  BY SMT
<1>2. Head(s) \in T /\ Head(s) \in Range(s)
  <2>1. 1 \in DOMAIN s /\ s[1] \in T
    BY <1>1, SMT
  <2> QED BY <1>1, <2>1, Zenon DEF Range
<1>3. ASSUME NEW c \in Range(Tail(s)) PROVE c \in Range(s)
  <2>1. PICK i \in 1 .. Len(s) - 1 : c = Tail(s)[i]
    BY <1>1, Zenon DEF Range
  <2>2. i + 1 \in DOMAIN s /\ c = s[i + 1]
    BY <1>1, <2>1, SMT
  <2> QED BY <2>2, Zenon DEF Range
<1>4. ASSUME NEW c \in Range(s), c # Head(s) PROVE c \in Range(Tail(s))
  <2>1. PICK i \in 1 .. Len(s) : c = s[i]
    BY <1>1, Zenon DEF Range
  <2>2. i - 1 \in DOMAIN Tail(s) /\ c = Tail(s)[i - 1]
    BY <1>1, <1>4, <2>1, SMT
  <2> QED BY <2>2, Zenon DEF Range
<1> QED BY <1>1, <1>2, <1>3, <1>4, Zenon

-----------------------------------------------------------------------------
\* What the start and the stop of the bridge ask for.
LEMMA StartAsks ==
  ASSUME Numbered, Lib!STP_StartBridge
  PROVE  /\ x6' \in Seq(BridgeCallbacks \cup PortCallbacks)
         /\ Range(x6)' = {Lib!Callback("trapping", 0, TRUE), Lib!Callback("started", 0, TRUE)}
              \cup {Lib!Callback("learning", p, FALSE) : p \in Ports}
              \cup {Lib!Callback("forwarding", p, FALSE) : p \in Ports}
<1> DEFINE T == BridgeCallbacks \cup PortCallbacks
           First == <<Lib!Callback("trapping", 0, TRUE), Lib!Callback("started", 0, TRUE)>>
           s == [p \in Ports |-> <<Lib!Callback("learning", p, FALSE),
                                   Lib!Callback("forwarding", p, FALSE)>>]
<1>1. x6' = First \o FlattenSeq(s)
  <2>1. \A p \in Ports : Lib!EnterState(p, "DISCARDING") = s[p]
    BY Zenon DEF Lib!EnterState
  <2>2. [p \in Ports |-> Lib!EnterState(p, "DISCARDING")] = s
    BY <2>1, Zenon
  <2>3. x6' = First \o Lib!FlattenSeq([p \in Ports |-> Lib!EnterState(p, "DISCARDING")])
    BY Zenon DEF Lib!STP_StartBridge, Lib!Call, Lib!ForAllPorts
  <2>4. Lib!FlattenSeq(s) = FlattenSeq(s)
    BY Zenon DEF Lib!FlattenSeq, FlattenSeq
  <2> QED BY <2>2, <2>3, <2>4, Zenon
<1>2. First \in Seq(T) /\ Range(First) = {Lib!Callback("trapping", 0, TRUE), Lib!Callback("started", 0, TRUE)}
  <2>1. Lib!Callback("trapping", 0, TRUE) \in T /\ Lib!Callback("started", 0, TRUE) \in T
    BY SMT DEF Lib!Callback, BridgeCallbacks
  <2> HIDE DEF T
  <2>2. First \in Seq(T)
    BY <2>1, ShortSeq, Zenon
  <2> QED BY <2>2, RangeOfTwo, Zenon
<1>3. s \in [Ports -> Seq(T)]
  <2>1. ASSUME NEW p \in Ports
        PROVE  Lib!Callback("learning", p, FALSE) \in T /\ Lib!Callback("forwarding", p, FALSE) \in T
    BY SMT DEF Lib!Callback, PortCallbacks
  <2> HIDE DEF T
  <2>2. ASSUME NEW p \in Ports
        PROVE  <<Lib!Callback("learning", p, FALSE), Lib!Callback("forwarding", p, FALSE)>> \in Seq(T)
    BY <2>1, ShortSeq, Zenon
  <2> QED BY <2>2, Zenon
<1> HIDE DEF T
<1>4. PICK n \in Nat : Ports = 1 .. n
  BY Zenon DEF Numbered
<1>5. /\ FlattenSeq(s) \in Seq(T)
      /\ \A c : c \in Range(FlattenSeq(s)) <=> \E p \in Ports : c \in Range(s[p])
  BY <1>3, <1>4, FlattenFacts, Zenon
<1>6. \A p \in Ports : Range(s[p]) = {Lib!Callback("learning", p, FALSE), Lib!Callback("forwarding", p, FALSE)}
  BY RangeOfTwo, Zenon
<1> HIDE DEF s, First
<1>7. Range(x6') = Range(First) \cup Range(FlattenSeq(s)) /\ x6' \in Seq(T)
  <2>1. First \in Seq(T) /\ FlattenSeq(s) \in Seq(T)
    BY <1>2, <1>5
  <2>2. First \o FlattenSeq(s) \in Seq(T)
    BY <2>1
  <2>3. Range(First \o FlattenSeq(s)) = Range(First) \cup Range(FlattenSeq(s))
    BY <2>1, ConcatRange
  <2> QED BY <1>1, <2>2, <2>3, Zenon
<1>8. \A c : c \in Range(x6)' <=>
        \/ c = Lib!Callback("trapping", 0, TRUE) \/ c = Lib!Callback("started", 0, TRUE)
        \/ \E p \in Ports : c = Lib!Callback("learning", p, FALSE) \/ c = Lib!Callback("forwarding", p, FALSE)
  <2>1. ASSUME NEW c
        PROVE  c \in Range(First) <=> c = Lib!Callback("trapping", 0, TRUE) \/ c = Lib!Callback("started", 0, TRUE)
    BY <1>2, Zenon
  <2>2. ASSUME NEW c, NEW p \in Ports
        PROVE  c \in Range(s[p]) <=> c = Lib!Callback("learning", p, FALSE) \/ c = Lib!Callback("forwarding", p, FALSE)
    BY <1>6, Zenon
  <2>3. ASSUME NEW c
        PROVE  c \in Range(x6') <=> c \in Range(First) \/ \E p \in Ports : c \in Range(s[p])
    BY <1>5, <1>7, Zenon
  <2> QED BY <2>1, <2>2, <2>3, Zenon
<1> QED BY <1>7, <1>8, Zenon DEF T

LEMMA StopAsks ==
  ASSUME Numbered, Lib!STP_StopBridge
  PROVE  /\ x6' \in Seq(BridgeCallbacks \cup PortCallbacks)
         /\ Range(x6)' = {Lib!Callback("trapping", 0, FALSE), Lib!Callback("started", 0, FALSE)}
              \cup {Lib!Callback("learning", p, TRUE) : p \in {q \in Ports : ~x3[q]}}
              \cup {Lib!Callback("forwarding", p, TRUE) : p \in {q \in Ports : ~x4[q]}}
<1> DEFINE T == BridgeCallbacks \cup PortCallbacks
           First == <<Lib!Callback("trapping", 0, FALSE)>>
           Last_ == <<Lib!Callback("started", 0, FALSE)>>
           l(p) == IF x3[p] THEN << >> ELSE <<Lib!Callback("learning", p, TRUE)>>
           f(p) == IF x4[p] THEN << >> ELSE <<Lib!Callback("forwarding", p, TRUE)>>
           s == [p \in Ports |-> l(p) \o f(p)]
<1>1. x6' = First \o FlattenSeq(s) \o Last_
  <2>1. x6' = First \o Lib!FlattenSeq(s) \o Last_
    BY Zenon DEF Lib!STP_StopBridge, Lib!Call, Lib!ForAllPorts
  <2>2. Lib!FlattenSeq(s) = FlattenSeq(s)
    BY Zenon DEF Lib!FlattenSeq, FlattenSeq
  <2> QED BY <2>1, <2>2, Zenon
<1>2. /\ First \in Seq(T) /\ Range(First) = {Lib!Callback("trapping", 0, FALSE)}
      /\ Last_ \in Seq(T) /\ Range(Last_) = {Lib!Callback("started", 0, FALSE)}
  <2>1. Lib!Callback("trapping", 0, FALSE) \in T /\ Lib!Callback("started", 0, FALSE) \in T
    BY SMT DEF Lib!Callback, BridgeCallbacks
  <2> HIDE DEF T
  <2>2. First \in Seq(T) /\ Last_ \in Seq(T)
    BY <2>1, ShortSeq, Zenon
  <2> QED BY <2>2, RangeOfOne, Zenon
<1>3. ASSUME NEW p \in Ports
      PROVE  /\ l(p) \in Seq(T) /\ f(p) \in Seq(T)
             /\ Range(l(p)) = IF x3[p] THEN {} ELSE {Lib!Callback("learning", p, TRUE)}
             /\ Range(f(p)) = IF x4[p] THEN {} ELSE {Lib!Callback("forwarding", p, TRUE)}
  <2>1. Lib!Callback("learning", p, TRUE) \in T /\ Lib!Callback("forwarding", p, TRUE) \in T
    BY SMT DEF Lib!Callback, PortCallbacks
  <2> HIDE DEF T
  <2>2. /\ << >> \in Seq(T) /\ <<Lib!Callback("learning", p, TRUE)>> \in Seq(T)
        /\ <<Lib!Callback("forwarding", p, TRUE)>> \in Seq(T)
    BY <2>1, ShortSeq, Zenon
  <2>3. Range(<< >>) = {}
    BY SMT DEF Range
  <2> QED BY <2>2, <2>3, RangeOfOne, Zenon
<1> HIDE DEF l, f, T, First, Last_
<1>4. s \in [Ports -> Seq(T)]
  <2>1. ASSUME NEW p \in Ports PROVE l(p) \o f(p) \in Seq(T)
    <3>1. l(p) \in Seq(T) /\ f(p) \in Seq(T)
      BY <1>3
    <3> QED BY <3>1
  <2> QED BY <2>1, Zenon
<1>5. ASSUME NEW p \in Ports
      PROVE  Range(s[p]) = Range(l(p)) \cup Range(f(p))
  <2>1. l(p) \in Seq(T) /\ f(p) \in Seq(T)
    BY <1>3
  <2>2. Range(l(p) \o f(p)) = Range(l(p)) \cup Range(f(p))
    BY <2>1, ConcatRange
  <2> QED BY <2>2, Zenon
<1>6. PICK n \in Nat : Ports = 1 .. n
  BY Zenon DEF Numbered
<1>7. /\ FlattenSeq(s) \in Seq(T)
      /\ \A c : c \in Range(FlattenSeq(s)) <=> \E p \in Ports : c \in Range(s[p])
  BY <1>4, <1>6, FlattenFacts, Zenon
<1> HIDE DEF s
<1>a. First \in Seq(T) /\ Last_ \in Seq(T) /\ FlattenSeq(s) \in Seq(T)
  BY <1>2, <1>7
<1>8. /\ First \o FlattenSeq(s) \in Seq(T)
      /\ Range(First \o FlattenSeq(s)) = Range(First) \cup Range(FlattenSeq(s))
  BY <1>a, ConcatRange
<1>9. /\ x6' \in Seq(T)
      /\ Range(x6') = Range(First) \cup Range(FlattenSeq(s)) \cup Range(Last_)
  <2> DEFINE u == First \o FlattenSeq(s)
  <2>1. u \in Seq(T)
    BY <1>8
  <2> HIDE DEF u
  <2>2. u \o Last_ \in Seq(T) /\ Range(u \o Last_) = Range(u) \cup Range(Last_)
    BY <2>1, <1>a, ConcatRange
  <2> QED BY <1>1, <1>8, <2>2, Zenon DEF u
<1>10. \A c : c \in Range(FlattenSeq(s)) <=> \E p \in Ports :
         \/ ~x3[p] /\ c = Lib!Callback("learning", p, TRUE)
         \/ ~x4[p] /\ c = Lib!Callback("forwarding", p, TRUE)
  <2>1. ASSUME NEW c, NEW p \in Ports
        PROVE  c \in Range(s[p]) <=> (\/ ~x3[p] /\ c = Lib!Callback("learning", p, TRUE)
                                      \/ ~x4[p] /\ c = Lib!Callback("forwarding", p, TRUE))
    <3>1. c \in Range(l(p)) <=> ~x3[p] /\ c = Lib!Callback("learning", p, TRUE)
      BY <1>3, Zenon
    <3>2. c \in Range(f(p)) <=> ~x4[p] /\ c = Lib!Callback("forwarding", p, TRUE)
      BY <1>3, Zenon
    <3> QED BY <1>5, <3>1, <3>2, Zenon
  <2> QED BY <1>7, <2>1, Zenon
<1>11. \A c : c \in Range(x6)' <=>
         \/ c = Lib!Callback("trapping", 0, FALSE) \/ c = Lib!Callback("started", 0, FALSE)
         \/ \E p \in Ports : \/ ~x3[p] /\ c = Lib!Callback("learning", p, TRUE)
                             \/ ~x4[p] /\ c = Lib!Callback("forwarding", p, TRUE)
  BY <1>2, <1>9, <1>10, Zenon
<1> QED BY <1>9, <1>11, Zenon DEF T

-----------------------------------------------------------------------------
LEMMA CallbacksDiffer ==
  ASSUME NEW a, NEW p, NEW d, NEW b, NEW q, NEW e
  PROVE  Lib!Callback(a, p, d) = Lib!Callback(b, q, e) <=> a = b /\ p = q /\ d = e
<1>1. /\ Lib!Callback(a, p, d).to = a /\ Lib!Callback(a, p, d).port = p /\ Lib!Callback(a, p, d).enable = d
      /\ Lib!Callback(b, q, e).to = b /\ Lib!Callback(b, q, e).port = q /\ Lib!Callback(b, q, e).enable = e
  BY Zenon DEF Lib!Callback
<1> QED BY <1>1, Zenon

\* 0 is no port.
LEMMA ZeroIsNoPort ==
  ASSUME Numbered
  PROVE  0 \notin Ports
  BY SMT DEF Numbered

\* Every callback is one of these.
LEMMA CallbackCases ==
  ASSUME NEW c \in BridgeCallbacks \cup PortCallbacks
  PROVE  /\ c = Lib!Callback(c.to, c.port, c.enable)
         /\ c.enable \in BOOLEAN
         /\ \/ c.to \in {"trapping", "started"} /\ c.port = 0
            \/ c.to \in {"learning", "forwarding", "flush"} /\ c.port \in Ports
<1>1. CASE c \in BridgeCallbacks
  BY <1>1, Zenon DEF BridgeCallbacks, Lib!Callback
<1>2. CASE c \in PortCallbacks
  BY <1>2, Zenon DEF PortCallbacks, Lib!Callback
<1> QED BY <1>1, <1>2, Zenon

\* The bridge is started: all that is asked for is that ports discard.
LEMMA StartKeeps ==
  ASSUME Numbered, Consistent, Lib!STP_StartBridge
  PROVE  /\ Consistent' /\ Restored'
         /\ Asks("trapping", 0, TRUE)' /\ WillRun'
         /\ \A p \in Ports : Asks("learning", p, FALSE)' /\ Asks("forwarding", p, FALSE)'
         /\ x1' = x1 /\ x3' = x3 /\ x4' = x4 /\ x5' # Lib!None
<1>1. /\ x1' = x1 /\ x3' = x3 /\ x4' = x4 /\ ~x1
      /\ x5' = "STP_StartBridge"
  BY Zenon DEF Lib!STP_StartBridge, Lib!Call
<1>2. x6' \in Seq(BridgeCallbacks \cup PortCallbacks)
  BY StartAsks, Zenon
<1>3. ASSUME NEW to, NEW p, NEW e
      PROVE  Asks(to, p, e)' <=>
               (\/ to \in {"trapping", "started"} /\ p = 0 /\ e = TRUE
                \/ to \in {"learning", "forwarding"} /\ p \in Ports /\ e = FALSE)
  <2>1. Asks(to, p, e)' <=>
          (\/ Lib!Callback(to, p, e) = Lib!Callback("trapping", 0, TRUE)
           \/ Lib!Callback(to, p, e) = Lib!Callback("started", 0, TRUE)
           \/ \E q \in Ports : \/ Lib!Callback(to, p, e) = Lib!Callback("learning", q, FALSE)
                               \/ Lib!Callback(to, p, e) = Lib!Callback("forwarding", q, FALSE))
    BY StartAsks, Zenon DEF Asks
  <2>2. ASSUME NEW b, NEW q, NEW d
        PROVE  Lib!Callback(to, p, e) = Lib!Callback(b, q, d) <=> to = b /\ p = q /\ e = d
    BY CallbacksDiffer, SMT
  <2>3. Lib!Callback(to, p, e) = Lib!Callback("trapping", 0, TRUE) <=> to = "trapping" /\ p = 0 /\ e = TRUE
    BY <2>2, Zenon
  <2>4. Lib!Callback(to, p, e) = Lib!Callback("started", 0, TRUE) <=> to = "started" /\ p = 0 /\ e = TRUE
    BY <2>2, Zenon
  <2>5. ASSUME NEW q
        PROVE  Lib!Callback(to, p, e) = Lib!Callback("learning", q, FALSE) <=> to = "learning" /\ p = q /\ e = FALSE
    BY <2>2, Zenon
  <2>6. ASSUME NEW q
        PROVE  Lib!Callback(to, p, e) = Lib!Callback("forwarding", q, FALSE) <=> to = "forwarding" /\ p = q /\ e = FALSE
    BY <2>2, Zenon
  <2>7. Asks(to, p, e)' <=>
          (\/ to = "trapping" /\ p = 0 /\ e = TRUE
           \/ to = "started" /\ p = 0 /\ e = TRUE
           \/ \E q \in Ports : \/ to = "learning" /\ p = q /\ e = FALSE
                               \/ to = "forwarding" /\ p = q /\ e = FALSE)
    BY <2>1, <2>3, <2>4, <2>5, <2>6, Zenon
  <2> QED BY <2>7, Zenon
<1>4. /\ ~Asks("started", 0, FALSE)' /\ Asks("started", 0, TRUE)'
      /\ Asks("trapping", 0, TRUE)' /\ ~Asks("trapping", 0, FALSE)'
  BY <1>3, Zenon
<1>5. ASSUME NEW p \in Ports
      PROVE  /\ Asks("learning", p, FALSE)' /\ ~Asks("learning", p, TRUE)'
             /\ Asks("forwarding", p, FALSE)' /\ ~Asks("forwarding", p, TRUE)'
  BY <1>3, <1>5, Zenon
<1>6. \A p \in Ports : ~WillForward(p)'
  BY <1>5, Zenon DEF WillForward
<1>7. WillRun'
  BY <1>4, Zenon DEF WillRun
<1>8. x5' # Lib!None
  BY <1>1, Zenon DEF Lib!None
<1> QED BY <1>1, <1>2, <1>4, <1>5, <1>6, <1>7, <1>8, Zenon DEF Consistent, ForwardingLearns, Restored

\* The bridge is stopped: all ports are to learn and forward.
LEMMA StopKeeps ==
  ASSUME Numbered, Consistent, Lib!STP_StopBridge
  PROVE  /\ Consistent' /\ Restored'
         /\ Asks("trapping", 0, FALSE)' /\ ~WillRun'
         /\ x6 = << >> /\ x1' = x1 /\ x3' = x3 /\ x4' = x4
<1>1. /\ x1' = x1 /\ x3' = x3 /\ x4' = x4 /\ x1 /\ x5 = Lib!None
      /\ x5' = "STP_StopBridge"
  BY Zenon DEF Lib!STP_StopBridge, Lib!Call
<1>2. x6' \in Seq(BridgeCallbacks \cup PortCallbacks)
  BY StopAsks, Zenon
<1>3. ASSUME NEW to, NEW p, NEW e
      PROVE  Asks(to, p, e)' <=>
               (\/ to \in {"trapping", "started"} /\ p = 0 /\ e = FALSE
                \/ to = "learning" /\ p \in Ports /\ ~x3[p] /\ e = TRUE
                \/ to = "forwarding" /\ p \in Ports /\ ~x4[p] /\ e = TRUE)
  <2>1. Asks(to, p, e)' <=>
          (\/ Lib!Callback(to, p, e) = Lib!Callback("trapping", 0, FALSE)
           \/ Lib!Callback(to, p, e) = Lib!Callback("started", 0, FALSE)
           \/ \E q \in Ports : ~x3[q] /\ Lib!Callback(to, p, e) = Lib!Callback("learning", q, TRUE)
           \/ \E q \in Ports : ~x4[q] /\ Lib!Callback(to, p, e) = Lib!Callback("forwarding", q, TRUE))
    BY StopAsks, Zenon DEF Asks
  <2>2. ASSUME NEW b, NEW q, NEW d
        PROVE  Lib!Callback(to, p, e) = Lib!Callback(b, q, d) <=> to = b /\ p = q /\ e = d
    BY CallbacksDiffer, SMT
  <2>3. Lib!Callback(to, p, e) = Lib!Callback("trapping", 0, FALSE) <=> to = "trapping" /\ p = 0 /\ e = FALSE
    BY <2>2, Zenon
  <2>4. Lib!Callback(to, p, e) = Lib!Callback("started", 0, FALSE) <=> to = "started" /\ p = 0 /\ e = FALSE
    BY <2>2, Zenon
  <2>5. ASSUME NEW q
        PROVE  Lib!Callback(to, p, e) = Lib!Callback("learning", q, TRUE) <=> to = "learning" /\ p = q /\ e = TRUE
    BY <2>2, Zenon
  <2>6. ASSUME NEW q
        PROVE  Lib!Callback(to, p, e) = Lib!Callback("forwarding", q, TRUE) <=> to = "forwarding" /\ p = q /\ e = TRUE
    BY <2>2, Zenon
  <2>7. Asks(to, p, e)' <=>
          (\/ to = "trapping" /\ p = 0 /\ e = FALSE
           \/ to = "started" /\ p = 0 /\ e = FALSE
           \/ \E q \in Ports : ~x3[q] /\ to = "learning" /\ p = q /\ e = TRUE
           \/ \E q \in Ports : ~x4[q] /\ to = "forwarding" /\ p = q /\ e = TRUE)
    BY <2>1, <2>3, <2>4, <2>5, <2>6, Zenon
  <2> QED BY <2>7, Zenon
<1>4. /\ ~Asks("started", 0, TRUE)' /\ Asks("started", 0, FALSE)'
      /\ Asks("trapping", 0, FALSE)' /\ ~Asks("trapping", 0, TRUE)'
  BY <1>3, Zenon
<1>5. ASSUME NEW p \in Ports
      PROVE  /\ Asks("learning", p, TRUE)' \/ x3[p]
             /\ Asks("forwarding", p, TRUE)' \/ x4[p]
             /\ ~Asks("learning", p, FALSE)' /\ ~Asks("forwarding", p, FALSE)'
  BY <1>3, <1>5, Zenon
<1>6. \A p \in Ports : WillForward(p)' /\ WillLearn(p)'
  BY <1>1, <1>5, Zenon DEF WillForward, WillLearn
<1>7. ~WillRun'
  BY <1>4, Zenon DEF WillRun
<1>8. x5' # Lib!None
  BY <1>1, Zenon DEF Lib!None
<1> QED BY <1>1, <1>2, <1>4, <1>5, <1>6, <1>7, <1>8, Zenon DEF Consistent, ForwardingLearns, Restored

-----------------------------------------------------------------------------
\* While no callback is left, all is as it will be.
LEMMA Quiet ==
  ASSUME Consistent, x6 = << >>
  PROVE  /\ (WillRun <=> x1)
         /\ \A p \in Ports : /\ (WillLearn(p) <=> x3[p])
                            /\ (WillForward(p) <=> x4[p])
                            /\ (x4[p] => x3[p])
<1>1. \A to, p, e : ~Asks(to, p, e)
  BY AsksNothing, Zenon
<1>2. WillRun <=> x1
  BY <1>1, Zenon DEF WillRun
<1>3. ASSUME NEW p \in Ports
      PROVE  (WillLearn(p) <=> x3[p]) /\ (WillForward(p) <=> x4[p])
  BY <1>1, Zenon DEF WillLearn, WillForward
<1>4. ForwardingLearns
  BY Zenon DEF Consistent
<1> QED BY <1>2, <1>3, <1>4, Zenon DEF ForwardingLearns

\* Callbacks that are asked for with a list of one.
LEMMA AsksOne ==
  ASSUME NEW c, x6' = <<c>>
  PROVE  \A to, q, e : Asks(to, q, e)' <=> Lib!Callback(to, q, e) = c
<1>1. Range(x6)' = {c}
  BY RangeOfOne, Zenon
<1> QED BY <1>1, Zenon DEF Asks

\* What stays true when only a port is asked to do something.
LEMMA PortAsked ==
  ASSUME Numbered, Consistent, x1, x6 = << >>, x5' = x5, x5 # Lib!None,
         x1' = x1, x3' = x3, x4' = x4, x6' \in Seq(PortCallbacks),
         NEW p \in Ports, \A to, q, e : Asks(to, q, e)' => q = p,
         ~(Asks("learning", p, TRUE)' /\ Asks("learning", p, FALSE)'),
         ~(Asks("forwarding", p, TRUE)' /\ Asks("forwarding", p, FALSE)'),
         WillForward(p)' => WillLearn(p)'
  PROVE  Consistent' /\ WillRun /\ WillRun'
<1>1. ASSUME NEW to, NEW e PROVE ~Asks(to, 0, e)'
  BY ZeroIsNoPort, Zenon
<1>2. WillRun /\ WillRun'
  <2>1. WillRun
    BY Quiet, Zenon
  <2> QED BY <1>1, <2>1, Zenon DEF WillRun
<1>3. ASSUME NEW q \in Ports, q # p
      PROVE  /\ \A to, e : ~Asks(to, q, e)'
             /\ WillForward(q)' => WillLearn(q)'
  <2>1. \A to, e : ~Asks(to, q, e)'
    BY <1>3, Zenon
  <2>2. x4[q] => x3[q]
    BY Quiet, Zenon
  <2> QED BY <2>1, <2>2, Zenon DEF WillForward, WillLearn
<1>4. \A q \in Ports : /\ ~(Asks("learning", q, TRUE)' /\ Asks("learning", q, FALSE)')
                      /\ ~(Asks("forwarding", q, TRUE)' /\ Asks("forwarding", q, FALSE)')
                      /\ WillForward(q)' => WillLearn(q)'
  BY <1>3, Zenon
<1>5. x6' \in Seq(BridgeCallbacks \cup PortCallbacks)
  <2> DEFINE B == BridgeCallbacks
             P == PortCallbacks
  <2>1. x6' \in Seq(P)
    OBVIOUS
  <2> HIDE DEF B, P
  <2>2. x6' \in Seq(B \cup P)
    BY <2>1, SMT
  <2> QED BY <2>2 DEF B, P
<1>6. /\ x1' \in BOOLEAN /\ x3' \in [Ports -> BOOLEAN] /\ x4' \in [Ports -> BOOLEAN]
  BY Zenon DEF Consistent
<1> QED BY <1>1, <1>2, <1>4, <1>5, <1>6, Zenon DEF Consistent, ForwardingLearns

LEMMA MachineKeeps ==
  ASSUME Numbered, Consistent, Lib!MachineStep
  PROVE  /\ Consistent' /\ WillRun /\ WillRun'
         /\ x6 = << >> /\ x1' = x1 /\ x3' = x3 /\ x4' = x4 /\ x5' = x5
<1>1. PICK p \in Ports : \/ \E state \in {"DISCARDING", "LEARNING", "FORWARDING"} : Lib!MachineEnters(p, state)
                         \/ Lib!MachineFlushes(p)
  BY Zenon DEF Lib!MachineStep
<1>2. ASSUME NEW to \in {"learning", "forwarding", "flush"}, NEW e \in BOOLEAN
      PROVE  Lib!Callback(to, p, e) \in PortCallbacks
  BY SMT DEF Lib!Callback, PortCallbacks
<1>3. x4[p] => x3[p]
  <2>1. x6 = << >>
    BY <1>1, Zenon DEF Lib!MachineEnters, Lib!MachineFlushes
  <2> QED BY <2>1, Quiet, Zenon
<1>4. CASE Lib!MachineFlushes(p)
  <2>1. /\ x1 /\ x6 = << >> /\ x5 # Lib!None /\ x5' = x5 /\ x1' = x1 /\ x3' = x3 /\ x4' = x4
        /\ x6' = <<Lib!Callback("flush", p, TRUE)>>
    BY <1>4, Zenon DEF Lib!MachineFlushes
  <2>2. \A to, q, e : Asks(to, q, e)' <=> to = "flush" /\ q = p /\ e = TRUE
    <3>1. \A to, q, e : Asks(to, q, e)' <=> Lib!Callback(to, q, e) = Lib!Callback("flush", p, TRUE)
      BY <2>1, AsksOne, Zenon
    <3>2. ASSUME NEW to, NEW q, NEW e
          PROVE  Lib!Callback(to, q, e) = Lib!Callback("flush", p, TRUE) <=> to = "flush" /\ q = p /\ e = TRUE
      <4>1. ASSUME NEW b, NEW r, NEW f
            PROVE  Lib!Callback(to, q, e) = Lib!Callback(b, r, f) <=> to = b /\ q = r /\ e = f
        BY CallbacksDiffer, SMT
      <4> QED BY <4>1, Zenon
    <3> QED BY <3>1, <3>2, Zenon
  <2>3. x6' \in Seq(PortCallbacks)
    BY <1>2, <2>1, ShortSeq, Zenon
  <2>4. WillForward(p)' => WillLearn(p)'
    BY <1>3, <2>1, <2>2, Zenon DEF WillForward, WillLearn
  <2> QED BY <2>1, <2>2, <2>3, <2>4, PortAsked, Zenon
<1>5. CASE Lib!MachineEnters(p, "DISCARDING")
  <2>1. /\ x1 /\ x6 = << >> /\ x5 # Lib!None /\ x5' = x5 /\ x1' = x1 /\ x3' = x3 /\ x4' = x4
        /\ x6' = <<Lib!Callback("learning", p, FALSE), Lib!Callback("forwarding", p, FALSE)>>
    BY <1>5, Zenon DEF Lib!MachineEnters, Lib!EnterState
  <2>2. \A to, q, e : Asks(to, q, e)' <=> (to = "learning" /\ q = p /\ e = FALSE) \/ (to = "forwarding" /\ q = p /\ e = FALSE)
    <3> DEFINE c == Lib!Callback("learning", p, FALSE)
               d == Lib!Callback("forwarding", p, FALSE)
    <3>1. x6' = <<c, d>>
      BY <2>1
    <3> HIDE DEF c, d
    <3>2. \A to, q, e : Asks(to, q, e)' <=> (Lib!Callback(to, q, e) = c \/ Lib!Callback(to, q, e) = d)
      <4>1. Range(x6)' = {c, d}
        BY <3>1, RangeOfTwo, Zenon
      <4> QED BY <4>1, Zenon DEF Asks
    <3>3. ASSUME NEW to, NEW q, NEW e
          PROVE  Asks(to, q, e)' <=> (to = "learning" /\ q = p /\ e = FALSE) \/ (to = "forwarding" /\ q = p /\ e = FALSE)
      <4>1. ASSUME NEW b, NEW r, NEW f
            PROVE  Lib!Callback(to, q, e) = Lib!Callback(b, r, f) <=> to = b /\ q = r /\ e = f
        BY CallbacksDiffer, SMT
      <4>2. Lib!Callback(to, q, e) = c <=> to = "learning" /\ q = p /\ e = FALSE
        BY <4>1, Zenon DEF c
      <4>3. Lib!Callback(to, q, e) = d <=> to = "forwarding" /\ q = p /\ e = FALSE
        BY <4>1, Zenon DEF d
      <4> QED BY <3>2, <4>2, <4>3, Zenon
    <3> QED BY <3>3, Zenon
  <2>3. x6' \in Seq(PortCallbacks)
    BY <1>2, <2>1, ShortSeq, Zenon
  <2>4. ~WillForward(p)'
    BY <2>2, Zenon DEF WillForward
  <2> QED BY <2>1, <2>2, <2>3, <2>4, PortAsked, Zenon
<1>6. CASE Lib!MachineEnters(p, "LEARNING")
  <2>1. /\ x1 /\ x6 = << >> /\ x5 # Lib!None /\ x5' = x5 /\ x1' = x1 /\ x3' = x3 /\ x4' = x4
        /\ x6' = <<Lib!Callback("learning", p, TRUE)>>
    BY <1>6, Zenon DEF Lib!MachineEnters, Lib!EnterState
  <2>2. \A to, q, e : Asks(to, q, e)' <=> to = "learning" /\ q = p /\ e = TRUE
    <3>1. \A to, q, e : Asks(to, q, e)' <=> Lib!Callback(to, q, e) = Lib!Callback("learning", p, TRUE)
      BY <2>1, AsksOne, Zenon
    <3>2. ASSUME NEW to, NEW q, NEW e
          PROVE  Lib!Callback(to, q, e) = Lib!Callback("learning", p, TRUE) <=> to = "learning" /\ q = p /\ e = TRUE
      <4>1. ASSUME NEW b, NEW r, NEW f
            PROVE  Lib!Callback(to, q, e) = Lib!Callback(b, r, f) <=> to = b /\ q = r /\ e = f
        BY CallbacksDiffer, SMT
      <4> QED BY <4>1, Zenon
    <3> QED BY <3>1, <3>2, Zenon
  <2>3. x6' \in Seq(PortCallbacks)
    BY <1>2, <2>1, ShortSeq, Zenon
  <2>4. WillLearn(p)'
    BY <2>2, Zenon DEF WillLearn
  <2> QED BY <2>1, <2>2, <2>3, <2>4, PortAsked, Zenon
<1>7. CASE Lib!MachineEnters(p, "FORWARDING")
  <2>1. /\ x1 /\ x6 = << >> /\ x5 # Lib!None /\ x5' = x5 /\ x1' = x1 /\ x3' = x3 /\ x4' = x4
        /\ x3[p] /\ x6' = <<Lib!Callback("forwarding", p, TRUE)>>
    BY <1>7, Zenon DEF Lib!MachineEnters, Lib!EnterState
  <2>2. \A to, q, e : Asks(to, q, e)' <=> to = "forwarding" /\ q = p /\ e = TRUE
    <3>1. \A to, q, e : Asks(to, q, e)' <=> Lib!Callback(to, q, e) = Lib!Callback("forwarding", p, TRUE)
      BY <2>1, AsksOne, Zenon
    <3>2. ASSUME NEW to, NEW q, NEW e
          PROVE  Lib!Callback(to, q, e) = Lib!Callback("forwarding", p, TRUE) <=> to = "forwarding" /\ q = p /\ e = TRUE
      <4>1. ASSUME NEW b, NEW r, NEW f
            PROVE  Lib!Callback(to, q, e) = Lib!Callback(b, r, f) <=> to = b /\ q = r /\ e = f
        BY CallbacksDiffer, SMT
      <4> QED BY <4>1, Zenon
    <3> QED BY <3>1, <3>2, Zenon
  <2>3. x6' \in Seq(PortCallbacks)
    BY <1>2, <2>1, ShortSeq, Zenon
  <2>4. WillLearn(p)'
    BY <2>1, <2>2, Zenon DEF WillLearn
  <2> QED BY <2>1, <2>2, <2>3, <2>4, PortAsked, Zenon
<1> QED BY <1>1, <1>4, <1>5, <1>6, <1>7, Zenon

\* Nothing is asked for, and nothing is done.
LEMMA UnchangedKeeps ==
  ASSUME Consistent, x1' = x1, x3' = x3, x4' = x4, x6' = x6, x5' = Lib!None => x6 = << >>
  PROVE  /\ Consistent' /\ (Restored => Restored')
         /\ (WillRun' <=> WillRun)
<1>1. Range(x6)' = Range(x6)
  BY Zenon
<1>2. \A to, p, e : Asks(to, p, e)' <=> Asks(to, p, e)
  BY <1>1, Zenon DEF Asks
<1>3. WillRun' <=> WillRun
  BY <1>2, Zenon DEF WillRun
<1>4. \A p \in Ports : (WillLearn(p)' <=> WillLearn(p)) /\ (WillForward(p)' <=> WillForward(p))
  BY <1>2, Zenon DEF WillLearn, WillForward
<1>5. ForwardingLearns' /\ (Restored => Restored')
  BY <1>3, <1>4, Zenon DEF Consistent, ForwardingLearns, Restored
<1>6. /\ ~(Asks("started", 0, TRUE)' /\ Asks("started", 0, FALSE)')
      /\ \A p \in Ports : /\ ~(Asks("learning", p, TRUE)' /\ Asks("learning", p, FALSE)')
                         /\ ~(Asks("forwarding", p, TRUE)' /\ Asks("forwarding", p, FALSE)')
      /\ Asks("trapping", 0, TRUE)' => WillRun'
      /\ Asks("trapping", 0, FALSE)' => ~WillRun'
  BY <1>2, <1>3, Zenon DEF Consistent
<1>7. /\ x1' \in BOOLEAN /\ x3' \in [Ports -> BOOLEAN] /\ x4' \in [Ports -> BOOLEAN]
      /\ x6' \in Seq(BridgeCallbacks \cup PortCallbacks)
      /\ x5' = Lib!None => x6' = << >>
  BY Zenon DEF Consistent
<1> QED BY <1>3, <1>5, <1>6, <1>7, Zenon DEF Consistent

\* The library goes on: a call begins or returns, or a machine moves.
LEMMA MovesKeep ==
  ASSUME Numbered, Consistent, Moves
  PROVE  /\ Consistent' /\ (Restored => Restored')
         /\ x1' = x1 /\ x3' = x3 /\ x4' = x4
         /\ x6' = x6 \/ x6 = << >>
         /\ (WillRun' <=> WillRun)
<1>1. CASE Lib!MachineStep
  BY <1>1, MachineKeeps, Zenon DEF Restored
<1>2. CASE \/ \E name : Lib!Call(name, << >>)
           \/ Lib!Return
           \/ UNCHANGED <<x1, x3, x4, x5, x6>>
  <2>1. /\ x1' = x1 /\ x3' = x3 /\ x4' = x4 /\ x6' = x6
        /\ x5' = Lib!None => x6 = << >>
    <3>1. CASE \E name : Lib!Call(name, << >>)
      BY <3>1, Zenon DEF Lib!Call, Consistent
    <3>2. CASE Lib!Return
      BY <3>2, Zenon DEF Lib!Return
    <3>3. CASE UNCHANGED <<x1, x3, x4, x5, x6>>
      BY <3>3, Zenon DEF Consistent
    <3> QED BY <1>2, <3>1, <3>2, <3>3, Zenon
  <2> QED BY <2>1, UnchangedKeeps, Zenon
<1> QED BY <1>1, <1>2, Zenon DEF Moves

LEMMA ProceedsKeeps ==
  ASSUME Numbered, Consistent, Proceeds
  PROVE  /\ Consistent' /\ (Restored => Restored')
         /\ x1' = x1 /\ x3' = x3 /\ x4' = x4
         /\ x6' = x6 \/ x6 = << >>
         /\ (WillRun' <=> WillRun) \/ Asks("trapping", 0, FALSE)'
<1>1. CASE Lib!STP_StopBridge
  BY <1>1, StopKeeps, Zenon
<1>2. CASE Moves
  BY <1>2, MovesKeep, Zenon
<1> QED BY <1>1, <1>2, Zenon DEF Proceeds

\* The callback at the head has returned: what will be stays as it was.
LEMMA CallbackKeeps ==
  ASSUME Numbered, Consistent, x6 # << >>, Lib!CallbackReturned
  PROVE  /\ Consistent' /\ (Restored => Restored')
         /\ (WillRun' <=> WillRun) /\ x5' = x5
         /\ \A to, p, e : Asks(to, p, e) <=> (Lib!Callback(to, p, e) = Head(x6) \/ Asks(to, p, e)')
<1> DEFINE c == Head(x6)
           T == BridgeCallbacks \cup PortCallbacks
<1>1. /\ x6' = Tail(x6) /\ x5' = x5
      /\ x1' = IF c.to = "started" THEN c.enable ELSE x1
      /\ x3' = IF c.to = "learning" THEN [x3 EXCEPT ![c.port] = c.enable] ELSE x3
      /\ x4' = IF c.to = "forwarding" THEN [x4 EXCEPT ![c.port] = c.enable] ELSE x4
  BY Zenon DEF Lib!CallbackReturned
<1>2. c \in T /\ Tail(x6) \in Seq(T) /\ Range(x6) = {c} \cup Range(Tail(x6))
  <2>1. x6 \in Seq(T)
    BY Zenon DEF Consistent
  <2> HIDE DEF T
  <2> QED BY <2>1, RangeOfTail
<1>3. /\ c = Lib!Callback(c.to, c.port, c.enable)
      /\ c.enable \in BOOLEAN
      /\ \/ c.to \in {"trapping", "started"} /\ c.port = 0
         \/ c.to \in {"learning", "forwarding", "flush"} /\ c.port \in Ports
  BY <1>2, CallbackCases, Zenon
<1> HIDE DEF c, T
<1>4. Range(x6)' = Range(Tail(x6))
  BY <1>1, Zenon
<1>5. \A to, p, e : Asks(to, p, e) <=> (Lib!Callback(to, p, e) = c \/ Asks(to, p, e)')
  BY <1>2, <1>4, Zenon DEF Asks
<1>6. ASSUME NEW to, NEW p, NEW e
      PROVE  Lib!Callback(to, p, e) = c <=> to = c.to /\ p = c.port /\ e = c.enable
  BY <1>3, CallbacksDiffer, SMT
<1>7. ASSUME NEW to, NEW p, c.to # to \/ c.port # p
      PROVE  \A e : Asks(to, p, e)' <=> Asks(to, p, e)
  <2>1. \A e : Lib!Callback(to, p, e) # c
    BY <1>6, <1>7, Zenon
  <2> QED BY <1>5, <2>1, Zenon
<1>8. ASSUME NEW to, NEW p, c.to = to, c.port = p, c.enable = TRUE
      PROVE  Asks(to, p, TRUE) /\ (Asks(to, p, FALSE)' <=> Asks(to, p, FALSE))
  <2>1. Lib!Callback(to, p, TRUE) = c /\ Lib!Callback(to, p, FALSE) # c
    BY <1>6, <1>8, Zenon
  <2>2. Asks(to, p, TRUE)
    BY <1>5, <2>1, Zenon
  <2>3. Asks(to, p, FALSE)' <=> Asks(to, p, FALSE)
    BY <1>5, <2>1, Zenon
  <2> QED BY <2>2, <2>3, Zenon
<1>9. ASSUME NEW to, NEW p, c.to = to, c.port = p, c.enable = FALSE
      PROVE  Asks(to, p, FALSE) /\ (Asks(to, p, TRUE)' <=> Asks(to, p, TRUE))
  <2>1. Lib!Callback(to, p, FALSE) = c /\ Lib!Callback(to, p, TRUE) # c
    BY <1>6, <1>9, Zenon
  <2>2. Asks(to, p, FALSE)
    BY <1>5, <2>1, Zenon
  <2>3. Asks(to, p, TRUE)' <=> Asks(to, p, TRUE)
    BY <1>5, <2>1, Zenon
  <2> QED BY <2>2, <2>3, Zenon
<1>10. c.enable = TRUE \/ c.enable = FALSE
  BY <1>3, Zenon
<1>11. WillRun' <=> WillRun
  <2>1. CASE c.to # "started"
    <3>1. \A e : Asks("started", 0, e)' <=> Asks("started", 0, e)
      BY <2>1, <1>7, Zenon
    <3>2. x1' = x1
      BY <2>1, <1>1, Zenon
    <3> QED BY <3>1, <3>2, Zenon DEF WillRun
  <2>2. CASE c.to = "started"
    <3>1. c.port = 0 /\ x1' = c.enable
      BY <2>2, <1>1, <1>3, Zenon
    <3>2. ~(Asks("started", 0, TRUE) /\ Asks("started", 0, FALSE))
      BY Zenon DEF Consistent
    <3>3. CASE c.enable = TRUE
      <4>1. Asks("started", 0, TRUE) /\ (Asks("started", 0, FALSE)' <=> Asks("started", 0, FALSE))
        BY <1>8, <2>2, <3>1, <3>3, Zenon
      <4> QED BY <3>1, <3>2, <3>3, <4>1, Zenon DEF WillRun
    <3>4. CASE c.enable = FALSE
      <4>1. Asks("started", 0, FALSE) /\ (Asks("started", 0, TRUE)' <=> Asks("started", 0, TRUE))
        BY <1>9, <2>2, <3>1, <3>4, Zenon
      <4> QED BY <3>1, <3>2, <3>4, <4>1, Zenon DEF WillRun
    <3> QED BY <1>10, <3>3, <3>4, Zenon
  <2> QED BY <2>1, <2>2, Zenon
<1>12. ASSUME NEW p \in Ports
       PROVE  WillLearn(p)' <=> WillLearn(p)
  <2>0. x3 \in [Ports -> BOOLEAN] /\ ~(Asks("learning", p, TRUE) /\ Asks("learning", p, FALSE))
    BY Zenon DEF Consistent
  <2>1. CASE c.to # "learning" \/ c.port # p
    <3>1. \A e : Asks("learning", p, e)' <=> Asks("learning", p, e)
      BY <2>1, <1>7, Zenon
    <3>2. x3'[p] = x3[p]
      BY <2>0, <2>1, <1>1, SMT
    <3> QED BY <3>1, <3>2, Zenon DEF WillLearn
  <2>2. CASE c.to = "learning" /\ c.port = p
    <3>1. x3'[p] = c.enable
      BY <2>0, <2>2, <1>1, SMT
    <3>3. CASE c.enable = TRUE
      <4>1. Asks("learning", p, TRUE) /\ (Asks("learning", p, FALSE)' <=> Asks("learning", p, FALSE))
        BY <1>8, <2>2, <3>3, Zenon
      <4> QED BY <2>0, <3>1, <3>3, <4>1, Zenon DEF WillLearn
    <3>4. CASE c.enable = FALSE
      <4>1. Asks("learning", p, FALSE) /\ (Asks("learning", p, TRUE)' <=> Asks("learning", p, TRUE))
        BY <1>9, <2>2, <3>4, Zenon
      <4> QED BY <2>0, <3>1, <3>4, <4>1, Zenon DEF WillLearn
    <3> QED BY <1>10, <3>3, <3>4, Zenon
  <2> QED BY <2>1, <2>2, Zenon
<1>13. ASSUME NEW p \in Ports
       PROVE  WillForward(p)' <=> WillForward(p)
  <2>0. x4 \in [Ports -> BOOLEAN] /\ ~(Asks("forwarding", p, TRUE) /\ Asks("forwarding", p, FALSE))
    BY Zenon DEF Consistent
  <2>1. CASE c.to # "forwarding" \/ c.port # p
    <3>1. \A e : Asks("forwarding", p, e)' <=> Asks("forwarding", p, e)
      BY <2>1, <1>7, Zenon
    <3>2. x4'[p] = x4[p]
      BY <2>0, <2>1, <1>1, SMT
    <3> QED BY <3>1, <3>2, Zenon DEF WillForward
  <2>2. CASE c.to = "forwarding" /\ c.port = p
    <3>1. x4'[p] = c.enable
      BY <2>0, <2>2, <1>1, SMT
    <3>3. CASE c.enable = TRUE
      <4>1. Asks("forwarding", p, TRUE) /\ (Asks("forwarding", p, FALSE)' <=> Asks("forwarding", p, FALSE))
        BY <1>8, <2>2, <3>3, Zenon
      <4> QED BY <2>0, <3>1, <3>3, <4>1, Zenon DEF WillForward
    <3>4. CASE c.enable = FALSE
      <4>1. Asks("forwarding", p, FALSE) /\ (Asks("forwarding", p, TRUE)' <=> Asks("forwarding", p, TRUE))
        BY <1>9, <2>2, <3>4, Zenon
      <4> QED BY <2>0, <3>1, <3>4, <4>1, Zenon DEF WillForward
    <3> QED BY <1>10, <3>3, <3>4, Zenon
  <2> QED BY <2>1, <2>2, Zenon
<1>14. ForwardingLearns' /\ (Restored => Restored')
  BY <1>11, <1>12, <1>13, Zenon DEF Consistent, ForwardingLearns, Restored
<1>15. /\ x1' \in BOOLEAN /\ x3' \in [Ports -> BOOLEAN] /\ x4' \in [Ports -> BOOLEAN]
  <2>1. /\ x1 \in BOOLEAN /\ x3 \in [Ports -> BOOLEAN] /\ x4 \in [Ports -> BOOLEAN]
    BY Zenon DEF Consistent
  <2> QED BY <1>1, <1>3, <2>1, SMT
<1>16. x6' \in Seq(BridgeCallbacks \cup PortCallbacks)
  BY <1>1, <1>2, Zenon DEF T
<1>17. x5' # Lib!None
  BY <1>1, Zenon DEF Consistent
<1>18. /\ ~(Asks("started", 0, TRUE)' /\ Asks("started", 0, FALSE)')
       /\ \A p \in Ports : /\ ~(Asks("learning", p, TRUE)' /\ Asks("learning", p, FALSE)')
                          /\ ~(Asks("forwarding", p, TRUE)' /\ Asks("forwarding", p, FALSE)')
       /\ Asks("trapping", 0, TRUE)' => WillRun'
       /\ Asks("trapping", 0, FALSE)' => ~WillRun'
  BY <1>5, <1>11, Zenon DEF Consistent
<1>19. Consistent'
  BY <1>14, <1>15, <1>16, <1>17, <1>18, Zenon DEF Consistent
<1> QED BY <1>1, <1>5, <1>11, <1>14, <1>19, Zenon DEF c

\* The callback at the head.
LEMMA HeadFacts ==
  ASSUME Consistent, x6 # << >>
  PROVE  /\ Head(x6) = Lib!Callback(Head(x6).to, Head(x6).port, Head(x6).enable)
         /\ Head(x6).enable \in BOOLEAN
         /\ \/ Head(x6).to \in {"trapping", "started"} /\ Head(x6).port = 0
            \/ Head(x6).to \in {"learning", "forwarding", "flush"} /\ Head(x6).port \in Ports
         /\ \A to, p, e : Lib!Callback(to, p, e) = Head(x6) =>
              to = Head(x6).to /\ p = Head(x6).port /\ e = Head(x6).enable
<1> DEFINE c == Head(x6)
           T == BridgeCallbacks \cup PortCallbacks
<1>1. c \in T
  <2>1. x6 \in Seq(T)
    BY Zenon DEF Consistent
  <2> HIDE DEF T
  <2> QED BY <2>1, RangeOfTail
<1>2. /\ c = Lib!Callback(c.to, c.port, c.enable)
      /\ c.enable \in BOOLEAN
      /\ \/ c.to \in {"trapping", "started"} /\ c.port = 0
         \/ c.to \in {"learning", "forwarding", "flush"} /\ c.port \in Ports
  BY <1>1, CallbackCases, Zenon
<1> HIDE DEF c, T
<1>3. ASSUME NEW to, NEW p, NEW e
      PROVE  Lib!Callback(to, p, e) = c => to = c.to /\ p = c.port /\ e = c.enable
  BY <1>2, CallbacksDiffer, SMT
<1> QED BY <1>2, <1>3, Zenon DEF c

\* A register r that a callback sets as it is told, s, is as trapping will be.
TrapAsked == Asks("trapping", 0, TRUE) \/ Asks("trapping", 0, FALSE)

LEMMA TrappingFollows ==
  ASSUME Numbered, Consistent, x6 # << >>, Lib!CallbackReturned, NEW r, NEW s,
         s = IF Head(x6).to = "trapping" THEN Head(x6).enable ELSE r,
         TrapAsked \/ (r <=> WillRun)
  PROVE  TrapAsked' \/ (s <=> WillRun')
<1> DEFINE c == Head(x6)
<1>1. /\ (WillRun' <=> WillRun)
      /\ \A to, p, e : Asks(to, p, e) <=> (Lib!Callback(to, p, e) = c \/ Asks(to, p, e)')
  BY CallbackKeeps, Zenon
<1>2. /\ c = Lib!Callback(c.to, c.port, c.enable) /\ c.enable \in BOOLEAN
      /\ (c.to \in {"trapping", "started"} => c.port = 0)
      /\ \A to, p, e : Lib!Callback(to, p, e) = c => to = c.to /\ p = c.port /\ e = c.enable
  BY HeadFacts, Zenon
<1>3. s = IF c.to = "trapping" THEN c.enable ELSE r
  OBVIOUS
<1> HIDE DEF c
<1>4. CASE c.to = "trapping"
  <2>1. CASE c.enable = TRUE
    <3>1. Lib!Callback("trapping", 0, TRUE) = c
      BY <1>2, <1>4, <2>1, Zenon
    <3>2. Asks("trapping", 0, TRUE)
      BY <3>1, <1>1, Zenon
    <3> QED BY <3>2, <1>1, <1>3, <1>4, <2>1, Zenon DEF Consistent
  <2>2. CASE c.enable = FALSE
    <3>1. Lib!Callback("trapping", 0, FALSE) = c
      BY <1>2, <1>4, <2>2, Zenon
    <3>2. Asks("trapping", 0, FALSE)
      BY <3>1, <1>1, Zenon
    <3> QED BY <3>2, <1>1, <1>3, <1>4, <2>2, Zenon DEF Consistent
  <2> QED BY <1>2, <2>1, <2>2, Zenon
<1>5. CASE c.to # "trapping"
  <2>1. \A e : Asks("trapping", 0, e)' <=> Asks("trapping", 0, e)
    BY <1>1, <1>2, <1>5, Zenon
  <2> QED BY <2>1, <1>1, <1>3, <1>5, Zenon DEF TrapAsked
<1> QED BY <1>4, <1>5, Zenon

-----------------------------------------------------------------------------
(***************************************************************************)
(* The STM32 board.  While a callback has not been called, the register of *)
(* its port is what the library's fields say; trapping is what it will be. *)
(***************************************************************************)
Stm32Port(p) ==
  \/ x8[p] = Stm32!PortState(x3[p], x4[p])
  \/ ~x3[p] /\ ~x4[p] /\ (x12.at = "boot" \/ Asks("learning", p, FALSE))

Stm32Inv ==
  /\ Consistent
  /\ x12 = [at |-> x12.at, port |-> x12.port]
  /\ x12.at = "boot" => Pristine
  /\ x12.at # "boot" => Restored /\ (TrapAsked \/ (x9 <=> WillRun))
  /\ x9 \in BOOLEAN
  /\ x8 \in [Ports -> {"DISABLED", "BLOCKING", "LEARNING", "FORWARDING"}]
  /\ \A p \in Ports : Stm32Port(p)

\* The calls are those of LibraryCalls.
LEMMA Stm32Library ==
  /\ Stm32!STP_StartBridge <=> Lib!STP_StartBridge
  /\ Stm32!STP_StopBridge <=> Lib!STP_StopBridge
  /\ Stm32!MachineStep <=> Lib!MachineStep
  /\ Stm32!Return <=> Lib!Return
  /\ Stm32!CallbackReturned <=> Lib!CallbackReturned
  /\ \A n : Stm32!Call(n, << >>) <=> Lib!Call(n, << >>)
<1>1. Stm32!STP_StartBridge <=> Lib!STP_StartBridge
  BY Zenon DEF Stm32!STP_StartBridge, Stm32!Call, Stm32!None, Stm32!Callback, Stm32!ForAllPorts,
     Stm32!FlattenSeq, Stm32!EnterState, Lib!STP_StartBridge, Lib!Call, Lib!None, Lib!Callback,
     Lib!ForAllPorts, Lib!FlattenSeq, Lib!EnterState
<1>2. Stm32!STP_StopBridge <=> Lib!STP_StopBridge
  BY Zenon DEF Stm32!STP_StopBridge, Stm32!Call, Stm32!None, Stm32!Callback, Stm32!ForAllPorts,
     Stm32!FlattenSeq, Lib!STP_StopBridge, Lib!Call, Lib!None, Lib!Callback,
     Lib!ForAllPorts, Lib!FlattenSeq
<1>3. Stm32!MachineStep <=> Lib!MachineStep
  BY Zenon DEF Stm32!MachineStep, Stm32!MachineEnters, Stm32!MachineFlushes, Stm32!None,
     Stm32!Callback, Stm32!EnterState, Lib!MachineStep, Lib!MachineEnters, Lib!MachineFlushes,
     Lib!None, Lib!Callback, Lib!EnterState
<1>4. Stm32!Return <=> Lib!Return
  BY Zenon DEF Stm32!Return, Stm32!None, Lib!Return, Lib!None
<1>5. Stm32!CallbackReturned <=> Lib!CallbackReturned
  BY Zenon DEF Stm32!CallbackReturned, Lib!CallbackReturned
<1>6. \A n : Stm32!Call(n, << >>) <=> Lib!Call(n, << >>)
  BY Zenon DEF Stm32!Call, Stm32!None, Lib!Call, Lib!None
<1> QED BY <1>1, <1>2, <1>3, <1>4, <1>5, <1>6, Zenon

\* What a step of the board is to the library and to the switch.
LEMMA Stm32Step ==
  ASSUME Stm32!Next, x12 = [at |-> x12.at, port |-> x12.port]
  PROVE  /\ x12' = [at |-> x12.at, port |-> x12.port]'
         /\ \/ Lib!STP_StartBridge /\ x12'.at # "boot" /\ UNCHANGED <<x8, x9>>
            \/ Proceeds /\ x12.at # "boot" /\ x12'.at # "boot" /\ UNCHANGED <<x8, x9>>
            \/ x6 # << >> /\ Stm32!CallCallback
            \/ (Lib!MachineStep \/ Lib!Return) /\ UNCHANGED <<x8, x9, x12>>
            \/ UNCHANGED <<x1, x3, x4, x5, x6, x8, x9, x12>>
<1> DEFINE Shape == x12' = [at |-> x12'.at, port |-> x12'.port]
<1>a. ASSUME \E n : Stm32!Call(n, << >>) PROVE Proceeds
  BY <1>a, Stm32Library, Zenon DEF Proceeds, Moves
<1>b. ASSUME UNCHANGED Stm32!libVars PROVE Proceeds
  BY <1>b, Zenon DEF Stm32!libVars, Proceeds, Moves
<1>c. ASSUME NEW p, Stm32!poll_port_status_and_call_library(p) PROVE Proceeds
  BY <1>a, <1>b, <1>c, Zenon DEF Stm32!poll_port_status_and_call_library, Stm32!STP_OnPortEnabled, Stm32!STP_OnPortDisabled
<1>1. CASE \E p \in Ports : Stm32!FrameArrives(p) \/ \E l \in {"down", "unresolved", "up"} : Stm32!LinkChanges(p, l)
  BY <1>1, Zenon DEF Stm32!FrameArrives, Stm32!LinkChanges, Stm32!libVars, Stm32!board
<1>2. CASE Stm32!Console
  <2>1. x12' = x12 /\ x12.at = "idle" /\ UNCHANGED <<x8, x9>>
    BY <1>2, SMT DEF Stm32!Console, Stm32!Idle, Stm32!board
  <2>2. Lib!STP_StartBridge \/ Proceeds
    BY <1>2, Stm32Library, Zenon DEF Stm32!Console, Proceeds, Moves
  <2> QED BY <2>1, <2>2, Zenon
<1>3. CASE Stm32!Tick
  <2>1. x12' = x12 /\ x12.at = "idle" /\ UNCHANGED <<x8, x9>>
    BY <1>3, SMT DEF Stm32!Tick, Stm32!Idle, Stm32!board
  <2>2. Proceeds
    BY <1>3, <1>a, Zenon DEF Stm32!Tick, Stm32!STP_OnOneSecondTick
  <2> QED BY <2>1, <2>2, Zenon
<1>4. CASE Stm32!Boot
  <2>1. Shape /\ x12'.at = "idle" /\ UNCHANGED <<x8, x9>>
    BY <1>4, SMT DEF Stm32!Boot, Stm32!Idle, Stm32!board
  <2>2. Lib!STP_StartBridge
    BY <1>4, Stm32Library, Zenon DEF Stm32!Boot
  <2> QED BY <2>1, <2>2, Zenon
<1>5. CASE Stm32!PollLinks
  <2>1. Shape /\ x12.at = "idle" /\ x12'.at = "poll" /\ UNCHANGED <<x8, x9>>
    BY <1>5, SMT DEF Stm32!PollLinks, Stm32!Idle, Stm32!board
  <2>2. Proceeds
    BY <1>5, <1>b, Zenon DEF Stm32!PollLinks
  <2> QED BY <2>1, <2>2, Zenon
<1>6. CASE Stm32!PollLink
  <2>1. Shape /\ x12.at = "poll" /\ x12'.at \in {"poll", "idle"} /\ UNCHANGED <<x8, x9>>
    <3>1. x12.at = "poll" /\ UNCHANGED <<x8, x9>>
      BY <1>6, Zenon DEF Stm32!PollLink, Stm32!board
    <3>2. x12' = IF x12.port + 1 \in Ports THEN [x12 EXCEPT !.port = @ + 1] ELSE [at |-> "idle", port |-> 0]
      BY <1>6, Zenon DEF Stm32!PollLink, Stm32!Idle
    <3> QED BY <3>1, <3>2, SMT
  <2>2. Proceeds
    BY <1>6, <1>c, Zenon DEF Stm32!PollLink
  <2> QED BY <2>1, <2>2, Zenon
<1>7. CASE Stm32!FrameReceived
  <2>1. Shape /\ x12.at = "idle" /\ x12'.at \in {"validate", "idle"} /\ UNCHANGED <<x8, x9>>
    BY <1>7, SMT DEF Stm32!FrameReceived, Stm32!Idle, Stm32!board
  <2>2. Proceeds
    BY <1>7, <1>b, Zenon DEF Stm32!FrameReceived
  <2> QED BY <2>1, <2>2, Zenon
<1>8. CASE Stm32!CheckPort
  <2>1. Shape /\ x12.at = "validate" /\ x12'.at = "pass" /\ UNCHANGED <<x8, x9>>
    <3>1. x12.at = "validate" /\ x12' = [x12 EXCEPT !.at = "pass"] /\ UNCHANGED <<x8, x9>>
      BY <1>8, Zenon DEF Stm32!CheckPort, Stm32!board
    <3> QED BY <3>1, SMT
  <2>2. Proceeds
    BY <1>8, <1>b, <1>c, Zenon DEF Stm32!CheckPort
  <2> QED BY <2>1, <2>2, Zenon
<1>9. CASE Stm32!PassBpdu
  <2>1. Shape /\ x12.at = "pass" /\ x12'.at = "idle" /\ UNCHANGED <<x8, x9>>
    BY <1>9, SMT DEF Stm32!PassBpdu, Stm32!Idle, Stm32!board
  <2>2. Proceeds
    BY <1>9, <1>a, Zenon DEF Stm32!PassBpdu, Stm32!STP_OnBpduReceived
  <2> QED BY <2>1, <2>2, Zenon
<1>10. CASE Stm32!CallCallback
  <2>1. x12' = x12 /\ x6 # << >>
    BY <1>10, Zenon DEF Stm32!CallCallback
  <2> QED BY <1>10, <2>1, Zenon
<1>11. CASE Stm32!LibraryStep
  <2>1. x12' = x12 /\ UNCHANGED <<x8, x9>>
    BY <1>11, Zenon DEF Stm32!LibraryStep, Stm32!board
  <2>2. Lib!MachineStep \/ Lib!Return
    BY <1>11, Stm32Library, Zenon DEF Stm32!LibraryStep
  <2> QED BY <2>1, <2>2, Zenon
<1> QED BY <1>1, <1>2, <1>3, <1>4, <1>5, <1>6, <1>7, <1>8, <1>9, <1>10, <1>11, Zenon DEF Stm32!Next, Stm32!EventLoop

\* What CallCallback does on the board.
LEMMA Stm32Callback ==
  ASSUME Numbered, Stm32Inv, x6 # << >>, Stm32!CallCallback
  PROVE  /\ Lib!CallbackReturned /\ x12' = x12
         /\ x9' = IF Head(x6).to = "trapping" THEN Head(x6).enable ELSE x9
         /\ \/ /\ Head(x6).to = "learning" /\ Head(x6).port \in Ports
               /\ x8' = [x8 EXCEPT ![Head(x6).port] = Stm32!PortState(Head(x6).enable, x4[Head(x6).port])]
            \/ /\ Head(x6).to = "forwarding" /\ Head(x6).port \in Ports
               /\ x8' = [x8 EXCEPT ![Head(x6).port] = Stm32!PortState(x3[Head(x6).port], Head(x6).enable)]
            \/ /\ Head(x6).to \in {"flush", "started", "trapping"}
               /\ x8' = x8
<1> DEFINE c == Head(x6)
<1>1. /\ \/ c.to = "trapping" /\ Stm32!StpCallback_EnableBpduTrapping(c.enable)
         \/ c.to = "learning" /\ Stm32!StpCallback_EnableLearning(c.port, c.enable)
         \/ c.to = "forwarding" /\ Stm32!StpCallback_EnableForwarding(c.port, c.enable)
         \/ c.to \in {"flush", "started"} /\ UNCHANGED Stm32!board
      /\ Lib!CallbackReturned /\ x12' = x12
  BY Stm32Library, Zenon DEF Stm32!CallCallback
<1>3. c.to \in {"learning", "forwarding", "flush"} => c.port \in Ports
  BY HeadFacts, Zenon DEF Stm32Inv
<1> HIDE DEF c
<1>4. CASE c.to = "trapping"
  BY <1>1, <1>4, Zenon DEF Stm32!StpCallback_EnableBpduTrapping, c
<1>5. CASE c.to = "learning"
  BY <1>1, <1>3, <1>5, Zenon DEF Stm32!StpCallback_EnableLearning, Stm32!write_port_state_register, c
<1>6. CASE c.to = "forwarding"
  BY <1>1, <1>3, <1>6, Zenon DEF Stm32!StpCallback_EnableForwarding, Stm32!write_port_state_register, c
<1>7. CASE c.to \in {"flush", "started"}
  BY <1>1, <1>7, Zenon DEF Stm32!board, c
<1> QED BY <1>1, <1>4, <1>5, <1>6, <1>7, Zenon

\* Before the start nothing of the library moves.
LEMMA PristineStays ==
  ASSUME Pristine, Lib!MachineStep \/ Lib!Return
  PROVE  FALSE
BY Zenon DEF Pristine, Lib!MachineStep, Lib!MachineEnters, Lib!MachineFlushes, Lib!Return

LEMMA Stm32Start ==
  ASSUME Numbered, Stm32Inv, Lib!STP_StartBridge, x12'.at # "boot", UNCHANGED <<x8, x9>>,
         x12' = [at |-> x12.at, port |-> x12.port]'
  PROVE  Stm32Inv'
<1>1. /\ Consistent' /\ Restored' /\ Asks("trapping", 0, TRUE)' /\ x3' = x3 /\ x4' = x4
      /\ \A p \in Ports : Asks("learning", p, FALSE)'
  BY StartKeeps, Zenon DEF Stm32Inv
<1>2. TrapAsked'
  BY <1>1, Zenon DEF TrapAsked
<1>3. ASSUME NEW p \in Ports PROVE Stm32Port(p)'
  <2>1. CASE x8[p] = Stm32!PortState(x3[p], x4[p])
    BY <1>1, <2>1, Zenon DEF Stm32Port, Stm32!PortState
  <2>2. CASE ~x3[p] /\ ~x4[p]
    BY <1>1, <2>2, Zenon DEF Stm32Port
  <2> QED BY <2>1, <2>2, Zenon DEF Stm32Inv, Stm32Port
<1> QED BY <1>1, <1>2, <1>3, Zenon DEF Stm32Inv

LEMMA Stm32Proceeds ==
  ASSUME Numbered, Stm32Inv, Proceeds, x12.at # "boot", x12'.at # "boot", UNCHANGED <<x8, x9>>,
         x12' = [at |-> x12.at, port |-> x12.port]'
  PROVE  Stm32Inv'
<1>1. /\ Consistent' /\ Restored' /\ x3' = x3 /\ x4' = x4
      /\ x6' = x6 \/ x6 = << >>
      /\ (WillRun' <=> WillRun) \/ Asks("trapping", 0, FALSE)'
  BY ProceedsKeeps, Zenon DEF Stm32Inv
<1>2. \A to, p, e : Asks(to, p, e) => Asks(to, p, e)'
  BY <1>1, AsksNothing, Zenon DEF Asks
<1>3. TrapAsked' \/ (x9' <=> WillRun')
  BY <1>1, <1>2, Zenon DEF Stm32Inv, TrapAsked
<1>4. ASSUME NEW p \in Ports PROVE Stm32Port(p)'
  BY <1>1, <1>2, Zenon DEF Stm32Inv, Stm32Port, Stm32!PortState
<1> QED BY <1>1, <1>3, <1>4, Zenon DEF Stm32Inv

LEMMA Stm32CallbackKeeps ==
  ASSUME Numbered, Stm32Inv, x6 # << >>, Stm32!CallCallback
  PROVE  Stm32Inv'
<1> DEFINE c == Head(x6)
<1>1. /\ Lib!CallbackReturned /\ x12' = x12
      /\ x9' = IF c.to = "trapping" THEN c.enable ELSE x9
      /\ \/ /\ c.to = "learning" /\ c.port \in Ports
            /\ x8' = [x8 EXCEPT ![c.port] = Stm32!PortState(c.enable, x4[c.port])]
         \/ /\ c.to = "forwarding" /\ c.port \in Ports
            /\ x8' = [x8 EXCEPT ![c.port] = Stm32!PortState(x3[c.port], c.enable)]
         \/ /\ c.to \in {"flush", "started", "trapping"}
            /\ x8' = x8
  BY Stm32Callback, Zenon
<1>2. /\ Consistent' /\ (Restored => Restored') /\ (WillRun' <=> WillRun)
      /\ \A to, p, e : Asks(to, p, e) <=> (Lib!Callback(to, p, e) = c \/ Asks(to, p, e)')
  BY <1>1, CallbackKeeps, Zenon DEF Stm32Inv
<1>3. /\ c.enable \in BOOLEAN
      /\ \A to, p, e : Lib!Callback(to, p, e) = c => to = c.to /\ p = c.port /\ e = c.enable
  BY HeadFacts, Zenon DEF Stm32Inv
<1>4. /\ x3' = IF c.to = "learning" THEN [x3 EXCEPT ![c.port] = c.enable] ELSE x3
      /\ x4' = IF c.to = "forwarding" THEN [x4 EXCEPT ![c.port] = c.enable] ELSE x4
  BY <1>1, Zenon DEF Lib!CallbackReturned
<1>5. x12.at # "boot"
  BY Zenon DEF Stm32Inv, Consistent, Pristine
<1>7. TrapAsked' \/ (x9' <=> WillRun')
  <2>1. /\ Consistent /\ (TrapAsked \/ (x9 <=> WillRun))
        /\ x9' = IF Head(x6).to = "trapping" THEN Head(x6).enable ELSE x9
    BY <1>1, <1>5, Zenon DEF Stm32Inv
  <2> QED BY <1>1, <2>1, TrappingFollows
<1> HIDE DEF c
<1>8. ASSUME NEW p \in Ports PROVE Stm32Port(p)'
  <2>0. x3 \in [Ports -> BOOLEAN] /\ x4 \in [Ports -> BOOLEAN] /\ DOMAIN x8 = Ports
    BY Zenon DEF Stm32Inv, Consistent
  <2>1. CASE c.to \in {"learning", "forwarding"} /\ c.port = p
    <3>1. x8'[p] = Stm32!PortState(x3'[p], x4'[p])
      BY <1>1, <1>4, <2>0, <2>1, SMT
    <3> QED BY <3>1, Zenon DEF Stm32Port
  <2>2. CASE c.to \notin {"learning", "forwarding"} \/ c.port # p
    <3>1. x8'[p] = x8[p] /\ x3'[p] = x3[p] /\ x4'[p] = x4[p]
      BY <1>1, <1>4, <2>0, <2>2, SMT
    <3>2. Asks("learning", p, FALSE) => Asks("learning", p, FALSE)'
      <4>0. c.to # "learning" \/ c.port # p
        BY <2>2
      <4>1. \A e : Lib!Callback("learning", p, e) # c
        BY <1>3, <4>0, Zenon
      <4> QED BY <1>2, <4>1, Zenon
    <3> QED BY <3>1, <3>2, <1>5, Zenon DEF Stm32Inv, Stm32Port
  <2> QED BY <2>1, <2>2, Zenon
<1>9. /\ x9' \in BOOLEAN
      /\ x8' \in [Ports -> {"DISABLED", "BLOCKING", "LEARNING", "FORWARDING"}]
  <2>1. \A l, f : Stm32!PortState(l, f) \in {"DISABLED", "BLOCKING", "LEARNING", "FORWARDING"}
    BY Zenon DEF Stm32!PortState
  <2>2. x9 \in BOOLEAN /\ x8 \in [Ports -> {"DISABLED", "BLOCKING", "LEARNING", "FORWARDING"}]
    BY Zenon DEF Stm32Inv
  <2>3. x8' \in [Ports -> {"DISABLED", "BLOCKING", "LEARNING", "FORWARDING"}]
    BY <2>1, <2>2, <1>1, SMT
  <2> QED BY <1>1, <1>3, <2>2, <2>3, Zenon
<1>10. x12' = [at |-> x12.at, port |-> x12.port]'
  BY <1>1, Zenon DEF Stm32Inv
<1> QED BY <1>1, <1>2, <1>5, <1>7, <1>8, <1>9, <1>10, Zenon DEF Stm32Inv

\* Initially all is as it must be before the start.
LEMMA LibraryStarts ==
  ASSUME Lib!LibraryInit
  PROVE  Consistent /\ Pristine
<1>1. /\ x1 = FALSE /\ x5 = Lib!None /\ x6 = << >>
      /\ x3 = [p \in Ports |-> FALSE] /\ x4 = [p \in Ports |-> FALSE]
  BY Zenon DEF Lib!LibraryInit
<1>2. \A to, p, e : ~Asks(to, p, e)
  BY <1>1, AsksNothing, Zenon
<1>3. \A p \in Ports : ~x3[p] /\ ~x4[p]
  BY <1>1, Zenon
<1>4. ForwardingLearns
  BY <1>2, <1>3, Zenon DEF ForwardingLearns, WillForward
<1>5. x1 \in BOOLEAN /\ x3 \in [Ports -> BOOLEAN] /\ x4 \in [Ports -> BOOLEAN]
  BY <1>1, Zenon
<1>6. x6 \in Seq(BridgeCallbacks \cup PortCallbacks)
  <2> DEFINE T == BridgeCallbacks \cup PortCallbacks
  <2> HIDE DEF T
  <2>1. << >> \in Seq(T)
    OBVIOUS
  <2> QED BY <1>1, <2>1, Zenon DEF T
<1> QED BY <1>1, <1>2, <1>3, <1>4, <1>5, <1>6, Zenon DEF Consistent, Pristine

LEMMA AsksSame ==
  ASSUME x6' = x6
  PROVE  \A to, p, e : Asks(to, p, e)' <=> Asks(to, p, e)
BY Zenon DEF Asks

LEMMA Stm32Starts ==
  ASSUME Stm32!Init
  PROVE  Stm32Inv
<1>1. /\ Lib!LibraryInit
      /\ x8 = [p \in Ports |-> "DISABLED"] /\ x9 = FALSE /\ x12 = [at |-> "boot", port |-> 0]
  BY Zenon DEF Stm32!Init, Stm32!LibraryInit, Stm32!None, Lib!LibraryInit, Lib!None
<1>2. Consistent /\ Pristine
  BY <1>1, LibraryStarts
<1>3. \A p \in Ports : Stm32Port(p)
  BY <1>1, <1>2, Zenon DEF Stm32Port, Pristine
<1>4. x8 \in [Ports -> {"DISABLED", "BLOCKING", "LEARNING", "FORWARDING"}]
  BY <1>1, SMT
<1> QED BY <1>1, <1>2, <1>3, <1>4, Zenon DEF Stm32Inv

LEMMA Stm32Same ==
  ASSUME Stm32Inv, UNCHANGED <<x1, x3, x4, x5, x6, x8, x9, x12>>
  PROVE  Stm32Inv'
<1>1. x5' = Lib!None => x6 = << >>
  BY Zenon DEF Stm32Inv, Consistent
<1>2. Consistent' /\ (Restored => Restored') /\ (WillRun' <=> WillRun)
  BY <1>1, UnchangedKeeps, Zenon DEF Stm32Inv
<1>3. \A to, p, e : Asks(to, p, e)' <=> Asks(to, p, e)
  BY AsksSame, Zenon
<1>4. \A p \in Ports : Stm32Port(p)'
  BY <1>3, Zenon DEF Stm32Inv, Stm32Port, Stm32!PortState
<1>5. x12.at = "boot" => Pristine'
  BY Zenon DEF Stm32Inv, Pristine
<1> QED BY <1>2, <1>3, <1>4, <1>5, Zenon DEF Stm32Inv, TrapAsked

LEMMA Stm32Keeps ==
  ASSUME Numbered, Stm32Inv, Stm32!Next
  PROVE  Stm32Inv'
<1>1. /\ x12' = [at |-> x12.at, port |-> x12.port]'
      /\ \/ Lib!STP_StartBridge /\ x12'.at # "boot" /\ UNCHANGED <<x8, x9>>
         \/ Proceeds /\ x12.at # "boot" /\ x12'.at # "boot" /\ UNCHANGED <<x8, x9>>
         \/ x6 # << >> /\ Stm32!CallCallback
         \/ (Lib!MachineStep \/ Lib!Return) /\ UNCHANGED <<x8, x9, x12>>
         \/ UNCHANGED <<x1, x3, x4, x5, x6, x8, x9, x12>>
  BY Stm32Step, Zenon DEF Stm32Inv
<1>2. CASE Lib!STP_StartBridge /\ x12'.at # "boot" /\ UNCHANGED <<x8, x9>>
  BY <1>1, <1>2, Stm32Start
<1>3. CASE Proceeds /\ x12.at # "boot" /\ x12'.at # "boot" /\ UNCHANGED <<x8, x9>>
  BY <1>1, <1>3, Stm32Proceeds
<1>4. CASE x6 # << >> /\ Stm32!CallCallback
  BY <1>4, Stm32CallbackKeeps
<1>5. CASE (Lib!MachineStep \/ Lib!Return) /\ UNCHANGED <<x8, x9, x12>>
  <2>1. x12.at # "boot" /\ x12'.at # "boot"
    BY <1>5, PristineStays, Zenon DEF Stm32Inv
  <2>2. Proceeds
    BY <1>5, Zenon DEF Proceeds, Moves
  <2> QED BY <1>1, <1>5, <2>1, <2>2, Stm32Proceeds, Zenon
<1>6. CASE UNCHANGED <<x1, x3, x4, x5, x6, x8, x9, x12>>
  BY <1>6, Stm32Same
<1> QED BY <1>1, <1>2, <1>3, <1>4, <1>5, <1>6, Zenon

LEMMA Stm32Obeys ==
  ASSUME Stm32Inv
  PROVE  Stm32!SwitchObeys
<1> SUFFICES ASSUME x5 = Lib!None, x12.at # "boot"
             PROVE  IF x1 THEN /\ x9
                               /\ \A p \in Ports : /\ (x8[p] = "FORWARDING" <=> x4[p])
                                                  /\ (x8[p] = "BLOCKING" <=> ~x3[p])
                    ELSE ~x9 /\ \A p \in Ports : x8[p] = "FORWARDING"
  BY Zenon DEF Stm32!SwitchObeys, Stm32!None, Lib!None
<1>1. x6 = << >> /\ Consistent /\ Restored
  BY Zenon DEF Stm32Inv, Consistent
<1>2. \A to, p, e : ~Asks(to, p, e)
  BY <1>1, AsksNothing, Zenon
<1>3. /\ (WillRun <=> x1)
      /\ \A p \in Ports : /\ (WillLearn(p) <=> x3[p])
                         /\ (WillForward(p) <=> x4[p])
                         /\ (x4[p] => x3[p])
  BY <1>1, Quiet
<1>4. x9 <=> x1
  BY <1>2, <1>3, Zenon DEF Stm32Inv, TrapAsked
<1>5. ASSUME NEW p \in Ports
      PROVE  /\ (x8[p] = "FORWARDING" <=> x4[p])
             /\ (x8[p] = "BLOCKING" <=> ~x3[p])
  <2>1. x8[p] = IF x4[p] THEN "FORWARDING" ELSE IF x3[p] THEN "LEARNING" ELSE "BLOCKING"
    BY <1>2, Zenon DEF Stm32Inv, Stm32Port, Stm32!PortState
  <2>2. x4[p] => x3[p]
    BY <1>3
  <2> QED BY <2>1, <2>2
<1>6. ~x1 => \A p \in Ports : x4[p]
  BY <1>1, <1>3, Zenon DEF Restored
<1> QED BY <1>4, <1>5, <1>6, Zenon

-----------------------------------------------------------------------------
(***************************************************************************)
(* The TM4C129 board.  Its bridge is never stopped, so that trapping is    *)
(* only ever turned on; port 0 of the switch is nobody's.                  *)
(***************************************************************************)
Tm4cState(learn, forward) == IF forward THEN "FORWARDING" ELSE IF learn THEN "LEARNING" ELSE "BLOCKING"

Tm4cPort(p) ==
  \/ x8[p] = Tm4cState(x3[p], x4[p])
  \/ ~x3[p] /\ ~x4[p] /\ (x11.at = "boot" \/ Asks("learning", p, FALSE))

Tm4cInv ==
  /\ Consistent
  /\ x11 = [at |-> x11.at, port |-> x11.port]
  /\ x11.at = "boot" => Pristine
  /\ x11.at # "boot" => WillRun /\ (Asks("trapping", 0, TRUE) \/ x9 = TRUE)
  /\ x8 \in [{0} \cup Ports -> {"DISABLED", "BLOCKING", "LEARNING", "FORWARDING"}]
  /\ x8[0] = "FORWARDING"
  /\ \A p \in Ports : Tm4cPort(p)

LEMMA Tm4cLibrary ==
  /\ Tm4c!STP_StartBridge <=> Lib!STP_StartBridge
  /\ Tm4c!MachineStep <=> Lib!MachineStep
  /\ Tm4c!Return <=> Lib!Return
  /\ Tm4c!CallbackReturned <=> Lib!CallbackReturned
  /\ \A n : Tm4c!Call(n, << >>) <=> Lib!Call(n, << >>)
<1>1. Tm4c!STP_StartBridge <=> Lib!STP_StartBridge
  BY Zenon DEF Tm4c!STP_StartBridge, Tm4c!Call, Tm4c!None, Tm4c!Callback, Tm4c!ForAllPorts,
     Tm4c!FlattenSeq, Tm4c!EnterState, Lib!STP_StartBridge, Lib!Call, Lib!None, Lib!Callback,
     Lib!ForAllPorts, Lib!FlattenSeq, Lib!EnterState
<1>3. Tm4c!MachineStep <=> Lib!MachineStep
  BY Zenon DEF Tm4c!MachineStep, Tm4c!MachineEnters, Tm4c!MachineFlushes, Tm4c!None,
     Tm4c!Callback, Tm4c!EnterState, Lib!MachineStep, Lib!MachineEnters, Lib!MachineFlushes,
     Lib!None, Lib!Callback, Lib!EnterState
<1>4. Tm4c!Return <=> Lib!Return
  BY Zenon DEF Tm4c!Return, Tm4c!None, Lib!Return, Lib!None
<1>5. Tm4c!CallbackReturned <=> Lib!CallbackReturned
  BY Zenon DEF Tm4c!CallbackReturned, Lib!CallbackReturned
<1>6. \A n : Tm4c!Call(n, << >>) <=> Lib!Call(n, << >>)
  BY Zenon DEF Tm4c!Call, Tm4c!None, Lib!Call, Lib!None
<1> QED BY <1>1, <1>3, <1>4, <1>5, <1>6, Zenon

LEMMA Tm4cStep ==
  ASSUME Tm4c!Next, x11 = [at |-> x11.at, port |-> x11.port]
  PROVE  /\ x11' = [at |-> x11.at, port |-> x11.port]'
         /\ \/ Lib!STP_StartBridge /\ x11'.at # "boot" /\ UNCHANGED <<x8, x9>>
            \/ Moves /\ x11.at # "boot" /\ x11'.at # "boot" /\ UNCHANGED <<x8, x9>>
            \/ x6 # << >> /\ Tm4c!CallCallback
            \/ (Lib!MachineStep \/ Lib!Return) /\ UNCHANGED <<x8, x9, x11>>
            \/ UNCHANGED <<x1, x3, x4, x5, x6, x8, x9, x11>>
<1> DEFINE Shape == x11' = [at |-> x11'.at, port |-> x11'.port]
<1>a. ASSUME \E n : Tm4c!Call(n, << >>) PROVE Moves
  BY <1>a, Tm4cLibrary, Zenon DEF Moves
<1>b. ASSUME UNCHANGED Tm4c!libVars PROVE Moves
  BY <1>b, Zenon DEF Tm4c!libVars, Moves
<1>c. ASSUME NEW p, Tm4c!STP_OnPortEnabled(p) \/ Tm4c!STP_OnPortDisabled(p) PROVE Moves
  BY <1>a, <1>c, Zenon DEF Tm4c!STP_OnPortEnabled, Tm4c!STP_OnPortDisabled
<1>1. CASE \E p \in Ports : Tm4c!FrameArrives(p) \/ Tm4c!LinkChanges(p)
  BY <1>1, Zenon DEF Tm4c!FrameArrives, Tm4c!LinkChanges, Tm4c!libVars, Tm4c!board
<1>2. CASE Tm4c!Boot
  <2>1. Shape /\ x11'.at = "receive" /\ UNCHANGED <<x8, x9>>
    BY <1>2, SMT DEF Tm4c!Boot, Tm4c!At, Tm4c!board
  <2>2. Lib!STP_StartBridge
    BY <1>2, Tm4cLibrary, Zenon DEF Tm4c!Boot
  <2> QED BY <2>1, <2>2, Zenon
<1>3. CASE Tm4c!process_received_frame
  <2>1. Shape /\ x11.at = "receive" /\ x11'.at \in {"poll due", "validate"} /\ UNCHANGED <<x8, x9>>
    <3>1. x11.at = "receive" /\ UNCHANGED <<x8, x9>>
      BY <1>3, Zenon DEF Tm4c!process_received_frame, Tm4c!board
    <3>2. \/ x11' = [at |-> "poll due", port |-> 0]
          \/ \E q : x11' = [at |-> "validate", port |-> q]
      BY <1>3, Zenon DEF Tm4c!process_received_frame, Tm4c!At
    <3>3. CASE x11' = [at |-> "poll due", port |-> 0]
      BY <3>1, <3>3, Zenon
    <3>4. CASE \E q : x11' = [at |-> "validate", port |-> q]
      <4>1. PICK q : x11' = [at |-> "validate", port |-> q]
        BY <3>4
      <4>2. Shape /\ x11'.at = "validate"
        BY <4>1, Zenon
      <4> QED BY <3>1, <4>2, Zenon
    <3> QED BY <3>2, <3>3, <3>4, Zenon
  <2>2. Moves
    BY <1>3, <1>b, Zenon DEF Tm4c!process_received_frame
  <2> QED BY <2>1, <2>2, Zenon
<1>4. CASE Tm4c!validate_and_process_bpdu
  <2>1. Shape /\ x11.at = "validate" /\ x11'.at = "pass" /\ UNCHANGED <<x8, x9>>
    <3>1. x11.at = "validate" /\ x11' = [x11 EXCEPT !.at = "pass"] /\ UNCHANGED <<x8, x9>>
      BY <1>4, Zenon DEF Tm4c!validate_and_process_bpdu, Tm4c!board
    <3> QED BY <3>1, SMT
  <2>2. Moves
    BY <1>4, <1>b, <1>c, Zenon DEF Tm4c!validate_and_process_bpdu
  <2> QED BY <2>1, <2>2, Zenon
<1>11. CASE Tm4c!AssertionFails
  <2>1. Shape /\ x11.at = "validate" /\ x11'.at = "halted" /\ UNCHANGED <<x8, x9>>
    BY <1>11, SMT DEF Tm4c!AssertionFails, Tm4c!At, Tm4c!board
  <2>2. Moves
    BY <1>11, <1>b, Zenon DEF Tm4c!AssertionFails
  <2> QED BY <2>1, <2>2, Zenon
<1>5. CASE Tm4c!PassBpdu
  <2>1. Shape /\ x11.at = "pass" /\ x11'.at = "receive" /\ UNCHANGED <<x8, x9>>
    BY <1>5, SMT DEF Tm4c!PassBpdu, Tm4c!At, Tm4c!board
  <2>2. Moves
    BY <1>5, <1>a, Zenon DEF Tm4c!PassBpdu, Tm4c!STP_OnBpduReceived
  <2> QED BY <2>1, <2>2, Zenon
<1>6. CASE Tm4c!poll_port_status_and_call_library
  <2>1. Shape /\ x11.at = "poll" /\ x11'.at \in {"poll", "tick due"} /\ UNCHANGED <<x8, x9>>
    <3>1. x11.at = "poll" /\ UNCHANGED <<x8, x9>>
      BY <1>6, Zenon DEF Tm4c!poll_port_status_and_call_library, Tm4c!board
    <3>2. x11' = IF x11.port + 1 \in Ports THEN [x11 EXCEPT !.port = @ + 1] ELSE [at |-> "tick due", port |-> 0]
      BY <1>6, Zenon DEF Tm4c!poll_port_status_and_call_library, Tm4c!At
    <3>3. CASE x11' = [x11 EXCEPT !.port = @ + 1]
      <4>1. Shape /\ x11'.at = x11.at
        BY <3>3, SMT
      <4> QED BY <3>1, <4>1, Zenon
    <3>4. CASE x11' = [at |-> "tick due", port |-> 0]
      BY <3>1, <3>4, Zenon
    <3> QED BY <3>2, <3>3, <3>4, Zenon
  <2>2. Moves
    <3>1. CASE x7[x11.port] /\ ~x2[x11.port]
      BY <1>6, <1>c, <3>1, Zenon DEF Tm4c!poll_port_status_and_call_library
    <3>2. CASE ~x7[x11.port] /\ x2[x11.port]
      BY <1>6, <1>c, <3>2, Zenon DEF Tm4c!poll_port_status_and_call_library
    <3>3. CASE ~(x7[x11.port] /\ ~x2[x11.port]) /\ ~(~x7[x11.port] /\ x2[x11.port])
      BY <1>6, <1>b, <3>3, Zenon DEF Tm4c!poll_port_status_and_call_library
    <3> QED BY <3>1, <3>2, <3>3, Zenon
  <2> QED BY <2>1, <2>2, Zenon
<1>7. CASE \E due \in BOOLEAN : Tm4c!PollDue(due)
  <2>1. Shape /\ x11.at = "poll due" /\ x11'.at \in {"poll", "tick due"} /\ UNCHANGED <<x8, x9>>
    <3>1. x11.at = "poll due" /\ UNCHANGED <<x8, x9>>
      BY <1>7, Zenon DEF Tm4c!PollDue, Tm4c!board
    <3>2. x11' = [at |-> "poll", port |-> 1] \/ x11' = [at |-> "tick due", port |-> 0]
      BY <1>7, Zenon DEF Tm4c!PollDue, Tm4c!At
    <3>3. CASE x11' = [at |-> "poll", port |-> 1]
      BY <3>1, <3>3, Zenon
    <3>4. CASE x11' = [at |-> "tick due", port |-> 0]
      BY <3>1, <3>4, Zenon
    <3> QED BY <3>2, <3>3, <3>4, Zenon
  <2>2. Moves
    BY <1>7, <1>b, Zenon DEF Tm4c!PollDue
  <2> QED BY <2>1, <2>2, Zenon
<1>8. CASE \E due \in BOOLEAN : Tm4c!TickDue(due)
  <2>1. Shape /\ x11.at = "tick due" /\ x11'.at = "receive" /\ UNCHANGED <<x8, x9>>
    <3>1. x11.at = "tick due" /\ UNCHANGED <<x8, x9>> /\ x11' = [at |-> "receive", port |-> 0]
      BY <1>8, Zenon DEF Tm4c!TickDue, Tm4c!At, Tm4c!board
    <3> QED BY <3>1, Zenon
  <2>2. Moves
    BY <1>8, <1>a, <1>b, Zenon DEF Tm4c!TickDue, Tm4c!STP_OnOneSecondTick
  <2> QED BY <2>1, <2>2, Zenon
<1>9. CASE Tm4c!CallCallback
  <2>1. x11' = x11 /\ x6 # << >>
    BY <1>9, Zenon DEF Tm4c!CallCallback
  <2> QED BY <1>9, <2>1, Zenon
<1>10. CASE Tm4c!LibraryStep
  <2>1. x11' = x11 /\ UNCHANGED <<x8, x9>>
    BY <1>10, Zenon DEF Tm4c!LibraryStep, Tm4c!board
  <2>2. Lib!MachineStep \/ Lib!Return
    BY <1>10, Tm4cLibrary, Zenon DEF Tm4c!LibraryStep
  <2> QED BY <2>1, <2>2, Zenon
<1> QED BY <1>1, <1>2, <1>3, <1>4, <1>5, <1>6, <1>7, <1>8, <1>9, <1>10, <1>11, Zenon
   DEF Tm4c!Next, Tm4c!MainLoop

LEMMA Tm4cStart ==
  ASSUME Numbered, Tm4cInv, Lib!STP_StartBridge, x11'.at # "boot", UNCHANGED <<x8, x9>>,
         x11' = [at |-> x11.at, port |-> x11.port]'
  PROVE  Tm4cInv'
<1>1. /\ Consistent' /\ Asks("trapping", 0, TRUE)' /\ WillRun' /\ x3' = x3 /\ x4' = x4
      /\ \A p \in Ports : Asks("learning", p, FALSE)'
  BY StartKeeps, Zenon DEF Tm4cInv
<1>2. ASSUME NEW p \in Ports PROVE Tm4cPort(p)'
  <2>1. CASE x8[p] = Tm4cState(x3[p], x4[p])
    BY <1>1, <2>1, Zenon DEF Tm4cPort, Tm4cState
  <2>2. CASE ~x3[p] /\ ~x4[p]
    BY <1>1, <2>2, Zenon DEF Tm4cPort
  <2> QED BY <2>1, <2>2, Zenon DEF Tm4cInv, Tm4cPort
<1> QED BY <1>1, <1>2, Zenon DEF Tm4cInv

LEMMA Tm4cMoves ==
  ASSUME Numbered, Tm4cInv, Moves, x11.at # "boot", x11'.at # "boot", UNCHANGED <<x8, x9>>,
         x11' = [at |-> x11.at, port |-> x11.port]'
  PROVE  Tm4cInv'
<1>1. /\ Consistent' /\ WillRun' /\ x3' = x3 /\ x4' = x4
      /\ x6' = x6 \/ x6 = << >>
  BY MovesKeep, Zenon DEF Tm4cInv
<1>2. \A to, p, e : Asks(to, p, e) => Asks(to, p, e)'
  BY <1>1, AsksNothing, Zenon DEF Asks
<1>3. Asks("trapping", 0, TRUE)' \/ x9' = TRUE
  BY <1>2, Zenon DEF Tm4cInv
<1>4. ASSUME NEW p \in Ports PROVE Tm4cPort(p)'
  BY <1>1, <1>2, Zenon DEF Tm4cInv, Tm4cPort, Tm4cState
<1> QED BY <1>1, <1>3, <1>4, Zenon DEF Tm4cInv

LEMMA Tm4cCallback ==
  ASSUME Numbered, Tm4cInv, x6 # << >>, Tm4c!CallCallback
  PROVE  /\ Lib!CallbackReturned /\ x11' = x11
         /\ IF Head(x6).to = "trapping" THEN x9' = TRUE ELSE x9' = x9
         /\ \/ /\ Head(x6).to = "learning" /\ Head(x6).port \in Ports
               /\ x8' = [x8 EXCEPT ![Head(x6).port] = Tm4cState(Head(x6).enable, x4[Head(x6).port])]
            \/ /\ Head(x6).to = "forwarding" /\ Head(x6).port \in Ports
               /\ x8' = [x8 EXCEPT ![Head(x6).port] = Tm4cState(x3[Head(x6).port], Head(x6).enable)]
            \/ /\ Head(x6).to \in {"flush", "started", "trapping"}
               /\ x8' = x8
<1> DEFINE c == Head(x6)
<1>1. /\ \/ c.to = "trapping" /\ Tm4c!StpCallback_EnableBpduTrapping(c.enable) /\ x8' = x8
         \/ c.to = "learning" /\ Tm4c!StpCallback_EnableLearning(c.port, c.enable) /\ x9' = x9
         \/ c.to = "forwarding" /\ Tm4c!StpCallback_EnableForwarding(c.port, c.enable) /\ x9' = x9
         \/ c.to \in {"flush", "started"} /\ UNCHANGED Tm4c!board
      /\ Lib!CallbackReturned /\ x11' = x11
  BY Tm4cLibrary, Zenon DEF Tm4c!CallCallback
<1>3. c.to \in {"learning", "forwarding", "flush"} => c.port \in Ports
  BY HeadFacts, Zenon DEF Tm4cInv
<1>4. ASSUME NEW p \in Ports PROVE Tm4c!get_switch_port_from_stp_port(p) = p
  BY SMT DEF Tm4c!get_switch_port_from_stp_port, Numbered
<1> HIDE DEF c
<1>5. CASE c.to = "trapping"
  BY <1>1, <1>5, Zenon DEF Tm4c!StpCallback_EnableBpduTrapping, c
<1>6. CASE c.to = "learning"
  BY <1>1, <1>3, <1>4, <1>6, Zenon DEF Tm4c!StpCallback_EnableLearning, Tm4c!write_port_state_register, Tm4cState, c
<1>7. CASE c.to = "forwarding"
  BY <1>1, <1>3, <1>4, <1>7, Zenon DEF Tm4c!StpCallback_EnableForwarding, Tm4c!write_port_state_register, Tm4cState, c
<1>8. CASE c.to \in {"flush", "started"}
  BY <1>1, <1>8, Zenon DEF Tm4c!board, c
<1> QED BY <1>1, <1>5, <1>6, <1>7, <1>8, Zenon

LEMMA Tm4cCallbackKeeps ==
  ASSUME Numbered, Tm4cInv, x6 # << >>, Tm4c!CallCallback
  PROVE  Tm4cInv'
<1> DEFINE c == Head(x6)
<1>1. /\ Lib!CallbackReturned /\ x11' = x11
      /\ IF c.to = "trapping" THEN x9' = TRUE ELSE x9' = x9
      /\ \/ /\ c.to = "learning" /\ c.port \in Ports
            /\ x8' = [x8 EXCEPT ![c.port] = Tm4cState(c.enable, x4[c.port])]
         \/ /\ c.to = "forwarding" /\ c.port \in Ports
            /\ x8' = [x8 EXCEPT ![c.port] = Tm4cState(x3[c.port], c.enable)]
         \/ /\ c.to \in {"flush", "started", "trapping"}
            /\ x8' = x8
  BY Tm4cCallback, Zenon
<1>2. /\ Consistent' /\ (WillRun' <=> WillRun)
      /\ \A to, p, e : Asks(to, p, e) <=> (Lib!Callback(to, p, e) = c \/ Asks(to, p, e)')
  BY <1>1, CallbackKeeps, Zenon DEF Tm4cInv
<1>3. /\ c.enable \in BOOLEAN
      /\ \A to, p, e : Lib!Callback(to, p, e) = c => to = c.to /\ p = c.port /\ e = c.enable
  BY HeadFacts, Zenon DEF Tm4cInv
<1>4. /\ x3' = IF c.to = "learning" THEN [x3 EXCEPT ![c.port] = c.enable] ELSE x3
      /\ x4' = IF c.to = "forwarding" THEN [x4 EXCEPT ![c.port] = c.enable] ELSE x4
  BY <1>1, Zenon DEF Lib!CallbackReturned
<1>5. x11.at # "boot"
  BY Zenon DEF Tm4cInv, Consistent, Pristine
<1> HIDE DEF c
<1>6. Asks("trapping", 0, TRUE)' \/ x9' = TRUE
  <2>1. CASE c.to = "trapping"
    BY <1>1, <2>1, Zenon
  <2>2. CASE c.to # "trapping"
    <3>1. \A e : Lib!Callback("trapping", 0, e) # c
      BY <1>3, <2>2, Zenon
    <3> QED BY <1>1, <1>2, <1>5, <2>2, <3>1, Zenon DEF Tm4cInv
  <2> QED BY <2>1, <2>2, Zenon
<1>7. ASSUME NEW p \in Ports PROVE Tm4cPort(p)'
  <2>0. x3 \in [Ports -> BOOLEAN] /\ x4 \in [Ports -> BOOLEAN] /\ DOMAIN x8 = {0} \cup Ports
    BY Zenon DEF Tm4cInv, Consistent
  <2>1. CASE c.to \in {"learning", "forwarding"} /\ c.port = p
    <3>1. x8'[p] = Tm4cState(x3'[p], x4'[p])
      BY <1>1, <1>4, <2>0, <2>1, SMT
    <3> QED BY <3>1, Zenon DEF Tm4cPort, Tm4cState
  <2>2. CASE c.to \notin {"learning", "forwarding"} \/ c.port # p
    <3>1. x8'[p] = x8[p] /\ x3'[p] = x3[p] /\ x4'[p] = x4[p]
      BY <1>1, <1>4, <2>0, <2>2, SMT
    <3>2. Asks("learning", p, FALSE) => Asks("learning", p, FALSE)'
      <4>0. c.to # "learning" \/ c.port # p
        BY <2>2
      <4>1. \A e : Lib!Callback("learning", p, e) # c
        BY <1>3, <4>0, Zenon
      <4> QED BY <1>2, <4>1, Zenon
    <3> QED BY <3>1, <3>2, <1>5, Zenon DEF Tm4cInv, Tm4cPort, Tm4cState
  <2> QED BY <2>1, <2>2, Zenon
<1>8. /\ x8' \in [{0} \cup Ports -> {"DISABLED", "BLOCKING", "LEARNING", "FORWARDING"}]
      /\ x8'[0] = "FORWARDING"
  <2>1. \A l, f : Tm4cState(l, f) \in {"DISABLED", "BLOCKING", "LEARNING", "FORWARDING"}
    BY Zenon DEF Tm4cState
  <2>2. /\ x8 \in [{0} \cup Ports -> {"DISABLED", "BLOCKING", "LEARNING", "FORWARDING"}]
        /\ x8[0] = "FORWARDING" /\ 0 \notin Ports
    BY ZeroIsNoPort, Zenon DEF Tm4cInv
  <2> QED BY <2>1, <2>2, <1>1, SMT
<1>9. x11' = [at |-> x11.at, port |-> x11.port]'
  BY <1>1, Zenon DEF Tm4cInv
<1> QED BY <1>1, <1>2, <1>5, <1>6, <1>7, <1>8, <1>9, Zenon DEF Tm4cInv

LEMMA Tm4cStarts ==
  ASSUME Numbered, Tm4c!Init
  PROVE  Tm4cInv
<1>1. /\ Lib!LibraryInit
      /\ x8 = [s \in {0} \cup Ports |-> IF s = 0 THEN "FORWARDING" ELSE "DISABLED"]
      /\ x11 = [at |-> "boot", port |-> 0]
  BY Zenon DEF Tm4c!Init, Tm4c!LibraryInit, Tm4c!None, Tm4c!At, Tm4c!SwitchPorts, Lib!LibraryInit, Lib!None
<1>2. Consistent /\ Pristine
  BY <1>1, LibraryStarts
<1>3. \A p \in Ports : Tm4cPort(p)
  BY <1>1, <1>2, Zenon DEF Tm4cPort, Pristine
<1>4. /\ x8 \in [{0} \cup Ports -> {"DISABLED", "BLOCKING", "LEARNING", "FORWARDING"}]
      /\ x8[0] = "FORWARDING"
  BY <1>1, SMT
<1> QED BY <1>1, <1>2, <1>3, <1>4, Zenon DEF Tm4cInv

LEMMA Tm4cSame ==
  ASSUME Tm4cInv, UNCHANGED <<x1, x3, x4, x5, x6, x8, x9, x11>>
  PROVE  Tm4cInv'
<1>1. x5' = Lib!None => x6 = << >>
  BY Zenon DEF Tm4cInv, Consistent
<1>2. Consistent' /\ (WillRun' <=> WillRun)
  BY <1>1, UnchangedKeeps, Zenon DEF Tm4cInv
<1>3. \A to, p, e : Asks(to, p, e)' <=> Asks(to, p, e)
  BY AsksSame, Zenon
<1>4. \A p \in Ports : Tm4cPort(p)'
  BY <1>3, Zenon DEF Tm4cInv, Tm4cPort, Tm4cState
<1>5. x11.at = "boot" => Pristine'
  BY Zenon DEF Tm4cInv, Pristine
<1> QED BY <1>2, <1>3, <1>4, <1>5, Zenon DEF Tm4cInv

LEMMA Tm4cKeeps ==
  ASSUME Numbered, Tm4cInv, Tm4c!Next
  PROVE  Tm4cInv'
<1>1. /\ x11' = [at |-> x11.at, port |-> x11.port]'
      /\ \/ Lib!STP_StartBridge /\ x11'.at # "boot" /\ UNCHANGED <<x8, x9>>
         \/ Moves /\ x11.at # "boot" /\ x11'.at # "boot" /\ UNCHANGED <<x8, x9>>
         \/ x6 # << >> /\ Tm4c!CallCallback
         \/ (Lib!MachineStep \/ Lib!Return) /\ UNCHANGED <<x8, x9, x11>>
         \/ UNCHANGED <<x1, x3, x4, x5, x6, x8, x9, x11>>
  BY Tm4cStep, Zenon DEF Tm4cInv
<1>2. CASE Lib!STP_StartBridge /\ x11'.at # "boot" /\ UNCHANGED <<x8, x9>>
  BY <1>1, <1>2, Tm4cStart
<1>3. CASE Moves /\ x11.at # "boot" /\ x11'.at # "boot" /\ UNCHANGED <<x8, x9>>
  BY <1>1, <1>3, Tm4cMoves
<1>4. CASE x6 # << >> /\ Tm4c!CallCallback
  BY <1>4, Tm4cCallbackKeeps
<1>5. CASE (Lib!MachineStep \/ Lib!Return) /\ UNCHANGED <<x8, x9, x11>>
  <2>1. x11.at # "boot" /\ x11'.at # "boot"
    BY <1>5, PristineStays, Zenon DEF Tm4cInv
  <2>2. Moves
    BY <1>5, Zenon DEF Moves
  <2> QED BY <1>1, <1>5, <2>1, <2>2, Tm4cMoves, Zenon
<1>6. CASE UNCHANGED <<x1, x3, x4, x5, x6, x8, x9, x11>>
  BY <1>6, Tm4cSame
<1> QED BY <1>1, <1>2, <1>3, <1>4, <1>5, <1>6, Zenon

LEMMA Tm4cObeys ==
  ASSUME Tm4cInv
  PROVE  Tm4c!SwitchObeys
<1> SUFFICES ASSUME x5 = Lib!None, x11.at # "boot"
             PROVE  /\ x9 /\ x8[0] = "FORWARDING"
                    /\ \A p \in Ports : /\ (x8[p] = "FORWARDING" <=> x4[p])
                                       /\ (x8[p] = "BLOCKING" <=> ~x3[p])
  BY Zenon DEF Tm4c!SwitchObeys, Tm4c!None, Lib!None
<1>1. x6 = << >> /\ Consistent
  BY Zenon DEF Tm4cInv, Consistent
<1>2. \A to, p, e : ~Asks(to, p, e)
  BY <1>1, AsksNothing, Zenon
<1>3. \A p \in Ports : x4[p] => x3[p]
  BY <1>1, Quiet
<1>4. x9 /\ x8[0] = "FORWARDING"
  BY <1>2, Zenon DEF Tm4cInv
<1>5. ASSUME NEW p \in Ports
      PROVE  /\ (x8[p] = "FORWARDING" <=> x4[p])
             /\ (x8[p] = "BLOCKING" <=> ~x3[p])
  <2>1. x8[p] = IF x4[p] THEN "FORWARDING" ELSE IF x3[p] THEN "LEARNING" ELSE "BLOCKING"
    BY <1>2, Zenon DEF Tm4cInv, Tm4cPort, Tm4cState
  <2>2. x4[p] => x3[p]
    BY <1>3
  <2> QED BY <2>1, <2>2
<1> QED BY <1>4, <1>5, Zenon

-----------------------------------------------------------------------------
(***************************************************************************)
(* The LPC2387 board, with either chip.  A bit of a port may differ from   *)
(* the library's field only while the ports have no power.                 *)
(***************************************************************************)
LpcForwards(p) ==
  \/ x11[p] = x4[p]
  \/ x8 = FALSE /\ ~x4[p] /\ (x13.at = "boot" \/ Asks("forwarding", p, FALSE))

LpcLearns(chip, p) ==
  IF chip = "175C" THEN x10[p] = FALSE
  ELSE \/ x10[p] = x3[p]
       \/ ~x3[p] /\ (x13.at = "boot" \/ Asks("learning", p, FALSE))

LpcInv(chip) ==
  /\ Consistent
  /\ x13 = [at |-> x13.at, port |-> x13.port]
  /\ x13.at = "boot" => Pristine
  /\ x13.at # "boot" => Restored /\ (TrapAsked \/ (x9 <=> WillRun))
  /\ x8 \in BOOLEAN /\ x9 \in BOOLEAN
  /\ x10 \in [Ports -> BOOLEAN] /\ x11 \in [Ports -> BOOLEAN]
  /\ \A p \in Ports : LpcForwards(p)
  /\ \A p \in Ports : LpcLearns(chip, p)

LEMMA Ip175CLibrary ==
  /\ Ip175C!STP_StartBridge <=> Lib!STP_StartBridge
  /\ Ip175C!STP_StopBridge <=> Lib!STP_StopBridge
  /\ Ip175C!MachineStep <=> Lib!MachineStep
  /\ Ip175C!Return <=> Lib!Return
  /\ Ip175C!CallbackReturned <=> Lib!CallbackReturned
  /\ \A n : Ip175C!Call(n, << >>) <=> Lib!Call(n, << >>)
<1>1. Ip175C!STP_StartBridge <=> Lib!STP_StartBridge
  BY Zenon DEF Ip175C!STP_StartBridge, Ip175C!Call, Ip175C!None, Ip175C!Callback, Ip175C!ForAllPorts,
     Ip175C!FlattenSeq, Ip175C!EnterState, Lib!STP_StartBridge, Lib!Call, Lib!None, Lib!Callback,
     Lib!ForAllPorts, Lib!FlattenSeq, Lib!EnterState
<1>2. Ip175C!STP_StopBridge <=> Lib!STP_StopBridge
  BY Zenon DEF Ip175C!STP_StopBridge, Ip175C!Call, Ip175C!None, Ip175C!Callback, Ip175C!ForAllPorts,
     Ip175C!FlattenSeq, Lib!STP_StopBridge, Lib!Call, Lib!None, Lib!Callback,
     Lib!ForAllPorts, Lib!FlattenSeq
<1>3. Ip175C!MachineStep <=> Lib!MachineStep
  BY Zenon DEF Ip175C!MachineStep, Ip175C!MachineEnters, Ip175C!MachineFlushes, Ip175C!None,
     Ip175C!Callback, Ip175C!EnterState, Lib!MachineStep, Lib!MachineEnters, Lib!MachineFlushes,
     Lib!None, Lib!Callback, Lib!EnterState
<1>4. Ip175C!Return <=> Lib!Return
  BY Zenon DEF Ip175C!Return, Ip175C!None, Lib!Return, Lib!None
<1>5. Ip175C!CallbackReturned <=> Lib!CallbackReturned
  BY Zenon DEF Ip175C!CallbackReturned, Lib!CallbackReturned
<1>6. \A n : Ip175C!Call(n, << >>) <=> Lib!Call(n, << >>)
  BY Zenon DEF Ip175C!Call, Ip175C!None, Lib!Call, Lib!None
<1> QED BY <1>1, <1>2, <1>3, <1>4, <1>5, <1>6, Zenon

LEMMA Ip175DLibrary ==
  /\ Ip175D!STP_StartBridge <=> Lib!STP_StartBridge
  /\ Ip175D!STP_StopBridge <=> Lib!STP_StopBridge
  /\ Ip175D!MachineStep <=> Lib!MachineStep
  /\ Ip175D!Return <=> Lib!Return
  /\ Ip175D!CallbackReturned <=> Lib!CallbackReturned
  /\ \A n : Ip175D!Call(n, << >>) <=> Lib!Call(n, << >>)
<1>1. Ip175D!STP_StartBridge <=> Lib!STP_StartBridge
  BY Zenon DEF Ip175D!STP_StartBridge, Ip175D!Call, Ip175D!None, Ip175D!Callback, Ip175D!ForAllPorts,
     Ip175D!FlattenSeq, Ip175D!EnterState, Lib!STP_StartBridge, Lib!Call, Lib!None, Lib!Callback,
     Lib!ForAllPorts, Lib!FlattenSeq, Lib!EnterState
<1>2. Ip175D!STP_StopBridge <=> Lib!STP_StopBridge
  BY Zenon DEF Ip175D!STP_StopBridge, Ip175D!Call, Ip175D!None, Ip175D!Callback, Ip175D!ForAllPorts,
     Ip175D!FlattenSeq, Lib!STP_StopBridge, Lib!Call, Lib!None, Lib!Callback,
     Lib!ForAllPorts, Lib!FlattenSeq
<1>3. Ip175D!MachineStep <=> Lib!MachineStep
  BY Zenon DEF Ip175D!MachineStep, Ip175D!MachineEnters, Ip175D!MachineFlushes, Ip175D!None,
     Ip175D!Callback, Ip175D!EnterState, Lib!MachineStep, Lib!MachineEnters, Lib!MachineFlushes,
     Lib!None, Lib!Callback, Lib!EnterState
<1>4. Ip175D!Return <=> Lib!Return
  BY Zenon DEF Ip175D!Return, Ip175D!None, Lib!Return, Lib!None
<1>5. Ip175D!CallbackReturned <=> Lib!CallbackReturned
  BY Zenon DEF Ip175D!CallbackReturned, Lib!CallbackReturned
<1>6. \A n : Ip175D!Call(n, << >>) <=> Lib!Call(n, << >>)
  BY Zenon DEF Ip175D!Call, Ip175D!None, Lib!Call, Lib!None
<1> QED BY <1>1, <1>2, <1>3, <1>4, <1>5, <1>6, Zenon

\* What a step of the board, but for the callbacks, is to the library and to the switch.
LpcSteps ==
  \/ Lib!STP_StartBridge /\ x13'.at # "boot" /\ UNCHANGED <<x8, x9, x10, x11>>
  \/ Proceeds /\ x13.at # "boot" /\ x13'.at # "boot" /\ UNCHANGED <<x8, x9, x10, x11>>
  \/ /\ x5 = Lib!None /\ x13.at # "boot" /\ x13'.at # "boot"
     /\ UNCHANGED <<x1, x3, x4, x5, x6, x9, x10, x11>> /\ x8' = TRUE
  \/ (Lib!MachineStep \/ Lib!Return) /\ UNCHANGED <<x8, x9, x10, x11, x13>>
  \/ UNCHANGED <<x1, x3, x4, x5, x6, x8, x9, x10, x11, x13>>

LEMMA Ip175CStep ==
  ASSUME x13 = [at |-> x13.at, port |-> x13.port],
         \/ \E p \in Ports : Ip175C!LinkChanges(p) \/ \E bpdu \in BOOLEAN : Ip175C!FrameArrives(p, bpdu)
         \/ Ip175C!process_stp_command \/ Ip175C!on_one_second_timer \/ Ip175C!EventLoop \/ Ip175C!LibraryStep
  PROVE  x13' = [at |-> x13.at, port |-> x13.port]' /\ LpcSteps
<1> DEFINE Shape == x13' = [at |-> x13'.at, port |-> x13'.port]
           Same == UNCHANGED <<x8, x9, x10, x11>>
<1>a. ASSUME \E n : Ip175C!Call(n, << >>) PROVE Proceeds
  BY <1>a, Ip175CLibrary, Zenon DEF Proceeds, Moves
<1>b. ASSUME UNCHANGED Ip175C!libVars PROVE Proceeds
  BY <1>b, Zenon DEF Ip175C!libVars, Proceeds, Moves
<1>c. ASSUME NEW p, Ip175C!STP_OnPortEnabled(p) \/ Ip175C!STP_OnPortDisabled(p) PROVE Proceeds
  BY <1>a, <1>c, Zenon DEF Ip175C!STP_OnPortEnabled, Ip175C!STP_OnPortDisabled
<1>1. CASE \E p \in Ports : Ip175C!LinkChanges(p) \/ \E bpdu \in BOOLEAN : Ip175C!FrameArrives(p, bpdu)
  BY <1>1, Zenon DEF LpcSteps, Ip175C!FrameArrives, Ip175C!LinkChanges, Ip175C!libVars, Ip175C!switch
<1>2. CASE Ip175C!process_stp_command
  <2>1. x13' = x13 /\ x13.at = "idle" /\ Same
    BY <1>2, Zenon DEF Ip175C!process_stp_command, Ip175C!switch
  <2>2. Lib!STP_StartBridge \/ Proceeds
    BY <1>2, Ip175CLibrary, Zenon DEF Ip175C!process_stp_command, Proceeds, Moves
  <2> QED BY <2>1, <2>2, Zenon DEF LpcSteps
<1>3. CASE Ip175C!on_one_second_timer
  <2>1. x13' = x13 /\ x13.at = "idle" /\ Same
    BY <1>3, Zenon DEF Ip175C!on_one_second_timer, Ip175C!switch
  <2>2. Proceeds
    BY <1>3, <1>a, Zenon DEF Ip175C!on_one_second_timer, Ip175C!STP_OnOneSecondTick
  <2> QED BY <2>1, <2>2, Zenon DEF LpcSteps
<1>4. CASE Ip175C!StartBridge
  <2>1. x13' = [at |-> "power up", port |-> 0] /\ Same
    BY <1>4, Zenon DEF Ip175C!StartBridge, Ip175C!At, Ip175C!switch
  <2>2. Lib!STP_StartBridge
    BY <1>4, Ip175CLibrary, Zenon DEF Ip175C!StartBridge
  <2>3. Shape /\ x13'.at = "power up"
    BY <2>1, Zenon
  <2> QED BY <2>1, <2>2, <2>3, Zenon DEF LpcSteps
<1>5. CASE Ip175C!PowerUp
  <2>1. /\ x13.at = "power up" /\ x5 = Lib!None /\ x13' = [at |-> "idle", port |-> 0]
        /\ UNCHANGED <<x1, x3, x4, x5, x6, x9, x10, x11>> /\ x8' = TRUE
    BY <1>5, Zenon DEF Ip175C!PowerUp, Ip175C!At, Ip175C!switch, Ip175C!libVars, Ip175C!None, Lib!None
  <2>2. Shape /\ x13'.at = "idle"
    BY <2>1, Zenon
  <2> QED BY <2>1, <2>2, Zenon DEF LpcSteps
<1>6. CASE Ip175C!PollDue
  <2>1. x13' = [at |-> "poll", port |-> 1] /\ x13.at = "idle" /\ Same
    BY <1>6, Zenon DEF Ip175C!PollDue, Ip175C!switch
  <2>2. Proceeds
    BY <1>6, <1>b, Zenon DEF Ip175C!PollDue
  <2>3. Shape /\ x13'.at = "poll"
    BY <2>1, Zenon
  <2> QED BY <2>1, <2>2, <2>3, Zenon DEF LpcSteps
<1>7. CASE Ip175C!on_port_state_polling_timer
  <2>1. x13.at = "poll" /\ Same
    BY <1>7, Zenon DEF Ip175C!on_port_state_polling_timer, Ip175C!switch
  <2>2. Shape /\ x13'.at # "boot"
    <3>1. x13' = [x13 EXCEPT !.port = @ + 1] \/ x13' = [at |-> "idle", port |-> 0]
      BY <1>7, Zenon DEF Ip175C!on_port_state_polling_timer, Ip175C!At
    <3>2. CASE x13' = [x13 EXCEPT !.port = @ + 1]
      <4>1. Shape /\ x13'.at = x13.at
        BY <3>2, SMT
      <4> QED BY <2>1, <4>1, Zenon
    <3>3. CASE x13' = [at |-> "idle", port |-> 0]
      <4>1. Shape /\ x13'.at = "idle"
        BY <3>3, Zenon
      <4> QED BY <4>1, Zenon
    <3> QED BY <3>1, <3>2, <3>3, Zenon
  <2>3. Proceeds
    <3>1. CASE x7[x13.port] /\ ~x2[x13.port]
      BY <1>7, <1>c, <3>1, Zenon DEF Ip175C!on_port_state_polling_timer
    <3>2. CASE ~x7[x13.port] /\ x2[x13.port]
      BY <1>7, <1>c, <3>2, Zenon DEF Ip175C!on_port_state_polling_timer
    <3>3. CASE ~(x7[x13.port] /\ ~x2[x13.port]) /\ ~(~x7[x13.port] /\ x2[x13.port])
      BY <1>7, <1>b, <3>3, Zenon DEF Ip175C!on_port_state_polling_timer
    <3> QED BY <3>1, <3>2, <3>3, Zenon
  <2> QED BY <2>1, <2>2, <2>3, Zenon DEF LpcSteps
<1>8. CASE Ip175C!on_frame_received
  <2>1. x13.at = "idle" /\ Same
    BY <1>8, Zenon DEF Ip175C!on_frame_received, Ip175C!switch
  <2>2. Shape /\ x13'.at # "boot"
    <3>1. (\E q : x13' = [at |-> "bpdu", port |-> q]) \/ x13' = x13
      BY <1>8, Zenon DEF Ip175C!on_frame_received
    <3>2. ASSUME NEW q, x13' = [at |-> "bpdu", port |-> q]
          PROVE  Shape /\ x13'.at = "bpdu"
      BY <3>2, Zenon
    <3> QED BY <2>1, <3>1, <3>2, Zenon
  <2>3. Proceeds
    BY <1>8, <1>b, <1>c, Zenon DEF Ip175C!on_frame_received
  <2> QED BY <2>1, <2>2, <2>3, Zenon DEF LpcSteps
<1>9. CASE Ip175C!PassBpdu
  <2>1. x13.at = "bpdu" /\ x13' = [at |-> "idle", port |-> 0] /\ Same
    BY <1>9, Zenon DEF Ip175C!PassBpdu, Ip175C!At, Ip175C!switch
  <2>2. Proceeds
    BY <1>9, <1>a, Zenon DEF Ip175C!PassBpdu, Ip175C!STP_OnBpduReceived
  <2>3. Shape /\ x13'.at = "idle"
    BY <2>1, Zenon
  <2> QED BY <2>1, <2>2, <2>3, Zenon DEF LpcSteps
<1>10. CASE Ip175C!LibraryStep
  <2>1. x13' = x13 /\ Same
    BY <1>10, Zenon DEF Ip175C!LibraryStep, Ip175C!switch
  <2>2. Lib!MachineStep \/ Lib!Return
    BY <1>10, Ip175CLibrary, Zenon DEF Ip175C!LibraryStep
  <2> QED BY <2>1, <2>2, Zenon DEF LpcSteps
<1> QED BY <1>1, <1>2, <1>3, <1>4, <1>5, <1>6, <1>7, <1>8, <1>9, <1>10, Zenon DEF Ip175C!EventLoop

\* The other chip's application takes the same steps, but for the console's.
LEMMA Ip175DStep ==
  ASSUME x13 = [at |-> x13.at, port |-> x13.port],
         \/ \E p \in Ports : Ip175D!LinkChanges(p) \/ \E bpdu \in BOOLEAN : Ip175D!FrameArrives(p, bpdu)
         \/ Ip175D!process_stp_command \/ Ip175D!on_one_second_timer \/ Ip175D!EventLoop \/ Ip175D!LibraryStep
  PROVE  x13' = [at |-> x13.at, port |-> x13.port]' /\ LpcSteps
<1>1. ~Ip175D!process_stp_command
  BY Zenon DEF Ip175D!process_stp_command
<1>2. /\ Ip175D!STP_StartBridge <=> Ip175C!STP_StartBridge
      /\ Ip175D!MachineStep <=> Ip175C!MachineStep
      /\ Ip175D!Return <=> Ip175C!Return
      /\ \A n : Ip175D!Call(n, << >>) <=> Ip175C!Call(n, << >>)
  BY Ip175CLibrary, Ip175DLibrary, Zenon
<1>3. \A p : /\ (Ip175D!STP_OnPortEnabled(p) <=> Ip175C!STP_OnPortEnabled(p))
             /\ (Ip175D!STP_OnPortDisabled(p) <=> Ip175C!STP_OnPortDisabled(p))
             /\ (Ip175D!STP_OnBpduReceived(p) <=> Ip175C!STP_OnBpduReceived(p))
             /\ (Ip175D!STP_OnOneSecondTick <=> Ip175C!STP_OnOneSecondTick)
  BY <1>2, Zenon DEF Ip175D!STP_OnPortEnabled, Ip175C!STP_OnPortEnabled, Ip175D!STP_OnPortDisabled,
     Ip175C!STP_OnPortDisabled, Ip175D!STP_OnBpduReceived, Ip175C!STP_OnBpduReceived,
     Ip175D!STP_OnOneSecondTick, Ip175C!STP_OnOneSecondTick
<1>4. \A p, bpdu : /\ (Ip175D!LinkChanges(p) <=> Ip175C!LinkChanges(p))
                   /\ (Ip175D!FrameArrives(p, bpdu) <=> Ip175C!FrameArrives(p, bpdu))
  BY Zenon DEF Ip175D!LinkChanges, Ip175C!LinkChanges, Ip175D!FrameArrives, Ip175C!FrameArrives,
     Ip175D!libVars, Ip175C!libVars, Ip175D!switch, Ip175C!switch
<1>5. Ip175D!on_one_second_timer <=> Ip175C!on_one_second_timer
  BY <1>3, Zenon DEF Ip175D!on_one_second_timer, Ip175C!on_one_second_timer, Ip175D!switch, Ip175C!switch
<1>6. Ip175D!LibraryStep <=> Ip175C!LibraryStep
  BY <1>2, Zenon DEF Ip175D!LibraryStep, Ip175C!LibraryStep, Ip175D!switch, Ip175C!switch
<1>7. Ip175D!StartBridge <=> Ip175C!StartBridge
  BY <1>2, Zenon DEF Ip175D!StartBridge, Ip175C!StartBridge, Ip175D!At, Ip175C!At, Ip175D!switch, Ip175C!switch
<1>8. Ip175D!PowerUp <=> Ip175C!PowerUp
  BY Zenon DEF Ip175D!PowerUp, Ip175C!PowerUp, Ip175D!At, Ip175C!At, Ip175D!switch, Ip175C!switch,
     Ip175D!libVars, Ip175C!libVars, Ip175D!None, Ip175C!None
<1>9. Ip175D!PollDue <=> Ip175C!PollDue
  BY Zenon DEF Ip175D!PollDue, Ip175C!PollDue, Ip175D!switch, Ip175C!switch,
     Ip175D!libVars, Ip175C!libVars, Ip175D!None, Ip175C!None
<1>10. Ip175D!on_port_state_polling_timer <=> Ip175C!on_port_state_polling_timer
  BY <1>3, Zenon DEF Ip175D!on_port_state_polling_timer, Ip175C!on_port_state_polling_timer,
     Ip175D!At, Ip175C!At, Ip175D!switch, Ip175C!switch, Ip175D!libVars, Ip175C!libVars, Ip175D!None, Ip175C!None
<1>11. Ip175D!on_frame_received <=> Ip175C!on_frame_received
  BY <1>3, Zenon DEF Ip175D!on_frame_received, Ip175C!on_frame_received, Ip175D!switch, Ip175C!switch,
     Ip175D!libVars, Ip175C!libVars, Ip175D!None, Ip175C!None
<1>12. Ip175D!PassBpdu <=> Ip175C!PassBpdu
  BY <1>3, Zenon DEF Ip175D!PassBpdu, Ip175C!PassBpdu, Ip175D!At, Ip175C!At, Ip175D!switch, Ip175C!switch
<1>13. Ip175D!EventLoop <=> Ip175C!EventLoop
  BY <1>7, <1>8, <1>9, <1>10, <1>11, <1>12, Zenon DEF Ip175D!EventLoop, Ip175C!EventLoop
<1>14. \/ \E p \in Ports : Ip175C!LinkChanges(p) \/ \E bpdu \in BOOLEAN : Ip175C!FrameArrives(p, bpdu)
       \/ Ip175C!process_stp_command \/ Ip175C!on_one_second_timer \/ Ip175C!EventLoop \/ Ip175C!LibraryStep
  BY <1>1, <1>4, <1>5, <1>6, <1>13, Zenon
<1> QED BY <1>14, Ip175CStep, Zenon

LEMMA LpcStart ==
  ASSUME Numbered, NEW chip, LpcInv(chip), Lib!STP_StartBridge, x13'.at # "boot",
         UNCHANGED <<x8, x9, x10, x11>>, x13' = [at |-> x13.at, port |-> x13.port]'
  PROVE  LpcInv(chip)'
<1>1. /\ Consistent' /\ Restored' /\ Asks("trapping", 0, TRUE)' /\ x3' = x3 /\ x4' = x4
      /\ \A p \in Ports : Asks("learning", p, FALSE)' /\ Asks("forwarding", p, FALSE)'
  BY StartKeeps, Zenon DEF LpcInv
<1>2. TrapAsked'
  BY <1>1, Zenon DEF TrapAsked
<1>3. ASSUME NEW p \in Ports PROVE LpcForwards(p)'
  BY <1>1, Zenon DEF LpcInv, LpcForwards
<1>4. ASSUME NEW p \in Ports PROVE LpcLearns(chip, p)'
  BY <1>1, Zenon DEF LpcInv, LpcLearns
<1> QED BY <1>1, <1>2, <1>3, <1>4, Zenon DEF LpcInv

LEMMA LpcProceeds ==
  ASSUME Numbered, NEW chip, LpcInv(chip), Proceeds, x13.at # "boot", x13'.at # "boot",
         UNCHANGED <<x8, x9, x10, x11>>, x13' = [at |-> x13.at, port |-> x13.port]'
  PROVE  LpcInv(chip)'
<1>1. /\ Consistent' /\ Restored' /\ x3' = x3 /\ x4' = x4
      /\ x6' = x6 \/ x6 = << >>
      /\ (WillRun' <=> WillRun) \/ Asks("trapping", 0, FALSE)'
  BY ProceedsKeeps, Zenon DEF LpcInv
<1>2. \A to, p, e : Asks(to, p, e) => Asks(to, p, e)'
  BY <1>1, AsksNothing, Zenon DEF Asks
<1>3. TrapAsked' \/ (x9' <=> WillRun')
  BY <1>1, <1>2, Zenon DEF LpcInv, TrapAsked
<1>4. ASSUME NEW p \in Ports PROVE LpcForwards(p)'
  BY <1>1, <1>2, Zenon DEF LpcInv, LpcForwards
<1>5. ASSUME NEW p \in Ports PROVE LpcLearns(chip, p)'
  BY <1>1, <1>2, Zenon DEF LpcInv, LpcLearns
<1> QED BY <1>1, <1>3, <1>4, <1>5, Zenon DEF LpcInv

\* Power is turned on when no callback is left to be called.
LEMMA LpcPowersUp ==
  ASSUME Numbered, NEW chip, LpcInv(chip), x5 = Lib!None, x13.at # "boot", x13'.at # "boot",
         UNCHANGED <<x1, x3, x4, x5, x6, x9, x10, x11>>, x8' = TRUE,
         x13' = [at |-> x13.at, port |-> x13.port]'
  PROVE  LpcInv(chip)'
<1>1. x6 = << >>
  BY Zenon DEF LpcInv, Consistent
<1>2. Consistent' /\ (Restored => Restored') /\ (WillRun' <=> WillRun)
  BY <1>1, UnchangedKeeps, Zenon DEF LpcInv
<1>3. \A to, p, e : ~Asks(to, p, e) /\ ~Asks(to, p, e)'
  BY <1>1, AsksNothing, AsksSame, Zenon
<1>4. ASSUME NEW p \in Ports PROVE LpcForwards(p)'
  BY <1>3, Zenon DEF LpcInv, LpcForwards
<1>5. ASSUME NEW p \in Ports PROVE LpcLearns(chip, p)'
  BY <1>3, Zenon DEF LpcInv, LpcLearns
<1>6. TrapAsked' \/ (x9' <=> WillRun')
  BY <1>2, <1>3, Zenon DEF LpcInv, TrapAsked
<1> QED BY <1>2, <1>4, <1>5, <1>6, Zenon DEF LpcInv

\* What CallCallback does on the board.
LpcCalls(chip) ==
  /\ Lib!CallbackReturned /\ x13' = x13 /\ x8' = x8
  /\ x9' = IF Head(x6).to = "trapping" THEN Head(x6).enable ELSE x9
  /\ x11' = IF Head(x6).to = "forwarding" THEN [x11 EXCEPT ![Head(x6).port] = Head(x6).enable] ELSE x11
  /\ IF Head(x6).to = "learning" /\ chip # "175C"
     THEN x10' = [x10 EXCEPT ![Head(x6).port] = Head(x6).enable]
     ELSE x10' = x10 \/ x10' = [x10 EXCEPT ![Head(x6).port] = @]

LEMMA Ip175CCallback ==
  ASSUME Ip175C!CallCallback
  PROVE  x6 # << >> /\ LpcCalls("175C")
<1> DEFINE c == Head(x6)
<1>1. /\ \/ c.to = "trapping" /\ Ip175C!StpCallback_EnableBpduTrapping(c.enable)
         \/ c.to = "learning" /\ Ip175C!StpCallback_EnableLearning(c.port, c.enable)
         \/ c.to = "forwarding" /\ Ip175C!StpCallback_EnableForwarding(c.port, c.enable)
         \/ c.to \in {"flush", "started"} /\ UNCHANGED Ip175C!switch
      /\ Lib!CallbackReturned /\ x13' = x13 /\ x8' = x8 /\ x6 # << >>
  BY Ip175CLibrary, Zenon DEF Ip175C!CallCallback
<1> HIDE DEF c
<1>4. CASE c.to = "trapping"
  BY <1>1, <1>4, Zenon DEF Ip175C!StpCallback_EnableBpduTrapping, LpcCalls, c
<1>5. CASE c.to = "learning"
  <2>1. /\ x10' = [x10 EXCEPT ![c.port] = IF "175C" = "175C" THEN @ ELSE c.enable]
        /\ x9' = x9 /\ x11' = x11
    BY <1>1, <1>5, Zenon DEF Ip175C!StpCallback_EnableLearning
  <2>2. x10' = [x10 EXCEPT ![c.port] = @]
    BY <2>1, Zenon
  <2> QED BY <1>1, <1>5, <2>1, <2>2, Zenon DEF LpcCalls, c
<1>6. CASE c.to = "forwarding"
  BY <1>1, <1>6, Zenon DEF Ip175C!StpCallback_EnableForwarding, LpcCalls, c
<1>7. CASE c.to \in {"flush", "started"}
  BY <1>1, <1>7, Zenon DEF Ip175C!switch, LpcCalls, c
<1> QED BY <1>1, <1>4, <1>5, <1>6, <1>7, Zenon

LEMMA Ip175DCallback ==
  ASSUME Ip175D!CallCallback
  PROVE  x6 # << >> /\ LpcCalls("175D")
<1> DEFINE c == Head(x6)
<1>1. /\ \/ c.to = "trapping" /\ Ip175D!StpCallback_EnableBpduTrapping(c.enable)
         \/ c.to = "learning" /\ Ip175D!StpCallback_EnableLearning(c.port, c.enable)
         \/ c.to = "forwarding" /\ Ip175D!StpCallback_EnableForwarding(c.port, c.enable)
         \/ c.to \in {"flush", "started"} /\ UNCHANGED Ip175D!switch
      /\ Lib!CallbackReturned /\ x13' = x13 /\ x8' = x8 /\ x6 # << >>
  BY Ip175DLibrary, Zenon DEF Ip175D!CallCallback
<1> HIDE DEF c
<1>4. CASE c.to = "trapping"
  BY <1>1, <1>4, Zenon DEF Ip175D!StpCallback_EnableBpduTrapping, LpcCalls, c
<1>5. CASE c.to = "learning"
  <2>1. /\ x10' = [x10 EXCEPT ![c.port] = IF "175D" = "175C" THEN @ ELSE c.enable]
        /\ x9' = x9 /\ x11' = x11
    BY <1>1, <1>5, Zenon DEF Ip175D!StpCallback_EnableLearning
  <2>2. x10' = [x10 EXCEPT ![c.port] = c.enable]
    BY <2>1, Zenon
  <2> QED BY <1>1, <1>5, <2>1, <2>2, Zenon DEF LpcCalls, c
<1>6. CASE c.to = "forwarding"
  BY <1>1, <1>6, Zenon DEF Ip175D!StpCallback_EnableForwarding, LpcCalls, c
<1>7. CASE c.to \in {"flush", "started"}
  BY <1>1, <1>7, Zenon DEF Ip175D!switch, LpcCalls, c
<1> QED BY <1>1, <1>4, <1>5, <1>6, <1>7, Zenon

LEMMA LpcCallbackKeeps ==
  ASSUME Numbered, NEW chip, LpcInv(chip), x6 # << >>, LpcCalls(chip)
  PROVE  LpcInv(chip)'
<1> DEFINE c == Head(x6)
<1>1. /\ Lib!CallbackReturned /\ x13' = x13 /\ x8' = x8
      /\ x9' = IF c.to = "trapping" THEN c.enable ELSE x9
      /\ x11' = IF c.to = "forwarding" THEN [x11 EXCEPT ![c.port] = c.enable] ELSE x11
      /\ IF c.to = "learning" /\ chip # "175C"
         THEN x10' = [x10 EXCEPT ![c.port] = c.enable]
         ELSE x10' = x10 \/ x10' = [x10 EXCEPT ![c.port] = @]
  BY Zenon DEF LpcCalls
<1>2. /\ Consistent' /\ (Restored => Restored') /\ (WillRun' <=> WillRun)
      /\ \A to, p, e : Asks(to, p, e) <=> (Lib!Callback(to, p, e) = c \/ Asks(to, p, e)')
  BY <1>1, CallbackKeeps, Zenon DEF LpcInv
<1>3. /\ c.enable \in BOOLEAN
      /\ \A to, p, e : Lib!Callback(to, p, e) = c => to = c.to /\ p = c.port /\ e = c.enable
  BY HeadFacts, Zenon DEF LpcInv
<1>4. /\ x3' = IF c.to = "learning" THEN [x3 EXCEPT ![c.port] = c.enable] ELSE x3
      /\ x4' = IF c.to = "forwarding" THEN [x4 EXCEPT ![c.port] = c.enable] ELSE x4
  BY <1>1, Zenon DEF Lib!CallbackReturned
<1>5. x13.at # "boot"
  BY Zenon DEF LpcInv, Consistent, Pristine
<1>6. TrapAsked' \/ (x9' <=> WillRun')
  <2>1. /\ Consistent /\ (TrapAsked \/ (x9 <=> WillRun))
        /\ x9' = IF Head(x6).to = "trapping" THEN Head(x6).enable ELSE x9
    BY <1>1, <1>5, Zenon DEF LpcInv
  <2> QED BY <1>1, <2>1, TrappingFollows
<1> HIDE DEF c
<1>7. /\ x3 \in [Ports -> BOOLEAN] /\ x4 \in [Ports -> BOOLEAN] /\ x9 \in BOOLEAN
      /\ x10 \in [Ports -> BOOLEAN] /\ x11 \in [Ports -> BOOLEAN]
  BY Zenon DEF LpcInv, Consistent
<1>8. ASSUME NEW p \in Ports PROVE LpcForwards(p)'
  <2>1. CASE c.to = "forwarding" /\ c.port = p
    <3>1. x11'[p] = x4'[p]
      BY <1>1, <1>4, <1>7, <2>1, SMT
    <3> QED BY <3>1, Zenon DEF LpcForwards
  <2>2. CASE c.to # "forwarding" \/ c.port # p
    <3>1. x11'[p] = x11[p] /\ x4'[p] = x4[p]
      <4>1. x11' = IF c.to = "forwarding" THEN [x11 EXCEPT ![c.port] = c.enable] ELSE x11
        BY <1>1, Zenon
      <4> QED BY <4>1, <1>4, <1>7, <2>2, SMT
    <3>2. Asks("forwarding", p, FALSE) => Asks("forwarding", p, FALSE)'
      <4>1. \A e : Lib!Callback("forwarding", p, e) # c
        BY <1>3, <2>2, Zenon
      <4> QED BY <1>2, <4>1, Zenon
    <3> QED BY <1>1, <3>1, <3>2, <1>5, Zenon DEF LpcInv, LpcForwards
  <2> QED BY <2>1, <2>2, Zenon
<1>9. ASSUME NEW p \in Ports PROVE LpcLearns(chip, p)'
  <2>1. CASE chip = "175C"
    <3>1. x10' = x10 \/ x10' = [x10 EXCEPT ![c.port] = @]
      BY <1>1, <2>1, Zenon
    <3>2. x10'[p] = x10[p]
      BY <3>1, <1>7, SMT
    <3> QED BY <2>1, <3>2, Zenon DEF LpcInv, LpcLearns
  <2>2. CASE chip # "175C" /\ c.to = "learning" /\ c.port = p
    <3>0. x10' = [x10 EXCEPT ![c.port] = c.enable]
      BY <1>1, <2>2, Zenon
    <3>1. x10'[p] = x3'[p]
      BY <3>0, <1>4, <1>7, <2>2, SMT
    <3> QED BY <2>2, <3>1, Zenon DEF LpcLearns
  <2>3. CASE chip # "175C" /\ (c.to # "learning" \/ c.port # p)
    <3>0. \/ x10' = x10
          \/ x10' = [x10 EXCEPT ![c.port] = @]
          \/ c.port # p /\ x10' = [x10 EXCEPT ![c.port] = c.enable]
      BY <1>1, <2>3, Zenon
    <3>1. x10'[p] = x10[p] /\ x3'[p] = x3[p]
      <4>1. c.to # "learning" \/ c.port # p
        BY <2>3
      <4> QED BY <3>0, <4>1, <1>4, <1>7, SMT
    <3>2. Asks("learning", p, FALSE) => Asks("learning", p, FALSE)'
      <4>1. \A e : Lib!Callback("learning", p, e) # c
        BY <1>3, <2>3, Zenon
      <4> QED BY <1>2, <4>1, Zenon
    <3> QED BY <1>1, <2>3, <3>1, <3>2, <1>5, Zenon DEF LpcInv, LpcLearns
  <2> QED BY <2>1, <2>2, <2>3, Zenon
<1>10. /\ x8' \in BOOLEAN /\ x9' \in BOOLEAN
       /\ x10' \in [Ports -> BOOLEAN] /\ x11' \in [Ports -> BOOLEAN]
  <2>1. x8' \in BOOLEAN /\ x9' \in BOOLEAN
    BY <1>1, <1>3, Zenon DEF LpcInv
  <2>2. x11' \in [Ports -> BOOLEAN]
    <3>1. x11' = x11 \/ x11' = [x11 EXCEPT ![c.port] = c.enable]
      BY <1>1, Zenon
    <3> QED BY <3>1, <1>3, <1>7, SMT
  <2>3. x10' \in [Ports -> BOOLEAN]
    <3>1. \/ x10' = x10 \/ x10' = [x10 EXCEPT ![c.port] = @]
          \/ x10' = [x10 EXCEPT ![c.port] = c.enable]
      BY <1>1, Zenon
    <3> QED BY <3>1, <1>3, <1>7, SMT
  <2> QED BY <2>1, <2>2, <2>3
<1>11. x13' = [at |-> x13.at, port |-> x13.port]'
  BY <1>1, Zenon DEF LpcInv
<1> QED BY <1>1, <1>2, <1>5, <1>6, <1>8, <1>9, <1>10, <1>11, Zenon DEF LpcInv

LEMMA Ip175CStarts ==
  ASSUME Ip175C!Init
  PROVE  LpcInv("175C")
<1>1. /\ Lib!LibraryInit /\ x8 = FALSE /\ x9 = FALSE
      /\ x10 = [p \in Ports |-> "175C" # "175C"] /\ x11 = [p \in Ports |-> TRUE]
      /\ x13 = [at |-> "boot", port |-> 0]
  BY Zenon DEF Ip175C!Init, Ip175C!InitSwitch, Ip175C!LibraryInit, Ip175C!None, Ip175C!At, Lib!LibraryInit, Lib!None
<1>2. Consistent /\ Pristine
  BY <1>1, LibraryStarts
<1>3. x13.at = "boot" /\ x13 = [at |-> x13.at, port |-> x13.port]
  BY <1>1, Zenon
<1>4. ASSUME NEW p \in Ports PROVE LpcForwards(p) /\ LpcLearns("175C", p)
  <2>1. x10[p] = ("175C" # "175C") /\ ~x3[p] /\ ~x4[p]
    BY <1>1, <1>2, Zenon DEF Pristine
  <2> QED BY <1>1, <1>3, <2>1, Zenon DEF LpcForwards, LpcLearns
<1>5. x10 \in [Ports -> BOOLEAN] /\ x11 \in [Ports -> BOOLEAN]
  BY <1>1, Zenon
<1> QED BY <1>1, <1>2, <1>3, <1>4, <1>5, Zenon DEF LpcInv

LEMMA Ip175DStarts ==
  ASSUME Ip175D!Init
  PROVE  LpcInv("175D")
<1>1. /\ Lib!LibraryInit /\ x8 = FALSE /\ x9 = FALSE
      /\ x10 = [p \in Ports |-> "175D" # "175C"] /\ x11 = [p \in Ports |-> TRUE]
      /\ x13 = [at |-> "boot", port |-> 0]
  BY Zenon DEF Ip175D!Init, Ip175D!InitSwitch, Ip175D!LibraryInit, Ip175D!None, Ip175D!At, Lib!LibraryInit, Lib!None
<1>2. Consistent /\ Pristine
  BY <1>1, LibraryStarts
<1>3. x13.at = "boot" /\ x13 = [at |-> x13.at, port |-> x13.port]
  BY <1>1, Zenon
<1>4. ASSUME NEW p \in Ports PROVE LpcForwards(p) /\ LpcLearns("175D", p)
  <2>1. x10[p] = ("175D" # "175C") /\ ~x3[p] /\ ~x4[p]
    BY <1>1, <1>2, Zenon DEF Pristine
  <2> QED BY <1>1, <1>3, <2>1, Zenon DEF LpcForwards, LpcLearns
<1>5. x10 \in [Ports -> BOOLEAN] /\ x11 \in [Ports -> BOOLEAN]
  BY <1>1, Zenon
<1> QED BY <1>1, <1>2, <1>3, <1>4, <1>5, Zenon DEF LpcInv

LEMMA LpcSame ==
  ASSUME NEW chip, LpcInv(chip), UNCHANGED <<x1, x3, x4, x5, x6, x8, x9, x10, x11, x13>>
  PROVE  LpcInv(chip)'
<1>1. x5' = Lib!None => x6 = << >>
  BY Zenon DEF LpcInv, Consistent
<1>2. Consistent' /\ (Restored => Restored') /\ (WillRun' <=> WillRun)
  BY <1>1, UnchangedKeeps, Zenon DEF LpcInv
<1>3. \A to, p, e : Asks(to, p, e)' <=> Asks(to, p, e)
  BY AsksSame, Zenon
<1>4. \A p \in Ports : LpcForwards(p)'
  BY <1>3, Zenon DEF LpcInv, LpcForwards
<1>5. \A p \in Ports : LpcLearns(chip, p)'
  BY <1>3, Zenon DEF LpcInv, LpcLearns
<1>6. x13.at = "boot" => Pristine'
  BY Zenon DEF LpcInv, Pristine
<1> QED BY <1>2, <1>3, <1>4, <1>5, <1>6, Zenon DEF LpcInv, TrapAsked

LEMMA LpcStepsKeep ==
  ASSUME Numbered, NEW chip, LpcInv(chip), LpcSteps, x13' = [at |-> x13.at, port |-> x13.port]'
  PROVE  LpcInv(chip)'
<1>2. CASE Lib!STP_StartBridge /\ x13'.at # "boot" /\ UNCHANGED <<x8, x9, x10, x11>>
  BY <1>2, LpcStart
<1>3. CASE Proceeds /\ x13.at # "boot" /\ x13'.at # "boot" /\ UNCHANGED <<x8, x9, x10, x11>>
  BY <1>3, LpcProceeds
<1>4. CASE /\ x5 = Lib!None /\ x13.at # "boot" /\ x13'.at # "boot"
           /\ UNCHANGED <<x1, x3, x4, x5, x6, x9, x10, x11>> /\ x8' = TRUE
  BY <1>4, LpcPowersUp
<1>6. CASE (Lib!MachineStep \/ Lib!Return) /\ UNCHANGED <<x8, x9, x10, x11, x13>>
  <2>1. x13.at # "boot" /\ x13'.at # "boot"
    BY <1>6, PristineStays, Zenon DEF LpcInv
  <2>2. Proceeds
    BY <1>6, Zenon DEF Proceeds, Moves
  <2> QED BY <1>6, <2>1, <2>2, LpcProceeds, Zenon
<1>7. CASE UNCHANGED <<x1, x3, x4, x5, x6, x8, x9, x10, x11, x13>>
  BY <1>7, LpcSame
<1> QED BY <1>2, <1>3, <1>4, <1>6, <1>7, Zenon DEF LpcSteps

LEMMA Ip175CKeeps ==
  ASSUME Numbered, LpcInv("175C"), Ip175C!Next
  PROVE  LpcInv("175C")'
<1>1. CASE Ip175C!CallCallback
  <2>1. x6 # << >> /\ LpcCalls("175C")
    BY <1>1, Ip175CCallback
  <2> QED BY <2>1, LpcCallbackKeeps
<1>2. CASE ~Ip175C!CallCallback
  <2>1. x13 = [at |-> x13.at, port |-> x13.port]
    BY Zenon DEF LpcInv
  <2>2. \/ \E p \in Ports : Ip175C!LinkChanges(p) \/ \E bpdu \in BOOLEAN : Ip175C!FrameArrives(p, bpdu)
        \/ Ip175C!process_stp_command \/ Ip175C!on_one_second_timer \/ Ip175C!EventLoop \/ Ip175C!LibraryStep
    BY <1>2, Zenon DEF Ip175C!Next
  <2>3. x13' = [at |-> x13.at, port |-> x13.port]' /\ LpcSteps
    BY <2>1, <2>2, Ip175CStep
  <2> QED BY <2>3, LpcStepsKeep
<1> QED BY <1>1, <1>2

LEMMA Ip175DKeeps ==
  ASSUME Numbered, LpcInv("175D"), Ip175D!Next
  PROVE  LpcInv("175D")'
<1>1. CASE Ip175D!CallCallback
  <2>1. x6 # << >> /\ LpcCalls("175D")
    BY <1>1, Ip175DCallback
  <2> QED BY <2>1, LpcCallbackKeeps
<1>2. CASE ~Ip175D!CallCallback
  <2>1. x13 = [at |-> x13.at, port |-> x13.port]
    BY Zenon DEF LpcInv
  <2>2. \/ \E p \in Ports : Ip175D!LinkChanges(p) \/ \E bpdu \in BOOLEAN : Ip175D!FrameArrives(p, bpdu)
        \/ Ip175D!process_stp_command \/ Ip175D!on_one_second_timer \/ Ip175D!EventLoop \/ Ip175D!LibraryStep
    BY <1>2, Zenon DEF Ip175D!Next
  <2>3. x13' = [at |-> x13.at, port |-> x13.port]' /\ LpcSteps
    BY <2>1, <2>2, Ip175DStep
  <2> QED BY <2>3, LpcStepsKeep
<1> QED BY <1>1, <1>2

LEMMA LpcObeys ==
  ASSUME NEW chip \in {"175C", "175D"}, LpcInv(chip)
  PROVE  /\ x5 = Lib!None /\ x13.at # "boot" =>
              /\ x9 = x1
              /\ \A p \in Ports : /\ (x11[p] <=> (x1 => x4[p]))
                                 /\ (x10[p] <=> chip = "175D" /\ (x1 => x3[p]))
         /\ \A p \in Ports : x8 /\ x11[p] => x4[p]
<1>1. ASSUME x5 = Lib!None, x13.at # "boot"
      PROVE  /\ x9 = x1
             /\ \A p \in Ports : /\ (x11[p] <=> (x1 => x4[p]))
                                /\ (x10[p] <=> chip = "175D" /\ (x1 => x3[p]))
  <2>1. x6 = << >> /\ Consistent /\ Restored
    BY <1>1, Zenon DEF LpcInv, Consistent
  <2>2. \A to, p, e : ~Asks(to, p, e)
    BY <2>1, AsksNothing, Zenon
  <2>3. /\ (WillRun <=> x1)
        /\ \A p \in Ports : /\ (WillLearn(p) <=> x3[p])
                           /\ (WillForward(p) <=> x4[p])
                           /\ (x4[p] => x3[p])
    BY <2>1, Quiet
  <2>4. x9 = x1
    <3>1. x9 <=> x1
      BY <1>1, <2>2, <2>3, Zenon DEF LpcInv, TrapAsked
    <3>2. x9 \in BOOLEAN /\ x1 \in BOOLEAN
      BY Zenon DEF LpcInv, Consistent
    <3> QED BY <3>1, <3>2, Zenon
  <2>5. ~x1 => \A p \in Ports : x4[p]
    BY <2>1, <2>3, Zenon DEF Restored
  <2>6. ASSUME NEW p \in Ports
        PROVE  /\ (x11[p] <=> (x1 => x4[p]))
               /\ (x10[p] <=> chip = "175D" /\ (x1 => x3[p]))
    <3>1. x11[p] = x4[p]
      BY <1>1, <2>2, Zenon DEF LpcInv, LpcForwards
    <3>2. IF chip = "175C" THEN x10[p] = FALSE ELSE x10[p] = x3[p]
      BY <1>1, <2>2, Zenon DEF LpcInv, LpcLearns
    <3>3. x4[p] => x3[p]
      BY <2>3
    <3> QED BY <2>5, <3>1, <3>2, <3>3, Zenon
  <2> QED BY <2>4, <2>6
<1>2. ASSUME NEW p \in Ports, x8, x11[p]
      PROVE  x4[p]
  BY <1>2, Zenon DEF LpcInv, LpcForwards
<1> QED BY <1>1, <1>2, Zenon

LEMMA Ip175CObeys ==
  ASSUME LpcInv("175C")
  PROVE  Ip175C!SwitchObeys /\ Ip175C!NoLoopAtPowerUp
BY LpcObeys, Zenon DEF Ip175C!SwitchObeys, Ip175C!NoLoopAtPowerUp, Ip175C!None, Lib!None

LEMMA Ip175DObeys ==
  ASSUME LpcInv("175D")
  PROVE  Ip175D!SwitchObeys /\ Ip175D!NoLoopAtPowerUp
BY LpcObeys, Zenon DEF Ip175D!SwitchObeys, Ip175D!NoLoopAtPowerUp, Ip175D!None, Lib!None

-----------------------------------------------------------------------------
(***************************************************************************)
(* The MK66F board.  Trapping takes two accesses; a flush turns a port's   *)
(* learning off and back, and meanwhile flushing.val holds the bit.        *)
(***************************************************************************)
Flushes(p) == x12.at # "no" /\ Head(x6).port = p

\* The bit that turns learning off, or what it will be put back to.
DisableBit(p) == IF Flushes(p) THEN x12.val ELSE x8[p]

Mk66fLearns(p) ==
  \/ DisableBit(p) = ~x3[p]
  \/ ~x3[p] /\ (x14.at = "boot" \/ Asks("learning", p, FALSE))

Mk66fForwards(p) ==
  \/ x9[p] = x4[p]
  \/ ~x4[p] /\ (x14.at = "boot" \/ Asks("forwarding", p, FALSE))

\* A flush is that of the callback at the head, and its port does not learn.
FlushingOk ==
  /\ x12 = [at |-> x12.at, val |-> x12.val]
  /\ x12.val \in BOOLEAN
  /\ x12.at # "no" => /\ x6 # << >> /\ Head(x6).to = "flush"
                      /\ x8[Head(x6).port] = TRUE
  /\ \A p \in Ports : x11[p] = "old" => x12.at = "flush" /\ Head(x6).port = p

Mk66fTraps == (x10.entry <=> WillRun) /\ (x10.tag <=> WillRun)

Mk66fInv ==
  /\ Consistent
  /\ x14 = [at |-> x14.at, port |-> x14.port]
  /\ x14.at = "boot" => Pristine
  /\ x14.at # "boot" => Restored /\ (TrapAsked \/ Mk66fTraps)
  /\ x8 \in [Ports -> BOOLEAN] /\ x9 \in [Ports -> BOOLEAN]
  /\ x10 \in [entry : BOOLEAN, tag : BOOLEAN]
  /\ x11 \in [Ports -> {"none", "new", "old"}]
  /\ FlushingOk
  /\ \A p \in Ports : Mk66fLearns(p)
  /\ \A p \in Ports : Mk66fForwards(p)

LEMMA Mk66fLibrary ==
  /\ Mk66f!STP_StartBridge <=> Lib!STP_StartBridge
  /\ Mk66f!STP_StopBridge <=> Lib!STP_StopBridge
  /\ Mk66f!MachineStep <=> Lib!MachineStep
  /\ Mk66f!Return <=> Lib!Return
  /\ Mk66f!CallbackReturned <=> Lib!CallbackReturned
  /\ \A n : Mk66f!Call(n, << >>) <=> Lib!Call(n, << >>)
<1>1. Mk66f!STP_StartBridge <=> Lib!STP_StartBridge
  BY Zenon DEF Mk66f!STP_StartBridge, Mk66f!Call, Mk66f!None, Mk66f!Callback, Mk66f!ForAllPorts,
     Mk66f!FlattenSeq, Mk66f!EnterState, Lib!STP_StartBridge, Lib!Call, Lib!None, Lib!Callback,
     Lib!ForAllPorts, Lib!FlattenSeq, Lib!EnterState
<1>2. Mk66f!STP_StopBridge <=> Lib!STP_StopBridge
  BY Zenon DEF Mk66f!STP_StopBridge, Mk66f!Call, Mk66f!None, Mk66f!Callback, Mk66f!ForAllPorts,
     Mk66f!FlattenSeq, Lib!STP_StopBridge, Lib!Call, Lib!None, Lib!Callback,
     Lib!ForAllPorts, Lib!FlattenSeq
<1>3. Mk66f!MachineStep <=> Lib!MachineStep
  BY Zenon DEF Mk66f!MachineStep, Mk66f!MachineEnters, Mk66f!MachineFlushes, Mk66f!None,
     Mk66f!Callback, Mk66f!EnterState, Lib!MachineStep, Lib!MachineEnters, Lib!MachineFlushes,
     Lib!None, Lib!Callback, Lib!EnterState
<1>4. Mk66f!Return <=> Lib!Return
  BY Zenon DEF Mk66f!Return, Mk66f!None, Lib!Return, Lib!None
<1>5. Mk66f!CallbackReturned <=> Lib!CallbackReturned
  BY Zenon DEF Mk66f!CallbackReturned, Lib!CallbackReturned
<1>6. \A n : Mk66f!Call(n, << >>) <=> Lib!Call(n, << >>)
  BY Zenon DEF Mk66f!Call, Mk66f!None, Lib!Call, Lib!None
<1> QED BY <1>1, <1>2, <1>3, <1>4, <1>5, <1>6, Zenon

\* What a step of the board is to the library and to the switch.
Mk66fSteps ==
  \/ Lib!STP_StartBridge /\ x14'.at # "boot" /\ UNCHANGED <<x8, x9, x10, x11, x12>>
  \/ Proceeds /\ x14.at # "boot" /\ x14'.at # "boot" /\ UNCHANGED <<x8, x9, x10, x11, x12>>
  \/ /\ \E p \in Ports : x11[p] = "none" /\ x11' = [x11 EXCEPT ![p] = "new"]
     /\ UNCHANGED <<x1, x3, x4, x5, x6, x8, x9, x10, x12, x14>>
  \/ Mk66f!CallCallback
  \/ (Lib!MachineStep \/ Lib!Return) /\ UNCHANGED <<x8, x9, x10, x11, x12, x14>>
  \/ UNCHANGED <<x1, x3, x4, x5, x6, x8, x9, x10, x11, x12, x14>>

LEMMA Mk66fStep ==
  ASSUME Mk66f!Next, x14 = [at |-> x14.at, port |-> x14.port]
  PROVE  x14' = [at |-> x14.at, port |-> x14.port]' /\ Mk66fSteps
<1> DEFINE Shape == x14' = [at |-> x14'.at, port |-> x14'.port]
           Same == UNCHANGED <<x8, x9, x10, x11, x12>>
<1>a. ASSUME \E n : Mk66f!Call(n, << >>) PROVE Proceeds
  BY <1>a, Mk66fLibrary, Zenon DEF Proceeds, Moves
<1>b. ASSUME UNCHANGED Mk66f!libVars PROVE Proceeds
  BY <1>b, Zenon DEF Mk66f!libVars, Proceeds, Moves
<1>c. ASSUME NEW p, Mk66f!STP_OnPortEnabled(p) \/ Mk66f!STP_OnPortDisabled(p) PROVE Proceeds
  BY <1>a, <1>c, Zenon DEF Mk66f!STP_OnPortEnabled, Mk66f!STP_OnPortDisabled
<1>0. CASE \E p \in Ports : Mk66f!SwitchLearns(p)
  BY <1>0, Zenon DEF Mk66f!SwitchLearns, Mk66f!libVars, Mk66fSteps
<1>1. CASE \E p \in Ports : Mk66f!LinkChanges(p) \/ \E last \in {0} \cup Ports : Mk66f!FrameArrives(p, last)
  BY <1>1, Zenon DEF Mk66f!FrameArrives, Mk66f!LinkChanges, Mk66f!libVars, Mk66f!switch, Mk66fSteps
<1>2. CASE Mk66f!Console
  <2>1. x14' = x14 /\ x14.at = "idle" /\ Same
    BY <1>2, Zenon DEF Mk66f!Console, Mk66f!switch
  <2>2. Lib!STP_StartBridge \/ Proceeds
    BY <1>2, Mk66fLibrary, Zenon DEF Mk66f!Console, Proceeds, Moves
  <2> QED BY <2>1, <2>2, Zenon DEF Mk66fSteps
<1>3. CASE Mk66f!on_one_second_tick
  <2>1. x14' = x14 /\ x14.at = "idle" /\ Same
    BY <1>3, Zenon DEF Mk66f!on_one_second_tick, Mk66f!switch
  <2>2. Proceeds
    BY <1>3, <1>a, Zenon DEF Mk66f!on_one_second_tick, Mk66f!STP_OnOneSecondTick
  <2> QED BY <2>1, <2>2, Zenon DEF Mk66fSteps
<1>4. CASE Mk66f!Boot
  <2>1. x14' = [at |-> "poll", port |-> 1] /\ Same
    BY <1>4, Zenon DEF Mk66f!Boot, Mk66f!switch
  <2>2. Lib!STP_StartBridge
    BY <1>4, Mk66fLibrary, Zenon DEF Mk66f!Boot
  <2>3. Shape /\ x14'.at = "poll"
    BY <2>1, Zenon
  <2> QED BY <2>1, <2>2, <2>3, Zenon DEF Mk66fSteps
<1>5. CASE Mk66f!FramesProcessed
  <2>1. x14.at = "frames" /\ x14' = [at |-> "idle", port |-> 0] /\ Same
    BY <1>5, Zenon DEF Mk66f!FramesProcessed, Mk66f!At, Mk66f!switch
  <2>2. Proceeds
    BY <1>5, <1>b, Zenon DEF Mk66f!FramesProcessed
  <2>3. Shape /\ x14'.at = "idle"
    BY <2>1, Zenon
  <2> QED BY <2>1, <2>2, <2>3, Zenon DEF Mk66fSteps
<1>6. CASE Mk66f!PollDue
  <2>1. x14' = [at |-> "poll", port |-> 1] /\ x14.at = "idle" /\ Same
    BY <1>6, Zenon DEF Mk66f!PollDue, Mk66f!switch
  <2>2. Proceeds
    BY <1>6, <1>b, Zenon DEF Mk66f!PollDue
  <2>3. Shape /\ x14'.at = "poll"
    BY <2>1, Zenon
  <2> QED BY <2>1, <2>2, <2>3, Zenon DEF Mk66fSteps
<1>7. CASE Mk66f!poll_port_state
  <2>1. x14.at = "poll" /\ Same
    BY <1>7, Zenon DEF Mk66f!poll_port_state, Mk66f!switch
  <2>2. Shape /\ x14'.at # "boot"
    <3>1. x14' = [x14 EXCEPT !.port = @ + 1] \/ x14' = [at |-> "idle", port |-> 0]
      BY <1>7, Zenon DEF Mk66f!poll_port_state, Mk66f!At
    <3>2. CASE x14' = [x14 EXCEPT !.port = @ + 1]
      <4>1. Shape /\ x14'.at = x14.at
        BY <3>2, SMT
      <4> QED BY <2>1, <4>1, Zenon
    <3>3. CASE x14' = [at |-> "idle", port |-> 0]
      <4>1. Shape /\ x14'.at = "idle"
        BY <3>3, Zenon
      <4> QED BY <4>1, Zenon
    <3> QED BY <3>1, <3>2, <3>3, Zenon
  <2>3. Proceeds
    <3>1. CASE x7[x14.port] /\ ~x2[x14.port]
      BY <1>7, <1>c, <3>1, Zenon DEF Mk66f!poll_port_state
    <3>2. CASE ~x7[x14.port] /\ x2[x14.port]
      BY <1>7, <1>c, <3>2, Zenon DEF Mk66f!poll_port_state
    <3>3. CASE ~(x7[x14.port] /\ ~x2[x14.port]) /\ ~(~x7[x14.port] /\ x2[x14.port])
      BY <1>7, <1>b, <3>3, Zenon DEF Mk66f!poll_port_state
    <3> QED BY <3>1, <3>2, <3>3, Zenon
  <2> QED BY <2>1, <2>2, <2>3, Zenon DEF Mk66fSteps
<1>8. CASE Mk66f!process_received_frames
  <2>1. x14.at # "boot" /\ Same
    <3>1. x14.at \in {"idle", "frames"} /\ Same
      BY <1>8, Zenon DEF Mk66f!process_received_frames, Mk66f!switch
    <3> QED BY <3>1, Zenon
  <2>2. Shape /\ x14'.at # "boot"
    <3>1. (\E q : x14' = [at |-> "pass", port |-> q]) \/ x14' = [at |-> "frames", port |-> 0]
      BY <1>8, Zenon DEF Mk66f!process_received_frames, Mk66f!At
    <3>2. ASSUME NEW q, x14' = [at |-> "pass", port |-> q]
          PROVE  Shape /\ x14'.at = "pass"
      BY <3>2, Zenon
    <3>3. ASSUME x14' = [at |-> "frames", port |-> 0]
          PROVE  Shape /\ x14'.at = "frames"
      BY <3>3, Zenon
    <3> QED BY <3>1, <3>2, <3>3, Zenon
  <2>3. Proceeds
    BY <1>8, <1>b, <1>c, Zenon DEF Mk66f!process_received_frames
  <2> QED BY <2>1, <2>2, <2>3, Zenon DEF Mk66fSteps
<1>9. CASE Mk66f!PassBpdu
  <2>1. x14.at = "pass" /\ x14' = [at |-> "frames", port |-> 0] /\ Same
    BY <1>9, Zenon DEF Mk66f!PassBpdu, Mk66f!At, Mk66f!switch
  <2>2. Proceeds
    BY <1>9, <1>a, Zenon DEF Mk66f!PassBpdu, Mk66f!STP_OnBpduReceived
  <2>3. Shape /\ x14'.at = "frames"
    BY <2>1, Zenon
  <2> QED BY <2>1, <2>2, <2>3, Zenon DEF Mk66fSteps
<1>10. CASE Mk66f!CallCallback
  <2>1. x14' = x14
    BY <1>10, Zenon DEF Mk66f!CallCallback
  <2> QED BY <1>10, <2>1, Zenon DEF Mk66fSteps
<1>11. CASE Mk66f!LibraryStep
  <2>1. x14' = x14 /\ Same
    BY <1>11, Zenon DEF Mk66f!LibraryStep, Mk66f!switch
  <2>2. Lib!MachineStep \/ Lib!Return
    BY <1>11, Mk66fLibrary, Zenon DEF Mk66f!LibraryStep
  <2> QED BY <2>1, <2>2, Zenon DEF Mk66fSteps
<1> QED BY <1>0, <1>1, <1>2, <1>3, <1>4, <1>5, <1>6, <1>7, <1>8, <1>9, <1>10, <1>11, Zenon DEF Mk66f!Next, Mk66f!EventLoop

\* No flush is under way when the callbacks change by other than a return.
LEMMA Mk66fCarries ==
  ASSUME Mk66fInv, x6' = x6 \/ x6 = << >>, UNCHANGED <<x8, x11, x12>>
  PROVE  FlushingOk' /\ \A p : DisableBit(p)' = DisableBit(p)
<1>1. FlushingOk
  BY Zenon DEF Mk66fInv
<1>2. CASE x6' = x6
  BY <1>1, <1>2, Zenon DEF FlushingOk, DisableBit, Flushes
<1>3. CASE x6 = << >>
  <2>1. x12.at = "no"
    BY <1>1, <1>3, Zenon DEF FlushingOk
  <2>2. \A p : ~Flushes(p) /\ ~Flushes(p)'
    BY <2>1, Zenon DEF Flushes
  <2>3. \A p \in Ports : x11[p] # "old"
    <3>1. "no" # "flush"
      OBVIOUS
    <3> QED BY <1>1, <2>1, <3>1, Zenon DEF FlushingOk
  <2> QED BY <1>1, <2>1, <2>2, <2>3, Zenon DEF FlushingOk, DisableBit
<1> QED BY <1>2, <1>3, Zenon

LEMMA Mk66fStart ==
  ASSUME Numbered, Mk66fInv, Lib!STP_StartBridge, x14'.at # "boot",
         UNCHANGED <<x8, x9, x10, x11, x12>>, x14' = [at |-> x14.at, port |-> x14.port]'
  PROVE  Mk66fInv'
<1>1. /\ Consistent' /\ Restored' /\ Asks("trapping", 0, TRUE)' /\ x3' = x3 /\ x4' = x4
      /\ \A p \in Ports : Asks("learning", p, FALSE)' /\ Asks("forwarding", p, FALSE)'
  BY StartKeeps, Zenon DEF Mk66fInv
<1>2. TrapAsked'
  BY <1>1, Zenon DEF TrapAsked
<1>3. x6 = << >>
  BY Zenon DEF Lib!STP_StartBridge, Lib!Call, Mk66fInv, Consistent
<1>4. FlushingOk' /\ \A p : DisableBit(p)' = DisableBit(p)
  BY <1>3, Mk66fCarries, Zenon
<1>5. \A p \in Ports : Mk66fLearns(p)' /\ Mk66fForwards(p)'
  BY <1>1, <1>4, Zenon DEF Mk66fInv, Mk66fLearns, Mk66fForwards
<1> QED BY <1>1, <1>2, <1>4, <1>5, Zenon DEF Mk66fInv

LEMMA Mk66fProceeds ==
  ASSUME Numbered, Mk66fInv, Proceeds, x14.at # "boot", x14'.at # "boot",
         UNCHANGED <<x8, x9, x10, x11, x12>>, x14' = [at |-> x14.at, port |-> x14.port]'
  PROVE  Mk66fInv'
<1>1. /\ Consistent' /\ Restored' /\ x3' = x3 /\ x4' = x4
      /\ x6' = x6 \/ x6 = << >>
      /\ (WillRun' <=> WillRun) \/ Asks("trapping", 0, FALSE)'
  BY ProceedsKeeps, Zenon DEF Mk66fInv
<1>2. \A to, p, e : Asks(to, p, e) => Asks(to, p, e)'
  BY <1>1, AsksNothing, Zenon DEF Asks
<1>3. TrapAsked' \/ Mk66fTraps'
  BY <1>1, <1>2, Zenon DEF Mk66fInv, TrapAsked, Mk66fTraps
<1>4. FlushingOk' /\ \A p : DisableBit(p)' = DisableBit(p)
  BY <1>1, Mk66fCarries, Zenon
<1>5. \A p \in Ports : Mk66fLearns(p)' /\ Mk66fForwards(p)'
  BY <1>1, <1>2, <1>4, Zenon DEF Mk66fInv, Mk66fLearns, Mk66fForwards
<1> QED BY <1>1, <1>3, <1>4, <1>5, Zenon DEF Mk66fInv

LEMMA Mk66fSame ==
  ASSUME Mk66fInv, UNCHANGED <<x1, x3, x4, x5, x6, x8, x9, x10, x12, x14>>,
         x11' = x11 \/ \E p \in Ports : x11[p] = "none" /\ x11' = [x11 EXCEPT ![p] = "new"]
  PROVE  Mk66fInv'
<1>1. x5' = Lib!None => x6 = << >>
  BY Zenon DEF Mk66fInv, Consistent
<1>2. Consistent' /\ (Restored => Restored') /\ (WillRun' <=> WillRun)
  BY <1>1, UnchangedKeeps, Zenon DEF Mk66fInv
<1>3. \A to, p, e : Asks(to, p, e)' <=> Asks(to, p, e)
  BY AsksSame, Zenon
<1>4. \A p : DisableBit(p)' = DisableBit(p)
  BY Zenon DEF DisableBit, Flushes
<1>5. \A p \in Ports : Mk66fLearns(p)' /\ Mk66fForwards(p)'
  BY <1>3, <1>4, Zenon DEF Mk66fInv, Mk66fLearns, Mk66fForwards
<1>6. x14.at = "boot" => Pristine'
  BY Zenon DEF Mk66fInv, Pristine
<1>7. x14.at # "boot" => TrapAsked' \/ Mk66fTraps'
  BY <1>2, <1>3, Zenon DEF Mk66fInv, TrapAsked, Mk66fTraps
<1>8. /\ x11' \in [Ports -> {"none", "new", "old"}]
      /\ \A p \in Ports : x11'[p] = "old" => x11[p] = "old"
  <2>1. x11 \in [Ports -> {"none", "new", "old"}]
    BY Zenon DEF Mk66fInv
  <2> QED BY <2>1, SMT
<1>9. FlushingOk'
  BY <1>8, Zenon DEF Mk66fInv, FlushingOk
<1> QED BY <1>2, <1>5, <1>6, <1>7, <1>8, <1>9, Zenon DEF Mk66fInv

LEMMA Mk66fStarts ==
  ASSUME Mk66f!Init
  PROVE  Mk66fInv
<1>1. /\ Lib!LibraryInit
      /\ x8 = [p \in Ports |-> FALSE] /\ x9 = [p \in Ports |-> TRUE]
      /\ x10 = [entry |-> FALSE, tag |-> FALSE] /\ x11 = [p \in Ports |-> "none"]
      /\ x12 = [at |-> "no", val |-> FALSE] /\ x14 = [at |-> "boot", port |-> 0]
  BY Zenon DEF Mk66f!Init, Mk66f!LibraryInit, Mk66f!None, Mk66f!At, Mk66f!NotFlushing,
     Lib!LibraryInit, Lib!None
<1>2. Consistent /\ Pristine
  BY <1>1, LibraryStarts
<1>3. x12.at = "no" /\ x12.val = FALSE /\ x14.at = "boot"
  BY <1>1, Zenon
<1>4. \A p \in Ports : Mk66fLearns(p) /\ Mk66fForwards(p)
  BY <1>2, <1>3, Zenon DEF Mk66fLearns, Mk66fForwards, Pristine
<1>5. /\ x8 \in [Ports -> BOOLEAN] /\ x9 \in [Ports -> BOOLEAN]
      /\ x10 \in [entry : BOOLEAN, tag : BOOLEAN]
      /\ x11 \in [Ports -> {"none", "new", "old"}]
      /\ \A p \in Ports : x11[p] # "old"
  BY <1>1, SMT
<1>6. x12 = [at |-> x12.at, val |-> x12.val] /\ x14 = [at |-> x14.at, port |-> x14.port]
  BY <1>1, Zenon
<1>7. FlushingOk
  BY <1>3, <1>5, <1>6, Zenon DEF FlushingOk
<1> QED BY <1>2, <1>3, <1>4, <1>5, <1>6, <1>7, Zenon DEF Mk66fInv

\* What a step of a callback does, by the callback at the head: trapping in two
\* accesses, a flush in three steps.
Mk66fTrapping ==
  /\ Head(x6).to = "trapping"
  /\ x10' \in [entry : BOOLEAN, tag : BOOLEAN]
  /\ \/ x10'.entry = Head(x6).enable /\ x10'.tag = Head(x6).enable /\ Lib!CallbackReturned
     \/ UNCHANGED <<x1, x3, x4, x5, x6>>
  /\ UNCHANGED <<x8, x9, x11, x12>>

Mk66fPlain ==
  /\ Lib!CallbackReturned
  /\ Head(x6).to \in {"learning", "forwarding", "started"}
  /\ x8' = IF Head(x6).to = "learning" THEN [x8 EXCEPT ![Head(x6).port] = ~Head(x6).enable] ELSE x8
  /\ x9' = IF Head(x6).to = "forwarding" THEN [x9 EXCEPT ![Head(x6).port] = Head(x6).enable] ELSE x9
  /\ UNCHANGED <<x10, x11, x12>>

LEMMA Mk66fCallback ==
  ASSUME Mk66fInv, Mk66f!CallCallback
  PROVE  /\ x6 # << >> /\ x14' = x14
         /\ \/ Mk66fTrapping \/ Mk66fPlain
            \/ Head(x6).to = "flush" /\ Mk66f!FlushBegins(Head(x6).port)
            \/ Head(x6).to = "flush" /\ Mk66f!FlushTable
            \/ Head(x6).to = "flush" /\ Mk66f!FlushEnds(Head(x6).port)
<1> DEFINE c == Head(x6)
<1>1. /\ \/ c.to = "trapping" /\ Mk66f!StpCallback_EnableBpduTrapping(c.enable)
         \/ c.to = "learning" /\ Mk66f!StpCallback_EnableLearning(c.port, c.enable)
         \/ c.to = "forwarding" /\ Mk66f!StpCallback_EnableForwarding(c.port, c.enable)
         \/ c.to = "flush" /\ Mk66f!StpCallback_FlushFdb(c.port)
         \/ c.to = "started" /\ Mk66f!CallbackReturned /\ UNCHANGED <<Mk66f!switch, x12>>
      /\ x6 # << >> /\ x14' = x14
  BY Zenon DEF Mk66f!CallCallback
<1>2. c.enable \in BOOLEAN
  BY <1>1, HeadFacts, Zenon DEF Mk66fInv
<1>3. Mk66f!CallbackReturned <=> Lib!CallbackReturned
  BY Mk66fLibrary
<1>4. /\ "trapping" \notin {"learning", "forwarding", "started"}
      /\ "learning" # "forwarding" /\ "learning" # "started" /\ "forwarding" # "started"
  OBVIOUS
<1>5. CASE c.to = "trapping" /\ Mk66f!StpCallback_EnableBpduTrapping(c.enable)
  <2>1. /\ x10' = IF c.enable THEN IF x10.entry THEN [x10 EXCEPT !.tag = TRUE]
                                                ELSE [x10 EXCEPT !.entry = TRUE]
                  ELSE IF x10.tag THEN [x10 EXCEPT !.tag = FALSE]
                                  ELSE [x10 EXCEPT !.entry = FALSE]
        /\ \/ x10'.entry = c.enable /\ x10'.tag = c.enable /\ Lib!CallbackReturned
           \/ UNCHANGED <<x1, x3, x4, x5, x6>>
        /\ UNCHANGED <<x8, x9, x11, x12>>
    <3>1. CASE c.enable
      BY <1>3, <1>5, <3>1, Zenon DEF Mk66f!StpCallback_EnableBpduTrapping, Mk66f!libVars
    <3>2. CASE ~c.enable
      BY <1>3, <1>5, <3>2, Zenon DEF Mk66f!StpCallback_EnableBpduTrapping, Mk66f!libVars
    <3> QED BY <3>1, <3>2, Zenon
  <2>2. x10 \in [entry : BOOLEAN, tag : BOOLEAN]
    BY Zenon DEF Mk66fInv
  <2>3. x10' \in [entry : BOOLEAN, tag : BOOLEAN]
    <3>1. \/ x10' = [x10 EXCEPT !.tag = TRUE] \/ x10' = [x10 EXCEPT !.entry = TRUE]
          \/ x10' = [x10 EXCEPT !.tag = FALSE] \/ x10' = [x10 EXCEPT !.entry = FALSE]
      BY <2>1, Zenon
    <3>2. ASSUME NEW b \in BOOLEAN
          PROVE  /\ [x10 EXCEPT !.tag = b] \in [entry : BOOLEAN, tag : BOOLEAN]
                 /\ [x10 EXCEPT !.entry = b] \in [entry : BOOLEAN, tag : BOOLEAN]
      BY <2>2, SMT
    <3> QED BY <3>1, <3>2, Zenon
  <2> QED BY <1>1, <1>5, <2>1, <2>3, Zenon DEF Mk66fTrapping
<1>6. CASE c.to = "learning" /\ Mk66f!StpCallback_EnableLearning(c.port, c.enable)
  BY <1>1, <1>3, <1>4, <1>6, Zenon DEF Mk66f!StpCallback_EnableLearning, Mk66fPlain
<1>7. CASE c.to = "forwarding" /\ Mk66f!StpCallback_EnableForwarding(c.port, c.enable)
  BY <1>1, <1>3, <1>4, <1>7, Zenon DEF Mk66f!StpCallback_EnableForwarding, Mk66fPlain
<1>8. CASE c.to = "started" /\ Mk66f!CallbackReturned /\ UNCHANGED <<Mk66f!switch, x12>>
  BY <1>1, <1>3, <1>4, <1>8, Zenon DEF Mk66f!switch, Mk66fPlain
<1> QED BY <1>1, <1>5, <1>6, <1>7, <1>8, Zenon DEF Mk66f!StpCallback_FlushFdb

\* What all the callbacks that return have in common.
LEMMA Mk66fReturned ==
  ASSUME Numbered, Mk66fInv, x6 # << >>, Lib!CallbackReturned, x14' = x14
  PROVE  /\ Consistent' /\ Restored' /\ (WillRun' <=> WillRun) /\ x14.at # "boot"
         /\ x14' = [at |-> x14.at, port |-> x14.port]'
         /\ x3' = IF Head(x6).to = "learning" THEN [x3 EXCEPT ![Head(x6).port] = Head(x6).enable] ELSE x3
         /\ x4' = IF Head(x6).to = "forwarding" THEN [x4 EXCEPT ![Head(x6).port] = Head(x6).enable] ELSE x4
         /\ \A to, p, e : Asks(to, p, e) =>
              Asks(to, p, e)' \/ (to = Head(x6).to /\ p = Head(x6).port)
<1>1. /\ Consistent' /\ (Restored => Restored') /\ (WillRun' <=> WillRun)
      /\ \A to, p, e : Asks(to, p, e) <=> (Lib!Callback(to, p, e) = Head(x6) \/ Asks(to, p, e)')
  BY CallbackKeeps, Zenon DEF Mk66fInv
<1>2. \A to, p, e : Lib!Callback(to, p, e) = Head(x6) =>
        to = Head(x6).to /\ p = Head(x6).port /\ e = Head(x6).enable
  BY HeadFacts, Zenon DEF Mk66fInv
<1>3. x14.at # "boot"
  BY Zenon DEF Mk66fInv, Consistent, Pristine
<1>4. /\ x3' = IF Head(x6).to = "learning" THEN [x3 EXCEPT ![Head(x6).port] = Head(x6).enable] ELSE x3
      /\ x4' = IF Head(x6).to = "forwarding" THEN [x4 EXCEPT ![Head(x6).port] = Head(x6).enable] ELSE x4
  BY Zenon DEF Lib!CallbackReturned
<1>5. \A to, p, e : Asks(to, p, e) =>
        Asks(to, p, e)' \/ (to = Head(x6).to /\ p = Head(x6).port)
  BY <1>1, <1>2, Zenon
<1>6. Restored /\ x14' = [at |-> x14.at, port |-> x14.port]'
  BY <1>3, Zenon DEF Mk66fInv
<1> QED BY <1>1, <1>3, <1>4, <1>5, <1>6, Zenon

LEMMA Mk66fTrappingKeeps ==
  ASSUME Numbered, Mk66fInv, x6 # << >>, Mk66fTrapping, x14' = x14
  PROVE  Mk66fInv'
<1>1. /\ Head(x6).to = "trapping" /\ UNCHANGED <<x8, x9, x11, x12>>
      /\ x10' \in [entry : BOOLEAN, tag : BOOLEAN]
  BY Zenon DEF Mk66fTrapping
<1>2. CASE x10'.entry = Head(x6).enable /\ x10'.tag = Head(x6).enable /\ Lib!CallbackReturned
  <2>1. /\ Consistent' /\ Restored' /\ (WillRun' <=> WillRun) /\ x14.at # "boot"
        /\ x14' = [at |-> x14.at, port |-> x14.port]'
        /\ x3' = IF Head(x6).to = "learning" THEN [x3 EXCEPT ![Head(x6).port] = Head(x6).enable] ELSE x3
        /\ x4' = IF Head(x6).to = "forwarding" THEN [x4 EXCEPT ![Head(x6).port] = Head(x6).enable] ELSE x4
        /\ \A to, p, e : Asks(to, p, e) =>
             Asks(to, p, e)' \/ (to = Head(x6).to /\ p = Head(x6).port)
    BY <1>2, Mk66fReturned
  <2>2. "trapping" # "learning" /\ "trapping" # "forwarding" /\ "trapping" # "flush"
    OBVIOUS
  <2>3. x3' = x3 /\ x4' = x4 /\ \A to, p, e : to # "trapping" => (Asks(to, p, e) => Asks(to, p, e)')
    BY <1>1, <2>1, <2>2, Zenon
  <2>4. x12.at = "no"
    BY <1>1, <2>2, Zenon DEF Mk66fInv, FlushingOk
  <2>5. "no" # "flush"
    OBVIOUS
  <2>6. FlushingOk' /\ \A p : DisableBit(p)' = DisableBit(p)
    BY <1>1, <2>4, <2>5, Zenon DEF Mk66fInv, FlushingOk, DisableBit, Flushes
  <2>7. \A p \in Ports : Mk66fLearns(p)' /\ Mk66fForwards(p)'
    BY <1>1, <2>1, <2>2, <2>3, <2>6, Zenon DEF Mk66fInv, Mk66fLearns, Mk66fForwards
  <2>8. TrapAsked' \/ Mk66fTraps'
    <3>1. Consistent /\ (TrapAsked \/ Mk66fTraps)
      BY <2>1, Zenon DEF Mk66fInv
    <3>2. TrapAsked' \/ (x10'.entry <=> WillRun')
      <4> DEFINE r == x10.entry
                 s == x10'.entry
      <4>1. s = IF Head(x6).to = "trapping" THEN Head(x6).enable ELSE r
        BY <1>1, <1>2, Zenon
      <4>2. TrapAsked \/ (r <=> WillRun)
        BY <3>1, Zenon DEF Mk66fTraps
      <4> HIDE DEF r, s
      <4>3. TrapAsked' \/ (s <=> WillRun')
        BY <1>2, <3>1, <4>1, <4>2, TrappingFollows
      <4> QED BY <4>3, Zenon DEF s
    <3>3. TrapAsked' \/ (x10'.tag <=> WillRun')
      <4> DEFINE r == x10.tag
                 s == x10'.tag
      <4>1. s = IF Head(x6).to = "trapping" THEN Head(x6).enable ELSE r
        BY <1>1, <1>2, Zenon
      <4>2. TrapAsked \/ (r <=> WillRun)
        BY <3>1, Zenon DEF Mk66fTraps
      <4> HIDE DEF r, s
      <4>3. TrapAsked' \/ (s <=> WillRun')
        BY <1>2, <3>1, <4>1, <4>2, TrappingFollows
      <4> QED BY <4>3, Zenon DEF s
    <3> QED BY <3>2, <3>3, Zenon DEF Mk66fTraps
  <2> QED BY <1>1, <2>1, <2>6, <2>7, <2>8, Zenon DEF Mk66fInv
<1>3. CASE UNCHANGED <<x1, x3, x4, x5, x6>>
  <2>0. Consistent /\ FlushingOk
    BY Zenon DEF Mk66fInv
  <2>1. x5' = Lib!None => x6 = << >>
    BY <1>3, <2>0, Zenon DEF Consistent
  <2>2. Consistent' /\ (Restored => Restored')
    BY <1>3, <2>0, <2>1, UnchangedKeeps, Zenon
  <2>3. \A to, p, e : Asks(to, p, e)' <=> Asks(to, p, e)
    BY <1>3, AsksSame, Zenon
  <2>4. FlushingOk' /\ \A p : DisableBit(p)' = DisableBit(p)
    BY <1>1, <1>3, Mk66fCarries, Zenon
  <2>5. \A p \in Ports : Mk66fLearns(p)' /\ Mk66fForwards(p)'
    BY <1>1, <1>3, <2>3, <2>4, Zenon DEF Mk66fInv, Mk66fLearns, Mk66fForwards
  <2>6. TrapAsked'
    <3>1. /\ Head(x6) = Lib!Callback(Head(x6).to, Head(x6).port, Head(x6).enable)
          /\ Head(x6).enable \in BOOLEAN /\ Head(x6).port = 0
      <4>1. "trapping" \notin {"learning", "forwarding", "flush"}
        OBVIOUS
      <4> QED BY <1>1, <2>0, <4>1, HeadFacts, Zenon
    <3>2. Head(x6) \in Range(x6)
      <4>1. x6 \in Seq(BridgeCallbacks \cup PortCallbacks)
        BY <2>0, Zenon DEF Consistent
      <4> QED BY <4>1, RangeOfTail
    <3>3. Asks("trapping", 0, TRUE) \/ Asks("trapping", 0, FALSE)
      BY <1>1, <3>1, <3>2, Zenon DEF Asks
    <3> QED BY <2>3, <3>3, Zenon DEF TrapAsked
  <2>7. x14.at # "boot"
    BY <2>0, Zenon DEF Mk66fInv, Consistent, Pristine
  <2> QED BY <1>1, <2>2, <2>4, <2>5, <2>6, <2>7, Zenon DEF Mk66fInv
<1> QED BY <1>2, <1>3, Zenon DEF Mk66fTrapping

LEMMA Mk66fPlainKeeps ==
  ASSUME Numbered, Mk66fInv, x6 # << >>, Mk66fPlain, x14' = x14
  PROVE  Mk66fInv'
<1> DEFINE c == Head(x6)
<1>1. /\ c.to \in {"learning", "forwarding", "started"}
      /\ x8' = IF c.to = "learning" THEN [x8 EXCEPT ![c.port] = ~c.enable] ELSE x8
      /\ x9' = IF c.to = "forwarding" THEN [x9 EXCEPT ![c.port] = c.enable] ELSE x9
      /\ x10' = x10 /\ x11' = x11 /\ x12' = x12 /\ Lib!CallbackReturned
  BY Zenon DEF Mk66fPlain
<1>2. /\ Consistent' /\ Restored' /\ (WillRun' <=> WillRun) /\ x14.at # "boot"
      /\ x14' = [at |-> x14.at, port |-> x14.port]'
      /\ x3' = IF c.to = "learning" THEN [x3 EXCEPT ![c.port] = c.enable] ELSE x3
      /\ x4' = IF c.to = "forwarding" THEN [x4 EXCEPT ![c.port] = c.enable] ELSE x4
      /\ \A to, p, e : Asks(to, p, e) => Asks(to, p, e)' \/ (to = c.to /\ p = c.port)
  BY <1>1, Mk66fReturned
<1>3. c.enable \in BOOLEAN
  BY HeadFacts, Zenon DEF Mk66fInv
<1>4. /\ Consistent /\ (TrapAsked \/ Mk66fTraps) /\ FlushingOk
      /\ \A p \in Ports : Mk66fLearns(p) /\ Mk66fForwards(p)
      /\ x8 \in [Ports -> BOOLEAN] /\ x9 \in [Ports -> BOOLEAN]
  BY <1>2, Zenon DEF Mk66fInv
<1>5. x3 \in [Ports -> BOOLEAN] /\ x4 \in [Ports -> BOOLEAN]
  BY <1>4, Zenon DEF Consistent
<1> HIDE DEF c
<1>6. "flush" \notin {"learning", "forwarding", "started"} /\ "no" # "flush"
      /\ "trapping" \notin {"learning", "forwarding", "started"}
  OBVIOUS
<1>7. x12.at = "no"
  BY <1>1, <1>4, <1>6, Zenon DEF FlushingOk, c
<1>8. FlushingOk'
  BY <1>1, <1>4, <1>6, <1>7, Zenon DEF FlushingOk
<1>9. \A p : DisableBit(p) = x8[p] /\ DisableBit(p)' = x8'[p]
  BY <1>1, <1>7, Zenon DEF DisableBit, Flushes
<1>10. TrapAsked' \/ Mk66fTraps'
  BY <1>1, <1>2, <1>4, <1>6, Zenon DEF TrapAsked, Mk66fTraps
<1>11. ASSUME NEW p \in Ports PROVE Mk66fLearns(p)'
  <2>1. CASE c.to = "learning" /\ c.port = p
    <3>1. x8'[p] = ~x3'[p]
      BY <1>1, <1>2, <1>3, <1>4, <1>5, <2>1, SMT
    <3> QED BY <3>1, <1>9, Zenon DEF Mk66fLearns
  <2>2. CASE ~(c.to = "learning" /\ c.port = p)
    <3>1. x8'[p] = x8[p] /\ x3'[p] = x3[p]
      <4>1. x8' = IF c.to = "learning" THEN [x8 EXCEPT ![c.port] = ~c.enable] ELSE x8
        BY <1>1, Zenon
      <4>2. x3' = IF c.to = "learning" THEN [x3 EXCEPT ![c.port] = c.enable] ELSE x3
        BY <1>2, Zenon
      <4>3. x8 \in [Ports -> BOOLEAN]
        BY <1>4, Zenon
      <4> QED BY <4>1, <4>2, <4>3, <1>5, <2>2, SMT
    <3>2. Asks("learning", p, FALSE) => Asks("learning", p, FALSE)'
      BY <1>2, <2>2, Zenon
    <3> QED BY <1>2, <1>4, <1>9, <3>1, <3>2, Zenon DEF Mk66fLearns
  <2> QED BY <2>1, <2>2, Zenon
<1>12. ASSUME NEW p \in Ports PROVE Mk66fForwards(p)'
  <2>1. CASE c.to = "forwarding" /\ c.port = p
    <3>1. x9'[p] = x4'[p]
      BY <1>1, <1>2, <1>3, <1>4, <1>5, <2>1, SMT
    <3> QED BY <3>1, Zenon DEF Mk66fForwards
  <2>2. CASE ~(c.to = "forwarding" /\ c.port = p)
    <3>1. x9'[p] = x9[p] /\ x4'[p] = x4[p]
      <4>1. x9' = IF c.to = "forwarding" THEN [x9 EXCEPT ![c.port] = c.enable] ELSE x9
        BY <1>1, Zenon
      <4>2. x4' = IF c.to = "forwarding" THEN [x4 EXCEPT ![c.port] = c.enable] ELSE x4
        BY <1>2, Zenon
      <4>3. x9 \in [Ports -> BOOLEAN]
        BY <1>4, Zenon
      <4> QED BY <4>1, <4>2, <4>3, <1>5, <2>2, SMT
    <3>2. Asks("forwarding", p, FALSE) => Asks("forwarding", p, FALSE)'
      BY <1>2, <2>2, Zenon
    <3> QED BY <1>2, <1>4, <3>1, <3>2, Zenon DEF Mk66fForwards
  <2> QED BY <2>1, <2>2, Zenon
<1>13. x8' \in [Ports -> BOOLEAN] /\ x9' \in [Ports -> BOOLEAN]
  <2>1. x8' = x8 \/ x8' = [x8 EXCEPT ![c.port] = ~c.enable]
    BY <1>1, Zenon
  <2>2. x9' = x9 \/ x9' = [x9 EXCEPT ![c.port] = c.enable]
    BY <1>1, Zenon
  <2>3. x8 \in [Ports -> BOOLEAN] /\ x9 \in [Ports -> BOOLEAN]
    BY <1>4, Zenon
  <2>4. ASSUME NEW S, NEW f \in [Ports -> S], NEW b \in S, NEW p
        PROVE  [f EXCEPT ![p] = b] \in [Ports -> S]
    OBVIOUS
  <2>5. (~c.enable) \in BOOLEAN
    OBVIOUS
  <2> QED BY <1>3, <2>1, <2>2, <2>3, <2>4, <2>5, Zenon
<1> QED BY <1>1, <1>2, <1>8, <1>10, <1>11, <1>12, <1>13, Zenon DEF Mk66fInv

LEMMA Mk66fFlushBegins ==
  ASSUME Mk66fInv, x6 # << >>, Head(x6).to = "flush", Mk66f!FlushBegins(Head(x6).port), x14' = x14
  PROVE  Mk66fInv'
<1> DEFINE q == Head(x6).port
<1>1. /\ x12.at = "no" /\ x12' = [at |-> "flush", val |-> x8[q]]
      /\ x8' = [x8 EXCEPT ![q] = TRUE]
      /\ x11' = [x11 EXCEPT ![q] = IF x11[q] = "new" THEN "old" ELSE x11[q]]
      /\ UNCHANGED <<x1, x3, x4, x5, x6, x9, x10>>
  BY Zenon DEF Mk66f!FlushBegins, Mk66f!libVars
<1>2. q \in Ports
  <2>1. "flush" \notin {"trapping", "started"}
    OBVIOUS
  <2> QED BY <2>1, HeadFacts, Zenon DEF Mk66fInv
<1>3. /\ Consistent /\ FlushingOk /\ \A p \in Ports : Mk66fLearns(p) /\ Mk66fForwards(p)
      /\ x8 \in [Ports -> BOOLEAN] /\ x11 \in [Ports -> {"none", "new", "old"}]
  BY Zenon DEF Mk66fInv
<1>4. x5' = Lib!None => x6 = << >>
  BY <1>1, <1>3, Zenon DEF Consistent
<1>5. Consistent' /\ (Restored => Restored') /\ (WillRun' <=> WillRun)
  BY <1>1, <1>3, <1>4, UnchangedKeeps, Zenon
<1>6. \A to, p, e : Asks(to, p, e)' <=> Asks(to, p, e)
  BY <1>1, AsksSame, Zenon
<1> HIDE DEF q
<1>7. /\ x8' \in [Ports -> BOOLEAN] /\ x11' \in [Ports -> {"none", "new", "old"}]
      /\ x8'[q] = TRUE
      /\ \A p \in Ports : p # q => x8'[p] = x8[p] /\ x11'[p] = x11[p]
  BY <1>1, <1>2, <1>3, SMT
<1>8. /\ x12' = [at |-> x12'.at, val |-> x12'.val] /\ x12'.at = "flush" /\ x12'.val = x8[q]
      /\ x8[q] \in BOOLEAN
  <2>1. x12' = [at |-> "flush", val |-> x8[q]]
    BY <1>1, Zenon
  <2> QED BY <1>2, <1>3, <2>1, Zenon
<1>9. \A p \in Ports : x11[p] # "old"
  <2>1. "no" # "flush"
    OBVIOUS
  <2> QED BY <1>1, <1>3, <2>1, Zenon DEF FlushingOk
<1>10. FlushingOk'
  <2>1. \A p \in Ports : x11'[p] = "old" => p = q
    BY <1>7, <1>9, Zenon
  <2> QED BY <1>1, <1>7, <1>8, <2>1, Zenon DEF FlushingOk, q
<1>11. ASSUME NEW p \in Ports PROVE DisableBit(p)' = DisableBit(p)
  <2>1. "flush" # "no" /\ Head(x6)' = Head(x6)
    BY <1>1, Zenon
  <2>2. CASE p = q
    BY <1>1, <1>8, <2>1, <2>2, Zenon DEF DisableBit, Flushes, q
  <2>3. CASE p # q
    BY <1>1, <1>7, <2>1, <2>3, Zenon DEF DisableBit, Flushes, q
  <2> QED BY <2>2, <2>3, Zenon
<1>12. \A p \in Ports : Mk66fLearns(p)' /\ Mk66fForwards(p)'
  BY <1>1, <1>3, <1>6, <1>11, Zenon DEF Mk66fLearns, Mk66fForwards
<1>13. x14.at # "boot" => TrapAsked' \/ Mk66fTraps'
  BY <1>1, <1>5, <1>6, Zenon DEF Mk66fInv, TrapAsked, Mk66fTraps
<1>14. x14.at # "boot"
  BY Zenon DEF Mk66fInv, Consistent, Pristine
<1> QED BY <1>1, <1>5, <1>7, <1>10, <1>12, <1>13, <1>14, Zenon DEF Mk66fInv

LEMMA Mk66fFlushTable ==
  ASSUME Mk66fInv, x6 # << >>, Mk66f!FlushTable, x14' = x14
  PROVE  Mk66fInv'
<1> DEFINE q == Head(x6).port
<1>1. /\ x12.at = "flush" /\ x12' = [x12 EXCEPT !.at = "restore"]
      /\ x11' = [p \in Ports |-> IF x8[p] THEN "none" ELSE x11[p]]
      /\ UNCHANGED <<x1, x3, x4, x5, x6, x8, x9, x10>>
  BY Zenon DEF Mk66f!FlushTable, Mk66f!libVars
<1>3. /\ Consistent /\ FlushingOk /\ \A p \in Ports : Mk66fLearns(p) /\ Mk66fForwards(p)
      /\ x11 \in [Ports -> {"none", "new", "old"}]
  BY Zenon DEF Mk66fInv
<1>4. x5' = Lib!None => x6 = << >>
  BY <1>1, <1>3, Zenon DEF Consistent
<1>5. Consistent' /\ (Restored => Restored') /\ (WillRun' <=> WillRun)
  BY <1>1, <1>3, <1>4, UnchangedKeeps, Zenon
<1>6. \A to, p, e : Asks(to, p, e)' <=> Asks(to, p, e)
  BY <1>1, AsksSame, Zenon
<1>7. x12' = [at |-> x12'.at, val |-> x12'.val] /\ x12'.at = "restore" /\ x12'.val = x12.val
  <2>1. x12 = [at |-> x12.at, val |-> x12.val]
    BY <1>3, Zenon DEF FlushingOk
  <2>2. x12' = [x12 EXCEPT !.at = "restore"]
    BY <1>1, Zenon
  <2> QED BY <2>1, <2>2, SMT
<1>8. /\ Head(x6).to = "flush" /\ x8[q] = TRUE /\ x12.val \in BOOLEAN
      /\ \A p \in Ports : x11[p] = "old" => p = q
  <2>1. "flush" # "no"
    OBVIOUS
  <2> QED BY <1>1, <1>3, <2>1, Zenon DEF FlushingOk
<1>9. x11' \in [Ports -> {"none", "new", "old"}]
  BY <1>1, <1>3, SMT
<1>10. \A p \in Ports : x11'[p] # "old"
  <2>1. ASSUME NEW p \in Ports, x11'[p] = "old" PROVE FALSE
    <3>1. x11'[p] = IF x8[p] THEN "none" ELSE x11[p]
      BY <1>1, Zenon
    <3>2. ~x8[p] /\ x11[p] = "old"
      <4>1. "none" # "old"
        OBVIOUS
      <4> QED BY <2>1, <3>1, <4>1, Zenon
    <3>3. p = q
      BY <1>8, <3>2, Zenon
    <3> HIDE DEF q
    <3> QED BY <1>8, <3>2, <3>3, Zenon
  <2> QED BY <2>1, Zenon
<1>11. Head(x6)' = Head(x6)
  BY <1>1, Zenon
<1>12. FlushingOk'
  BY <1>1, <1>7, <1>8, <1>10, <1>11, Zenon DEF FlushingOk
<1>13. \A p : DisableBit(p)' = DisableBit(p)
  <2>1. "flush" # "no" /\ "restore" # "no"
    OBVIOUS
  <2> QED BY <1>1, <1>7, <1>11, <2>1, Zenon DEF DisableBit, Flushes
<1>14. \A p \in Ports : Mk66fLearns(p)' /\ Mk66fForwards(p)'
  BY <1>1, <1>3, <1>6, <1>13, Zenon DEF Mk66fLearns, Mk66fForwards
<1>15. x14.at # "boot" => TrapAsked' \/ Mk66fTraps'
  BY <1>1, <1>5, <1>6, Zenon DEF Mk66fInv, TrapAsked, Mk66fTraps
<1>16. x14.at # "boot"
  BY Zenon DEF Mk66fInv, Consistent, Pristine
<1> QED BY <1>1, <1>5, <1>9, <1>12, <1>14, <1>15, <1>16, Zenon DEF Mk66fInv

LEMMA Mk66fFlushEnds ==
  ASSUME Numbered, Mk66fInv, x6 # << >>, Head(x6).to = "flush", Mk66f!FlushEnds(Head(x6).port), x14' = x14
  PROVE  Mk66fInv'
<1> DEFINE q == Head(x6).port
<1>1. /\ x12.at = "restore" /\ x12' = [at |-> "no", val |-> FALSE]
      /\ x8' = [x8 EXCEPT ![q] = x12.val]
      /\ Lib!CallbackReturned
      /\ UNCHANGED <<x9, x10, x11>>
  BY Mk66fLibrary, Zenon DEF Mk66f!FlushEnds, Mk66f!NotFlushing
<1>2. /\ Consistent' /\ Restored' /\ (WillRun' <=> WillRun) /\ x14.at # "boot"
      /\ x14' = [at |-> x14.at, port |-> x14.port]'
      /\ x3' = IF Head(x6).to = "learning" THEN [x3 EXCEPT ![q] = Head(x6).enable] ELSE x3
      /\ x4' = IF Head(x6).to = "forwarding" THEN [x4 EXCEPT ![q] = Head(x6).enable] ELSE x4
      /\ \A to, p, e : Asks(to, p, e) =>
           Asks(to, p, e)' \/ (to = Head(x6).to /\ p = Head(x6).port)
  BY <1>1, Mk66fReturned
<1>3. /\ Consistent /\ FlushingOk /\ (TrapAsked \/ Mk66fTraps)
      /\ \A p \in Ports : Mk66fLearns(p) /\ Mk66fForwards(p)
      /\ x8 \in [Ports -> BOOLEAN]
  BY <1>2, Zenon DEF Mk66fInv
<1>4. /\ "flush" # "learning" /\ "flush" # "forwarding" /\ "flush" # "trapping"
      /\ "restore" # "flush" /\ "restore" # "no"
  OBVIOUS
<1>5. x3' = x3 /\ x4' = x4
  BY <1>2, <1>4, Zenon
<1>6. \A to, p, e : to # "flush" => (Asks(to, p, e) => Asks(to, p, e)')
  BY <1>2, Zenon
<1>7. x12.val \in BOOLEAN /\ \A p \in Ports : x11[p] # "old"
  BY <1>1, <1>3, <1>4, Zenon DEF FlushingOk
<1>8. x12' = [at |-> x12'.at, val |-> x12'.val] /\ x12'.at = "no" /\ x12'.val = FALSE
  <2>1. x12' = [at |-> "no", val |-> FALSE]
    BY <1>1, Zenon
  <2> QED BY <2>1, Zenon
<1>9. FlushingOk'
  <2>1. FALSE \in BOOLEAN
    OBVIOUS
  <2> QED BY <1>1, <1>7, <1>8, <2>1, Zenon DEF FlushingOk
<1> HIDE DEF q
<1>10. x8' \in [Ports -> BOOLEAN]
  <2>1. ASSUME NEW S, NEW f \in [Ports -> S], NEW b \in S, NEW p
        PROVE  [f EXCEPT ![p] = b] \in [Ports -> S]
    OBVIOUS
  <2> QED BY <1>1, <1>3, <1>7, <2>1, Zenon
<1>11. ASSUME NEW p \in Ports PROVE DisableBit(p)' = DisableBit(p)
  <2>1. DisableBit(p)' = x8'[p]
    BY <1>8, Zenon DEF DisableBit, Flushes
  <2>2. x8' = [x8 EXCEPT ![q] = x12.val] /\ x8 \in [Ports -> BOOLEAN]
    BY <1>1, <1>3, Zenon
  <2>3. CASE p = q
    <3>1. x8'[p] = x12.val
      BY <2>2, <2>3, SMT
    <3> QED BY <1>1, <1>4, <2>1, <2>3, <3>1, Zenon DEF DisableBit, Flushes, q
  <2>4. CASE p # q
    <3>1. x8'[p] = x8[p]
      BY <2>2, <2>4, SMT
    <3> QED BY <2>1, <2>4, <3>1, Zenon DEF DisableBit, Flushes, q
  <2> QED BY <2>3, <2>4, Zenon
<1>12. \A p \in Ports : Mk66fLearns(p)' /\ Mk66fForwards(p)'
  <2>1. \A p, e : /\ Asks("learning", p, e) => Asks("learning", p, e)'
                  /\ Asks("forwarding", p, e) => Asks("forwarding", p, e)'
    BY <1>4, <1>6, Zenon
  <2> QED BY <1>1, <1>2, <1>3, <1>5, <1>11, <2>1, Zenon DEF Mk66fLearns, Mk66fForwards
<1>13. TrapAsked' \/ Mk66fTraps'
  BY <1>1, <1>2, <1>3, <1>4, <1>6, Zenon DEF TrapAsked, Mk66fTraps
<1> QED BY <1>1, <1>2, <1>9, <1>10, <1>12, <1>13, Zenon DEF Mk66fInv

LEMMA Mk66fCallbackKeeps ==
  ASSUME Numbered, Mk66fInv, Mk66f!CallCallback
  PROVE  Mk66fInv'
<1>1. /\ x6 # << >> /\ x14' = x14
      /\ \/ Mk66fTrapping \/ Mk66fPlain
         \/ Head(x6).to = "flush" /\ Mk66f!FlushBegins(Head(x6).port)
         \/ Head(x6).to = "flush" /\ Mk66f!FlushTable
         \/ Head(x6).to = "flush" /\ Mk66f!FlushEnds(Head(x6).port)
  BY Mk66fCallback
<1>2. CASE Mk66fTrapping
  BY <1>1, <1>2, Mk66fTrappingKeeps
<1>3. CASE Mk66fPlain
  BY <1>1, <1>3, Mk66fPlainKeeps
<1>4. CASE Head(x6).to = "flush" /\ Mk66f!FlushBegins(Head(x6).port)
  BY <1>1, <1>4, Mk66fFlushBegins
<1>5. CASE Head(x6).to = "flush" /\ Mk66f!FlushTable
  BY <1>1, <1>5, Mk66fFlushTable
<1>6. CASE Head(x6).to = "flush" /\ Mk66f!FlushEnds(Head(x6).port)
  BY <1>1, <1>6, Mk66fFlushEnds
<1> QED BY <1>1, <1>2, <1>3, <1>4, <1>5, <1>6, Zenon

LEMMA Mk66fKeeps ==
  ASSUME Numbered, Mk66fInv, Mk66f!Next
  PROVE  Mk66fInv'
<1> DEFINE Quiescent == UNCHANGED <<x8, x9, x10, x11, x12>>
<1>1. x14' = [at |-> x14.at, port |-> x14.port]' /\ Mk66fSteps
  BY Mk66fStep, Zenon DEF Mk66fInv
<1>2. CASE Lib!STP_StartBridge /\ x14'.at # "boot" /\ Quiescent
  BY <1>1, <1>2, Mk66fStart
<1>3. CASE Proceeds /\ x14.at # "boot" /\ x14'.at # "boot" /\ Quiescent
  BY <1>1, <1>3, Mk66fProceeds
<1>4. CASE /\ \E p \in Ports : x11[p] = "none" /\ x11' = [x11 EXCEPT ![p] = "new"]
           /\ UNCHANGED <<x1, x3, x4, x5, x6, x8, x9, x10, x12, x14>>
  BY <1>4, Mk66fSame
<1>5. CASE Mk66f!CallCallback
  BY <1>5, Mk66fCallbackKeeps
<1>6. CASE (Lib!MachineStep \/ Lib!Return) /\ UNCHANGED <<x8, x9, x10, x11, x12, x14>>
  <2>1. x14.at # "boot" /\ x14'.at # "boot"
    BY <1>6, PristineStays, Zenon DEF Mk66fInv
  <2>2. Proceeds
    BY <1>6, Zenon DEF Proceeds, Moves
  <2>3. Quiescent
    BY <1>6, Zenon
  <2> QED BY <1>1, <2>1, <2>2, <2>3, Mk66fProceeds, Zenon
<1>7. CASE UNCHANGED <<x1, x3, x4, x5, x6, x8, x9, x10, x11, x12, x14>>
  BY <1>7, Mk66fSame
<1> QED BY <1>1, <1>2, <1>3, <1>4, <1>5, <1>6, <1>7, Zenon DEF Mk66fSteps

LEMMA Mk66fObeys ==
  ASSUME Mk66fInv
  PROVE  Mk66f!SwitchObeys
<1> SUFFICES ASSUME x5 = Lib!None, x14.at # "boot"
             PROVE  /\ x10 = [entry |-> x1, tag |-> x1]
                    /\ \A p \in Ports : /\ (x8[p] <=> x1 /\ ~x3[p])
                                       /\ (x9[p] <=> (x1 => x4[p]))
  BY Zenon DEF Mk66f!SwitchObeys, Mk66f!None, Lib!None
<1>1. x6 = << >> /\ Consistent /\ Restored /\ FlushingOk
  BY Zenon DEF Mk66fInv, Consistent
<1>2. \A to, p, e : ~Asks(to, p, e)
  BY <1>1, AsksNothing, Zenon
<1>3. /\ (WillRun <=> x1)
      /\ \A p \in Ports : /\ (WillLearn(p) <=> x3[p])
                         /\ (WillForward(p) <=> x4[p])
                         /\ (x4[p] => x3[p])
  BY <1>1, Quiet
<1>4. ~x1 => \A p \in Ports : x3[p] /\ x4[p]
  BY <1>1, <1>3, Zenon DEF Restored
<1>5. x10 = [entry |-> x1, tag |-> x1]
  <2>1. (x10.entry <=> x1) /\ (x10.tag <=> x1)
    BY <1>2, <1>3, Zenon DEF Mk66fInv, TrapAsked, Mk66fTraps
  <2>2. x10 \in [entry : BOOLEAN, tag : BOOLEAN] /\ x1 \in BOOLEAN
    BY <1>1, Zenon DEF Mk66fInv, Consistent
  <2>3. x10.entry = x1 /\ x10.tag = x1
    <3>1. x10.entry \in BOOLEAN /\ x10.tag \in BOOLEAN
      BY <2>2
    <3> QED BY <2>1, <2>2, <3>1, Zenon
  <2>4. x10 = [entry |-> x10.entry, tag |-> x10.tag]
    BY <2>2, SMT
  <2> QED BY <2>3, <2>4, Zenon
<1>6. ASSUME NEW p \in Ports
      PROVE  /\ (x8[p] <=> x1 /\ ~x3[p])
             /\ (x9[p] <=> (x1 => x4[p]))
  <2>1. x12.at = "no"
    BY <1>1, Zenon DEF FlushingOk
  <2>2. DisableBit(p) = x8[p]
    BY <2>1, Zenon DEF DisableBit, Flushes
  <2>3. x8[p] = ~x3[p] /\ x9[p] = x4[p]
    BY <1>2, <2>2, Zenon DEF Mk66fInv, Mk66fLearns, Mk66fForwards
  <2> QED BY <1>4, <2>3, Zenon
<1> QED BY <1>5, <1>6, Zenon

LEMMA Mk66fFlushed ==
  ASSUME Mk66fInv
  PROVE  Mk66f!FlushDone
<1>1. "flush" # "no"
  OBVIOUS
<1> QED BY <1>1, Zenon DEF Mk66fInv, FlushingOk, Mk66f!FlushDone

-----------------------------------------------------------------------------
(***************************************************************************)
(* The five boards together.                                               *)
(***************************************************************************)
BoardInv ==
  /\ which = "Stm32" => Stm32Inv
  /\ which = "Tm4c" => Tm4cInv
  /\ which = "Ip175C" => LpcInv("175C")
  /\ which = "Ip175D" => LpcInv("175D")
  /\ which = "Mk66f" => Mk66fInv

LEMMA BoardsStart ==
  ASSUME Numbered, Init
  PROVE  BoardInv
<1>1. CASE which = "Stm32"
  <2>1. Stm32!Init
    BY <1>1, Zenon DEF Init
  <2> QED BY <1>1, <2>1, Stm32Starts, Zenon DEF BoardInv
<1>2. CASE which = "Tm4c"
  <2>1. Tm4c!Init
    BY <1>2, Zenon DEF Init
  <2> QED BY <1>2, <2>1, Tm4cStarts, Zenon DEF BoardInv
<1>3. CASE which = "Ip175C"
  <2>1. Ip175C!Init
    BY <1>3, Zenon DEF Init
  <2> QED BY <1>3, <2>1, Ip175CStarts, Zenon DEF BoardInv
<1>4. CASE which = "Ip175D"
  <2>1. Ip175D!Init
    BY <1>4, Zenon DEF Init
  <2> QED BY <1>4, <2>1, Ip175DStarts, Zenon DEF BoardInv
<1>5. CASE which = "Mk66f"
  <2>1. Mk66f!Init
    BY <1>5, Zenon DEF Init
  <2> QED BY <1>5, <2>1, Mk66fStarts, Zenon DEF BoardInv
<1> QED BY <1>1, <1>2, <1>3, <1>4, <1>5, Zenon DEF BoardInv

LEMMA BoardsKeep ==
  ASSUME Numbered, BoardInv, [Next]_all
  PROVE  BoardInv'
<1>0. which' = which
  BY Zenon DEF Next, In, all
<1>1. CASE which = "Stm32"
  <2>1. Stm32!Next \/ UNCHANGED <<x1, x3, x4, x5, x6, x8, x9, x12>>
    BY <1>1, Zenon DEF Next, In, all
  <2>2. Stm32Inv'
    BY <1>1, <2>1, Stm32Keeps, Stm32Same, Zenon DEF BoardInv
  <2> QED BY <1>0, <1>1, <2>2, Zenon DEF BoardInv
<1>2. CASE which = "Tm4c"
  <2>1. Tm4c!Next \/ UNCHANGED <<x1, x3, x4, x5, x6, x8, x9, x11>>
    BY <1>2, Zenon DEF Next, In, all
  <2>2. Tm4cInv'
    BY <1>2, <2>1, Tm4cKeeps, Tm4cSame, Zenon DEF BoardInv
  <2> QED BY <1>0, <1>2, <2>2, Zenon DEF BoardInv
<1>3. CASE which = "Ip175C"
  <2>1. Ip175C!Next \/ UNCHANGED <<x1, x3, x4, x5, x6, x8, x9, x10, x11, x13>>
    BY <1>3, Zenon DEF Next, In, all
  <2>2. LpcInv("175C")'
    BY <1>3, <2>1, Ip175CKeeps, LpcSame, Zenon DEF BoardInv
  <2> QED BY <1>0, <1>3, <2>2, Zenon DEF BoardInv
<1>4. CASE which = "Ip175D"
  <2>1. Ip175D!Next \/ UNCHANGED <<x1, x3, x4, x5, x6, x8, x9, x10, x11, x13>>
    BY <1>4, Zenon DEF Next, In, all
  <2>2. LpcInv("175D")'
    BY <1>4, <2>1, Ip175DKeeps, LpcSame, Zenon DEF BoardInv
  <2> QED BY <1>0, <1>4, <2>2, Zenon DEF BoardInv
<1>5. CASE which = "Mk66f"
  <2>1. Mk66f!Next \/ UNCHANGED <<x1, x3, x4, x5, x6, x8, x9, x10, x11, x12, x14>>
    BY <1>5, Zenon DEF Next, In, all
  <2>2. Mk66fInv'
    BY <1>5, <2>1, Mk66fKeeps, Mk66fSame, Zenon DEF BoardInv
  <2> QED BY <1>0, <1>5, <2>2, Zenon DEF BoardInv
<1>6. CASE which \notin Applications
  BY <1>0, <1>6, Zenon DEF BoardInv, Applications
<1> QED BY <1>1, <1>2, <1>3, <1>4, <1>5, <1>6, Zenon DEF Applications

\* On every board, with any number of ports, the switch does between calls what
\* the library last asked for, through starts, stops, links that come and go and
\* calls of the callbacks in any order; on the LPC2387 board a port forwards only if
\* the library says so, from power-up on (the StpCallback_* of the five main.cpp).
THEOREM SwitchObeysHolds ==
  ASSUME Numbered
  PROVE  Spec => []SwitchObeys
<1>1. Init => BoardInv
  BY BoardsStart
<1>2. BoardInv /\ [Next]_all => BoardInv'
  BY BoardsKeep
<1>3. BoardInv => SwitchObeys
  BY Stm32Obeys, Tm4cObeys, Ip175CObeys, Ip175DObeys, Mk66fObeys, Zenon DEF BoardInv, SwitchObeys
<1> QED BY <1>1, <1>2, <1>3, PTL DEF Spec

\* When FlushFdb of the MK66F board returns, no entry of the port is left that
\* was there when it was called, with any number of ports, whatever they learn.
THEOREM FlushDoneHolds ==
  ASSUME Numbered
  PROVE  Spec => []FlushDone
<1>1. Init => BoardInv
  BY BoardsStart
<1>2. BoardInv /\ [Next]_all => BoardInv'
  BY BoardsKeep
<1>3. BoardInv => FlushDone
  BY Mk66fFlushed, Zenon DEF BoardInv, FlushDone
<1> QED BY <1>1, <1>2, <1>3, PTL DEF Spec

-----------------------------------------------------------------------------
(***************************************************************************)
(* The types of the parts: the descriptors hold frames and flags, whatever *)
(* the indices are.                                                        *)
(***************************************************************************)
AnyFrame == Frames \cup {NoFrame}

OwnFrame == [own : BOOLEAN, frame : AnyFrame]
OWNFrame == [OWN : BOOLEAN, frame : AnyFrame]
ErrorFrame == [frame : AnyFrame, error : BOOLEAN]
EErrorFrame == [E : BOOLEAN, error : Errors \cup {"none"}, frame : AnyFrame]
RTO1Frame == [R : BOOLEAN, TO1 : BOOLEAN, frame : AnyFrame]

\* What is written to a descriptor.
LEMMA OwnWritten ==
  ASSUME NEW I, NEW tab \in [I -> OwnFrame], NEW i, NEW v \in BOOLEAN, NEW f \in AnyFrame
  PROVE  /\ [tab EXCEPT ![i] = [own |-> v, frame |-> f]] \in [I -> OwnFrame]
         /\ [tab EXCEPT ![i].own = v] \in [I -> OwnFrame]
         /\ [tab EXCEPT ![i].frame = f] \in [I -> OwnFrame]
BY DEF OwnFrame

LEMMA OWNWritten ==
  ASSUME NEW I, NEW tab \in [I -> OWNFrame], NEW i, NEW v \in BOOLEAN, NEW f \in AnyFrame
  PROVE  /\ [tab EXCEPT ![i] = [OWN |-> v, frame |-> f]] \in [I -> OWNFrame]
         /\ [tab EXCEPT ![i].OWN = v] \in [I -> OWNFrame]
BY DEF OWNFrame

LEMMA ErrorWritten ==
  ASSUME NEW I, NEW tab \in [I -> ErrorFrame], NEW i, NEW v \in BOOLEAN, NEW f \in AnyFrame
  PROVE  [tab EXCEPT ![i] = [frame |-> f, error |-> v]] \in [I -> ErrorFrame]
BY DEF ErrorFrame

LEMMA EErrorWritten ==
  ASSUME NEW I, NEW tab \in [I -> EErrorFrame], NEW i, NEW v \in BOOLEAN,
         NEW e \in Errors \cup {"none"}, NEW f \in AnyFrame
  PROVE  /\ [tab EXCEPT ![i] = [E |-> v, error |-> e, frame |-> f]] \in [I -> EErrorFrame]
         /\ [tab EXCEPT ![i].E = v] \in [I -> EErrorFrame]
BY DEF EErrorFrame

LEMMA RTO1Written ==
  ASSUME NEW I, NEW tab \in [I -> RTO1Frame], NEW i, NEW r \in BOOLEAN, NEW v \in BOOLEAN,
         NEW f \in AnyFrame
  PROVE  /\ [tab EXCEPT ![i].TO1 = v, ![i].frame = f] \in [I -> RTO1Frame]
         /\ [tab EXCEPT ![i].R = r, ![i].TO1 = v] \in [I -> RTO1Frame]
         /\ [tab EXCEPT ![i].R = r] \in [I -> RTO1Frame]
BY DEF RTO1Frame

LEMMA FramesAreAny == ASSUME NEW f \in Frames PROVE f \in AnyFrame
BY DEF AnyFrame

LEMMA NoFrameIsAny == NoFrame \in AnyFrame
BY DEF AnyFrame

TxSteps == [at : {"idle", "wait", "copied", "given"}, frame : AnyFrame]

Stm32RxTypes == x1 \in [Stm32E!RxIndex -> OwnFrame]
Stm32TxTypes == x8 \in [Stm32E!TxIndex -> OwnFrame] /\ x13 \in TxSteps
LpcRxTypes == x1 \in [LpcE!RxIndex -> ErrorFrame]
LpcTxTypes == x9 \in [LpcE!TxIndex -> AnyFrame] /\ x13 \in AnyFrame
Mk66fRxTypes == x1 \in [Mk66fE!RxIndex -> EErrorFrame]
Mk66fTxTypes == x9 \in [Mk66fE!TxIndex -> RTO1Frame]
Tm4cRxTypes == x1 \in [Tm4cE!RxIndex -> OWNFrame]
Tm4cTxTypes == x6 \in [Tm4cE!TxIndex -> OWNFrame] /\ x8 \in AnyFrame

LEMMA Stm32RxTypesKeep ==
  ASSUME Stm32RxTypes, Stm32E!RxNext PROVE Stm32RxTypes'
<1>1. ASSUME NEW f \in Frames, Stm32E!Receive(f) PROVE Stm32RxTypes'
  BY <1>1, OwnWritten, FramesAreAny, Zenon DEF Stm32RxTypes, Stm32E!Receive
<1>2. CASE Stm32E!IrqDiscards
  <2> DEFINE gone == Stm32E!ToSet(Stm32E!Filled(x1, x2))
  <2>1. x1' = [i \in Stm32E!RxIndex |-> [x1[i] EXCEPT !.own = @ \/ i \in gone]]
    BY <1>2, Zenon DEF Stm32E!IrqDiscards
  <2> HIDE DEF gone
  <2>2. ASSUME NEW i \in Stm32E!RxIndex PROVE [x1[i] EXCEPT !.own = @ \/ i \in gone] \in OwnFrame
    <3>1. x1[i] \in OwnFrame
      BY Zenon DEF Stm32RxTypes
    <3>2. ASSUME NEW v \in BOOLEAN PROVE [x1[i] EXCEPT !.own = v] \in OwnFrame
      BY <3>1 DEF OwnFrame
    <3>3. (x1[i].own \/ i \in gone) \in BOOLEAN
      OBVIOUS
    <3> QED BY <3>2, <3>3, Zenon
  <2> QED BY <2>1, <2>2, Zenon DEF Stm32RxTypes
<1>3. CASE Stm32E!Release
  BY <1>3, OwnWritten, NoFrameIsAny, Zenon DEF Stm32RxTypes, Stm32E!Release
<1>4. CASE x1' = x1
  BY <1>4, Zenon DEF Stm32RxTypes
<1> QED BY <1>1, <1>2, <1>3, <1>4, Zenon DEF Stm32E!RxNext, Stm32E!ETH_IRQHandler, Stm32E!MainStep,
         Stm32E!IrqPosts, Stm32E!PostOther, Stm32E!QueueOverrun, Stm32E!rxVars,
         Stm32E!ProcessReceivedFrames, Stm32E!ProcessOther,
         Stm32E!Acquire, Stm32E!AdvanceReadPtr, Stm32E!EndLoop

LEMMA Stm32TxTypesKeep ==
  ASSUME Stm32TxTypes, Stm32E!TxNext PROVE Stm32TxTypes'
<1>1. ASSUME NEW f \in Frames, Stm32E!Call(f) PROVE Stm32TxTypes'
  <2>1. [at |-> "wait", frame |-> f] \in TxSteps
    BY FramesAreAny DEF TxSteps
  <2> QED BY <1>1, <2>1, Zenon DEF Stm32TxTypes, Stm32E!Call
<1>2. CASE Stm32E!Copy
  <2>1. x13.frame \in AnyFrame /\ [x13 EXCEPT !.at = "copied"] \in TxSteps
    BY DEF Stm32TxTypes, TxSteps
  <2> QED BY <1>2, <2>1, OwnWritten, Zenon DEF Stm32TxTypes, Stm32E!Copy
<1>3. CASE Stm32E!GiveToDma
  <2>1. [at |-> "given", frame |-> NoFrame] \in TxSteps
    BY NoFrameIsAny DEF TxSteps
  <2> QED BY <1>3, <2>1, OwnWritten, NoFrameIsAny, Zenon DEF Stm32TxTypes, Stm32E!GiveToDma
<1>4. CASE Stm32E!Resume
  <2>1. Stm32E!Idle \in TxSteps
    BY NoFrameIsAny DEF TxSteps, Stm32E!Idle
  <2> QED BY <1>4, <2>1, Zenon DEF Stm32TxTypes, Stm32E!Resume
<1>5. CASE Stm32E!DmaEnds
  BY <1>5, OwnWritten, NoFrameIsAny, Zenon DEF Stm32TxTypes, Stm32E!DmaEnds
<1>6. CASE Stm32E!TxDmaSuspends \/ Stm32E!DmaBegins
  BY <1>6, Zenon DEF Stm32TxTypes, Stm32E!TxDmaSuspends, Stm32E!DmaBegins
<1> QED BY <1>1, <1>2, <1>3, <1>4, <1>5, <1>6, Zenon DEF Stm32E!TxNext, Stm32E!enet_send_blocking, Stm32E!Dma

LEMMA LpcRxTypesKeep ==
  ASSUME LpcRxTypes, LpcE!RxNext PROVE LpcRxTypes'
<1>1. ASSUME NEW f \in Frames, NEW error \in BOOLEAN, LpcE!Receive(f, error) PROVE LpcRxTypes'
  BY <1>1, ErrorWritten, FramesAreAny, Zenon DEF LpcRxTypes, LpcE!Receive
<1>2. CASE x1' = x1
  BY <1>2, Zenon DEF LpcRxTypes
<1> QED BY <1>1, <1>2, Zenon DEF LpcE!RxNext, LpcE!Interrupted, LpcE!Running, LpcE!rxVars,
         LpcE!ethernet_isr, LpcE!PostOther, LpcE!QueueOverrun, LpcE!MainStep,
         LpcE!on_rx_event, LpcE!BeginEvent, LpcE!OtherEvent, LpcE!CallHandler, LpcE!Consume,
         LpcE!EndEvent, LpcE!PopEvent

LEMMA LpcTxTypesKeep ==
  ASSUME LpcTxTypes, LpcE!TxNext PROVE LpcTxTypes'
<1>1. ASSUME NEW f \in Frames, LpcE!TransmitGetBuffer(f) PROVE LpcTxTypes'
  BY <1>1, FramesAreAny, Zenon DEF LpcTxTypes, LpcE!TransmitGetBuffer
<1>2. CASE LpcE!Copy
  BY <1>2, Zenon DEF LpcTxTypes, LpcE!Copy
<1>3. CASE LpcE!Produce \/ LpcE!Dma
  BY <1>3, Zenon DEF LpcTxTypes, LpcE!Produce, LpcE!Dma, LpcE!DmaBegins, LpcE!DmaEnds
<1> QED BY <1>1, <1>2, <1>3, Zenon DEF LpcE!TxNext, LpcE!ethernet_send

LEMMA Mk66fRxTypesKeep ==
  ASSUME Mk66fRxTypes, Mk66fE!RxNext PROVE Mk66fRxTypes'
<1>1. ASSUME NEW f \in Frames, NEW error \in Errors \cup {"none"}, Mk66fE!Receive(f, error)
      PROVE  Mk66fRxTypes'
  BY <1>1, EErrorWritten, FramesAreAny, Zenon DEF Mk66fRxTypes, Mk66fE!Receive
<1>2. CASE Mk66fE!SkipError \/ Mk66fE!RxReleaseBuffer
  <2>1. x1' = [x1 EXCEPT ![x2].E = TRUE]
    BY <1>2, Zenon DEF Mk66fE!SkipError, Mk66fE!RxReleaseBuffer, Mk66fE!Emptied
  <2>2. "none" \in Errors \cup {"none"}
    OBVIOUS
  <2> QED BY <2>1, <2>2, EErrorWritten, NoFrameIsAny, Zenon DEF Mk66fRxTypes
<1>3. CASE x1' = x1
  BY <1>3, Zenon DEF Mk66fRxTypes
<1> QED BY <1>1, <1>2, <1>3, Zenon DEF Mk66fE!RxNext, Mk66fE!ReceiverStops, Mk66fE!PostOther,
         Mk66fE!QueueOverrun, Mk66fE!rxVars, Mk66fE!PushPending, Mk66fE!Push, Mk66fE!MainLoop, Mk66fE!process_received_frames, Mk66fE!OtherEvent,
         Mk66fE!AllPopped, Mk66fE!NothingToPush, Mk66fE!ClearPending, Mk66fE!BeginEvent,
         Mk66fE!GetBuffer, Mk66fE!NoBuffer, Mk66fE!PopEvent

LEMMA Mk66fTxTypesKeep ==
  ASSUME Mk66fTxTypes, Mk66fE!TxNext PROVE Mk66fTxTypes'
<1>1. ASSUME NEW f \in Frames, Mk66fE!WriteGetBuffer(f) PROVE Mk66fTxTypes'
  BY <1>1, RTO1Written, FramesAreAny, Zenon DEF Mk66fTxTypes, Mk66fE!WriteGetBuffer
<1>2. CASE Mk66fE!WriteReleaseBuffer
  BY <1>2, RTO1Written, NoFrameIsAny, Zenon DEF Mk66fTxTypes, Mk66fE!WriteReleaseBuffer
<1>3. CASE Mk66fE!DmaEnds
  BY <1>3, RTO1Written, NoFrameIsAny, Zenon DEF Mk66fTxTypes, Mk66fE!DmaEnds
<1>4. CASE Mk66fE!TellController \/ Mk66fE!DmaBegins \/ Mk66fE!DmaStops
  BY <1>4, Zenon DEF Mk66fTxTypes, Mk66fE!TellController, Mk66fE!DmaBegins, Mk66fE!DmaStops
<1> QED BY <1>1, <1>2, <1>3, <1>4, Zenon DEF Mk66fE!TxNext, Mk66fE!enet_write_release_buffer, Mk66fE!Dma

LEMMA Tm4cRxTypesKeep ==
  ASSUME Tm4cRxTypes, Tm4cE!RxNext PROVE Tm4cRxTypes'
<1>1. ASSUME NEW f \in Frames, Tm4cE!Receive(f) PROVE Tm4cRxTypes'
  BY <1>1, OWNWritten, FramesAreAny, Zenon DEF Tm4cRxTypes, Tm4cE!Receive
<1>2. CASE Tm4cE!ReleaseDescriptor
  BY <1>2, OWNWritten, NoFrameIsAny, Zenon DEF Tm4cRxTypes, Tm4cE!ReleaseDescriptor
<1>3. CASE x1' = x1
  BY <1>3, Zenon DEF Tm4cRxTypes
<1> QED BY <1>1, <1>2, <1>3, Zenon DEF Tm4cE!RxNext, Tm4cE!RxDmaSuspends, Tm4cE!ethernet_get_received,
         Tm4cE!RxCallback, Tm4cE!AdvanceIndex, Tm4cE!BreakLoop, Tm4cE!WakeDma

LEMMA Tm4cTxTypesKeep ==
  ASSUME Tm4cTxTypes, Tm4cE!TxNext PROVE Tm4cTxTypes'
<1>1. ASSUME NEW f \in Frames, Tm4cE!GetBuffer(f) PROVE Tm4cTxTypes'
  BY <1>1, FramesAreAny, Zenon DEF Tm4cTxTypes, Tm4cE!GetBuffer
<1>2. CASE Tm4cE!ReleaseBuffer
  BY <1>2, OWNWritten, Zenon DEF Tm4cTxTypes, Tm4cE!ReleaseBuffer
<1>3. CASE Tm4cE!DmaEnds
  BY <1>3, OWNWritten, NoFrameIsAny, Zenon DEF Tm4cTxTypes, Tm4cE!DmaEnds
<1>4. CASE Tm4cE!Call \/ Tm4cE!WakeTxDma \/ Tm4cE!DmaBegins \/ Tm4cE!TxDmaSuspends
  BY <1>4, Zenon DEF Tm4cTxTypes, Tm4cE!Call, Tm4cE!WakeTxDma, Tm4cE!DmaBegins, Tm4cE!TxDmaSuspends
<1> QED BY <1>1, <1>2, <1>3, <1>4, Zenon DEF Tm4cE!TxNext, Tm4cE!ethernet_transmit, Tm4cE!Dma

\* The types hold in all parts, together with the invariants that they need.
DriverTypes ==
  /\ which \in {"Stm32 receives", "Stm32 sends"} => Stm32RxTypes /\ Stm32TxTypes
  /\ which \in {"Lpc receives", "Lpc sends"} => LpcRxTypes /\ LpcTxTypes
  /\ which \in {"Mk66f receives", "Mk66f sends"} => Mk66fRxTypes /\ Mk66fTxTypes
  /\ which \in {"Tm4c receives", "Tm4c sends"} => Tm4cRxTypes /\ Tm4cTxTypes

LEMMA DriverTypesStart ==
  ASSUME Init PROVE DriverTypes
<1>1. ASSUME Stm32E!RxInit, Stm32E!TxInit PROVE Stm32RxTypes /\ Stm32TxTypes
  <2>1. [own |-> TRUE, frame |-> NoFrame] \in OwnFrame /\ [own |-> FALSE, frame |-> NoFrame] \in OwnFrame
    BY NoFrameIsAny DEF OwnFrame
  <2>2. Stm32E!Idle \in TxSteps
    BY NoFrameIsAny DEF TxSteps, Stm32E!Idle
  <2> QED BY <1>1, <2>1, <2>2, Zenon DEF Stm32E!RxInit, Stm32E!TxInit, Stm32RxTypes, Stm32TxTypes
<1>2. ASSUME LpcE!RxInit, LpcE!TxInit PROVE LpcRxTypes /\ LpcTxTypes
  <2>1. [frame |-> NoFrame, error |-> FALSE] \in ErrorFrame
    BY NoFrameIsAny DEF ErrorFrame
  <2> QED BY <1>2, <2>1, NoFrameIsAny, Zenon DEF LpcE!RxInit, LpcE!TxInit, LpcRxTypes, LpcTxTypes
<1>3. ASSUME Mk66fE!RxInit, Mk66fE!TxInit PROVE Mk66fRxTypes /\ Mk66fTxTypes
  <2>1. /\ [E |-> TRUE, error |-> "none", frame |-> NoFrame] \in EErrorFrame
        /\ [R |-> FALSE, TO1 |-> FALSE, frame |-> NoFrame] \in RTO1Frame
    BY NoFrameIsAny DEF EErrorFrame, RTO1Frame
  <2> QED BY <1>3, <2>1, Zenon DEF Mk66fE!RxInit, Mk66fE!TxInit, Mk66fRxTypes, Mk66fTxTypes
<1>4. ASSUME Tm4cE!RxInit, Tm4cE!TxInit PROVE Tm4cRxTypes /\ Tm4cTxTypes
  <2>1. [OWN |-> TRUE, frame |-> NoFrame] \in OWNFrame /\ [OWN |-> FALSE, frame |-> NoFrame] \in OWNFrame
    BY NoFrameIsAny DEF OWNFrame
  <2> QED BY <1>4, <2>1, NoFrameIsAny, Zenon DEF Tm4cE!RxInit, Tm4cE!TxInit, Tm4cRxTypes, Tm4cTxTypes
<1> QED BY <1>1, <1>2, <1>3, <1>4, Zenon DEF Init, DriverTypes


LEMMA DriverTypesKeep ==
  ASSUME DriverTypes, [Next]_all PROVE DriverTypes'
<1>0. which' = which
  BY Zenon DEF Next, In, all
<1>1. CASE which = "Stm32 receives"
  <2>1. (Stm32E!RxNext \/ x1' = x1) /\ x8' = x8 /\ x13' = x13
    BY <1>1, Zenon DEF Next, In, all, rest5, rest7, rest8
  <2>2. Stm32RxTypes' /\ Stm32TxTypes'
    <3>1. Stm32RxTypes /\ Stm32TxTypes
      BY <1>1, Zenon DEF DriverTypes
    <3> QED BY <2>1, <3>1, Stm32RxTypesKeep, Zenon DEF Stm32RxTypes, Stm32TxTypes
  <2> QED BY <1>0, <1>1, <2>2, Zenon DEF DriverTypes
<1>2. CASE which = "Stm32 sends"
  <2>1. (Stm32E!TxNext \/ (x8' = x8 /\ x13' = x13)) /\ x1' = x1
    BY <1>2, Zenon DEF Next, In, all, upTo5, upTo7, upTo8
  <2>2. Stm32RxTypes' /\ Stm32TxTypes'
    <3>1. Stm32RxTypes /\ Stm32TxTypes
      BY <1>2, Zenon DEF DriverTypes
    <3> QED BY <2>1, <3>1, Stm32TxTypesKeep, Zenon DEF Stm32RxTypes, Stm32TxTypes
  <2> QED BY <1>0, <1>2, <2>2, Zenon DEF DriverTypes
<1>3. CASE which = "Lpc receives"
  <2>1. (LpcE!RxNext \/ x1' = x1) /\ x9' = x9 /\ x13' = x13
    BY <1>3, Zenon DEF Next, In, all, rest5, rest7, rest8
  <2>2. LpcRxTypes' /\ LpcTxTypes'
    <3>1. LpcRxTypes /\ LpcTxTypes
      BY <1>3, Zenon DEF DriverTypes
    <3> QED BY <2>1, <3>1, LpcRxTypesKeep, Zenon DEF LpcRxTypes, LpcTxTypes
  <2> QED BY <1>0, <1>3, <2>2, Zenon DEF DriverTypes
<1>4. CASE which = "Lpc sends"
  <2>1. (LpcE!TxNext \/ (x9' = x9 /\ x13' = x13)) /\ x1' = x1
    BY <1>4, Zenon DEF Next, In, all, upTo5, upTo7, upTo8
  <2>2. LpcRxTypes' /\ LpcTxTypes'
    <3>1. LpcRxTypes /\ LpcTxTypes
      BY <1>4, Zenon DEF DriverTypes
    <3> QED BY <2>1, <3>1, LpcTxTypesKeep, Zenon DEF LpcRxTypes, LpcTxTypes
  <2> QED BY <1>0, <1>4, <2>2, Zenon DEF DriverTypes
<1>5. CASE which = "Mk66f receives"
  <2>1. (Mk66fE!RxNext \/ x1' = x1) /\ x9' = x9
    BY <1>5, Zenon DEF Next, In, all, rest5, rest7, rest8
  <2>2. Mk66fRxTypes' /\ Mk66fTxTypes'
    <3>1. Mk66fRxTypes /\ Mk66fTxTypes
      BY <1>5, Zenon DEF DriverTypes
    <3> QED BY <2>1, <3>1, Mk66fRxTypesKeep, Zenon DEF Mk66fRxTypes, Mk66fTxTypes
  <2> QED BY <1>0, <1>5, <2>2, Zenon DEF DriverTypes
<1>6. CASE which = "Mk66f sends"
  <2>1. (Mk66fE!TxNext \/ x9' = x9) /\ x1' = x1
    BY <1>6, Zenon DEF Next, In, all, upTo5, upTo7, upTo8
  <2>2. Mk66fRxTypes' /\ Mk66fTxTypes'
    <3>1. Mk66fRxTypes /\ Mk66fTxTypes
      BY <1>6, Zenon DEF DriverTypes
    <3> QED BY <2>1, <3>1, Mk66fTxTypesKeep, Zenon DEF Mk66fRxTypes, Mk66fTxTypes
  <2> QED BY <1>0, <1>6, <2>2, Zenon DEF DriverTypes
<1>7. CASE which = "Tm4c receives"
  <2>1. (Tm4cE!RxNext \/ x1' = x1) /\ x6' = x6 /\ x8' = x8
    BY <1>7, Zenon DEF Next, In, all, rest5, rest7, rest8
  <2>2. Tm4cRxTypes' /\ Tm4cTxTypes'
    <3>1. Tm4cRxTypes /\ Tm4cTxTypes
      BY <1>7, Zenon DEF DriverTypes
    <3> QED BY <2>1, <3>1, Tm4cRxTypesKeep, Zenon DEF Tm4cRxTypes, Tm4cTxTypes
  <2> QED BY <1>0, <1>7, <2>2, Zenon DEF DriverTypes
<1>8. CASE which = "Tm4c sends"
  <2>1. (Tm4cE!TxNext \/ (x6' = x6 /\ x8' = x8)) /\ x1' = x1
    BY <1>8, Zenon DEF Next, In, all, upTo5, upTo7, upTo8
  <2>2. Tm4cRxTypes' /\ Tm4cTxTypes'
    <3>1. Tm4cRxTypes /\ Tm4cTxTypes
      BY <1>8, Zenon DEF DriverTypes
    <3> QED BY <2>1, <3>1, Tm4cTxTypesKeep, Zenon DEF Tm4cRxTypes, Tm4cTxTypes
  <2> QED BY <1>0, <1>8, <2>2, Zenon DEF DriverTypes
<1> QED BY <1>0, <1>1, <1>2, <1>3, <1>4, <1>5, <1>6, <1>7, <1>8, Zenon DEF DriverTypes

\* The buffer of the event queue and its offsets, the slots of the scheduler and the
\* descriptors of the four drivers keep their types, whatever the sizes and however
\* full the queues.  TypeOK types no index of a ring and no variable of the
\* applications and of the clock.
THEOREM BoardTypesHold ==
  ASSUME Queue!Sized, Timers!Slotted
  PROVE  Spec => []TypeOK
<1> DEFINE Inv == /\ which = "queue" => Queue!Kept
                  /\ which = "timers" => Timers!Scheduled
                  /\ DriverTypes
<1>1. Init => Inv
  BY QueueStarts, Timers!ScheduledAtStart, DriverTypesStart, Zenon DEF Init
<1>2. Inv /\ [Next]_all => Inv'
  BY QueueKept, TimersKept, DriverTypesKeep, Zenon
<1>3. Inv => TypeOK
  <2> SUFFICES ASSUME Inv PROVE TypeOK
    OBVIOUS
  <2>1. which = "queue" => Queue!TypeOK
    BY Zenon DEF Queue!Kept
  <2>2. which = "timers" => Timers!TypeOK
    BY Timers!ScheduledTyped, Zenon
  <2>3. which \in {"Stm32 receives", "Stm32 sends"} => Stm32E!TypeOK
    BY Zenon DEF DriverTypes, Stm32RxTypes, Stm32TxTypes, OwnFrame, AnyFrame, Stm32E!TypeOK, Stm32E!rx_descriptor
  <2>4. which \in {"Lpc receives", "Lpc sends"} => LpcE!TypeOK
    BY Zenon DEF DriverTypes, LpcRxTypes, LpcTxTypes, ErrorFrame, AnyFrame, LpcE!TypeOK, LpcE!EnetDmaRxSta
  <2>5. which \in {"Mk66f receives", "Mk66f sends"} => Mk66fE!TypeOK
    BY Zenon DEF DriverTypes, Mk66fRxTypes, Mk66fTxTypes, EErrorFrame, RTO1Frame, AnyFrame, Mk66fE!TypeOK,
       Mk66fE!rx_descriptor, Mk66fE!tx_descriptor
  <2>6. which \in {"Tm4c receives", "Tm4c sends"} => Tm4cE!TypeOK
    BY Zenon DEF DriverTypes, Tm4cRxTypes, Tm4cTxTypes, OWNFrame, AnyFrame, Tm4cE!TypeOK,
       Tm4cE!rx_descriptor_t, Tm4cE!tx_descriptor_t
  <2> QED BY <2>1, <2>2, <2>3, <2>4, <2>5, <2>6, Zenon DEF TypeOK
<1> QED BY <1>1, <1>2, <1>3, PTL DEF Spec

==============================================================================
