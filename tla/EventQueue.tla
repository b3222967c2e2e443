----------------------------- MODULE EventQueue -----------------------------
(***************************************************************************)
(* drivers/event_queue.cpp: the ring of bytes through which interrupts and *)
(* the main program post events to the main loop.  A push runs with        *)
(* interrupts off; event_queue_pop_all does not, so that pushes fall       *)
(* between its steps, and its callbacks push as well.                      *)
(***************************************************************************)
EXTENDS Integers, Sequences

CONSTANTS Capacity,   \* bytes of the buffer
          Header,     \* sizeof(event)
          Align,      \* events start at multiples of it: 4 in the code
          Events,     \* the callbacks that are posted
          PayloadOf,  \* [Events -> Nat], payload_size of each
          NoEvent

VARIABLES
  memory,     \* by offset, one word of Align bytes: the value of its first half
              \* as an _len, the event it belongs to, and which word of it
  read_ptr, write_ptr, used_size,
  popping,    \* the locals of event_queue_pop_all
  overrun     \* history: a push has written over an event that waits or is processed

vars == <<memory, read_ptr, write_ptr, used_size, popping, overrun>>

Offsets == {o \in 0 .. Capacity - 1 : o % Align = 0}
RoundUp(n) == ((n + Align - 1) \div Align) * Align
Len_(e) == Header + PayloadOf[e]
AllocSize(e) == RoundUp(Len_(e))

Word == [_len : Nat, event : Events \cup {NoEvent}, part : Nat]
Popping == [at : {"idle", "callback", "advanced"}, event : Events \cup {NoEvent}, size : Nat]
NotPopping == [at |-> "idle", event |-> NoEvent, size |-> 0]

Init ==
  /\ memory = [o \in Offsets |-> [_len |-> 0, event |-> NoEvent, part |-> 0]]
  /\ read_ptr = 0 /\ write_ptr = 0 /\ used_size = 0
  /\ popping = NotPopping /\ overrun = FALSE

-----------------------------------------------------------------------------
Tail_ == Capacity - write_ptr
WrapsFor(e) == ~(Tail_ >= AllocSize(e))
\* Variant: equality is not enough.
EnoughSpaceStrict(alloc) == used_size > Capacity \/ Capacity - used_size > alloc

\* Of unsigned numbers: less than nothing is a great deal.
EnoughSpace(alloc) == used_size > Capacity \/ Capacity - used_size >= alloc

\* The bytes of events that wait or are processed; a push that takes n bytes from
\* the write pointer on, when so many are not left, writes over the oldest of them.
StillUsed == IF popping.at = "advanced" THEN used_size - popping.size ELSE used_size
Overruns(n) == overrun' = (StillUsed + n > Capacity)

\* The event laid out from offset `o` on.
Stored(mem, o, e) ==
  [x \in DOMAIN mem |->
     IF x \in o .. o + AllocSize(e) - 1
     THEN [_len |-> IF x = o THEN Len_(e) ELSE 1, event |-> e, part |-> (x - o) \div Align]
     ELSE mem[x]]

\* Variant: the end of the buffer is taken for a place to write to.
WrittenToEnd(e, o, alloc, mem) ==
  /\ memory' = Stored(mem, o, e)
  /\ write_ptr' = IF write_ptr + alloc > Capacity THEN write_ptr + alloc - Capacity
                  ELSE write_ptr + alloc
  /\ used_size' = used_size + alloc

Written(e, o, alloc, mem) ==
  /\ memory' = Stored(mem, o, e)
  /\ write_ptr' = IF write_ptr + alloc >= Capacity THEN write_ptr + alloc - Capacity
                  ELSE write_ptr + alloc
  /\ used_size' = used_size + alloc

Marked == [memory EXCEPT ![write_ptr]._len = 0]

\* try_push without wrapping: whether the bytes are free is not looked at.
PushAtEnd(e) ==
  /\ ~WrapsFor(e)
  /\ Written(e, write_ptr, AllocSize(e), memory)
  /\ Overruns(AllocSize(e))
  /\ UNCHANGED <<read_ptr, popping>>

\* try_push with the event at the beginning of the buffer.
PushWrapped(e) ==
  /\ WrapsFor(e)
  /\ EnoughSpace(AllocSize(e) + Tail_)
  /\ Written(e, 0, AllocSize(e) + Tail_, Marked)
  /\ Overruns(AllocSize(e) + Tail_)
  /\ UNCHANGED <<read_ptr, popping>>

\* try_push that returns false; the wrap marker has been written already, in a
\* queue that is full to the last byte over the length of the oldest event.
PushRefused(e) ==
  /\ WrapsFor(e)
  /\ ~EnoughSpace(AllocSize(e) + Tail_)
  /\ memory' = Marked
  /\ Overruns(1)
  /\ UNCHANGED <<read_ptr, write_ptr, used_size, popping>>

\* event_queue_try_push, from an interrupt, a callback or the main program, at
\* any time and however full the queue is.
TryPush(e) == ~overrun /\ (PushAtEnd(e) \/ PushWrapped(e) \/ PushRefused(e))

-----------------------------------------------------------------------------
\* Which event is at the read pointer, and what it takes in the buffer.
EventAt == IF memory[read_ptr]._len > 0 THEN read_ptr ELSE 0

\* Variant: the bytes skipped at the end of the buffer are not given back.
PoppingSizeShort ==
  IF memory[read_ptr]._len > 0 THEN RoundUp(memory[read_ptr]._len)
  ELSE RoundUp(memory[0]._len)

PoppingSize ==
  IF memory[read_ptr]._len > 0 THEN RoundUp(memory[read_ptr]._len)
  ELSE RoundUp(Capacity - read_ptr + memory[0]._len)

\* Variant: the space is given back before the callback runs, too.
CallCallbackGivingBack ==
  /\ popping.at = "idle"
  /\ used_size > 0
  /\ popping' = [at |-> "callback", event |-> memory[EventAt].event, size |-> PoppingSize]
  /\ used_size' = used_size - PoppingSize
  /\ UNCHANGED <<memory, read_ptr, write_ptr, overrun>>

\* event_queue_pop_all up to process_event.
CallCallback ==
  /\ popping.at = "idle"
  /\ used_size > 0
  /\ popping' = [at |-> "callback", event |-> memory[EventAt].event, size |-> PoppingSize]
  /\ UNCHANGED <<memory, read_ptr, write_ptr, used_size, overrun>>

\* After the callback: read_ptr is advanced, with interrupts on.
Advance ==
  /\ popping.at = "callback"
  /\ read_ptr' = IF read_ptr + popping.size >= Capacity
                 THEN read_ptr + popping.size - Capacity
                 ELSE read_ptr + popping.size
  /\ popping' = [popping EXCEPT !.at = "advanced", !.event = NoEvent]
  /\ UNCHANGED <<memory, write_ptr, used_size, overrun>>

\* The space is given back, with interrupts off.
GiveBack ==
  /\ popping.at = "advanced"
  /\ used_size' = used_size - popping.size
  /\ popping' = NotPopping
  /\ UNCHANGED <<memory, read_ptr, write_ptr, overrun>>

event_queue_pop_all == ~overrun /\ (CallCallback \/ Advance \/ GiveBack)

\* The main loop takes its lengths and its callbacks from the bytes of the queue:
\* what it does with bytes that were overwritten is undefined and not followed.
Overrun == overrun /\ UNCHANGED vars

Next == (\E e \in Events : TryPush(e)) \/ event_queue_pop_all \/ Overrun

\* The main loop calls event_queue_pop_all again and again, and no callback blocks.
Spec == Init /\ [][Next]_vars /\ WF_vars(event_queue_pop_all)

-----------------------------------------------------------------------------
TypeOK ==
  /\ memory \in [Offsets -> Word]
  /\ read_ptr \in Offsets /\ write_ptr \in Offsets
  /\ used_size \in Nat
  /\ popping \in Popping /\ overrun \in BOOLEAN

\* The events that the buffer holds, from offset `r` on over `n` bytes.
Contents[r \in Offsets, n \in 0 .. Capacity] ==
  IF n = 0 THEN <<>>
  ELSE LET start == IF memory[r]._len > 0 THEN r ELSE 0
           size  == RoundUp(memory[start]._len) + (IF start = r THEN 0 ELSE Capacity - r)
           end   == IF r + size >= Capacity THEN r + size - Capacity ELSE r + size
       IN  <<memory[start].event>> \o Contents[end, n - size]

\* The events that wait, the one whose callback runs at the head.
Waiting == IF overrun THEN <<>> ELSE Contents[read_ptr, StillUsed]

\* While its callback runs, the words of an event in the buffer, which the
\* callback may still be reading (event_queue.cpp:132,136 pass pointers into
\* it), are those of that event.
PayloadIntact ==
  popping.at = "callback" =>
    LET o == EventAt IN
    \A x \in Offsets : x \in o .. o + AllocSize(popping.event) - 1 =>
      memory[x].event = popping.event /\ memory[x].part = (x - o) \div Align

\* It is so until the queue is overrun: nothing else can disturb a callback.
PayloadUntouched == overrun \/ PayloadIntact

\* A queue that has been emptied takes any event, wherever its pointers have
\* come to stand (the retries of scheduler.cpp:120-126 count on that).
TakesAnyWhenEmpty ==
  popping.at = "idle" /\ used_size = 0 /\ ~overrun =>
    \A e \in Events : WrapsFor(e) => EnoughSpace(AllocSize(e) + Tail_)

=============================================================================
