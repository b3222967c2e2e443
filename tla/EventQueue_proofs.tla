-------------------------- MODULE EventQueue_proofs --------------------------
(***************************************************************************)
(* What the ring of bytes keeps, whatever its size and its events, until   *)
(* a push overruns it: the words of every event that waits stay as they    *)
(* were written.                                                           *)
(***************************************************************************)
EXTENDS EventQueue, TLAPS

\* The buffer holds whole words, and any one event (event_queue_init and
\* event_queue.cpp:57 assert both).
Sized ==
  /\ Capacity \in Nat \ {0} /\ Header \in Nat \ {0} /\ Align \in Nat \ {0}
  /\ PayloadOf \in [Events -> Nat] /\ NoEvent \notin Events
  /\ Capacity % Align = 0
  /\ \A e \in Events : AllocSize(e) < Capacity

-----------------------------------------------------------------------------
(***************************************************************************)
(* Multiples of Align.                                                     *)
(***************************************************************************)
LEMMA MultipleOf ==
  ASSUME NEW m \in Nat \ {0}, NEW a \in Nat
  PROVE  /\ a % m = 0 => a = (a \div m) * m
         /\ a \div m \in Nat
  BY SMT

LEMMA IsMultiple ==
  ASSUME NEW m \in Nat \ {0}, NEW q \in Nat
  PROVE  (q * m) % m = 0 /\ (q * m) \div m = q
  BY SMT

LEMMA Multiples ==
  ASSUME NEW m \in Nat \ {0}, NEW a \in Nat, NEW b \in Nat, a % m = 0, b % m = 0
  PROVE  /\ (a + b) % m = 0
         /\ a >= b => (a - b) % m = 0
         /\ a > b => a >= b + m
<1> DEFINE q == a \div m
           r == b \div m
<1>1. q \in Nat /\ r \in Nat /\ a = q * m /\ b = r * m
  BY MultipleOf
<1> HIDE DEF q, r
<1>2. a + b = (q + r) * m
  BY <1>1, SMT
<1>3. ASSUME a >= b
      PROVE  q >= r /\ a - b = (q - r) * m
  <2>1. q >= r
    BY <1>1, <1>3, SMT
  <2> QED BY <1>1, <2>1, SMT
<1>4. ASSUME a > b
      PROVE  a >= b + m
  <2>1. q >= r + 1
    BY <1>1, <1>4, SMT
  <2>2. q * m >= (r + 1) * m
    BY <1>1, <2>1, SMT
  <2> QED BY <1>1, <2>2, SMT
<1>5. (a + b) % m = 0
  <2>1. q + r \in Nat
    BY <1>1, SMT
  <2> QED BY <1>2, <2>1, IsMultiple
<1>6. ASSUME a >= b
      PROVE  (a - b) % m = 0
  <2>1. q - r \in Nat
    BY <1>1, <1>3, <1>6, SMT
  <2> QED BY <1>3, <1>6, <2>1, IsMultiple
<1> QED BY <1>4, <1>5, <1>6

\* RoundUp gives the next multiple, and leaves multiples as they are.
LEMMA Rounded ==
  ASSUME Sized, NEW n \in Nat
  PROVE  RoundUp(n) \in Nat /\ RoundUp(n) >= n /\ RoundUp(n) % Align = 0
<1> DEFINE q == (n + Align - 1) \div Align
<1>1. Align \in Nat \ {0}
  BY DEF Sized
<1>2. q \in Nat /\ q * Align \in Nat /\ q * Align > n - 1
  BY <1>1, SMT
<1>3. RoundUp(n) = q * Align
  BY DEF RoundUp
<1> HIDE DEF q
<1> QED BY <1>1, <1>2, <1>3, IsMultiple, SMT

LEMMA RoundedSum ==
  ASSUME Sized, NEW a \in Nat, NEW n \in Nat, a % Align = 0
  PROVE  RoundUp(a + n) = a + RoundUp(n)
<1> DEFINE k == a \div Align
           c == n + Align - 1
           q == c \div Align
           s == (a + n + Align - 1) \div Align
<1>1. Align \in Nat \ {0}
  BY DEF Sized
<1>2. k \in Nat /\ a = k * Align
  BY <1>1, MultipleOf
<1>3. c \in Nat /\ a + n + Align - 1 = a + c
  BY <1>1, SMT
<1>4. q \in Nat /\ q * Align <= c /\ c < (q + 1) * Align
  BY <1>1, <1>3, SMT
<1>5. s \in Nat /\ s * Align <= a + c /\ a + c < (s + 1) * Align
  BY <1>1, <1>3, SMT
<1>6. RoundUp(a + n) = s * Align /\ RoundUp(n) = q * Align
  BY DEF RoundUp
<1> HIDE DEF k, c, q, s
<1>7. (k + q) * Align = a + q * Align /\ (k + q + 1) * Align = a + (q + 1) * Align
  BY <1>1, <1>2, <1>4, SMT
<1>8. ASSUME s < k + q PROVE FALSE
  <2>1. s + 1 <= k + q
    BY <1>2, <1>4, <1>5, <1>8, SMT
  <2>2. (s + 1) * Align <= (k + q) * Align
    BY <1>1, <1>2, <1>4, <1>5, <2>1, SMT
  <2>3. (s + 1) * Align \in Nat /\ (k + q) * Align \in Nat /\ q * Align \in Nat
    BY <1>1, <1>2, <1>4, <1>5, SMT
  <2> QED BY <1>3, <1>4, <1>5, <1>7, <2>2, <2>3, SMT
<1>9. ASSUME s > k + q PROVE FALSE
  <2>1. k + q + 1 <= s
    BY <1>2, <1>4, <1>5, <1>9, SMT
  <2>2. (k + q + 1) * Align <= s * Align
    BY <1>1, <1>2, <1>4, <1>5, <2>1, SMT
  <2>3. s * Align \in Nat /\ (k + q + 1) * Align \in Nat /\ (q + 1) * Align \in Nat
    BY <1>1, <1>2, <1>4, <1>5, SMT
  <2> QED BY <1>3, <1>4, <1>5, <1>7, <2>2, <2>3, SMT
<1>10. s = k + q
  BY <1>2, <1>4, <1>5, <1>8, <1>9, SMT
<1> QED BY <1>6, <1>7, <1>10
-----------------------------------------------------------------------------
(***************************************************************************)
(* Where events lie.  An entry is an offset, and the event that was pushed *)
(* when the write pointer stood there.                                     *)
(***************************************************************************)
\* how far ahead of the read pointer offset o is
Ahead(o) == IF o >= read_ptr THEN o - read_ptr ELSE o - read_ptr + Capacity

Onward(o, n) == IF o + n >= Capacity THEN o + n - Capacity ELSE o + n

Wraps(o, e) == Capacity - o < AllocSize(e)
Start(o, e) == IF Wraps(o, e) THEN 0 ELSE o
Taken(o, e) == AllocSize(e) + IF Wraps(o, e) THEN Capacity - o ELSE 0

Entries == [at : Offsets, event : Events]

Words(o, e) == {x \in Offsets : Start(o, e) <= x /\ x < Start(o, e) + AllocSize(e)}

Laid(mem, k) ==
  /\ Wraps(k.at, k.event) => mem[k.at]._len = 0
  /\ mem[Start(k.at, k.event)]._len = Len_(k.event)
  /\ \A x \in Words(k.at, k.event) :
       mem[x].event = k.event /\ mem[x].part = (x - Start(k.at, k.event)) \div Align

EndOf(k) == Ahead(k.at) + Taken(k.at, k.event)

\* The entries of Q lie one behind the other, from the read pointer to the write pointer.
Holds(Q) ==
  /\ Q \subseteq Entries
  /\ \A k \in Q : EndOf(k) <= StillUsed /\ Laid(memory, k)
  /\ StillUsed > 0 => \E k \in Q : k.at = read_ptr
  /\ \A k \in Q : EndOf(k) < StillUsed => \E j \in Q : Ahead(j.at) = EndOf(k)

\* What event_queue_pop_all has in hand is the first of them.
InHand(Q) ==
  /\ popping.at = "callback" =>
       \E k \in Q : /\ k.at = read_ptr /\ k.event = popping.event
                    /\ popping.size = Taken(k.at, k.event)
  /\ popping.at = "idle" => popping.size = 0

Ring == /\ TypeOK
        /\ StillUsed <= Capacity /\ popping.size <= used_size
        /\ write_ptr = Onward(read_ptr, StillUsed)
        /\ \E Q \in SUBSET Entries : Holds(Q) /\ InHand(Q)

-----------------------------------------------------------------------------
(***************************************************************************)
(* Sizes and offsets.                                                      *)
(***************************************************************************)
LEMMA Sizes ==
  ASSUME Sized, NEW e \in Events
  PROVE  /\ Len_(e) \in Nat /\ Len_(e) > 0
         /\ AllocSize(e) \in Nat /\ AllocSize(e) > 0
         /\ AllocSize(e) < Capacity /\ AllocSize(e) <= Capacity
         /\ AllocSize(e) % Align = 0
<1>1. Len_(e) \in Nat /\ Len_(e) > 0
  BY SMT DEF Sized, Len_
<1>2. AllocSize(e) < Capacity
  BY DEF Sized
<1>3. Capacity \in Nat
  BY DEF Sized
<1> HIDE DEF Sized
<1> QED BY <1>1, <1>2, <1>3, Rounded, SMT DEF AllocSize

LEMMA OffsetFacts ==
  ASSUME Sized
  PROVE  /\ 0 \in Offsets
         /\ \A o \in Offsets : o \in Nat /\ o < Capacity /\ o % Align = 0 /\ o \in 0 .. Capacity - 1
         /\ \A o \in 0 .. Capacity - 1 : o % Align = 0 => o \in Offsets
  BY SMT DEF Sized, Offsets

LEMMA TakenFacts ==
  ASSUME Sized, NEW o \in Offsets, NEW e \in Events
  PROVE  /\ Start(o, e) \in Offsets
         /\ Taken(o, e) \in Nat /\ Taken(o, e) > 0 /\ Taken(o, e) % Align = 0
         /\ Start(o, e) + AllocSize(e) <= Capacity
<1>1. o \in Nat /\ o < Capacity /\ o % Align = 0 /\ Capacity \in Nat /\ Capacity % Align = 0
      /\ Align \in Nat \ {0}
  BY OffsetFacts, SMT DEF Sized
<1>2. (Capacity - o) % Align = 0 /\ Capacity - o \in Nat
  <2>1. Capacity >= o /\ Capacity - o \in Nat
    BY <1>1, SMT
  <2> QED BY <1>1, <2>1, Multiples, Zenon
<1>3. (AllocSize(e) + (Capacity - o)) % Align = 0
  BY <1>1, <1>2, Sizes, Multiples
<1>4. AllocSize(e) \in Nat /\ AllocSize(e) > 0 /\ AllocSize(e) <= Capacity
      /\ AllocSize(e) % Align = 0
  BY Sizes
<1>5. Start(o, e) \in Offsets
  BY OffsetFacts DEF Start
<1>6. Taken(o, e) % Align = 0
  <2>1. AllocSize(e) + 0 = AllocSize(e)
    BY <1>4, SMT
  <2> QED BY <1>3, <1>4, <2>1, Zenon DEF Taken
<1>7. Taken(o, e) \in Nat /\ Taken(o, e) > 0
  BY <1>1, <1>4, SMT DEF Taken
<1>8. Start(o, e) + AllocSize(e) <= Capacity
  BY <1>1, <1>4, SMT DEF Start, Wraps
<1> QED BY <1>5, <1>6, <1>7, <1>8

LEMMA OnwardIsOffset ==
  ASSUME Sized, NEW o \in Offsets, NEW n \in Nat, n <= Capacity, n % Align = 0
  PROVE  Onward(o, n) \in Offsets
<1>1. o \in Nat /\ o < Capacity /\ o % Align = 0 /\ Capacity \in Nat /\ Capacity % Align = 0
      /\ Align \in Nat \ {0}
  BY OffsetFacts, SMT DEF Sized
<1>2. o + n \in Nat /\ (o + n) % Align = 0
  <2>1. o + n \in Nat
    BY <1>1, SMT
  <2> QED BY <1>1, <2>1, Multiples, Zenon
<1>3. o + n >= Capacity => (o + n - Capacity) % Align = 0
  <2>1. ASSUME NEW a \in Nat, a % Align = 0, a >= Capacity
        PROVE  (a - Capacity) % Align = 0
    BY <1>1, <2>1, Multiples
  <2>2. o + n - Capacity = (o + n) - Capacity
    BY <1>1, SMT
  <2> QED BY <1>2, <2>1, <2>2, Zenon
<1>4. Onward(o, n) \in 0 .. Capacity - 1 /\ Onward(o, n) % Align = 0
  BY <1>1, <1>2, <1>3, SMT DEF Onward
<1> QED BY <1>4, OffsetFacts

\* The offset n bytes ahead of the read pointer is n bytes ahead.
LEMMA AheadOfOnward ==
  ASSUME Sized, read_ptr \in Offsets, NEW n \in Nat, n < Capacity
  PROVE  Ahead(Onward(read_ptr, n)) = n
  BY OffsetFacts, SMT DEF Ahead, Onward, Sized

\* What an entry takes lies between its own distance and its end.
LEMMA Inside ==
  ASSUME Sized, read_ptr \in Offsets, NEW k \in Entries, EndOf(k) <= Capacity
  PROVE  /\ Ahead(k.at) \in Nat /\ EndOf(k) \in Nat /\ Ahead(k.at) < EndOf(k)
         /\ \A x \in Words(k.at, k.event) : Ahead(x) >= Ahead(k.at) /\ Ahead(x) < EndOf(k)
         /\ Start(k.at, k.event) \in Words(k.at, k.event)
<1>1. k.at \in Offsets /\ k.event \in Events
  BY DEF Entries
<1> DEFINE o == k.at
           e == k.event
<1>2. /\ o \in Nat /\ o < Capacity /\ read_ptr \in Nat /\ read_ptr < Capacity /\ Capacity \in Nat
      /\ AllocSize(e) \in Nat /\ AllocSize(e) > 0 /\ Taken(o, e) \in Nat /\ Taken(o, e) > 0
  BY <1>1, OffsetFacts, Sizes, TakenFacts DEF Sized
<1>3. Ahead(o) \in Nat /\ EndOf(k) \in Nat /\ Ahead(o) < EndOf(k)
  BY <1>2, SMT DEF Ahead, EndOf
<1>4. ASSUME NEW x \in Words(o, e)
      PROVE  Ahead(x) >= Ahead(o) /\ Ahead(x) < EndOf(k)
  <2>1. x \in Nat /\ x < Capacity /\ Start(o, e) <= x /\ x < Start(o, e) + AllocSize(e)
    BY OffsetFacts DEF Words
  <2> QED BY <1>2, <2>1, SMT DEF Ahead, EndOf, Start, Taken, Wraps
<1>5. Start(o, e) \in Words(o, e)
  <2>1. Start(o, e) \in Offsets /\ Start(o, e) \in Nat
    BY <1>1, TakenFacts, OffsetFacts, Zenon
  <2>2. Start(o, e) <= Start(o, e) /\ Start(o, e) < Start(o, e) + AllocSize(e)
    BY <1>2, <2>1, SMT
  <2> QED BY <2>1, <2>2, Zenon DEF Words
<1> QED BY <1>3, <1>4, <1>5

\* An entry stays laid when only free words are written.
LEMMA LaidStays ==
  ASSUME Sized, read_ptr \in Offsets, NEW k \in Entries, NEW n \in Nat, n <= Capacity, EndOf(k) <= n,
         NEW mem, Laid(memory, k),
         \A x \in Offsets : Ahead(x) < n => mem[x] = memory[x]
  PROVE  Laid(mem, k)
<1>1. k.at \in Offsets /\ k.event \in Events
  BY DEF Entries
<1>2. Start(k.at, k.event) \in Offsets /\ Words(k.at, k.event) \subseteq Offsets
  BY <1>1, TakenFacts DEF Words
<1>3. EndOf(k) <= Capacity
  <2>1. EndOf(k) \in Int /\ Capacity \in Nat
    BY <1>1, OffsetFacts, TakenFacts, SMT DEF EndOf, Ahead, Sized
  <2> QED BY <2>1, SMT
<1>4. \A x \in Words(k.at, k.event) \cup {k.at} : Ahead(x) < n
  <2>1. \A x \in Words(k.at, k.event) \cup {k.at} : Ahead(x) \in Int /\ Ahead(x) < EndOf(k)
    BY <1>1, <1>2, <1>3, Inside, OffsetFacts, SMT DEF Ahead, Sized
  <2> QED BY <1>3, <2>1, Inside, SMT
<1>5. \A x \in Words(k.at, k.event) \cup {k.at, Start(k.at, k.event)} : mem[x] = memory[x]
  BY <1>1, <1>2, <1>3, <1>4, Inside, Zenon
<1> QED BY <1>5, Zenon DEF Laid
-----------------------------------------------------------------------------
(***************************************************************************)
(* The steps.                                                              *)
(***************************************************************************)
LEMMA RingFacts ==
  ASSUME Sized, Ring
  PROVE  /\ Capacity \in Nat /\ read_ptr \in Offsets /\ write_ptr \in Offsets
         /\ read_ptr \in Nat /\ read_ptr < Capacity /\ write_ptr \in Nat /\ write_ptr < Capacity
         /\ used_size \in Nat /\ popping.size \in Nat /\ popping \in Popping
         /\ popping.size <= used_size
         /\ StillUsed \in Nat /\ StillUsed <= used_size /\ StillUsed <= Capacity
         /\ memory \in [Offsets -> Word]
<1>1. popping \in Popping /\ popping.size \in Nat /\ used_size \in Nat
  BY SMT DEF Ring, TypeOK, Popping
<1>2. read_ptr \in Offsets /\ write_ptr \in Offsets /\ memory \in [Offsets -> Word]
  BY DEF Ring, TypeOK
<1>3. popping.size <= used_size /\ StillUsed <= Capacity
  BY DEF Ring
<1>4. StillUsed \in Nat /\ StillUsed <= used_size
  BY <1>1, <1>3, SMT DEF StillUsed
<1> QED BY <1>1, <1>2, <1>3, <1>4, OffsetFacts, SMT DEF Sized

\* Writing an event leaves it laid, and the words around it as they were.
LEMMA StoredIsLaid ==
  ASSUME Sized, NEW o \in Offsets, NEW e \in Events, NEW mem \in [Offsets -> Word],
         Wraps(o, e) => mem[o]._len = 0 /\ AllocSize(e) <= o
  PROVE  LET new == Stored(mem, Start(o, e), e)
         IN  /\ new \in [Offsets -> Word]
             /\ Laid(new, [at |-> o, event |-> e])
             /\ \A x \in Offsets \ Words(o, e) : new[x] = mem[x]
<1> DEFINE s == Start(o, e)
           new == Stored(mem, s, e)
           word(x) == [_len |-> IF x = s THEN Len_(e) ELSE 1, event |-> e, part |-> (x - s) \div Align]
<1>1. /\ s \in Offsets /\ s \in Nat /\ Len_(e) \in Nat /\ AllocSize(e) \in Nat
      /\ AllocSize(e) > 0
  BY TakenFacts, Sizes, OffsetFacts, Zenon
<1>2. \A x \in Offsets : x \in Nat
  BY OffsetFacts
<1>3. \A x \in Offsets : x \in s .. s + AllocSize(e) - 1 <=> x \in Words(o, e)
  BY <1>1, <1>2, SMT DEF Words
<1>4. /\ \A x \in Words(o, e) : new[x] = word(x)
      /\ \A x \in Offsets \ Words(o, e) : new[x] = mem[x]
      /\ Words(o, e) \subseteq Offsets
  BY <1>3, SMT DEF Stored, Words
<1>5. \A x \in Words(o, e) : new[x] \in Word
  <2>1. ASSUME NEW x \in Words(o, e)
        PROVE  (x - s) \div Align \in Nat
    <3>1. x \in Nat /\ s <= x /\ Align \in Nat \ {0}
      BY <1>2 DEF Words, Sized
    <3> QED BY <1>1, <3>1, SMT
  <2>2. \A x \in Words(o, e) : word(x) \in Word
    BY <1>1, <2>1, SMT DEF Word
  <2> QED BY <1>4, <2>2, Zenon
<1>6. new \in [Offsets -> Word]
  <2>1. DOMAIN mem = Offsets /\ \A x \in Offsets : mem[x] \in Word
    OBVIOUS
  <2>2. \A x \in Offsets : new[x] \in Word
    BY <1>4, <1>5, <2>1, Zenon
  <2>3. new = [x \in Offsets |-> new[x]]
    BY <2>1, Zenon DEF Stored
  <2> HIDE DEF new
  <2> QED BY <2>2, <2>3, Zenon
<1>7. s \in Words(o, e)
  BY <1>1, SMT DEF Words
<1>8. \A x \in Words(o, e) : /\ word(x)._len = IF x = s THEN Len_(e) ELSE 1
                             /\ word(x).event = e /\ word(x).part = (x - s) \div Align
  BY SMT
<1> HIDE DEF new, word
<1>9. new[s]._len = Len_(e)
  BY <1>4, <1>7, <1>8, Zenon
<1>10. \A x \in Words(o, e) : new[x].event = e /\ new[x].part = (x - s) \div Align
  BY <1>4, <1>8, Zenon
<1>11. Wraps(o, e) => new[o]._len = 0
  <2>1. ASSUME Wraps(o, e)
        PROVE  o \notin Words(o, e)
    <3>1. s = 0 /\ AllocSize(e) <= o
      BY <2>1, Zenon DEF Start
    <3> QED BY <1>1, <1>2, <3>1, SMT DEF Words
  <2> QED BY <1>4, <2>1, Zenon
<1>12. Laid(new, [at |-> o, event |-> e])
  <2>1. [at |-> o, event |-> e].at = o /\ [at |-> o, event |-> e].event = e
    OBVIOUS
  <2> QED BY <1>9, <1>10, <1>11, <2>1, Zenon DEF Laid
<1> QED BY <1>4, <1>6, <1>12, Zenon DEF new

LEMMA Pushed ==
  ASSUME Sized, Ring, NEW e \in Events,
         StillUsed + Taken(write_ptr, e) <= Capacity,
         memory' \in [Offsets -> Word],
         Laid(memory', [at |-> write_ptr, event |-> e]),
         \A x \in Offsets : Ahead(x) < StillUsed => memory'[x] = memory[x],
         used_size' = used_size + Taken(write_ptr, e),
         write_ptr' = Onward(write_ptr, Taken(write_ptr, e)),
         overrun' \in BOOLEAN, UNCHANGED <<read_ptr, popping>>
  PROVE  Ring'
<1> DEFINE n == StillUsed
           w == Taken(write_ptr, e)
<1>0. PICK k \in Entries : k = [at |-> write_ptr, event |-> e] /\ k.at = write_ptr /\ k.event = e
  <2>1. [at |-> write_ptr, event |-> e] \in Entries
    BY RingFacts, Zenon DEF Entries
  <2> QED BY <2>1, Zenon
<1>1. PICK Q \in SUBSET Entries : Holds(Q) /\ InHand(Q)
  BY DEF Ring
<1>2. w \in Nat /\ w > 0 /\ w % Align = 0
  BY RingFacts, TakenFacts
<1>3. n \in Nat /\ n + w <= Capacity /\ n < Capacity
  BY <1>2, RingFacts, SMT
<1>4. Ahead(write_ptr) = n
  BY <1>3, RingFacts, AheadOfOnward DEF Ring
<1>5. StillUsed' = n + w
  BY <1>2, RingFacts, SMT DEF StillUsed
<1>6. TypeOK'
  <2>1. w <= Capacity
    BY <1>2, <1>3, RingFacts, SMT
  <2>2. write_ptr' \in Offsets
    BY <1>2, <2>1, RingFacts, OnwardIsOffset
  <2>3. used_size' \in Nat
    BY <1>2, RingFacts, SMT
  <2> QED BY <2>2, <2>3, RingFacts, Zenon DEF TypeOK
<1>7. StillUsed' <= Capacity /\ popping'.size <= used_size'
  BY <1>2, <1>3, <1>5, RingFacts, SMT
<1>8. write_ptr' = Onward(read_ptr', StillUsed')
  <2>1. write_ptr = Onward(read_ptr, n)
    BY DEF Ring
  <2>2. Onward(Onward(read_ptr, n), w) = Onward(read_ptr, n + w)
    BY <1>2, <1>3, RingFacts, SMT DEF Onward
  <2> QED BY <1>5, <2>1, <2>2, Zenon DEF Onward
<1>9. Q \cup {k} \in SUBSET Entries
  BY Zenon
<1>10. k \in Entries /\ k.at = write_ptr /\ k.event = e
  BY <1>0
<1>11. \A j \in Entries : Ahead(j.at)' = Ahead(j.at) /\ EndOf(j)' = EndOf(j)
  BY SMT DEF Ahead, EndOf
<1>12. EndOf(k) = n + w
  BY <1>4, <1>10, Zenon DEF EndOf
<1>13. ASSUME NEW j \in Q
       PROVE  /\ Laid(memory', j)
              /\ EndOf(j) \in Nat /\ EndOf(j) <= n
  <2>1. j \in Entries /\ EndOf(j) <= n /\ Laid(memory, j)
    BY <1>1, Zenon DEF Holds
  <2>2. j.at \in Offsets /\ j.event \in Events
    BY <2>1 DEF Entries
  <2>3. EndOf(j) \in Nat
    BY <2>2, OffsetFacts, TakenFacts, RingFacts, SMT DEF EndOf, Ahead
  <2>4. n <= Capacity
    BY <1>3, RingFacts, SMT
  <2> QED BY <1>3, <2>1, <2>3, <2>4, RingFacts, LaidStays, Zenon
<1> HIDE DEF n, w
<1>14. \A j \in Q \cup {k} : EndOf(j)' <= StillUsed' /\ Laid(memory', j)
  <2>1. \A j \in Q : EndOf(j)' <= StillUsed' /\ Laid(memory', j)
    <3>1. \A j \in Q : EndOf(j)' = EndOf(j)
      BY <1>11, Zenon
    <3> QED BY <1>2, <1>3, <1>5, <1>13, <3>1, SMT
  <2>2. EndOf(k)' <= StillUsed' /\ Laid(memory', k)
    <3>1. EndOf(k)' = n + w
      BY <1>10, <1>11, <1>12, Zenon
    <3>2. n + w <= n + w
      BY <1>2, <1>3, SMT
    <3>3. Laid(memory', k)
      BY <1>0, Zenon
    <3> QED BY <1>5, <3>1, <3>2, <3>3, Zenon
  <2> QED BY <2>1, <2>2, Zenon
<1>15. \E j \in Q \cup {k} : j.at = read_ptr'
  <2>1. CASE n > 0
    BY <1>1, <2>1, Zenon DEF Holds, n
  <2>2. CASE n = 0
    <3>1. write_ptr = read_ptr
      BY <2>2, RingFacts, SMT DEF Ring, Onward, n
    <3> QED BY <1>10, <3>1, Zenon
  <2> QED BY <1>3, <2>1, <2>2, SMT
<1>16. ASSUME NEW j \in Q \cup {k}, EndOf(j)' < StillUsed'
       PROVE  \E i \in Q \cup {k} : Ahead(i.at)' = EndOf(j)'
  <2>1. CASE j \in Q
    <3>1. EndOf(j)' = EndOf(j) /\ EndOf(j) \in Nat /\ EndOf(j) <= n
      BY <1>11, <1>13, <2>1, Zenon
    <3>2. CASE EndOf(j) < n
      <4>1. \E i \in Q : Ahead(i.at) = EndOf(j)
        BY <1>1, <2>1, <3>2, Zenon DEF Holds, n
      <4> QED BY <1>11, <3>1, <4>1, Zenon
    <3>3. CASE EndOf(j) = n
      BY <1>4, <1>10, <1>11, <3>1, <3>3, Zenon DEF n
    <3> QED BY <1>3, <3>1, <3>2, <3>3, SMT
  <2>2. CASE j = k
    <3>1. EndOf(j)' = n + w
      BY <1>10, <1>11, <1>12, <2>2, Zenon
    <3>2. ~(n + w < n + w)
      BY <1>2, <1>3, SMT
    <3> QED BY <1>5, <1>16, <3>1, <3>2, Zenon
  <2> QED BY <2>1, <2>2, Zenon
<1>17. Holds(Q \cup {k})'
  BY <1>9, <1>14, <1>15, <1>16, Zenon DEF Holds
<1>18. InHand(Q \cup {k})'
  <2>1. popping' = popping /\ read_ptr' = read_ptr
    OBVIOUS
  <2>2. \A j \in Q : Taken(j.at, j.event)' = Taken(j.at, j.event)
    BY Zenon DEF Taken, Wraps, AllocSize, Len_, RoundUp
  <2> QED BY <1>1, <2>1, <2>2, Zenon DEF InHand
<1> QED BY <1>6, <1>7, <1>8, <1>9, <1>17, <1>18, Zenon DEF Ring

\* The words written next are not among those that are used.
LEMMA Free ==
  ASSUME Sized, Ring, NEW e \in Events, StillUsed + Taken(write_ptr, e) <= Capacity
  PROVE  /\ Ahead(write_ptr) = StillUsed
         /\ \A x \in Words(write_ptr, e) \cup {write_ptr} : ~(Ahead(x) < StillUsed)
<1>0. PICK k \in Entries : k.at = write_ptr /\ k.event = e
  <2>1. [at |-> write_ptr, event |-> e] \in Entries
    BY RingFacts, Zenon DEF Entries
  <2> QED BY <2>1, Zenon
<1>1. Taken(write_ptr, e) \in Nat /\ Taken(write_ptr, e) > 0
  BY RingFacts, TakenFacts
<1>2. StillUsed < Capacity /\ StillUsed \in Nat /\ StillUsed + Taken(write_ptr, e) <= Capacity
  BY <1>1, RingFacts, SMT
<1>3. Ahead(write_ptr) = StillUsed
  BY <1>2, RingFacts, AheadOfOnward, Zenon DEF Ring
<1>4. EndOf(k) <= Capacity
  BY <1>0, <1>2, <1>3, Zenon DEF EndOf
<1>5. \A x \in Words(write_ptr, e) : Ahead(x) >= StillUsed
  BY <1>0, <1>3, <1>4, RingFacts, Inside, Zenon
<1>6. \A x \in Words(write_ptr, e) : Ahead(x) \in Int
  BY RingFacts, OffsetFacts, SMT DEF Ahead, Words
<1>7. ASSUME NEW x \in Words(write_ptr, e)
      PROVE  ~(Ahead(x) < StillUsed)
  <2>1. Ahead(x) \in Int /\ Ahead(x) >= StillUsed
    BY <1>5, <1>6
  <2> QED BY <1>2, <2>1, SMT
<1>8. ~(Ahead(write_ptr) < StillUsed)
  BY <1>2, <1>3, SMT
<1> QED BY <1>3, <1>7, <1>8, Zenon

LEMMA MarkedFacts ==
  ASSUME Sized, Ring
  PROVE  /\ Marked \in [Offsets -> Word] /\ Marked[write_ptr]._len = 0
         /\ \A x \in Offsets \ {write_ptr} : Marked[x] = memory[x]
<1>1. write_ptr \in Offsets /\ memory \in [Offsets -> Word]
  BY RingFacts
<1>2. [memory[write_ptr] EXCEPT !._len = 0] \in Word
      /\ [memory[write_ptr] EXCEPT !._len = 0]._len = 0
  BY <1>1, SMT DEF Word
<1>3. Marked = [memory EXCEPT ![write_ptr] = [memory[write_ptr] EXCEPT !._len = 0]]
  BY Zenon DEF Marked
<1> QED BY <1>1, <1>2, <1>3, SMT

LEMMA OverrunTyped ==
  ASSUME NEW n, Overruns(n)
  PROVE  overrun' \in BOOLEAN
  BY SMT DEF Overruns

LEMMA PushAtEndKeeps ==
  ASSUME Sized, Ring, NEW e \in Events, PushAtEnd(e), ~overrun'
  PROVE  Ring'
<1>1. ~Wraps(write_ptr, e)
  BY RingFacts, Sizes, SMT DEF PushAtEnd, WrapsFor, Wraps, Tail_
<1>2. Start(write_ptr, e) = write_ptr /\ Taken(write_ptr, e) = AllocSize(e)
  BY <1>1, Sizes, SMT DEF Start, Taken
<1>3. StillUsed + Taken(write_ptr, e) <= Capacity
  <2>1. ~(StillUsed + AllocSize(e) > Capacity)
    BY Zenon DEF PushAtEnd, Overruns
  <2> QED BY <1>2, <2>1, RingFacts, Sizes, SMT
<1>4. memory' = Stored(memory, Start(write_ptr, e), e)
  BY <1>2, Zenon DEF PushAtEnd, Written
<1>5. /\ memory' \in [Offsets -> Word]
      /\ Laid(memory', [at |-> write_ptr, event |-> e])
      /\ \A x \in Offsets \ Words(write_ptr, e) : memory'[x] = memory[x]
  BY <1>1, <1>4, RingFacts, StoredIsLaid, Zenon
<1>6. \A x \in Offsets : Ahead(x) < StillUsed => memory'[x] = memory[x]
  BY <1>3, <1>5, Free, Zenon
<1>7. /\ used_size' = used_size + Taken(write_ptr, e)
      /\ write_ptr' = Onward(write_ptr, Taken(write_ptr, e))
      /\ overrun' \in BOOLEAN /\ UNCHANGED <<read_ptr, popping>>
  BY <1>2, OverrunTyped, Zenon DEF PushAtEnd, Written, Onward
<1> QED BY <1>3, <1>5, <1>6, <1>7, Pushed, Zenon

LEMMA PushWrappedKeeps ==
  ASSUME Sized, Ring, NEW e \in Events, PushWrapped(e), ~overrun'
  PROVE  Ring'
<1>1. Wraps(write_ptr, e)
  BY RingFacts, Sizes, SMT DEF PushWrapped, WrapsFor, Wraps, Tail_
<1>2. Start(write_ptr, e) = 0 /\ Taken(write_ptr, e) = AllocSize(e) + Tail_
  BY <1>1, Sizes, SMT DEF Start, Taken, Tail_
<1>3. StillUsed + Taken(write_ptr, e) <= Capacity /\ AllocSize(e) <= write_ptr
  <2>1. ~(StillUsed + (AllocSize(e) + Tail_) > Capacity)
    BY Zenon DEF PushWrapped, Overruns
  <2> QED BY <1>2, <2>1, RingFacts, Sizes, SMT DEF Tail_
<1>4. memory' = Stored(Marked, Start(write_ptr, e), e)
  BY <1>2, Zenon DEF PushWrapped, Written
<1>5. /\ memory' \in [Offsets -> Word]
      /\ Laid(memory', [at |-> write_ptr, event |-> e])
      /\ \A x \in Offsets \ Words(write_ptr, e) : memory'[x] = Marked[x]
  BY <1>3, <1>4, RingFacts, MarkedFacts, StoredIsLaid, Zenon
<1>6. \A x \in Offsets : Ahead(x) < StillUsed => memory'[x] = memory[x]
  BY <1>3, <1>5, Free, MarkedFacts, Zenon
<1>7. /\ used_size' = used_size + Taken(write_ptr, e)
      /\ write_ptr' = Onward(write_ptr, Taken(write_ptr, e))
      /\ overrun' \in BOOLEAN /\ UNCHANGED <<read_ptr, popping>>
  BY <1>2, OverrunTyped, Zenon DEF PushWrapped, Written, Onward
<1> QED BY <1>3, <1>5, <1>6, <1>7, Pushed, Zenon

\* Only the words that are free change: what is in the ring stays.
LEMMA PushRefusedKeeps ==
  ASSUME Sized, Ring, NEW e \in Events, PushRefused(e), ~overrun'
  PROVE  Ring'
<1>1. PICK Q \in SUBSET Entries : Holds(Q) /\ InHand(Q)
  BY DEF Ring
<1>2. UNCHANGED <<read_ptr, write_ptr, used_size, popping>> /\ memory' = Marked
  BY DEF PushRefused
<1>3. StillUsed < Capacity
  <2>1. ~(StillUsed + 1 > Capacity)
    BY Zenon DEF PushRefused, Overruns
  <2> QED BY <2>1, RingFacts, SMT
<1>4. Ahead(write_ptr) = StillUsed
  BY <1>3, RingFacts, AheadOfOnward, Zenon DEF Ring
<1>5. \A x \in Offsets : Ahead(x) < StillUsed => memory'[x] = memory[x]
  <2>1. ~(Ahead(write_ptr) < StillUsed)
    BY <1>4, RingFacts, SMT
  <2> QED BY <1>2, <2>1, MarkedFacts, Zenon
<1>6. \A k \in Q : Laid(memory', k)
  <2>1. StillUsed \in Nat /\ StillUsed <= Capacity
    BY RingFacts, SMT
  <2>2. \A k \in Q : k \in Entries /\ EndOf(k) <= StillUsed /\ Laid(memory, k)
    BY <1>1, Zenon DEF Holds
  <2> QED BY <1>5, <2>1, <2>2, RingFacts, LaidStays, Zenon
<1>7. Holds(Q)' /\ InHand(Q)'
  <2>1. StillUsed' = StillUsed /\ read_ptr' = read_ptr
        /\ \A k \in Q : EndOf(k)' = EndOf(k) /\ Ahead(k.at)' = Ahead(k.at)
    BY <1>2, Zenon DEF StillUsed, EndOf, Ahead
  <2>2. \A k \in Q : Taken(k.at, k.event)' = Taken(k.at, k.event)
    BY Zenon DEF Taken, Wraps, AllocSize, Len_, RoundUp
  <2>3. Holds(Q)'
    BY <1>1, <1>6, <2>1, Zenon DEF Holds
  <2>4. InHand(Q)'
    BY <1>1, <1>2, <2>2, Zenon DEF InHand
  <2> QED BY <2>3, <2>4
<1>8. TypeOK'
  <2>1. overrun' \in BOOLEAN
    BY OverrunTyped, Zenon DEF PushRefused
  <2> QED BY <1>2, <2>1, MarkedFacts, RingFacts, Zenon DEF TypeOK
<1> QED BY <1>2, <1>7, <1>8, Zenon DEF Ring, StillUsed, Onward

-----------------------------------------------------------------------------
\* What the main loop reads of the entry at the read pointer.
LEMMA HeadFacts ==
  ASSUME Sized, Ring, NEW k \in Entries, k.at = read_ptr, Laid(memory, k)
  PROVE  /\ EventAt = Start(k.at, k.event)
         /\ memory[EventAt].event = k.event
         /\ PoppingSize = Taken(k.at, k.event)
<1> DEFINE e == k.event
<1>1. e \in Events /\ read_ptr \in Offsets
  BY RingFacts DEF Entries
<1>2. Len_(e) \in Nat /\ Len_(e) > 0
  BY <1>1, Sizes
<1>3. Start(read_ptr, e) \in Words(read_ptr, e)
  <2>1. Start(read_ptr, e) \in Offsets /\ Start(read_ptr, e) \in Nat
    BY <1>1, TakenFacts, OffsetFacts, Zenon
  <2>2. Start(read_ptr, e) <= Start(read_ptr, e)
        /\ Start(read_ptr, e) < Start(read_ptr, e) + AllocSize(e)
    BY <1>1, <2>1, Sizes, SMT
  <2> QED BY <2>1, <2>2, Zenon DEF Words
<1>4. CASE Wraps(read_ptr, e)
  <2>1. memory[read_ptr]._len = 0 /\ memory[0]._len = Len_(e) /\ Start(read_ptr, e) = 0
    BY <1>4, Zenon DEF Laid, Start
  <2>2. EventAt = 0
    BY <2>1, SMT DEF EventAt
  <2>3. memory[0].event = e
    BY <1>3, <2>1, Zenon DEF Laid
  <2>4. PoppingSize = RoundUp(Capacity - read_ptr + Len_(e))
    BY <2>1, SMT DEF PoppingSize
  <2>5. Capacity - read_ptr \in Nat /\ (Capacity - read_ptr) % Align = 0
    <3>1. /\ read_ptr \in Nat /\ read_ptr < Capacity /\ read_ptr % Align = 0
          /\ Capacity \in Nat /\ Capacity % Align = 0 /\ Align \in Nat \ {0}
      BY <1>1, OffsetFacts, SMT DEF Sized
    <3>2. Capacity >= read_ptr /\ Capacity - read_ptr \in Nat
      BY <3>1, SMT
    <3> QED BY <3>1, <3>2, Multiples, Zenon
  <2>6. PoppingSize = (Capacity - read_ptr) + AllocSize(e)
    BY <1>2, <2>4, <2>5, RoundedSum, Zenon DEF AllocSize
  <2>7. PoppingSize = Taken(read_ptr, e)
    BY <1>1, <1>4, <2>5, <2>6, Sizes, SMT DEF Taken
  <2> QED BY <2>1, <2>2, <2>3, <2>7, Zenon
<1>5. CASE ~Wraps(read_ptr, e)
  <2>1. memory[read_ptr]._len = Len_(e) /\ Start(read_ptr, e) = read_ptr
    BY <1>5, Zenon DEF Laid, Start
  <2>2. memory[read_ptr]._len > 0
    BY <1>2, <2>1, SMT
  <2>3. EventAt = read_ptr /\ PoppingSize = AllocSize(e)
    BY <2>1, <2>2, Zenon DEF EventAt, PoppingSize, AllocSize
  <2>4. memory[read_ptr].event = e
    BY <1>3, <2>1, Zenon DEF Laid
  <2>5. Taken(read_ptr, e) = AllocSize(e)
    BY <1>1, <1>5, Sizes, SMT DEF Taken
  <2> QED BY <2>1, <2>3, <2>4, <2>5, Zenon
<1> QED BY <1>4, <1>5

LEMMA CallCallbackKeeps ==
  ASSUME Sized, Ring, CallCallback
  PROVE  Ring'
<1>1. PICK Q \in SUBSET Entries : Holds(Q) /\ InHand(Q)
  BY DEF Ring
<1>2. /\ popping.at = "idle" /\ used_size > 0
      /\ UNCHANGED <<memory, read_ptr, write_ptr, used_size, overrun>>
      /\ popping' = [at |-> "callback", event |-> memory[EventAt].event, size |-> PoppingSize]
  BY DEF CallCallback
<1>3. StillUsed = used_size /\ StillUsed > 0
  BY <1>2, SMT DEF StillUsed
<1>4. PICK k \in Q : k.at = read_ptr
  BY <1>1, <1>3, Zenon DEF Holds
<1>5. k \in Entries /\ Laid(memory, k) /\ EndOf(k) <= StillUsed
  BY <1>1, <1>4, Zenon DEF Holds
<1>6. popping' = [at |-> "callback", event |-> k.event, size |-> Taken(k.at, k.event)]
  BY <1>2, <1>4, <1>5, HeadFacts, Zenon
<1>7. /\ k.event \in Events /\ Taken(k.at, k.event) \in Nat
      /\ Taken(k.at, k.event) <= used_size
  <2>1. k.event \in Events /\ k.at \in Offsets
    BY <1>5 DEF Entries
  <2>2. Ahead(k.at) = 0
    BY <1>4, RingFacts, SMT DEF Ahead
  <2>3. Taken(k.at, k.event) \in Nat
    BY <2>1, TakenFacts
  <2> QED BY <1>3, <1>5, <2>1, <2>2, <2>3, RingFacts, SMT DEF EndOf
<1>8. /\ popping'.at = "callback" /\ popping'.event = k.event
      /\ popping'.size = Taken(k.at, k.event) /\ popping' \in Popping
  BY <1>6, <1>7, SMT DEF Popping
<1>9. StillUsed' = StillUsed
  BY <1>2, <1>3, <1>8, SMT DEF StillUsed
<1>10. \A j \in Q : EndOf(j)' = EndOf(j) /\ Ahead(j.at)' = Ahead(j.at)
  BY <1>2, Zenon DEF EndOf, Ahead, Taken, Wraps, AllocSize, Len_, RoundUp
<1>11. Holds(Q)'
  <2>1. /\ Q \subseteq Entries
        /\ \A j \in Q : EndOf(j) <= StillUsed /\ Laid(memory, j)
        /\ StillUsed > 0 => \E j \in Q : j.at = read_ptr
        /\ \A j \in Q : EndOf(j) < StillUsed => \E i \in Q : Ahead(i.at) = EndOf(j)
    BY <1>1, Zenon DEF Holds
  <2>2. \A j \in Q : EndOf(j)' <= StillUsed' /\ Laid(memory', j)
    BY <1>2, <1>9, <1>10, <2>1, Zenon
  <2>3. StillUsed' > 0 => \E j \in Q : j.at = read_ptr'
    BY <1>2, <1>9, <2>1, Zenon
  <2>4. ASSUME NEW j \in Q, EndOf(j)' < StillUsed'
        PROVE  \E i \in Q : Ahead(i.at)' = EndOf(j)'
    <3>1. EndOf(j) < StillUsed
      BY <1>9, <1>10, <2>4, Zenon
    <3>2. PICK i \in Q : Ahead(i.at) = EndOf(j)
      BY <2>1, <3>1, Zenon
    <3> QED BY <1>10, <3>2, Zenon
  <2> QED BY <2>1, <2>2, <2>3, <2>4, Zenon DEF Holds
<1>12. InHand(Q)'
  <2>1. popping'.at # "idle"
    BY <1>8, SMT
  <2>2. \A j \in Q : Taken(j.at, j.event)' = Taken(j.at, j.event)
    BY Zenon DEF Taken, Wraps, AllocSize, Len_, RoundUp
  <2> QED BY <1>2, <1>4, <1>8, <2>1, <2>2, Zenon DEF InHand
<1>13. TypeOK'
  <2>1. overrun' \in BOOLEAN
    BY <1>2, Zenon DEF Ring, TypeOK
  <2>2. memory' \in [Offsets -> Word] /\ read_ptr' \in Offsets /\ write_ptr' \in Offsets
        /\ used_size' \in Nat
    BY <1>2, RingFacts, Zenon
  <2> QED BY <1>8, <2>1, <2>2, Zenon DEF TypeOK
<1>14. write_ptr' = Onward(read_ptr', StillUsed')
  BY <1>2, <1>9, Zenon DEF Ring, Onward
<1>15. StillUsed' <= Capacity
  BY <1>9, Zenon DEF Ring
<1> QED BY <1>2, <1>7, <1>8, <1>11, <1>12, <1>13, <1>14, <1>15, Zenon DEF Ring

\* The head is gone, and all that follows is so much closer to the read pointer.
LEMMA AdvanceKeeps ==
  ASSUME Sized, Ring, Advance
  PROVE  Ring'
<1>1. PICK Q \in SUBSET Entries : Holds(Q) /\ InHand(Q)
  BY DEF Ring
<1>2. /\ popping.at = "callback" /\ UNCHANGED <<memory, write_ptr, used_size, overrun>>
      /\ popping' = [popping EXCEPT !.at = "advanced", !.event = NoEvent]
      /\ read_ptr' = Onward(read_ptr, popping.size)
  BY Zenon DEF Advance, Onward
<1>3. PICK k \in Q : /\ k.at = read_ptr /\ k.event = popping.event
                     /\ popping.size = Taken(k.at, k.event)
  BY <1>1, <1>2, Zenon DEF InHand
<1>4. StillUsed = used_size
  BY <1>2, SMT DEF StillUsed
<1>5. PICK s \in Nat : s = popping.size
  BY RingFacts
<1>6. PICK n \in Nat : n = StillUsed
  BY RingFacts
<1>7. /\ popping' \in Popping /\ popping'.at = "advanced" /\ popping'.size = s
  <2>1. ASSUME NEW x \in Popping, NEW z, z = [x EXCEPT !.at = "advanced", !.event = NoEvent]
        PROVE  z \in Popping /\ z.at = "advanced" /\ z.size = x.size
    BY <2>1, ZenonT(60) DEF Popping
  <2> QED BY <1>2, <1>5, <2>1, RingFacts, Zenon
<1>8. s > 0 /\ s <= n /\ n <= Capacity /\ s % Align = 0
  <2>1. k \in Entries
    BY <1>1
  <2>2. k.at \in Offsets /\ k.event \in Events
    BY <2>1 DEF Entries
  <2>3. s > 0 /\ s % Align = 0
    BY <1>3, <1>5, <2>2, TakenFacts, Zenon
  <2> QED BY <1>4, <1>5, <1>6, <2>3, RingFacts, Zenon
<1>9. StillUsed' = n - s
  BY <1>2, <1>4, <1>6, <1>7, SMT DEF StillUsed
<1>10. read_ptr' \in Offsets
  <2>1. s <= Capacity
    BY <1>8, RingFacts, SMT
  <2> QED BY <1>2, <1>5, <1>8, <2>1, RingFacts, OnwardIsOffset, Zenon
<1>11. ASSUME NEW j \in Q
       PROVE  /\ j \in Entries /\ Laid(memory, j) /\ EndOf(j) <= n
              /\ Ahead(j.at) \in Nat /\ Ahead(j.at) < Capacity /\ j.at \in Nat /\ j.at < Capacity
              /\ EndOf(j) \in Nat /\ Taken(j.at, j.event) \in Nat
              /\ EndOf(j) = Ahead(j.at) + Taken(j.at, j.event)
  <2>1. j \in Entries /\ Laid(memory, j) /\ EndOf(j) <= n
    BY <1>1, <1>6, Zenon DEF Holds
  <2>2. j.at \in Offsets /\ Taken(j.at, j.event) \in Nat
    BY <2>1, TakenFacts DEF Entries
  <2>3. j.at \in Nat /\ j.at < Capacity
    BY <2>2, OffsetFacts
  <2>4. Ahead(j.at) \in Nat /\ Ahead(j.at) < Capacity
    BY <2>3, RingFacts, SMT DEF Ahead
  <2>5. EndOf(j) \in Nat
    BY <2>2, <2>4, SMT DEF EndOf
  <2> QED BY <2>1, <2>2, <2>3, <2>4, <2>5 DEF EndOf
<1> DEFINE R == {j \in Q : Ahead(j.at) >= s}
<1>12. PICK S : S = R
  OBVIOUS
<1>13. ASSUME NEW j \in S
       PROVE  /\ j \in Q /\ Ahead(j.at) >= s
              /\ Ahead(j.at)' = Ahead(j.at) - s /\ EndOf(j)' = EndOf(j) - s
  <2>1. j \in Q /\ Ahead(j.at) >= s
    BY <1>12
  <2>2. read_ptr' = IF read_ptr + s >= Capacity THEN read_ptr + s - Capacity ELSE read_ptr + s
    BY <1>2, <1>5, Zenon DEF Onward
  <2>3. (Ahead(j.at))' = IF j.at >= read_ptr' THEN j.at - read_ptr' ELSE j.at - read_ptr' + Capacity
    BY Zenon DEF Ahead
  <2>4. Ahead(j.at)' = Ahead(j.at) - s
    <3>1. Ahead(j.at) = IF j.at >= read_ptr THEN j.at - read_ptr ELSE j.at - read_ptr + Capacity
      BY Zenon DEF Ahead
    <3> QED BY <1>8, <1>11, <2>1, <2>2, <2>3, <3>1, RingFacts, SMT
  <2>5. EndOf(j)' = Ahead(j.at)' + Taken(j.at, j.event)
    BY Zenon DEF EndOf, Taken, Wraps, AllocSize, Len_, RoundUp
  <2>6. EndOf(j)' = EndOf(j) - s
    BY <1>11, <2>1, <2>4, <2>5, SMT
  <2> QED BY <2>1, <2>4, <2>6
<1>14. \A j \in S : EndOf(j)' <= StillUsed' /\ Laid(memory', j)
  <2>1. \A j \in S : EndOf(j) - s <= n - s
    BY <1>11, <1>13, SMT
  <2> QED BY <1>2, <1>9, <1>11, <1>13, <2>1, Zenon
<1>15. StillUsed' > 0 => \E j \in S : j.at = read_ptr'
  <2>1. SUFFICES ASSUME n - s > 0
                 PROVE  \E j \in S : j.at = read_ptr'
    BY <1>9, Zenon
  <2>2. EndOf(k) = s
    <3>1. Ahead(k.at) = 0
      BY <1>3, RingFacts, SMT DEF Ahead
    <3> QED BY <1>3, <1>5, <3>1, SMT DEF EndOf
  <2>3. s < n
    BY <2>1, SMT
  <2>4. PICK j \in Q : Ahead(j.at) = s
    BY <1>1, <1>3, <1>6, <2>2, <2>3, Zenon DEF Holds
  <2>5. j \in S
    <3>1. s >= s
      BY SMT
    <3> QED BY <1>12, <2>4, <3>1, Zenon
  <2>6. j.at = Onward(read_ptr, s)
    BY <1>8, <1>11, <2>4, RingFacts, SMT DEF Ahead, Onward
  <2> QED BY <1>2, <1>5, <2>5, <2>6, Zenon
<1>16. ASSUME NEW j \in S, EndOf(j)' < StillUsed'
       PROVE  \E i \in S : Ahead(i.at)' = EndOf(j)'
  <2>1. j \in Q /\ EndOf(j)' = EndOf(j) - s /\ Ahead(j.at) >= s
    BY <1>13
  <2>2. EndOf(j) < n
    BY <1>9, <1>11, <1>16, <2>1, SMT
  <2>3. PICK i \in Q : Ahead(i.at) = EndOf(j)
    BY <1>1, <1>6, <2>1, <2>2, Zenon DEF Holds
  <2>4. Ahead(i.at) >= s
    BY <1>11, <2>1, <2>3, SMT
  <2>5. i \in S
    BY <1>12, <2>4
  <2> QED BY <1>13, <2>1, <2>3, <2>5, Zenon
<1>17. S \in SUBSET Entries
  BY <1>12
<1>18. Holds(S)'
  BY <1>14, <1>15, <1>16, <1>17, Zenon DEF Holds, Entries
<1>19. InHand(S)'
  <2>1. popping'.at # "callback" /\ popping'.at # "idle"
    BY <1>7, SMT
  <2> QED BY <2>1, Zenon DEF InHand
<1>20. TypeOK'
  BY <1>2, <1>7, <1>10, RingFacts, Zenon DEF TypeOK, Ring
<1>21. write_ptr' = Onward(read_ptr', StillUsed')
  <2>1. write_ptr' = Onward(read_ptr, n)
    BY <1>2, <1>6, Zenon DEF Ring
  <2>2. Onward(Onward(read_ptr, s), n - s) = Onward(read_ptr, n)
    BY <1>8, RingFacts, SMT DEF Onward
  <2> QED BY <1>2, <1>5, <1>9, <2>1, <2>2, Zenon DEF Onward
<1>22. StillUsed' <= Capacity /\ popping'.size <= used_size'
  <2>1. n - s <= Capacity
    BY <1>6, <1>8, RingFacts, SMT
  <2> QED BY <1>2, <1>5, <1>7, <1>9, <2>1, RingFacts, Zenon
<1> QED BY <1>17, <1>18, <1>19, <1>20, <1>21, <1>22, Zenon DEF Ring

LEMMA GiveBackKeeps ==
  ASSUME Sized, Ring, GiveBack
  PROVE  Ring'
<1>1. PICK Q \in SUBSET Entries : Holds(Q) /\ InHand(Q)
  BY DEF Ring
<1>2. /\ popping.at = "advanced" /\ UNCHANGED <<memory, read_ptr, write_ptr, overrun>>
      /\ used_size' = used_size - popping.size /\ popping' = NotPopping
  BY DEF GiveBack
<1>3. /\ popping' \in Popping /\ popping'.at = "idle" /\ popping'.size = 0
  BY <1>2, SMT DEF NotPopping, Popping
<1>4. StillUsed' = StillUsed /\ used_size' = StillUsed
  BY <1>2, <1>3, SMT DEF StillUsed
<1>5. /\ \A j \in Q : EndOf(j)' = EndOf(j) /\ Ahead(j.at)' = Ahead(j.at)
  BY <1>2, Zenon DEF EndOf, Ahead, Taken, Wraps, AllocSize, Len_, RoundUp
<1>6. Holds(Q)'
  BY <1>1, <1>2, <1>4, <1>5, Zenon DEF Holds
<1>7. InHand(Q)'
  <2>1. popping'.at # "callback"
    BY <1>3, SMT
  <2> QED BY <1>3, <2>1, Zenon DEF InHand
<1>8. used_size' \in Nat /\ StillUsed' <= Capacity /\ popping'.size <= used_size'
  BY <1>3, <1>4, RingFacts, SMT
<1>9. TypeOK'
  BY <1>2, <1>3, <1>8, RingFacts, Zenon DEF TypeOK, Ring
<1>10. write_ptr' = Onward(read_ptr', StillUsed')
  BY <1>2, <1>4, Zenon DEF Ring, Onward
<1> QED BY <1>6, <1>7, <1>8, <1>9, <1>10, Zenon DEF Ring

-----------------------------------------------------------------------------
LEMMA RingAtStart ==
  ASSUME Sized, Init
  PROVE  Ring
<1>1. /\ memory = [o \in Offsets |-> [_len |-> 0, event |-> NoEvent, part |-> 0]]
      /\ read_ptr = 0 /\ write_ptr = 0 /\ used_size = 0
      /\ popping = NotPopping /\ overrun = FALSE
  BY DEF Init
<1>2. popping \in Popping /\ popping.at = "idle" /\ popping.size = 0
  BY <1>1, SMT DEF NotPopping, Popping
<1>3. memory \in [Offsets -> Word]
  <2>1. [_len |-> 0, event |-> NoEvent, part |-> 0] \in Word
    BY SMT DEF Word
  <2> QED BY <1>1, <2>1, Zenon
<1>4. TypeOK
  <2>1. 0 \in Nat
    BY SMT
  <2> QED BY <1>1, <1>2, <1>3, <2>1, OffsetFacts, Zenon DEF TypeOK
<1>5. StillUsed = 0
  BY <1>1, <1>2, SMT DEF StillUsed
<1>6. write_ptr = Onward(read_ptr, StillUsed)
  BY <1>1, <1>5, SMT DEF Onward, Sized
<1>7. Holds({}) /\ InHand({})
  <2>1. ~(StillUsed > 0) /\ popping.at # "callback"
    BY <1>2, <1>5, SMT
  <2> QED BY <1>2, <2>1, Zenon DEF Holds, InHand
<1>8. StillUsed <= Capacity /\ popping.size <= used_size
  BY <1>1, <1>2, <1>5, SMT DEF Sized
<1> QED BY <1>4, <1>6, <1>7, <1>8, Zenon DEF Ring

\* An event that is written is written into the buffer, free words or not.
LEMMA PushTyped ==
  ASSUME Sized, Ring, NEW e \in Events, TryPush(e)
  PROVE  TypeOK'
<1>1. /\ read_ptr' \in Offsets /\ popping' \in Popping /\ overrun' \in BOOLEAN
  BY RingFacts, OverrunTyped, Zenon DEF TryPush, PushAtEnd, PushWrapped, PushRefused
<1>2. ASSUME NEW o \in Offsets, NEW mem \in [Offsets -> Word]
      PROVE  Stored(mem, o, e) \in [Offsets -> Word]
  <2>1. Len_(e) \in Nat /\ o \in Nat /\ Align \in Nat \ {0} /\ AllocSize(e) \in Nat
    BY Sizes, OffsetFacts DEF Sized
  <2>2. ASSUME NEW x \in Offsets, x \in o .. o + AllocSize(e) - 1
        PROVE  [_len |-> IF x = o THEN Len_(e) ELSE 1, event |-> e, part |-> (x - o) \div Align]
                 \in Word
    <3>1. x - o \in Nat
      BY <2>1, <2>2, OffsetFacts, SMT
    <3>2. (x - o) \div Align \in Nat
      BY <2>1, <3>1, SMT
    <3> QED BY <2>1, <3>2, SMT DEF Word
  <2> QED BY <2>2, Zenon DEF Stored
<1>3. ASSUME PushAtEnd(e)
      PROVE  memory' \in [Offsets -> Word] /\ write_ptr' \in Offsets /\ used_size' \in Nat
  <2>1. /\ memory' = Stored(memory, write_ptr, e) /\ used_size' = used_size + AllocSize(e)
        /\ write_ptr' = Onward(write_ptr, AllocSize(e))
    BY <1>3, Zenon DEF PushAtEnd, Written, Onward
  <2>2. AllocSize(e) <= Capacity
    BY Sizes, RingFacts, SMT
  <2>3. used_size' \in Nat
    BY <2>1, Sizes, RingFacts, SMT
  <2> QED BY <1>2, <2>1, <2>2, <2>3, Sizes, RingFacts, OnwardIsOffset, Zenon
<1>4. ASSUME PushWrapped(e)
      PROVE  memory' \in [Offsets -> Word] /\ write_ptr' \in Offsets /\ used_size' \in Nat
  <2>1. /\ memory' = Stored(Marked, 0, e) /\ used_size' = used_size + (AllocSize(e) + Tail_)
        /\ write_ptr' = Onward(write_ptr, AllocSize(e) + Tail_)
    BY <1>4, Zenon DEF PushWrapped, Written, Onward
  <2>2. write_ptr' = AllocSize(e) /\ used_size' \in Nat
    BY <2>1, Sizes, RingFacts, SMT DEF Onward, Tail_
  <2>3. AllocSize(e) \in Offsets
    <3>1. AllocSize(e) \in 0 .. Capacity - 1
      BY Sizes, RingFacts, SMT
    <3> QED BY <3>1, Sizes, OffsetFacts, Zenon
  <2> QED BY <1>2, <2>1, <2>2, <2>3, MarkedFacts, OffsetFacts, Zenon
<1>5. ASSUME PushRefused(e)
      PROVE  memory' \in [Offsets -> Word] /\ write_ptr' \in Offsets /\ used_size' \in Nat
  BY <1>5, MarkedFacts, RingFacts, Zenon DEF PushRefused
<1> QED BY <1>1, <1>3, <1>4, <1>5, Zenon DEF TryPush, TypeOK

\* The inductive invariant.
Kept == TypeOK /\ (overrun \/ Ring)

LEMMA RingKept ==
  ASSUME Sized, Kept, [Next]_vars
  PROVE  Kept'
<1>1. ASSUME NEW e \in Events, TryPush(e)
      PROVE  Kept'
  <2>1. Ring
    BY <1>1, Zenon DEF TryPush, Kept
  <2> QED BY <1>1, <2>1, PushTyped, PushAtEndKeeps, PushWrappedKeeps, PushRefusedKeeps, Zenon
          DEF TryPush, Kept
<1>2. CASE event_queue_pop_all
  <2>1. Ring
    BY <1>2, Zenon DEF event_queue_pop_all, Kept
  <2>2. Ring'
    BY <1>2, <2>1, CallCallbackKeeps, AdvanceKeeps, GiveBackKeeps, Zenon DEF event_queue_pop_all
  <2> QED BY <2>2, Zenon DEF Kept, Ring
<1>3. CASE UNCHANGED vars
  <2>1. UNCHANGED <<memory, read_ptr, write_ptr, used_size, popping, overrun>>
    BY <1>3 DEF vars
  <2>2. TypeOK'
    BY <2>1, Zenon DEF Kept, TypeOK
  <2>3. ASSUME Ring PROVE Ring'
    <3>1. PICK Q \in SUBSET Entries : Holds(Q) /\ InHand(Q)
      BY <2>3 DEF Ring
    <3>2. Holds(Q)' /\ InHand(Q)'
      BY <2>1, <3>1, Zenon
        DEF Holds, InHand, StillUsed, EndOf, Ahead, Taken, Wraps, AllocSize, Len_, RoundUp
    <3> QED BY <2>1, <2>2, <2>3, <3>2, Zenon DEF Ring, StillUsed, Onward
  <2> QED BY <2>1, <2>2, <2>3, Zenon DEF Kept
<1> QED BY <1>1, <1>2, <1>3, Zenon DEF Next, Overrun

-----------------------------------------------------------------------------
(***************************************************************************)
(* What follows.                                                           *)
(***************************************************************************)
LEMMA RingPayload ==
  ASSUME Sized, Ring
  PROVE  PayloadIntact
<1>1. PICK Q \in SUBSET Entries : Holds(Q) /\ InHand(Q)
  BY DEF Ring
<1>2. SUFFICES ASSUME popping.at = "callback"
               PROVE  \A x \in Offsets : x \in EventAt .. EventAt + AllocSize(popping.event) - 1 =>
                        /\ memory[x].event = popping.event
                        /\ memory[x].part = (x - EventAt) \div Align
  BY Zenon DEF PayloadIntact
<1>3. PICK k \in Q : k.at = read_ptr /\ k.event = popping.event
  BY <1>1, <1>2, Zenon DEF InHand
<1>4. k \in Entries /\ Laid(memory, k)
  BY <1>1, <1>3, Zenon DEF Holds
<1>5. k.at \in Offsets /\ k.event \in Events
  BY <1>4 DEF Entries
<1>6. EventAt = Start(k.at, k.event)
  BY <1>3, <1>4, HeadFacts, Zenon
<1>7. ASSUME NEW x \in Offsets, x \in EventAt .. EventAt + AllocSize(k.event) - 1
      PROVE  x \in Words(k.at, k.event)
  <2>1. EventAt \in Nat /\ AllocSize(k.event) \in Nat /\ x \in Nat
    BY <1>5, <1>6, TakenFacts, OffsetFacts, Sizes, Zenon
  <2>2. EventAt <= x /\ x < EventAt + AllocSize(k.event)
    BY <1>7, <2>1, SMT
  <2> QED BY <1>6, <2>2, Zenon DEF Words
<1> QED BY <1>3, <1>4, <1>6, <1>7, Zenon DEF Laid

\* Any event is short enough that an empty buffer has room for it on one side or
\* the other of its pointers.
Roomy == \A e \in Events : 2 * AllocSize(e) <= Capacity + Align

LEMMA RingTakesAny ==
  ASSUME Sized, Roomy, Ring
  PROVE  TakesAnyWhenEmpty
<1>1. SUFFICES ASSUME popping.at = "idle", used_size = 0, NEW e \in Events, WrapsFor(e)
               PROVE  EnoughSpace(AllocSize(e) + Tail_)
  BY Zenon DEF TakesAnyWhenEmpty
<1>2. /\ write_ptr \in Nat /\ write_ptr < Capacity /\ write_ptr % Align = 0
      /\ Capacity \in Nat /\ Capacity % Align = 0 /\ Align \in Nat \ {0}
  BY RingFacts, OffsetFacts DEF Sized
<1>3. /\ AllocSize(e) \in Nat /\ AllocSize(e) % Align = 0 /\ AllocSize(e) <= Capacity
      /\ 2 * AllocSize(e) <= Capacity + Align
  BY Sizes, Zenon DEF Roomy
<1>4. Capacity < write_ptr + AllocSize(e)
  BY <1>1, <1>2, <1>3, SMT DEF WrapsFor, Tail_
<1>5. write_ptr + AllocSize(e) >= Capacity + Align
  <2>1. write_ptr + AllocSize(e) \in Nat /\ (write_ptr + AllocSize(e)) % Align = 0
    <3>1. write_ptr + AllocSize(e) \in Nat
      BY <1>2, <1>3, SMT
    <3> QED BY <1>2, <1>3, <3>1, Multiples, Zenon
  <2>2. write_ptr + AllocSize(e) > Capacity
    BY <1>2, <1>3, <1>4, SMT
  <2> QED BY <1>2, <2>1, <2>2, Multiples, Zenon
<1> QED BY <1>1, <1>2, <1>3, <1>5, SMT DEF EnoughSpace, Tail_

\* From the read pointer on to the write pointer the entries lie one behind the other,
\* each as it was written (the inductive invariant), so that a callback reads the words
\* of its own event, until a push takes bytes that are not free: for any size of the
\* buffer, any events, and pushes at any fill between any two steps of
\* event_queue_pop_all.  What try_push does not look at (event_queue.cpp:64) is thus
\* the one thing that goes wrong here.
THEOREM RingHolds ==
  ASSUME Sized
  PROVE  Spec => []((overrun \/ Ring) /\ PayloadUntouched)
<1>1. Init => Kept
  BY RingAtStart, Zenon DEF Kept, Ring
<1>2. Kept /\ [Next]_vars => Kept'
  BY RingKept
<1>3. Kept => (overrun \/ Ring) /\ PayloadUntouched
  BY RingPayload, Zenon DEF Kept, PayloadUntouched
<1> QED BY <1>1, <1>2, <1>3, PTL DEF Spec

=============================================================================
