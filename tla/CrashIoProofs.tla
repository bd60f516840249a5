---------------------------- MODULE CrashIoProofs ----------------------------
(***************************************************************************)
(* What CrashIo keeps, for any SRBs, ring, index span, grants and buffers. *)
(* From the last response read on, the ring is a window of a lap at most:  *)
(* the answers, the room of the requests the backend is doing, and the     *)
(* requests it has not taken.  A request is in one of these places, once,  *)
(* and an SRB has as many of them as it waits for; its segments hold their *)
(* grants and buffers until the request's answer is read.                  *)
(***************************************************************************)
EXTENDS CrashIo, FunctionTheorems, FiniteSetTheorems, SequenceTheorems, TLAPS

Index == 0 .. IndexLimit - 1

\* Remainders.

\* A remainder is what is left of any multiple.
LEMMA RemainderOf ==
  ASSUME NEW n \in Nat \ {0}, NEW q \in Nat, NEW r \in 0 .. n - 1
  PROVE  (n * q + r) % n = r
OBVIOUS

\* Every number is a multiple and a remainder.
LEMMA Division ==
  ASSUME NEW n \in Nat \ {0}, NEW x \in Nat
  PROVE  \E q \in Nat, r \in 0 .. n - 1 : x = n * q + r /\ x % n = r
<1>1. x - (x % n) = n * (x \div n)
  OBVIOUS
<1>2. x \div n \in Nat /\ x % n \in 0 .. n - 1
  OBVIOUS
<1>3. PICK q \in Nat : q = x \div n
  BY <1>2
<1>4. PICK r \in 0 .. n - 1 : r = x % n
  BY <1>2
<1>5. x - r = n * q
  BY <1>1, <1>3, <1>4
<1>6. n * q \in Nat
  OBVIOUS
<1>7. x = n * q + r
  BY <1>5, <1>6
<1> QED
  BY <1>4, <1>7

\* Less than n apart, two numbers have different remainders.
LEMMA RemaindersDiffer ==
  ASSUME NEW n \in Nat \ {0}, NEW x \in Nat, NEW y \in Nat, x < y, y < x + n
  PROVE  x % n # y % n
<1>1. PICK q \in Nat, r \in 0 .. n - 1 : x = n * q + r /\ x % n = r
  BY Division
<1>2. PICK d \in 1 .. n - 1 : y = x + d
  OBVIOUS
<1>3. CASE r + d < n
  <2>1. y = n * q + (r + d) /\ r + d \in 0 .. n - 1
    BY <1>1, <1>2, <1>3
  <2> QED
    BY <1>1, <1>2, <2>1, RemainderOf
<1>4. CASE r + d >= n
  <2>1. n * (q + 1) = n * q + n
    OBVIOUS
  <2>2. y = n * (q + 1) + (r + d - n) /\ r + d - n \in 0 .. n - 1 /\ q + 1 \in Nat
    BY <1>1, <1>2, <1>4, <2>1
  <2>3. y % n = r + d - n
    BY <2>2, RemainderOf
  <2> QED
    BY <1>1, <1>2, <2>3
<1> QED
  BY <1>3, <1>4

-----------------------------------------------------------------------------
\* Indices and slots.

\* The sums and differences of the macros wrap at most once.
LEMMA IndexValues ==
  /\ NrEnts \in Nat \ {0} /\ IndexLimit \in Nat \ {0} /\ IndexLimit >= 2 * NrEnts
  /\ \A i, n \in Index : /\ Plus(i, n) \in Index
                         /\ Plus(i, n) = IF i + n < IndexLimit THEN i + n ELSE i + n - IndexLimit
  /\ \A i, j \in Index : /\ Minus(i, j) \in Index
                         /\ Minus(i, j) = IF i >= j THEN i - j ELSE i + IndexLimit - j
<1>1. NrEnts \in Nat \ {0} /\ IndexLimit \in Nat \ {0} /\ IndexLimit >= 2 * NrEnts
  BY CrashIoAssumption
<1>2. \A x \in Nat : x < 2 * IndexLimit =>
        x % IndexLimit = IF x < IndexLimit THEN x ELSE x - IndexLimit
  BY <1>1
<1>3. ASSUME NEW i \in Index, NEW n \in Index
      PROVE  /\ Plus(i, n) \in Index
             /\ Plus(i, n) = IF i + n < IndexLimit THEN i + n ELSE i + n - IndexLimit
  BY <1>1, <1>2 DEF Plus, Index
<1>4. ASSUME NEW i \in Index, NEW j \in Index
      PROVE  /\ Minus(i, j) \in Index
             /\ Minus(i, j) = IF i >= j THEN i - j ELSE i + IndexLimit - j
  BY <1>1, <1>2 DEF Minus, Index
<1> QED
  BY <1>1, <1>3, <1>4

\* The ring divides the span of the indices.
LEMMA SpanAdded ==
  ASSUME NEW x \in Nat, NEW y \in Nat, y = x + IndexLimit
  PROVE  Slot(y) = Slot(x)
<1>1. PICK n \in Nat \ {0} : n = NrEnts
  BY CrashIoAssumption
<1>2. PICK q \in Nat, r \in 0 .. n - 1 : x = n * q + r /\ x % n = r
  BY Division
<1>3. PICK p \in Nat, o \in 0 .. n - 1 : IndexLimit = n * p + o /\ IndexLimit % n = o
  BY Division, CrashIoAssumption
<1>4. o = 0
  BY <1>1, <1>3, CrashIoAssumption
<1>5. n * (q + p) = n * q + n * p
  OBVIOUS
<1>6. n * q \in Nat /\ n * p \in Nat
  OBVIOUS
<1>7. y = n * (q + p) + r /\ q + p \in Nat
  BY <1>2, <1>3, <1>4, <1>5, <1>6
<1>8. y % n = r
  BY <1>7, RemainderOf
<1> QED
  BY <1>1, <1>2, <1>8 DEF Slot

\* A slot does not depend on how often the index has wrapped.
LEMMA SlotWraps ==
  ASSUME NEW i \in Index, NEW n \in Index, NEW k \in Nat
  PROVE  Slot(Plus(i, n) + k) = Slot(i + n + k)
<1>1. CASE i + n < IndexLimit
  BY <1>1, IndexValues
<1>2. CASE i + n >= IndexLimit
  <2>1. PICK x \in Nat : x + IndexLimit = i + n /\ Plus(i, n) = x
    BY <1>2, IndexValues DEF Index
  <2>2. i + n + k = (x + k) + IndexLimit
    BY <2>1, IndexValues DEF Index
  <2>3. PICK y \in Nat : y = x + k
    BY <2>1
  <2>4. PICK z \in Nat : z = y + IndexLimit
    BY IndexValues
  <2>5. Slot(z) = Slot(y)
    BY <2>4, SpanAdded
  <2> QED
    BY <2>1, <2>2, <2>3, <2>4, <2>5 DEF Slot
<1> QED
  BY <1>1, <1>2, IndexValues DEF Index

\* Within a lap every index has a slot of its own.
LEMMA SlotsDiffer ==
  ASSUME NEW x \in Nat, NEW y \in Nat, x < y, y < x + NrEnts
  PROVE  Slot(x) # Slot(y)
BY RemaindersDiffer, CrashIoAssumption DEF Slot

\* A slot is on the ring.
LEMMA SlotOnRing == \A x \in Nat : Slot(x) \in 0 .. NrEnts - 1
BY CrashIoAssumption DEF Slot
-----------------------------------------------------------------------------
(* The window of the ring.  From index i on: a answers to be read, the room of the b    *)
(* requests the backend is doing, c requests it has not taken.                          *)

Calls == [s : Srbs, r : Nat \ {0}]
Messages == [type : {"zero", "request", "response"}, s : Srbs \cup {"none"}, r : Nat]
Slots == [0 .. NrEnts - 1 -> Messages]

Pos(i, j) == Slot(Plus(i, j))
At(slot, i, j) == slot[Pos(i, j)]
Full(a, b, c) == (0 .. a - 1) \cup (a + b .. a + b + c - 1)
OnSlots(slot, i, a, b, c) == {Call(At(slot, i, j)) : j \in Full(a, b, c)}

Lap(i, reqProd, rspProd, taken, a, b, c) ==
  /\ a + b + c <= NrEnts
  /\ rspProd = Plus(i, a) /\ taken = Plus(i, a + b) /\ reqProd = Plus(i, a + b + c)

Answers(slot, i, a) == \A j \in 0 .. a - 1 : At(slot, i, j).type = "response"
Asked(slot, i, m, c) == \A j \in m .. m + c - 1 : At(slot, i, j).type = "request"
CallsOn(slot, i, doing, a, b, c) == \A j \in Full(a, b, c) : Call(At(slot, i, j)) \in Calls \ doing
Distinct(slot, i, a, b, c) ==
  \A j, k \in Full(a, b, c) : Call(At(slot, i, j)) = Call(At(slot, i, k)) => j = k
Carried(slot, i, doing, a, b, c) ==
  /\ Answers(slot, i, a) /\ Asked(slot, i, a + b, c)
  /\ CallsOn(slot, i, doing, a, b, c) /\ Distinct(slot, i, a, b, c)

PlusIs(i, n) == Plus(i, n) \in Index /\ Plus(i, n) = IF i + n < IndexLimit THEN i + n ELSE i + n - IndexLimit
MinusIs(i, j) == Minus(i, j) \in Index /\ Minus(i, j) = IF i >= j THEN i - j ELSE i + IndexLimit - j

\* The sums and differences of indices, one by one.
LEMMA PlusValue == \A i, n \in Index : PlusIs(i, n)
BY IndexValues DEF PlusIs

\* As above.
LEMMA MinusValue == \A i, j \in Index : MinusIs(i, j)
BY IndexValues DEF MinusIs

\* A lap is a part of the indices' span.
LEMMA LapInSpan == NrEnts \in Nat \ {0} /\ IndexLimit \in Nat /\ \A n \in 0 .. NrEnts : n \in Index /\ n < IndexLimit
BY CrashIoAssumption DEF Index

\* One advance after another, within a lap.
LEMMA PlusTwice ==
  ASSUME NEW i \in Index, NEW m \in Nat, NEW n \in Nat, m + n <= NrEnts
  PROVE  Plus(Plus(i, m), n) = Plus(i, m + n)
<1>1. m \in Index /\ n \in Index /\ m + n \in Index
  BY LapInSpan
<1>2. PICK j \in Index : j = Plus(i, m)
  BY <1>1, PlusValue DEF PlusIs
<1>3. PlusIs(i, m) /\ PlusIs(j, n) /\ PlusIs(i, m + n)
  BY <1>1, PlusValue
<1> QED
  BY <1>2, <1>3, <1>1, LapInSpan DEF PlusIs, Index

\* The distance between two indices of the window.
LEMMA Distance ==
  ASSUME NEW i \in Index, NEW m \in Nat, NEW n \in Nat, m + n <= NrEnts
  PROVE  Minus(Plus(i, m + n), Plus(i, m)) = n
<1>1. m \in Index /\ n \in Index /\ m + n \in Index
  BY LapInSpan
<1>2. PlusIs(i, m) /\ PlusIs(i, m + n)
  BY <1>1, PlusValue
<1>3. PICK j \in Index, k \in Index : j = Plus(i, m) /\ k = Plus(i, m + n)
  BY <1>2 DEF PlusIs
<1>4. MinusIs(k, j)
  BY MinusValue
<1>5. n < IndexLimit /\ m < IndexLimit /\ m + n < IndexLimit /\ IndexLimit \in Nat
  BY LapInSpan
<1>6. /\ j = IF i + m < IndexLimit THEN i + m ELSE i + m - IndexLimit
      /\ k = IF i + (m + n) < IndexLimit THEN i + (m + n) ELSE i + (m + n) - IndexLimit
  BY <1>2, <1>3 DEF PlusIs
<1>7. Minus(k, j) = IF k >= j THEN k - j ELSE k + IndexLimit - j
  BY <1>4 DEF MinusIs
<1>8. Minus(k, j) = n
  <2>1. i \in 0 .. IndexLimit - 1 /\ j \in 0 .. IndexLimit - 1 /\ k \in 0 .. IndexLimit - 1
    BY DEF Index
  <2> QED
    BY <1>5, <1>6, <1>7, <2>1
<1> QED
  BY <1>3, <1>8

\* No advance.
LEMMA PlusNone == \A i \in Index : Plus(i, 0) = i
<1>1. 0 \in Index
  BY LapInSpan DEF Index
<1> QED
  BY <1>1, PlusValue, LapInSpan DEF PlusIs, Index

\* A place of the window is a slot of the ring.
LEMMA PosOnRing ==
  ASSUME NEW i \in Index, NEW j \in 0 .. NrEnts
  PROVE  Pos(i, j) \in 0 .. NrEnts - 1
<1>1. j \in Index
  BY LapInSpan
<1>2. Plus(i, j) \in Nat
  BY <1>1, PlusValue, LapInSpan DEF PlusIs, Index
<1> QED
  BY <1>2, SlotOnRing DEF Pos

\* Two places of it are two slots.
LEMMA PosDiffer ==
  ASSUME NEW i \in Index, NEW j \in 0 .. NrEnts - 1, NEW k \in 0 .. NrEnts - 1, j # k
  PROVE  Pos(i, j) # Pos(i, k)
<1>1. NrEnts \in Nat \ {0} /\ IndexLimit \in Nat
  BY LapInSpan
<1>2. j \in Index /\ k \in Index /\ i \in Nat /\ 0 \in Nat
  BY LapInSpan, <1>1 DEF Index
<1>3. Slot(Plus(i, j) + 0) = Slot(i + j + 0) /\ Slot(Plus(i, k) + 0) = Slot(i + k + 0)
  BY <1>2, SlotWraps
<1>4. PlusIs(i, j) /\ PlusIs(i, k)
  BY <1>2, PlusValue
<1>5. Plus(i, j) + 0 = Plus(i, j) /\ Plus(i, k) + 0 = Plus(i, k) /\ i + j + 0 = i + j /\ i + k + 0 = i + k
  BY <1>2, <1>4, <1>1 DEF PlusIs, Index
<1>6. PICK x \in Nat, y \in Nat : x = i + j /\ y = i + k
  BY <1>2
<1>7. Slot(x) # Slot(y)
  <2>1. CASE j < k
    <3>1. x < y /\ y < x + NrEnts
      BY <1>1, <1>2, <1>6, <2>1
    <3> QED
      BY <3>1, SlotsDiffer
  <2>2. CASE k < j
    <3>1. y < x /\ x < y + NrEnts
      BY <1>1, <1>2, <1>6, <2>2
    <3> QED
      BY <3>1, SlotsDiffer
  <2> QED
    BY <2>1, <2>2, <1>1
<1> QED
  BY <1>3, <1>5, <1>6, <1>7 DEF Pos

Flight(slot, i, doing, a, b, c) == OnSlots(slot, i, a, b, c) \cup doing
Put(slot, i, j, v) == [slot EXCEPT ![Pos(i, j)] = v]

\* A write to a place of the window changes that place.
LEMMA PutAt ==
  ASSUME NEW slot \in Slots, NEW i \in Index, NEW j \in 0 .. NrEnts - 1, NEW v \in Messages
  PROVE  /\ Put(slot, i, j, v) \in Slots
         /\ At(Put(slot, i, j, v), i, j) = v
         /\ \A k \in 0 .. NrEnts - 1 : k # j => At(Put(slot, i, j, v), i, k) = At(slot, i, k)
<1>1. j \in 0 .. NrEnts /\ \A k \in 0 .. NrEnts - 1 : k \in 0 .. NrEnts
  BY LapInSpan
<1>2. Pos(i, j) \in 0 .. NrEnts - 1 /\ \A k \in 0 .. NrEnts - 1 : Pos(i, k) \in 0 .. NrEnts - 1
  BY <1>1, PosOnRing
<1>3. \A k \in 0 .. NrEnts - 1 : k # j => Pos(i, k) # Pos(i, j)
  BY PosDiffer
<1> QED
  BY <1>2, <1>3 DEF Put, At, Slots

\* What is read there is a message.
LEMMA AtIs ==
  ASSUME NEW slot \in Slots, NEW i \in Index, NEW j \in 0 .. NrEnts - 1
  PROVE  At(slot, i, j) \in Messages
<1>1. j \in 0 .. NrEnts
  BY LapInSpan
<1> QED
  BY <1>1, PosOnRing DEF At, Slots

Window(a, b, c) == a \in Nat /\ b \in Nat /\ c \in Nat /\ a + b + c <= NrEnts

\* The full places are places.
LEMMA FullOnRing ==
  ASSUME NEW a, NEW b, NEW c, Window(a, b, c)
  PROVE  \A j \in Full(a, b, c) : j \in 0 .. NrEnts - 1
BY LapInSpan DEF Window, Full

\* An empty slot is no message of the backend's or the driver's.
LEMMA NoSlotIs == NoSlot \in Messages
BY DEF NoSlot, Messages

Takes(new, old, i, doing, q, a, b, c) ==
  /\ new \in Slots /\ q \in Calls \ doing /\ At(old, i, a + b).type = "request"
  /\ Carried(new, i, doing \cup {q}, a, b + 1, c - 1)
  /\ Flight(new, i, doing \cup {q}, a, b + 1, c - 1) = Flight(old, i, doing, a, b, c)

\* The backend takes the first request: it is one the backend is doing, and in flight still.
LEMMA TakesOne ==
  ASSUME NEW slot \in Slots, NEW i \in Index, NEW doing, NEW a, NEW b, NEW c,
         Window(a, b, c), Carried(slot, i, doing, a, b, c), c >= 1
  PROVE  Takes(Put(slot, i, a + b, NoSlot), slot, i, doing, Call(At(slot, i, a + b)), a, b, c)
<1> DEFINE new == Put(slot, i, a + b, NoSlot)
           q == Call(At(slot, i, a + b))
<1>1. a + b \in 0 .. NrEnts - 1 /\ a + b \in Full(a, b, c) /\ a + b \in a + b .. a + b + c - 1
  BY LapInSpan DEF Window, Full
<1>2. new \in Slots /\ \A k \in 0 .. NrEnts - 1 : k # a + b => At(new, i, k) = At(slot, i, k)
  BY <1>1, PutAt, NoSlotIs
<1>3. Full(a, b, c) = Full(a, b + 1, c - 1) \cup {a + b} /\ a + b \notin Full(a, b + 1, c - 1)
  BY DEF Window, Full
<1>4. q \in Calls \ doing
  BY <1>1 DEF Carried, CallsOn
<1>5. \A j \in Full(a, b + 1, c - 1) : At(new, i, j) = At(slot, i, j) /\ j \in Full(a, b, c) /\ Call(At(new, i, j)) # q
  BY <1>1, <1>2, <1>3, FullOnRing DEF Carried, Distinct
<1> HIDE DEF new, q
<1>6. Answers(new, i, a) /\ Asked(new, i, a + (b + 1), c - 1)
  <2>1. \A j \in 0 .. a - 1 : j \in Full(a, b + 1, c - 1)
    BY DEF Window, Full
  <2>2. \A j \in a + (b + 1) .. a + (b + 1) + (c - 1) - 1 : j \in Full(a, b + 1, c - 1) /\ j \in a + b .. a + b + c - 1
    BY DEF Window, Full
  <2> QED
    BY <1>5, <2>1, <2>2 DEF Carried, Answers, Asked
<1>7. CallsOn(new, i, doing \cup {q}, a, b + 1, c - 1)
  BY <1>5 DEF Carried, CallsOn
<1>8. Distinct(new, i, a, b + 1, c - 1)
  BY <1>5 DEF Carried, Distinct
<1>9. OnSlots(slot, i, a, b, c) = OnSlots(new, i, a, b + 1, c - 1) \cup {q}
  <2>1. OnSlots(new, i, a, b + 1, c - 1) = {Call(At(slot, i, j)) : j \in Full(a, b + 1, c - 1)}
    BY <1>5 DEF OnSlots
  <2> QED
    BY <1>3, <2>1 DEF OnSlots, q
<1>10. At(slot, i, a + b).type = "request"
  BY <1>1 DEF Carried, Asked
<1> QED
  BY <1>2, <1>4, <1>6, <1>7, <1>8, <1>9, <1>10 DEF Takes, Carried, Flight, new, q

AnswersOne(new, old, i, doing, q, a, b, c) ==
  /\ new \in Slots
  /\ Carried(new, i, doing \ {q}, a + 1, b - 1, c)
  /\ Flight(new, i, doing \ {q}, a + 1, b - 1, c) = Flight(old, i, doing, a, b, c)

AnswerTo(q) == [type |-> "response", s |-> q.s, r |-> q.r]

\* The backend answers one it is doing: the answer is in the room of a request it took.
LEMMA AnswersAny ==
  ASSUME NEW slot \in Slots, NEW i \in Index, NEW doing \in SUBSET Calls, NEW q \in doing, NEW a, NEW b, NEW c,
         Window(a, b, c), Carried(slot, i, doing, a, b, c), b >= 1
  PROVE  AnswersOne(Put(slot, i, a, AnswerTo(q)), slot, i, doing, q, a, b, c)
<1> DEFINE new == Put(slot, i, a, AnswerTo(q))
<1>1. a \in 0 .. NrEnts - 1
  BY LapInSpan DEF Window
<1>2. AnswerTo(q) \in Messages /\ Call(AnswerTo(q)) = q /\ AnswerTo(q).type = "response"
  BY DEF Calls, Messages, AnswerTo, Call
<1>3. new \in Slots /\ At(new, i, a) = AnswerTo(q) /\ \A k \in 0 .. NrEnts - 1 : k # a => At(new, i, k) = At(slot, i, k)
  BY <1>1, <1>2, PutAt
<1>4. Full(a + 1, b - 1, c) = Full(a, b, c) \cup {a} /\ a \notin Full(a, b, c)
  BY DEF Window, Full
<1> HIDE DEF new
<1>5. \A j \in Full(a, b, c) : At(new, i, j) = At(slot, i, j) /\ Call(At(new, i, j)) # q
  BY <1>3, <1>4, FullOnRing DEF Carried, CallsOn
<1>6. Answers(new, i, a + 1) /\ Asked(new, i, (a + 1) + (b - 1), c)
  <2>1. \A j \in 0 .. (a + 1) - 1 : j = a \/ (j \in Full(a, b, c) /\ j \in 0 .. a - 1)
    BY DEF Window, Full
  <2>2. \A j \in (a + 1) + (b - 1) .. (a + 1) + (b - 1) + c - 1 : j \in Full(a, b, c) /\ j \in a + b .. a + b + c - 1
    BY DEF Window, Full
  <2> QED
    BY <1>2, <1>3, <1>5, <2>1, <2>2 DEF Carried, Answers, Asked
<1>7. CallsOn(new, i, doing \ {q}, a + 1, b - 1, c)
  BY <1>2, <1>3, <1>4, <1>5 DEF Carried, CallsOn
<1>8. Distinct(new, i, a + 1, b - 1, c)
  BY <1>2, <1>3, <1>4, <1>5 DEF Carried, Distinct
<1>9. OnSlots(new, i, a + 1, b - 1, c) = OnSlots(slot, i, a, b, c) \cup {q}
  <2>1. OnSlots(slot, i, a, b, c) = {Call(At(new, i, j)) : j \in Full(a, b, c)}
    BY <1>5 DEF OnSlots
  <2> QED
    BY <1>2, <1>3, <1>4, <2>1 DEF OnSlots
<1> QED
  BY <1>3, <1>6, <1>7, <1>8, <1>9 DEF AnswersOne, Carried, Flight, new

ReadsOne(new, old, i, doing, q, a, b, c) ==
  /\ new \in Slots /\ q \in Calls \ doing
  /\ Carried(new, Plus(i, 1), doing, a - 1, b, c)
  /\ Flight(new, Plus(i, 1), doing, a - 1, b, c) = Flight(old, i, doing, a, b, c) \ {q}

\* The driver reads the first answer: its request is in flight no more.
LEMMA ReadsFirst ==
  ASSUME NEW slot \in Slots, NEW i \in Index, NEW doing, NEW a, NEW b, NEW c,
         Window(a, b, c), Carried(slot, i, doing, a, b, c), a >= 1
  PROVE  ReadsOne(Put(slot, i, 0, NoSlot), slot, i, doing, Call(At(slot, i, 0)), a, b, c)
<1> DEFINE new == Put(slot, i, 0, NoSlot)
           q == Call(At(slot, i, 0))
           i1 == Plus(i, 1)
<1>1. 0 \in 0 .. NrEnts - 1 /\ 0 \in Full(a, b, c) /\ 0 \in 0 .. a - 1
  BY LapInSpan DEF Window, Full
<1>2. new \in Slots /\ \A k \in 0 .. NrEnts - 1 : k # 0 => At(new, i, k) = At(slot, i, k)
  BY <1>1, PutAt, NoSlotIs
<1>3. q \in Calls \ doing
  BY <1>1 DEF Carried, CallsOn
<1>4. ASSUME NEW j \in Nat, j + 1 <= NrEnts - 1
      PROVE  At(new, i1, j) = At(new, i, j + 1)
  <2>1. Plus(Plus(i, 1), j) = Plus(i, 1 + j)
    BY <1>4, PlusTwice, LapInSpan
  <2>2. 1 + j = j + 1
    OBVIOUS
  <2> QED
    BY <2>1, <2>2 DEF At, Pos
<1>5. \A j \in Full(a - 1, b, c) : j \in Nat /\ j + 1 \in Full(a, b, c) /\ j + 1 <= NrEnts - 1
  BY LapInSpan DEF Window, Full
<1>6. \A k \in Full(a, b, c) : k = 0 \/ (k - 1 \in Full(a - 1, b, c) /\ k = (k - 1) + 1)
  BY DEF Window, Full
<1> HIDE DEF new, q, i1
<1>7. \A j \in Full(a - 1, b, c) : At(new, i1, j) = At(slot, i, j + 1)
  BY <1>2, <1>4, <1>5, LapInSpan
<1>8. \A j \in Full(a - 1, b, c) : Call(At(new, i1, j)) # q
  BY <1>1, <1>5, <1>7 DEF Carried, Distinct, q
<1>9. Answers(new, i1, a - 1) /\ Asked(new, i1, (a - 1) + b, c)
  <2>1. \A j \in 0 .. (a - 1) - 1 : j \in Full(a - 1, b, c) /\ j + 1 \in 0 .. a - 1
    BY DEF Window, Full
  <2>2. \A j \in (a - 1) + b .. (a - 1) + b + c - 1 : j \in Full(a - 1, b, c) /\ j + 1 \in a + b .. a + b + c - 1
    BY DEF Window, Full
  <2> QED
    BY <1>7, <2>1, <2>2 DEF Carried, Answers, Asked
<1>10. CallsOn(new, i1, doing, a - 1, b, c)
  BY <1>5, <1>7 DEF Carried, CallsOn
<1>11. Distinct(new, i1, a - 1, b, c)
  BY <1>5, <1>7 DEF Carried, Distinct
<1>12. OnSlots(new, i1, a - 1, b, c) = OnSlots(slot, i, a, b, c) \ {q}
  <2>1. ASSUME NEW x \in OnSlots(new, i1, a - 1, b, c)
        PROVE  x \in OnSlots(slot, i, a, b, c) \ {q}
    BY <1>5, <1>7, <1>8 DEF OnSlots
  <2>2. ASSUME NEW x \in OnSlots(slot, i, a, b, c), x # q
        PROVE  x \in OnSlots(new, i1, a - 1, b, c)
    <3>1. PICK k \in Full(a, b, c) : x = Call(At(slot, i, k))
      BY DEF OnSlots
    <3>2. PICK j \in Full(a - 1, b, c) : k = j + 1
      BY <1>6, <2>2, <3>1 DEF q
    <3> QED
      BY <1>7, <3>1, <3>2 DEF OnSlots
  <2> QED
    BY <2>1, <2>2
<1>13. doing \ {q} = doing
  BY <1>3
<1> QED
  BY <1>2, <1>3, <1>9, <1>10, <1>11, <1>12, <1>13 DEF ReadsOne, Carried, Flight, new, q, i1

Request(s, r) == [type |-> "request", s |-> s, r |-> r]
CallsOf(s, n) == {[s |-> s, r |-> r] : r \in 1 .. n}

\* The n requests of s are written from place m on.
WrittenAt(new, old, i, m, s, n) ==
  /\ new \in Slots
  /\ \A r \in 1 .. n : At(new, i, m + r - 1) = Request(s, r)
  /\ \A k \in 0 .. NrEnts - 1 : k \notin m .. m + n - 1 => At(new, i, k) = At(old, i, k)

Submits(new, old, i, doing, s, n, a, b, c) ==
  /\ Carried(new, i, doing, a, b, c + n)
  /\ Flight(new, i, doing, a, b, c + n) = Flight(old, i, doing, a, b, c) \cup CallsOf(s, n)

\* The driver submits an SRB of which nothing is in flight.
LEMMA SubmitsAll ==
  ASSUME NEW slot \in Slots, NEW new, NEW i \in Index, NEW doing, NEW a, NEW b, NEW c, NEW s \in Srbs, NEW n \in Nat,
         Window(a, b, c + n), c \in Nat, Carried(slot, i, doing, a, b, c),
         WrittenAt(new, slot, i, a + b + c, s, n),
         \A q \in Flight(slot, i, doing, a, b, c) : q.s # s
  PROVE  Submits(new, slot, i, doing, s, n, a, b, c)
<1> DEFINE m == a + b + c
           Old == Full(a, b, c)
<1>1. Full(a, b, c + n) = Old \cup (m .. m + n - 1) /\ Old \cap (m .. m + n - 1) = {}
  BY DEF Window, Full
<1>2. \A j \in m .. m + n - 1 : j - m + 1 \in 1 .. n /\ j = m + (j - m + 1) - 1
  BY DEF Window
<1>3. \A r \in 1 .. n : m + r - 1 \in m .. m + n - 1
  BY DEF Window
<1>4. Window(a, b, c)
  BY LapInSpan DEF Window
<1>5. \A j \in Old : At(new, i, j) = At(slot, i, j) /\ Call(At(new, i, j)).s # s
  <2>1. \A j \in Old : At(new, i, j) = At(slot, i, j)
    BY <1>1, <1>4, FullOnRing DEF WrittenAt
  <2>2. \A j \in Old : Call(At(slot, i, j)) \in Flight(slot, i, doing, a, b, c)
    BY DEF Flight, OnSlots
  <2> QED
    BY <2>1, <2>2
<1>6. \A j \in m .. m + n - 1 : At(new, i, j) = Request(s, j - m + 1)
  BY <1>2 DEF WrittenAt
<1>7. \A j \in m .. m + n - 1 : /\ Call(At(new, i, j)) = [s |-> s, r |-> j - m + 1] /\ At(new, i, j).type = "request"
                                /\ Call(At(new, i, j)) \in Calls \ doing
  <2>1. \A r \in 1 .. n : [s |-> s, r |-> r] \in Calls \ doing
    BY DEF Calls, Flight
  <2> QED
    BY <1>2, <1>6, <2>1 DEF Request, Call
<1>8. m \in Nat /\ a + b \in Nat
  BY DEF Window
<1> HIDE DEF Old, m
<1>9. Answers(new, i, a) /\ Asked(new, i, a + b, c + n)
  <2>1. \A j \in 0 .. a - 1 : j \in Old
    BY DEF Window, Full, Old
  <2>2. \A j \in a + b .. a + b + (c + n) - 1 : (j \in Old /\ j \in a + b .. a + b + c - 1) \/ j \in m .. m + n - 1
    BY DEF Window, Full, Old, m
  <2> QED
    BY <1>5, <1>7, <2>1, <2>2 DEF Carried, Answers, Asked
<1>10. CallsOn(new, i, doing, a, b, c + n)
  BY <1>1, <1>5, <1>7 DEF Carried, CallsOn, Old
<1>11. Distinct(new, i, a, b, c + n)
  <2>1. ASSUME NEW j \in m .. m + n - 1, NEW k \in m .. m + n - 1, Call(At(new, i, j)) = Call(At(new, i, k))
        PROVE  j = k
    BY <1>7, <1>8, <2>1
  <2> QED
    BY <1>1, <1>5, <1>7, <2>1 DEF Carried, Distinct, Old
<1>12. OnSlots(new, i, a, b, c + n) = OnSlots(slot, i, a, b, c) \cup CallsOf(s, n)
  <2>1. ASSUME NEW x \in OnSlots(new, i, a, b, c + n)
        PROVE  x \in OnSlots(slot, i, a, b, c) \cup CallsOf(s, n)
    <3>1. PICK j \in Full(a, b, c + n) : x = Call(At(new, i, j))
      BY DEF OnSlots
    <3>2. CASE j \in Old
      BY <1>5, <3>1, <3>2 DEF OnSlots, Old
    <3>3. CASE j \in m .. m + n - 1
      BY <1>2, <1>7, <3>1, <3>3 DEF CallsOf
    <3> QED
      BY <1>1, <3>2, <3>3
  <2>2. ASSUME NEW x \in OnSlots(slot, i, a, b, c)
        PROVE  x \in OnSlots(new, i, a, b, c + n)
    BY <1>1, <1>5 DEF OnSlots, Old
  <2>3. ASSUME NEW x \in CallsOf(s, n)
        PROVE  x \in OnSlots(new, i, a, b, c + n)
    <3>1. PICK r \in 1 .. n : x = [s |-> s, r |-> r]
      BY DEF CallsOf
    <3>2. PICK j \in m .. m + n - 1 : j = m + r - 1
      BY <1>3
    <3>3. j - m + 1 = r
      BY <1>8, <3>2
    <3> QED
      BY <1>1, <1>7, <3>1, <3>3 DEF OnSlots
  <2> QED
    BY <2>1, <2>2, <2>3
<1> QED
  BY <1>9, <1>10, <1>11, <1>12 DEF Submits, Carried, Flight

-----------------------------------------------------------------------------
(* What the ring carries, from the window. *)

Segment(slot, i, n) == [k \in 1 .. n |-> slot[Slot(Plus(i, k - 1))]]
FlightOf(slot, i, reqProd, rspProd, taken, doing) ==
  LET unread == Segment(slot, taken, Minus(reqProd, taken))
      unseen == Segment(slot, i, Minus(rspProd, i))
  IN  {Call(unread[k]) : k \in DOMAIN unread} \cup doing \cup {Call(unseen[k]) : k \in DOMAIN unseen}

\* InFlight and its parts, as the ring has them.
LEMMA InFlightIs ==
  /\ Unread = Segment(shared.slot, backend.reqCons, Minus(shared.reqProd, backend.reqCons))
  /\ Unseen = Segment(shared.slot, ReadUpTo, Minus(shared.rspProd, ReadUpTo))
  /\ InFlight = FlightOf(shared.slot, ReadUpTo, shared.reqProd, shared.rspProd, backend.reqCons, backend.doing)
BY DEF InFlight, WithBackend, FlightOf, Unread, Unseen, Segment

\* The entries of the ring from the m-th place of the window on.
LEMMA SegmentIs ==
  ASSUME NEW slot, NEW i \in Index, NEW m \in Nat, NEW n \in Nat, m + n <= NrEnts
  PROVE  Segment(slot, Plus(i, m), n) = [k \in 1 .. n |-> At(slot, i, m + k - 1)]
<1>1. ASSUME NEW k \in 1 .. n
      PROVE  slot[Slot(Plus(Plus(i, m), k - 1))] = At(slot, i, m + k - 1)
  <2>1. k - 1 \in Nat /\ m + (k - 1) <= NrEnts /\ m + (k - 1) = m + k - 1
    BY LapInSpan
  <2>2. Plus(Plus(i, m), k - 1) = Plus(i, m + (k - 1))
    BY <2>1, PlusTwice
  <2> QED
    BY <2>1, <2>2 DEF At, Pos
<1> QED
  BY <1>1 DEF Segment

UnreadIs(slot, i, reqProd, taken, a, b, c) ==
  Segment(slot, taken, Minus(reqProd, taken)) = [k \in 1 .. c |-> At(slot, i, a + b + k - 1)]
UnseenIs(slot, i, rspProd, a) ==
  Segment(slot, i, Minus(rspProd, i)) = [k \in 1 .. a |-> At(slot, i, k - 1)]

\* The requests not taken and the answers not read are the two parts of the window.
LEMMA WindowParts ==
  ASSUME NEW slot, NEW i \in Index, NEW reqProd, NEW rspProd, NEW taken, NEW a, NEW b, NEW c,
         Window(a, b, c), Lap(i, reqProd, rspProd, taken, a, b, c)
  PROVE  UnreadIs(slot, i, reqProd, taken, a, b, c) /\ UnseenIs(slot, i, rspProd, a)
<1>1. a + b \in Nat /\ (a + b) + c <= NrEnts /\ 0 + a <= NrEnts /\ 0 \in Nat /\ a \in Nat /\ c \in Nat /\ 0 + a = a
  BY LapInSpan DEF Window
<1>2. Minus(reqProd, taken) = c
  BY <1>1, Distance DEF Lap
<1>3. Minus(rspProd, i) = a
  <2>1. Minus(Plus(i, 0 + a), Plus(i, 0)) = a
    BY <1>1, Distance
  <2> QED
    BY <1>1, <2>1, PlusNone DEF Lap
<1>4. Segment(slot, taken, c) = [k \in 1 .. c |-> At(slot, i, a + b + k - 1)]
  BY <1>1, SegmentIs DEF Lap
<1>5. Segment(slot, i, a) = [k \in 1 .. a |-> At(slot, i, k - 1)]
  <2>1. Segment(slot, Plus(i, 0), a) = [k \in 1 .. a |-> At(slot, i, 0 + k - 1)]
    BY <1>1, SegmentIs
  <2>2. \A k \in 1 .. a : 0 + k - 1 = k - 1
    BY <1>1
  <2> QED
    BY <2>1, <2>2, PlusNone
<1> QED
  BY <1>2, <1>3, <1>4, <1>5 DEF UnreadIs, UnseenIs

\* What is in flight is what the window carries.
LEMMA FlightIs ==
  ASSUME NEW slot, NEW i \in Index, NEW reqProd, NEW rspProd, NEW taken, NEW doing, NEW a, NEW b, NEW c,
         Window(a, b, c), Lap(i, reqProd, rspProd, taken, a, b, c)
  PROVE  FlightOf(slot, i, reqProd, rspProd, taken, doing) = Flight(slot, i, doing, a, b, c)
<1> DEFINE unread == Segment(slot, taken, Minus(reqProd, taken))
           unseen == Segment(slot, i, Minus(rspProd, i))
<1>1. unread = [k \in 1 .. c |-> At(slot, i, a + b + k - 1)] /\ unseen = [k \in 1 .. a |-> At(slot, i, k - 1)]
  <2>1. UnreadIs(slot, i, reqProd, taken, a, b, c) /\ UnseenIs(slot, i, rspProd, a)
    BY WindowParts
  <2> QED
    BY <2>1 DEF UnreadIs, UnseenIs
<1> HIDE DEF unread, unseen
<1>2. {Call(unread[k]) : k \in DOMAIN unread} = {Call(At(slot, i, j)) : j \in a + b .. a + b + c - 1}
  <2>1. \A k \in 1 .. c : a + b + k - 1 \in a + b .. a + b + c - 1
    BY DEF Window
  <2>2. \A j \in a + b .. a + b + c - 1 : j - (a + b) + 1 \in 1 .. c /\ j = a + b + (j - (a + b) + 1) - 1
    BY DEF Window
  <2> QED
    BY <1>1, <2>1, <2>2
<1>3. {Call(unseen[k]) : k \in DOMAIN unseen} = {Call(At(slot, i, j)) : j \in 0 .. a - 1}
  <2>1. \A k \in 1 .. a : k - 1 \in 0 .. a - 1
    BY DEF Window
  <2>2. \A j \in 0 .. a - 1 : j + 1 \in 1 .. a /\ j = j + 1 - 1
    BY DEF Window
  <2> QED
    BY <1>1, <2>1, <2>2
<1> QED
  BY <1>2, <1>3 DEF FlightOf, Flight, OnSlots, Full, unread, unseen

\* There are as many calls on the ring as full places.
LEMMA FlightCounted ==
  ASSUME NEW slot, NEW i \in Index, NEW doing, NEW a, NEW b, NEW c,
         Window(a, b, c), Carried(slot, i, doing, a, b, c), IsFiniteSet(doing), b = Cardinality(doing)
  PROVE  /\ IsFiniteSet(Flight(slot, i, doing, a, b, c))
         /\ Cardinality(Flight(slot, i, doing, a, b, c)) = a + b + c
<1> DEFINE S == Full(a, b, c)
           T == OnSlots(slot, i, a, b, c)
           f == [j \in S |-> Call(At(slot, i, j))]
<1>1. IsFiniteSet(S) /\ Cardinality(S) = a + c
  <2>1. a \in Nat /\ b \in Nat /\ c \in Nat
    BY DEF Window
  <2>2. PICK l \in Int, m \in Int, n \in Int : l = a - 1 /\ m = a + b /\ n = a + b + c - 1
    BY <2>1
  <2>3. PICK A : A = 0 .. l
    OBVIOUS
  <2>4. PICK B : B = m .. n
    OBVIOUS
  <2>5. IsFiniteSet(A) /\ Cardinality(A) = a
    <3>1. 0 \in Int
      OBVIOUS
    <3>2. IsFiniteSet(A) /\ Cardinality(A) = IF 0 > l THEN 0 ELSE l - 0 + 1
      BY <2>3, <3>1, FS_Interval
    <3> QED
      BY <2>1, <2>2, <3>2
  <2>6. IsFiniteSet(B) /\ Cardinality(B) = c
    <3>1. IsFiniteSet(B) /\ Cardinality(B) = IF m > n THEN 0 ELSE n - m + 1
      BY <2>4, FS_Interval
    <3>2. (m > n <=> c = 0) /\ n - m + 1 = c
      BY <2>1, <2>2
    <3> QED
      BY <3>1, <3>2
  <2>7. A \cap B = {}
    BY <2>1, <2>2, <2>3, <2>4
  <2>8. IsFiniteSet(A \cup B) /\ Cardinality(A \cup B) = Cardinality(A) + Cardinality(B) - Cardinality({})
    BY <2>5, <2>6, <2>7, FS_Union
  <2>9. IsFiniteSet(A \cup B) /\ Cardinality(A \cup B) = a + c
    BY <2>1, <2>5, <2>6, <2>8, FS_EmptySet
  <2>10. S = A \cup B
    BY <2>1, <2>2, <2>3, <2>4 DEF Full
  <2> QED
    BY <2>9, <2>10
<1>2. f \in Bijection(S, T)
  <2>1. f \in [S -> T] /\ \A t \in T : \E x \in S : f[x] = t
    BY DEF OnSlots
  <2>2. \A x, y \in S : f[x] = f[y] => x = y
    BY DEF Carried, Distinct
  <2> HIDE DEF f
  <2> QED
    BY <2>1, <2>2, Fun_IsBij
<1>3. IsFiniteSet(T) /\ Cardinality(T) = a + c
  BY <1>1, <1>2, FS_Bijection, Fun_ExistsBij
<1>4. T \cap doing = {}
  BY DEF OnSlots, Carried, CallsOn
<1> HIDE DEF T
<1>5. IsFiniteSet(T \cup doing) /\ Cardinality(T \cup doing) = (a + c) + b - 0
  BY <1>3, <1>4, FS_Union, FS_EmptySet
<1> QED
  BY <1>5 DEF T, Flight, Window

-----------------------------------------------------------------------------
(* The invariant. *)

Busy == {"prepared", "submitted"}
Segments == [gref : 0 .. NumGrants, buf : 0 .. NumBuffers]
Extensions ==
  [kind : {"none", "readWrite", "sync", "flush", "reset", "other"}, shape : Shapes \cup {<<>>},
   segs : Seq(Segments), left : 0 .. 2, state : {"out", "lost", "reset"} \cup Queues, after : SUBSET Srbs]

Types ==
  /\ srb \in [Srbs -> Extensions]
  /\ queue \in [Queues -> Seq(Srbs)]
  /\ buffers \in SUBSET (1 .. NumBuffers) /\ grants \in SUBSET (1 .. NumGrants)
  /\ shared \in [slot : Slots, reqProd : Index, reqEvent : Index, rspProd : Index]
  /\ priv \in [reqProd : Index, rspCons : Index]
  /\ ipc \in {"idle", "submit", "reset", "response", "fault", "recheck", "fresh", "resetSend", "resetEnd"}
  /\ then \in {"idle", "startIo", "resetSend", "resetEnd"}
  /\ scan \in [cons : Index, prod : Index]
  /\ resetting \in Srbs \cup {"none"}
  /\ backend \in [mode : {"awake", "checking", "asleep"}, event : BOOLEAN, reqCons : Index, doing : SUBSET Calls]

\* The ring r from index i, with the backend at taken, and the answers up to limit being read.
RingHas(i, r, taken, doing, reading, limit, a, b, c) ==
  /\ Lap(i, r.reqProd, r.rspProd, taken, a, b, c)
  /\ Carried(r.slot, i, doing, a, b, c)
  /\ reading => \E k \in 0 .. a : limit = Plus(i, k)
RingHolds(i, r, taken, doing, reading, limit) ==
  \E a, b, c \in Nat : b = Cardinality(doing) /\ RingHas(i, r, taken, doing, reading, limit, a, b, c)
RingFits ==
  /\ IsFiniteSet(backend.doing) /\ priv.reqProd = shared.reqProd
  /\ RingHolds(ReadUpTo, shared, backend.reqCons, backend.doing, ipc = "response", scan.prod)

\* An SRB x and what is in flight for it.
Total(x) == IF x.kind = "sync" THEN 1 ELSE NrRequests(Len(x.shape))
Stage(x) ==
  /\ x.state \in Busy => x.kind \in DataKinds
  /\ x.state = "fresh" => x.kind = "readWrite"
  /\ x.state = "shutdown" => x.kind \notin DataKinds
  /\ x.state \notin {"out", "shutdown"} => x.after = {}
  /\ x.state \in Busy \cup {"fresh"} /\ x.kind = "readWrite" => x.shape \in Shapes
  /\ x.state \notin Busy \/ x.kind = "sync" => x.segs = <<>>
  /\ x.state \in Busy /\ x.kind = "readWrite" => DOMAIN x.segs = DOMAIN x.shape
  /\ x.state = "prepared" => x.left = Total(x)
  /\ x.state = "submitted" => x.left > 0
CallsIn(flight, s) == {q \in flight : q.s = s}
InFlightFor(x, s, flight) ==
  /\ \A q \in CallsIn(flight, s) : q.r \in 1 .. Total(x)
  /\ Cardinality(CallsIn(flight, s)) = IF x.state = "submitted" THEN x.left ELSE 0
SegFits(x, k, held) ==
  IF held THEN x.segs[k].gref # 0 /\ (x.segs[k].buf # 0 <=> x.shape[k]) ELSE x.segs[k] = NoSeg
SegsFit(x, s, flight) ==
  \A k \in DOMAIN x.segs : SegFits(x, k, x.state = "prepared" \/ [s |-> s, r |-> RequestOf(k)] \in flight)
Fits(x, s, flight) == Stage(x) /\ InFlightFor(x, s, flight) /\ SegsFit(x, s, flight)
SrbsFit(x, flight) == \A s \in Srbs : Fits(x[s], s, flight)

\* The queue l of the SRBs whose state is q.
QueueFits(l, x, q) ==
  /\ \A i \in DOMAIN l : x[l[i]].state = q
  /\ \A i, j \in DOMAIN l : l[i] = l[j] => i = j
  /\ \A s \in Srbs : x[s].state = q => \E i \in DOMAIN l : l[i] = s
FitAll(qs, x) == \A q \in Queues : QueueFits(qs[q], x, q)
QueuesFit == FitAll(queue, srb)

PlaceFits ==
  /\ ipc = "fresh" => queue["fresh"] # <<>>
  /\ ipc \in {"reset", "resetSend", "resetEnd"} \/ then \in {"resetSend", "resetEnd"} => resetting # "none"
  /\ resetting # "none" => srb[resetting].state = "reset"
  /\ ipc \in {"idle", "reset", "resetSend", "resetEnd"} => then = "idle"

\* What a flush waits for has not come again since.
AfterFits(x) ==
  \A s \in Srbs : \A y \in x[s].after :
    /\ x[y].state \notin {"shutdown", "reset"}
    /\ x[s].state = "out" => x[y].state \in {"out", "lost"}

\* Who holds which of all, where f is what each segment of each SRB holds, or 0:
\* <<SRB, segment, grant or buffer>>.
GrefsOf(x) == [s \in Srbs |-> [k \in DOMAIN x[s].segs |-> x[s].segs[k].gref]]
BufsOf(x) == [s \in Srbs |-> [k \in DOMAIN x[s].segs |-> x[s].segs[k].buf]]
Places == 1 .. 2 * SegsPerRequest
Held(all, f) == {h \in Srbs \X Places \X all : h[2] \in DOMAIN f[h[1]] /\ f[h[1]][h[2]] = h[3]}
Shared(all, free, held) ==
  /\ \A h \in held : h[3] \notin free
  /\ \A g, h \in held : g[3] = h[3] => g = h
  /\ \A x \in all : x \in free \/ \E h \in held : h[3] = x
OwnedOf(all, free, f) == Shared(all, free, Held(all, f))
AllGrants == 1 .. NumGrants
AllBuffers == 1 .. NumBuffers
Owned(x) == OwnedOf(AllGrants, grants, GrefsOf(x)) /\ OwnedOf(AllBuffers, buffers, BufsOf(x))

IoInv ==
  /\ Types /\ RingFits /\ PlaceFits /\ QueuesFit
  /\ SrbsFit(srb, InFlight) /\ AfterFits(srb) /\ Owned(srb)

-----------------------------------------------------------------------------
(* The operators of the model. *)

\* Quotients of up to three times the divisor.
LEMMA Quotients ==
  ASSUME NEW n \in Nat \ {0}, NEW q \in 0 .. 2, NEW r \in 0 .. n - 1, NEW x \in Nat, x = n * q + r
  PROVE  x \div n = q
<1>1. CASE q = 0
  BY <1>1
<1>2. CASE q = 1
  BY <1>2
<1>3. CASE q = 2
  BY <1>3
<1> QED
  BY <1>1, <1>2, <1>3

\* An SRB of up to twice as many segments as a request has makes one or two requests, and
\* each segment is in one of them.
LEMMA RequestsMade ==
  ASSUME NEW n \in 1 .. 2 * SegsPerRequest
  PROVE  NrRequests(n) \in 1 .. 2 /\ \A k \in 1 .. n : RequestOf(k) \in 1 .. NrRequests(n)
<1>1. PICK m \in Nat \ {0} : m = SegsPerRequest
  BY CrashIoAssumption
<1>2. m * 1 = m /\ m * 2 = 2 * m /\ m * 0 = 0
  BY <1>1
<1>3. \A k \in 1 .. n : k <= m => RequestOf(k) = 1
  <2>1. ASSUME NEW k \in 1 .. n, k <= m
        PROVE  RequestOf(k) = 1
    <3>1. PICK x \in Nat, r \in 0 .. m - 1 : x = k - 1 /\ r = k - 1
      BY <2>1, <1>1
    <3>2. x = m * 0 + r
      BY <1>2, <3>1
    <3>3. x \div m = 0
      BY <3>2, Quotients
    <3> QED
      BY <1>1, <3>1, <3>3 DEF RequestOf
  <2> QED
    BY <2>1
<1>4. \A k \in 1 .. n : k > m => RequestOf(k) = 2
  <2>1. ASSUME NEW k \in 1 .. n, k > m
        PROVE  RequestOf(k) = 2
    <3>1. PICK x \in Nat, r \in 0 .. m - 1 : x = k - 1 /\ r = k - 1 - m
      BY <2>1, <1>1
    <3>2. x = m * 1 + r
      BY <1>2, <3>1
    <3>3. x \div m = 1
      BY <3>2, Quotients
    <3> QED
      BY <1>1, <3>1, <3>3 DEF RequestOf
  <2> QED
    BY <2>1
<1>5. CASE n <= m
  <2>1. PICK x \in Nat, r \in 0 .. m - 1 : x = n + m - 1 /\ r = n - 1
    BY <1>1, <1>5
  <2>2. x = m * 1 + r
    BY <1>2, <2>1
  <2>3. NrRequests(n) = 1
    BY <1>1, <2>1, <2>2, Quotients DEF NrRequests
  <2> QED
    BY <1>1, <1>3, <1>5, <2>3
<1>6. CASE n > m
  <2>1. PICK x \in Nat, r \in 0 .. m - 1 : x = n + m - 1 /\ r = n - 1 - m
    BY <1>1, <1>6
  <2>2. x = m * 2 + r
    BY <1>2, <2>1
  <2>3. NrRequests(n) = 2
    BY <1>1, <2>1, <2>2, Quotients DEF NrRequests
  <2>4. \A k \in 1 .. n : k <= m \/ k > m
    BY <1>1
  <2> QED
    BY <1>3, <1>4, <2>3, <2>4
<1> QED
  BY <1>1, <1>5, <1>6

\* Out of enough, each gets one of its own.
LEMMA EachHasOne ==
  ASSUME NEW S, NEW T, IsFiniteSet(S), IsFiniteSet(T), Cardinality(S) <= Cardinality(T)
  PROVE  OneEach(S, T) \in [S -> T] /\ \A x, y \in S : OneEach(S, T)[x] = OneEach(S, T)[y] => x = y
<1>1. PICK m \in Nat, n \in Nat : m = Cardinality(S) /\ n = Cardinality(T)
  BY FS_CardinalityType
<1>2. ExistsBijection(1 .. m, S) /\ ExistsBijection(1 .. n, T)
  BY <1>1, FS_CardinalityType
<1>3. ExistsInjection(S, 1 .. m) /\ ExistsInjection(1 .. n, T)
  <2>1. ExistsBijection(S, 1 .. m)
    BY <1>2, Fun_ExistsBijSymmetric
  <2> QED
    BY <1>2, <2>1, Fun_ExistsBijEquiv
<1>4. ExistsInjection(1 .. m, 1 .. n)
  BY <1>1, Fun_NatInjLeq
<1>5. ExistsInjection(S, T)
  BY <1>3, <1>4, Fun_ExistsInjTransitive
<1>6. PICK f \in Injection(S, T) : TRUE
  BY <1>5, Fun_ExistsInj
<1>7. f \in [S -> T] /\ IsInjective(f)
  BY <1>6 DEF Injection
<1>8. OneEach(S, T) \in [S -> T] /\ IsInjective(OneEach(S, T))
  BY <1>7 DEF OneEach
<1> QED
  BY <1>8 DEF IsInjective

\* What is held of all, and what is free: more is held, of what was free, each by one.
LEMMA SharedTaken ==
  ASSUME NEW all, NEW free, NEW held, NEW more, Shared(all, free, held),
         \A h \in more : h[3] \in free, \A g, h \in more : g[3] = h[3] => g = h
  PROVE  Shared(all, free \ {h[3] : h \in more}, held \cup more)
BY DEF Shared

\* Less is held, and what it held is free.
LEMMA SharedGiven ==
  ASSUME NEW all, NEW free, NEW held, NEW less \in SUBSET held, Shared(all, free, held)
  PROVE  Shared(all, free \cup {h[3] : h \in less}, held \ less)
BY DEF Shared

-----------------------------------------------------------------------------
(* The queues. *)

\* The SRBs other than s are in q as they were.
OthersStay(x, y, q, s) == \A z \in Srbs : z # s => (y[z].state = q <=> x[z].state = q)

\* A queue of the SRBs it held.
LEMMA QueueStays ==
  ASSUME NEW x, NEW y, NEW q, NEW l \in Seq(Srbs), QueueFits(l, x, q),
         \A z \in Srbs : y[z].state = q <=> x[z].state = q
  PROVE  QueueFits(l, y, q)
BY DEF QueueFits

\* QueueInsertTail.
LEMMA QueueGrows ==
  ASSUME NEW x, NEW y, NEW q, NEW s \in Srbs, NEW l \in Seq(Srbs), QueueFits(l, x, q),
         x[s].state # q, y[s].state = q, OthersStay(x, y, q, s)
  PROVE  Append(l, s) \in Seq(Srbs) /\ QueueFits(Append(l, s), y, q)
<1> DEFINE m == Append(l, s)
<1>1. PICK n \in Nat : n = Len(l)
  BY LenProperties
<1>2. /\ m \in Seq(Srbs) /\ Len(m) = n + 1 /\ DOMAIN m = 1 .. n + 1 /\ DOMAIN l = 1 .. n
      /\ \A i \in 1 .. n : m[i] = l[i] /\ m[n + 1] = s
  BY <1>1, AppendProperties, LenProperties
<1>3. m[n + 1] = s
  BY <1>1, AppendProperties
<1>4. \A i \in 1 .. n : l[i] \in Srbs /\ l[i] # s
  BY <1>1, <1>2 DEF QueueFits
<1>5. \A i \in 1 .. n + 1 : i = n + 1 \/ i \in 1 .. n
  BY <1>1
<1> HIDE DEF m
<1>6. \A i \in DOMAIN m : y[m[i]].state = q
  BY <1>2, <1>3, <1>4, <1>5 DEF QueueFits, OthersStay
<1>7. \A i, j \in DOMAIN m : m[i] = m[j] => i = j
  BY <1>2, <1>3, <1>4, <1>5 DEF QueueFits
<1>8. \A z \in Srbs : y[z].state = q => \E i \in DOMAIN m : m[i] = z
  <2>1. n + 1 \in DOMAIN m /\ \A i \in 1 .. n : i \in DOMAIN m
    BY <1>1, <1>2
  <2> QED
    BY <1>2, <1>3, <2>1 DEF QueueFits, OthersStay
<1> QED
  BY <1>2, <1>6, <1>7, <1>8 DEF QueueFits, m

Splits(l, s, m) == l # <<>> /\ s = Head(l) /\ m = Tail(l)

\* QueuePop.
LEMMA QueueDrops ==
  ASSUME NEW x, NEW y, NEW q, NEW l \in Seq(Srbs), QueueFits(l, x, q), NEW s, NEW m, Splits(l, s, m),
         y[s].state # q, OthersStay(x, y, q, s)
  PROVE  /\ m \in Seq(Srbs) /\ QueueFits(m, y, q)
         /\ s \in Srbs /\ x[s].state = q
<1>1. PICK n \in Nat : n = Len(l)
  BY LenProperties
<1>2. /\ m \in Seq(Srbs) /\ Len(m) = n - 1 /\ s = l[1] /\ n >= 1
      /\ \A i \in 1 .. n - 1 : m[i] = l[i + 1]
  BY <1>1, HeadTailProperties, LenProperties, EmptySeq DEF Splits
<1>3. DOMAIN m = 1 .. n - 1 /\ DOMAIN l = 1 .. n
  BY <1>1, <1>2, LenProperties
<1>4. s \in Srbs /\ x[s].state = q
  BY <1>1, <1>2, <1>3 DEF QueueFits
<1>5. \A i \in 1 .. n - 1 : i + 1 \in 1 .. n /\ i + 1 # 1
  BY <1>1
<1>6. \A i \in 1 .. n : i = 1 \/ (i - 1 \in 1 .. n - 1 /\ i = (i - 1) + 1)
  BY <1>1
<1>7. 1 \in 1 .. n
  BY <1>1, <1>2
<1>8. \A i \in 1 .. n - 1 : m[i] \in Srbs /\ m[i] # s
  BY <1>2, <1>3, <1>5, <1>7 DEF QueueFits
<1>9. \A i \in DOMAIN m : y[m[i]].state = q
  <2>1. \A i \in 1 .. n - 1 : y[m[i]].state = q <=> x[m[i]].state = q
    BY <1>8 DEF OthersStay
  <2> QED
    BY <1>2, <1>3, <1>5, <2>1 DEF QueueFits
<1>10. \A i, j \in DOMAIN m : m[i] = m[j] => i = j
  <2>1. ASSUME NEW i \in 1 .. n - 1, NEW j \in 1 .. n - 1, m[i] = m[j]
        PROVE  i = j
    <3>1. PICK o \in 1 .. n, p \in 1 .. n : o = i + 1 /\ p = j + 1
      BY <1>5
    <3>2. l[o] = l[p]
      BY <1>2, <2>1, <3>1
    <3>3. o = p
      BY <1>3, <3>2 DEF QueueFits
    <3> QED
      BY <3>1, <3>3
  <2> QED
    BY <1>3, <2>1
<1>11. ASSUME NEW z \in Srbs, y[z].state = q
       PROVE  \E i \in DOMAIN m : m[i] = z
  <2>1. z # s /\ x[z].state = q
    BY <1>11 DEF OthersStay
  <2>2. PICK i \in 1 .. n : l[i] = z
    BY <1>3, <2>1 DEF QueueFits
  <2>3. i # 1
    BY <1>2, <2>1, <2>2
  <2> QED
    BY <1>2, <1>3, <1>6, <2>2, <2>3
<1> QED
  BY <1>2, <1>4, <1>9, <1>10, <1>11 DEF QueueFits

\* RemoveAt drops the element at one position and shifts those behind it.
LEMMA RemoveAtShifts ==
  ASSUME NEW S, NEW seq \in Seq(S), NEW i \in 1 .. Len(seq)
  PROVE  /\ RemoveAt(seq, i) \in Seq(S)
         /\ Len(RemoveAt(seq, i)) = Len(seq) - 1
         /\ \A j \in 1 .. Len(seq) - 1 :
              RemoveAt(seq, i)[j] = IF j < i THEN seq[j] ELSE seq[j + 1]
<1> DEFINE before == SubSeq(seq, 1, i - 1)
           behind == SubSeq(seq, i + 1, Len(seq))
<1>1. Len(seq) \in Nat
  BY LenProperties
<1>2. /\ before \in Seq(S) /\ Len(before) = i - 1
      /\ \A j \in 1 .. i - 1 : before[j] = seq[j]
  BY <1>1, SubSeqProperties
<1>3. /\ behind \in Seq(S) /\ Len(behind) = Len(seq) - i
      /\ \A j \in 1 .. Len(seq) - i : behind[j] = seq[j + i]
  BY <1>1, SubSeqProperties
<1> HIDE DEF before, behind
<1>7. /\ before \o behind \in Seq(S)
      /\ Len(before \o behind) = Len(before) + Len(behind)
      /\ \A j \in 1 .. Len(before) + Len(behind) :
           (before \o behind)[j] =
             IF j <= Len(before) THEN before[j] ELSE behind[j - Len(before)]
  BY <1>2, <1>3, ConcatProperties
<1>4. /\ before \o behind \in Seq(S) /\ Len(before \o behind) = Len(seq) - 1
      /\ \A j \in 1 .. Len(seq) - 1 :
           (before \o behind)[j] = IF j <= i - 1 THEN before[j] ELSE behind[j - (i - 1)]
  BY <1>1, <1>2, <1>3, <1>7
<1>5. ASSUME NEW j \in 1 .. Len(seq) - 1
      PROVE  (before \o behind)[j] = IF j < i THEN seq[j] ELSE seq[j + 1]
  <2>1. CASE j < i
    BY <2>1, <1>1, <1>2, <1>4
  <2>2. CASE ~(j < i)
    <3>1. j - (i - 1) \in 1 .. Len(seq) - i /\ j - (i - 1) + i = j + 1
      BY <2>2, <1>1
    <3> QED
      BY <2>2, <3>1, <1>1, <1>3, <1>4
  <2> QED
    BY <2>1, <2>2
<1>6. RemoveAt(seq, i) = before \o behind
  BY DEF RemoveAt, before, behind
<1> QED
  BY <1>4, <1>5, <1>6


\* QueueRemove.
LEMMA QueueShrinks ==
  ASSUME NEW x, NEW y, NEW q, NEW s \in Srbs, NEW l \in Seq(Srbs), QueueFits(l, x, q),
         x[s].state = q, y[s].state # q, OthersStay(x, y, q, s), NEW k \in DOMAIN l, l[k] = s,
         NEW m, m = RemoveAt(l, k)
  PROVE  m \in Seq(Srbs) /\ QueueFits(m, y, q)
<1>1. PICK n \in Nat : n = Len(l) /\ DOMAIN l = 1 .. n
  BY LenProperties
<1>2. k \in 1 .. n /\ l[k] = s
  BY <1>1
<1>3. /\ m \in Seq(Srbs) /\ Len(m) = n - 1
      /\ \A j \in 1 .. n - 1 : m[j] = IF j < k THEN l[j] ELSE l[j + 1]
  <2>1. k \in 1 .. Len(l)
    BY <1>1, <1>2
  <2> QED
    BY <1>1, <2>1, RemoveAtShifts
<1>4. DOMAIN m = 1 .. n - 1
  BY <1>1, <1>2, <1>3, LenProperties
<1> DEFINE at(j) == IF j < k THEN j ELSE j + 1
<1>5. \A j \in 1 .. n - 1 : m[j] = l[at(j)] /\ at(j) \in 1 .. n /\ at(j) # k
  <2>1. ASSUME NEW j \in 1 .. n - 1
        PROVE  m[j] = l[at(j)] /\ at(j) \in 1 .. n /\ at(j) # k
    <3>0. m[j] = IF j < k THEN l[j] ELSE l[j + 1]
      BY <1>3
    <3>1. CASE j < k
      <4>1. at(j) = j /\ m[j] = l[j]
        BY <3>0, <3>1
      <4> HIDE DEF at
      <4> QED
        BY <1>1, <1>2, <3>1, <4>1
    <3>2. CASE ~(j < k)
      <4>1. at(j) = j + 1 /\ m[j] = l[j + 1]
        BY <3>0, <3>2
      <4> HIDE DEF at
      <4> QED
        BY <1>1, <1>2, <3>2, <4>1
    <3> QED
      BY <3>1, <3>2
  <2> QED
    BY <2>1
<1>6. \A i, j \in 1 .. n - 1 : at(i) = at(j) => i = j
  BY <1>1, <1>2
<1>7. \A i \in 1 .. n : i # k => \E j \in 1 .. n - 1 : i = at(j)
  <2>1. ASSUME NEW i \in 1 .. n, i # k
        PROVE  \E j \in 1 .. n - 1 : i = at(j)
    <3>1. CASE i < k
      <4>1. i \in 1 .. n - 1 /\ i = at(i)
        BY <1>1, <1>2, <3>1
      <4> QED
        BY <4>1
    <3>2. CASE i > k
      <4>1. i - 1 \in 1 .. n - 1 /\ i = at(i - 1)
        BY <1>1, <1>2, <3>2
      <4> QED
        BY <4>1
    <3>3. i < k \/ i > k
      BY <1>1, <1>2, <2>1
    <3> QED
      BY <3>1, <3>2, <3>3
  <2> QED
    BY <2>1
<1> HIDE DEF at
<1>8. \A j \in 1 .. n - 1 : m[j] \in Srbs /\ m[j] # s
  BY <1>1, <1>2, <1>5 DEF QueueFits
<1>9. \A j \in DOMAIN m : y[m[j]].state = q
  <2>1. ASSUME NEW j \in 1 .. n - 1
        PROVE  y[m[j]].state = q
    <3>1. PICK i \in DOMAIN l : m[j] = l[i]
      BY <1>1, <1>5
    <3>2. x[m[j]].state = q /\ m[j] \in Srbs /\ m[j] # s
      BY <1>8, <3>1 DEF QueueFits
    <3> QED
      BY <3>2 DEF OthersStay
  <2> QED
    BY <1>4, <2>1
<1>10. \A i, j \in DOMAIN m : m[i] = m[j] => i = j
  BY <1>1, <1>4, <1>5, <1>6 DEF QueueFits
<1>11. ASSUME NEW z \in Srbs, y[z].state = q
       PROVE  \E j \in DOMAIN m : m[j] = z
  <2>1. z # s /\ x[z].state = q
    BY <1>11 DEF OthersStay
  <2>2. PICK i \in 1 .. n : l[i] = z
    BY <1>1, <2>1 DEF QueueFits
  <2>3. i # k
    BY <1>2, <2>1, <2>2
  <2>4. PICK j \in 1 .. n - 1 : i = at(j)
    BY <1>7, <2>3
  <2>5. m[j] = z
    BY <1>5, <2>2, <2>4
  <2> QED
    BY <1>4, <2>5
<1> QED
  BY <1>3, <1>9, <1>10, <1>11 DEF QueueFits

\* No SRB is in q.
LEMMA QueueEmpty ==
  ASSUME NEW y, NEW q, \A z \in Srbs : y[z].state # q
  PROVE  <<>> \in Seq(Srbs) /\ QueueFits(<<>>, y, q)
BY DEF QueueFits

-----------------------------------------------------------------------------
(* Who holds what. *)

\* What the segments of the SRBs hold is of all, or 0.
Holds(f, all) == \A z \in Srbs : DOMAIN f[z] \subseteq Places /\ \A k \in DOMAIN f[z] : f[z][k] \in all \cup {0}
OthersHold(f, g, s) == \A z \in Srbs : z # s => g[z] = f[z]

Took(all, free, g, s) == OwnedOf(all, free \ {g[s][k] : k \in DOMAIN g[s]}, g)
Gave(all, free, f, g, s, ks) == OwnedOf(all, free \cup ({f[s][k] : k \in ks} \ {0}), g)

\* An SRB that held nothing takes some that are free, each for one segment.
LEMMA OwnerTakes ==
  ASSUME NEW all, 0 \notin all, NEW free \in SUBSET all, NEW f, NEW g, NEW s \in Srbs,
         OwnedOf(all, free, f), Holds(g, all), OthersHold(f, g, s),
         \A k \in DOMAIN f[s] : FALSE,
         \A k \in DOMAIN g[s] : g[s][k] \in free \cup {0},
         \A j, k \in DOMAIN g[s] : g[s][j] = g[s][k] /\ g[s][j] # 0 => j = k
  PROVE  Took(all, free, g, s)
<1> DEFINE more == {h \in Held(all, g) : h[1] = s}
<1>1. Held(all, g) = Held(all, f) \cup more
  <2>1. ASSUME NEW h \in Srbs \X Places \X all
        PROVE  h \in Held(all, g) <=> h \in Held(all, f) \/ h \in more
    <3>1. CASE h[1] = s
      BY <3>1 DEF Held
    <3>2. CASE h[1] # s
      <4>1. g[h[1]] = f[h[1]]
        BY <3>2 DEF OthersHold
      <4> QED
        BY <3>2, <4>1 DEF Held
    <3> QED
      BY <3>1, <3>2
  <2>2. Held(all, g) \subseteq Srbs \X Places \X all /\ Held(all, f) \subseteq Srbs \X Places \X all
    BY DEF Held
  <2> QED
    BY <2>1, <2>2
<1>2. \A h \in more : h \in Srbs \X Places \X all /\ h[1] = s /\ h[2] \in DOMAIN g[s] /\ h[3] = g[s][h[2]] /\ h[3] # 0
  BY DEF Held
<1>3. \A h \in more : h[3] \in free
  BY <1>2
<1>4. \A h, i \in more : i[3] = h[3] => h = i
  BY <1>2
<1>5. {h[3] : h \in more} = {g[s][k] : k \in DOMAIN g[s]} \ {0}
  <2>1. ASSUME NEW k \in DOMAIN g[s], g[s][k] # 0
        PROVE  \E h \in more : h[3] = g[s][k]
    <3>1. <<s, k, g[s][k]>> \in Srbs \X Places \X all
      BY <2>1 DEF Holds
    <3>2. <<s, k, g[s][k]>> \in more
      BY <3>1 DEF Held
    <3> QED
      BY <3>2
  <2>2. \A h \in more : h[3] \in {g[s][k] : k \in DOMAIN g[s]} \ {0}
    BY <1>2
  <2> QED
    BY <2>1, <2>2
<1> HIDE DEF more
<1>6. Shared(all, free \ {h[3] : h \in more}, Held(all, f) \cup more)
  BY <1>3, <1>4, SharedTaken DEF OwnedOf
<1>7. free \ {h[3] : h \in more} = free \ {g[s][k] : k \in DOMAIN g[s]}
  BY <1>5
<1> QED
  BY <1>1, <1>6, <1>7 DEF OwnedOf, Took

\* An SRB gives back what its segments ks held; the others that it had, if it has them no
\* more, held nothing.
LEMMA OwnerGives ==
  ASSUME NEW all, 0 \notin all, NEW free \in SUBSET all, NEW f, NEW g, NEW s \in Srbs, NEW ks \in SUBSET DOMAIN f[s],
         OwnedOf(all, free, f), Holds(f, all), OthersHold(f, g, s), DOMAIN g[s] \subseteq DOMAIN f[s],
         \A k \in DOMAIN g[s] : g[s][k] = IF k \in ks THEN 0 ELSE f[s][k],
         \A k \in DOMAIN f[s] : k \in DOMAIN g[s] \/ k \in ks \/ f[s][k] = 0
  PROVE  Gave(all, free, f, g, s, ks)
<1> DEFINE less == {h \in Held(all, f) : h[1] = s /\ h[2] \in ks}
<1>1. Held(all, g) = Held(all, f) \ less
  <2>1. ASSUME NEW h \in Srbs \X Places \X all
        PROVE  h \in Held(all, g) <=> h \in Held(all, f) /\ h \notin less
    <3>1. CASE h[1] = s
      <4>1. CASE h[2] \in ks
        BY <3>1, <4>1 DEF Held
      <4>2. CASE h[2] \notin ks
        BY <3>1, <4>2 DEF Held
      <4> QED
        BY <4>1, <4>2
    <3>2. CASE h[1] # s
      <4>1. g[h[1]] = f[h[1]]
        BY <3>2 DEF OthersHold
      <4> QED
        BY <3>2, <4>1 DEF Held
    <3> QED
      BY <3>1, <3>2
  <2>2. Held(all, g) \subseteq Srbs \X Places \X all /\ Held(all, f) \subseteq Srbs \X Places \X all
    BY DEF Held
  <2> QED
    BY <2>1, <2>2
<1>2. {h[3] : h \in less} = {f[s][k] : k \in ks} \ {0}
  <2>1. ASSUME NEW k \in ks, f[s][k] # 0
        PROVE  \E h \in less : h[3] = f[s][k]
    <3>1. <<s, k, f[s][k]>> \in Srbs \X Places \X all
      BY <2>1 DEF Holds
    <3>2. <<s, k, f[s][k]>> \in less
      BY <3>1 DEF Held
    <3> QED
      BY <3>2
  <2>2. \A h \in less : h[3] \in {f[s][k] : k \in ks} \ {0}
    BY DEF Held
  <2> QED
    BY <2>1, <2>2
<1>3. less \in SUBSET Held(all, f)
  OBVIOUS
<1> HIDE DEF less
<1>4. Shared(all, free \cup {h[3] : h \in less}, Held(all, f) \ less)
  BY <1>3, SharedGiven DEF OwnedOf
<1> QED
  BY <1>1, <1>2, <1>4 DEF OwnedOf, Gave

-----------------------------------------------------------------------------
(* What becomes of an SRB. *)

\* An SRB that is not with the backend has nothing in flight.
LEMMA NoneInFlight ==
  ASSUME NEW x, NEW s, NEW flight, IsFiniteSet(flight), InFlightFor(x, s, flight), x.state # "submitted"
  PROVE  CallsIn(flight, s) = {}
<1>1. IsFiniteSet(CallsIn(flight, s))
  BY FS_Subset DEF CallsIn
<1> QED
  BY <1>1, FS_EmptySet DEF InFlightFor

\* An SRB that has no segments and is neither fresh nor busy.
LEMMA RestingFits ==
  ASSUME NEW x \in Extensions, NEW s, NEW flight, CallsIn(flight, s) = {},
         x.state \notin Busy \cup {"fresh"}, x.segs = <<>>, x.state \notin {"out", "shutdown"} => x.after = {},
         x.state = "shutdown" => x.kind \notin DataKinds
  PROVE  Fits(x, s, flight)
<1>1. Stage(x)
  BY DEF Stage, Busy
<1>2. InFlightFor(x, s, flight)
  BY FS_EmptySet DEF InFlightFor, Busy
<1>3. SegsFit(x, s, flight)
  BY DEF SegsFit
<1> QED
  BY <1>1, <1>2, <1>3 DEF Fits

\* An SRB that is completed.
LEMMA DoneFits ==
  ASSUME NEW x \in Extensions, NEW s, NEW flight, CallsIn(flight, s) = {}
  PROVE  /\ Done(x) \in Extensions /\ Fits(Done(x), s, flight)
         /\ Done(x).state = "out" /\ Done(x).after = x.after /\ Done(x).segs = <<>>
<1>1. /\ Done(x) \in Extensions
      /\ Done(x).state = "out" /\ Done(x).after = x.after /\ Done(x).segs = <<>>
  <2>1. Done(x) = [kind |-> "none", shape |-> <<>>, segs |-> <<>>, left |-> 0, state |-> "out", after |-> x.after]
    BY DEF Done, NewSrb
  <2>2. x.after \in SUBSET Srbs /\ <<>> \in Seq(Segments) /\ 0 \in 0 .. 2
    BY DEF Extensions
  <2> QED
    BY <2>1, <2>2 DEF Extensions
<1>2. Fits(Done(x), s, flight)
  BY <1>1, RestingFits DEF Busy
<1> QED
  BY <1>1, <1>2

\* One that an SRB that comes again is not among those it waits for any more.
LEMMA AfterShrinks ==
  ASSUME NEW x \in Extensions, NEW A \in SUBSET x.after, NEW s, NEW flight
  PROVE  /\ [x EXCEPT !.after = A] \in Extensions
         /\ Fits(x, s, flight) => Fits([x EXCEPT !.after = A], s, flight)
<1> DEFINE y == [x EXCEPT !.after = A]
<1>1. /\ y \in Extensions /\ y.kind = x.kind /\ y.shape = x.shape /\ y.segs = x.segs /\ y.left = x.left
      /\ y.state = x.state /\ y.after = A
  BY DEF Extensions
<1> HIDE DEF y
<1>2. ASSUME Fits(x, s, flight)
      PROVE  Fits(y, s, flight)
  <2>1. Stage(y)
    <3>1. Total(y) = Total(x)
      BY <1>1 DEF Total
    <3> QED
      BY <1>1, <1>2, <3>1 DEF Fits, Stage
  <2>2. InFlightFor(y, s, flight)
    BY <1>1, <1>2 DEF Fits, InFlightFor, Total
  <2>3. SegsFit(y, s, flight)
    BY <1>1, <1>2 DEF Fits, SegsFit, SegFits
  <2> QED
    BY <2>1, <2>2, <2>3 DEF Fits
<1> QED
  BY <1>1, <1>2 DEF y

\* The segments of a shape have their number, and a place each.
LEMMA ShapeIs ==
  ASSUME NEW shape \in Shapes
  PROVE  /\ shape \in Seq(BOOLEAN) /\ Len(shape) \in 1 .. 2 * SegsPerRequest /\ DOMAIN shape = 1 .. Len(shape)
         /\ DOMAIN shape \subseteq Places /\ IsFiniteSet(DOMAIN shape) /\ IsFiniteSet(Bounced(shape))
<1>1. shape \in Seq(BOOLEAN) /\ Len(shape) \in 1 .. 2 * SegsPerRequest /\ DOMAIN shape = 1 .. Len(shape)
  BY CrashIoAssumption, LenProperties
<1>2. DOMAIN shape \subseteq Places
  BY <1>1, CrashIoAssumption DEF Places
<1>3. IsFiniteSet(DOMAIN shape)
  BY <1>1, FS_Interval
<1>4. IsFiniteSet(Bounced(shape))
  BY <1>3, FS_Subset DEF Bounced
<1> QED
  BY <1>1, <1>2, <1>3, <1>4

NewSegsFit(shape, segs) ==
  /\ segs \in Seq(Segments) /\ DOMAIN segs = DOMAIN shape
  /\ \A k \in DOMAIN shape : segs[k].gref \in grants /\ segs[k].buf \in buffers \cup {0} /\ (segs[k].buf # 0 <=> shape[k])
  /\ \A j, k \in DOMAIN shape : segs[j].gref = segs[k].gref => j = k
  /\ \A j, k \in DOMAIN shape : segs[j].buf = segs[k].buf /\ segs[j].buf # 0 => j = k

\* PrepareReadWrite's segments, when there is enough for them.
LEMMA NewSegsAre ==
  ASSUME Types, NEW shape \in Shapes, Affordable(shape)
  PROVE  NewSegsFit(shape, NewSegs(shape))
<1>1. IsFiniteSet(grants) /\ IsFiniteSet(buffers)
  <2>1. NumGrants \in Int /\ NumBuffers \in Int /\ 1 \in Int
    BY CrashIoAssumption
  <2>2. IsFiniteSet(1 .. NumGrants) /\ IsFiniteSet(1 .. NumBuffers)
    BY <2>1, FS_Interval
  <2> QED
    BY <2>2, FS_Subset DEF Types
<1>2. PICK gref : gref = OneEach(DOMAIN shape, grants)
  OBVIOUS
<1>3. PICK buf : buf = OneEach(Bounced(shape), buffers)
  OBVIOUS
<1>4. gref \in [DOMAIN shape -> grants] /\ \A j, k \in DOMAIN shape : gref[j] = gref[k] => j = k
  BY <1>1, <1>2, ShapeIs, EachHasOne DEF Affordable
<1>5. buf \in [Bounced(shape) -> buffers] /\ \A j, k \in Bounced(shape) : buf[j] = buf[k] => j = k
  BY <1>1, <1>3, ShapeIs, EachHasOne DEF Affordable
<1>6. PICK segs : segs = [k \in DOMAIN shape |-> [gref |-> gref[k], buf |-> IF shape[k] THEN buf[k] ELSE 0]]
  OBVIOUS
<1>7. segs = NewSegs(shape)
  BY <1>2, <1>3, <1>6 DEF NewSegs
<1>8. grants \subseteq 1 .. NumGrants /\ buffers \subseteq 1 .. NumBuffers /\ NumGrants \in Nat /\ NumBuffers \in Nat
  BY CrashIoAssumption DEF Types
<1>8a. (\A g \in grants : g \in 0 .. NumGrants) /\ (\A b \in buffers : b \in 0 .. NumBuffers) /\ 0 \in 0 .. NumBuffers
  BY <1>8
<1>9. ASSUME NEW k \in DOMAIN shape
      PROVE  /\ segs[k].gref = gref[k] /\ gref[k] \in grants
             /\ segs[k].buf = (IF shape[k] THEN buf[k] ELSE 0)
             /\ shape[k] => buf[k] \in buffers /\ k \in Bounced(shape)
             /\ segs[k] \in Segments
  <2>1. shape[k] => k \in Bounced(shape) /\ buf[k] \in buffers
    BY <1>5 DEF Bounced
  <2>2. segs[k] = [gref |-> gref[k], buf |-> IF shape[k] THEN buf[k] ELSE 0]
    BY <1>6
  <2>3. gref[k] \in grants
    BY <1>4
  <2>4. gref[k] \in 0 .. NumGrants
    BY <1>8a, <2>3
  <2>5. (IF shape[k] THEN buf[k] ELSE 0) \in 0 .. NumBuffers
    <3>1. CASE shape[k]
      BY <1>8a, <2>1, <3>1
    <3>2. CASE ~shape[k]
      BY <1>8a, <3>2
    <3> QED
      BY <3>1, <3>2
  <2> QED
    BY <2>1, <2>2, <2>3, <2>4, <2>5 DEF Segments
<1>10. segs \in Seq(Segments) /\ DOMAIN segs = DOMAIN shape
  <2>1. PICK n \in Nat : n = Len(shape) /\ DOMAIN shape = 1 .. n
    BY ShapeIs, LenProperties
  <2>2. segs \in [1 .. n -> Segments]
    BY <1>6, <1>9, <2>1
  <2> QED
    BY <1>6, <2>1, <2>2
<1>11. 0 \notin grants /\ 0 \notin buffers
  BY <1>8
<1> QED
  BY <1>4, <1>5, <1>7, <1>9, <1>10, <1>11 DEF NewSegsFit

\* The SRBs, and who waits for whom and holds what.
SrbsSound(x, flight) == x \in [Srbs -> Extensions] /\ SrbsFit(x, flight) /\ AfterFits(x)

\* A new SRB has no request in flight, has no segments, and what it waits for is with the
\* driver.
Fresh(s, x) ==
  /\ x \in Extensions /\ Fits(x, s, InFlight) /\ x.segs = <<>>
  /\ x.after = {} \/ (x.state # "out" /\ x.after \subseteq Pending)

WithFits(s, x, y) ==
  /\ SrbsSound(y, InFlight) /\ Owned(y)
  /\ y[s] = x /\ \A z \in Srbs : s \notin y[z].after /\ (z # s => y[z].state = srb[z].state /\ y[z].kind = srb[z].kind)

\* An SRB is issued.
LEMMA IssuedFits ==
  ASSUME IoInv, NEW s \in Srbs, srb[s].state = "out", NEW x, Fresh(s, x)
  PROVE  WithFits(s, x, With(s, x))
<1> DEFINE y == With(s, x)
<1>1. srb \in [Srbs -> Extensions] /\ SrbsFit(srb, InFlight) /\ AfterFits(srb) /\ Owned(srb)
  BY DEF IoInv, Types
<1>2. srb[s].segs = <<>>
  BY <1>1 DEF SrbsFit, Fits, Stage, Busy
<1>3. y[s] = x /\ \A z \in Srbs : z # s => y[z] = [srb[z] EXCEPT !.after = @ \ {s}]
  BY DEF With
<1>4. \A z \in Srbs : z # s => /\ y[z] \in Extensions /\ Fits(y[z], z, InFlight)
  <2>1. ASSUME NEW z \in Srbs, z # s
        PROVE  y[z] \in Extensions /\ Fits(y[z], z, InFlight)
    <3>1. srb[z] \in Extensions /\ Fits(srb[z], z, InFlight)
      BY <1>1 DEF SrbsFit
    <3>2. PICK A : A = srb[z].after \ {s}
      OBVIOUS
    <3>3. A \in SUBSET srb[z].after /\ y[z] = [srb[z] EXCEPT !.after = A]
      BY <1>3, <2>1, <3>2
    <3>4. PICK w \in Extensions : w = srb[z]
      BY <3>1
    <3>5. A \in SUBSET w.after /\ Fits(w, z, InFlight)
      BY <3>1, <3>3, <3>4
    <3>6. [w EXCEPT !.after = A] \in Extensions /\ Fits([w EXCEPT !.after = A], z, InFlight)
      BY <3>5, AfterShrinks
    <3> QED
      BY <3>3, <3>4, <3>6
  <2> QED
    BY <2>1
<1>5. \A z \in Srbs : z # s => /\ y[z].state = srb[z].state /\ y[z].kind = srb[z].kind /\ y[z].segs = srb[z].segs
                               /\ y[z].after = srb[z].after \ {s}
  <2>1. ASSUME NEW z \in Srbs, z # s
        PROVE  /\ y[z].state = srb[z].state /\ y[z].kind = srb[z].kind /\ y[z].segs = srb[z].segs
               /\ y[z].after = srb[z].after \ {s}
    <3>1. PICK w \in Extensions : w = srb[z]
      BY <1>1
    <3>2. y[z] = [w EXCEPT !.after = @ \ {s}]
      BY <1>3, <2>1, <3>1
    <3> QED
      BY <3>1, <3>2 DEF Extensions
  <2> QED
    BY <2>1
<1>6. y \in [Srbs -> Extensions] /\ SrbsFit(y, InFlight)
  <2>1. \A z \in Srbs : y[z] \in Extensions /\ Fits(y[z], z, InFlight)
    BY <1>3, <1>4 DEF Fresh
  <2>2. DOMAIN y = Srbs /\ y = [z \in Srbs |-> y[z]]
    BY DEF With
  <2> HIDE DEF y
  <2> QED
    BY <2>1, <2>2 DEF SrbsFit
<1> HIDE DEF y
<1>7. s \notin x.after /\ \A z \in x.after : srb[z].state \notin {"shutdown", "reset"}
  <2>1. \A z \in Pending : srb[z].state \in Queues /\ srb[z].kind \in DataKinds /\ z \in Srbs
    BY DEF Pending
  <2>2. \A z \in x.after : z \in Srbs
    BY DEF Fresh, Extensions
  <2>3. \A z \in x.after : srb[z].state # "out" /\ srb[z].state # "reset"
    BY <2>1 DEF Fresh, Queues
  <2>4. \A z \in Srbs : z \in x.after => z \in Pending
    BY DEF Fresh
  <2>5. \A z \in x.after : srb[z].state # "shutdown"
    <3>1. \A z \in Srbs : srb[z].state = "shutdown" => srb[z].kind \notin DataKinds
      BY <1>1 DEF SrbsFit, Fits, Stage
    <3> QED
      BY <2>1, <2>2, <2>4, <3>1 DEF Fresh
  <2> QED
    BY <2>2, <2>3, <2>5
<1>8. \A z \in Srbs : s \notin y[z].after
  BY <1>3, <1>5, <1>7
<1>9. AfterFits(y)
  <2>1. ASSUME NEW z \in Srbs, NEW w \in y[z].after
        PROVE  y[w].state \notin {"shutdown", "reset"} /\ (y[z].state = "out" => y[w].state \in {"out", "lost"})
    <3>1. w \in Srbs /\ w # s
      BY <1>6, <1>8, <2>1 DEF Extensions
    <3>2. CASE z = s
      BY <1>3, <1>5, <1>7, <2>1, <3>1, <3>2 DEF Fresh
    <3>3. CASE z # s
      BY <1>1, <1>5, <2>1, <3>1, <3>3 DEF AfterFits
    <3> QED
      BY <3>2, <3>3
  <2> QED
    BY <2>1 DEF AfterFits
<1>10. GrefsOf(y) = GrefsOf(srb) /\ BufsOf(y) = BufsOf(srb)
  <2>1. \A z \in Srbs : y[z].segs = srb[z].segs
    BY <1>2, <1>3, <1>5 DEF Fresh
  <2> QED
    BY <2>1 DEF GrefsOf, BufsOf
<1>11. Owned(y)
  BY <1>1, <1>10 DEF Owned
<1> QED
  BY <1>3, <1>5, <1>6, <1>8, <1>9, <1>11 DEF WithFits, SrbsSound, y

\* The ring's window now.
Now(a, b, c) ==
  /\ a \in Nat /\ c \in Nat /\ b = Cardinality(backend.doing) /\ Window(a, b, c)
  /\ RingHas(ReadUpTo, shared, backend.reqCons, backend.doing, ipc = "response", scan.prod, a, b, c)
  /\ InFlight = Flight(shared.slot, ReadUpTo, backend.doing, a, b, c)
  /\ IsFiniteSet(InFlight) /\ Cardinality(InFlight) = a + b + c

\* There is one.
LEMMA RingNow ==
  ASSUME Types, RingFits
  PROVE  ReadUpTo \in Index /\ \E a, b, c \in Nat : Now(a, b, c)
<1>1. ReadUpTo \in Index
  BY DEF Types, ReadUpTo
<1>2. PICK a \in Nat, b \in Nat, c \in Nat :
        /\ b = Cardinality(backend.doing)
        /\ RingHas(ReadUpTo, shared, backend.reqCons, backend.doing, ipc = "response", scan.prod, a, b, c)
  BY DEF RingFits, RingHolds
<1>3. Window(a, b, c) /\ Lap(ReadUpTo, shared.reqProd, shared.rspProd, backend.reqCons, a, b, c)
      /\ Carried(shared.slot, ReadUpTo, backend.doing, a, b, c)
  BY <1>2 DEF RingHas, Lap, Window
<1>4. InFlight = Flight(shared.slot, ReadUpTo, backend.doing, a, b, c)
  BY <1>1, <1>3, InFlightIs, FlightIs
<1>5. IsFiniteSet(InFlight) /\ Cardinality(InFlight) = a + b + c
  BY <1>1, <1>2, <1>3, <1>4, FlightCounted DEF RingFits
<1> QED
  BY <1>1, <1>2, <1>3, <1>4, <1>5 DEF Now

\* What is in flight is a finite set of calls.
LEMMA InFlightSet ==
  ASSUME Types, RingFits
  PROVE  IsFiniteSet(InFlight) /\ InFlight \subseteq Calls
<1>1. PICK a \in Nat, b \in Nat, c \in Nat : Now(a, b, c)
  BY RingNow
<1>2. InFlight \subseteq Calls
  <2>1. OnSlots(shared.slot, ReadUpTo, a, b, c) \subseteq Calls
    BY <1>1 DEF Now, RingHas, Carried, CallsOn, OnSlots
  <2> QED
    BY <1>1, <2>1 DEF Now, Flight, Types
<1> QED
  BY <1>1, <1>2 DEF Now

SegsFor(x) == IF x.kind = "sync" THEN <<>> ELSE NewSegs(x.shape)
Prep(x, segs) == [x EXCEPT !.segs = segs, !.left = Total(x), !.state = "prepared"]

\* An SRB of srbs that PrepareReadWrite or PrepareSyncCache can take.
CanPrepare(y, s) ==
  /\ SrbsSound(y, InFlight) /\ Owned(y)
  /\ y[s].segs = <<>> /\ y[s].after = {} /\ y[s].state \in {"out", "fresh"}
  /\ y[s].state = "fresh" \/ \A z \in Srbs : s \notin y[z].after
  /\ y[s].kind = "sync" \/ (y[s].kind = "readWrite" /\ y[s].shape \in Shapes /\ Affordable(y[s].shape))

SegsReady(x, segs) ==
  /\ segs \in Seq(Segments) /\ DOMAIN segs \subseteq Places
  /\ x.kind = "sync" => segs = <<>>
  /\ x.kind = "readWrite" => DOMAIN segs = DOMAIN x.shape
  /\ \A k \in DOMAIN segs : segs[k].gref \in grants /\ segs[k].buf \in buffers \cup {0} /\ (segs[k].buf # 0 <=> x.shape[k])
  /\ \A j, k \in DOMAIN segs : segs[j].gref = segs[k].gref => j = k
  /\ \A j, k \in DOMAIN segs : segs[j].buf = segs[k].buf /\ segs[j].buf # 0 => j = k

\* What it takes.
LEMMA SegsForReady ==
  ASSUME Types, NEW x \in Extensions,
         x.kind = "sync" \/ (x.kind = "readWrite" /\ x.shape \in Shapes /\ Affordable(x.shape))
  PROVE  SegsReady(x, SegsFor(x))
<1>1. CASE x.kind = "sync"
  <2>1. <<>> \in Seq(Segments) /\ DOMAIN <<>> = {}
    OBVIOUS
  <2> QED
    BY <1>1, <2>1 DEF SegsReady, SegsFor
<1>2. CASE x.kind = "readWrite"
  <2>1. PICK segs : segs = NewSegs(x.shape)
    OBVIOUS
  <2>2. NewSegsFit(x.shape, segs)
    BY <1>2, <2>1, NewSegsAre
  <2>3. DOMAIN segs \subseteq Places
    BY <1>2, <2>2, ShapeIs DEF NewSegsFit
  <2>4. SegsFor(x) = segs
    BY <1>2, <2>1 DEF SegsFor
  <2>5. SegsReady(x, segs)
    BY <1>2, <2>2, <2>3 DEF SegsReady, NewSegsFit
  <2> QED
    BY <2>4, <2>5
<1> QED
  BY <1>1, <1>2

\* The segments of an SRB, if it has any, are those of its shape.
LEMMA SegsPlaced ==
  ASSUME NEW x \in Extensions, Stage(x)
  PROVE  DOMAIN x.segs \subseteq Places /\ \A k \in DOMAIN x.segs : x.segs[k] \in Segments
<1>1. CASE x.segs = <<>>
  BY <1>1
<1>2. CASE x.segs # <<>>
  <2>1. x.kind = "readWrite" /\ x.shape \in Shapes /\ DOMAIN x.segs = DOMAIN x.shape
    BY <1>2 DEF Stage, DataKinds, Busy
  <2>2. DOMAIN x.segs \subseteq Places
    BY <2>1, ShapeIs
  <2>3. x.segs \in Seq(Segments)
    BY DEF Extensions
  <2> QED
    BY <2>2, <2>3, LenProperties, ElementOfSeq
<1> QED
  BY <1>1, <1>2

\* What the segments hold are grants and buffers.
LEMMA HoldsAre ==
  ASSUME NEW x \in [Srbs -> Extensions], \A z \in Srbs : Stage(x[z])
  PROVE  Holds(GrefsOf(x), AllGrants) /\ Holds(BufsOf(x), AllBuffers)
<1>1. NumGrants \in Nat /\ NumBuffers \in Nat
  BY CrashIoAssumption
<1>2. \A n \in 0 .. NumGrants : n \in AllGrants \cup {0}
  BY <1>1 DEF AllGrants
<1>3. \A n \in 0 .. NumBuffers : n \in AllBuffers \cup {0}
  BY <1>1 DEF AllBuffers
<1>4. \A z \in Srbs : DOMAIN x[z].segs \subseteq Places /\ \A k \in DOMAIN x[z].segs : x[z].segs[k] \in Segments
  BY SegsPlaced
<1>5. \A z \in Srbs : \A k \in DOMAIN x[z].segs :
        x[z].segs[k].gref \in AllGrants \cup {0} /\ x[z].segs[k].buf \in AllBuffers \cup {0}
  BY <1>2, <1>3, <1>4 DEF Segments
<1> QED
  BY <1>4, <1>5 DEF Holds, GrefsOf, BufsOf

\* What an SRB, prepared, is, and what is left on the free lists.
PreparedSo(z, y, s, segs) ==
  /\ SrbsSound(z, InFlight)
  /\ OwnedOf(AllGrants, grants \ Grefs(segs, DOMAIN segs), GrefsOf(z))
  /\ OwnedOf(AllBuffers, buffers \ Bufs(segs, DOMAIN segs), BufsOf(z))
  /\ z[s].state = "prepared"
  /\ \A o \in Srbs : o # s => z[o] = y[o]

\* PrepareReadWrite and PrepareSyncCache.
LEMMA PreparedFits ==
  ASSUME Types, RingFits, NEW s \in Srbs, NEW y, CanPrepare(y, s), NEW segs, SegsReady(y[s], segs),
         NEW z, z = [y EXCEPT ![s] = Prep(y[s], segs)]
  PROVE  PreparedSo(z, y, s, segs)
<1>1. y \in [Srbs -> Extensions] /\ SrbsFit(y, InFlight) /\ AfterFits(y) /\ Owned(y)
  BY DEF CanPrepare, SrbsSound
<1>2. z[s] = Prep(y[s], segs) /\ (\A o \in Srbs : o # s => z[o] = y[o]) /\ DOMAIN z = Srbs
  BY <1>1
<1>3. PICK x \in Extensions : x = y[s]
  BY <1>1
<1>4. x.kind = "sync" \/ (x.kind = "readWrite" /\ x.shape \in Shapes)
  BY <1>3 DEF CanPrepare
<1>5. Total(x) \in 1 .. 2
  <2>1. CASE x.kind = "sync"
    BY <2>1 DEF Total
  <2>2. CASE x.kind # "sync"
    <3>1. x.shape \in Shapes
      BY <1>4, <2>2
    <3>2. NrRequests(Len(x.shape)) \in 1 .. 2
      BY <3>1, ShapeIs, RequestsMade
    <3> QED
      BY <2>2, <3>2 DEF Total
  <2> QED
    BY <2>1, <2>2
<1>6. PICK u : u = Prep(x, segs)
  OBVIOUS
<1>7. /\ u.kind = x.kind /\ u.shape = x.shape /\ u.segs = segs /\ u.left = Total(x) /\ u.state = "prepared"
      /\ u.after = {} /\ u \in Extensions /\ Total(u) = Total(x)
  <2>1. Total(x) \in 0 .. 2 /\ segs \in Seq(Segments) /\ "prepared" \in Queues
    BY <1>5 DEF SegsReady, Queues
  <2>2. x.after = {}
    BY <1>3 DEF CanPrepare
  <2>3. PICK t \in 0 .. 2 : t = Total(x)
    BY <2>1
  <2>4. u = [x EXCEPT !.segs = segs, !.left = t, !.state = "prepared"]
    BY <1>6, <2>3 DEF Prep
  <2>5. /\ u.kind = x.kind /\ u.shape = x.shape /\ u.segs = segs /\ u.left = t /\ u.state = "prepared"
        /\ u.after = {} /\ u \in Extensions
    BY <2>1, <2>2, <2>4 DEF Extensions
  <2> QED
    BY <2>3, <2>5 DEF Total
<1>8. Fits(u, s, InFlight)
  <2>1. Stage(u)
    BY <1>3, <1>4, <1>7 DEF Stage, Busy, DataKinds, SegsReady
  <2>2. CallsIn(InFlight, s) = {}
    <3>1. IsFiniteSet(InFlight) /\ InFlightFor(x, s, InFlight) /\ x.state # "submitted"
      BY <1>1, <1>3, InFlightSet DEF SrbsFit, Fits, CanPrepare
    <3> QED
      BY <3>1, NoneInFlight
  <2>3. InFlightFor(u, s, InFlight)
    BY <1>7, <2>2, FS_EmptySet DEF InFlightFor
  <2>4. SegsFit(u, s, InFlight)
    <3>1. 0 \notin grants
      BY CrashIoAssumption DEF Types
    <3>2. \A k \in DOMAIN segs : segs[k].gref # 0 /\ (segs[k].buf # 0 <=> u.shape[k])
      BY <1>3, <1>7, <3>1 DEF SegsReady
    <3> QED
      BY <1>7, <3>2 DEF SegsFit, SegFits
  <2> QED
    BY <2>1, <2>3, <2>4 DEF Fits
<1>9. z[s] = u
  BY <1>2, <1>3, <1>6
<1>10. SrbsFit(z, InFlight) /\ z \in [Srbs -> Extensions]
  BY <1>1, <1>2, <1>7, <1>8, <1>9 DEF SrbsFit
<1>11. AfterFits(z)
  <2>1. ASSUME NEW o \in Srbs, NEW w \in z[o].after
        PROVE  z[w].state \notin {"shutdown", "reset"} /\ (z[o].state = "out" => z[w].state \in {"out", "lost"})
    <3>1. o # s /\ z[o] = y[o]
      BY <1>2, <1>7, <1>9, <2>1
    <3>2. w \in Srbs
      BY <1>10, <2>1 DEF Extensions
    <3>3. CASE w # s
      BY <1>1, <1>2, <2>1, <3>1, <3>2, <3>3 DEF AfterFits
    <3>4. CASE w = s
      <4>1. y[s].state = "fresh"
        BY <2>1, <3>1, <3>4 DEF CanPrepare
      <4>2. y[o].state # "out"
        BY <1>1, <2>1, <3>1, <3>4, <4>1 DEF AfterFits
      <4> QED
        BY <1>7, <1>9, <3>1, <3>4, <4>2
    <3> QED
      BY <3>3, <3>4
  <2> QED
    BY <2>1 DEF AfterFits
<1>12. Holds(GrefsOf(z), AllGrants) /\ Holds(BufsOf(z), AllBuffers)
  BY <1>10, HoldsAre DEF SrbsFit, Fits
<1>13. OthersHold(GrefsOf(y), GrefsOf(z), s) /\ OthersHold(BufsOf(y), BufsOf(z), s)
  BY <1>2 DEF OthersHold, GrefsOf, BufsOf
<1>14. /\ GrefsOf(y)[s] = <<>> /\ BufsOf(y)[s] = <<>>
       /\ GrefsOf(z)[s] = [k \in DOMAIN segs |-> segs[k].gref] /\ BufsOf(z)[s] = [k \in DOMAIN segs |-> segs[k].buf]
  BY <1>7, <1>9 DEF GrefsOf, BufsOf, CanPrepare
<1>15. 0 \notin AllGrants /\ 0 \notin AllBuffers /\ grants \in SUBSET AllGrants /\ buffers \in SUBSET AllBuffers
  BY CrashIoAssumption DEF AllGrants, AllBuffers, Types
<1>16. OwnedOf(AllGrants, grants \ Grefs(segs, DOMAIN segs), GrefsOf(z))
  <2>1. OwnedOf(AllGrants, grants, GrefsOf(y))
    BY <1>1 DEF Owned, AllGrants
  <2>2. PICK g : g = GrefsOf(z)
    OBVIOUS
  <2>3. PICK f : f = GrefsOf(y)
    OBVIOUS
  <2>4. DOMAIN g[s] = DOMAIN segs /\ \A k \in DOMAIN segs : g[s][k] = segs[k].gref
    BY <1>14, <2>2
  <2>5. Took(AllGrants, grants, g, s)
    <3>1. \A k \in DOMAIN f[s] : FALSE
      BY <1>14, <2>3
    <3>2. \A k \in DOMAIN g[s] : g[s][k] \in grants \cup {0}
      BY <2>4 DEF SegsReady
    <3>3. \A j, k \in DOMAIN g[s] : g[s][j] = g[s][k] /\ g[s][j] # 0 => j = k
      BY <2>4 DEF SegsReady
    <3>4. OwnedOf(AllGrants, grants, f) /\ Holds(g, AllGrants) /\ OthersHold(f, g, s)
      BY <1>12, <1>13, <2>1, <2>2, <2>3
    <3>5. 0 \notin AllGrants /\ grants \in SUBSET AllGrants
      BY <1>15
    <3> QED
      BY <3>1, <3>2, <3>3, <3>4, <3>5, OwnerTakes
  <2>6. grants \ {g[s][k] : k \in DOMAIN g[s]} = grants \ Grefs(segs, DOMAIN segs)
    BY <1>15, <2>4 DEF Grefs
  <2> QED
    BY <2>2, <2>5, <2>6 DEF Took
<1>17. OwnedOf(AllBuffers, buffers \ Bufs(segs, DOMAIN segs), BufsOf(z))
  <2>1. OwnedOf(AllBuffers, buffers, BufsOf(y))
    BY <1>1 DEF Owned, AllBuffers
  <2>2. PICK g : g = BufsOf(z)
    OBVIOUS
  <2>3. PICK f : f = BufsOf(y)
    OBVIOUS
  <2>4. DOMAIN g[s] = DOMAIN segs /\ \A k \in DOMAIN segs : g[s][k] = segs[k].buf
    BY <1>14, <2>2
  <2>5. Took(AllBuffers, buffers, g, s)
    <3>1. \A k \in DOMAIN f[s] : FALSE
      BY <1>14, <2>3
    <3>2. \A k \in DOMAIN g[s] : g[s][k] \in buffers \cup {0}
      BY <2>4 DEF SegsReady
    <3>3. \A j, k \in DOMAIN g[s] : g[s][j] = g[s][k] /\ g[s][j] # 0 => j = k
      BY <2>4 DEF SegsReady
    <3>4. OwnedOf(AllBuffers, buffers, f) /\ Holds(g, AllBuffers) /\ OthersHold(f, g, s)
      BY <1>12, <1>13, <2>1, <2>2, <2>3
    <3>5. 0 \notin AllBuffers /\ buffers \in SUBSET AllBuffers
      BY <1>15
    <3> QED
      BY <3>1, <3>2, <3>3, <3>4, <3>5, OwnerTakes
  <2>6. buffers \ {g[s][k] : k \in DOMAIN g[s]} = buffers \ Bufs(segs, DOMAIN segs)
    BY <1>15, <2>4 DEF Bufs
  <2> QED
    BY <2>2, <2>5, <2>6 DEF Took
<1> QED
  BY <1>2, <1>7, <1>9, <1>10, <1>11, <1>16, <1>17 DEF PreparedSo, SrbsSound

\* An SRB of which the same is in flight.
LEMMA SameFlight ==
  ASSUME NEW x, NEW o, NEW flight, NEW new, Fits(x, o, flight), CallsIn(new, o) = CallsIn(flight, o)
  PROVE  Fits(x, o, new)
<1>1. \A k : [s |-> o, r |-> k] \in flight <=> [s |-> o, r |-> k] \in new
  <2>1. \A k : [s |-> o, r |-> k].s = o
    OBVIOUS
  <2>2. \A q : q.s = o => (q \in flight <=> q \in CallsIn(flight, o)) /\ (q \in new <=> q \in CallsIn(new, o))
    BY DEF CallsIn
  <2> QED
    BY <2>1, <2>2
<1>2. InFlightFor(x, o, new)
  BY DEF Fits, InFlightFor
<1>3. SegsFit(x, o, new)
  <2>1. ASSUME NEW k \in DOMAIN x.segs
        PROVE  SegFits(x, k, x.state = "prepared" \/ [s |-> o, r |-> RequestOf(k)] \in new)
    <3>1. SegFits(x, k, x.state = "prepared" \/ [s |-> o, r |-> RequestOf(k)] \in flight)
      BY DEF Fits, SegsFit
    <3> QED
      BY <1>1, <3>1 DEF SegFits
  <2> QED
    BY <2>1 DEF SegsFit
<1> QED
  BY <1>2, <1>3 DEF Fits

SegmentsOf(x, r) == {k \in DOMAIN x.segs : RequestOf(k) = r}

Answered(u, x, s, q, flight, ks) ==
  /\ u \in Extensions /\ Fits(u, s, flight \ {q}) /\ u.after = {} /\ u.state \in {"out", "submitted"}
  /\ x.state = "submitted" /\ x.after = {}
  /\ DOMAIN u.segs \subseteq DOMAIN x.segs
  /\ \A k \in DOMAIN u.segs : u.segs[k] = IF k \in ks THEN NoSeg ELSE x.segs[k]
  /\ \A k \in DOMAIN x.segs : k \in DOMAIN u.segs \/ k \in ks \/ x.segs[k] = NoSeg

\* PdoCompleteSubmittedRequest, for the request of an answer.
LEMMA CompletedFits ==
  ASSUME NEW x \in Extensions, NEW s, NEW flight, IsFiniteSet(flight), NEW q \in flight, Fits(x, s, flight), q.s = s,
         flight \subseteq Calls, NEW ks, ks = SegmentsOf(x, q.r)
  PROVE  Answered(Completed(x, ks), x, s, q, flight, ks)
<1> DEFINE others == CallsIn(flight \ {q}, s)
<1>1. IsFiniteSet(CallsIn(flight, s)) /\ q \in CallsIn(flight, s) /\ others = CallsIn(flight, s) \ {q}
  <2>1. CallsIn(flight, s) \subseteq flight /\ q \in CallsIn(flight, s)
    BY DEF CallsIn
  <2>2. IsFiniteSet(CallsIn(flight, s))
    BY <2>1, FS_Subset
  <2>3. others = CallsIn(flight, s) \ {q}
    BY DEF CallsIn
  <2> QED
    BY <2>1, <2>2, <2>3
<1>2. IsFiniteSet(others) /\ Cardinality(others) = Cardinality(CallsIn(flight, s)) - 1 /\ Cardinality(CallsIn(flight, s)) # 0
  <2>1. PICK C : C = CallsIn(flight, s)
    OBVIOUS
  <2>2. IsFiniteSet(C) /\ q \in C /\ others = C \ {q}
    BY <1>1, <2>1
  <2>3. IsFiniteSet(C \ {q}) /\ Cardinality(C \ {q}) = Cardinality(C) - 1
    BY <2>2, FS_RemoveElement
  <2>4. Cardinality(C) # 0
    BY <2>2, FS_EmptySet
  <2> QED
    BY <2>1, <2>2, <2>3, <2>4
<1>3. x.state = "submitted" /\ x.left = Cardinality(CallsIn(flight, s)) /\ \A p \in others : p.r \in 1 .. Total(x)
  BY <1>1, <1>2 DEF Fits, InFlightFor
<1>4. Stage(x) /\ SegsFit(x, s, flight) /\ x.after = {} /\ x.kind \in DataKinds
  BY <1>3 DEF Fits, Stage, Busy
<1>5. PICK t \in 0 .. 2 : t = x.left - 1 /\ t = Cardinality(others)
  <2>1. x.left \in 0 .. 2 /\ x.left # 0
    BY <1>2, <1>3 DEF Extensions
  <2> QED
    BY <1>2, <1>3, <2>1
<1>6. PICK segs : segs = [k \in DOMAIN x.segs |-> IF k \in ks THEN NoSeg ELSE x.segs[k]]
  OBVIOUS
<1>7. segs \in Seq(Segments) /\ DOMAIN segs = DOMAIN x.segs
  <2>1. x.segs \in Seq(Segments)
    BY DEF Extensions
  <2>2. PICK n \in Nat : n = Len(x.segs) /\ DOMAIN x.segs = 1 .. n
    BY <2>1, LenProperties
  <2>3. NoSeg \in Segments
    BY CrashIoAssumption DEF NoSeg, Segments
  <2>4. \A k \in 1 .. n : x.segs[k] \in Segments
    BY <2>1, <2>2, ElementOfSeq
  <2>5. segs \in [1 .. n -> Segments]
    BY <1>6, <2>2, <2>3, <2>4
  <2> QED
    BY <1>6, <2>2, <2>5
<1>8. PICK y : y = [x EXCEPT !.left = t, !.segs = segs]
  OBVIOUS
<1>9. /\ y \in Extensions /\ y.kind = x.kind /\ y.shape = x.shape /\ y.segs = segs /\ y.left = t /\ y.state = x.state
      /\ y.after = x.after
  BY <1>7, <1>8 DEF Extensions
<1>10. Completed(x, ks) = IF t = 0 THEN Done(y) ELSE y
  BY <1>5, <1>6, <1>8, <1>9 DEF Completed
<1>11. \A k \in DOMAIN x.segs : k \notin ks => ([s |-> s, r |-> RequestOf(k)] \in flight <=> [s |-> s, r |-> RequestOf(k)] \in flight \ {q})
  BY DEF SegmentsOf
<1>12. q = [s |-> s, r |-> q.r]
  BY DEF Calls
<1> HIDE DEF others
<1>13. CASE t = 0
  <2>1. others = {}
    BY <1>2, <1>5, <1>13, FS_EmptySet
  <2>2. /\ Done(y) \in Extensions /\ Fits(Done(y), s, flight \ {q})
        /\ Done(y).state = "out" /\ Done(y).after = y.after /\ Done(y).segs = <<>>
    BY <1>9, <2>1, DoneFits DEF others
  <2>3. \A k \in DOMAIN x.segs : k \in ks \/ x.segs[k] = NoSeg
    <3>1. ASSUME NEW k \in DOMAIN x.segs, k \notin ks
          PROVE  x.segs[k] = NoSeg
      <4>1. [s |-> s, r |-> RequestOf(k)] \notin flight \ {q}
        BY <2>1 DEF others, CallsIn
      <4>2. [s |-> s, r |-> RequestOf(k)] \notin flight
        BY <1>11, <3>1, <4>1
      <4> QED
        BY <1>3, <1>4, <4>2 DEF SegsFit, SegFits
    <3> QED
      BY <3>1
  <2>4. Completed(x, ks) = Done(y)
    BY <1>10, <1>13
  <2>5. Answered(Done(y), x, s, q, flight, ks)
    BY <1>3, <1>4, <1>9, <2>2, <2>3 DEF Answered
  <2> QED
    BY <2>4, <2>5
<1>14. CASE t # 0
  <2>1. Stage(y)
    <3>1. Total(y) = Total(x)
      BY <1>9 DEF Total
    <3> QED
      BY <1>3, <1>4, <1>7, <1>9, <1>14, <3>1 DEF Stage, Busy
  <2>2. InFlightFor(y, s, flight \ {q})
    <3>1. Total(y) = Total(x)
      BY <1>9 DEF Total
    <3> QED
      BY <1>3, <1>5, <1>9, <3>1 DEF InFlightFor, others
  <2>3. SegsFit(y, s, flight \ {q})
    <3>1. ASSUME NEW k \in DOMAIN x.segs
          PROVE  SegFits(y, k, [s |-> s, r |-> RequestOf(k)] \in flight \ {q})
      <4>1. CASE k \in ks
        <5>1. y.segs[k] = NoSeg
          BY <1>6, <1>9, <4>1
        <5>2. [s |-> s, r |-> RequestOf(k)] = q
          BY <1>12, <4>1 DEF SegmentsOf
        <5> QED
          BY <5>1, <5>2 DEF SegFits
      <4>2. CASE k \notin ks
        <5>1. y.segs[k] = x.segs[k]
          BY <1>6, <1>9, <4>2
        <5>2. SegFits(x, k, [s |-> s, r |-> RequestOf(k)] \in flight)
          BY <1>3, <1>4 DEF SegsFit
        <5> QED
          BY <1>9, <1>11, <4>2, <5>1, <5>2 DEF SegFits
      <4> QED
        BY <4>1, <4>2
    <3> QED
      BY <1>3, <1>7, <1>9, <3>1 DEF SegsFit
  <2>4. Completed(x, ks) = y
    BY <1>10, <1>14
  <2>5. Answered(y, x, s, q, flight, ks)
    BY <1>3, <1>4, <1>6, <1>7, <1>9, <2>1, <2>2, <2>3 DEF Answered, Fits
  <2> QED
    BY <2>4, <2>5
<1> QED
  BY <1>13, <1>14

GivenBack(y, x, s, flight, ks) ==
  /\ SrbsSound(y, flight) /\ y[s].state \in {"out", "submitted"} /\ x[s].state = "submitted"
  /\ \A o \in Srbs : o # s => y[o] = x[o]
  /\ OwnedOf(AllGrants, grants \cup Grefs(x[s].segs, ks), GrefsOf(y))
  /\ OwnedOf(AllBuffers, buffers \cup Bufs(x[s].segs, ks), BufsOf(y))

\* The answer to q is taken: q is in flight no more, and what its segments held is free.
LEMMA AnswerFits ==
  ASSUME Types, NEW x, NEW flight, SrbsSound(x, flight), Owned(x), IsFiniteSet(flight), flight \subseteq Calls,
         NEW q \in flight, NEW s \in Srbs, s = q.s, NEW ks, ks = SegmentsOf(x[s], q.r),
         NEW y, y = [x EXCEPT ![s] = Completed(x[s], ks)]
  PROVE  GivenBack(y, x, s, flight \ {q}, ks)
<1>1. x \in [Srbs -> Extensions] /\ SrbsFit(x, flight) /\ AfterFits(x) /\ Owned(x)
  BY DEF SrbsSound
<1>2. PICK v, u : v \in Extensions /\ v = x[s] /\ u = Completed(v, ks)
  BY <1>1
<1>3. Answered(u, v, s, q, flight, ks)
  BY <1>1, <1>2, CompletedFits DEF SrbsFit
<1>4. y[s] = u /\ (\A o \in Srbs : o # s => y[o] = x[o]) /\ y \in [Srbs -> Extensions]
  BY <1>1, <1>2, <1>3 DEF Answered
<1>5. \A o \in Srbs : o # s => Fits(x[o], o, flight \ {q})
  <2>1. ASSUME NEW o \in Srbs, o # s
        PROVE  Fits(x[o], o, flight \ {q})
    <3>1. CallsIn(flight \ {q}, o) = CallsIn(flight, o)
      BY <2>1 DEF CallsIn
    <3> QED
      BY <1>1, <3>1, SameFlight DEF SrbsFit
  <2> QED
    BY <2>1
<1>6. SrbsFit(y, flight \ {q})
  BY <1>3, <1>4, <1>5 DEF SrbsFit, Answered
<1>7. AfterFits(y)
  <2>1. ASSUME NEW o \in Srbs, NEW w \in y[o].after
        PROVE  y[w].state \notin {"shutdown", "reset"} /\ (y[o].state = "out" => y[w].state \in {"out", "lost"})
    <3>1. o # s /\ y[o] = x[o]
      BY <1>3, <1>4, <2>1 DEF Answered
    <3>2. w \in Srbs
      BY <1>4, <2>1 DEF Extensions
    <3>3. CASE w # s
      BY <1>1, <1>4, <2>1, <3>1, <3>2, <3>3 DEF AfterFits
    <3>4. CASE w = s
      <4>1. x[o].state # "out"
        BY <1>1, <1>2, <1>3, <2>1, <3>1, <3>4 DEF AfterFits, Answered
      <4> QED
        BY <1>3, <1>4, <3>1, <3>4, <4>1 DEF Answered
    <3> QED
      BY <3>3, <3>4
  <2> QED
    BY <2>1 DEF AfterFits
<1>8. Holds(GrefsOf(x), AllGrants) /\ Holds(BufsOf(x), AllBuffers)
  BY <1>1, HoldsAre DEF SrbsFit, Fits
<1>9. OthersHold(GrefsOf(x), GrefsOf(y), s) /\ OthersHold(BufsOf(x), BufsOf(y), s)
  BY <1>4 DEF OthersHold, GrefsOf, BufsOf
<1>10. 0 \notin AllGrants /\ 0 \notin AllBuffers /\ grants \in SUBSET AllGrants /\ buffers \in SUBSET AllBuffers
  BY CrashIoAssumption DEF AllGrants, AllBuffers, Types
<1>11. ks \in SUBSET DOMAIN v.segs
  BY <1>2 DEF SegmentsOf
<1>12. NoSeg.gref = 0 /\ NoSeg.buf = 0
  BY DEF NoSeg
<1>13. OwnedOf(AllGrants, grants \cup Grefs(v.segs, ks), GrefsOf(y))
  <2>1. PICK f, g : f = GrefsOf(x) /\ g = GrefsOf(y)
    OBVIOUS
  <2>2. /\ DOMAIN f[s] = DOMAIN v.segs /\ DOMAIN g[s] = DOMAIN u.segs
        /\ \A k \in DOMAIN v.segs : f[s][k] = v.segs[k].gref
        /\ \A k \in DOMAIN u.segs : g[s][k] = u.segs[k].gref
    BY <1>2, <1>4, <2>1 DEF GrefsOf
  <2>3. Gave(AllGrants, grants, f, g, s, ks)
    <3>1. \A k \in DOMAIN g[s] : g[s][k] = IF k \in ks THEN 0 ELSE f[s][k]
      BY <1>3, <1>12, <2>2 DEF Answered
    <3>2. \A k \in DOMAIN f[s] : k \in DOMAIN g[s] \/ k \in ks \/ f[s][k] = 0
      BY <1>3, <1>12, <2>2 DEF Answered
    <3>3. DOMAIN g[s] \subseteq DOMAIN f[s] /\ ks \in SUBSET DOMAIN f[s]
      BY <1>3, <1>11, <2>2 DEF Answered
    <3>4. OwnedOf(AllGrants, grants, f) /\ Holds(f, AllGrants) /\ OthersHold(f, g, s)
      BY <1>1, <1>8, <1>9, <2>1 DEF Owned
    <3>5. 0 \notin AllGrants /\ grants \in SUBSET AllGrants
      BY <1>10
    <3> QED
      BY <3>1, <3>2, <3>3, <3>4, <3>5, OwnerGives
  <2>4. {f[s][k] : k \in ks} \ {0} = Grefs(v.segs, ks)
    BY <1>11, <2>2 DEF Grefs
  <2> QED
    BY <2>1, <2>3, <2>4 DEF Gave
<1>14. OwnedOf(AllBuffers, buffers \cup Bufs(v.segs, ks), BufsOf(y))
  <2>1. PICK f, g : f = BufsOf(x) /\ g = BufsOf(y)
    OBVIOUS
  <2>2. /\ DOMAIN f[s] = DOMAIN v.segs /\ DOMAIN g[s] = DOMAIN u.segs
        /\ \A k \in DOMAIN v.segs : f[s][k] = v.segs[k].buf
        /\ \A k \in DOMAIN u.segs : g[s][k] = u.segs[k].buf
    BY <1>2, <1>4, <2>1 DEF BufsOf
  <2>3. Gave(AllBuffers, buffers, f, g, s, ks)
    <3>1. \A k \in DOMAIN g[s] : g[s][k] = IF k \in ks THEN 0 ELSE f[s][k]
      BY <1>3, <1>12, <2>2 DEF Answered
    <3>2. \A k \in DOMAIN f[s] : k \in DOMAIN g[s] \/ k \in ks \/ f[s][k] = 0
      BY <1>3, <1>12, <2>2 DEF Answered
    <3>3. DOMAIN g[s] \subseteq DOMAIN f[s] /\ ks \in SUBSET DOMAIN f[s]
      BY <1>3, <1>11, <2>2 DEF Answered
    <3>4. OwnedOf(AllBuffers, buffers, f) /\ Holds(f, AllBuffers) /\ OthersHold(f, g, s)
      BY <1>1, <1>8, <1>9, <2>1 DEF Owned
    <3>5. 0 \notin AllBuffers /\ buffers \in SUBSET AllBuffers
      BY <1>10
    <3> QED
      BY <3>1, <3>2, <3>3, <3>4, <3>5, OwnerGives
  <2>4. {f[s][k] : k \in ks} \ {0} = Bufs(v.segs, ks)
    BY <1>11, <2>2 DEF Bufs
  <2> QED
    BY <2>1, <2>3, <2>4 DEF Gave
<1> QED
  BY <1>2, <1>3, <1>4, <1>6, <1>7, <1>13, <1>14 DEF GivenBack, SrbsSound, Answered

\* The requests of an SRB are as many as they are.
LEMMA CallsCounted ==
  ASSUME NEW s, NEW n \in Nat
  PROVE  IsFiniteSet(CallsOf(s, n)) /\ Cardinality(CallsOf(s, n)) = n
<1> DEFINE f == [r \in 1 .. n |-> [s |-> s, r |-> r]]
<1>1. f \in Bijection(1 .. n, CallsOf(s, n))
  <2>1. f \in [1 .. n -> CallsOf(s, n)] /\ \A q \in CallsOf(s, n) : \E r \in 1 .. n : f[r] = q
    BY DEF CallsOf
  <2>2. \A i, j \in 1 .. n : f[i] = f[j] => i = j
    <3>1. \A i \in 1 .. n : f[i].r = i
      OBVIOUS
    <3> QED
      BY <3>1
  <2> HIDE DEF f
  <2> QED
    BY <2>1, <2>2, Fun_IsBij
<1>2. IsFiniteSet(1 .. n) /\ Cardinality(1 .. n) = n
  BY FS_Interval
<1> QED
  BY <1>1, <1>2, FS_Bijection, Fun_ExistsBij

Handed(y, x, s, flight) ==
  /\ SrbsSound(y, flight) /\ (\A o \in Srbs : o # s => y[o] = x[o]) /\ y[s].state = "submitted"
  /\ GrefsOf(y) = GrefsOf(x) /\ BufsOf(y) = BufsOf(x)

\* A prepared SRB goes to the backend.
LEMMA SubmittedFits ==
  ASSUME NEW x, NEW flight, SrbsSound(x, flight), IsFiniteSet(flight), NEW s \in Srbs, x[s].state = "prepared",
         NEW y, y = [x EXCEPT ![s].state = "submitted"]
  PROVE  Handed(y, x, s, flight \cup CallsOf(s, x[s].left)) /\ x[s].left \in 1 .. 2 /\ CallsIn(flight, s) = {}
<1>1. x \in [Srbs -> Extensions] /\ SrbsFit(x, flight) /\ AfterFits(x)
  BY DEF SrbsSound
<1>2. PICK v \in Extensions : v = x[s]
  BY <1>1
<1>3. Stage(v) /\ SegsFit(v, s, flight) /\ InFlightFor(v, s, flight) /\ v.state = "prepared" /\ v.after = {}
  BY <1>1, <1>2 DEF SrbsFit, Fits, Stage
<1>4. CallsIn(flight, s) = {}
  BY <1>3, NoneInFlight
<1>5. v.kind = "sync" \/ (v.kind = "readWrite" /\ v.shape \in Shapes)
  BY <1>3 DEF Stage, Busy, DataKinds
<1>6. v.left = Total(v) /\ v.left \in 1 .. 2 /\ \A k \in DOMAIN v.segs : RequestOf(k) \in 1 .. v.left
  <2>1. v.left = Total(v)
    BY <1>3 DEF Stage
  <2>2. CASE v.kind = "sync"
    BY <1>3, <2>1, <2>2 DEF Total, Stage
  <2>3. CASE v.kind = "readWrite"
    <3>1. v.shape \in Shapes /\ DOMAIN v.segs = DOMAIN v.shape
      BY <1>3, <1>5, <2>3 DEF Stage, Busy
    <3>2. PICK n \in 1 .. 2 * SegsPerRequest : n = Len(v.shape) /\ DOMAIN v.shape = 1 .. n
      BY <3>1, ShapeIs
    <3>3. NrRequests(n) \in 1 .. 2 /\ \A k \in 1 .. n : RequestOf(k) \in 1 .. NrRequests(n)
      BY RequestsMade
    <3>4. v.left = NrRequests(n)
      BY <2>1, <2>3, <3>2 DEF Total
    <3> QED
      BY <2>1, <3>1, <3>2, <3>3, <3>4
  <2> QED
    BY <1>5, <2>2, <2>3
<1>7. PICK n \in 1 .. 2 : n = v.left
  BY <1>6
<1>8. PICK new : new = flight \cup CallsOf(s, n)
  OBVIOUS
<1>9. CallsIn(new, s) = CallsOf(s, n) /\ \A o \in Srbs : o # s => CallsIn(new, o) = CallsIn(flight, o)
  <2>1. \A q \in CallsOf(s, n) : q.s = s
    BY DEF CallsOf
  <2> QED
    BY <1>4, <1>8, <2>1 DEF CallsIn
<1>10. PICK u : u = [v EXCEPT !.state = "submitted"]
  OBVIOUS
<1>11. /\ u \in Extensions /\ u.kind = v.kind /\ u.shape = v.shape /\ u.segs = v.segs /\ u.left = v.left
       /\ u.after = v.after /\ u.state = "submitted" /\ Total(u) = Total(v)
  <2>1. /\ u \in Extensions /\ u.kind = v.kind /\ u.shape = v.shape /\ u.segs = v.segs /\ u.left = v.left
        /\ u.after = v.after /\ u.state = "submitted"
    BY <1>10 DEF Extensions, Queues
  <2> QED
    BY <2>1 DEF Total
<1>12. Fits(u, s, new)
  <2>1. Stage(u)
    BY <1>3, <1>6, <1>11 DEF Stage, Busy
  <2>2. InFlightFor(u, s, new)
    <3>1. Cardinality(CallsOf(s, n)) = n
      BY CallsCounted
    <3>2. \A q \in CallsOf(s, n) : q.r \in 1 .. n
      BY DEF CallsOf
    <3> QED
      BY <1>6, <1>7, <1>9, <1>11, <3>1, <3>2 DEF InFlightFor
  <2>3. SegsFit(u, s, new)
    <3>1. ASSUME NEW k \in DOMAIN v.segs
          PROVE  SegFits(u, k, [s |-> s, r |-> RequestOf(k)] \in new)
      <4>1. [s |-> s, r |-> RequestOf(k)] \in new
        BY <1>6, <1>7, <1>8 DEF CallsOf
      <4>2. SegFits(v, k, TRUE)
        BY <1>3 DEF SegsFit, SegFits
      <4> QED
        BY <1>11, <4>1, <4>2 DEF SegFits
    <3> QED
      BY <1>11, <3>1 DEF SegsFit
  <2> QED
    BY <2>1, <2>2, <2>3 DEF Fits
<1>13. y[s] = u /\ (\A o \in Srbs : o # s => y[o] = x[o]) /\ y \in [Srbs -> Extensions]
  BY <1>1, <1>2, <1>10, <1>11
<1>14. SrbsFit(y, new)
  <2>1. \A o \in Srbs : o # s => Fits(x[o], o, new)
    BY <1>1, <1>9, SameFlight DEF SrbsFit
  <2> QED
    BY <1>12, <1>13, <2>1 DEF SrbsFit
<1>15. AfterFits(y)
  <2>1. ASSUME NEW o \in Srbs, NEW w \in y[o].after
        PROVE  y[w].state \notin {"shutdown", "reset"} /\ (y[o].state = "out" => y[w].state \in {"out", "lost"})
    <3>1. o # s /\ y[o] = x[o]
      BY <1>3, <1>11, <1>13, <2>1
    <3>2. w \in Srbs
      BY <1>13, <2>1 DEF Extensions
    <3>3. CASE w # s
      BY <1>1, <1>13, <2>1, <3>1, <3>2, <3>3 DEF AfterFits
    <3>4. CASE w = s
      <4>1. x[o].state # "out"
        BY <1>1, <1>2, <1>3, <2>1, <3>1, <3>4 DEF AfterFits
      <4> QED
        BY <1>11, <1>13, <3>1, <3>4, <4>1
    <3> QED
      BY <3>3, <3>4
  <2> QED
    BY <2>1 DEF AfterFits
<1>16. \A o \in Srbs : y[o].segs = x[o].segs
  BY <1>2, <1>11, <1>13
<1>17. GrefsOf(y) = GrefsOf(x) /\ BufsOf(y) = BufsOf(x)
  BY <1>16 DEF GrefsOf, BufsOf
<1> QED
  BY <1>2, <1>4, <1>6, <1>7, <1>8, <1>11, <1>13, <1>14, <1>15, <1>17 DEF Handed, SrbsSound

-----------------------------------------------------------------------------
(* The queues, all of them. *)

Queuing(qs, y) == qs \in [Queues -> Seq(Srbs)] /\ FitAll(qs, y)
SameState(y, x, s) == \A o \in Srbs : o # s => y[o].state = x[o].state

\* No SRB changes queue.
LEMMA AllStay ==
  ASSUME NEW qs, NEW x, NEW y, Queuing(qs, x), \A o \in Srbs : y[o].state = x[o].state \/ {y[o].state, x[o].state} \cap Queues = {}
  PROVE  Queuing(qs, y)
<1>1. ASSUME NEW q \in Queues
      PROVE  QueueFits(qs[q], y, q)
  <2>1. PICK l \in Seq(Srbs) : l = qs[q]
    BY DEF Queuing
  <2>2. \A z \in Srbs : y[z].state = q <=> x[z].state = q
    OBVIOUS
  <2> QED
    BY <2>1, <2>2, QueueStays DEF Queuing, FitAll
<1> QED
  BY <1>1 DEF Queuing, FitAll

\* One joins a queue.
LEMMA OneJoins ==
  ASSUME NEW qs, NEW x, NEW y, Queuing(qs, x), NEW q \in Queues, NEW s \in Srbs, x[s].state \notin Queues, y[s].state = q,
         SameState(y, x, s)
  PROVE  Queuing(Queued(qs, q, s), y)
<1>1. PICK l \in Seq(Srbs) : l = qs[q] /\ QueueFits(l, x, q)
  BY DEF Queuing, FitAll
<1>2. OthersStay(x, y, q, s)
  BY DEF OthersStay, SameState
<1>3. PICK m : m = Append(l, s)
  OBVIOUS
<1>4. m \in Seq(Srbs) /\ QueueFits(m, y, q)
  BY <1>1, <1>2, <1>3, QueueGrows
<1>5. Queued(qs, q, s) = [qs EXCEPT ![q] = m]
  BY <1>1, <1>3 DEF Queued
<1>6. ASSUME NEW p \in Queues, p # q
      PROVE  QueueFits(qs[p], y, p)
  <2>1. PICK k \in Seq(Srbs) : k = qs[p] /\ QueueFits(k, x, p)
    BY DEF Queuing, FitAll
  <2>2. \A z \in Srbs : y[z].state = p <=> x[z].state = p
    BY <1>6 DEF SameState
  <2> QED
    BY <2>1, <2>2, QueueStays
<1> QED
  BY <1>4, <1>5, <1>6 DEF Queuing, FitAll

\* The first leaves its queue.
LEMMA FirstLeaves ==
  ASSUME NEW qs, NEW x, NEW y, Queuing(qs, x), NEW q \in Queues, qs[q] # <<>>, NEW s, s = Head(qs[q]),
         y[s].state \notin Queues, SameState(y, x, s)
  PROVE  s \in Srbs /\ x[s].state = q /\ Queuing(Popped(qs, q), y)
<1>1. PICK l \in Seq(Srbs) : l = qs[q] /\ QueueFits(l, x, q)
  BY DEF Queuing, FitAll
<1>2. OthersStay(x, y, q, s)
  BY DEF OthersStay, SameState
<1>3. PICK m : m = Tail(l)
  OBVIOUS
<1>4. m \in Seq(Srbs) /\ QueueFits(m, y, q) /\ s \in Srbs /\ x[s].state = q
  <2>1. Splits(l, s, m) /\ y[s].state # q
    BY <1>1, <1>3 DEF Splits
  <2> QED
    BY <1>1, <1>2, <2>1, QueueDrops
<1>5. Popped(qs, q) = [qs EXCEPT ![q] = m]
  BY <1>1, <1>3 DEF Popped
<1>6. ASSUME NEW p \in Queues, p # q
      PROVE  QueueFits(qs[p], y, p)
  <2>1. PICK k \in Seq(Srbs) : k = qs[p] /\ QueueFits(k, x, p)
    BY DEF Queuing, FitAll
  <2>2. \A z \in Srbs : y[z].state = p <=> x[z].state = p
    BY <1>4, <1>6 DEF SameState
  <2> QED
    BY <2>1, <2>2, QueueStays
<1> QED
  BY <1>4, <1>5, <1>6 DEF Queuing, FitAll

\* One leaves its queue.
LEMMA OneLeaves ==
  ASSUME NEW qs, NEW x, NEW y, Queuing(qs, x), NEW q \in Queues, NEW s \in Srbs, x[s].state = q,
         y[s].state \notin Queues, SameState(y, x, s)
  PROVE  Queuing(Without(qs, q, s), y)
<1>1. PICK l \in Seq(Srbs) : l = qs[q] /\ QueueFits(l, x, q)
  BY DEF Queuing, FitAll
<1>2. OthersStay(x, y, q, s)
  BY DEF OthersStay, SameState
<1>3. PICK k \in DOMAIN l : k = (CHOOSE i \in DOMAIN l : l[i] = s) /\ l[k] = s
  BY <1>1 DEF QueueFits
<1>4. PICK m : m = RemoveAt(l, k)
  OBVIOUS
<1>5. m \in Seq(Srbs) /\ QueueFits(m, y, q)
  <2>1. y[s].state # q
    OBVIOUS
  <2> QED
    BY <1>1, <1>2, <1>3, <1>4, <2>1, QueueShrinks
<1>6. Without(qs, q, s) = [qs EXCEPT ![q] = m]
  BY <1>1, <1>3, <1>4 DEF Without
<1>7. ASSUME NEW p \in Queues, p # q
      PROVE  QueueFits(qs[p], y, p)
  <2>1. PICK j \in Seq(Srbs) : j = qs[p] /\ QueueFits(j, x, p)
    BY DEF Queuing, FitAll
  <2>2. \A z \in Srbs : y[z].state = p <=> x[z].state = p
    BY <1>7 DEF SameState
  <2> QED
    BY <2>1, <2>2, QueueStays
<1> QED
  BY <1>5, <1>6, <1>7 DEF Queuing, FitAll

\* All leave a queue.
LEMMA AllLeave ==
  ASSUME NEW qs, NEW x, NEW y, Queuing(qs, x), NEW q \in Queues,
         \A o \in Srbs : IF x[o].state = q THEN y[o].state \notin Queues ELSE y[o].state = x[o].state
  PROVE  Queuing([qs EXCEPT ![q] = <<>>], y)
<1>1. ASSUME NEW p \in Queues, p # q
      PROVE  QueueFits(qs[p], y, p)
  <2>1. PICK j \in Seq(Srbs) : j = qs[p] /\ QueueFits(j, x, p)
    BY DEF Queuing, FitAll
  <2>2. \A z \in Srbs : y[z].state = p <=> x[z].state = p
    BY <1>1
  <2> QED
    BY <2>1, <2>2, QueueStays
<1>2. <<>> \in Seq(Srbs) /\ QueueFits(<<>>, y, q)
  <2>1. \A o \in Srbs : y[o].state # q
    OBVIOUS
  <2> QED
    BY <2>1, QueueEmpty
<1> QED
  BY <1>1, <1>2 DEF Queuing, FitAll

-----------------------------------------------------------------------------
(* HwStartIo. *)

BackendTypes == [mode : {"awake", "checking", "asleep"}, event : BOOLEAN, reqCons : Index, doing : SUBSET Calls]
SameRing(b) == b \in BackendTypes /\ b.reqCons = backend.reqCons /\ b.doing = backend.doing

\* A notification changes nothing of what the backend has.
LEMMA NotifiedIs ==
  ASSUME Types
  PROVE  SameRing(backend) /\ SameRing(Notified(backend))
<1>1. PICK b \in BackendTypes : b = backend
  BY DEF Types, BackendTypes
<1>2. [b EXCEPT !.mode = "awake"] \in BackendTypes /\ [b EXCEPT !.event = TRUE] \in BackendTypes
  BY DEF BackendTypes
<1>3. /\ [b EXCEPT !.mode = "awake"].reqCons = b.reqCons /\ [b EXCEPT !.mode = "awake"].doing = b.doing
      /\ [b EXCEPT !.event = TRUE].reqCons = b.reqCons /\ [b EXCEPT !.event = TRUE].doing = b.doing
  BY DEF BackendTypes
<1>4. CASE b.mode = "asleep"
  <2>1. Notified(b) = [b EXCEPT !.mode = "awake"]
    BY <1>4 DEF Notified
  <2> QED
    BY <1>1, <1>2, <1>3, <2>1 DEF SameRing
<1>5. CASE b.mode # "asleep"
  <2>1. Notified(b) = [b EXCEPT !.event = TRUE]
    BY <1>5 DEF Notified
  <2> QED
    BY <1>1, <1>2, <1>3, <2>1 DEF SameRing
<1> QED
  BY <1>4, <1>5

\* What is in flight stays, while the driver is not at the responses.
LEMMA RingStays ==
  ASSUME RingFits, shared' = shared, priv' = priv, SameRing(backend'), ipc # "response", ipc' # "response"
  PROVE  RingFits' /\ InFlight' = InFlight
<1>1. ReadUpTo' = ReadUpTo
  BY DEF ReadUpTo
<1>2. InFlight' = InFlight
  BY <1>1 DEF InFlight, WithBackend, Unread, Unseen, SameRing
<1>3. PICK a \in Nat, b \in Nat, c \in Nat :
        /\ b = Cardinality(backend.doing)
        /\ RingHas(ReadUpTo, shared, backend.reqCons, backend.doing, FALSE, scan.prod, a, b, c)
  BY DEF RingFits, RingHolds
<1>4. RingHas(ReadUpTo, shared, backend.reqCons, backend.doing, FALSE, scan'.prod, a, b, c)
  BY <1>3 DEF RingHas
<1>5. RingHolds(ReadUpTo', shared', backend'.reqCons, backend'.doing, FALSE, scan'.prod)
  BY <1>1, <1>3, <1>4 DEF RingHolds, SameRing
<1>6. IsFiniteSet(backend.doing)' /\ (priv.reqProd = shared.reqProd)'
  BY DEF RingFits, SameRing
<1>7. (ipc' = "response") = FALSE
  OBVIOUS
<1> QED
  BY <1>2, <1>5, <1>6, <1>7 DEF RingFits

\* The parts of the invariant.
LEMMA Kept ==
  ASSUME Types', RingFits', PlaceFits', Queuing(queue', srb'), SrbsSound(srb', InFlight'),
         OwnedOf(AllGrants, grants', GrefsOf(srb')), OwnedOf(AllBuffers, buffers', BufsOf(srb'))
  PROVE  IoInv'
<1>1. QueuesFit'
  BY DEF QueuesFit, Queuing, FitAll, QueueFits
<1>2. SrbsFit(srb, InFlight)' /\ AfterFits(srb)'
  BY DEF SrbsSound, SrbsFit, AfterFits
<1>3. Owned(srb)'
  BY DEF Owned, AllGrants, AllBuffers
<1> QED
  BY <1>1, <1>2, <1>3 DEF IoInv

\* The parts of the invariant, now.
LEMMA Parts ==
  ASSUME IoInv
  PROVE  /\ Types /\ RingFits /\ PlaceFits /\ Queuing(queue, srb) /\ SrbsSound(srb, InFlight) /\ Owned(srb)
         /\ IsFiniteSet(InFlight) /\ InFlight \subseteq Calls
<1>1. Types /\ RingFits /\ PlaceFits /\ Owned(srb)
  BY DEF IoInv
<1>2. Queuing(queue, srb) /\ SrbsSound(srb, InFlight)
  BY DEF IoInv, Types, Queuing, QueuesFit, SrbsSound
<1>3. IsFiniteSet(InFlight) /\ InFlight \subseteq Calls
  BY <1>1, InFlightSet
<1> QED
  BY <1>1, <1>2, <1>3

PreparedNow(y, s) ==
  /\ SrbsSound(srb', InFlight) /\ Queuing(queue', srb') /\ srb'[s].state = "prepared"
  /\ \A o \in Srbs : o # s => srb'[o] = y[o]
  /\ OwnedOf(AllGrants, grants', GrefsOf(srb')) /\ OwnedOf(AllBuffers, buffers', BufsOf(srb'))
  /\ grants' \in SUBSET AllGrants /\ buffers' \in SUBSET AllBuffers

\* PrepareReadWrite and PrepareSyncCache, of an SRB that is on no queue of qs.
LEMMA PreparedKeeps ==
  ASSUME Types, RingFits, NEW s \in Srbs, NEW y, NEW qs, NEW w, CanPrepare(y, s), Queuing(qs, w),
         w[s].state \notin Queues, SameState(w, y, s), Prepared(s, y, qs)
  PROVE  PreparedNow(y, s)
<1>1. PICK x \in Extensions : x = y[s]
  BY DEF CanPrepare, SrbsSound
<1>2. PICK segs : segs = SegsFor(x)
  OBVIOUS
<1>3. SegsReady(x, segs)
  BY <1>1, <1>2, SegsForReady DEF CanPrepare
<1>4. PICK z : z = [y EXCEPT ![s] = Prep(x, segs)]
  OBVIOUS
<1>5. PreparedSo(z, y, s, segs)
  BY <1>1, <1>3, <1>4, PreparedFits
<1>6. /\ srb' = z /\ queue' = Queued(qs, "prepared", s)
      /\ buffers' = buffers \ Bufs(segs, DOMAIN segs) /\ grants' = grants \ Grefs(segs, DOMAIN segs)
  <2>1. (IF y[s].kind = "sync" THEN <<>> ELSE NewSegs(y[s].shape)) = segs
    BY <1>1, <1>2 DEF SegsFor
  <2>2. (IF y[s].kind = "sync" THEN 1 ELSE NrRequests(Len(y[s].shape))) = Total(x)
    BY <1>1 DEF Total
  <2>3. srb' = [y EXCEPT ![s] = [@ EXCEPT !.segs = segs, !.left = Total(x), !.state = "prepared"]]
    BY <2>1, <2>2 DEF Prepared
  <2>4. y \in [Srbs -> Extensions]
    BY DEF CanPrepare, SrbsSound
  <2> QED
    BY <1>1, <1>4, <2>1, <2>3, <2>4 DEF Prepared, Prep
<1>7. "prepared" \in Queues /\ z[s].state = "prepared" /\ SameState(z, w, s)
  BY <1>5 DEF Queues, PreparedSo, SameState
<1>8. Queuing(Queued(qs, "prepared", s), z)
  BY <1>7, OneJoins
<1>9. grants \in SUBSET AllGrants /\ buffers \in SUBSET AllBuffers
  BY DEF Types, AllGrants, AllBuffers
<1> QED
  BY <1>5, <1>6, <1>8, <1>9 DEF PreparedSo, PreparedNow

\* An SRB that is issued, before the driver does anything with it.
LEMMA IssuedIs ==
  ASSUME IoInv, NEW s \in Srbs, srb[s].state = "out", NEW kind, NEW shape \in Shapes \cup {<<>>},
         kind \in {"readWrite", "sync", "flush", "reset", "other"}, NEW x, x = Issued(kind, shape)
  PROVE  /\ x \in Extensions /\ x.kind = kind /\ x.shape = shape /\ x.segs = <<>> /\ x.after = {} /\ x.state = "out"
         /\ CallsIn(InFlight, s) = {} /\ Fresh(s, x)
<1>1. x = [kind |-> kind, shape |-> shape, segs |-> <<>>, left |-> 0, state |-> "out", after |-> {}]
  BY DEF Issued, NewSrb
<1>2. <<>> \in Seq(Segments) /\ 0 \in 0 .. 2 /\ {} \in SUBSET Srbs
  OBVIOUS
<1>3. x \in Extensions /\ x.kind = kind /\ x.shape = shape /\ x.segs = <<>> /\ x.after = {} /\ x.state = "out"
  BY <1>1, <1>2 DEF Extensions
<1>4. CallsIn(InFlight, s) = {}
  <2>1. IsFiniteSet(InFlight) /\ InFlightFor(srb[s], s, InFlight)
    BY Parts DEF SrbsSound, SrbsFit, Fits
  <2> QED
    BY <2>1, NoneInFlight
<1>5. Fits(x, s, InFlight)
  BY <1>3, <1>4, RestingFits DEF Busy
<1> QED
  BY <1>3, <1>4, <1>5 DEF Fresh

\* What an SRB that comes joins.
LEMMA IssuedQueues ==
  ASSUME IoInv, NEW s \in Srbs, srb[s].state = "out", NEW x, NEW y, WithFits(s, x, y)
  PROVE  SameState(y, srb, s) /\ (x.state \notin Queues => Queuing(queue, y))
<1>1. y[s] = x /\ SameState(y, srb, s)
  BY DEF WithFits, SameState
<1>2. ASSUME x.state \notin Queues
      PROVE  Queuing(queue, y)
  <2>1. \A o \in Srbs : y[o].state = srb[o].state \/ {y[o].state, srb[o].state} \cap Queues = {}
    BY <1>1, <1>2 DEF SameState, Queues
  <2> QED
    BY <2>1, Parts, AllStay
<1> QED
  BY <1>1, <1>2

StartTaken(s, x) ==
  /\ CanStart(s) /\ connected
  /\ Prepared(s, With(s, x), queue) /\ Io("submit") /\ then' = "startIo"
  /\ UNCHANGED <<shared, priv, scan, resetting, backend>>
StartDelayed(s, x) ==
  /\ CanStart(s) /\ connected
  /\ srb' = With(s, [x EXCEPT !.state = "fresh"]) /\ queue' = Queued(queue, "fresh", s)
  /\ backend' = Notified(backend)
  /\ UNCHANGED <<buffers, grants, ipc, then, shared, priv, scan, resetting>>

\* PdoReadWrite and PdoSyncCache: the SRB is prepared.
LEMMA StartTakenKeeps ==
  ASSUME IoInv, NEW s \in Srbs, NEW kind \in DataKinds, NEW shape \in Shapes \cup {<<>>},
         kind = "readWrite" => shape \in Shapes /\ Affordable(shape), StartTaken(s, Issued(kind, shape))
  PROVE  IoInv'
<1>1. PICK x : x = Issued(kind, shape)
  OBVIOUS
<1>2. srb[s].state = "out" /\ ipc = "idle"
  BY DEF StartTaken, CanStart
<1>3. /\ x \in Extensions /\ x.kind = kind /\ x.shape = shape /\ x.segs = <<>> /\ x.after = {} /\ x.state = "out"
      /\ Fresh(s, x)
  BY <1>1, <1>2, IssuedIs DEF DataKinds
<1>4. PICK y : y = With(s, x)
  OBVIOUS
<1>5. WithFits(s, x, y)
  BY <1>2, <1>3, <1>4, IssuedFits
<1>6. SameState(y, srb, s) /\ Queuing(queue, y)
  BY <1>2, <1>3, <1>5, IssuedQueues DEF Queues
<1>7. CanPrepare(y, s)
  BY <1>3, <1>5 DEF CanPrepare, WithFits, DataKinds
<1>8. PreparedNow(y, s)
  <2>1. y[s].state \notin Queues /\ SameState(y, y, s)
    BY <1>3, <1>5 DEF WithFits, Queues, SameState
  <2>2. Prepared(s, y, queue)
    BY <1>1, <1>4 DEF StartTaken
  <2> QED
    BY <1>6, <1>7, <2>1, <2>2, Parts, PreparedKeeps
<1>9. RingFits' /\ InFlight' = InFlight
  <2>1. shared' = shared /\ priv' = priv /\ SameRing(backend') /\ ipc' # "response"
    BY Parts, NotifiedIs DEF StartTaken, Io, SameRing
  <2> QED
    BY <1>2, <2>1, Parts, RingStays
<1>10. Types'
  BY <1>8, Parts DEF StartTaken, Io, Types, PreparedNow, SrbsSound, Queuing, AllGrants, AllBuffers
<1>11. PlaceFits'
  <2>1. \A o \in Srbs : o # s => srb'[o].state = srb[o].state
    BY <1>6, <1>8 DEF PreparedNow, SameState
  <2> QED
    BY <1>2, <2>1, Parts DEF StartTaken, Io, PlaceFits, Types
<1> QED
  BY <1>8, <1>9, <1>10, <1>11, Kept DEF PreparedNow

\* PdoReadWrite: the SRB waits on FreshSrbs.
LEMMA StartDelayedKeeps ==
  ASSUME IoInv, NEW s \in Srbs, NEW shape \in Shapes, StartDelayed(s, Issued("readWrite", shape))
  PROVE  IoInv'
<1>1. PICK x : x = Issued("readWrite", shape)
  OBVIOUS
<1>2. srb[s].state = "out" /\ ipc = "idle"
  BY DEF StartDelayed, CanStart
<1>3. /\ x \in Extensions /\ x.kind = "readWrite" /\ x.shape = shape /\ x.segs = <<>> /\ x.after = {} /\ x.state = "out"
      /\ CallsIn(InFlight, s) = {}
  BY <1>1, <1>2, IssuedIs
<1>4. PICK u : u = [x EXCEPT !.state = "fresh"]
  OBVIOUS
<1>5. /\ u \in Extensions /\ u.kind = "readWrite" /\ u.shape = shape /\ u.segs = <<>> /\ u.after = {} /\ u.state = "fresh"
  BY <1>3, <1>4 DEF Extensions, Queues
<1>6. Fresh(s, u)
  <2>1. Stage(u) /\ InFlightFor(u, s, InFlight) /\ SegsFit(u, s, InFlight)
    BY <1>3, <1>5, FS_EmptySet DEF Stage, InFlightFor, SegsFit, Busy
  <2> QED
    BY <1>5, <2>1 DEF Fresh, Fits
<1>7. PICK y : y = With(s, u)
  OBVIOUS
<1>8. WithFits(s, u, y)
  BY <1>2, <1>6, <1>7, IssuedFits
<1>9. SameState(y, srb, s)
  BY <1>2, <1>8, IssuedQueues
<1>10. srb' = y /\ queue' = Queued(queue, "fresh", s) /\ Queuing(queue', y)
  <2>1. y[s].state = "fresh" /\ "fresh" \in Queues /\ srb[s].state \notin Queues
    BY <1>2, <1>5, <1>8 DEF WithFits, Queues
  <2>2. Queuing(Queued(queue, "fresh", s), y)
    BY <1>9, <2>1, Parts, OneJoins
  <2> QED
    BY <1>1, <1>4, <1>7, <2>2 DEF StartDelayed
<1>11. RingFits' /\ InFlight' = InFlight
  <2>1. shared' = shared /\ priv' = priv /\ SameRing(backend') /\ ipc' # "response"
    BY <1>2, Parts, NotifiedIs DEF StartDelayed, SameRing
  <2> QED
    BY <1>2, <2>1, Parts, RingStays
<1>12. Types'
  <2>1. backend' \in BackendTypes
    BY Parts, NotifiedIs DEF StartDelayed, SameRing
  <2> QED
    BY <1>8, <1>10, <2>1, Parts DEF StartDelayed, Types, WithFits, SrbsSound, Queuing, BackendTypes
<1>13. PlaceFits'
  BY <1>2, <1>9, <1>10, Parts DEF StartDelayed, PlaceFits, Types, SameState
<1>14. OwnedOf(AllGrants, grants', GrefsOf(srb')) /\ OwnedOf(AllBuffers, buffers', BufsOf(srb'))
  BY <1>8, <1>10 DEF WithFits, Owned, StartDelayed
<1> QED
  BY <1>8, <1>10, <1>11, <1>12, <1>13, <1>14, Kept DEF WithFits

\* StartData is one of the two.
LEMMA StartDataKeeps ==
  ASSUME IoInv, NEW s \in Srbs, StartData(s)
  PROVE  IoInv'
<1>1. PICK shape \in Shapes \cup {<<>>}, mdl \in BOOLEAN :
        LET x == Issued(IF shape = <<>> THEN "sync" ELSE "readWrite", shape)
        IN  IF shape = <<>> \/ (mdl /\ Affordable(shape)) THEN StartTaken(s, x)
                                                      ELSE StartDelayed(s, x)
  BY DEF StartData, StartTaken, StartDelayed, Mappings
<1>2. <<>> \notin Shapes
  BY CrashIoAssumption
<1>3. CASE shape = <<>>
  BY <1>1, <1>3, StartTakenKeeps DEF DataKinds
<1>4. CASE shape # <<>> /\ mdl /\ Affordable(shape)
  BY <1>1, <1>4, StartTakenKeeps DEF DataKinds
<1>5. CASE shape # <<>> /\ ~(mdl /\ Affordable(shape))
  BY <1>1, <1>5, StartDelayedKeeps
<1> QED
  BY <1>3, <1>4, <1>5

\* An SRB that PdoStartIo completes at once.
LEMMA StartOtherKeeps ==
  ASSUME IoInv, NEW s \in Srbs, StartOther(s)
  PROVE  IoInv'
<1>1. PICK x : x = Issued("other", <<>>)
  OBVIOUS
<1>2. srb[s].state = "out" /\ ipc = "idle"
  BY DEF StartOther, CanStart
<1>3. x \in Extensions /\ x.after = {} /\ CallsIn(InFlight, s) = {}
  BY <1>1, <1>2, IssuedIs
<1>4. PICK u : u = Done(x)
  OBVIOUS
<1>5. u \in Extensions /\ Fits(u, s, InFlight) /\ u.state = "out" /\ u.after = {} /\ u.segs = <<>>
  BY <1>3, <1>4, DoneFits
<1>6. PICK y : y = With(s, u)
  OBVIOUS
<1>7. WithFits(s, u, y)
  BY <1>2, <1>5, <1>6, IssuedFits DEF Fresh
<1>8. SameState(y, srb, s) /\ Queuing(queue, y)
  BY <1>2, <1>5, <1>7, IssuedQueues DEF Queues
<1>9. srb' = y /\ queue' = queue
  BY <1>1, <1>4, <1>6 DEF StartOther
<1>10. RingFits' /\ InFlight' = InFlight
  BY <1>2, Parts, NotifiedIs, RingStays DEF StartOther
<1>11. Types'
  BY <1>7, <1>9, Parts DEF StartOther, Types, WithFits, SrbsSound
<1>12. PlaceFits'
  BY <1>2, <1>8, <1>9, Parts DEF StartOther, PlaceFits, Types, SameState
<1>13. OwnedOf(AllGrants, grants', GrefsOf(srb')) /\ OwnedOf(AllBuffers, buffers', BufsOf(srb'))
  BY <1>7, <1>9 DEF WithFits, Owned, StartOther
<1> QED
  BY <1>7, <1>8, <1>9, <1>10, <1>11, <1>12, <1>13, Kept DEF WithFits

\* PdoQueueShutdown.
LEMMA StartFlushKeeps ==
  ASSUME IoInv, NEW s \in Srbs, StartFlush(s)
  PROVE  IoInv'
<1>1. PICK x : x = Issued("flush", <<>>)
  OBVIOUS
<1>2. srb[s].state = "out" /\ ipc = "idle"
  BY DEF StartFlush, CanStart
<1>3. x \in Extensions /\ x.kind = "flush" /\ x.shape = <<>> /\ x.segs = <<>> /\ CallsIn(InFlight, s) = {}
  BY <1>1, <1>2, IssuedIs
<1>4. PICK u : u = [x EXCEPT !.after = Pending, !.state = "shutdown"]
  OBVIOUS
<1>5. u \in Extensions /\ u.kind = "flush" /\ u.segs = <<>> /\ u.after = Pending /\ u.state = "shutdown"
  <2>1. Pending \in SUBSET Srbs
    BY DEF Pending
  <2> QED
    BY <1>3, <1>4, <2>1 DEF Extensions, Queues
<1>6. Fresh(s, u)
  BY <1>3, <1>5, RestingFits DEF Fresh, Busy, DataKinds
<1>7. PICK y : y = With(s, u)
  OBVIOUS
<1>8. WithFits(s, u, y)
  BY <1>2, <1>6, <1>7, IssuedFits
<1>9. SameState(y, srb, s)
  BY <1>2, <1>8, IssuedQueues
<1>10. srb' = y /\ queue' = Queued(queue, "shutdown", s) /\ Queuing(queue', y)
  <2>1. y[s].state = "shutdown" /\ "shutdown" \in Queues /\ srb[s].state \notin Queues
    BY <1>2, <1>5, <1>8 DEF WithFits, Queues
  <2>2. Queuing(Queued(queue, "shutdown", s), y)
    BY <1>9, <2>1, Parts, OneJoins
  <2> QED
    BY <1>1, <1>4, <1>7, <2>2 DEF StartFlush
<1>11. SameRing(backend')
  BY Parts, NotifiedIs DEF StartFlush
<1>12. RingFits' /\ InFlight' = InFlight
  BY <1>2, <1>11, Parts, RingStays DEF StartFlush
<1>13. Types'
  BY <1>8, <1>10, <1>11, Parts DEF StartFlush, Types, WithFits, SrbsSound, Queuing, SameRing, BackendTypes
<1>14. PlaceFits'
  BY <1>2, <1>9, <1>10, Parts DEF StartFlush, PlaceFits, Types, SameState
<1>15. OwnedOf(AllGrants, grants', GrefsOf(srb')) /\ OwnedOf(AllBuffers, buffers', BufsOf(srb'))
  BY <1>8, <1>10 DEF WithFits, Owned, StartFlush
<1> QED
  BY <1>8, <1>10, <1>12, <1>13, <1>14, <1>15, Kept DEF WithFits

Completing(y, q) == [o \in Srbs |-> IF y[o].state = q THEN Done(y[o]) ELSE y[o]]
Emptied(z, y, q, qs, flight) ==
  /\ SrbsSound(z, flight) /\ Queuing([qs EXCEPT ![q] = <<>>], z)
  /\ GrefsOf(z) = GrefsOf(y) /\ BufsOf(z) = BufsOf(y)
  /\ \A o \in Srbs : IF y[o].state = q THEN z[o].state = "out" ELSE z[o] = y[o]

\* All the SRBs of a queue, of which nothing is in flight, are completed.
LEMMA AllComplete ==
  ASSUME NEW y, NEW flight, SrbsSound(y, flight), IsFiniteSet(flight), NEW qs, Queuing(qs, y), NEW q \in {"fresh", "shutdown"},
         \A o \in Srbs : y[o].state = q => \A w \in y[o].after : y[w].state \in {"out", "lost"}
  PROVE  Emptied(Completing(y, q), y, q, qs, flight)
<1>1. y \in [Srbs -> Extensions] /\ SrbsFit(y, flight) /\ AfterFits(y)
  BY DEF SrbsSound
<1>2. PICK z : z = Completing(y, q)
  OBVIOUS
<1>3. ASSUME NEW o \in Srbs
      PROVE  /\ z[o] \in Extensions /\ Fits(z[o], o, flight) /\ z[o].segs = y[o].segs /\ z[o].after = y[o].after
             /\ IF y[o].state = q THEN z[o].state = "out" ELSE z[o] = y[o]
  <2>1. PICK v \in Extensions : v = y[o] /\ Fits(v, o, flight)
    BY <1>1 DEF SrbsFit
  <2>2. CASE v.state = q
    <3>1. z[o] = Done(v)
      BY <1>2, <2>1, <2>2 DEF Completing
    <3>2. CallsIn(flight, o) = {}
      BY <2>1, <2>2, NoneInFlight DEF Fits
    <3>3. v.segs = <<>>
      BY <2>1, <2>2 DEF Fits, Stage, Busy
    <3> QED
      BY <2>1, <2>2, <3>1, <3>2, <3>3, DoneFits
  <2>3. CASE v.state # q
    <3>1. z[o] = v
      BY <1>2, <2>1, <2>3 DEF Completing
    <3> QED
      BY <2>1, <2>3, <3>1
  <2> QED
    BY <2>2, <2>3
<1>4. z \in [Srbs -> Extensions] /\ SrbsFit(z, flight)
  <2>1. DOMAIN z = Srbs /\ z = [o \in Srbs |-> z[o]]
    BY <1>2 DEF Completing
  <2> QED
    BY <1>3, <2>1 DEF SrbsFit
<1>5. AfterFits(z)
  <2>1. ASSUME NEW o \in Srbs, NEW w \in z[o].after
        PROVE  z[w].state \notin {"shutdown", "reset"} /\ (z[o].state = "out" => z[w].state \in {"out", "lost"})
    <3>1. w \in Srbs /\ w \in y[o].after
      BY <1>1, <1>3, <2>1 DEF Extensions
    <3>2. y[w].state \notin {"shutdown", "reset"} /\ (y[o].state = "out" => y[w].state \in {"out", "lost"})
      BY <1>1, <3>1 DEF AfterFits
    <3> QED
      BY <1>3, <3>1, <3>2
  <2> QED
    BY <2>1 DEF AfterFits
<1>6. Queuing([qs EXCEPT ![q] = <<>>], z)
  <2>1. q \in Queues
    BY DEF Queues
  <2>2. \A o \in Srbs : IF y[o].state = q THEN z[o].state \notin Queues ELSE z[o].state = y[o].state
    BY <1>3 DEF Queues
  <2> QED
    BY <2>1, <2>2, AllLeave
<1>7. GrefsOf(z) = GrefsOf(y) /\ BufsOf(z) = BufsOf(y)
  BY <1>3 DEF GrefsOf, BufsOf
<1>8. Emptied(z, y, q, qs, flight)
  BY <1>3, <1>4, <1>5, <1>6, <1>7 DEF Emptied, SrbsSound
<1> QED
  BY <1>2, <1>8

\* PdoReset begins.
LEMMA StartResetKeeps ==
  ASSUME IoInv, NEW s \in Srbs, StartReset(s)
  PROVE  IoInv'
<1>1. PICK x : x = Issued("reset", <<>>)
  OBVIOUS
<1>2. srb[s].state = "out" /\ ipc = "idle"
  BY DEF StartReset, CanStart
<1>3. x \in Extensions /\ x.kind = "reset" /\ x.shape = <<>> /\ x.segs = <<>> /\ x.after = {} /\ CallsIn(InFlight, s) = {}
  BY <1>1, <1>2, IssuedIs
<1>4. PICK u : u = [x EXCEPT !.state = "reset"]
  OBVIOUS
<1>5. u \in Extensions /\ u.kind = "reset" /\ u.segs = <<>> /\ u.after = {} /\ u.state = "reset"
  BY <1>3, <1>4 DEF Extensions, Queues
<1>6. Fresh(s, u)
  BY <1>3, <1>5, RestingFits DEF Fresh, Busy, DataKinds
<1>7. PICK y : y = With(s, u)
  OBVIOUS
<1>8. WithFits(s, u, y)
  BY <1>2, <1>6, <1>7, IssuedFits
<1>9. SameState(y, srb, s) /\ Queuing(queue, y)
  BY <1>2, <1>5, <1>8, IssuedQueues DEF Queues
<1>10. PICK z : z = Completing(y, "fresh")
  OBVIOUS
<1>11. Emptied(z, y, "fresh", queue, InFlight)
  <2>1. SrbsSound(y, InFlight)
    BY <1>8 DEF WithFits
  <2>2. \A o \in Srbs : y[o].state = "fresh" => y[o].after = {}
    BY <2>1 DEF SrbsSound, SrbsFit, Fits, Stage
  <2> QED
    BY <1>9, <1>10, <2>1, <2>2, Parts, AllComplete
<1>12. srb' = z /\ queue' = [queue EXCEPT !["fresh"] = <<>>]
  BY <1>1, <1>4, <1>7, <1>10 DEF StartReset, Completing
<1>13. RingFits' /\ InFlight' = InFlight
  BY <1>2, Parts, NotifiedIs, RingStays DEF StartReset, Io
<1>14. Types'
  BY <1>11, <1>12, Parts DEF StartReset, Types, Emptied, SrbsSound, Queuing, Io
<1>15. PlaceFits'
  <2>1. z[s].state = "reset" /\ s # "none"
    BY <1>5, <1>8, <1>11, CrashIoAssumption DEF Emptied, WithFits
  <2> QED
    BY <1>2, Parts, <1>12, <2>1 DEF StartReset, PlaceFits, Io
<1>16. OwnedOf(AllGrants, grants', GrefsOf(srb')) /\ OwnedOf(AllBuffers, buffers', BufsOf(srb'))
  BY <1>8, <1>11, <1>12 DEF WithFits, Owned, StartReset, Emptied
<1> QED
  BY <1>11, <1>12, <1>13, <1>14, <1>15, <1>16, Kept DEF Emptied

-----------------------------------------------------------------------------
(* FrontendEvtchnCallback and PdoReset. *)

\* What is in flight stays, while the driver looks for responses.
LEMMA RingLooked ==
  ASSUME RingFits, shared' = shared, backend'.reqCons = backend.reqCons, backend'.doing = backend.doing,
         priv'.reqProd = priv.reqProd, ReadUpTo' = ReadUpTo, ipc' = "response" => scan'.prod = shared.rspProd
  PROVE  RingFits' /\ InFlight' = InFlight
<1>1. InFlight' = InFlight
  BY DEF InFlight, WithBackend, Unread, Unseen
<1>2. PICK a \in Nat, b \in Nat, c \in Nat :
        /\ b = Cardinality(backend.doing)
        /\ RingHas(ReadUpTo, shared, backend.reqCons, backend.doing, ipc = "response", scan.prod, a, b, c)
  BY DEF RingFits, RingHolds
<1>3. a \in 0 .. a /\ shared.rspProd = Plus(ReadUpTo, a)
  BY <1>2 DEF RingHas, Lap
<1>4. RingHas(ReadUpTo, shared, backend.reqCons, backend.doing, ipc' = "response", scan'.prod, a, b, c)
  BY <1>2, <1>3 DEF RingHas
<1>5. RingHolds(ReadUpTo', shared', backend'.reqCons, backend'.doing, ipc' = "response", scan'.prod)
  BY <1>2, <1>4 DEF RingHolds
<1>6. IsFiniteSet(backend.doing)' /\ (priv.reqProd = shared.reqProd)'
  BY DEF RingFits
<1> QED
  BY <1>1, <1>5, <1>6 DEF RingFits

\* Nothing happens to the SRBs.
LEMMA StillKept ==
  ASSUME IoInv, Types', RingFits', PlaceFits', InFlight' = InFlight, UNCHANGED <<srb, queue, buffers, grants>>
  PROVE  IoInv'
BY Parts, Kept DEF Owned

\* HwInterrupt.
LEMMA InterruptKeeps ==
  ASSUME IoInv, Interrupt
  PROVE  IoInv'
<1>1. shared.rspProd \in Index /\ priv.rspCons \in Index
  BY Parts DEF Types
<1>2. Types'
  BY <1>1, Parts DEF Interrupt, Callback, Scan, Io, Types
<1>3. RingFits' /\ InFlight' = InFlight
  <2>1. ReadUpTo' = ReadUpTo /\ (ipc' = "response" => scan'.prod = shared.rspProd)
    BY DEF Interrupt, Callback, Scan, Io, ReadUpTo
  <2> QED
    BY <2>1, Parts, RingLooked DEF Interrupt
<1>4. PlaceFits'
  BY Parts DEF Interrupt, Callback, Scan, Io, PlaceFits
<1> QED
  BY <1>2, <1>3, <1>4, StillKept DEF Interrupt

\* PdoReset looks for responses.
LEMMA ResetLoopKeeps ==
  ASSUME IoInv, ResetLoop
  PROVE  IoInv'
<1>1. shared.rspProd \in Index /\ priv.rspCons \in Index
  BY Parts DEF Types
<1>2. Types'
  BY <1>1, Parts DEF ResetLoop, Callback, Scan, Io, Types
<1>3. RingFits' /\ InFlight' = InFlight
  <2>1. ReadUpTo' = ReadUpTo /\ (ipc' = "response" => scan'.prod = shared.rspProd)
    BY DEF ResetLoop, Callback, Scan, Io, ReadUpTo
  <2> QED
    BY <2>1, Parts, RingLooked DEF ResetLoop
<1>4. PlaceFits'
  BY Parts DEF ResetLoop, Callback, Scan, Io, PlaceFits
<1> QED
  BY <1>2, <1>3, <1>4, StillKept DEF ResetLoop

\* __FinalCheckForResponses.
LEMMA FinalCheckKeeps ==
  ASSUME IoInv, FinalCheck
  PROVE  IoInv'
<1>1. shared.rspProd \in Index /\ scan.cons \in Index /\ 0 \in Index
  BY Parts, LapInSpan DEF Types
<1>2. Types'
  BY <1>1, Parts DEF FinalCheck, Scan, NoScan, Io, Types
<1>3. RingFits' /\ InFlight' = InFlight
  <2>1. priv'.reqProd = priv.reqProd /\ priv'.rspCons = scan.cons
    BY Parts DEF FinalCheck, Types
  <2>2. ReadUpTo' = ReadUpTo /\ (ipc' = "response" => scan'.prod = shared.rspProd)
    BY <2>1 DEF FinalCheck, Scan, Io, ReadUpTo
  <2> QED
    BY <2>1, <2>2, Parts, RingLooked DEF FinalCheck
<1>4. PlaceFits'
  BY Parts DEF FinalCheck, Scan, Io, PlaceFits
<1> QED
  BY <1>2, <1>3, <1>4, StillKept DEF FinalCheck

\* The last look.
LEMMA RecheckKeeps ==
  ASSUME IoInv, Recheck
  PROVE  IoInv'
<1>1. shared.rspProd \in Index /\ priv.rspCons \in Index
  BY Parts DEF Types
<1>2. Types'
  BY <1>1, Parts DEF Recheck, Rechecked, Scan, Io, Types
<1>3. RingFits' /\ InFlight' = InFlight
  <2>1. ReadUpTo' = ReadUpTo /\ (ipc' = "response" => scan'.prod = shared.rspProd)
    BY DEF Recheck, Rechecked, Scan, Io, ReadUpTo
  <2> QED
    BY <2>1, Parts, RingLooked DEF Recheck
<1>4. PlaceFits'
  BY Parts DEF Recheck, Rechecked, Scan, Io, PlaceFits
<1> QED
  BY <1>2, <1>3, <1>4, StillKept DEF Recheck

\* PdoReset's notification.
LEMMA ResetSendKeeps ==
  ASSUME IoInv, ResetSend
  PROVE  IoInv'
<1>1. SameRing(backend')
  BY Parts, NotifiedIs DEF ResetSend
<1>2. Types'
  BY <1>1, Parts DEF ResetSend, Io, Types, SameRing, BackendTypes
<1>3. RingFits' /\ InFlight' = InFlight
  BY <1>1, Parts, RingStays DEF ResetSend, Io
<1>4. PlaceFits'
  BY Parts DEF ResetSend, Io, PlaceFits
<1> QED
  BY <1>2, <1>3, <1>4, StillKept DEF ResetSend

\* PdoReset ends.
LEMMA ResetEndKeeps ==
  ASSUME IoInv, ResetEnd
  PROVE  IoInv'
<1>1. PICK s \in Srbs : s = resetting
  BY Parts DEF ResetEnd, PlaceFits, Types
<1>2. srb[s].state = "reset" /\ SrbsSound(srb, InFlight) /\ IsFiniteSet(InFlight) /\ s # "none"
  BY <1>1, Parts, CrashIoAssumption DEF PlaceFits
<1>3. PICK x \in Extensions : x = srb[s]
  BY <1>2 DEF SrbsSound
<1>4. x.segs = <<>> /\ x.after = {} /\ x.state = "reset" /\ CallsIn(InFlight, s) = {}
  <2>1. Fits(x, s, InFlight) /\ x.state = "reset"
    BY <1>2, <1>3 DEF SrbsSound, SrbsFit
  <2> QED
    BY <1>2, <2>1, NoneInFlight DEF Fits, Stage, Busy
<1>5. PICK u : u = Done(x)
  OBVIOUS
<1>6. u \in Extensions /\ Fits(u, s, InFlight) /\ u.state = "out" /\ u.after = {} /\ u.segs = <<>>
  BY <1>4, <1>5, DoneFits
<1>7. PICK y : y = [srb EXCEPT ![s] = u]
  OBVIOUS
<1>8. y[s] = u /\ (\A o \in Srbs : o # s => y[o] = srb[o]) /\ y \in [Srbs -> Extensions] /\ srb' = y
  BY <1>1, <1>2, <1>3, <1>5, <1>6, <1>7 DEF ResetEnd, SrbsSound
<1>9. SrbsSound(y, InFlight)
  <2>1. SrbsFit(y, InFlight)
    BY <1>2, <1>6, <1>8 DEF SrbsSound, SrbsFit
  <2>2. AfterFits(y)
    <3>1. ASSUME NEW o \in Srbs, NEW w \in y[o].after
          PROVE  y[w].state \notin {"shutdown", "reset"} /\ (y[o].state = "out" => y[w].state \in {"out", "lost"})
      <4>1. o # s /\ w \in Srbs
        BY <1>6, <1>8, <3>1 DEF Extensions
      <4> QED
        BY <1>2, <1>6, <1>8, <3>1, <4>1 DEF SrbsSound, AfterFits
    <3> QED
      BY <3>1 DEF AfterFits
  <2> QED
    BY <1>8, <2>1, <2>2 DEF SrbsSound
<1>10. Queuing(queue, y)
  <2>1. \A o \in Srbs : y[o].state = srb[o].state \/ {y[o].state, srb[o].state} \cap Queues = {}
    BY <1>2, <1>6, <1>8 DEF Queues
  <2> QED
    BY <2>1, Parts, AllStay
<1>11. GrefsOf(y) = GrefsOf(srb) /\ BufsOf(y) = BufsOf(srb)
  <2>1. \A o \in Srbs : y[o].segs = srb[o].segs
    BY <1>3, <1>4, <1>6, <1>8
  <2> QED
    BY <2>1 DEF GrefsOf, BufsOf
<1>12. SameRing(backend')
  BY Parts, NotifiedIs DEF ResetEnd
<1>13. RingFits' /\ InFlight' = InFlight
  BY <1>12, Parts, RingStays DEF ResetEnd, Io
<1>14. Types'
  BY <1>8, <1>12, Parts DEF ResetEnd, Io, Types, SameRing, BackendTypes
<1>15. PlaceFits'
  BY Parts DEF ResetEnd, Io, PlaceFits
<1>16. OwnedOf(AllGrants, grants', GrefsOf(srb')) /\ OwnedOf(AllBuffers, buffers', BufsOf(srb'))
  BY <1>8, <1>11, Parts DEF Owned, ResetEnd
<1> QED
  BY <1>8, <1>9, <1>10, <1>13, <1>14, <1>15, <1>16, Kept DEF ResetEnd

\* The ring after a step that moves its window.
LEMMA RingMoves ==
  ASSUME NEW i \in Index, NEW a \in Nat, NEW b \in Nat, NEW c \in Nat, i = ReadUpTo',
         RingHas(i, shared', backend'.reqCons, backend'.doing, ipc' = "response", scan'.prod, a, b, c),
         IsFiniteSet(backend'.doing), b = Cardinality(backend'.doing), priv'.reqProd = shared'.reqProd
  PROVE  RingFits' /\ InFlight' = Flight(shared'.slot, i, backend'.doing, a, b, c)
<1>1. InFlight' = FlightOf(shared'.slot, i, shared'.reqProd, shared'.rspProd, backend'.reqCons, backend'.doing)
  BY DEF InFlight, WithBackend, FlightOf, Unread, Unseen, Segment
<1>2. Window(a, b, c) /\ Lap(i, shared'.reqProd, shared'.rspProd, backend'.reqCons, a, b, c)
  BY DEF RingHas, Lap, Window
<1>3. InFlight' = Flight(shared'.slot, i, backend'.doing, a, b, c)
  BY <1>1, <1>2, FlightIs
<1>4. RingHolds(ReadUpTo', shared', backend'.reqCons, backend'.doing, ipc' = "response", scan'.prod)
  BY DEF RingHolds
<1> QED
  BY <1>3, <1>4 DEF RingFits

\* The window moves on by the answer that is read.
LEMMA LapMoves ==
  ASSUME NEW i \in Index, NEW a \in Nat, NEW b \in Nat, NEW c \in Nat, a >= 1, NEW reqProd, NEW rspProd, NEW taken,
         Lap(i, reqProd, rspProd, taken, a, b, c), NEW k \in 0 .. a, Plus(i, k) # i
  PROVE  /\ Plus(i, 1) \in Index /\ Lap(Plus(i, 1), reqProd, rspProd, taken, a - 1, b, c)
         /\ k - 1 \in 0 .. a - 1 /\ Plus(i, k) = Plus(Plus(i, 1), k - 1)
<1>1. a + b + c <= NrEnts /\ 1 \in Nat /\ NrEnts \in Nat
  BY LapInSpan DEF Lap
<1>2. Plus(i, 1) \in Index
  <2>1. 1 \in Index
    BY <1>1, LapInSpan
  <2> QED
    BY <2>1, PlusValue DEF PlusIs
<1>3. k # 0
  BY PlusNone
<1>4. \A n \in Nat : 1 + n <= NrEnts => Plus(Plus(i, 1), n) = Plus(i, 1 + n)
  BY PlusTwice
<1>5. /\ k - 1 \in Nat /\ 1 + (k - 1) <= NrEnts /\ 1 + (k - 1) = k
      /\ a - 1 \in Nat /\ 1 + (a - 1) <= NrEnts /\ 1 + (a - 1) = a
      /\ a - 1 + b \in Nat /\ 1 + (a - 1 + b) <= NrEnts /\ 1 + (a - 1 + b) = a + b
      /\ a - 1 + b + c \in Nat /\ 1 + (a - 1 + b + c) <= NrEnts /\ 1 + (a - 1 + b + c) = a + b + c
  BY <1>1, <1>3
<1>6. /\ Plus(Plus(i, 1), k - 1) = Plus(i, k) /\ Plus(Plus(i, 1), a - 1) = Plus(i, a)
      /\ Plus(Plus(i, 1), a - 1 + b) = Plus(i, a + b) /\ Plus(Plus(i, 1), a - 1 + b + c) = Plus(i, a + b + c)
  BY <1>4, <1>5
<1>7. Lap(Plus(i, 1), reqProd, rspProd, taken, a - 1, b, c)
  BY <1>1, <1>6 DEF Lap
<1> QED
  BY <1>2, <1>5, <1>6, <1>7

\* FrontendCompleteResponses and PdoCompleteSubmittedRequest.
LEMMA ResponseKeeps ==
  ASSUME IoInv, Response
  PROVE  IoInv'
<1>1. ipc = "response" /\ scan.cons # scan.prod
  BY DEF Response
<1>2. PICK a \in Nat, b \in Nat, c \in Nat : Now(a, b, c)
  BY Parts, RingNow
<1>3. PICK i \in Index : i = ReadUpTo /\ i = scan.cons
  BY <1>1, Parts, RingNow DEF ReadUpTo
<1>4. /\ Lap(i, shared.reqProd, shared.rspProd, backend.reqCons, a, b, c) /\ Window(a, b, c)
      /\ Carried(shared.slot, i, backend.doing, a, b, c) /\ b = Cardinality(backend.doing)
      /\ InFlight = Flight(shared.slot, i, backend.doing, a, b, c)
  BY <1>2, <1>3 DEF Now, RingHas
<1>5. PICK k \in 0 .. a : scan.prod = Plus(i, k)
  BY <1>1, <1>2, <1>3 DEF Now, RingHas
<1>6. Plus(i, k) # i /\ Plus(i, 0) = i
  BY <1>1, <1>3, <1>5, PlusNone
<1>7. a >= 1 /\ k >= 1
  BY <1>5, <1>6
<1>8. PICK slot, doing : slot \in Slots /\ slot = shared.slot /\ doing = backend.doing
  BY Parts DEF Types
<1>9. PICK rsp : rsp = At(slot, i, 0)
  OBVIOUS
<1>10. PICK q : q = Call(rsp)
  OBVIOUS
<1>11. rsp = shared.slot[Slot(scan.cons)]
  BY <1>3, <1>6, <1>8, <1>9 DEF At, Pos
<1>12. PICK new : new = Put(slot, i, 0, NoSlot)
  OBVIOUS
<1>13. ReadsOne(new, slot, i, doing, q, a, b, c)
  BY <1>4, <1>7, <1>8, <1>9, <1>10, <1>12, ReadsFirst
<1>14. new = [shared.slot EXCEPT ![Slot(scan.cons)] = NoSlot]
  BY <1>3, <1>6, <1>8, <1>12 DEF Put, Pos
<1>15. q \in InFlight /\ q \in Calls
  <2>1. 0 \in Full(a, b, c)
    BY <1>7 DEF Full
  <2> QED
    BY <1>4, <1>8, <1>9, <1>10, <1>13, <2>1 DEF Flight, OnSlots, ReadsOne
<1>16. PICK s \in Srbs : s = q.s /\ s = rsp.s /\ q.r = rsp.r
  BY <1>10, <1>15 DEF Calls, Call
<1>17. PICK ks : ks = SegmentsOf(srb[s], q.r) /\ ks = CleanupRequest(s, rsp.r)
  BY <1>16 DEF CleanupRequest, SegsOf, SegmentsOf
<1>18. /\ srb' = [srb EXCEPT ![s] = Completed(srb[s], ks)]
       /\ buffers' = buffers \cup Bufs(srb[s].segs, ks) /\ grants' = grants \cup Grefs(srb[s].segs, ks)
       /\ queue' = IF srb'[s].state = "out" THEN Without(queue, "submitted", s) ELSE queue
       /\ shared' = [shared EXCEPT !.slot = new] /\ scan' = [scan EXCEPT !.cons = Plus(i, 1)]
       /\ UNCHANGED <<priv, ipc, then, resetting, backend>>
  <2>1. s # "none"
    BY CrashIoAssumption
  <2>2. shared' = [shared EXCEPT !.slot = new]
    BY <1>14 DEF Response
  <2> QED
    BY <1>3, <1>11, <1>16, <1>17, <2>1, <2>2 DEF Response
<1>19. PICK y : y = srb'
  OBVIOUS
<1>20. GivenBack(y, srb, s, InFlight \ {q}, ks)
  BY <1>15, <1>16, <1>17, <1>18, <1>19, Parts, AnswerFits
<1>21. /\ shared'.slot = new /\ shared'.reqProd = shared.reqProd /\ shared'.rspProd = shared.rspProd
       /\ shared'.reqEvent = shared.reqEvent /\ scan'.cons = Plus(i, 1) /\ scan'.prod = scan.prod
  BY <1>18, Parts DEF Types
<1>22. /\ Plus(i, 1) \in Index /\ Lap(Plus(i, 1), shared.reqProd, shared.rspProd, backend.reqCons, a - 1, b, c)
       /\ k - 1 \in 0 .. a - 1 /\ Plus(i, k) = Plus(Plus(i, 1), k - 1)
  BY <1>4, <1>6, <1>7, LapMoves
<1>23. PICK j \in Index, d \in Nat : j = Plus(i, 1) /\ d = a - 1
  BY <1>7, <1>22
<1>24. RingFits' /\ InFlight' = Flight(new, j, doing, d, b, c)
  <2>1. RingHas(j, shared', backend'.reqCons, backend'.doing, ipc' = "response", scan'.prod, d, b, c)
    BY <1>5, <1>8, <1>13, <1>18, <1>21, <1>22, <1>23 DEF RingHas, ReadsOne
  <2>2. j = ReadUpTo'
    BY <1>1, <1>18, <1>21, <1>23 DEF ReadUpTo
  <2>3. IsFiniteSet(backend'.doing) /\ b = Cardinality(backend'.doing) /\ priv'.reqProd = shared'.reqProd
    BY <1>4, <1>18, <1>21, Parts DEF RingFits
  <2>4. RingFits' /\ InFlight' = Flight(shared'.slot, j, backend'.doing, d, b, c)
    BY <2>1, <2>2, <2>3, RingMoves
  <2> QED
    BY <1>8, <1>18, <1>21, <2>4
<1>25. InFlight' = InFlight \ {q}
  BY <1>4, <1>8, <1>13, <1>23, <1>24 DEF ReadsOne
<1>26. Queuing(queue', y)
  <2>1. SameState(y, srb, s) /\ srb[s].state = "submitted" /\ y[s].state \in {"out", "submitted"}
    BY <1>20 DEF GivenBack, SameState
  <2>2. CASE y[s].state = "out"
    <3>1. Queuing(Without(queue, "submitted", s), y)
      BY <2>1, <2>2, Parts, OneLeaves DEF Queues
    <3> QED
      BY <1>18, <1>19, <2>2, <3>1
  <2>3. CASE y[s].state = "submitted"
    <3>1. \A o \in Srbs : y[o].state = srb[o].state \/ {y[o].state, srb[o].state} \cap Queues = {}
      BY <2>1, <2>3 DEF SameState
    <3>2. Queuing(queue, y)
      BY <3>1, Parts, AllStay
    <3> QED
      BY <1>18, <1>19, <2>3, <3>2
  <2> QED
    BY <2>1, <2>2, <2>3
<1>27. Types'
  <2>1. ks \subseteq DOMAIN srb[s].segs
    BY <1>17 DEF SegmentsOf
  <2>2. srb[s] \in Extensions /\ Stage(srb[s])
    BY Parts DEF SrbsSound, SrbsFit, Fits
  <2>3. \A m \in ks : srb[s].segs[m].gref \in 0 .. NumGrants /\ srb[s].segs[m].buf \in 0 .. NumBuffers
    BY <2>1, <2>2, SegsPlaced DEF Segments
  <2>4. Grefs(srb[s].segs, ks) \subseteq 1 .. NumGrants /\ Bufs(srb[s].segs, ks) \subseteq 1 .. NumBuffers
    <3>1. NumGrants \in Nat /\ NumBuffers \in Nat
      BY CrashIoAssumption
    <3> QED
      BY <2>3, <3>1 DEF Grefs, Bufs
  <2>5. shared' \in [slot : Slots, reqProd : Index, reqEvent : Index, rspProd : Index]
    BY <1>13, <1>18, Parts DEF ReadsOne, Types
  <2>6. scan' \in [cons : Index, prod : Index]
    BY <1>18, <1>22, Parts DEF Types
  <2> QED
    BY <1>18, <1>19, <1>20, <1>26, <2>4, <2>5, <2>6, Parts DEF Types, GivenBack, SrbsSound, Queuing
<1>28. PlaceFits'
  BY <1>1, <1>18, <1>19, <1>20, Parts DEF PlaceFits, GivenBack, Types
<1> QED
  BY <1>18, <1>19, <1>20, <1>24, <1>25, <1>26, <1>27, <1>28, Kept DEF GivenBack

\* The SRBs when the first of a queue has left it, and is nowhere yet.
Off(s) == [srb EXCEPT ![s].state = "lost"]

\* QueuePop, of the SRBs' queues.
LEMMA Pops ==
  ASSUME IoInv, NEW q \in Queues, queue[q] # <<>>, NEW s, s = Head(queue[q])
  PROVE  /\ s \in Srbs /\ srb[s].state = q /\ Queuing(Popped(queue, q), Off(s))
         /\ Off(s)[s].state = "lost" /\ SameState(Off(s), srb, s)
<1>1. PICK l \in Seq(Srbs) : l = queue[q]
  BY Parts DEF Queuing
<1>2. s \in Srbs
  BY <1>1, HeadTailProperties, EmptySeq
<1>3. srb \in [Srbs -> Extensions]
  BY Parts DEF Types
<1>4. PICK y : y = Off(s)
  OBVIOUS
<1>5. y[s].state = "lost" /\ SameState(y, srb, s)
  BY <1>2, <1>3, <1>4 DEF Off, SameState, Extensions
<1>6. y[s].state \notin Queues
  BY <1>5 DEF Queues
<1>7. s \in Srbs /\ srb[s].state = q /\ Queuing(Popped(queue, q), y)
  BY <1>5, <1>6, Parts, FirstLeaves
<1> QED
  BY <1>4, <1>5, <1>7

\* An SRB that still cannot be prepared is on no queue.
LEMMA LostFits ==
  ASSUME IoInv, NEW s \in Srbs, srb[s].state = "fresh"
  PROVE  SrbsSound(Off(s), InFlight) /\ GrefsOf(Off(s)) = GrefsOf(srb) /\ BufsOf(Off(s)) = BufsOf(srb)
<1>1. srb \in [Srbs -> Extensions] /\ SrbsFit(srb, InFlight) /\ AfterFits(srb) /\ IsFiniteSet(InFlight)
  BY Parts DEF SrbsSound
<1>2. PICK x \in Extensions : x = srb[s]
  BY <1>1
<1>3. x.segs = <<>> /\ x.after = {} /\ CallsIn(InFlight, s) = {}
  <2>1. Fits(x, s, InFlight) /\ x.state = "fresh"
    BY <1>1, <1>2 DEF SrbsFit
  <2> QED
    BY <1>1, <2>1, NoneInFlight DEF Fits, Stage, Busy
<1>4. PICK u : u = [x EXCEPT !.state = "lost"]
  OBVIOUS
<1>5. u \in Extensions /\ u.segs = <<>> /\ u.after = {} /\ u.state = "lost"
  BY <1>3, <1>4 DEF Extensions
<1>6. Fits(u, s, InFlight)
  BY <1>3, <1>5, RestingFits DEF Busy
<1>7. PICK y : y = Off(s)
  OBVIOUS
<1>8. y[s] = u /\ (\A o \in Srbs : o # s => y[o] = srb[o]) /\ y \in [Srbs -> Extensions]
  BY <1>1, <1>2, <1>4, <1>5, <1>7 DEF Off
<1>9. SrbsFit(y, InFlight)
  BY <1>1, <1>6, <1>8 DEF SrbsFit
<1>10. AfterFits(y)
  <2>1. ASSUME NEW o \in Srbs, NEW w \in y[o].after
        PROVE  y[w].state \notin {"shutdown", "reset"} /\ (y[o].state = "out" => y[w].state \in {"out", "lost"})
    <3>1. o # s /\ w \in Srbs
      BY <1>5, <1>8, <2>1 DEF Extensions
    <3> QED
      BY <1>1, <1>5, <1>8, <2>1, <3>1 DEF AfterFits
  <2> QED
    BY <2>1 DEF AfterFits
<1>11. \A o \in Srbs : y[o].segs = srb[o].segs
  BY <1>2, <1>3, <1>5, <1>8
<1>12. GrefsOf(y) = GrefsOf(srb) /\ BufsOf(y) = BufsOf(srb)
  BY <1>11 DEF GrefsOf, BufsOf
<1> QED
  BY <1>7, <1>8, <1>9, <1>10, <1>12 DEF SrbsSound

\* PdoPrepareFresh.
LEMMA PrepareFreshKeeps ==
  ASSUME IoInv, PrepareFresh
  PROVE  IoInv'
<1>1. ipc = "fresh" /\ queue["fresh"] # <<>> /\ "fresh" \in Queues
  BY Parts DEF PrepareFresh, PlaceFits, Queues
<1>2. PICK s : s = Head(queue["fresh"])
  OBVIOUS
<1>3. /\ s \in Srbs /\ srb[s].state = "fresh" /\ Queuing(Popped(queue, "fresh"), Off(s))
      /\ Off(s)[s].state = "lost" /\ SameState(Off(s), srb, s)
  BY <1>1, <1>2, Pops
<1>4. RingFits' /\ InFlight' = InFlight
  <2>1. shared' = shared /\ priv' = priv /\ SameRing(backend') /\ ipc' # "response"
    BY Parts, NotifiedIs DEF PrepareFresh, Io
  <2> QED
    BY <1>1, <2>1, Parts, RingStays
<1>5. /\ ipc' = IF queue'["fresh"] # <<>> THEN "fresh" ELSE "submit"
      /\ UNCHANGED <<shared, priv, then, scan, resetting, backend>>
  BY DEF PrepareFresh, Io
<1>6. ASSUME Queuing(queue', srb'), SrbsSound(srb', InFlight), \A o \in Srbs : o # s => srb'[o].state = srb[o].state,
             grants' \in SUBSET AllGrants, buffers' \in SUBSET AllBuffers,
             OwnedOf(AllGrants, grants', GrefsOf(srb')), OwnedOf(AllBuffers, buffers', BufsOf(srb'))
      PROVE  IoInv'
  <2>1. Types'
    BY <1>5, <1>6, Parts DEF Types, Queuing, SrbsSound, AllGrants, AllBuffers
  <2>2. PlaceFits'
    BY <1>1, <1>3, <1>5, <1>6, Parts DEF PlaceFits, Types
  <2> QED
    BY <1>4, <1>6, <2>1, <2>2, Kept
<1>7. CASE Affordable(srb[s].shape) /\ Prepared(s, srb, Popped(queue, "fresh"))
  <2>1. Prepared(s, srb, Popped(queue, "fresh"))
    BY <1>7
  <2>2. CanPrepare(srb, s)
    BY <1>3, <1>7, Parts DEF CanPrepare, SrbsSound, SrbsFit, Fits, Stage, Busy
  <2>3. SameState(Off(s), srb, s) /\ Off(s)[s].state \notin Queues
    BY <1>3 DEF Queues
  <2>4. PreparedNow(srb, s)
    BY <1>3, <2>1, <2>2, <2>3, Parts, PreparedKeeps
  <2> QED
    BY <1>6, <2>4 DEF PreparedNow
<1>8. CASE srb' = Off(s) /\ queue' = Popped(queue, "fresh") /\ UNCHANGED <<buffers, grants>>
  <2>1. srb' = Off(s) /\ queue' = Popped(queue, "fresh") /\ UNCHANGED <<buffers, grants>>
    BY <1>8
  <2>2. SrbsSound(Off(s), InFlight) /\ GrefsOf(Off(s)) = GrefsOf(srb) /\ BufsOf(Off(s)) = BufsOf(srb)
    BY <1>3, LostFits
  <2>3. OwnedOf(AllGrants, grants', GrefsOf(srb')) /\ OwnedOf(AllBuffers, buffers', BufsOf(srb'))
    BY <2>1, <2>2, Parts DEF Owned
  <2>4. grants' \in SUBSET AllGrants /\ buffers' \in SUBSET AllBuffers
    BY <2>1, Parts DEF Types, AllGrants, AllBuffers
  <2> QED
    BY <1>3, <1>6, <2>1, <2>2, <2>3, <2>4 DEF SameState
<1> QED
  BY <1>2, <1>7, <1>8 DEF PrepareFresh, Off

\* PdoStartIo returns, or the callback ends with PdoCompleteShutdown.
LEMMA SubmitEndsKeeps ==
  ASSUME IoInv, SubmitEnds
  PROVE  IoInv'
<1>1. ipc = "submit" /\ then' = "idle" /\ ipc' = IF then = "startIo" THEN "idle" ELSE then
  BY DEF SubmitEnds, Io
<1>2. UNCHANGED <<buffers, grants, shared, priv, scan, resetting, backend>>
  BY DEF SubmitEnds
<1>3. RingFits' /\ InFlight' = InFlight
  <2>1. shared' = shared /\ priv' = priv /\ SameRing(backend') /\ ipc' # "response"
    BY <1>1, <1>2, Parts, NotifiedIs DEF Types
  <2> QED
    BY <1>1, <2>1, Parts, RingStays
<1>4. ASSUME Queuing(queue', srb'), SrbsSound(srb', InFlight), \A o \in Srbs : srb[o].state = "reset" => srb'[o].state = "reset",
             GrefsOf(srb') = GrefsOf(srb), BufsOf(srb') = BufsOf(srb)
      PROVE  IoInv'
  <2>1. Types'
    BY <1>1, <1>2, <1>4, Parts DEF Types, Queuing, SrbsSound
  <2>2. PlaceFits'
    BY <1>1, <1>2, <1>4, Parts DEF PlaceFits, Types
  <2>3. OwnedOf(AllGrants, grants', GrefsOf(srb')) /\ OwnedOf(AllBuffers, buffers', BufsOf(srb'))
    BY <1>2, <1>4, Parts DEF Owned
  <2> QED
    BY <1>3, <1>4, <2>1, <2>2, <2>3, Kept
<1>5. CASE then # "startIo" /\ NoneBefore
  <2>1. PICK z : z = Completing(srb, "shutdown")
    OBVIOUS
  <2>2. srb' = z /\ queue' = [queue EXCEPT !["shutdown"] = <<>>]
    BY <1>5, <2>1 DEF SubmitEnds, Completing
  <2>3. \A o \in Srbs : srb[o].state \notin Queues \ {"shutdown"}
    <3>1. ASSUME NEW o \in Srbs, NEW q \in Queues \ {"shutdown"}, srb[o].state = q
          PROVE  FALSE
      <4>1. QueueFits(<<>>, srb, q)
        BY <1>5, Parts DEF NoneBefore, Queuing, FitAll
      <4> QED
        BY <3>1, <4>1 DEF QueueFits
    <3> QED
      BY <3>1
  <2>4. \A o \in Srbs : srb[o].state = "shutdown" => \A w \in srb[o].after : srb[w].state \in {"out", "lost"}
    <3>1. ASSUME NEW o \in Srbs, NEW w \in srb[o].after
          PROVE  srb[w].state \in {"out", "lost"}
      <4>1. w \in Srbs /\ srb[w] \in Extensions
        BY Parts DEF SrbsSound, Extensions
      <4>2. srb[w].state \notin {"shutdown", "reset"}
        BY <3>1, Parts DEF SrbsSound, AfterFits
      <4>3. srb[w].state \in {"out", "lost", "reset"} \cup Queues
        BY <4>1 DEF Extensions
      <4> QED
        BY <2>3, <4>1, <4>2, <4>3
    <3> QED
      BY <3>1
  <2>5. Emptied(z, srb, "shutdown", queue, InFlight)
    BY <2>1, <2>4, Parts, AllComplete
  <2> QED
    BY <1>4, <2>2, <2>5 DEF Emptied
<1>6. CASE ~(then # "startIo" /\ NoneBefore)
  BY <1>4, <1>6, Parts DEF SubmitEnds
<1> QED
  BY <1>5, <1>6

-----------------------------------------------------------------------------
(* The ring: PdoSubmitPrepared and the backend. *)

SlotWritten(slot, i, m, s, n) ==
  [x \in DOMAIN slot |->
     LET rs == {r \in 1 .. n : Slot(Plus(Plus(i, m), r - 1)) = x}
     IN  IF rs = {} THEN slot[x] ELSE [type |-> "request", s |-> s, r |-> CHOOSE r \in rs : TRUE]]

\* FrontendInsertRequestOnRing, once for each request: at the end of the window.
LEMMA WritesAt ==
  ASSUME NEW slot \in Slots, NEW i \in Index, NEW m \in Nat, NEW n \in Nat, m + n <= NrEnts, NEW s \in Srbs,
         NEW new, new = SlotWritten(slot, i, m, s, n)
  PROVE  WrittenAt(new, slot, i, m, s, n)
<1>1. ASSUME NEW r \in 1 .. n
      PROVE  /\ m + r - 1 \in 0 .. NrEnts - 1 /\ m + r - 1 \in m .. m + n - 1
             /\ Slot(Plus(Plus(i, m), r - 1)) = Pos(i, m + r - 1)
  <2>1. NrEnts \in Nat
    BY LapInSpan
  <2>2. m + r - 1 \in 0 .. NrEnts - 1 /\ r - 1 \in Nat /\ m + (r - 1) <= NrEnts /\ m + (r - 1) = m + r - 1
    BY <2>1
  <2>3. Plus(Plus(i, m), r - 1) = Plus(i, m + (r - 1))
    BY <2>2, PlusTwice
  <2> QED
    BY <2>2, <2>3 DEF Pos
<1>2. \A k \in 0 .. NrEnts - 1 : Pos(i, k) \in 0 .. NrEnts - 1
  <2>1. \A k \in 0 .. NrEnts - 1 : k \in 0 .. NrEnts
    BY LapInSpan
  <2> QED
    BY <2>1, PosOnRing
<1>3. DOMAIN slot = 0 .. NrEnts - 1
  BY DEF Slots
<1> DEFINE rs(x) == {r \in 1 .. n : Slot(Plus(Plus(i, m), r - 1)) = x}
<1>4. \A x \in 0 .. NrEnts - 1 : new[x] = IF rs(x) = {} THEN slot[x] ELSE [type |-> "request", s |-> s, r |-> CHOOSE r \in rs(x) : TRUE]
  BY <1>3 DEF SlotWritten
<1>5. \A x : \A r \in rs(x) : r \in 1 .. n /\ x = Pos(i, m + r - 1)
  BY <1>1
<1>6. \A r \in 1 .. n : r \in rs(Pos(i, m + r - 1))
  BY <1>1
<1>7. DOMAIN new = 0 .. NrEnts - 1 /\ new = [x \in 0 .. NrEnts - 1 |-> new[x]]
  BY <1>3 DEF SlotWritten
<1> HIDE DEF rs
<1>8. new \in Slots
  <2>1. ASSUME NEW x \in 0 .. NrEnts - 1
        PROVE  new[x] \in Messages
    <3>1. CASE rs(x) = {}
      BY <1>4, <3>1 DEF Slots
    <3>2. CASE rs(x) # {}
      <4>1. PICK r : r = CHOOSE e \in rs(x) : TRUE
        OBVIOUS
      <4>2. r \in rs(x)
        BY <3>2, <4>1
      <4>3. r \in Nat
        BY <1>5, <4>2
      <4>4. new[x] = [type |-> "request", s |-> s, r |-> r]
        BY <1>4, <3>2, <4>1
      <4> QED
        BY <4>3, <4>4 DEF Messages
    <3> QED
      BY <3>1, <3>2
  <2> QED
    BY <1>7, <2>1 DEF Slots
<1>9. \A r \in 1 .. n : At(new, i, m + r - 1) = Request(s, r)
  <2>1. ASSUME NEW r \in 1 .. n
        PROVE  At(new, i, m + r - 1) = Request(s, r)
    <3>1. PICK x \in 0 .. NrEnts - 1 : x = Pos(i, m + r - 1)
      BY <1>1, <1>2
    <3>2. r \in rs(x)
      BY <1>6, <3>1
    <3>3. \A p \in rs(x) : p = r
      <4>1. ASSUME NEW p \in rs(x), p # r
            PROVE  FALSE
        <5>1. p \in 1 .. n /\ Pos(i, m + p - 1) = Pos(i, m + r - 1)
          BY <1>5, <3>1
        <5>2. PICK j \in 0 .. NrEnts - 1, k \in 0 .. NrEnts - 1 : j = m + p - 1 /\ k = m + r - 1
          BY <1>1, <5>1
        <5>3. j # k
          BY <4>1, <5>1, <5>2
        <5> QED
          BY <5>1, <5>2, <5>3, PosDiffer
      <4> QED
        BY <4>1
    <3>4. PICK p : p = CHOOSE e \in rs(x) : TRUE
      OBVIOUS
    <3>5. p = r
      BY <3>2, <3>3, <3>4
    <3>6. new[x] = [type |-> "request", s |-> s, r |-> p]
      BY <1>4, <3>2, <3>4
    <3> QED
      BY <3>1, <3>5, <3>6 DEF At, Request
  <2> QED
    BY <2>1
<1>10. \A k \in 0 .. NrEnts - 1 : k \notin m .. m + n - 1 => At(new, i, k) = At(slot, i, k)
  <2>1. ASSUME NEW k \in 0 .. NrEnts - 1, k \notin m .. m + n - 1
        PROVE  At(new, i, k) = At(slot, i, k)
    <3>1. PICK x \in 0 .. NrEnts - 1 : x = Pos(i, k)
      BY <1>2
    <3>2. rs(x) = {}
      <4>1. ASSUME NEW r \in rs(x)
            PROVE  FALSE
        <5>1. r \in 1 .. n /\ Pos(i, k) = Pos(i, m + r - 1)
          BY <1>5, <3>1
        <5>2. PICK j \in 0 .. NrEnts - 1 : j = m + r - 1 /\ j \in m .. m + n - 1
          BY <1>1, <5>1
        <5>3. j # k
          BY <2>1, <5>2
        <5> QED
          BY <5>1, <5>2, <5>3, PosDiffer
      <4> QED
        BY <4>1
    <3> QED
      BY <1>4, <3>1, <3>2 DEF At
  <2> QED
    BY <2>1
<1> QED
  BY <1>8, <1>9, <1>10 DEF WrittenAt

\* FrontendCanSubmitRequest leaves room for the requests in the lap.
LEMMA RoomFor ==
  ASSUME Types, RingFits, ipc = "submit", NEW a \in Nat, NEW b \in Nat, NEW c \in Nat, Now(a, b, c), NEW n \in 1 .. 2, CanSubmit(n)
  PROVE  Window(a, b, c + n)
<1>1. PICK i \in Index : i = priv.rspCons /\ i = ReadUpTo
  BY RingNow DEF ReadUpTo
<1>2. Lap(i, shared.reqProd, shared.rspProd, backend.reqCons, a, b, c) /\ Window(a, b, c)
  BY <1>1 DEF Now, RingHas
<1>3. Minus(priv.reqProd, i) = a + b + c
  <2>1. a + b + c \in Nat /\ 0 + (a + b + c) <= NrEnts /\ 0 + (a + b + c) = a + b + c
    BY <1>2 DEF Window
  <2>2. Minus(Plus(i, 0 + (a + b + c)), Plus(i, 0)) = a + b + c
    BY <2>1, Distance
  <2> QED
    BY <1>2, <2>1, <2>2, PlusNone DEF Lap, RingFits
<1>4. NrEnts - (a + b + c) > n
  BY <1>1, <1>3 DEF CanSubmit
<1> QED
  BY <1>4, LapInSpan DEF Window

\* PdoSubmitPrepared, for one SRB.
LEMMA SubmitKeeps ==
  ASSUME IoInv, Submit
  PROVE  IoInv'
<1>1. ipc = "submit" /\ queue["prepared"] # <<>> /\ {"prepared", "submitted"} \subseteq Queues
  BY DEF Submit, Queues
<1>2. PICK s : s = Head(queue["prepared"])
  OBVIOUS
<1>3. /\ s \in Srbs /\ srb[s].state = "prepared" /\ Queuing(Popped(queue, "prepared"), Off(s))
      /\ Off(s)[s].state = "lost" /\ SameState(Off(s), srb, s)
  BY <1>1, <1>2, Pops
<1>4. PICK y : y = [srb EXCEPT ![s].state = "submitted"]
  OBVIOUS
<1>5. Handed(y, srb, s, InFlight \cup CallsOf(s, srb[s].left)) /\ srb[s].left \in 1 .. 2 /\ CallsIn(InFlight, s) = {}
  BY <1>3, <1>4, Parts, SubmittedFits
<1>6. PICK n \in 1 .. 2 : n = srb[s].left
  BY <1>5
<1>7. PICK a \in Nat, b \in Nat, c \in Nat : Now(a, b, c)
  BY Parts, RingNow
<1>8. PICK i \in Index : i = ReadUpTo /\ i = priv.rspCons
  BY <1>1, Parts, RingNow DEF ReadUpTo
<1>9. CanSubmit(n) /\ Window(a, b, c + n)
  <2>1. CanSubmit(n)
    BY <1>2, <1>6 DEF Submit
  <2> QED
    BY <1>1, <1>7, <2>1, Parts, RoomFor
<1>10. PICK m \in Nat : m = a + b + c
  OBVIOUS
<1>11. /\ Lap(i, shared.reqProd, shared.rspProd, backend.reqCons, a, b, c)
       /\ Carried(shared.slot, i, backend.doing, a, b, c) /\ b = Cardinality(backend.doing)
       /\ InFlight = Flight(shared.slot, i, backend.doing, a, b, c)
       /\ priv.reqProd = Plus(i, m) /\ m + n <= NrEnts
  BY <1>7, <1>8, <1>9, <1>10, Parts DEF Now, RingHas, Lap, RingFits, Window
<1>12. PICK slot, doing : slot \in Slots /\ slot = shared.slot /\ doing = backend.doing
  BY Parts DEF Types
<1>13. PICK new : new = SlotWritten(slot, i, m, s, n)
  OBVIOUS
<1>14. new = Written(s, n)
  BY <1>11, <1>12, <1>13 DEF Written, SlotWritten
<1>15. WrittenAt(new, slot, i, m, s, n)
  BY <1>3, <1>11, <1>12, <1>13, WritesAt
<1>16. Submits(new, slot, i, doing, s, n, a, b, c)
  <2>1. \A q \in Flight(slot, i, doing, a, b, c) : q.s # s
    BY <1>5, <1>11, <1>12 DEF CallsIn
  <2>2. WrittenAt(new, slot, i, a + b + c, s, n) /\ Carried(slot, i, doing, a, b, c)
    BY <1>10, <1>11, <1>12, <1>15
  <2> QED
    BY <1>3, <1>9, <1>12, <2>1, <2>2, SubmitsAll
<1>17. PICK to \in Index : to = Plus(i, m + n) /\ to = Plus(priv.reqProd, n)
  <2>1. m + n \in Index
    BY <1>11, LapInSpan
  <2> QED
    BY <1>11, <2>1, PlusValue, PlusTwice DEF PlusIs
<1>18. /\ shared' = [shared EXCEPT !.slot = new, !.reqProd = to] /\ priv' = [priv EXCEPT !.reqProd = to]
       /\ queue' = Queued(Popped(queue, "prepared"), "submitted", s) /\ srb' = y
       /\ SameRing(backend')
       /\ UNCHANGED <<buffers, grants, ipc, then, scan, resetting>>
  BY <1>2, <1>4, <1>6, <1>14, <1>17, Parts, NotifiedIs DEF Submit
<1>19. /\ shared'.slot = new /\ shared'.reqProd = to /\ shared'.rspProd = shared.rspProd
       /\ priv'.reqProd = to /\ priv'.rspCons = priv.rspCons
       /\ shared' \in [slot : Slots, reqProd : Index, reqEvent : Index, rspProd : Index]
       /\ priv' \in [reqProd : Index, rspCons : Index]
  BY <1>15, <1>18, Parts DEF Types, WrittenAt
<1>20. PICK d \in Nat : d = c + n
  OBVIOUS
<1>21. RingFits' /\ InFlight' = Flight(new, i, doing, a, b, d)
  <2>1. Lap(i, to, shared.rspProd, backend.reqCons, a, b, d)
    <3>1. a + b + d = m + n
      BY <1>10, <1>20
    <3> QED
      BY <1>11, <1>17, <3>1 DEF Lap
  <2>2. RingHas(i, shared', backend'.reqCons, backend'.doing, ipc' = "response", scan'.prod, a, b, d)
    BY <1>1, <1>12, <1>16, <1>18, <1>19, <1>20, <2>1 DEF RingHas, Submits, SameRing
  <2>3. i = ReadUpTo'
    BY <1>1, <1>8, <1>18, <1>19 DEF ReadUpTo
  <2>4. IsFiniteSet(backend'.doing) /\ b = Cardinality(backend'.doing) /\ priv'.reqProd = shared'.reqProd
    BY <1>11, <1>18, <1>19, Parts DEF RingFits, SameRing
  <2>5. RingFits' /\ InFlight' = Flight(shared'.slot, i, backend'.doing, a, b, d)
    BY <2>2, <2>3, <2>4, RingMoves
  <2> QED
    BY <1>12, <1>18, <1>19, <2>5 DEF SameRing
<1>22. InFlight' = InFlight \cup CallsOf(s, n)
  BY <1>11, <1>12, <1>16, <1>20, <1>21 DEF Submits
<1>23. Queuing(queue', srb')
  <2>1. SameState(y, Off(s), s) /\ y[s].state = "submitted" /\ Off(s)[s].state \notin Queues
    BY <1>3, <1>5 DEF Handed, SameState, Queues
  <2> QED
    BY <1>1, <1>3, <1>18, <2>1, OneJoins
<1>24. Types'
  BY <1>5, <1>18, <1>19, <1>23, Parts DEF Types, Handed, SrbsSound, Queuing, SameRing, BackendTypes
<1>25. PlaceFits'
  BY <1>1, <1>3, <1>5, <1>18, Parts DEF PlaceFits, Types, Handed
<1>26. OwnedOf(AllGrants, grants', GrefsOf(srb')) /\ OwnedOf(AllBuffers, buffers', BufsOf(srb'))
  BY <1>5, <1>18, Parts DEF Owned, Handed
<1> QED
  BY <1>5, <1>6, <1>18, <1>21, <1>22, <1>23, <1>24, <1>25, <1>26, Kept DEF Handed

\* One advance more.
LEMMA PlusOne ==
  ASSUME NEW i \in Index, NEW m \in Nat, m + 1 <= NrEnts
  PROVE  Plus(Plus(i, m), 1) = Plus(i, m + 1) /\ Plus(i, m + 1) \in Index
<1>1. 1 \in Nat
  OBVIOUS
<1>2. m + 1 \in Index
  BY LapInSpan
<1> QED
  BY <1>1, <1>2, PlusTwice, PlusValue DEF PlusIs

\* A step of the backend leaves the driver's SRBs as they are.
LEMMA BackendKept ==
  ASSUME IoInv, UNCHANGED driverIo, RingFits', InFlight' = InFlight, backend' \in BackendTypes,
         shared' \in [slot : Slots, reqProd : Index, reqEvent : Index, rspProd : Index]
  PROVE  IoInv'
<1>1. Types'
  BY Parts DEF driverIo, Types, BackendTypes
<1>2. PlaceFits'
  BY Parts DEF driverIo, PlaceFits
<1> QED
  BY <1>1, <1>2, StillKept DEF driverIo

\* The window as the backend's steps see it.
Seen(i, slot, doing, a, b, c) ==
  /\ i = ReadUpTo /\ slot = shared.slot /\ doing = backend.doing
  /\ Lap(i, shared.reqProd, shared.rspProd, backend.reqCons, a, b, c) /\ Window(a, b, c)
  /\ Carried(slot, i, doing, a, b, c) /\ b = Cardinality(doing) /\ IsFiniteSet(doing)
  /\ InFlight = Flight(slot, i, doing, a, b, c)
  /\ ipc = "response" => \E k \in 0 .. a : scan.prod = Plus(i, k)

\* There is one.
LEMMA SeenNow ==
  ASSUME IoInv
  PROVE  \E i \in Index, slot \in Slots, doing \in SUBSET Calls, a, b, c \in Nat : Seen(i, slot, doing, a, b, c)
<1>1. PICK a \in Nat, b \in Nat, c \in Nat : Now(a, b, c)
  BY Parts, RingNow
<1>2. PICK i \in Index : i = ReadUpTo
  BY Parts, RingNow
<1>3. PICK slot \in Slots, doing \in SUBSET Calls : slot = shared.slot /\ doing = backend.doing
  BY Parts DEF Types
<1>4. Seen(i, slot, doing, a, b, c)
  BY <1>1, <1>2, <1>3, Parts DEF Now, RingHas, Seen, RingFits
<1> QED
  BY <1>4

\* The backend takes a request.
LEMMA BackendTakesKeeps ==
  ASSUME IoInv, BackendTakes
  PROVE  IoInv'
<1>1. PICK i \in Index, slot \in Slots, doing \in SUBSET Calls, a \in Nat, b \in Nat, c \in Nat : Seen(i, slot, doing, a, b, c)
  BY SeenNow
<1>2. c >= 1
  <2>1. c # 0
    BY <1>1 DEF Seen, Lap, BackendTakes
  <2> QED
    BY <2>1
<1>3. PICK q, new : q = Call(At(slot, i, a + b)) /\ new = Put(slot, i, a + b, NoSlot)
  OBVIOUS
<1>4. Takes(new, slot, i, doing, q, a, b, c)
  BY <1>1, <1>2, <1>3, TakesOne DEF Seen
<1>5. PICK d \in Nat, e \in Nat : d = b + 1 /\ e = c - 1
  BY <1>2
<1>6. PICK next \in Index : next = Plus(backend.reqCons, 1) /\ next = Plus(i, a + d) /\ a + d + e = a + b + c
  <2>1. a + b + 1 <= NrEnts /\ a + b \in Nat /\ a + d = a + b + 1
    BY <1>1, <1>2, <1>5, LapInSpan DEF Seen, Window
  <2>2. Plus(Plus(i, a + b), 1) = Plus(i, a + b + 1) /\ Plus(i, a + b + 1) \in Index
    BY <2>1, PlusOne
  <2> QED
    BY <1>1, <1>5, <2>1, <2>2 DEF Seen, Lap
<1>7. PICK more : more = doing \cup {q}
  OBVIOUS
<1>8. /\ backend' = [backend EXCEPT !.doing = more, !.reqCons = next] /\ shared' = [shared EXCEPT !.slot = new]
      /\ UNCHANGED driverIo
  <2>1. q = [s |-> shared.slot[Slot(backend.reqCons)].s, r |-> shared.slot[Slot(backend.reqCons)].r]
    BY <1>1, <1>3 DEF Seen, Lap, At, Pos, Call
  <2>2. new = [shared.slot EXCEPT ![Slot(backend.reqCons)] = NoSlot]
    BY <1>1, <1>3 DEF Seen, Lap, Put, Pos
  <2>3. shared' = [shared EXCEPT !.slot = new]
    BY <2>2 DEF BackendTakes
  <2>4. backend' = [backend EXCEPT !.doing = more, !.reqCons = next]
    BY <1>1, <1>6, <1>7, <2>1 DEF BackendTakes, Seen
  <2> QED
    BY <2>3, <2>4 DEF BackendTakes
<1>9. more \in SUBSET Calls /\ IsFiniteSet(more) /\ Cardinality(more) = d
  <2>1. q \in Calls /\ q \notin doing
    BY <1>4 DEF Takes
  <2> QED
    BY <1>1, <1>5, <1>7, <2>1, FS_AddElement DEF Seen
<1>10. /\ backend'.doing = more /\ backend'.reqCons = next /\ backend' \in BackendTypes
       /\ shared'.slot = new /\ shared'.reqProd = shared.reqProd /\ shared'.rspProd = shared.rspProd
       /\ shared' \in [slot : Slots, reqProd : Index, reqEvent : Index, rspProd : Index]
  BY <1>4, <1>8, <1>9, Parts DEF Types, BackendTypes, Takes
<1>11. Lap(i, shared.reqProd, shared.rspProd, next, a, d, e)
  <2>1. a + d + e <= NrEnts /\ a + d + e = a + b + c
    BY <1>1, <1>6 DEF Seen, Window
  <2> QED
    BY <1>1, <1>6, <2>1 DEF Seen, Lap
<1>12. RingHas(i, shared', backend'.reqCons, backend'.doing, ipc' = "response", scan'.prod, a, d, e)
  BY <1>1, <1>4, <1>5, <1>7, <1>8, <1>10, <1>11 DEF RingHas, Takes, Seen, driverIo
<1>13. i = ReadUpTo' /\ priv'.reqProd = shared'.reqProd
  BY <1>1, <1>8, <1>10, Parts DEF Seen, ReadUpTo, driverIo, RingFits
<1>14. RingFits' /\ InFlight' = Flight(shared'.slot, i, backend'.doing, a, d, e)
  BY <1>9, <1>10, <1>12, <1>13, RingMoves
<1>15. InFlight' = InFlight
  BY <1>1, <1>4, <1>5, <1>7, <1>10, <1>14 DEF Seen, Takes
<1> QED
  BY <1>8, <1>10, <1>14, <1>15, BackendKept

\* A step of the backend that leaves its requests and the ring's.
LEMMA BackendStays ==
  ASSUME IoInv, UNCHANGED driverIo, SameRing(backend'),
         shared'.slot = shared.slot, shared'.reqProd = shared.reqProd, shared'.rspProd = shared.rspProd,
         shared' \in [slot : Slots, reqProd : Index, reqEvent : Index, rspProd : Index]
  PROVE  IoInv'
<1>1. PICK i \in Index, slot \in Slots, doing \in SUBSET Calls, a \in Nat, b \in Nat, c \in Nat : Seen(i, slot, doing, a, b, c)
  BY SeenNow
<1>2. RingHas(i, shared', backend'.reqCons, backend'.doing, ipc' = "response", scan'.prod, a, b, c)
  BY <1>1 DEF RingHas, Seen, driverIo, SameRing
<1>3. i = ReadUpTo' /\ priv'.reqProd = shared'.reqProd
  BY <1>1, Parts DEF Seen, ReadUpTo, driverIo, RingFits
<1>4. IsFiniteSet(backend'.doing) /\ b = Cardinality(backend'.doing)
  BY <1>1 DEF Seen, SameRing
<1>5. RingFits' /\ InFlight' = Flight(shared'.slot, i, backend'.doing, a, b, c)
  BY <1>2, <1>3, <1>4, RingMoves
<1>6. InFlight' = InFlight
  BY <1>1, <1>5 DEF Seen, SameRing
<1> QED
  BY <1>5, <1>6, BackendKept DEF SameRing

\* The backend asks for an event.
LEMMA BackendAsksKeeps ==
  ASSUME IoInv, BackendAsks
  PROVE  IoInv'
<1>1. PICK x : x = Plus(backend.reqCons, 1)
  OBVIOUS
<1>2. x \in Index
  <2>1. 1 \in Index /\ backend.reqCons \in Index
    BY Parts, LapInSpan DEF Types
  <2> QED
    BY <1>1, <2>1, PlusValue DEF PlusIs
<1>3. shared' = [shared EXCEPT !.reqEvent = x] /\ backend' = [backend EXCEPT !.mode = "checking"] /\ UNCHANGED driverIo
  BY <1>1 DEF BackendAsks
<1>4. /\ shared'.slot = shared.slot /\ shared'.reqProd = shared.reqProd /\ shared'.rspProd = shared.rspProd
      /\ shared' \in [slot : Slots, reqProd : Index, reqEvent : Index, rspProd : Index]
  BY <1>2, <1>3, Parts DEF Types
<1>5. SameRing(backend')
  BY <1>3, Parts DEF SameRing, Types, BackendTypes
<1> QED
  BY <1>3, <1>4, <1>5, BackendStays

\* The backend sleeps, or goes on.
LEMMA BackendSleepsKeeps ==
  ASSUME IoInv, BackendSleeps
  PROVE  IoInv'
<1>1. PICK mode, event : /\ mode = IF backend.reqCons # shared.reqProd \/ backend.event THEN "awake" ELSE "asleep"
                         /\ event = (backend.reqCons # shared.reqProd /\ backend.event)
  OBVIOUS
<1>2. backend' = [backend EXCEPT !.mode = mode, !.event = event] /\ shared' = shared /\ UNCHANGED driverIo
  BY <1>1 DEF BackendSleeps
<1>3. mode \in {"awake", "checking", "asleep"} /\ event \in BOOLEAN
  BY <1>1
<1>4. SameRing(backend')
  BY <1>2, <1>3, Parts DEF SameRing, Types, BackendTypes
<1>5. shared \in [slot : Slots, reqProd : Index, reqEvent : Index, rspProd : Index]
  BY Parts DEF Types
<1> QED
  BY <1>2, <1>4, <1>5, BackendStays

\* The backend answers a request.
LEMMA BackendAnswersKeeps ==
  ASSUME IoInv, BackendAnswers
  PROVE  IoInv'
<1>1. PICK i \in Index, slot \in Slots, doing \in SUBSET Calls, a \in Nat, b \in Nat, c \in Nat : Seen(i, slot, doing, a, b, c)
  BY SeenNow
<1>2. PICK q \in doing :
       /\ backend' = [backend EXCEPT !.doing = @ \ {q}]
       /\ shared' = [shared EXCEPT !.slot[Slot(shared.rspProd)] = [type |-> "response", s |-> q.s, r |-> q.r],
                                   !.rspProd = Plus(@, 1)]
       /\ UNCHANGED driverIo
  BY <1>1 DEF BackendAnswers, Seen
<1>3. PICK less : less = doing \ {q}
  OBVIOUS
<1>4. b >= 1 /\ IsFiniteSet(less) /\ Cardinality(less) = b - 1
  <2>1. Cardinality(less) = b - 1 /\ IsFiniteSet(less)
    BY <1>1, <1>3, FS_RemoveElement DEF Seen
  <2>2. Cardinality(less) \in Nat
    BY <2>1, FS_CardinalityType
  <2> QED
    BY <2>1, <2>2
<1>5. PICK d \in Nat, e \in Nat : d = a + 1 /\ e = b - 1
  BY <1>4
<1>6. PICK new : new = Put(slot, i, a, AnswerTo(q))
  OBVIOUS
<1>7. AnswersOne(new, slot, i, doing, q, a, b, c)
  BY <1>1, <1>4, <1>6, AnswersAny DEF Seen
<1>8. PICK next \in Index : next = Plus(shared.rspProd, 1) /\ next = Plus(i, d)
  <2>1. a + 1 <= NrEnts
    BY <1>1, <1>4, LapInSpan DEF Seen, Window
  <2> QED
    BY <1>1, <1>5, <2>1, PlusOne DEF Seen, Lap
<1>9. /\ backend' = [backend EXCEPT !.doing = less]
      /\ shared' = [shared EXCEPT !.slot = new, !.rspProd = next]
  <2>1. new = [shared.slot EXCEPT ![Slot(shared.rspProd)] = [type |-> "response", s |-> q.s, r |-> q.r]]
    BY <1>1, <1>6 DEF Seen, Lap, Put, Pos, AnswerTo
  <2> QED
    BY <1>1, <1>2, <1>3, <1>8, <2>1 DEF Seen
<1>10. /\ backend'.doing = less /\ backend'.reqCons = backend.reqCons /\ backend' \in BackendTypes
       /\ shared'.slot = new /\ shared'.reqProd = shared.reqProd /\ shared'.rspProd = next
       /\ shared' \in [slot : Slots, reqProd : Index, reqEvent : Index, rspProd : Index]
  BY <1>1, <1>3, <1>7, <1>9, Parts DEF Types, BackendTypes, AnswersOne, Seen
<1>11. Lap(i, shared.reqProd, next, backend.reqCons, d, e, c)
  <2>1. d + e + c = a + b + c /\ d + e = a + b /\ a + b + c <= NrEnts
    BY <1>1, <1>5 DEF Seen, Window
  <2> QED
    BY <1>1, <1>8, <2>1 DEF Seen, Lap
<1>12. ipc = "response" => \E k \in 0 .. d : scan.prod = Plus(i, k)
  <2>1. \A k \in 0 .. a : k \in 0 .. d
    BY <1>5
  <2> QED
    BY <1>1, <2>1 DEF Seen
<1>13. RingHas(i, shared', backend'.reqCons, backend'.doing, ipc' = "response", scan'.prod, d, e, c)
  BY <1>2, <1>3, <1>5, <1>7, <1>10, <1>11, <1>12 DEF RingHas, AnswersOne, driverIo
<1>14. i = ReadUpTo' /\ priv'.reqProd = shared'.reqProd
  BY <1>1, <1>2, <1>10, Parts DEF Seen, ReadUpTo, driverIo, RingFits
<1>15. RingFits' /\ InFlight' = Flight(shared'.slot, i, backend'.doing, d, e, c)
  BY <1>4, <1>5, <1>10, <1>13, <1>14, RingMoves
<1>16. InFlight' = InFlight
  BY <1>1, <1>3, <1>5, <1>7, <1>10, <1>15 DEF Seen, AnswersOne
<1> QED
  BY <1>2, <1>10, <1>15, <1>16, BackendKept

-----------------------------------------------------------------------------
(* The theorems. *)

\* The empty ring, and SRBs that are not issued.
LEMMA IoInitHolds ==
  ASSUME IoInit
  PROVE  IoInv
<1>1. /\ NrEnts \in Nat \ {0} /\ NumGrants \in Nat /\ NumBuffers \in Nat /\ 0 \in Index /\ 1 \in Index
  BY LapInSpan, CrashIoAssumption DEF Index
<1>2. PICK slot : slot = [j \in 0 .. NrEnts - 1 |-> NoSlot]
  OBVIOUS
<1>3. slot \in Slots
  BY <1>2, NoSlotIs DEF Slots
<1>4. PICK new : new = [kind |-> "none", shape |-> <<>>, segs |-> <<>>, left |-> 0, state |-> "out", after |-> {}]
  OBVIOUS
<1>5. new \in Extensions /\ new.kind = "none" /\ new.segs = <<>> /\ new.state = "out" /\ new.after = {}
  <2>1. <<>> \in Seq(Segments) /\ 0 \in 0 .. 2 /\ {} \in SUBSET Srbs
    OBVIOUS
  <2> QED
    BY <1>4, <2>1 DEF Extensions
<1>6. /\ srb = [s \in Srbs |-> new] /\ queue = [q \in Queues |-> <<>>]
      /\ buffers = AllBuffers /\ grants = AllGrants
      /\ shared = [slot |-> slot, reqProd |-> 0, reqEvent |-> 1, rspProd |-> 0]
      /\ priv = [reqProd |-> 0, rspCons |-> 0] /\ ipc = "idle" /\ then = "idle"
      /\ scan = [cons |-> 0, prod |-> 0] /\ resetting = "none"
      /\ backend = [mode |-> "asleep", event |-> FALSE, reqCons |-> 0, doing |-> {}]
  BY <1>2, <1>4 DEF IoInit, NewSrb, NoScan, AllBuffers, AllGrants
<1>7. Types
  <2>1. queue \in [Queues -> Seq(Srbs)]
    BY <1>6
  <2> QED
    BY <1>1, <1>3, <1>5, <1>6, <2>1 DEF Types, AllGrants, AllBuffers
<1>8. /\ Lap(0, 0, 0, 0, 0, 0, 0) /\ Window(0, 0, 0) /\ Carried(slot, 0, {}, 0, 0, 0) /\ Flight(slot, 0, {}, 0, 0, 0) = {}
  <2>1. Plus(0, 0) = 0
    BY <1>1, PlusNone
  <2>2. 0 + 0 = 0 /\ 0 + 0 + 0 = 0 /\ 0 <= NrEnts
    BY <1>1
  <2>3. Full(0, 0, 0) = {} /\ (0 .. 0 - 1) = {} /\ (0 + 0 .. 0 + 0 + 0 - 1) = {} /\ (0 .. 0 + 0 - 1) = {}
    BY DEF Full
  <2> QED
    BY <2>1, <2>2, <2>3 DEF Lap, Window, Carried, Answers, Asked, CallsOn, Distinct, Flight, OnSlots
<1>9. RingFits
  <2>1. IsFiniteSet({}) /\ Cardinality({}) = 0
    BY FS_EmptySet
  <2>2. RingHas(0, shared, 0, {}, FALSE, 0, 0, 0, 0)
    BY <1>6, <1>8 DEF RingHas
  <2>3. RingHolds(0, shared, 0, {}, FALSE, 0)
    <3>1. \E a, b, c \in Nat : b = Cardinality({}) /\ RingHas(0, shared, 0, {}, FALSE, 0, a, b, c)
      <4> WITNESS 0 \in Nat, 0 \in Nat, 0 \in Nat
      <4> QED
        BY <2>1, <2>2
    <3> QED
      BY <3>1 DEF RingHolds
  <2> QED
    BY <1>6, <2>1, <2>3 DEF RingFits, ReadUpTo
<1>10. InFlight = {}
  <2>1. FlightOf(slot, 0, 0, 0, 0, {}) = {}
    BY <1>1, <1>8, FlightIs
  <2> QED
    BY <1>6, <2>1, InFlightIs DEF ReadUpTo
<1>11. SrbsFit(srb, InFlight)
  <2>1. \A s \in Srbs : CallsIn({}, s) = {}
    BY DEF CallsIn
  <2>2. \A s \in Srbs : Fits(new, s, {})
    BY <1>5, <2>1, RestingFits DEF Busy
  <2> QED
    BY <1>6, <1>10, <2>2 DEF SrbsFit
<1>12. QueuesFit
  <2>1. \A q \in Queues : q # "out"
    BY DEF Queues
  <2> QED
    BY <1>5, <1>6, <2>1 DEF QueuesFit, FitAll, QueueFits
<1>13. AfterFits(srb) /\ PlaceFits
  BY <1>5, <1>6 DEF AfterFits, PlaceFits
<1>14. Owned(srb)
  <2>1. \A s \in Srbs : srb[s].segs = <<>>
    BY <1>5, <1>6
  <2>2. \A s \in Srbs : DOMAIN GrefsOf(srb)[s] = {} /\ DOMAIN BufsOf(srb)[s] = {}
    BY <2>1 DEF GrefsOf, BufsOf
  <2>3. Held(AllGrants, GrefsOf(srb)) = {} /\ Held(AllBuffers, BufsOf(srb)) = {}
    BY <2>2 DEF Held
  <2> QED
    BY <1>6, <2>3 DEF Owned, OwnedOf, Shared
<1> QED
  BY <1>7, <1>9, <1>11, <1>12, <1>13, <1>14 DEF IoInv

\* A step of the frontend's start, which touches nothing of this.
LEMMA IoStutters ==
  ASSUME IoInv, UNCHANGED ioVars
  PROVE  IoInv'
<1>1. SameRing(backend') /\ UNCHANGED driverIo /\ shared' = shared
  BY Parts, NotifiedIs DEF ioVars, driverIo
<1>2. shared \in [slot : Slots, reqProd : Index, reqEvent : Index, rspProd : Index]
  BY Parts DEF Types
<1> QED
  BY <1>1, <1>2, BackendStays

\* Every step keeps the invariant.
LEMMA IoNextKeeps ==
  ASSUME IoInv, [Next]_vars
  PROVE  IoInv'
<1>1. CASE UNCHANGED ioVars
  BY <1>1, IoStutters
<1>2. CASE IoNext
  <2>1. ASSUME NEW s \in Srbs, StartData(s) \/ StartOther(s) \/ StartFlush(s) \/ StartReset(s)
        PROVE  IoInv'
    BY <2>1, StartDataKeeps, StartOtherKeeps, StartFlushKeeps, StartResetKeeps
  <2>2. CASE Response \/ FinalCheck \/ Recheck
    BY <2>2, ResponseKeeps, FinalCheckKeeps, RecheckKeeps
  <2>3. CASE PrepareFresh \/ Submit \/ SubmitEnds
    BY <2>3, PrepareFreshKeeps, SubmitKeeps, SubmitEndsKeeps
  <2>4. CASE Interrupt \/ Reset
    BY <2>4, InterruptKeeps, ResetLoopKeeps, ResetSendKeeps, ResetEndKeeps DEF Reset
  <2>5. CASE Serving
    BY <2>5, BackendTakesKeeps, BackendAsksKeeps, BackendSleepsKeeps, BackendAnswersKeeps DEF Serving
  <2> QED
    BY <1>2, <2>1, <2>2, <2>3, <2>4, <2>5 DEF IoNext, HwStartIo, Continuing, EvtchnCallback
<1> QED
  BY <1>1, <1>2 DEF Next, vars

\* The ring, the SRBs, their queues and what they hold fit together at all times.
THEOREM IoHolds == Spec => []IoInv
<1>1. Init => IoInv
  BY IoInitHolds DEF Init
<1>2. IoInv /\ [Next]_vars => IoInv'
  BY IoNextKeeps
<1> QED
  BY <1>1, <1>2, PTL DEF Spec

\* The ring carries each unanswered request of the submitted SRBs, once, and nothing else.
LEMMA CarriesAll ==
  ASSUME IoInv
  PROVE  RingCarries
<1>1. PICK i \in Index, slot \in Slots, doing \in SUBSET Calls, a \in Nat, b \in Nat, c \in Nat : Seen(i, slot, doing, a, b, c)
  BY SeenNow
<1>2. PICK unread, unseen : unread = Unread /\ unseen = Unseen
  OBVIOUS
<1>3. unread = [k \in 1 .. c |-> At(slot, i, a + b + k - 1)] /\ unseen = [k \in 1 .. a |-> At(slot, i, k - 1)]
  <2>1. UnreadIs(slot, i, shared.reqProd, backend.reqCons, a, b, c) /\ UnseenIs(slot, i, shared.rspProd, a)
    BY <1>1, WindowParts DEF Seen
  <2> QED
    BY <1>1, <1>2, <2>1, InFlightIs DEF Seen, UnreadIs, UnseenIs
<1>4. Len(unread) = c /\ Len(unseen) = a /\ DOMAIN unread = 1 .. c /\ DOMAIN unseen = 1 .. a
  BY <1>3
<1>5. Cardinality(InFlight) = a + b + c /\ Cardinality(backend.doing) = b /\ a + b + c <= NrEnts
  BY <1>1, FlightCounted DEF Seen, Window
<1>6. \A k \in 1 .. c : unread[k].type = "request"
  <2>1. \A k \in 1 .. c : a + b + k - 1 \in a + b .. a + b + c - 1
    OBVIOUS
  <2> QED
    BY <1>1, <1>3, <2>1 DEF Seen, Carried, Asked
<1>7. \A k \in 1 .. a : unseen[k].type = "response"
  <2>1. \A k \in 1 .. a : k - 1 \in 0 .. a - 1
    OBVIOUS
  <2> QED
    BY <1>1, <1>3, <2>1 DEF Seen, Carried, Answers
<1>8. ASSUME NEW s \in Srbs
      PROVE  /\ Cardinality({q \in InFlight : q.s = s}) = IF srb[s].state = "submitted" THEN srb[s].left ELSE 0
             /\ {q \in InFlight : q.s = s} \subseteq Requests(s)
  <2>1. InFlightFor(srb[s], s, InFlight)
    BY Parts DEF SrbsSound, SrbsFit, Fits
  <2>2. ASSUME NEW q \in InFlight, q.s = s
        PROVE  q \in Requests(s)
    <3>1. q = [s |-> s, r |-> q.r] /\ q.r \in 1 .. Total(srb[s])
      BY <2>1, <2>2, Parts DEF InFlightFor, CallsIn, Calls
    <3>2. CASE srb[s].kind = "sync"
      BY <3>1, <3>2 DEF Total, Requests
    <3>3. CASE srb[s].kind # "sync"
      BY <3>1, <3>3 DEF Total, Requests
    <3> QED
      BY <3>2, <3>3
  <2> QED
    BY <2>1, <2>2 DEF InFlightFor, CallsIn
<1>9. Len(unread) + Cardinality(backend.doing) + Len(unseen) = a + b + c
  BY <1>4, <1>5
<1> QED
  BY <1>2, <1>4, <1>5, <1>6, <1>7, <1>8, <1>9 DEF RingCarries

\* What the driver hands to the backend is taken once, and in time for the flush that
\* comes after it.
THEOREM TrafficIsSound == Spec => []TrafficSound
<1>1. IoInv => TrafficSound
  <2>1. ASSUME IoInv
        PROVE  FlushAfterData
    BY <2>1, Parts DEF SrbsSound, AfterFits, FlushAfterData
  <2> QED
    BY <2>1, CarriesAll DEF TrafficSound
<1> QED
  BY <1>1, IoHolds, PTL

\* The types of IoTypeOK.
LEMMA TypesAre ==
  ASSUME IoInv
  PROVE  IoTypeOK
<1>1. \A s \in Srbs : /\ srb[s].kind \in {"none", "readWrite", "sync", "flush", "reset", "other"}
                      /\ srb[s].state \in {"out", "lost", "reset"} \cup Queues
                      /\ srb[s].left \in 0 .. 2 /\ srb[s].after \subseteq Srbs
  BY Parts DEF SrbsSound, Extensions
<1>2. \A s \in Srbs : \A k \in DOMAIN srb[s].segs : srb[s].segs[k] \in [gref : 0 .. NumGrants, buf : 0 .. NumBuffers]
  BY Parts, SegsPlaced DEF SrbsSound, SrbsFit, Fits, Segments
<1>3. queue \in [Queues -> Seq(Srbs)] /\ buffers \subseteq 1 .. NumBuffers /\ grants \subseteq 1 .. NumGrants
  BY Parts DEF Types
<1>4. {shared.reqProd, shared.reqEvent, shared.rspProd} \subseteq 0 .. IndexLimit - 1
  BY Parts DEF Types, Index
<1>5. {priv.reqProd, priv.rspCons, scan.cons, scan.prod, backend.reqCons} \subseteq 0 .. IndexLimit - 1
  BY Parts DEF Types, Index
<1>6. resetting \in Srbs \cup {"none"} /\ backend.mode \in {"awake", "checking", "asleep"}
  BY Parts DEF Types
<1> QED
  BY <1>1, <1>2, <1>3, <1>4, <1>5, <1>6 DEF IoTypeOK

\* What a segment holds is not free, and no other segment holds it.
LEMMA HeldAlone ==
  ASSUME NEW all, NEW free, NEW f, OwnedOf(all, free, f), Holds(f, all), NEW s \in Srbs, NEW k \in DOMAIN f[s], f[s][k] # 0
  PROVE  /\ f[s][k] \in all \ free
         /\ \A x \in Srbs : \A j \in DOMAIN f[x] : <<x, j>> # <<s, k>> => f[x][j] # f[s][k]
<1>1. PICK h : h = <<s, k, f[s][k]>>
  OBVIOUS
<1>2. f[s][k] \in all /\ k \in Places
  BY DEF Holds
<1>3. h \in Held(all, f)
  BY <1>1, <1>2 DEF Held
<1>4. ASSUME NEW x \in Srbs, NEW j \in DOMAIN f[x], f[x][j] = f[s][k]
      PROVE  <<x, j>> = <<s, k>>
  <2>1. PICK g : g = <<x, j, f[x][j]>>
    OBVIOUS
  <2>2. g \in Held(all, f)
    BY <1>2, <1>4, <2>1 DEF Held, Holds
  <2>3. g = h
    BY <1>1, <1>3, <1>4, <2>1, <2>2 DEF OwnedOf, Shared
  <2> QED
    BY <1>1, <2>1, <2>3
<1> QED
  BY <1>1, <1>2, <1>3, <1>4 DEF OwnedOf, Shared

\* What the segments of the SRBs name of what there is: a page or a grant that is not free.
Named(f) == {n \in Nat : n # 0 /\ \E s \in Srbs : \E k \in DOMAIN f[s] : f[s][k] = n}
AllIn(all, free, f) == free \cup Named(f) = all

\* All are free or held.
LEMMA AllHeld ==
  ASSUME NEW all \in SUBSET Nat, 0 \notin all, NEW free \in SUBSET all, NEW f, OwnedOf(all, free, f), Holds(f, all)
  PROVE  AllIn(all, free, f)
<1>1. ASSUME NEW x \in all, x \notin free
      PROVE  \E s \in Srbs : \E k \in DOMAIN f[s] : f[s][k] = x
  <2>1. PICK h \in Held(all, f) : h[3] = x
    BY <1>1 DEF OwnedOf, Shared
  <2> QED
    BY <2>1 DEF Held
<1>2. \A s \in Srbs : \A k \in DOMAIN f[s] : f[s][k] \in all \cup {0}
  BY DEF Holds
<1>3. ASSUME NEW x
      PROVE  x \in free \cup Named(f) <=> x \in all
  BY <1>1, <1>2 DEF Named
<1> QED
  BY <1>3 DEF AllIn

\* Every page and grant has one owner at any time, the backend's until it has answered.
LEMMA MemoryIs ==
  ASSUME IoInv
  PROVE  GrantedWhileWithBackend /\ NothingLeaks
<1>1. srb \in [Srbs -> Extensions] /\ \A s \in Srbs : Fits(srb[s], s, InFlight)
  BY Parts DEF SrbsSound, SrbsFit
<1>2. Holds(GrefsOf(srb), AllGrants) /\ Holds(BufsOf(srb), AllBuffers)
  BY <1>1, HoldsAre DEF Fits
<1>3. OwnedOf(AllGrants, grants, GrefsOf(srb)) /\ OwnedOf(AllBuffers, buffers, BufsOf(srb))
  BY Parts DEF Owned
<1>4. 0 \notin AllGrants /\ 0 \notin AllBuffers /\ grants \in SUBSET AllGrants /\ buffers \in SUBSET AllBuffers
  BY Parts, CrashIoAssumption DEF AllGrants, AllBuffers, Types
<1>5. PICK f, g : f = GrefsOf(srb) /\ g = BufsOf(srb)
  OBVIOUS
<1>6. \A s \in Srbs : /\ DOMAIN f[s] = DOMAIN srb[s].segs /\ DOMAIN g[s] = DOMAIN srb[s].segs
                      /\ \A k \in DOMAIN srb[s].segs : f[s][k] = srb[s].segs[k].gref /\ g[s][k] = srb[s].segs[k].buf
  BY <1>5 DEF GrefsOf, BufsOf
<1>7. GrantedWhileWithBackend
  <2>1. ASSUME NEW q \in InFlight, NEW k \in SegsOf(q.s, q.r)
        PROVE  LET seg == srb[q.s].segs[k]
               IN  /\ seg.gref \in 1 .. NumGrants \ grants
                   /\ srb[q.s].shape[k] => seg.buf \in 1 .. NumBuffers \ buffers
                   /\ \A x \in Srbs : \A j \in DOMAIN srb[x].segs : <<x, j>> # <<q.s, k>> =>
                        srb[x].segs[j].gref # seg.gref /\ (seg.buf # 0 => srb[x].segs[j].buf # seg.buf)
    <3>1. PICK s \in Srbs : s = q.s /\ q = [s |-> s, r |-> q.r]
      BY Parts DEF Calls
    <3>2. k \in DOMAIN srb[s].segs /\ RequestOf(k) = q.r
      BY <2>1, <3>1 DEF SegsOf
    <3>3. SegFits(srb[s], k, TRUE)
      BY <1>1, <3>1, <3>2 DEF Fits, SegsFit, SegFits
    <3>4. f[s][k] # 0 /\ (g[s][k] # 0 <=> srb[s].shape[k])
      BY <1>6, <3>2, <3>3 DEF SegFits
    <3>5. /\ f[s][k] \in AllGrants \ grants
          /\ \A x \in Srbs : \A j \in DOMAIN f[x] : <<x, j>> # <<s, k>> => f[x][j] # f[s][k]
      BY <1>2, <1>3, <1>5, <1>6, <3>2, <3>4, HeldAlone
    <3>6. g[s][k] # 0 => /\ g[s][k] \in AllBuffers \ buffers
                         /\ \A x \in Srbs : \A j \in DOMAIN g[x] : <<x, j>> # <<s, k>> => g[x][j] # g[s][k]
      BY <1>2, <1>3, <1>5, <1>6, <3>2, HeldAlone
    <3>7. srb[s].segs[k].gref = f[s][k] /\ srb[s].segs[k].buf = g[s][k]
      BY <1>6, <3>2
    <3>8. \A x \in Srbs : \A j \in DOMAIN srb[x].segs : <<x, j>> # <<s, k>> =>
            srb[x].segs[j].gref # f[s][k] /\ (g[s][k] # 0 => srb[x].segs[j].buf # g[s][k])
      BY <1>6, <3>5, <3>6
    <3> QED
      BY <3>1, <3>4, <3>5, <3>6, <3>7, <3>8 DEF AllGrants, AllBuffers
  <2> QED
    BY <2>1 DEF GrantedWhileWithBackend
<1>8. NothingLeaks
  <2>1. AllIn(AllGrants, grants, f) /\ AllIn(AllBuffers, buffers, g)
    <3>1. AllGrants \in SUBSET Nat /\ AllBuffers \in SUBSET Nat
      BY CrashIoAssumption DEF AllGrants, AllBuffers
    <3>2. OwnedOf(AllGrants, grants, f) /\ Holds(f, AllGrants) /\ OwnedOf(AllBuffers, buffers, g) /\ Holds(g, AllBuffers)
      BY <1>2, <1>3, <1>5
    <3>3. AllIn(AllGrants, grants, f)
      BY <1>4, <3>1, <3>2, AllHeld
    <3>4. AllIn(AllBuffers, buffers, g)
      BY <1>4, <3>1, <3>2, AllHeld
    <3> QED
      BY <3>3, <3>4
  <2>2. \A s \in Srbs : \A k \in DOMAIN f[s] : f[s][k] \in Nat
    BY <1>2, <1>5, CrashIoAssumption DEF Holds, AllGrants
  <2>3. \A s \in Srbs : \A k \in DOMAIN g[s] : g[s][k] \in Nat
    BY <1>2, <1>5, CrashIoAssumption DEF Holds, AllBuffers
  <2>4. ASSUME NEW x
        PROVE  x \in Named(f) <=> \E s \in Srbs : x \in Grefs(srb[s].segs, DOMAIN srb[s].segs)
    BY <1>6, <2>2 DEF Named, Grefs
  <2>5. ASSUME NEW x
        PROVE  x \in Named(g) <=> \E s \in Srbs : x \in Bufs(srb[s].segs, DOMAIN srb[s].segs)
    BY <1>6, <2>3 DEF Named, Bufs
  <2>6. PICK G, B : G = [s \in Srbs |-> Grefs(srb[s].segs, DOMAIN srb[s].segs)] /\ B = [s \in Srbs |-> Bufs(srb[s].segs, DOMAIN srb[s].segs)]
    OBVIOUS
  <2>7. UNION {G[s] : s \in Srbs} = Named(f)
    <3>1. ASSUME NEW x
          PROVE  x \in UNION {G[s] : s \in Srbs} <=> x \in Named(f)
      BY <2>4, <2>6
    <3> QED
      BY <3>1
  <2>8. UNION {B[s] : s \in Srbs} = Named(g)
    <3>1. ASSUME NEW x
          PROVE  x \in UNION {B[s] : s \in Srbs} <=> x \in Named(g)
      BY <2>5, <2>6
    <3> QED
      BY <3>1
  <2>9. \A s \in Srbs : srb[s].state \in {"out", "fresh", "lost"} => G[s] = {} /\ B[s] = {}
    <3>1. \A s \in Srbs : srb[s].state \in {"out", "fresh", "lost"} => srb[s].segs = <<>>
      BY <1>1 DEF Fits, Stage, Busy
    <3> QED
      BY <2>6, <3>1 DEF Grefs, Bufs
  <2>10. \A s \in Srbs : G[s] = Grefs(srb[s].segs, DOMAIN srb[s].segs) /\ B[s] = Bufs(srb[s].segs, DOMAIN srb[s].segs)
    BY <2>6
  <2> QED
    BY <2>1, <2>7, <2>8, <2>9, <2>10 DEF NothingLeaks, AllIn, AllGrants, AllBuffers
<1> QED
  BY <1>7, <1>8

\* Every page and grant has one owner at any time: the free list, or one segment of an SRB,
\* which keeps it from before its request is on the ring until the answer is read.
THEOREM MemoryIsOwned == Spec => []MemoryOwned
<1>1. IoInv => MemoryOwned
  BY TypesAre, MemoryIs DEF MemoryOwned
<1> QED
  BY <1>1, IoHolds, PTL

-----------------------------------------------------------------------------
(* The frontend of the disks, for any number of disks and of failing calls.  The        *)
(* invariant says what the two ends of a disk can be in the middle of (Handshake),      *)
(* whose ring there is (RefsMatch), which disks the sweep has closed (Swept), and what  *)
(* the driver knows of the disk it works on, at each of its steps (Place, OnTheWayDown, *)
(* OnTheWayUp): it has polled the backend, which has gone on since.                     *)

\* What the two ends of a disk can be in the middle of.  The backend acts on what was
\* written last: it maps a ring after it was told INITIALIZED or CONNECTED, and a backend
\* that is closed has let go of it.
Handshake(d) ==
  /\ front[d] \in {"invalid", "initializing", "initialized", "connected", "closing", "closed"}
  /\ front[d] = "invalid" =>
       back[d] \in {"initializing", "initwait"} /\ mapped[d] = "none" /\ d \notin watch
  /\ front[d] = "initializing" => back[d] \in {"closed", "initwait"} /\ mapped[d] = "none"
  /\ front[d] = "initialized" =>
       \/ back[d] = "initwait" /\ mapped[d] = "none"
       \/ back[d] = "connected" /\ mapped[d] # "none" /\ d \notin watch
       \/ back[d] = "closing" /\ mapped[d] = "none" /\ d \notin watch
  /\ front[d] = "connected" => back[d] = "connected" /\ mapped[d] # "none"
  /\ front[d] = "closing" =>
       (back[d] = "initwait" /\ mapped[d] = "none") \/ back[d] \in {"connected", "closing"}
  /\ front[d] = "closed" => back[d] = "closing" \/ (back[d] = "closed" /\ mapped[d] = "none")

\* The new ring is the target's; its backend has not the old one then.
RefsMatch(d) ==
  /\ ringRef[d] = "new" => d = dump /\ mapped[d] # "old"
  /\ mapped[d] = "new" => ringRef[d] = "new"

\* The dead kernel's ring is not mapped, and will not be.
LetGo(d) ==
  mapped[d] # "old" /\ (front[d] \in {"initialized", "connected"} => ringRef[d] = "new")
BeingClosed(d) == d = disk /\ fpc \in ClosePcs /\ target = "none"
Swept ==
  failures = 0 /\ fpc # "start" => \A d \in Disks : d \in todo \/ BeingClosed(d) \/ LetGo(d)

\* The driver's thread.
Place ==
  /\ target = "none" => fpc \in {"start", "sweep", "badConfig"} \cup ClosePcs
  /\ fpc \in {"start", "sweep"} => target = "none"
  /\ target # "none" => disk = dump /\ todo = {}
  /\ fpc \in PreparePcs => target = "CLOSED"
  /\ fpc \in ConnectPcs => target = "PREPARED"
  /\ fpc = "setState" => target \in {"CLOSED", "PREPARED", "CONNECTED"}
  /\ connected => fpc = "up"

OnTheWayDown ==
  /\ fpc = "setClosing" => front[disk] # "closed" /\ back[disk] \in {"initwait", "connected", "closing"}
  /\ fpc = "waitClosing" => front[disk] = "closing"
  /\ fpc = "setClosed" => front[disk] # "initializing" /\ back[disk] \in {"closing", "closed"}
  /\ fpc = "waitClosed" => front[disk] = "closed"

\* FrontendSetState on its way up has closed the disk, then found its backend in INITWAIT,
\* then made the ring, then been connected.
Shut == front[disk] \in {"closed", "initializing"} /\ back[disk] \in {"closed", "initwait"} /\ mapped[disk] = "none"
Ready == front[disk] = "initializing" /\ back[disk] = "initwait" /\ mapped[disk] = "none"
Joined == front[disk] = "connected" /\ mapped[disk] = "new" /\ ring = AllRing
Reached(l, s) == (fpc = "setState" /\ target = s) \/ fpc = l
OnTheWayUp ==
  /\ Reached("writeTarget", "CLOSED") \/ fpc = "setInitializing" => Shut
  /\ fpc = "waitInitWait" => Shut /\ front[disk] = "initializing"
  /\ Reached("readFeatures", "PREPARED") \/ fpc \in {"allocRing", "writeRing", "setInitialized"} => Ready
  /\ fpc \in ConnectPcs \ {"allocRing"} => ring = AllRing
  /\ fpc \in ConnectPcs \ {"allocRing", "writeRing"} => ringRef[disk] = "new"
  /\ fpc \in {"waitConnected", "setConnected"} => front[disk] = "initialized"
  /\ fpc = "setConnected" => back[disk] = "connected"
  /\ Reached("readDisk", "CONNECTED") \/ connected => Joined

Ends == \A d \in Disks : Handshake(d) /\ RefsMatch(d)
Thread == Place /\ OnTheWayDown /\ OnTheWayUp
FInv == FrontendTypeOK /\ Ends /\ Swept /\ Thread
-----------------------------------------------------------------------------
\* The handshake a crash interrupts is one the invariant knows.
LEMMA InitKnown == FrontendInit => FInv
<1> SUFFICES ASSUME FrontendInit PROVE FInv
  OBVIOUS
<1> USE CrashFrontendAssumption
<1>1. PICK old \in [Disks -> OldStates] :
         /\ front = [d \in Disks |-> old[d].front]
         /\ back = [d \in Disks |-> old[d].back]
         /\ watch = {d \in Disks : old[d].watch}
         /\ mapped = [d \in Disks |-> old[d].mapped]
  BY DEF FrontendInit
<1>2. ASSUME NEW d \in Disks
      PROVE  /\ front[d] = old[d].front /\ back[d] = old[d].back /\ mapped[d] = old[d].mapped
             /\ d \in watch <=> old[d].watch
             /\ old[d] \in OldStates
  BY <1>1
<1>3. ASSUME NEW d \in Disks
      PROVE  /\ front[d] \in XenbusStates /\ back[d] \in XenbusStates
             /\ mapped[d] \in {"none", "old"} /\ Handshake(d)
  BY <1>2 DEF OldStates, Handshake, XenbusStates
<1>4. FrontendTypeOK
  <2>1. front \in [Disks -> XenbusStates] /\ back \in [Disks -> XenbusStates]
    BY <1>1, <1>3
  <2>2. watch \subseteq Disks /\ mapped \in [Disks -> {"none", "old", "new"}]
    BY <1>1, <1>3
  <2>3. /\ ringRef = [d \in Disks |-> "old"] /\ fpc = "start" /\ dump \in Disks /\ disk = dump
        /\ seen = "invalid" /\ todo = {} /\ target = "none" /\ failing = "no" /\ connected = FALSE
        /\ ring = NoRing /\ failures = 0
    BY DEF FrontendInit
  <2> QED
    BY <2>1, <2>2, <2>3, 0 \in 0 .. MaxFailures DEF FrontendTypeOK, Pcs, XenbusStates, TargetStates
<1>5. Ends
  BY <1>3 DEF Ends, RefsMatch, FrontendInit
<1>6. Swept /\ Thread
  BY DEF FrontendInit, Swept, Thread, Place, OnTheWayDown, OnTheWayUp, Reached, PreparePcs, ConnectPcs, ClosePcs
<1> QED
  BY <1>4, <1>5, <1>6 DEF FInv

-----------------------------------------------------------------------------
\* Where FrontendSetState goes on, in the states it can be called in.
NextStage ==
  \/ target = "CLOSED" /\ Goto("writeTarget") /\ UNCHANGED <<target, connected>>
  \/ target = "PREPARED" /\ Goto("allocRing") /\ UNCHANGED <<target, connected>>
  \/ target = "CONNECTED" /\ Goto("up") /\ target' = "ENABLED" /\ connected' = TRUE
LEMMA StagesFollow ==
  ASSUME Place, SetTargetState PROVE fpc = "setState" /\ NextStage
<1>1. target \in {"CLOSED", "PREPARED", "CONNECTED"} /\ fpc = "setState"
  BY DEF Place, SetTargetState
<1>2. CASE target = "CLOSED"
  BY <1>1, <1>2 DEF SetTargetState, NextStage
<1>3. CASE target = "PREPARED"
  BY <1>1, <1>3 DEF SetTargetState, NextStage
<1>4. CASE target = "CONNECTED"
  BY <1>1, <1>4 DEF SetTargetState, NextStage
<1> QED
  BY <1>1, <1>2, <1>3, <1>4

\* Every step keeps the types.
LEMMA TypesKept ==
  ASSUME FrontendTypeOK, Place, [FrontendNext]_feVars PROVE FrontendTypeOK'
<1> USE CrashFrontendAssumption DEF FrontendTypeOK, store, Goto, Fails, Works
<1>1. CASE Start \/ Sweep \/ Find
  BY <1>1 DEF Start, Sweep, Find, Pcs, ClosePcs, XenbusStates, TargetStates
<1>2. CASE UpdatePath \/ WaitFails
  BY <1>2 DEF UpdatePath, WaitFails, CloseFailed, Sweeping, Pcs, ClosePcs, XenbusStates, TargetStates
<1>3. CASE Wait \/ WaitClosing
  BY <1>3 DEF Wait, WaitClosing, Poll, AfterClosing, CloseDone, Sweeping, Pcs, ClosePcs, TargetStates
<1>4. CASE SetClosing \/ SetClosed \/ WaitClosed
  BY <1>4 DEF SetClosing, SetClosed, WaitClosed, Poll, SetState, CloseDone, CloseFailed, Sweeping,
              Pcs, ClosePcs, XenbusStates, TargetStates
<1>s. CASE SetTargetState
  <2>1. NextStage
    BY <1>s, StagesFollow
  <2> QED
    BY <1>s, <2>1 DEF SetTargetState, NextStage, Pcs, PreparePcs, ConnectPcs, TargetStates
<1>5. CASE WriteTargetPath \/ ReadFeatures \/ ReadDiskInfo
  BY <1>5 DEF WriteTargetPath, ReadFeatures, ReadDiskInfo, GiveUp, Pcs, PreparePcs, ConnectPcs, TargetStates
<1>6. CASE SetInitializing \/ SetInitialized \/ SetConnected
  BY <1>6 DEF SetInitializing, SetInitialized, SetConnected, SetState, GiveUp, Pcs, PreparePcs,
              ConnectPcs, XenbusStates, TargetStates
<1>7. CASE WaitInitWait \/ WaitConnected
  BY <1>7 DEF WaitInitWait, WaitConnected, Poll, GiveUp, Pcs, PreparePcs, ConnectPcs, TargetStates
<1>8. CASE AllocRing \/ WriteRing
  BY <1>8 DEF AllocRing, WriteRing, GiveUp, Pcs, ConnectPcs, TargetStates
<1>9. CASE \E d \in Disks : Backend(d)
  BY <1>9 DEF Backend, BackendProbe, BackendActs, Becomes, Unmap, driverVars, XenbusStates
<1>10. CASE UNCHANGED feVars
  BY <1>10 DEF feVars
<1> QED
  BY <1>1, <1>2, <1>3, <1>4, <1>s, <1>5, <1>6, <1>7, <1>8, <1>9, <1>10
     DEF FrontendNext, FdoInitialize, Closing, Preparing, Connecting

\* The driver's writes, given what it has seen, and the backends' acts keep the ends in
\* step.
LEMMA EndsKept ==
  ASSUME FInv, [FrontendNext]_feVars PROVE Ends'
<1> SUFFICES ASSUME NEW d \in Disks PROVE (Handshake(d) /\ RefsMatch(d))'
  BY DEF Ends
<1> USE DEF FInv
<1>h. Handshake(d) /\ RefsMatch(d)
  BY DEF Ends
<1>1. CASE UNCHANGED <<store, dump>>
  BY <1>h, <1>1 DEF store, Handshake, RefsMatch
<1>2. ASSUME NEW s \in XenbusStates, SetState(s), UNCHANGED dump,
             \/ s = "closing" /\ fpc = "setClosing"
             \/ s = "closed" /\ fpc = "setClosed"
             \/ s = "initializing" /\ fpc = "setInitializing"
             \/ s = "initialized" /\ fpc = "setInitialized"
             \/ s = "connected" /\ fpc = "setConnected"
      PROVE (Handshake(d) /\ RefsMatch(d))'
  <2>1. CASE d # disk
    BY <1>h, <1>2, <2>1 DEF FrontendTypeOK, SetState, Handshake, RefsMatch
  <2>2. CASE d = disk
    <3>1. front'[d] = s /\ UNCHANGED <<back, ringRef, mapped>>
      BY <1>2, <2>2 DEF FrontendTypeOK, SetState
    <3>2. RefsMatch(d)'
      BY <1>h, <1>2, <3>1 DEF RefsMatch
    <3>3. Handshake(d)'
      BY <1>h, <1>2, <2>2, <3>1 DEF Handshake, Thread, OnTheWayDown, OnTheWayUp, Shut, Ready, ConnectPcs, FrontendTypeOK
    <3> QED
      BY <3>2, <3>3
  <2> QED
    BY <2>1, <2>2
<1>3. CASE WriteRing
  BY <1>h, <1>3 DEF WriteRing, FrontendTypeOK, Handshake, RefsMatch, Thread, Place, OnTheWayUp, Ready, ConnectPcs, Goto
<1>4. ASSUME NEW b \in Disks, Backend(b) PROVE (Handshake(d) /\ RefsMatch(d))'
  <2>1. CASE d # b
    BY <1>h, <1>4, <2>1
       DEF Backend, BackendProbe, BackendActs, Becomes, Unmap, driverVars, FrontendTypeOK, Handshake, RefsMatch
  <2>2. CASE d = b /\ BackendProbe(d)
    BY <1>h, <2>2 DEF BackendProbe, Becomes, driverVars, FrontendTypeOK, Handshake, RefsMatch
  <2>3. CASE d = b /\ BackendActs(d)
    BY <1>h, <2>3 DEF BackendActs, Becomes, Unmap, driverVars, FrontendTypeOK, Handshake, RefsMatch
  <2> QED
    BY <1>4, <2>1, <2>2, <2>3 DEF Backend
<1>5. CASE SetClosing \/ SetClosed
  BY <1>1, <1>2, <1>5 DEF SetClosing, SetClosed, XenbusStates
<1>6. CASE SetInitializing \/ SetInitialized \/ SetConnected
  BY <1>1, <1>2, <1>6 DEF SetInitializing, SetInitialized, SetConnected, XenbusStates
<1> QED
  BY <1>1, <1>3, <1>4, <1>5, <1>6
     DEF FrontendNext, FdoInitialize, Closing, Preparing, Connecting, Start, Sweep, Find, UpdatePath,
         WaitFails, Wait, WaitClosing, WaitClosed, SetTargetState, WriteTargetPath, WaitInitWait,
         ReadFeatures, AllocRing, WaitConnected, ReadDiskInfo, feVars, store

\* A backend's act changes neither the thread's place nor what it was told.
LEMMA BackendKeeps ==
  ASSUME FInv, NEW b \in Disks, Backend(b) PROVE (Swept /\ Thread)'
<1> USE DEF FInv
<1>0. UNCHANGED <<driverVars, dump>> /\ failures' >= failures
  BY DEF Backend, BackendProbe, BackendActs, driverVars, Fails, Works, FrontendTypeOK
<1>1. ASSUME NEW d \in Disks, LetGo(d) PROVE LetGo(d)'
  BY <1>0, <1>1 DEF LetGo, Backend, BackendProbe, BackendActs, Becomes, Unmap, driverVars, FrontendTypeOK
<1>2. Swept'
  BY <1>0, <1>1 DEF Swept, BeingClosed, driverVars, FrontendTypeOK
<1>3. Place'
  BY <1>0 DEF Thread, Place, driverVars
<1>h. disk \in Disks /\ Handshake(disk) /\ RefsMatch(disk)
  BY DEF Ends, FrontendTypeOK
<1>4. OnTheWayDown'
  BY <1>0, <1>h DEF Thread, OnTheWayDown, Handshake, Backend, BackendProbe, BackendActs, Becomes, driverVars,
                    FrontendTypeOK
<1>5. Shut => Shut'
  BY <1>0, <1>h DEF Shut, Backend, BackendProbe, BackendActs, Becomes, Unmap, driverVars, FrontendTypeOK
<1>6. Ready => Ready'
  BY <1>0, <1>h DEF Ready, Backend, BackendProbe, BackendActs, Becomes, Unmap, driverVars, FrontendTypeOK
<1>7. Joined => Joined'
  BY <1>0, <1>h DEF Joined, Handshake, Backend, BackendProbe, BackendActs, Becomes, Unmap, driverVars,
                    FrontendTypeOK
<1>8. fpc = "setConnected" => (back[disk] = "connected")'
  BY <1>0, <1>h DEF Thread, OnTheWayUp, Handshake, Backend, BackendProbe, BackendActs, Becomes, driverVars,
                    FrontendTypeOK, ConnectPcs
<1>9. OnTheWayUp'
  BY <1>0, <1>5, <1>6, <1>7, <1>8 DEF Thread, OnTheWayUp, Reached, driverVars
<1> QED
  BY <1>2, <1>3, <1>4, <1>9 DEF Thread

\* The sweep leaves no disk out, and what it has closed stays so.
LEMMA SweptKept ==
  ASSUME FInv, FdoInitialize PROVE Swept'
<1> USE DEF FInv, FrontendTypeOK
<1>1. CASE Start
  BY <1>1 DEF Start, Swept, Works, Fails, Goto, LetGo
<1>2. CASE Sweep \/ Find
  BY <1>2 DEF Sweep, Find, Swept, Works, Fails, Goto, LetGo, BeingClosed, store, ClosePcs, Thread, Place
<1>3. ASSUME UNCHANGED <<front, mapped, todo, disk>>,
             \A d \in Disks : ringRef[d] = "new" => ringRef'[d] = "new",
             fpc # "start" /\ failures' >= failures,
             failures' = 0 /\ BeingClosed(disk) => BeingClosed(disk)' \/ LetGo(disk)
      PROVE Swept'
  BY <1>3 DEF Swept, BeingClosed, LetGo
<1>h. disk \in Disks /\ Handshake(disk)
  BY DEF Ends
<1>4. CASE UpdatePath \/ WaitFails
  BY <1>3, <1>4 DEF UpdatePath, WaitFails, CloseFailed, BeingClosed, ClosePcs, Works, Fails, Goto, store
<1>5. CASE Wait \/ WaitClosing \/ WaitClosed
  <2>1. back[disk] = "closed" => LetGo(disk)
    BY <1>h DEF Handshake, LetGo
  <2>2. failures' = 0 /\ BeingClosed(disk) => BeingClosed(disk)' \/ LetGo(disk)
    BY <1>5, <2>1 DEF Wait, WaitClosing, WaitClosed, Poll, AfterClosing, CloseDone, BeingClosed, ClosePcs, Goto
  <2> QED
    BY <1>3, <1>5, <2>2 DEF Wait, WaitClosing, WaitClosed, Poll, Works, store, ClosePcs
<1>6. CASE SetClosing \/ SetClosed
  <2>1. \A d \in Disks : LetGo(d) => LetGo(d)'
    BY <1>6 DEF SetClosing, SetClosed, SetState, LetGo, store
  <2>2. failures' = 0 /\ BeingClosed(disk) => BeingClosed(disk)'
    BY <1>6 DEF SetClosing, SetClosed, SetState, BeingClosed, ClosePcs, Goto, Works, Fails
  <2> QED
    BY <1>6, <2>1, <2>2 DEF SetClosing, SetClosed, Swept, BeingClosed, Works, Fails
<1>7. CASE SetInitializing \/ SetInitialized \/ SetConnected
  <2>1. \A d \in Disks : LetGo(d) => LetGo(d)'
    BY <1>7 DEF SetInitializing, SetInitialized, SetConnected, SetState, LetGo, store, Thread, OnTheWayUp,
                ConnectPcs
  <2> QED
    BY <1>7, <2>1 DEF SetInitializing, SetInitialized, SetConnected, Swept, BeingClosed, Works, Fails, ClosePcs
<1>8. CASE SetTargetState
  BY <1>3, <1>8 DEF SetTargetState, BeingClosed, ClosePcs, store
<1>9. CASE WriteTargetPath \/ ReadFeatures \/ ReadDiskInfo \/ WaitInitWait \/ AllocRing \/ WaitConnected
  BY <1>3, <1>9
     DEF WriteTargetPath, ReadFeatures, ReadDiskInfo, WaitInitWait, AllocRing, WaitConnected,
         BeingClosed, ClosePcs, Poll, Works, Fails, store
<1>10. CASE WriteRing
  <2>1. \A d \in Disks : ringRef[d] = "new" => ringRef'[d] = "new"
    BY <1>10 DEF WriteRing
  <2> QED
    BY <1>3, <1>10, <2>1 DEF WriteRing, BeingClosed, ClosePcs, Works, Fails
<1> QED
  BY <1>1, <1>2, <1>4, <1>5, <1>6, <1>7, <1>8, <1>9, <1>10 DEF FdoInitialize, Closing, Preparing, Connecting

\* The driver's thread.
LEMMA ThreadKept ==
  ASSUME FInv, FdoInitialize PROVE Thread'
<1> USE DEF FInv, FrontendTypeOK, Thread
<1>h. disk \in Disks /\ Handshake(disk) /\ RefsMatch(disk)
  BY DEF Ends
<1>d. seen' = back[disk] /\ back[disk] = "closed" => Shut
  BY <1>h DEF Handshake, Shut
<1>1. CASE Start \/ Sweep \/ Find
  BY <1>1 DEF Start, Sweep, Find, Place, OnTheWayDown, OnTheWayUp, Reached, ClosePcs, PreparePcs, ConnectPcs, Goto,
              Shut, Ready, Joined, store
<1>2. CASE UpdatePath \/ WaitFails
  BY <1>2 DEF UpdatePath, WaitFails, CloseFailed, Sweeping, Place, OnTheWayDown, OnTheWayUp, Reached, ClosePcs,
              PreparePcs, ConnectPcs, Goto, Shut, Ready, Joined, store
<1>3. CASE Wait \/ WaitClosing
  BY <1>h, <1>d, <1>3
     DEF Wait, WaitClosing, Poll, AfterClosing, CloseDone, Sweeping, Place, OnTheWayDown, OnTheWayUp, Reached,
         ClosePcs, PreparePcs, ConnectPcs, Goto, Shut, Ready, Joined, store, Handshake
<1>4. CASE SetClosing \/ SetClosed
  BY <1>h, <1>d, <1>4
     DEF SetClosing, SetClosed, SetState, CloseFailed, Sweeping, Place, OnTheWayDown, OnTheWayUp, Reached,
         ClosePcs, PreparePcs, ConnectPcs, Goto, Shut, Ready, Joined, store, Handshake
<1>5. CASE WaitClosed
  BY <1>h, <1>d, <1>5
     DEF WaitClosed, Poll, CloseDone, Sweeping, Place, OnTheWayDown, OnTheWayUp, Reached,
         ClosePcs, PreparePcs, ConnectPcs, Goto, Shut, Ready, Joined, store, Handshake
<1>s. CASE SetTargetState
  <2>1. NextStage
    BY <1>s, StagesFollow
  <2> QED
    BY <1>s, <2>1 DEF SetTargetState, NextStage, Place, OnTheWayDown, OnTheWayUp, Reached, ClosePcs, PreparePcs,
                      ConnectPcs, Goto, Shut, Ready, Joined, store
<1>6. CASE WriteTargetPath \/ ReadFeatures \/ ReadDiskInfo
  BY <1>h, <1>6
     DEF WriteTargetPath, ReadFeatures, ReadDiskInfo, GiveUp, Place, OnTheWayDown, OnTheWayUp,
         Reached, ClosePcs, PreparePcs, ConnectPcs, Goto, Shut, Ready, Joined, store
<1>7. CASE SetInitializing \/ SetInitialized \/ SetConnected
  BY <1>h, <1>7
     DEF SetInitializing, SetInitialized, SetConnected, SetState, GiveUp, Place, OnTheWayDown, OnTheWayUp,
         Reached, ClosePcs, PreparePcs, ConnectPcs, Goto, Shut, Ready, Joined, store, Handshake, RefsMatch
<1>8. CASE WaitInitWait \/ WaitConnected
  BY <1>h, <1>8
     DEF WaitInitWait, WaitConnected, Poll, GiveUp, Place, OnTheWayDown, OnTheWayUp,
         Reached, ClosePcs, PreparePcs, ConnectPcs, Goto, Shut, Ready, Joined, store, Handshake, RefsMatch
<1>9. CASE AllocRing \/ WriteRing
  BY <1>h, <1>9
     DEF AllocRing, WriteRing, GiveUp, Place, OnTheWayDown, OnTheWayUp,
         Reached, ClosePcs, PreparePcs, ConnectPcs, Goto, Shut, Ready, Joined, store
<1> QED
  BY <1>1, <1>2, <1>3, <1>4, <1>5, <1>s, <1>6, <1>7, <1>8, <1>9
     DEF FdoInitialize, Closing, Preparing, Connecting

-----------------------------------------------------------------------------
\* Everything above, in every state.
THEOREM HandshakesHold == FrontendSpec => []FInv
<1>1. ASSUME FInv, [FrontendNext]_feVars PROVE FInv'
  <2>1. FrontendTypeOK' /\ Ends'
    BY <1>1, TypesKept, EndsKept DEF FInv, Thread
  <2>2. Swept' /\ Thread'
    <3>1. CASE FdoInitialize
      BY <1>1, <3>1, SweptKept, ThreadKept
    <3>2. CASE \E d \in Disks : Backend(d)
      BY <1>1, <3>2, BackendKeeps
    <3>3. CASE UNCHANGED feVars
      BY <1>1, <3>3 DEF FInv, feVars, Swept, BeingClosed, LetGo, Thread, Place, OnTheWayDown, OnTheWayUp,
                        Reached, Shut, Ready, Joined
    <3> QED
      BY <1>1, <3>1, <3>2, <3>3 DEF FrontendNext
  <2> QED
    BY <2>1, <2>2 DEF FInv
<1> QED
  BY <1>1, InitKnown, PTL DEF FrontendSpec

\* No backend keeps or maps the dead kernel's ring once its disk was closed, a ring is made
\* only for a backend that waits for one, and a target takes SRBs only from a backend that
\* maps the ring of this driver, whatever handshake the crash interrupted and whichever
\* calls fail (frontend.c:752-865, 1135-1188).
THEOREM HandshakesAreSound == FrontendSpec => []HandshakesSound
<1>1. FInv => HandshakesSound
  <2> SUFFICES ASSUME FInv PROVE HandshakesSound
    OBVIOUS
  <2> USE DEF FInv, Thread, FrontendTypeOK
  <2>1. OldRingsReleased
    BY DEF OldRingsReleased, Swept, BeingClosed, LetGo, Place, ClosePcs
  <2>2. InitWaitAtConnect
    BY DEF InitWaitAtConnect, OnTheWayUp, Place, Ready, ConnectPcs
  <2>3. ServesNewRing
    BY DEF ServesNewRing, OnTheWayUp, Place, Joined, Ends, Handshake, ClosePcs
  <2> QED
    BY <2>1, <2>2, <2>3 DEF HandshakesSound
<1> QED
  BY <1>1, HandshakesHold, PTL
=============================================================================
