---------------------------- MODULE BlkRingProofs ----------------------------
(***************************************************************************)
(* The blkif ring of BlkRing, on one CPU, is the channel BlkChannel states,*)
(* for every ring size and every index span that the ring divides: the     *)
(* indices stay in order round the ring, less than a lap apart, so that no *)
(* slot is written while its contents are awaited.                         *)
(***************************************************************************)
EXTENDS BlkRing, FiniteSetTheorems, SequenceTheorems, TLAPS

-----------------------------------------------------------------------------
\* Remainders.

\* A remainder is what is left of any multiple.
LEMMA RemainderOf ==
  ASSUME NEW n \in Nat \ {0}, NEW q \in Nat, NEW r \in 0 .. n - 1
  PROVE  (n * q + r) % n = r
OBVIOUS

\* Every number is a multiple and a remainder.
LEMMA Division ==
  ASSUME NEW n \in Nat \ {0}, NEW x \in Nat
  PROVE  \E q \in Nat, r \in 0 .. n - 1 : x = n * q + r /\ x % n = r
<1>1. x - (x % n) = n * (x \div n)
  OBVIOUS
<1>2. x \div n \in Nat /\ x % n \in 0 .. n - 1
  OBVIOUS
<1>3. PICK q \in Nat : q = x \div n
  BY <1>2
<1>4. PICK r \in 0 .. n - 1 : r = x % n
  BY <1>2
<1>5. x - r = n * q
  BY <1>1, <1>3, <1>4
<1>6. n * q \in Nat
  OBVIOUS
<1>7. x = n * q + r
  BY <1>5, <1>6
<1> QED
  BY <1>4, <1>7

\* Less than n apart, two numbers have different remainders.
LEMMA RemaindersDiffer ==
  ASSUME NEW n \in Nat \ {0}, NEW x \in Nat, NEW y \in Nat, x < y, y < x + n
  PROVE  x % n # y % n
<1>1. PICK q \in Nat, r \in 0 .. n - 1 : x = n * q + r /\ x % n = r
  BY Division
<1>2. PICK d \in 1 .. n - 1 : y = x + d
  OBVIOUS
<1>3. CASE r + d < n
  <2>1. y = n * q + (r + d) /\ r + d \in 0 .. n - 1
    BY <1>1, <1>2, <1>3
  <2> QED
    BY <1>1, <1>2, <2>1, RemainderOf
<1>4. CASE r + d >= n
  <2>1. n * (q + 1) = n * q + n
    OBVIOUS
  <2>2. y = n * (q + 1) + (r + d - n) /\ r + d - n \in 0 .. n - 1 /\ q + 1 \in Nat
    BY <1>1, <1>2, <1>4, <2>1
  <2>3. y % n = r + d - n
    BY <2>2, RemainderOf
  <2> QED
    BY <1>1, <1>2, <2>3
<1> QED
  BY <1>3, <1>4

-----------------------------------------------------------------------------
\* Indices and slots.

\* The sums and differences of the macros wrap at most once.
LEMMA IndexValues ==
  /\ RingSize \in Nat \ {0} /\ IndexSpan \in Nat \ {0} /\ IndexSpan >= 2 * RingSize
  /\ \A i, n \in Index : /\ Plus(i, n) \in Index
                         /\ Plus(i, n) = IF i + n < IndexSpan THEN i + n ELSE i + n - IndexSpan
  /\ \A i, j \in Index : /\ Minus(i, j) \in Index
                         /\ Minus(i, j) = IF i >= j THEN i - j ELSE i + IndexSpan - j
<1>1. RingSize \in Nat \ {0} /\ IndexSpan \in Nat \ {0} /\ IndexSpan >= 2 * RingSize
  BY RingAssumption
<1>2. \A x \in Nat : x < 2 * IndexSpan =>
        x % IndexSpan = IF x < IndexSpan THEN x ELSE x - IndexSpan
  BY <1>1
<1>3. ASSUME NEW i \in Index, NEW n \in Index
      PROVE  /\ Plus(i, n) \in Index
             /\ Plus(i, n) = IF i + n < IndexSpan THEN i + n ELSE i + n - IndexSpan
  BY <1>1, <1>2 DEF Plus, Index
<1>4. ASSUME NEW i \in Index, NEW j \in Index
      PROVE  /\ Minus(i, j) \in Index
             /\ Minus(i, j) = IF i >= j THEN i - j ELSE i + IndexSpan - j
  BY <1>1, <1>2 DEF Minus, Index
<1> QED
  BY <1>1, <1>3, <1>4

\* The ring divides the span of the indices.
LEMMA SpanAdded ==
  ASSUME NEW x \in Nat, NEW y \in Nat, y = x + IndexSpan
  PROVE  Slot(y) = Slot(x)
<1>1. PICK n \in Nat \ {0} : n = RingSize
  BY RingAssumption
<1>2. PICK q \in Nat, r \in 0 .. n - 1 : x = n * q + r /\ x % n = r
  BY Division
<1>3. PICK p \in Nat, o \in 0 .. n - 1 : IndexSpan = n * p + o /\ IndexSpan % n = o
  BY Division, RingAssumption
<1>4. o = 0
  BY <1>1, <1>3, RingAssumption
<1>5. n * (q + p) = n * q + n * p
  OBVIOUS
<1>6. n * q \in Nat /\ n * p \in Nat
  OBVIOUS
<1>7. y = n * (q + p) + r /\ q + p \in Nat
  BY <1>2, <1>3, <1>4, <1>5, <1>6
<1>8. y % n = r
  BY <1>7, RemainderOf
<1> QED
  BY <1>1, <1>2, <1>8 DEF Slot

\* A slot does not depend on how often the index has wrapped.
LEMMA SlotWraps ==
  ASSUME NEW i \in Index, NEW n \in Index, NEW k \in Nat
  PROVE  Slot(Plus(i, n) + k) = Slot(i + n + k)
<1>1. CASE i + n < IndexSpan
  BY <1>1, IndexValues
<1>2. CASE i + n >= IndexSpan
  <2>1. PICK x \in Nat : x + IndexSpan = i + n /\ Plus(i, n) = x
    BY <1>2, IndexValues DEF Index
  <2>2. i + n + k = (x + k) + IndexSpan
    BY <2>1, IndexValues DEF Index
  <2>3. PICK y \in Nat : y = x + k
    BY <2>1
  <2>4. PICK z \in Nat : z = y + IndexSpan
    BY IndexValues
  <2>5. Slot(z) = Slot(y)
    BY <2>4, SpanAdded
  <2> QED
    BY <2>1, <2>2, <2>3, <2>4, <2>5 DEF Slot
<1> QED
  BY <1>1, <1>2, IndexValues DEF Index

\* Within a lap every index has a slot of its own.
LEMMA SlotsDiffer ==
  ASSUME NEW x \in Nat, NEW y \in Nat, x < y, y < x + RingSize
  PROVE  Slot(x) # Slot(y)
BY RemaindersDiffer, RingAssumption DEF Slot

\* A slot is on the ring.
LEMMA SlotOnRing == \A x \in Nat : Slot(x) \in 0 .. RingSize - 1
BY RingAssumption DEF Slot

\* The n entries of the ring f from index i on.
Segment(f, i, n) == [k \in 1 .. n |-> f[Slot(i + k - 1)]]
Rings == [0 .. RingSize - 1 -> Ids \cup {None}]

\* The channel's view of the ring is two segments.
LEMMA BetweenIsSegment ==
  \A i, j : /\ Between(i, j) = Segment(slots, i, Minus(j, i))
            /\ (Between(i, j) = Segment(slots, i, Minus(j, i)))'
BY DEF Between, Segment

\* A segment is a sequence, and so is what may be written over it.
LEMMA SegmentIsSeq ==
  ASSUME NEW f \in Rings, NEW i \in Nat, NEW n \in Nat
  PROVE  /\ Segment(f, i, n) \in Seq(Ids \cup {None}) /\ Len(Segment(f, i, n)) = n
         /\ \A k \in 1 .. n : Segment(f, i, n)[k] = f[Slot(i + k - 1)]
<1>1. \A k \in 1 .. n : i + k - 1 \in Nat /\ f[Slot(i + k - 1)] \in Ids \cup {None}
  BY SlotOnRing DEF Rings
<1>2. Segment(f, i, n) \in [1 .. n -> Ids \cup {None}]
  BY <1>1 DEF Segment
<1>3. Segment(f, i, n) \in Seq(Ids \cup {None}) /\ DOMAIN Segment(f, i, n) = 1 .. n
  BY <1>2
<1>4. Len(Segment(f, i, n)) = n
  BY <1>3
<1> QED
  BY <1>3, <1>4 DEF Segment

\* The same entries where the index has wrapped.
LEMMA SegmentWraps ==
  ASSUME NEW f \in Rings, NEW i \in Index, NEW d \in Index, NEW n \in Nat
  PROVE  Segment(f, Plus(i, d), n) = Segment(f, i + d, n)
<1>1. ASSUME NEW k \in 1 .. n
      PROVE  Slot(Plus(i, d) + k - 1) = Slot(i + d + k - 1)
  <2>1. k - 1 \in Nat /\ Plus(i, d) \in Nat /\ i \in Nat /\ d \in Nat
    BY IndexValues DEF Index
  <2>2. Plus(i, d) + k - 1 = Plus(i, d) + (k - 1) /\ i + d + k - 1 = i + d + (k - 1)
    BY <2>1
  <2> QED
    BY <2>1, <2>2, SlotWraps
<1> QED
  BY <1>1 DEF Segment

Put(f, x, v) == [f EXCEPT ![Slot(x)] = v]

\* A write to the slot of index x, which is outside the segment and less than a lap from
\* all of it, leaves the segment.
LEMMA SegmentKept ==
  ASSUME NEW f \in Rings, NEW i \in Nat, NEW n \in Nat, NEW x \in Nat, NEW v,
         (x < i /\ i + n <= x + RingSize) \/ (i + n <= x /\ x < i + RingSize)
  PROVE  Segment(Put(f, x, v), i, n) = Segment(f, i, n)
<1>1. ASSUME NEW k \in 1 .. n
      PROVE  Put(f, x, v)[Slot(i + k - 1)] = f[Slot(i + k - 1)]
  <2>1. i + k - 1 \in Nat
    OBVIOUS
  <2>2. Slot(i + k - 1) # Slot(x)
    <3>1. CASE x < i /\ i + n <= x + RingSize
      BY <2>1, <3>1, SlotsDiffer, RingAssumption
    <3>2. CASE i + n <= x /\ x < i + RingSize
      BY <2>1, <3>2, SlotsDiffer, RingAssumption
    <3> QED
      BY <3>1, <3>2
  <2> QED
    BY <2>1, <2>2, SlotOnRing DEF Rings, Put
<1> QED
  BY <1>1 DEF Segment

\* It puts the value there.
LEMMA PutOnRing ==
  ASSUME NEW f \in Rings, NEW x \in Nat, NEW v \in Ids \cup {None}
  PROVE  Put(f, x, v) \in Rings /\ Put(f, x, v)[Slot(x)] = v
BY SlotOnRing DEF Rings, Put

HasFirst(f, i, n) ==
  /\ Segment(f, i, n) # << >>
  /\ Head(Segment(f, i, n)) = f[Slot(i)]
  /\ Tail(Segment(f, i, n)) = Segment(f, i + 1, n - 1)

\* Reading the first entry leaves the tail.
LEMMA FirstOfSegment ==
  ASSUME NEW f \in Rings, NEW i \in Nat, NEW n \in Nat, n >= 1
  PROVE  HasFirst(f, i, n)
<1>0. PICK j \in Nat, m \in Nat : j = i + 1 /\ m = n - 1 /\ n = m + 1
  OBVIOUS
<1> DEFINE s == Segment(f, i, n)
           t == Segment(f, j, m)
<1>1. s \in Seq(Ids \cup {None}) /\ Len(s) = n /\ \A k \in 1 .. n : s[k] = f[Slot(i + k - 1)]
  BY SegmentIsSeq
<1>2. t \in Seq(Ids \cup {None}) /\ Len(t) = m /\ \A k \in 1 .. m : t[k] = f[Slot(j + k - 1)]
  BY SegmentIsSeq
<1>3. \A k \in 1 .. m : t[k] = s[k + 1]
  <2> SUFFICES ASSUME NEW k \in 1 .. m
               PROVE  t[k] = s[k + 1]
    OBVIOUS
  <2>1. j + k - 1 = i + (k + 1) - 1 /\ k + 1 \in 1 .. n
    BY <1>0
  <2> QED
    BY <1>1, <1>2, <2>1
<1>4. s[1] = f[Slot(i)]
  <2>1. i + 1 - 1 = i /\ 1 \in 1 .. n
    BY <1>0
  <2> QED
    BY <1>1, <2>1
<1> HIDE DEF s, t
<1>5. s # << >> /\ Head(s) = f[Slot(i)]
  BY <1>0, <1>1, <1>4
<1>6. Tail(s) = t
  <2>1. Tail(s) \in Seq(Ids \cup {None}) /\ Len(Tail(s)) = m
        /\ \A k \in 1 .. m : Tail(s)[k] = s[k + 1]
    BY <1>0, <1>1, <1>5
  <2> QED
    BY <1>2, <1>3, <2>1
<1> QED
  BY <1>0, <1>5, <1>6 DEF s, t, HasFirst

Splits(f, i, n, m) == Segment(f, i, n + m) = Segment(f, i, n) \o Segment(f, i + n, m)

\* A segment continues in the next one.
LEMMA SegmentGrows ==
  ASSUME NEW f \in Rings, NEW i \in Nat, NEW n \in Nat, NEW m \in Nat
  PROVE  Splits(f, i, n, m)
<1>0. PICK l \in Nat, j \in Nat : l = n + m /\ j = i + n
  OBVIOUS
<1> DEFINE s == Segment(f, i, n)
           t == Segment(f, j, m)
           u == Segment(f, i, l)
<1>1. s \in Seq(Ids \cup {None}) /\ Len(s) = n /\ \A k \in 1 .. n : s[k] = f[Slot(i + k - 1)]
  BY SegmentIsSeq
<1>2. t \in Seq(Ids \cup {None}) /\ Len(t) = m /\ \A k \in 1 .. m : t[k] = f[Slot(j + k - 1)]
  BY SegmentIsSeq
<1>3. u \in Seq(Ids \cup {None}) /\ Len(u) = l /\ \A k \in 1 .. l : u[k] = f[Slot(i + k - 1)]
  BY SegmentIsSeq
<1>4. ASSUME NEW k \in 1 .. l
      PROVE  u[k] = IF k <= n THEN s[k] ELSE t[k - n]
  <2>1. CASE k <= n
    <3>1. k \in 1 .. n
      BY <1>0, <2>1
    <3> QED
      BY <1>1, <1>3, <2>1, <3>1
  <2>2. CASE ~(k <= n)
    <3>1. j + (k - n) - 1 = i + k - 1 /\ k - n \in 1 .. m
      BY <1>0, <2>2
    <3> QED
      BY <1>2, <1>3, <2>2, <3>1
  <2> QED
    BY <2>1, <2>2
<1> HIDE DEF s, t, u
<1>5. /\ s \o t \in Seq(Ids \cup {None}) /\ Len(s \o t) = l
      /\ \A k \in 1 .. l : (s \o t)[k] = IF k <= n THEN s[k] ELSE t[k - n]
  <2>1. s \o t \in Seq(Ids \cup {None}) /\ Len(s \o t) = l
    BY <1>0, <1>1, <1>2, ConcatProperties
  <2>2. \A k \in 1 .. Len(s) + Len(t) : (s \o t)[k] = IF k <= Len(s) THEN s[k] ELSE t[k - Len(s)]
    BY <1>0, <1>1, <1>2, ConcatProperties
  <2> QED
    BY <1>0, <1>1, <1>2, <2>1, <2>2
<1>6. u = s \o t
  BY <1>3, <1>4, <1>5, SeqEqual
<1> QED
  BY <1>0, <1>6 DEF s, t, u, Splits

-----------------------------------------------------------------------------
\* The channel.

\* The ids of a sequence.
IdsOf(s) == {s[i] : i \in 1 .. Len(s)}

\* Each outstanding id is in one place of the channel.
Once(q, t, a) ==
  /\ q \in Seq(Ids) /\ a \in Seq(Ids) /\ t \subseteq Ids /\ IsFiniteSet(t)
  /\ \A i, j \in 1 .. Len(q) : q[i] = q[j] => i = j
  /\ \A i, j \in 1 .. Len(a) : a[i] = a[j] => i = j
  /\ IdsOf(q) \cap t = {} /\ IdsOf(a) \cap t = {} /\ IdsOf(q) \cap IdsOf(a) = {}
All(q, t, a) == IdsOf(q) \cup t \cup IdsOf(a)

\* The ids of a sequence are as many as its places when none is there twice.
LEMMA IdsCounted ==
  ASSUME NEW s \in Seq(Ids), \A i, j \in 1 .. Len(s) : s[i] = s[j] => i = j
  PROVE  IsFiniteSet(IdsOf(s)) /\ Cardinality(IdsOf(s)) = Len(s) /\ IdsOf(s) \subseteq Ids
<1>1. s \in [1 .. Len(s) -> Ids] /\ Len(s) \in Nat
  OBVIOUS
<1>2. s \in Bijection(1 .. Len(s), IdsOf(s))
  <2>1. s \in [1 .. Len(s) -> IdsOf(s)]
    BY <1>1 DEF IdsOf
  <2>2. \A y \in IdsOf(s) : \E i \in 1 .. Len(s) : s[i] = y
    BY DEF IdsOf
  <2> QED
    BY <1>1, <2>1, <2>2 DEF Bijection, Injection, Surjection, IsInjective
<1>3. ExistsBijection(1 .. Len(s), IdsOf(s))
  BY <1>2 DEF ExistsBijection
<1>4. IsFiniteSet(IdsOf(s)) /\ Cardinality(IdsOf(s)) = Len(s)
  BY <1>1, <1>3, FS_NatBijection, FS_CountingElements
<1> QED
  BY <1>1, <1>4 DEF IdsOf

\* So the outstanding ids are as many as the three parts are long.
LEMMA AllCounted ==
  ASSUME NEW q, NEW t, NEW a, Once(q, t, a)
  PROVE  /\ IsFiniteSet(All(q, t, a))
         /\ Cardinality(All(q, t, a)) = Len(q) + Cardinality(t) + Len(a)
         /\ All(q, t, a) \subseteq Ids /\ Cardinality(t) \in Nat
<1>1. /\ IsFiniteSet(IdsOf(q)) /\ Cardinality(IdsOf(q)) = Len(q) /\ IdsOf(q) \subseteq Ids
      /\ IsFiniteSet(IdsOf(a)) /\ Cardinality(IdsOf(a)) = Len(a) /\ IdsOf(a) \subseteq Ids
      /\ IsFiniteSet(t) /\ Cardinality(t) \in Nat /\ Len(q) \in Nat /\ Len(a) \in Nat
  BY IdsCounted, FS_CardinalityType DEF Once
<1>2. IsFiniteSet(IdsOf(q) \cup t) /\ Cardinality(IdsOf(q) \cup t) = Len(q) + Cardinality(t)
  <2>1. Cardinality(IdsOf(q) \cap t) = 0
    BY FS_EmptySet DEF Once
  <2>2. /\ IsFiniteSet(IdsOf(q) \cup t)
        /\ Cardinality(IdsOf(q) \cup t) = Cardinality(IdsOf(q)) + Cardinality(t) - Cardinality(IdsOf(q) \cap t)
    BY <1>1, FS_Union, Zenon
  <2> QED
    BY <1>1, <2>1, <2>2
<1>3. /\ IsFiniteSet((IdsOf(q) \cup t) \cup IdsOf(a))
      /\ Cardinality((IdsOf(q) \cup t) \cup IdsOf(a)) = Len(q) + Cardinality(t) + Len(a)
  <2>1. (IdsOf(q) \cup t) \cap IdsOf(a) = {}
    BY DEF Once
  <2>2. Cardinality((IdsOf(q) \cup t) \cap IdsOf(a)) = 0
    BY <2>1, FS_EmptySet
  <2>3. /\ IsFiniteSet((IdsOf(q) \cup t) \cup IdsOf(a))
        /\ Cardinality((IdsOf(q) \cup t) \cup IdsOf(a)) =
             Cardinality(IdsOf(q) \cup t) + Cardinality(IdsOf(a)) - Cardinality((IdsOf(q) \cup t) \cap IdsOf(a))
    BY <1>1, <1>2, FS_Union, Zenon
  <2> QED
    BY <1>1, <1>2, <2>2, <2>3
<1>4. All(q, t, a) = (IdsOf(q) \cup t) \cup IdsOf(a)
  BY DEF All
<1> QED
  BY <1>1, <1>3, <1>4 DEF Once

\* Sending new ids keeps each in one place.
LEMMA SendOnce ==
  ASSUME NEW q, NEW t, NEW a, Once(q, t, a), NEW s \in Seq(Ids),
         \A i, j \in 1 .. Len(s) : s[i] = s[j] => i = j,
         IdsOf(s) \cap All(q, t, a) = {}
  PROVE  Once(q \o s, t, a) /\ All(q \o s, t, a) = All(q, t, a) \cup IdsOf(s)
<1>1. q \in Seq(Ids) /\ a \in Seq(Ids) /\ Len(q) \in Nat /\ Len(s) \in Nat
  BY DEF Once
<1>2. /\ q \o s \in Seq(Ids) /\ Len(q \o s) = Len(q) + Len(s)
      /\ \A i \in 1 .. Len(q) + Len(s) : (q \o s)[i] = IF i <= Len(q) THEN q[i] ELSE s[i - Len(q)]
  BY <1>1, ConcatProperties
<1>3. IdsOf(q \o s) = IdsOf(q) \cup IdsOf(s)
  <2>1. ASSUME NEW i \in 1 .. Len(q)
        PROVE  q[i] \in IdsOf(q \o s)
    BY <1>1, <1>2 DEF IdsOf
  <2>2. ASSUME NEW i \in 1 .. Len(s)
        PROVE  s[i] \in IdsOf(q \o s)
    <3>1. i + Len(q) \in 1 .. Len(q) + Len(s) /\ (q \o s)[i + Len(q)] = s[i]
      BY <1>1, <1>2
    <3> QED
      BY <1>2, <3>1 DEF IdsOf
  <2>3. ASSUME NEW i \in 1 .. Len(q) + Len(s)
        PROVE  (q \o s)[i] \in IdsOf(q) \cup IdsOf(s)
    <3>1. CASE i <= Len(q)
      BY <1>1, <1>2, <3>1 DEF IdsOf
    <3>2. CASE ~(i <= Len(q))
      <4>1. i - Len(q) \in 1 .. Len(s)
        BY <1>1, <3>2
      <4> QED
        BY <1>2, <3>2, <4>1 DEF IdsOf
    <3> QED
      BY <3>1, <3>2
  <2>4. IdsOf(q \o s) = {(q \o s)[i] : i \in 1 .. Len(q) + Len(s)}
    BY <1>2 DEF IdsOf
  <2>5. IdsOf(q \o s) \subseteq IdsOf(q) \cup IdsOf(s)
    BY <2>3, <2>4
  <2>6. IdsOf(q) \subseteq IdsOf(q \o s) /\ IdsOf(s) \subseteq IdsOf(q \o s)
    BY <2>1, <2>2 DEF IdsOf
  <2> QED
    BY <2>5, <2>6
<1>4. \A i, j \in 1 .. Len(q) + Len(s) : (q \o s)[i] = (q \o s)[j] => i = j
  <2> SUFFICES ASSUME NEW i \in 1 .. Len(q) + Len(s), NEW j \in 1 .. Len(q) + Len(s),
                      (q \o s)[i] = (q \o s)[j]
               PROVE  i = j
    OBVIOUS
  <2>1. \A x \in 1 .. Len(q), y \in 1 .. Len(s) : q[x] # s[y]
    <3> SUFFICES ASSUME NEW x \in 1 .. Len(q), NEW y \in 1 .. Len(s)
                 PROVE  q[x] # s[y]
      OBVIOUS
    <3>1. q[x] \in All(q, t, a) /\ s[y] \in IdsOf(s)
      BY DEF IdsOf, All
    <3> QED
      BY <3>1
  <2>2. CASE i <= Len(q) /\ j <= Len(q)
    BY <1>1, <1>2, <2>2 DEF Once
  <2>3. CASE i > Len(q) /\ j > Len(q)
    <3>1. i - Len(q) \in 1 .. Len(s) /\ j - Len(q) \in 1 .. Len(s) /\ s[i - Len(q)] = s[j - Len(q)]
      BY <1>1, <1>2, <2>3
    <3>2. i - Len(q) = j - Len(q)
      BY <3>1
    <3> QED
      BY <1>1, <3>2
  <2>4. CASE i <= Len(q) /\ j > Len(q)
    <3>1. i \in 1 .. Len(q) /\ j - Len(q) \in 1 .. Len(s) /\ q[i] = s[j - Len(q)]
      BY <1>1, <1>2, <2>4
    <3> QED
      BY <2>1, <3>1
  <2>5. CASE i > Len(q) /\ j <= Len(q)
    <3>1. j \in 1 .. Len(q) /\ i - Len(q) \in 1 .. Len(s) /\ q[j] = s[i - Len(q)]
      BY <1>1, <1>2, <2>5
    <3> QED
      BY <2>1, <3>1
  <2> QED
    BY <1>1, <2>2, <2>3, <2>4, <2>5
<1> QED
  BY <1>1, <1>2, <1>3, <1>4 DEF Once, All

\* The tail of such a sequence has the ids but the first.
LEMMA TailIds ==
  ASSUME NEW s \in Seq(Ids), s # << >>, \A i, j \in 1 .. Len(s) : s[i] = s[j] => i = j
  PROVE  /\ Tail(s) \in Seq(Ids) /\ Head(s) \in IdsOf(s) /\ IdsOf(s) \subseteq Ids
         /\ \A i, j \in 1 .. Len(Tail(s)) : Tail(s)[i] = Tail(s)[j] => i = j
         /\ IdsOf(Tail(s)) = IdsOf(s) \ {Head(s)}
<1>1. /\ Len(s) \in Nat /\ Len(s) >= 1 /\ Head(s) = s[1]
      /\ Tail(s) \in Seq(Ids) /\ Len(Tail(s)) = Len(s) - 1
      /\ \A i \in 1 .. Len(s) - 1 : Tail(s)[i] = s[i + 1]
  OBVIOUS
<1>2. \A i, j \in 1 .. Len(Tail(s)) : Tail(s)[i] = Tail(s)[j] => i = j
  <2> SUFFICES ASSUME NEW i \in 1 .. Len(s) - 1, NEW j \in 1 .. Len(s) - 1, s[i + 1] = s[j + 1]
               PROVE  i = j
    BY <1>1
  <2>1. i + 1 \in 1 .. Len(s) /\ j + 1 \in 1 .. Len(s)
    BY <1>1
  <2>2. i + 1 = j + 1
    BY <2>1
  <2> QED
    BY <2>2
<1>3. IdsOf(Tail(s)) = {s[i + 1] : i \in 1 .. Len(s) - 1}
  BY <1>1 DEF IdsOf
<1>4. IdsOf(Tail(s)) \subseteq IdsOf(s) \ {Head(s)}
  <2> SUFFICES ASSUME NEW i \in 1 .. Len(s) - 1
               PROVE  s[i + 1] \in IdsOf(s) /\ s[i + 1] # s[1]
    BY <1>1, <1>3
  <2>1. i + 1 \in 1 .. Len(s) /\ 1 \in 1 .. Len(s) /\ i + 1 # 1
    BY <1>1
  <2> QED
    BY <2>1 DEF IdsOf
<1>5. IdsOf(s) \ {Head(s)} \subseteq IdsOf(Tail(s))
  <2> SUFFICES ASSUME NEW i \in 1 .. Len(s), s[i] # s[1]
               PROVE  s[i] \in IdsOf(Tail(s))
    BY <1>1 DEF IdsOf
  <2>1. i - 1 \in 1 .. Len(s) - 1 /\ s[(i - 1) + 1] = s[i]
    BY <1>1
  <2> QED
    BY <1>3, <2>1
<1>6. Head(s) \in IdsOf(s) /\ IdsOf(s) \subseteq Ids
  BY <1>1 DEF IdsOf
<1> QED
  BY <1>1, <1>2, <1>4, <1>5, <1>6

\* Appending a new id adds it.
LEMMA AppendIds ==
  ASSUME NEW s \in Seq(Ids), NEW x \in Ids \ IdsOf(s), \A i, j \in 1 .. Len(s) : s[i] = s[j] => i = j
  PROVE  /\ Append(s, x) \in Seq(Ids) /\ IdsOf(Append(s, x)) = IdsOf(s) \cup {x}
         /\ \A i, j \in 1 .. Len(Append(s, x)) : Append(s, x)[i] = Append(s, x)[j] => i = j
<1> DEFINE t == Append(s, x)
<1>1. /\ Len(s) \in Nat /\ t \in Seq(Ids) /\ Len(t) = Len(s) + 1 /\ t[Len(s) + 1] = x
      /\ \A i \in 1 .. Len(s) : t[i] = s[i]
  OBVIOUS
<1> HIDE DEF t
<1>2. \A i \in 1 .. Len(s) : t[i] # x
  BY <1>1 DEF IdsOf
<1>3. IdsOf(t) = IdsOf(s) \cup {x}
  <2>1. ASSUME NEW i \in 1 .. Len(s) + 1
        PROVE  t[i] \in IdsOf(s) \cup {x}
    <3>1. CASE i \in 1 .. Len(s)
      BY <1>1, <3>1 DEF IdsOf
    <3>2. CASE i = Len(s) + 1
      BY <1>1, <3>2
    <3> QED
      BY <1>1, <3>1, <3>2
  <2>2. ASSUME NEW i \in 1 .. Len(s)
        PROVE  s[i] \in IdsOf(t)
    BY <1>1 DEF IdsOf
  <2>3. x \in IdsOf(t)
    BY <1>1 DEF IdsOf
  <2>4. IdsOf(t) = {t[i] : i \in 1 .. Len(s) + 1}
    BY <1>1 DEF IdsOf
  <2>5. IdsOf(t) \subseteq IdsOf(s) \cup {x}
    BY <2>1, <2>4
  <2>6. IdsOf(s) \subseteq IdsOf(t)
    BY <2>2 DEF IdsOf
  <2> QED
    BY <2>3, <2>5, <2>6
<1>4. \A i, j \in 1 .. Len(t) : t[i] = t[j] => i = j
  <2> SUFFICES ASSUME NEW i \in 1 .. Len(s) + 1, NEW j \in 1 .. Len(s) + 1, t[i] = t[j]
               PROVE  i = j
    BY <1>1
  <2>1. CASE i \in 1 .. Len(s) /\ j \in 1 .. Len(s)
    BY <1>1, <2>1
  <2>2. CASE i = Len(s) + 1 \/ j = Len(s) + 1
    BY <1>1, <1>2, <2>2
  <2> QED
    BY <1>1, <2>1, <2>2
<1> QED
  BY <1>1, <1>3, <1>4 DEF t

\* The backend takes the first request.
LEMMA TakeOnce ==
  ASSUME NEW q, NEW t, NEW a, Once(q, t, a), q # << >>
  PROVE  /\ Once(Tail(q), t \cup {Head(q)}, a)
         /\ All(Tail(q), t \cup {Head(q)}, a) = All(q, t, a)
         /\ Cardinality(t \cup {Head(q)}) = Cardinality(t) + 1
<1>1. /\ Tail(q) \in Seq(Ids) /\ Head(q) \in IdsOf(q) /\ IdsOf(q) \subseteq Ids
      /\ \A i, j \in 1 .. Len(Tail(q)) : Tail(q)[i] = Tail(q)[j] => i = j
      /\ IdsOf(Tail(q)) = IdsOf(q) \ {Head(q)}
  BY TailIds DEF Once
<1>2. Head(q) \notin t /\ IsFiniteSet(t)
  BY <1>1 DEF Once
<1>3. IsFiniteSet(t \cup {Head(q)}) /\ Cardinality(t \cup {Head(q)}) = Cardinality(t) + 1
  BY <1>2, FS_AddElement
<1> QED
  BY <1>1, <1>2, <1>3 DEF Once, All

\* It answers one.
LEMMA AnswerOnce ==
  ASSUME NEW q, NEW t, NEW a, Once(q, t, a), NEW id \in t
  PROVE  /\ Once(q, t \ {id}, Append(a, id))
         /\ All(q, t \ {id}, Append(a, id)) = All(q, t, a)
         /\ Cardinality(t \ {id}) = Cardinality(t) - 1
<1>1. /\ Append(a, id) \in Seq(Ids) /\ IdsOf(Append(a, id)) = IdsOf(a) \cup {id}
      /\ \A i, j \in 1 .. Len(Append(a, id)) : Append(a, id)[i] = Append(a, id)[j] => i = j
  BY AppendIds DEF Once
<1>2. IsFiniteSet(t \ {id}) /\ Cardinality(t \ {id}) = Cardinality(t) - 1
  BY FS_RemoveElement DEF Once
<1> QED
  BY <1>1, <1>2 DEF Once, All

\* The frontend reads the first response.
LEMMA ReadOnce ==
  ASSUME NEW q, NEW t, NEW a, Once(q, t, a), a # << >>
  PROVE  Once(q, t, Tail(a)) /\ All(q, t, Tail(a)) = All(q, t, a) \ {Head(a)}
<1>1. /\ Tail(a) \in Seq(Ids) /\ Head(a) \in IdsOf(a) /\ IdsOf(a) \subseteq Ids
      /\ \A i, j \in 1 .. Len(Tail(a)) : Tail(a)[i] = Tail(a)[j] => i = j
      /\ IdsOf(Tail(a)) = IdsOf(a) \ {Head(a)}
  BY TailIds DEF Once
<1> QED
  BY <1>1 DEF Once, All

-----------------------------------------------------------------------------
\* Distances round the ring.

\* Indices at distances that add up to less than a lap are where the distances say.
LEMMA Positions ==
  ASSUME NEW b \in Index, NEW p \in Index, NEW c \in Index, NEW r \in Index,
         Minus(p, b) + Minus(c, p) + Minus(r, c) < RingSize
  PROVE  /\ Minus(p, b) \in Nat /\ Minus(c, p) \in Nat /\ Minus(r, c) \in Nat
         /\ p = Plus(b, Minus(p, b))
         /\ c = Plus(b, Minus(p, b) + Minus(c, p))
         /\ r = Plus(b, Minus(p, b) + Minus(c, p) + Minus(r, c))
         /\ Minus(p, b) \in Index /\ Minus(p, b) + Minus(c, p) \in Index
         /\ Minus(p, b) + Minus(c, p) + Minus(r, c) \in Index
<1>1. IndexSpan \in Nat /\ RingSize \in Nat /\ IndexSpan >= 2 * RingSize
  BY IndexValues
<1>2. /\ Minus(p, b) = IF p >= b THEN p - b ELSE p + IndexSpan - b
      /\ Minus(c, p) = IF c >= p THEN c - p ELSE c + IndexSpan - p
      /\ Minus(r, c) = IF r >= c THEN r - c ELSE r + IndexSpan - c
      /\ Minus(p, b) \in Index /\ Minus(c, p) \in Index /\ Minus(r, c) \in Index
  BY IndexValues
<1>3. /\ Minus(p, b) + Minus(c, p) \in Index
      /\ Minus(p, b) + Minus(c, p) + Minus(r, c) \in Index
  BY <1>1, <1>2 DEF Index
<1>4. p = Plus(b, Minus(p, b))
  <2>1. Plus(b, Minus(p, b)) = IF b + Minus(p, b) < IndexSpan THEN b + Minus(p, b)
                               ELSE b + Minus(p, b) - IndexSpan
    BY <1>2, IndexValues
  <2> QED
    BY <1>1, <1>2, <2>1 DEF Index
<1>5. c = Plus(b, Minus(p, b) + Minus(c, p))
  <2>1. PICK n \in Index : n = Minus(p, b) + Minus(c, p)
    BY <1>3
  <2>2. Plus(b, n) = IF b + n < IndexSpan THEN b + n ELSE b + n - IndexSpan
    BY IndexValues
  <2> QED
    BY <1>1, <1>2, <2>1, <2>2 DEF Index
<1>6. r = Plus(b, Minus(p, b) + Minus(c, p) + Minus(r, c))
  <2>1. PICK n \in Index : n = Minus(p, b) + Minus(c, p) + Minus(r, c)
    BY <1>3
  <2>2. Plus(b, n) = IF b + n < IndexSpan THEN b + n ELSE b + n - IndexSpan
    BY IndexValues
  <2> QED
    BY <1>1, <1>2, <2>1, <2>2 DEF Index
<1> QED
  BY <1>2, <1>3, <1>4, <1>5, <1>6 DEF Index

\* An index less than a lap from b, in terms of its distance.
LEMMA AtDistance ==
  ASSUME NEW b \in Index, NEW x \in Nat, x < RingSize
  PROVE  /\ Plus(b, x) \in Index /\ x \in Index
         /\ Plus(b, x) = IF b + x < IndexSpan THEN b + x ELSE b + x - IndexSpan
         /\ \A k \in Nat : Slot(Plus(b, x) + k) = Slot(b + x + k)
         /\ Slot(Plus(b, x)) = Slot(b + x)
         /\ \A f \in Rings, n \in Nat : Segment(f, Plus(b, x), n) = Segment(f, b + x, n)
<1>1. x \in Index /\ b \in Nat
  BY IndexValues DEF Index
<1>2. /\ Plus(b, x) \in Index
      /\ Plus(b, x) = IF b + x < IndexSpan THEN b + x ELSE b + x - IndexSpan
  BY <1>1, IndexValues
<1>3. \A k \in Nat : Slot(Plus(b, x) + k) = Slot(b + x + k)
  BY <1>1, SlotWraps
<1>4. Slot(Plus(b, x)) = Slot(b + x)
  <2>1. Slot(Plus(b, x) + 0) = Slot(b + x + 0)
    BY <1>3
  <2> QED
    BY <1>1, <1>2, <2>1 DEF Index
<1> QED
  BY <1>1, <1>2, <1>3, <1>4, SegmentWraps

\* Two of them.
LEMMA Distances ==
  ASSUME NEW b \in Index, NEW x \in Nat, NEW y \in Nat, x <= y, y < RingSize
  PROVE  Minus(Plus(b, y), Plus(b, x)) = y - x /\ Plus(Plus(b, x), y - x) = Plus(b, y)
<1>1. /\ Plus(b, x) \in Index /\ Plus(b, y) \in Index /\ y - x \in Index
      /\ Plus(b, x) = IF b + x < IndexSpan THEN b + x ELSE b + x - IndexSpan
      /\ Plus(b, y) = IF b + y < IndexSpan THEN b + y ELSE b + y - IndexSpan
      /\ y - x \in Nat /\ y - x < RingSize
  <2>1. y - x \in Nat /\ y - x < RingSize /\ x < RingSize
    BY IndexValues
  <2> QED
    BY <2>1, AtDistance
<1>2. /\ Minus(Plus(b, y), Plus(b, x)) = IF Plus(b, y) >= Plus(b, x) THEN Plus(b, y) - Plus(b, x)
                                         ELSE Plus(b, y) + IndexSpan - Plus(b, x)
      /\ Plus(Plus(b, x), y - x) = IF Plus(b, x) + (y - x) < IndexSpan THEN Plus(b, x) + (y - x)
                                   ELSE Plus(b, x) + (y - x) - IndexSpan
  BY <1>1, IndexValues
<1>3. b \in 0 .. IndexSpan - 1 /\ IndexSpan \in Nat /\ IndexSpan >= 2 * RingSize /\ RingSize \in Nat
  BY IndexValues DEF Index
<1> QED
  BY <1>1, <1>2, <1>3

TakenFrom(f, b, x, y, z) ==
  /\ Segment(Put(f, b + y, None), b, x) = Segment(f, b, x)
  /\ Segment(f, b + y, z - y) # << >> /\ Head(Segment(f, b + y, z - y)) = f[Slot(b + y)]
  /\ Segment(Put(f, b + y, None), b + (y + 1), z - (y + 1)) = Tail(Segment(f, b + y, z - y))

\* Taking a request leaves the responses and the rest of the requests.
LEMMA TakeSegments ==
  ASSUME NEW f \in Rings, NEW b \in Nat, NEW x \in Nat, NEW y \in Nat, NEW z \in Nat,
         x <= y, y < z, z < RingSize
  PROVE  TakenFrom(f, b, x, y, z)
<1>1. RingSize \in Nat
  BY IndexValues
<1>2. PICK w \in Nat, u \in Nat : w = b + y /\ u = w + 1
  OBVIOUS
<1>3. PICK n \in Nat, m \in Nat : n = z - (y + 1) /\ m = z - y /\ m = n + 1 /\ m >= 1 /\ n = m - 1
  OBVIOUS
<1>4. b + (y + 1) = u
  BY <1>2
<1>5. PICK g \in Rings : g = Put(f, w, None)
  BY PutOnRing
<1>6. Segment(g, b, x) = Segment(f, b, x)
  BY <1>1, <1>2, <1>5, SegmentKept
<1>7. HasFirst(f, w, m)
  BY <1>3, FirstOfSegment
<1>8. Segment(g, u, n) = Segment(f, u, n)
  BY <1>1, <1>2, <1>3, <1>5, SegmentKept
<1> QED
  BY <1>2, <1>3, <1>4, <1>5, <1>6, <1>7, <1>8 DEF HasFirst, TakenFrom

AnsweredOn(f, b, x, y, z, id) ==
  /\ Segment(Put(f, b + x, id), b, x + 1) = Append(Segment(f, b, x), id)
  /\ Segment(Put(f, b + x, id), b + y, z - y) = Segment(f, b + y, z - y)

\* An answer leaves the requests, and is the last response.
LEMMA AnswerSegments ==
  ASSUME NEW f \in Rings, NEW b \in Nat, NEW x \in Nat, NEW y \in Nat, NEW z \in Nat,
         x < y, y <= z, z < RingSize, NEW id \in Ids
  PROVE  AnsweredOn(f, b, x, y, z, id)
<1>1. RingSize \in Nat
  BY IndexValues
<1>2. PICK w \in Nat, u \in Nat, n \in Nat, l \in Nat : w = b + x /\ u = b + y /\ n = z - y /\ l = x + 1
  OBVIOUS
<1>3. PICK g \in Rings : g = Put(f, w, id) /\ g[Slot(w)] = id
  BY PutOnRing
<1>4. Segment(g, u, n) = Segment(f, u, n)
  BY <1>1, <1>2, <1>3, SegmentKept
<1>5. Segment(g, b, x) = Segment(f, b, x)
  BY <1>1, <1>2, <1>3, SegmentKept
<1>6. Segment(g, b, l) = Segment(g, b, x) \o Segment(g, w, 1)
  <2>1. PICK m \in Nat : m = 1 /\ l = x + m
    BY <1>2
  <2>2. Splits(g, b, x, m)
    BY SegmentGrows
  <2> QED
    BY <1>2, <2>1, <2>2 DEF Splits
<1>7. Segment(g, w, 1) = <<id>>
  <2>1. w + 1 - 1 = w
    OBVIOUS
  <2> QED
    BY <1>3, <2>1 DEF Segment
<1>8. Segment(f, b, x) \o <<id>> = Append(Segment(f, b, x), id)
  BY SegmentIsSeq, AppendIsConcat
<1> QED
  BY <1>2, <1>3, <1>4, <1>5, <1>6, <1>7, <1>8 DEF AnsweredOn

ReadFrom(f, b, x, y, z) ==
  /\ Segment(f, b, x) # << >> /\ Head(Segment(f, b, x)) = f[Slot(b)]
  /\ Segment(Put(f, b, None), b + 1, x - 1) = Tail(Segment(f, b, x))
  /\ Segment(Put(f, b, None), b + y, z - y) = Segment(f, b + y, z - y)

\* Reading a response leaves the requests and the rest of the responses.
LEMMA ReadSegments ==
  ASSUME NEW f \in Rings, NEW b \in Nat, NEW x \in Nat, NEW y \in Nat, NEW z \in Nat,
         0 < x, x <= y, y <= z, z < RingSize
  PROVE  ReadFrom(f, b, x, y, z)
<1>1. RingSize \in Nat
  BY IndexValues
<1>2. PICK w \in Nat, u \in Nat, n \in Nat, m \in Nat : w = b + 1 /\ u = b + y /\ n = z - y /\ m = x - 1 /\ x = m + 1
  OBVIOUS
<1>3. PICK g \in Rings : g = Put(f, b, None)
  BY PutOnRing
<1>4. HasFirst(f, b, x)
  BY FirstOfSegment
<1>5. Segment(g, w, m) = Segment(f, w, m)
  BY <1>1, <1>2, <1>3, SegmentKept
<1>6. Segment(g, u, n) = Segment(f, u, n)
  BY <1>1, <1>2, <1>3, SegmentKept
<1> QED
  BY <1>2, <1>3, <1>4, <1>5, <1>6 DEF HasFirst, ReadFrom

\* Requests written one behind the other, as SubmitRequests writes them.
Written(f, r, n, ids) ==
  [x \in 0 .. RingSize - 1 |->
     IF \E k \in 1 .. n : Slot(r + k - 1) = x
     THEN ids[CHOOSE k \in 1 .. n : Slot(r + k - 1) = x] ELSE f[x]]

AreWritten(g, f, r, n, ids) ==
  /\ \A k \in 1 .. n : g[Slot(r + k - 1)] = ids[k]
  /\ \A x \in 0 .. RingSize - 1 : (\A k \in 1 .. n : Slot(r + k - 1) # x) => g[x] = f[x]

\* Each is in its slot, and the other slots are left alone.
LEMMA WrittenAt ==
  ASSUME NEW f \in Rings, NEW r \in Nat, NEW n \in Nat, n < RingSize, NEW ids \in [1 .. n -> Ids]
  PROVE  Written(f, r, n, ids) \in Rings /\ AreWritten(Written(f, r, n, ids), f, r, n, ids)
<1>1. \A k \in 1 .. n : r + k - 1 \in Nat /\ Slot(r + k - 1) \in 0 .. RingSize - 1
  BY SlotOnRing
<1>2. ASSUME NEW j \in 1 .. n, NEW k \in 1 .. n, Slot(r + j - 1) = Slot(r + k - 1)
      PROVE  j = k
  <2>1. RingSize \in Nat
    BY IndexValues
  <2>2. CASE j < k
    <3>1. r + j - 1 < r + k - 1 /\ r + k - 1 < r + j - 1 + RingSize
      BY <2>1, <2>2
    <3> QED
      BY <1>1, <1>2, <3>1, SlotsDiffer
  <2>3. CASE k < j
    <3>1. r + k - 1 < r + j - 1 /\ r + j - 1 < r + k - 1 + RingSize
      BY <2>1, <2>3
    <3> QED
      BY <1>1, <1>2, <3>1, SlotsDiffer
  <2> QED
    BY <2>2, <2>3
<1>3. ASSUME NEW x \in 0 .. RingSize - 1, NEW k \in 1 .. n, Slot(r + k - 1) = x
      PROVE  Written(f, r, n, ids)[x] = ids[k]
  <2>1. (CHOOSE j \in 1 .. n : Slot(r + j - 1) = x) = k
    BY <1>2, <1>3
  <2> QED
    BY <1>3, <2>1 DEF Written
<1>4. ASSUME NEW x \in 0 .. RingSize - 1, \A k \in 1 .. n : Slot(r + k - 1) # x
      PROVE  Written(f, r, n, ids)[x] = f[x]
  BY <1>4 DEF Written
<1>5. ASSUME NEW x \in 0 .. RingSize - 1
      PROVE  Written(f, r, n, ids)[x] \in Ids \cup {None}
  <2>1. CASE \E k \in 1 .. n : Slot(r + k - 1) = x
    BY <1>3, <2>1
  <2>2. CASE \A k \in 1 .. n : Slot(r + k - 1) # x
    BY <1>4, <2>2 DEF Rings
  <2> QED
    BY <2>1, <2>2
<1>6. Written(f, r, n, ids) \in Rings
  BY <1>5 DEF Rings, Written
<1>7. \A k \in 1 .. n : Written(f, r, n, ids)[Slot(r + k - 1)] = ids[k]
  BY <1>1, <1>3
<1> QED
  BY <1>4, <1>6, <1>7 DEF AreWritten

SentOn(g, f, b, x, y, z, n, ids) ==
  /\ g \in Rings /\ Segment(g, b, x) = Segment(f, b, x)
  /\ Segment(g, b + y, (z + n) - y) = Segment(f, b + y, z - y) \o ids

\* Sent requests are behind the others; they and the responses stay.
LEMMA SendSegments ==
  ASSUME NEW f \in Rings, NEW b \in Index, NEW x \in Nat, NEW y \in Nat, NEW z \in Nat, NEW n \in Nat,
         x <= y, y <= z, z + n < RingSize, NEW ids \in [1 .. n -> Ids]
  PROVE  SentOn(Written(f, Plus(b, z), n, ids), f, b, x, y, z, n, ids)
<1>1. RingSize \in Nat /\ b \in Nat /\ z < RingSize /\ n < RingSize
  BY IndexValues DEF Index
<1>2. PICK r \in Nat : r = Plus(b, z)
  BY <1>1, AtDistance DEF Index
<1>3. \A k \in 1 .. n : Slot(r + k - 1) = Slot(b + z + k - 1)
  <2> SUFFICES ASSUME NEW k \in 1 .. n
               PROVE  Slot(r + k - 1) = Slot(b + z + k - 1)
    OBVIOUS
  <2>1. k - 1 \in Nat /\ r + k - 1 = r + (k - 1) /\ b + z + k - 1 = b + z + (k - 1)
    BY <1>1
  <2>2. Slot(r + (k - 1)) = Slot(b + z + (k - 1))
    BY <1>1, <1>2, <2>1, AtDistance
  <2> QED
    BY <2>1, <2>2
<1>4. PICK g \in Rings : g = Written(f, r, n, ids) /\ AreWritten(g, f, r, n, ids)
  BY <1>1, WrittenAt
<1>5. /\ \A k \in 1 .. n : g[Slot(r + k - 1)] = ids[k]
      /\ \A s \in 0 .. RingSize - 1 : (\A k \in 1 .. n : Slot(r + k - 1) # s) => g[s] = f[s]
  BY <1>4 DEF AreWritten
<1>6. ASSUME NEW i \in Nat, i < z
      PROVE  g[Slot(b + i)] = f[Slot(b + i)]
  <2>0. PICK w \in Nat : w = b + i
    BY <1>1
  <2>1. b + i \in Nat /\ Slot(b + i) \in 0 .. RingSize - 1
    BY <2>0, SlotOnRing
  <2>2. ASSUME NEW k \in 1 .. n
        PROVE  Slot(r + k - 1) # Slot(b + i)
    <3>1. b + z + k - 1 \in Nat /\ b + i < b + z + k - 1 /\ b + z + k - 1 < b + i + RingSize
      BY <1>1, <1>6
    <3>2. Slot(b + i) # Slot(b + z + k - 1)
      BY <2>1, <3>1, SlotsDiffer
    <3> QED
      BY <1>3, <3>2
  <2> QED
    BY <1>5, <2>1, <2>2
<1>7. Segment(g, b, x) = Segment(f, b, x)
  <2>1. ASSUME NEW k \in 1 .. x
        PROVE  g[Slot(b + k - 1)] = f[Slot(b + k - 1)]
    <3>1. k - 1 \in Nat /\ k - 1 < z /\ b + k - 1 = b + (k - 1)
      BY <1>1
    <3> QED
      BY <1>6, <3>1
  <2> QED
    BY <2>1 DEF Segment
<1>8. PICK w \in Nat, m \in Nat, v \in Nat : w = b + y /\ m = z - y /\ v = b + z /\ w + m = v /\ (z + n) - y = m + n
  BY <1>1
<1>9. Segment(g, w, m) = Segment(f, w, m)
  <2>1. ASSUME NEW k \in 1 .. m
        PROVE  g[Slot(w + k - 1)] = f[Slot(w + k - 1)]
    <3>1. y + (k - 1) \in Nat /\ y + (k - 1) < z /\ w + k - 1 = b + (y + (k - 1))
      BY <1>1, <1>8
    <3> QED
      BY <1>6, <3>1
  <2> QED
    BY <2>1 DEF Segment
<1>10. Segment(g, v, n) = ids
  <2>1. \A k \in 1 .. n : g[Slot(v + k - 1)] = ids[k]
    BY <1>3, <1>5, <1>8
  <2> QED
    BY <2>1 DEF Segment
<1>11. Splits(g, w, m, n)
  BY SegmentGrows
<1>12. Segment(g, w, m + n) = Segment(f, w, m) \o ids
  BY <1>8, <1>9, <1>10, <1>11 DEF Splits
<1> QED
  BY <1>2, <1>4, <1>7, <1>8, <1>12 DEF SentOn

-----------------------------------------------------------------------------
\* The order of the indices round the ring: read (rc) and being read (b), published
\* responses (q), answered (x), taken (y), published requests (p) and requests (z).
Lap(rc, b, q, x, y, p, z) ==
  /\ Minus(b, rc) + Minus(x, b) + Minus(y, x) + Minus(z, y) < RingSize
  /\ Minus(p, y) <= Minus(z, y)
  /\ Minus(q, b) <= Minus(x, b)

IsMinus(i, j) == Minus(i, j) \in Index /\ Minus(i, j) = IF i >= j THEN i - j ELSE i + IndexSpan - j

\* Differences of indices, one by one.
LEMMA MinusValues == \A i, j \in Index : IsMinus(i, j)
BY IndexValues DEF IsMinus

TakesOne(rc, b, q, x, y, p, z) ==
  /\ Plus(y, 1) \in Index /\ Lap(rc, b, q, x, Plus(y, 1), p, z)
  /\ Minus(Plus(y, 1), x) = Minus(y, x) + 1
  /\ Minus(z, Plus(y, 1)) = Minus(z, y) - 1 /\ Minus(z, y) >= 1

\* The backend takes a request that is published.
LEMMA LapTake ==
  ASSUME NEW rc \in Index, NEW b \in Index, NEW q \in Index, NEW x \in Index, NEW y \in Index,
         NEW p \in Index, NEW z \in Index, Lap(rc, b, q, x, y, p, z), y # p
  PROVE  TakesOne(rc, b, q, x, y, p, z)
<1>1. 1 \in Index
  BY IndexValues DEF Index
<1>2. PICK w \in Index : w = Plus(y, 1) /\ w = IF y + 1 < IndexSpan THEN y + 1 ELSE y + 1 - IndexSpan
  BY <1>1, IndexValues
<1>8. /\ IsMinus(b, rc)
      /\ IsMinus(x, b)
      /\ IsMinus(y, x)
      /\ IsMinus(z, y)
      /\ IsMinus(p, y)
      /\ IsMinus(q, b)
      /\ IsMinus(w, x)
      /\ IsMinus(z, w)
      /\ IsMinus(p, w)
  BY <1>2, MinusValues
<1>9. IndexSpan \in Nat /\ RingSize \in Nat /\ IndexSpan >= 2 * RingSize
  BY IndexValues
<1> QED
  BY <1>2, <1>8, <1>9 DEF Lap, Index, IsMinus, TakesOne

AnswersOne(rc, b, q, x, y, p, z) ==
  /\ Plus(x, 1) \in Index /\ Lap(rc, b, q, Plus(x, 1), y, p, z)
  /\ Minus(Plus(x, 1), b) = Minus(x, b) + 1
  /\ Minus(y, Plus(x, 1)) = Minus(y, x) - 1

\* It answers one that it has taken.
LEMMA LapAnswer ==
  ASSUME NEW rc \in Index, NEW b \in Index, NEW q \in Index, NEW x \in Index, NEW y \in Index,
         NEW p \in Index, NEW z \in Index, Lap(rc, b, q, x, y, p, z), Minus(y, x) >= 1
  PROVE  AnswersOne(rc, b, q, x, y, p, z)
<1>1. 1 \in Index
  BY IndexValues DEF Index
<1>2. PICK w \in Index : w = Plus(x, 1) /\ w = IF x + 1 < IndexSpan THEN x + 1 ELSE x + 1 - IndexSpan
  BY <1>1, IndexValues
<1>8. /\ IsMinus(b, rc)
      /\ IsMinus(x, b)
      /\ IsMinus(y, x)
      /\ IsMinus(z, y)
      /\ IsMinus(p, y)
      /\ IsMinus(q, b)
      /\ IsMinus(w, b)
      /\ IsMinus(y, w)
  BY <1>2, MinusValues
<1>9. IndexSpan \in Nat /\ RingSize \in Nat /\ IndexSpan >= 2 * RingSize
  BY IndexValues
<1> QED
  BY <1>2, <1>8, <1>9 DEF Lap, Index, IsMinus, AnswersOne

ReadsOne(rc, b, q, x, y, p, z, l) ==
  /\ Plus(b, 1) \in Index /\ Lap(rc, Plus(b, 1), q, x, y, p, z)
  /\ Minus(x, Plus(b, 1)) = Minus(x, b) - 1 /\ Minus(x, b) >= 1
  /\ Minus(l, Plus(b, 1)) <= Minus(q, Plus(b, 1))

\* The frontend reads a response up to the copy l of rsp_prod.
LEMMA LapRead ==
  ASSUME NEW rc \in Index, NEW b \in Index, NEW q \in Index, NEW x \in Index, NEW y \in Index,
         NEW p \in Index, NEW z \in Index, NEW l \in Index,
         Lap(rc, b, q, x, y, p, z), b # l, Minus(l, b) <= Minus(q, b)
  PROVE  ReadsOne(rc, b, q, x, y, p, z, l)
<1>1. 1 \in Index
  BY IndexValues DEF Index
<1>2. PICK w \in Index : w = Plus(b, 1) /\ w = IF b + 1 < IndexSpan THEN b + 1 ELSE b + 1 - IndexSpan
  BY <1>1, IndexValues
<1>8. /\ IsMinus(b, rc)
      /\ IsMinus(x, b)
      /\ IsMinus(y, x)
      /\ IsMinus(z, y)
      /\ IsMinus(p, y)
      /\ IsMinus(q, b)
      /\ IsMinus(w, rc)
      /\ IsMinus(x, w)
      /\ IsMinus(q, w)
      /\ IsMinus(l, b)
      /\ IsMinus(l, w)
  BY <1>2, MinusValues
<1>9. IndexSpan \in Nat /\ RingSize \in Nat /\ IndexSpan >= 2 * RingSize
  BY IndexValues
<1> QED
  BY <1>2, <1>8, <1>9 DEF Lap, Index, IsMinus, ReadsOne

\* It is through with what it has read.
LEMMA LapReadAll ==
  ASSUME NEW rc \in Index, NEW b \in Index, NEW q \in Index, NEW x \in Index, NEW y \in Index,
         NEW p \in Index, NEW z \in Index, Lap(rc, b, q, x, y, p, z)
  PROVE  Lap(b, b, q, x, y, p, z)
<1>1. /\ IsMinus(b, rc)
      /\ IsMinus(x, b)
      /\ IsMinus(y, x)
      /\ IsMinus(z, y)
      /\ IsMinus(p, y)
      /\ IsMinus(q, b)
      /\ IsMinus(b, b)
  BY MinusValues
<1>2. IndexSpan \in Nat /\ RingSize \in Nat /\ IndexSpan >= 2 * RingSize
  BY IndexValues
<1> QED
  BY <1>1, <1>2 DEF Lap, Index, IsMinus

SendsSome(rc, b, q, x, y, p, z, n) ==
  /\ Plus(z, n) \in Index /\ Lap(rc, b, q, x, y, p, Plus(z, n))
  /\ Minus(Plus(z, n), y) = Minus(z, y) + n
  /\ Minus(x, b) + Minus(y, x) + Minus(z, y) + n < RingSize

\* It puts n requests on the ring, for which there is room.
LEMMA LapSend ==
  ASSUME NEW rc \in Index, NEW b \in Index, NEW q \in Index, NEW x \in Index, NEW y \in Index,
         NEW p \in Index, NEW z \in Index, NEW n \in Nat \ {0},
         Lap(rc, b, q, x, y, p, z), Minus(RingSize, Minus(z, rc)) > n
  PROVE  SendsSome(rc, b, q, x, y, p, z, n)
<1>1. RingSize \in Index
  BY IndexValues DEF Index
<1>2. PICK d \in Index : d = Minus(z, rc) /\ d < RingSize
      /\ d = Minus(b, rc) + Minus(x, b) + Minus(y, x) + Minus(z, y)
  <2>1. /\ IsMinus(b, rc)
        /\ IsMinus(x, b)
        /\ IsMinus(y, x)
        /\ IsMinus(z, y)
        /\ IsMinus(p, y)
        /\ IsMinus(q, b)
        /\ IsMinus(z, rc)
    BY MinusValues
  <2>2. IndexSpan \in Nat /\ RingSize \in Nat /\ IndexSpan >= 2 * RingSize
    BY IndexValues
  <2>3. Minus(z, rc) = Minus(b, rc) + Minus(x, b) + Minus(y, x) + Minus(z, y)
    BY <2>1, <2>2 DEF Lap, Index, IsMinus
  <2> QED
    BY <2>1, <2>3 DEF Lap, IsMinus
<1>3. Minus(RingSize, d) = RingSize - d
  BY <1>1, <1>2, IndexValues DEF Index
<1>4. n \in Index /\ d + n < RingSize
  <2>1. RingSize - d > n /\ RingSize \in Nat /\ IndexSpan \in Nat /\ IndexSpan >= 2 * RingSize
    BY <1>2, <1>3, IndexValues
  <2> QED
    BY <1>2, <2>1 DEF Index
<1>5. PICK w \in Index : w = Plus(z, n) /\ w = IF z + n < IndexSpan THEN z + n ELSE z + n - IndexSpan
  BY <1>4, IndexValues
<1>8. /\ IsMinus(b, rc)
      /\ IsMinus(x, b)
      /\ IsMinus(y, x)
      /\ IsMinus(z, y)
      /\ IsMinus(p, y)
      /\ IsMinus(q, b)
      /\ IsMinus(w, y)
  BY <1>5, MinusValues
<1>9. IndexSpan \in Nat /\ RingSize \in Nat /\ IndexSpan >= 2 * RingSize
  BY IndexValues
<1> QED
  BY <1>2, <1>4, <1>5, <1>8, <1>9 DEF Lap, Index, IsMinus, SendsSome

\* Each end publishes what it has put on the ring.
LEMMA LapPublished ==
  ASSUME NEW rc \in Index, NEW b \in Index, NEW q \in Index, NEW x \in Index, NEW y \in Index,
         NEW p \in Index, NEW z \in Index, Lap(rc, b, q, x, y, p, z)
  PROVE  /\ Lap(rc, b, q, x, y, z, z) /\ Lap(rc, b, x, x, y, p, z)
<1>1. /\ IsMinus(b, rc)
      /\ IsMinus(x, b)
      /\ IsMinus(y, x)
      /\ IsMinus(z, y)
      /\ IsMinus(p, y)
      /\ IsMinus(q, b)
  BY MinusValues
<1>2. IndexSpan \in Nat /\ RingSize \in Nat /\ IndexSpan >= 2 * RingSize
  BY IndexValues
<1> QED
  BY <1>1, <1>2 DEF Lap, Index, IsMinus

\* The indices by their distance from b.
Placed(b, x, y, z, i, j, k) ==
  /\ i \in Nat /\ j \in Nat /\ k \in Nat /\ i <= j /\ j <= k /\ k < RingSize
  /\ i = Minus(x, b) /\ j - i = Minus(y, x) /\ k - j = Minus(z, y)
  /\ x = Plus(b, i) /\ y = Plus(b, j) /\ z = Plus(b, k)

\* In the order of the lap they are less than a lap from b.
LEMMA LapPlaced ==
  ASSUME NEW rc \in Index, NEW b \in Index, NEW q \in Index, NEW x \in Index, NEW y \in Index,
         NEW p \in Index, NEW z \in Index, Lap(rc, b, q, x, y, p, z)
  PROVE  \E i, j, k \in Nat : Placed(b, x, y, z, i, j, k)
<1>1. Minus(b, rc) \in Nat
  BY IndexValues DEF Index
<1>2. PICK d \in Nat, e \in Nat, h \in Nat : d = Minus(x, b) /\ e = Minus(y, x) /\ h = Minus(z, y)
  <2>1. IsMinus(x, b) /\ IsMinus(y, x) /\ IsMinus(z, y)
    BY MinusValues
  <2> QED
    BY <2>1 DEF IsMinus, Index
<1>3. d + e + h < RingSize
  BY <1>1, <1>2, IndexValues DEF Lap
<1>4. x = Plus(b, d) /\ y = Plus(b, d + e) /\ z = Plus(b, d + e + h)
  BY <1>2, <1>3, Positions
<1>5. PICK j \in Nat, k \in Nat : j = d + e /\ k = d + e + h
  BY <1>2
<1>6. Placed(b, x, y, z, d, j, k)
  <2>1. j - d = e /\ k - j = h /\ d <= j /\ j <= k /\ k < RingSize
    BY <1>2, <1>3, <1>5
  <2> QED
    BY <1>2, <1>4, <1>5, <2>1 DEF Placed
<1> QED
  BY <1>6

FirstTaken(f, g, b, x, y, z) ==
  /\ Segment(g, b, Minus(x, b)) = Segment(f, b, Minus(x, b))
  /\ Segment(f, y, Minus(z, y)) # << >> /\ Head(Segment(f, y, Minus(z, y))) = f[Slot(y)]
  /\ Segment(g, Plus(y, 1), Minus(z, Plus(y, 1))) = Tail(Segment(f, y, Minus(z, y)))

\* Taking a request takes the first one and leaves the responses.
LEMMA TakeOnRing ==
  ASSUME NEW rc \in Index, NEW b \in Index, NEW q \in Index, NEW x \in Index, NEW y \in Index,
         NEW p \in Index, NEW z \in Index, Lap(rc, b, q, x, y, p, z), y # p,
         NEW f \in Rings, NEW g \in Rings, g = Put(f, y, None)
  PROVE  FirstTaken(f, g, b, x, y, z)
<1>1. PICK i \in Nat, j \in Nat, k \in Nat : Placed(b, x, y, z, i, j, k)
  BY LapPlaced
<1>2. Plus(y, 1) \in Index /\ Minus(z, Plus(y, 1)) = Minus(z, y) - 1 /\ Minus(z, y) >= 1
  <2>1. TakesOne(rc, b, q, x, y, p, z)
    BY LapTake
  <2> QED
    BY <2>1 DEF TakesOne
<1>3. i <= j /\ j < k /\ k < RingSize /\ b \in Nat /\ RingSize \in Nat
  BY <1>1, <1>2, IndexValues DEF Placed, Index
<1>4. PICK m \in Nat : m = j + 1 /\ m <= k /\ m - j = 1 /\ k - m = Minus(z, Plus(y, 1))
  BY <1>1, <1>2, <1>3 DEF Placed
<1>5. Plus(y, 1) = Plus(b, m)
  BY <1>1, <1>3, <1>4, Distances DEF Placed
<1>6. Slot(y) = Slot(b + j) /\ Segment(f, y, k - j) = Segment(f, b + j, k - j)
  BY <1>1, <1>3, AtDistance DEF Placed
<1>7. Segment(g, Plus(y, 1), k - m) = Segment(g, b + m, k - m)
  <2>1. k - m \in Nat /\ m < RingSize
    BY <1>3, <1>4
  <2> QED
    BY <1>5, <2>1, AtDistance
<1>8. g = Put(f, b + j, None)
  BY <1>6 DEF Put
<1>9. /\ Segment(Put(f, b + j, None), b, i) = Segment(f, b, i)
      /\ Segment(f, b + j, k - j) # << >> /\ Head(Segment(f, b + j, k - j)) = f[Slot(b + j)]
      /\ Segment(Put(f, b + j, None), b + (j + 1), k - (j + 1)) = Tail(Segment(f, b + j, k - j))
  <2>1. TakenFrom(f, b, i, j, k)
    BY <1>3, TakeSegments
  <2> QED
    BY <2>1 DEF TakenFrom
<1> QED
  BY <1>1, <1>4, <1>6, <1>7, <1>8, <1>9 DEF Placed, FirstTaken

LastAnswered(f, g, b, x, y, z, id) ==
  /\ Segment(g, b, Minus(Plus(x, 1), b)) = Append(Segment(f, b, Minus(x, b)), id)
  /\ Segment(g, y, Minus(z, y)) = Segment(f, y, Minus(z, y))

\* An answer is the last response and leaves the requests.
LEMMA AnswerOnRing ==
  ASSUME NEW rc \in Index, NEW b \in Index, NEW q \in Index, NEW x \in Index, NEW y \in Index,
         NEW p \in Index, NEW z \in Index, Lap(rc, b, q, x, y, p, z), Minus(y, x) >= 1,
         NEW id \in Ids, NEW f \in Rings, NEW g \in Rings, g = Put(f, x, id)
  PROVE  LastAnswered(f, g, b, x, y, z, id)
<1>1. PICK i \in Nat, j \in Nat, k \in Nat : Placed(b, x, y, z, i, j, k)
  BY LapPlaced
<1>2. Minus(Plus(x, 1), b) = Minus(x, b) + 1
  <2>1. AnswersOne(rc, b, q, x, y, p, z)
    BY LapAnswer
  <2> QED
    BY <2>1 DEF AnswersOne
<1>3. i < j /\ j <= k /\ k < RingSize /\ b \in Nat /\ RingSize \in Nat /\ k - j \in Nat
  BY <1>1, IndexValues DEF Placed, Index
<1>4. /\ Slot(x) = Slot(b + i) /\ Segment(f, y, k - j) = Segment(f, b + j, k - j)
      /\ Segment(g, y, k - j) = Segment(g, b + j, k - j)
  <2>1. i < RingSize /\ j < RingSize /\ i \in Nat /\ j \in Nat /\ x = Plus(b, i) /\ y = Plus(b, j)
    BY <1>1, <1>3 DEF Placed
  <2>2. Slot(x) = Slot(b + i)
    BY <2>1, AtDistance
  <2>3. \A r \in Rings, n \in Nat : Segment(r, y, n) = Segment(r, b + j, n)
    BY <2>1, AtDistance
  <2> QED
    BY <1>3, <2>2, <2>3
<1>5. g = Put(f, b + i, id)
  BY <1>4 DEF Put
<1>6. /\ Segment(Put(f, b + i, id), b, i + 1) = Append(Segment(f, b, i), id)
      /\ Segment(Put(f, b + i, id), b + j, k - j) = Segment(f, b + j, k - j)
  <2>1. AnsweredOn(f, b, i, j, k, id)
    BY <1>3, AnswerSegments
  <2> QED
    BY <2>1 DEF AnsweredOn
<1> QED
  BY <1>1, <1>2, <1>4, <1>5, <1>6 DEF Placed, LastAnswered

FirstRead(f, g, b, x, y, z) ==
  /\ Segment(f, b, Minus(x, b)) # << >> /\ Head(Segment(f, b, Minus(x, b))) = f[Slot(b)]
  /\ Segment(g, Plus(b, 1), Minus(x, Plus(b, 1))) = Tail(Segment(f, b, Minus(x, b)))
  /\ Segment(g, y, Minus(z, y)) = Segment(f, y, Minus(z, y))

\* Reading a response reads the first one and leaves the requests.
LEMMA ReadOnRing ==
  ASSUME NEW rc \in Index, NEW b \in Index, NEW q \in Index, NEW x \in Index, NEW y \in Index,
         NEW p \in Index, NEW z \in Index, NEW l \in Index,
         Lap(rc, b, q, x, y, p, z), b # l, Minus(l, b) <= Minus(q, b),
         NEW f \in Rings, NEW g \in Rings, g = Put(f, b, None)
  PROVE  FirstRead(f, g, b, x, y, z)
<1>1. PICK i \in Nat, j \in Nat, k \in Nat : Placed(b, x, y, z, i, j, k)
  BY LapPlaced
<1>2. Plus(b, 1) \in Index /\ Minus(x, Plus(b, 1)) = Minus(x, b) - 1 /\ Minus(x, b) >= 1
  <2>1. ReadsOne(rc, b, q, x, y, p, z, l)
    BY LapRead
  <2> QED
    BY <2>1 DEF ReadsOne
<1>3. 0 < i /\ i <= j /\ j <= k /\ k < RingSize /\ b \in Nat /\ RingSize \in Nat /\ k - j \in Nat
  BY <1>1, <1>2, IndexValues DEF Placed, Index
<1>4. PICK m \in Nat : m = i - 1 /\ m = Minus(x, Plus(b, 1))
  BY <1>1, <1>2, <1>3 DEF Placed
<1>5. Segment(f, y, k - j) = Segment(f, b + j, k - j) /\ Segment(g, y, k - j) = Segment(g, b + j, k - j)
  <2>1. j < RingSize /\ j \in Nat /\ y = Plus(b, j)
    BY <1>1, <1>3 DEF Placed
  <2>2. \A r \in Rings, n \in Nat : Segment(r, y, n) = Segment(r, b + j, n)
    BY <2>1, AtDistance
  <2> QED
    BY <1>3, <2>2
<1>6. Segment(g, Plus(b, 1), m) = Segment(g, b + 1, m)
  <2>1. PICK o \in Nat : o = 1 /\ o < RingSize
    BY <1>3
  <2> QED
    BY <2>1, AtDistance
<1>7. /\ Segment(f, b, i) # << >> /\ Head(Segment(f, b, i)) = f[Slot(b)]
      /\ Segment(Put(f, b, None), b + 1, i - 1) = Tail(Segment(f, b, i))
      /\ Segment(Put(f, b, None), b + j, k - j) = Segment(f, b + j, k - j)
  <2>1. ReadFrom(f, b, i, j, k)
    BY <1>3, ReadSegments
  <2> QED
    BY <2>1 DEF ReadFrom
<1> QED
  BY <1>1, <1>4, <1>5, <1>6, <1>7 DEF Placed, FirstRead

LastSent(f, g, b, x, y, z, n, ids) ==
  /\ g \in Rings /\ Segment(g, b, Minus(x, b)) = Segment(f, b, Minus(x, b))
  /\ Segment(g, y, Minus(Plus(z, n), y)) = Segment(f, y, Minus(z, y)) \o ids

\* Sent requests come last and leave the responses.
LEMMA SendOnRing ==
  ASSUME NEW rc \in Index, NEW b \in Index, NEW q \in Index, NEW x \in Index, NEW y \in Index,
         NEW p \in Index, NEW z \in Index, NEW n \in Nat \ {0},
         Lap(rc, b, q, x, y, p, z), Minus(RingSize, Minus(z, rc)) > n,
         NEW ids \in [1 .. n -> Ids], NEW f \in Rings, NEW g, g = Written(f, z, n, ids)
  PROVE  LastSent(f, g, b, x, y, z, n, ids)
<1>1. PICK i \in Nat, j \in Nat, k \in Nat : Placed(b, x, y, z, i, j, k)
  BY LapPlaced
<1>2. Minus(Plus(z, n), y) = Minus(z, y) + n /\ Minus(x, b) + Minus(y, x) + Minus(z, y) + n < RingSize
  <2>1. SendsSome(rc, b, q, x, y, p, z, n)
    BY LapSend
  <2> QED
    BY <2>1 DEF SendsSome
<1>3. /\ i <= j /\ j <= k /\ k + n < RingSize /\ j < RingSize /\ k - j \in Nat /\ (k + n) - j \in Nat
      /\ Minus(Plus(z, n), y) = (k + n) - j
  BY <1>1, <1>2, IndexValues DEF Placed
<1>4. PICK u \in Nat, v \in Nat : u = k - j /\ v = (k + n) - j
  BY <1>3
<1>5. /\ g \in Rings /\ Segment(g, b, i) = Segment(f, b, i)
      /\ Segment(g, b + j, (k + n) - j) = Segment(f, b + j, k - j) \o ids
  <2>1. g = Written(f, Plus(b, k), n, ids)
    BY <1>1 DEF Placed
  <2>2. SentOn(Written(f, Plus(b, k), n, ids), f, b, i, j, k, n, ids)
    BY <1>3, SendSegments
  <2> QED
    BY <2>1, <2>2 DEF SentOn
<1>6. Segment(f, y, u) = Segment(f, b + j, u) /\ Segment(g, y, v) = Segment(g, b + j, v)
  <2>1. j < RingSize /\ j \in Nat /\ y = Plus(b, j)
    BY <1>1, <1>3 DEF Placed
  <2>2. \A r \in Rings, m \in Nat : Segment(r, y, m) = Segment(r, b + j, m)
    BY <2>1, AtDistance
  <2> QED
    BY <1>4, <1>5, <2>2
<1> QED
  BY <1>1, <1>3, <1>4, <1>5, <1>6 DEF Placed, LastSent

-----------------------------------------------------------------------------
\* The inductive invariant: the indices in their order round the ring, and the channel's
\* ids each in one place.  It holds with one CPU: a second one could publish a req_prod it
\* has read before the first one's.

Requests == Segment(slots, backend.reqCons, Minus(reqProdPvt, backend.reqCons))
Responses == Segment(slots, ReadUpTo, Minus(backend.rspPvt, ReadUpTo))
Taken == Minus(backend.reqCons, backend.rspPvt)

InOrder ==
  /\ Lap(rspCons, ReadUpTo, rspProd, backend.rspPvt, backend.reqCons, reqProd, reqProdPvt)
  /\ \A c \in Cpus : pc[c] = "Consume" => Minus(limit, cons) <= Minus(rspProd, cons)
  /\ \A c \in Cpus : pc[c] = "PushWrite" => new[c] = reqProdPvt
InPlace ==
  /\ Once(Requests, backend.taken, Responses)
  /\ inUse = All(Requests, backend.taken, Responses)
  /\ Cardinality(backend.taken) = Taken
RingInv == TypeOK /\ InOrder /\ InPlace

OneCpu == \A c, d \in Cpus : c = d
Backends == [reqCons : Index, rspPvt : Index, taken : SUBSET Ids, kicked : BOOLEAN,
             taker : {"Sleep", "Take", "Recheck"}, answer : {"Idle", "Publish", "Check"},
             was : Index]

\* The types of what the order of the indices speaks of.
LEMMA IndexTypes ==
  ASSUME TypeOK
  PROVE  /\ backend \in Backends /\ backend.reqCons \in Index /\ backend.rspPvt \in Index
         /\ reqProd \in Index /\ rspProd \in Index /\ reqProdPvt \in Index /\ rspCons \in Index
         /\ cons \in Index /\ limit \in Index /\ ReadUpTo \in Index
         /\ slots \in Rings /\ inUse \subseteq Ids /\ backend.taken \subseteq Ids
         /\ pc \in [Cpus -> Pcs] /\ new \in [Cpus -> Index]
BY DEF TypeOK, Backends, ReadUpTo, Rings

\* What a step does to the channel.
Types == slots' \in Rings /\ (backend.taken)' \subseteq Ids
Still ==
  /\ Requests' = Requests /\ Responses' = Responses /\ (backend.taken)' = backend.taken
  /\ inUse' = inUse /\ Taken' = Taken
Sends ==
  /\ \E n \in Nat \ {0} : \E ids \in [1 .. n -> Ids \ inUse] :
       /\ \A i, j \in 1 .. n : ids[i] = ids[j] => i = j
       /\ Len(Requests) + Taken + Len(Responses) + n < RingSize
       /\ Requests' = Requests \o ids /\ inUse' = inUse \cup {ids[i] : i \in 1 .. n}
  /\ Responses' = Responses /\ (backend.taken)' = backend.taken /\ Taken' = Taken
Takes ==
  /\ Requests # << >> /\ Requests' = Tail(Requests) /\ Taken' = Taken + 1
  /\ (backend.taken)' = backend.taken \cup {Head(Requests)}
  /\ Responses' = Responses /\ inUse' = inUse
Answers ==
  /\ \E id \in backend.taken : /\ (backend.taken)' = backend.taken \ {id}
                               /\ Responses' = Append(Responses, id)
  /\ Requests' = Requests /\ inUse' = inUse /\ Taken' = Taken - 1
Reads ==
  /\ Responses # << >> /\ Responses' = Tail(Responses) /\ inUse' = inUse \ {Head(Responses)}
  /\ Requests' = Requests /\ (backend.taken)' = backend.taken /\ Taken' = Taken
Steps == Still \/ Sends \/ Takes \/ Answers \/ Reads

\* The lengths of the two sequences are the distances of the indices.
LEMMA Lengths ==
  ASSUME TypeOK
  PROVE  /\ Len(Requests) = Minus(reqProdPvt, backend.reqCons)
         /\ Len(Responses) = Minus(backend.rspPvt, ReadUpTo) /\ Taken \in Nat
         /\ Len(Requests) \in Nat /\ Len(Responses) \in Nat
<1>1. /\ IsMinus(reqProdPvt, backend.reqCons) /\ IsMinus(backend.rspPvt, ReadUpTo)
      /\ IsMinus(backend.reqCons, backend.rspPvt)
  BY IndexTypes, MinusValues
<1>2. PICK n \in Nat, m \in Nat : n = Minus(reqProdPvt, backend.reqCons) /\ m = Minus(backend.rspPvt, ReadUpTo)
  BY <1>1 DEF IsMinus, Index
<1>3. backend.reqCons \in Nat /\ ReadUpTo \in Nat /\ slots \in Rings
  BY IndexTypes DEF Index
<1>4. Len(Segment(slots, backend.reqCons, n)) = n /\ Len(Segment(slots, ReadUpTo, m)) = m
  BY <1>3, SegmentIsSeq
<1> QED
  BY <1>1, <1>2, <1>4 DEF Requests, Responses, Taken, IsMinus, Index

\* Each class of steps keeps each id in its one place.
LEMMA PlaceKept ==
  ASSUME RingInv, Steps
  PROVE  InPlace'
<1>1. /\ Once(Requests, backend.taken, Responses) /\ Taken \in Nat
      /\ inUse = All(Requests, backend.taken, Responses) /\ Cardinality(backend.taken) = Taken
  BY Lengths DEF RingInv, InPlace
<1>2. CASE Still
  BY <1>1, <1>2 DEF Still, InPlace
<1>3. CASE Sends
  <2>1. PICK n \in Nat \ {0} : \E ids \in [1 .. n -> Ids \ inUse] :
          /\ \A i, j \in 1 .. n : ids[i] = ids[j] => i = j
          /\ Len(Requests) + Taken + Len(Responses) + n < RingSize
          /\ Requests' = Requests \o ids /\ inUse' = inUse \cup {ids[i] : i \in 1 .. n}
    BY <1>3 DEF Sends
  <2>2. PICK ids \in [1 .. n -> Ids \ inUse] :
          /\ \A i, j \in 1 .. n : ids[i] = ids[j] => i = j
          /\ Requests' = Requests \o ids /\ inUse' = inUse \cup {ids[i] : i \in 1 .. n}
    BY <2>1
  <2>3. ids \in Seq(Ids) /\ Len(ids) = n
    <3>1. ids \in [1 .. n -> Ids]
      OBVIOUS
    <3> QED
      BY <3>1
  <2>4. IdsOf(ids) = {ids[i] : i \in 1 .. n} /\ IdsOf(ids) \cap inUse = {}
    BY <2>3 DEF IdsOf
  <2>5. /\ Once(Requests \o ids, backend.taken, Responses)
        /\ All(Requests \o ids, backend.taken, Responses) = All(Requests, backend.taken, Responses) \cup IdsOf(ids)
    BY <1>1, <2>2, <2>3, <2>4, SendOnce
  <2> QED
    BY <1>1, <1>3, <2>2, <2>4, <2>5 DEF Sends, InPlace
<1>4. CASE Takes
  <2>1. /\ Once(Tail(Requests), backend.taken \cup {Head(Requests)}, Responses)
        /\ All(Tail(Requests), backend.taken \cup {Head(Requests)}, Responses) = All(Requests, backend.taken, Responses)
        /\ Cardinality(backend.taken \cup {Head(Requests)}) = Cardinality(backend.taken) + 1
    BY <1>1, <1>4, TakeOnce DEF Takes
  <2> QED
    BY <1>1, <1>4, <2>1 DEF Takes, InPlace
<1>5. CASE Answers
  <2>1. PICK id \in backend.taken : (backend.taken)' = backend.taken \ {id} /\ Responses' = Append(Responses, id)
    BY <1>5 DEF Answers
  <2>2. /\ Once(Requests, backend.taken \ {id}, Append(Responses, id))
        /\ All(Requests, backend.taken \ {id}, Append(Responses, id)) = All(Requests, backend.taken, Responses)
        /\ Cardinality(backend.taken \ {id}) = Cardinality(backend.taken) - 1
    BY <1>1, AnswerOnce
  <2> QED
    BY <1>1, <1>5, <2>1, <2>2 DEF Answers, InPlace
<1>6. CASE Reads
  <2>1. /\ Once(Requests, backend.taken, Tail(Responses))
        /\ All(Requests, backend.taken, Tail(Responses)) = All(Requests, backend.taken, Responses) \ {Head(Responses)}
    BY <1>1, <1>6, ReadOnce DEF Reads
  <2> QED
    BY <1>1, <1>6, <2>1 DEF Reads, InPlace
<1> QED
  BY <1>2, <1>3, <1>4, <1>5, <1>6 DEF Steps

\* Nothing on the ring moves.
Unmoved ==
  /\ UNCHANGED <<slots, reqProd, rspProd, reqProdPvt, rspCons, inUse, cons, limit>>
  /\ (backend.reqCons)' = backend.reqCons /\ (backend.rspPvt)' = backend.rspPvt
  /\ (backend.taken)' = backend.taken

\* The order of the indices, of which InOrder also says what the two loops have copied.
InLap == Lap(rspCons, ReadUpTo, rspProd, backend.rspPvt, backend.reqCons, reqProd, reqProdPvt)
LoopsMatch ==
  /\ \A c \in Cpus : pc[c] = "Consume" => Minus(limit, cons) <= Minus(rspProd, cons)
  /\ \A c \in Cpus : pc[c] = "PushWrite" => new[c] = reqProdPvt

\* Then the order stays, and so does the channel.
LEMMA UnmovedStays ==
  ASSUME RingInv, Unmoved, ReadUpTo' = ReadUpTo
  PROVE  Still /\ Types /\ InLap'
BY IndexTypes DEF RingInv, InOrder, Unmoved, Still, Types, InLap, Requests, Responses, Taken

\* A CPU that neither enters nor leaves the response loop leaves its place in it.
LEMMA ReadingStays ==
  ASSUME TypeOK, NEW c \in Cpus, NEW l, Goto(c, l), pc[c] # "Consume", l # "Consume",
         cons' = cons, rspCons' = rspCons
  PROVE  /\ ReadUpTo' = ReadUpTo
         /\ \A d \in Cpus : pc'[d] = "Consume" => pc[d] = "Consume"
<1>1. \A d \in Cpus : pc'[d] = IF d = c THEN l ELSE pc[d]
  BY IndexTypes DEF Goto
<1>2. (\E d \in Cpus : pc'[d] = "Consume") <=> \E d \in Cpus : pc[d] = "Consume"
  BY <1>1
<1> QED
  BY <1>1, <1>2 DEF ReadUpTo

Aside(c, l) ==
  /\ Unmoved /\ Goto(c, l) /\ pc[c] # "Consume" /\ l # "Consume"
  /\ l = "PushWrite" => new'[c] = reqProdPvt
  /\ \A d \in Cpus : d # c => new'[d] = new[d]

\* Steps that touch neither the ring nor the copies keep the invariant.
LEMMA AsideKeeps ==
  ASSUME RingInv, NEW c \in Cpus, NEW l, Aside(c, l)
  PROVE  Still /\ Types /\ InOrder'
<1>1. /\ ReadUpTo' = ReadUpTo
      /\ \A d \in Cpus : pc'[d] = "Consume" => pc[d] = "Consume"
  BY ReadingStays DEF Aside, Unmoved, RingInv
<1>2. Still /\ Types /\ InLap'
  BY <1>1, UnmovedStays DEF Aside
<1>3. \A d \in Cpus : pc'[d] = IF d = c THEN l ELSE pc[d]
  BY IndexTypes DEF Goto, Aside, RingInv
<1>4. LoopsMatch'
  BY <1>1, <1>3 DEF Aside, Unmoved, RingInv, InOrder, LoopsMatch
<1> QED
  BY <1>2, <1>4 DEF InOrder, InLap, LoopsMatch

\* Such are all steps of a CPU but sending, publishing and the response loop.
LEMMA AsideSteps ==
  ASSUME RingInv, NEW c \in Cpus,
         \/ PushRead(c) \/ PushCheck(c) \/ StartDpc(c) \/ SetEvent(c) \/ Recheck(c)
         \/ LeaveSubmit(c) \/ Unmask(c)
  PROVE  Still /\ Types /\ InOrder'
<1>0. TypeOK
  BY DEF RingInv
<1>1. ASSUME NEW l, Aside(c, l)
      PROVE  Still /\ Types /\ InOrder'
  BY <1>1, AsideKeeps
<1>2. CASE PushRead(c)
  <2>1. Aside(c, "PushWrite")
    BY <1>0, <1>2, IndexTypes DEF PushRead, Aside, Unmoved, sring, event
  <2> QED
    BY <1>1, <2>1
<1>3. CASE PushCheck(c)
  <2>1. \A l \in {"Submit", "Idle"} : Goto(c, l) => Aside(c, l)
    BY <1>0, <1>3, IndexTypes DEF PushCheck, Aside, Unmoved, sring, event, Backends
  <2> QED
    BY <1>1, <1>3, <2>1 DEF PushCheck
<1>4. CASE StartDpc(c)
  <2>1. Aside(c, "Snapshot")
    BY <1>0, <1>4 DEF StartDpc, Aside, Unmoved, sring, event
  <2> QED
    BY <1>1, <2>1
<1>5. CASE SetEvent(c)
  <2>1. Aside(c, "Recheck")
    BY <1>0, <1>5 DEF SetEvent, Aside, Unmoved, sring, event
  <2> QED
    BY <1>1, <2>1
<1>6. CASE Recheck(c)
  <2>1. \A l \in {"Snapshot", "Submit"} : Goto(c, l) => Aside(c, l)
    BY <1>0, <1>6 DEF Recheck, Aside, Unmoved, sring, event
  <2> QED
    BY <1>1, <1>6, <2>1 DEF Recheck
<1>7. CASE LeaveSubmit(c)
  <2>1. Aside(c, "Unmask")
    BY <1>0, <1>7 DEF LeaveSubmit, Aside, Unmoved, sring, event
  <2> QED
    BY <1>1, <2>1
<1>8. CASE Unmask(c)
  <2>1. \A l \in {"Snapshot", "Idle"} : Goto(c, l) => Aside(c, l)
    BY <1>0, <1>8 DEF Unmask, Aside, Unmoved, sring, event
  <2> QED
    BY <1>1, <1>8, <2>1 DEF Unmask
<1> QED
  BY <1>2, <1>3, <1>4, <1>5, <1>6, <1>7, <1>8

\* No step of a CPU: what it was at stays.
LEMMA OffCpuKeeps ==
  ASSUME RingInv, Unmoved, pc' = pc, new' = new
  PROVE  Still /\ Types /\ InOrder'
<1>1. ReadUpTo' = ReadUpTo
  BY DEF ReadUpTo, Unmoved
<1>2. Still /\ Types /\ InLap'
  BY <1>1, UnmovedStays
<1>3. LoopsMatch'
  BY DEF Unmoved, RingInv, InOrder, LoopsMatch
<1> QED
  BY <1>2, <1>3 DEF InOrder, InLap, LoopsMatch

\* Publishing requests.
LEMMA PushWriteKeeps ==
  ASSUME RingInv, NEW c \in Cpus, PushWrite(c)
  PROVE  Still /\ Types /\ InOrder'
<1>1. /\ ReadUpTo' = ReadUpTo
      /\ \A d \in Cpus : pc'[d] = "Consume" => pc[d] = "Consume"
  BY ReadingStays DEF PushWrite, RingInv
<1>2. reqProd' = reqProdPvt
  BY DEF PushWrite, RingInv, InOrder
<1>3. InLap'
  <2>1. Lap(rspCons, ReadUpTo, rspProd, backend.rspPvt, backend.reqCons, reqProdPvt, reqProdPvt)
    BY IndexTypes, LapPublished DEF RingInv, InOrder
  <2> QED
    BY <1>1, <1>2, <2>1 DEF PushWrite, InLap
<1>4. Still /\ Types
  BY <1>1, IndexTypes DEF PushWrite, RingInv, Still, Types, Requests, Responses, Taken
<1>5. \A d \in Cpus : pc'[d] = IF d = c THEN "PushCheck" ELSE pc[d]
  BY IndexTypes DEF Goto, PushWrite, RingInv
<1>6. LoopsMatch'
  BY <1>1, <1>5 DEF PushWrite, RingInv, InOrder, LoopsMatch
<1> QED
  BY <1>3, <1>4, <1>6 DEF InOrder, InLap, LoopsMatch

\* Entering the response loop.
LEMMA SnapshotKeeps ==
  ASSUME RingInv, OneCpu, NEW c \in Cpus, Snapshot(c)
  PROVE  Still /\ Types /\ InOrder'
<1>1. \A d \in Cpus : d = c
  BY DEF OneCpu
<1>2. pc'[c] = "Consume" /\ pc[c] = "Snapshot" /\ cons' = rspCons /\ rspCons' = rspCons
  BY IndexTypes DEF Snapshot, Goto, RingInv
<1>3. ReadUpTo = rspCons /\ ReadUpTo' = rspCons
  BY <1>1, <1>2 DEF ReadUpTo
<1>4. InLap' /\ Still /\ Types
  BY <1>3, IndexTypes DEF Snapshot, sring, event, RingInv, InOrder, InLap, Still, Types, Requests, Responses, Taken
<1>5. LoopsMatch'
  <2>1. Minus(limit', cons') <= Minus(rspProd', cons')
    <3>1. limit' = rspProd /\ rspProd' = rspProd
      BY DEF Snapshot, sring
    <3>2. IsMinus(rspProd, rspCons)
      BY IndexTypes, MinusValues DEF RingInv
    <3> QED
      BY <1>2, <3>1, <3>2 DEF IsMinus, Index
  <2> QED
    BY <1>1, <1>2, <2>1 DEF LoopsMatch
<1> QED
  BY <1>4, <1>5 DEF InOrder, InLap, LoopsMatch

\* Within the response loop: a response is read, or the loop is left.
LEMMA ConsumeKeeps ==
  ASSUME RingInv, OneCpu, NEW c \in Cpus, Consume(c)
  PROVE  (Still \/ Reads) /\ Types /\ InOrder'
<1>1. \A d \in Cpus : d = c
  BY DEF OneCpu
<1>2. pc[c] = "Consume" /\ ReadUpTo = cons
  BY DEF Consume, ReadUpTo
<1>3. /\ InLap /\ Minus(limit, cons) <= Minus(rspProd, cons)
      /\ Lap(rspCons, cons, rspProd, backend.rspPvt, backend.reqCons, reqProd, reqProdPvt)
  BY <1>2 DEF RingInv, InOrder, InLap
<1>4. /\ reqProd' = reqProd /\ rspProd' = rspProd /\ reqProdPvt' = reqProdPvt /\ backend' = backend
      /\ TypeOK
  BY DEF Consume, RingInv
<1>5. CASE /\ cons # limit /\ inUse' = inUse \ {slots[Slot(cons)]}
           /\ slots' = [slots EXCEPT ![Slot(cons)] = None] /\ cons' = Plus(cons, 1)
           /\ UNCHANGED <<pc, rspCons, limit>>
  <2>1. ReadUpTo' = Plus(cons, 1)
    BY <1>2, <1>5 DEF ReadUpTo
  <2>2. ReadsOne(rspCons, cons, rspProd, backend.rspPvt, backend.reqCons, reqProd, reqProdPvt, limit)
    BY <1>3, <1>4, <1>5, IndexTypes, LapRead
  <2>3. slots' = Put(slots, cons, None)
    BY <1>5 DEF Put
  <2>4. slots' \in Rings
    BY <1>4, <2>3, IndexTypes, PutOnRing DEF Index
  <2>5. /\ Segment(slots, cons, Minus(backend.rspPvt, cons)) # << >>
        /\ Head(Segment(slots, cons, Minus(backend.rspPvt, cons))) = slots[Slot(cons)]
        /\ Segment(slots', Plus(cons, 1), Minus(backend.rspPvt, Plus(cons, 1)))
             = Tail(Segment(slots, cons, Minus(backend.rspPvt, cons)))
        /\ Segment(slots', backend.reqCons, Minus(reqProdPvt, backend.reqCons))
             = Segment(slots, backend.reqCons, Minus(reqProdPvt, backend.reqCons))
    <3>1. FirstRead(slots, slots', cons, backend.rspPvt, backend.reqCons, reqProdPvt)
      BY <1>3, <1>4, <1>5, <2>3, <2>4, IndexTypes, ReadOnRing
    <3> QED
      BY <3>1 DEF FirstRead
  <2>6. Reads /\ Types
    BY <1>2, <1>4, <1>5, <2>1, <2>4, <2>5, IndexTypes DEF Reads, Types, Requests, Responses, Taken
  <2>7. InLap' /\ LoopsMatch'
    <3>1. /\ Lap(rspCons, Plus(cons, 1), rspProd, backend.rspPvt, backend.reqCons, reqProd, reqProdPvt)
          /\ Minus(limit, Plus(cons, 1)) <= Minus(rspProd, Plus(cons, 1))
      BY <2>2 DEF ReadsOne
    <3>2. InLap'
      BY <1>4, <1>5, <2>1, <3>1 DEF InLap
    <3>3. LoopsMatch'
      BY <1>1, <1>2, <1>4, <1>5, <3>1 DEF LoopsMatch
    <3> QED
      BY <3>2, <3>3
  <2> QED
    BY <2>6, <2>7 DEF InOrder, InLap, LoopsMatch
<1>6. CASE /\ cons = limit /\ rspCons' = cons /\ cons' = 0 /\ limit' = 0
           /\ Goto(c, IF rspProd # cons THEN "Snapshot" ELSE "SetEvent")
           /\ UNCHANGED <<inUse, slots>>
  <2>1. pc'[c] # "Consume" /\ pc'[c] # "PushWrite"
    BY <1>4, <1>6, IndexTypes DEF Goto
  <2>2. ReadUpTo' = cons
    BY <1>1, <1>6, <2>1 DEF ReadUpTo
  <2>3. Lap(cons, cons, rspProd, backend.rspPvt, backend.reqCons, reqProd, reqProdPvt)
    BY <1>3, <1>4, IndexTypes, LapReadAll
  <2>4. InLap' /\ LoopsMatch'
    BY <1>1, <1>4, <1>6, <2>1, <2>2, <2>3 DEF InLap, LoopsMatch
  <2>5. Still /\ Types
    BY <1>2, <1>4, <1>6, <2>2, IndexTypes DEF Still, Types, Requests, Responses, Taken
  <2> QED
    BY <2>4, <2>5 DEF InOrder, InLap, LoopsMatch
<1> QED
  BY <1>5, <1>6 DEF Consume

\* Sending.
LEMMA SubmitKeeps ==
  ASSUME RingInv, OneCpu, NEW c \in Cpus, SubmitRequests(c)
  PROVE  Sends /\ Types /\ InOrder'
<1>1. PICK n \in 1 .. MaxBatch : \E ids \in [1 .. n -> Ids \ inUse] :
        /\ \A i, j \in 1 .. n : ids[i] = ids[j] => i = j
        /\ Available > n /\ inUse' = inUse \cup {ids[i] : i \in 1 .. n}
        /\ slots' = Written(slots, reqProdPvt, n, ids) /\ reqProdPvt' = Plus(reqProdPvt, n)
  BY DEF SubmitRequests, Written
<1>2. PICK ids \in [1 .. n -> Ids \ inUse] :
        /\ \A i, j \in 1 .. n : ids[i] = ids[j] => i = j
        /\ Available > n /\ inUse' = inUse \cup {ids[i] : i \in 1 .. n}
        /\ slots' = Written(slots, reqProdPvt, n, ids) /\ reqProdPvt' = Plus(reqProdPvt, n)
  BY <1>1
<1>3. n \in Nat \ {0} /\ ids \in [1 .. n -> Ids] /\ Minus(RingSize, Minus(reqProdPvt, rspCons)) > n
  BY <1>2, RingAssumption DEF Available
<1>4. /\ TypeOK /\ pc[c] # "Consume" /\ Goto(c, "PushRead") /\ cons' = cons /\ rspCons' = rspCons
      /\ reqProd' = reqProd /\ rspProd' = rspProd /\ backend' = backend /\ limit' = limit /\ new' = new
  BY DEF RingInv, SubmitRequests, event
<1>5. /\ ReadUpTo' = ReadUpTo
      /\ \A d \in Cpus : pc'[d] = "Consume" => pc[d] = "Consume"
  BY <1>4, ReadingStays
<1>6. InLap
  BY DEF RingInv, InOrder, InLap
<1>7. SendsSome(rspCons, ReadUpTo, rspProd, backend.rspPvt, backend.reqCons, reqProd, reqProdPvt, n)
  BY <1>3, <1>4, <1>6, IndexTypes, LapSend DEF InLap
<1>8. /\ slots' \in Rings
      /\ Segment(slots', ReadUpTo, Minus(backend.rspPvt, ReadUpTo))
           = Segment(slots, ReadUpTo, Minus(backend.rspPvt, ReadUpTo))
      /\ Segment(slots', backend.reqCons, Minus(Plus(reqProdPvt, n), backend.reqCons))
           = Segment(slots, backend.reqCons, Minus(reqProdPvt, backend.reqCons)) \o ids
  <2>1. LastSent(slots, slots', ReadUpTo, backend.rspPvt, backend.reqCons, reqProdPvt, n, ids)
    BY <1>2, <1>3, <1>4, <1>6, IndexTypes, SendOnRing DEF InLap
  <2> QED
    BY <2>1 DEF LastSent
<1>9. Requests' = Requests \o ids /\ Responses' = Responses /\ Taken' = Taken
  BY <1>2, <1>4, <1>5, <1>8 DEF Requests, Responses, Taken
<1>10. Len(Requests) + Taken + Len(Responses) + n < RingSize
  <2>1. /\ Len(Requests) = Minus(reqProdPvt, backend.reqCons)
        /\ Len(Responses) = Minus(backend.rspPvt, ReadUpTo)
        /\ Len(Requests) \in Nat /\ Taken \in Nat /\ Len(Responses) \in Nat
    BY <1>4, Lengths
  <2>2. Minus(backend.rspPvt, ReadUpTo) + Minus(backend.reqCons, backend.rspPvt)
          + Minus(reqProdPvt, backend.reqCons) + n < RingSize
    BY <1>7 DEF SendsSome
  <2> QED
    BY <1>3, <2>1, <2>2, IndexValues DEF Taken
<1>11. Sends
  BY <1>2, <1>3, <1>4, <1>9, <1>10 DEF Sends
<1>12. Types
  BY <1>4, <1>8, IndexTypes DEF Types
<1>13. InLap'
  BY <1>2, <1>4, <1>5, <1>7 DEF InLap, SendsSome
<1>14. LoopsMatch'
  <2>1. \A d \in Cpus : d = c /\ pc'[d] = "PushRead"
    BY <1>4, IndexTypes DEF OneCpu, Goto
  <2> QED
    BY <2>1 DEF LoopsMatch
<1> QED
  BY <1>11, <1>12, <1>13, <1>14 DEF InOrder, InLap, LoopsMatch

\* The backend's request loop.
LEMMA TakeKeeps ==
  ASSUME RingInv, Take
  PROVE  (Still \/ Takes) /\ Types /\ InOrder'
<1>1. /\ TypeOK /\ InLap /\ reqProd' = reqProd /\ rspProd' = rspProd /\ reqProdPvt' = reqProdPvt
      /\ rspCons' = rspCons /\ inUse' = inUse /\ pc' = pc /\ new' = new /\ cons' = cons /\ limit' = limit
      /\ ReadUpTo' = ReadUpTo
  BY DEF RingInv, InOrder, InLap, Take, front, ReadUpTo
<1>2. CASE backend.taker = "Take" /\ backend.reqCons # reqProd
  <2>1. /\ (backend.taken)' = backend.taken \cup {slots[Slot(backend.reqCons)]}
        /\ (backend.reqCons)' = Plus(backend.reqCons, 1) /\ (backend.rspPvt)' = backend.rspPvt
        /\ slots' = Put(slots, backend.reqCons, None)
    BY <1>1, <1>2, IndexTypes DEF Take, Put, Backends
  <2>2. TakesOne(rspCons, ReadUpTo, rspProd, backend.rspPvt, backend.reqCons, reqProd, reqProdPvt)
    BY <1>1, <1>2, IndexTypes, LapTake DEF InLap
  <2>3. slots' \in Rings
    BY <1>1, <2>1, IndexTypes, PutOnRing DEF Index
  <2>4. /\ Segment(slots', ReadUpTo, Minus(backend.rspPvt, ReadUpTo))
             = Segment(slots, ReadUpTo, Minus(backend.rspPvt, ReadUpTo))
        /\ Requests # << >> /\ Head(Requests) = slots[Slot(backend.reqCons)]
        /\ Segment(slots', Plus(backend.reqCons, 1), Minus(reqProdPvt, Plus(backend.reqCons, 1)))
             = Tail(Requests)
    <3>1. FirstTaken(slots, slots', ReadUpTo, backend.rspPvt, backend.reqCons, reqProdPvt)
      BY <1>1, <1>2, <2>1, <2>3, IndexTypes, TakeOnRing DEF InLap
    <3> QED
      BY <3>1 DEF FirstTaken, Requests
  <2>5. Taken' = Taken + 1
    BY <2>1, <2>2 DEF Taken, TakesOne
  <2>6. Takes
    BY <1>1, <2>1, <2>4, <2>5 DEF Takes, Requests, Responses
  <2>7. Head(Requests) \in Ids
    <3>1. Requests \in Seq(Ids)
      BY DEF RingInv, InPlace, Once
    <3> QED
      BY <2>4, <3>1
  <2>8. Types
    BY <1>1, <2>1, <2>3, <2>4, <2>7, IndexTypes DEF Types
  <2>9. InLap'
    BY <1>1, <2>1, <2>2 DEF InLap, TakesOne
  <2>10. LoopsMatch'
    BY <1>1 DEF RingInv, InOrder, LoopsMatch
  <2> QED
    BY <2>6, <2>8, <2>9, <2>10 DEF InOrder, InLap, LoopsMatch
<1>3. CASE ~(backend.taker = "Take" /\ backend.reqCons # reqProd)
  <2>1. slots' = slots
    BY <1>3 DEF Take
  <2>2. /\ (backend.reqCons)' = backend.reqCons /\ (backend.rspPvt)' = backend.rspPvt
        /\ (backend.taken)' = backend.taken
    BY <1>1, <1>3, IndexTypes DEF Take, Backends
  <2> QED
    BY <1>1, <2>1, <2>2, OffCpuKeeps DEF Unmoved
<1> QED
  BY <1>2, <1>3

\* The backend's answers.
LEMMA AnswerKeeps ==
  ASSUME RingInv, NEW id \in Ids, Answer(id)
  PROVE  Answers /\ Types /\ InOrder'
<1>1. /\ TypeOK /\ InLap /\ reqProd' = reqProd /\ rspProd' = rspProd /\ reqProdPvt' = reqProdPvt
      /\ rspCons' = rspCons /\ inUse' = inUse /\ pc' = pc /\ new' = new /\ cons' = cons /\ limit' = limit
      /\ ReadUpTo' = ReadUpTo /\ id \in backend.taken
  BY DEF RingInv, InOrder, InLap, Answer, front, ReadUpTo
<1>2. /\ (backend.taken)' = backend.taken \ {id} /\ (backend.rspPvt)' = Plus(backend.rspPvt, 1)
      /\ (backend.reqCons)' = backend.reqCons /\ slots' = Put(slots, backend.rspPvt, id)
  BY <1>1, IndexTypes DEF Answer, Put, Backends
<1>3. Minus(backend.reqCons, backend.rspPvt) >= 1
  <2>1. IsFiniteSet(backend.taken) /\ Cardinality(backend.taken) = Taken /\ Taken \in Nat
    BY <1>1, Lengths DEF RingInv, InPlace, Once
  <2>2. Taken # 0
    BY <1>1, <2>1, FS_EmptySet
  <2> QED
    BY <2>1, <2>2 DEF Taken
<1>4. AnswersOne(rspCons, ReadUpTo, rspProd, backend.rspPvt, backend.reqCons, reqProd, reqProdPvt)
  BY <1>1, <1>3, IndexTypes, LapAnswer DEF InLap
<1>5. slots' \in Rings
  <2>1. backend.rspPvt \in Nat /\ id \in Ids \cup {None} /\ slots \in Rings
    BY <1>1, IndexTypes DEF Index
  <2> QED
    BY <1>2, <2>1, PutOnRing
<1>6. /\ Segment(slots', ReadUpTo, Minus(Plus(backend.rspPvt, 1), ReadUpTo)) = Append(Responses, id)
      /\ Segment(slots', backend.reqCons, Minus(reqProdPvt, backend.reqCons)) = Requests
  <2>1. LastAnswered(slots, slots', ReadUpTo, backend.rspPvt, backend.reqCons, reqProdPvt, id)
    BY <1>1, <1>2, <1>3, <1>5, IndexTypes, AnswerOnRing DEF InLap
  <2> QED
    BY <2>1 DEF LastAnswered, Requests, Responses
<1>7. Taken' = Taken - 1
  BY <1>2, <1>4 DEF Taken, AnswersOne
<1>8. Answers
  BY <1>1, <1>2, <1>6, <1>7 DEF Answers, Requests, Responses
<1>9. Types
  BY <1>1, <1>2, <1>5, IndexTypes DEF Types
<1>10. InLap'
  BY <1>1, <1>2, <1>4 DEF InLap, AnswersOne
<1>11. LoopsMatch'
  BY <1>1 DEF RingInv, InOrder, LoopsMatch
<1> QED
  BY <1>8, <1>9, <1>10, <1>11 DEF InOrder, InLap, LoopsMatch

\* Publishing responses.
LEMMA PublishKeeps ==
  ASSUME RingInv, Publish
  PROVE  Still /\ Types /\ InOrder'
<1>1. /\ TypeOK /\ InLap /\ slots' = slots /\ reqProd' = reqProd /\ reqProdPvt' = reqProdPvt
      /\ rspCons' = rspCons /\ inUse' = inUse /\ pc' = pc /\ new' = new /\ cons' = cons /\ limit' = limit
      /\ ReadUpTo' = ReadUpTo
  BY DEF RingInv, InOrder, InLap, Publish, front, ReadUpTo
<1>2. /\ (backend.taken)' = backend.taken /\ (backend.rspPvt)' = backend.rspPvt
      /\ (backend.reqCons)' = backend.reqCons
  BY <1>1, IndexTypes DEF Publish, Backends
<1>3. CASE rspProd' = rspProd
  BY <1>1, <1>2, <1>3, OffCpuKeeps DEF Unmoved
<1>4. CASE rspProd' = backend.rspPvt
  <2>1. InLap'
    <3>1. Lap(rspCons, ReadUpTo, backend.rspPvt, backend.rspPvt, backend.reqCons, reqProd, reqProdPvt)
      BY <1>1, IndexTypes, LapPublished DEF InLap
    <3> QED
      BY <1>1, <1>2, <1>4, <3>1 DEF InLap
  <2>2. Still /\ Types
    BY <1>1, <1>2, IndexTypes DEF Still, Types, Requests, Responses, Taken
  <2>3. LoopsMatch'
    <3>1. ASSUME NEW c \in Cpus, pc[c] = "Consume"
          PROVE  Minus(limit, cons) <= Minus(backend.rspPvt, cons)
      <4>1. /\ Minus(limit, cons) <= Minus(rspProd, cons) /\ ReadUpTo = cons
            /\ Minus(rspProd, cons) <= Minus(backend.rspPvt, cons)
        BY <1>1, <3>1 DEF RingInv, InOrder, InLap, Lap, ReadUpTo
      <4>2. IsMinus(limit, cons) /\ IsMinus(rspProd, cons) /\ IsMinus(backend.rspPvt, cons)
        BY <1>1, IndexTypes, MinusValues
      <4> QED
        BY <4>1, <4>2 DEF IsMinus, Index
    <3> QED
      BY <1>1, <1>4, <3>1 DEF RingInv, InOrder, LoopsMatch
  <2> QED
    BY <2>1, <2>2, <2>3 DEF InOrder, InLap, LoopsMatch
<1> QED
  BY <1>3, <1>4 DEF Publish

\* Every step is of one class, and keeps the order.
LEMMA StepsKeep ==
  ASSUME RingInv, OneCpu, [Next]_vars
  PROVE  Steps /\ Types /\ InOrder'
<1>1. CASE UNCHANGED vars
  BY <1>1, OffCpuKeeps DEF vars, sring, front, event, Unmoved, Steps
<1>2. ASSUME NEW c \in Cpus, SubmitRequests(c) \/ Run(c)
      PROVE  Steps /\ Types /\ InOrder'
  <2>1. CASE SubmitRequests(c)
    BY <2>1, SubmitKeeps DEF Steps
  <2>2. CASE PushWrite(c)
    BY <2>2, PushWriteKeeps DEF Steps
  <2>3. CASE Snapshot(c)
    BY <2>3, SnapshotKeeps DEF Steps
  <2>4. CASE Consume(c)
    BY <2>4, ConsumeKeeps DEF Steps
  <2>5. CASE \/ PushRead(c) \/ PushCheck(c) \/ StartDpc(c) \/ SetEvent(c) \/ Recheck(c)
             \/ LeaveSubmit(c) \/ Unmask(c)
    BY <2>5, AsideSteps DEF Steps
  <2> QED
    BY <1>2, <2>1, <2>2, <2>3, <2>4, <2>5 DEF Run
<1>3. CASE Interrupt
  BY <1>3, OffCpuKeeps DEF Interrupt, sring, Unmoved, Steps
<1>4. CASE Take
  BY <1>4, TakeKeeps DEF Steps
<1>5. ASSUME NEW id \in Ids, Answer(id)
      PROVE  Steps /\ Types /\ InOrder'
  BY <1>5, AnswerKeeps DEF Steps
<1>6. CASE Publish
  BY <1>6, PublishKeeps DEF Steps
<1> QED
  BY <1>1, <1>2, <1>3, <1>4, <1>5, <1>6 DEF Next

\* Indices stay indices.
LEMMA IndicesClosed ==
  0 \in Index /\ 1 \in Index /\ \A i \in Index : Plus(i, 1) \in Index
BY IndexValues DEF Index

\* The types of the state, when what the step leaves on the ring and with the backend has
\* its own.
LEMMA TypesKept ==
  ASSUME TypeOK, [Next]_vars, Types
  PROVE  TypeOK'
<1>0. backend \in Backends /\ Types /\ TypeOK
  BY IndexTypes
<1>1. CASE UNCHANGED vars
  BY <1>1 DEF vars, sring, front, event, TypeOK
<1>2. ASSUME NEW c \in Cpus, SubmitRequests(c)
      PROVE  TypeOK'
  <2>1. PICK n \in Nat : \E ids \in [1 .. n -> Ids \ inUse] :
          inUse' = inUse \cup {ids[i] : i \in 1 .. n} /\ reqProdPvt' = Plus(reqProdPvt, n)
    BY <1>2 DEF SubmitRequests
  <2>2. inUse' \subseteq Ids
    BY <2>1 DEF TypeOK
  <2>3. reqProdPvt' \in Index
    <3>1. PICK w \in Nat : w = reqProdPvt + n
      BY <1>0, <2>1 DEF TypeOK, Index
    <3>2. IndexSpan \in Nat \ {0} /\ reqProdPvt' = w % IndexSpan
      BY <2>1, <3>1, IndexValues DEF Plus
    <3> QED
      BY <3>1, <3>2 DEF Index
  <2>4. /\ Goto(c, "PushRead") /\ slots' \in Rings
        /\ UNCHANGED <<reqProd, reqEvent, rspProd, rspEvent, rspCons, inDpc, old, new, cons,
                       limit, ringLock, dpc, event, backend>>
    BY <1>0, <1>2 DEF SubmitRequests, Types
  <2>5. pc' \in [Cpus -> Pcs]
    BY <1>0, <2>4 DEF Goto, TypeOK, Pcs
  <2> QED
    BY <1>0, <2>2, <2>3, <2>4, <2>5 DEF event, TypeOK, Rings
<1>3. ASSUME NEW c \in Cpus, PushRead(c)
      PROVE  TypeOK'
  BY <1>0, <1>3 DEF PushRead, Goto, sring, event, TypeOK, Pcs
<1>4. ASSUME NEW c \in Cpus, PushWrite(c)
      PROVE  TypeOK'
  BY <1>0, <1>4 DEF PushWrite, Goto, event, TypeOK, Pcs
<1>5. ASSUME NEW c \in Cpus, PushCheck(c)
      PROVE  TypeOK'
  <2> DEFINE k == backend.kicked \/ Notify(old[c], new[c], reqEvent)
  <2>1. k \in BOOLEAN /\ backend' = [backend EXCEPT !.kicked = k]
    BY <1>5 DEF PushCheck
  <2> HIDE DEF k
  <2>2. backend' \in Backends
    BY <1>0, <2>1 DEF Backends
  <2> QED
    BY <1>0, <1>5, <2>2, IndicesClosed DEF PushCheck, Goto, sring, event, TypeOK, Backends, Pcs
<1>6. CASE Interrupt
  BY <1>0, <1>6 DEF Interrupt, sring, TypeOK
<1>7. ASSUME NEW c \in Cpus, StartDpc(c)
      PROVE  TypeOK'
  BY <1>0, <1>7 DEF StartDpc, Goto, sring, event, TypeOK, Pcs
<1>8. ASSUME NEW c \in Cpus, Snapshot(c)
      PROVE  TypeOK'
  BY <1>0, <1>8 DEF Snapshot, Goto, sring, event, TypeOK, Pcs
<1>9. ASSUME NEW c \in Cpus, Consume(c)
      PROVE  TypeOK'
  <2>1. cons' \in Index /\ limit' \in Index /\ rspCons' \in Index /\ inUse' \subseteq Ids /\ slots' \in Rings
    BY <1>0, <1>9, IndicesClosed DEF Consume, TypeOK, Types
  <2>2. pc' \in [Cpus -> Pcs]
    BY <1>0, <1>9 DEF Consume, Goto, TypeOK, Pcs
  <2> QED
    BY <1>0, <1>9, <2>1, <2>2 DEF Consume, event, TypeOK, Rings
<1>10. ASSUME NEW c \in Cpus, SetEvent(c)
       PROVE  TypeOK'
  <2>1. rspEvent' \in Index
    BY <1>0, <1>10, IndicesClosed DEF SetEvent, TypeOK
  <2> QED
    BY <1>0, <1>10, <2>1 DEF SetEvent, Goto, event, TypeOK, Pcs
<1>11. ASSUME NEW c \in Cpus, Recheck(c)
       PROVE  TypeOK'
  BY <1>0, <1>11 DEF Recheck, Goto, sring, event, TypeOK, Pcs
<1>12. ASSUME NEW c \in Cpus, LeaveSubmit(c)
       PROVE  TypeOK'
  BY <1>0, <1>12 DEF LeaveSubmit, Goto, sring, event, TypeOK, Pcs
<1>13. ASSUME NEW c \in Cpus, Unmask(c)
       PROVE  TypeOK'
  BY <1>0, <1>13 DEF Unmask, Goto, sring, TypeOK, Pcs
<1>14. CASE Take
  <2>1. slots' \in Rings /\ (backend.taken)' \subseteq Ids
    BY DEF Types
  <2>2. reqEvent' \in Index
    BY <1>0, <1>14, IndicesClosed DEF Take, Backends, TypeOK
  <2>3. backend' \in Backends
    <3>1. CASE \/ backend' = [backend EXCEPT !.taker = "Take", !.kicked = FALSE]
               \/ backend' = [backend EXCEPT !.taker = "Recheck"]
      BY <1>0, <3>1 DEF Backends
    <3>2. CASE backend' = [backend EXCEPT !.taker = IF backend.reqCons # reqProd THEN "Take" ELSE "Sleep"]
      BY <1>0, <3>2 DEF Backends
    <3>3. CASE backend' = [backend EXCEPT !.taken = @ \cup {slots[Slot(backend.reqCons)]},
                                          !.reqCons = Plus(@, 1)]
      <4> DEFINE t == backend.taken \cup {slots[Slot(backend.reqCons)]}
                 i == Plus(backend.reqCons, 1)
      <4>1. (backend.taken)' = t
        BY <1>0, <3>3 DEF Backends
      <4>2. t \subseteq Ids /\ i \in Index /\ backend' = [backend EXCEPT !.taken = t, !.reqCons = i]
        BY <1>0, <2>1, <3>3, <4>1, IndicesClosed DEF Backends
      <4> HIDE DEF t, i
      <4> QED
        BY <1>0, <4>2 DEF Backends
    <3> QED
      BY <1>14, <3>1, <3>2, <3>3 DEF Take
  <2> QED
    BY <1>0, <1>14, <2>1, <2>2, <2>3 DEF Take, front, event, TypeOK, Backends, Rings
<1>15. ASSUME NEW id \in Ids, Answer(id)
       PROVE  TypeOK'
  <2>1. backend' \in Backends
    <3> DEFINE t == backend.taken \ {id}
               i == Plus(backend.rspPvt, 1)
    <3>1. t \subseteq Ids /\ i \in Index
          /\ backend' = [backend EXCEPT !.taken = t, !.rspPvt = i, !.answer = "Publish"]
      BY <1>0, <1>15, IndicesClosed DEF Answer, Backends
    <3> HIDE DEF t, i
    <3> QED
      BY <1>0, <3>1 DEF Backends
  <2> QED
    BY <1>0, <1>15, <2>1 DEF Answer, front, event, TypeOK, Backends, Types, Rings
<1>16. CASE Publish
  <2>1. rspProd' \in Index /\ backend' \in Backends
    BY <1>0, <1>16, IndicesClosed DEF Publish, Backends, TypeOK
  <2>2. pending' \in BOOLEAN
    <3> DEFINE k == pending \/ Notify(backend.was, rspProd, rspEvent)
    <3>1. k \in BOOLEAN /\ pending' \in {pending, k}
      BY <1>16 DEF Publish
    <3> HIDE DEF k
    <3> QED
      BY <1>0, <3>1 DEF TypeOK
  <2> QED
    BY <1>0, <1>16, <2>1, <2>2 DEF Publish, front, TypeOK, Backends
<1> QED
  BY <1>1, <1>2, <1>3, <1>4, <1>5, <1>6, <1>7, <1>8, <1>9, <1>10, <1>11, <1>12, <1>13, <1>14,
     <1>15, <1>16 DEF Next, Run

\* At the start nothing is on the ring.
LEMMA InitRing ==
  ASSUME Init
  PROVE  RingInv
<1>1. TypeOK
  BY IndicesClosed, IndexValues DEF Init, TypeOK, Pcs
<1>2. Minus(0, 0) = 0
  BY IndexValues DEF Index
<1>3. ReadUpTo = 0
  BY DEF Init, ReadUpTo
<1>4. InLap /\ LoopsMatch
  BY <1>2, <1>3, IndexValues DEF Init, InLap, LoopsMatch, Lap
<1>5. Len(Requests) = 0 /\ Len(Responses) = 0 /\ Taken = 0
  BY <1>1, <1>2, <1>3, Lengths DEF Init, Taken
<1>6. Requests = << >> /\ Responses = << >>
  BY <1>2, <1>3 DEF Init, Requests, Responses, Segment
<1>7. backend.taken = {} /\ inUse = {} /\ Cardinality({}) = 0 /\ IsFiniteSet({})
  BY FS_EmptySet DEF Init
<1>8. InPlace
  BY <1>5, <1>6, <1>7 DEF InPlace, Once, All, IdsOf
<1> QED
  BY <1>1, <1>4, <1>8 DEF RingInv, InOrder, InLap, LoopsMatch

\* The order of the indices bounds what is outstanding, and the ids in use are the channel's.
LEMMA RingInvSuffices ==
  ASSUME RingInv
  PROVE  IndicesSound
<1>1. InLap /\ TypeOK
  BY DEF RingInv, InOrder, InLap
<1>2. OutstandingBounded
  <2>1. /\ IsMinus(ReadUpTo, rspCons) /\ IsMinus(backend.rspPvt, ReadUpTo)
        /\ IsMinus(backend.reqCons, backend.rspPvt) /\ IsMinus(reqProdPvt, backend.reqCons)
        /\ IsMinus(reqProd, backend.reqCons) /\ IsMinus(reqProdPvt, rspCons)
    BY <1>1, IndexTypes, MinusValues
  <2>2. IndexSpan \in Nat /\ RingSize \in Nat /\ IndexSpan >= 2 * RingSize
    BY IndexValues
  <2>3. /\ rspCons \in Index /\ ReadUpTo \in Index /\ backend.rspPvt \in Index
        /\ backend.reqCons \in Index /\ reqProdPvt \in Index /\ reqProd \in Index
    BY <1>1, IndexTypes
  <2> QED
    BY <1>1, <2>1, <2>2, <2>3 DEF InLap, Lap, IsMinus, Index, OutstandingBounded
<1>3. /\ Requests = Between(backend.reqCons, reqProdPvt)
      /\ Responses = Between(ReadUpTo, backend.rspPvt)
  BY BetweenIsSegment DEF Requests, Responses
<1>4. InUseIsOutstanding
  BY <1>3 DEF RingInv, InPlace, All, IdsOf, InUseIsOutstanding, Channel!InUse
<1> QED
  BY <1>1, <1>2, <1>4 DEF IndicesSound

\* On one CPU the invariant is kept: whatever order the frontend, its DPC and the backend
\* step in, no slot is written while its contents are awaited.
THEOREM RingHolds == ASSUME OneCpu PROVE Spec => []RingInv
<1>1. Init => RingInv
  BY InitRing
<1>2. RingInv /\ [Next]_vars => RingInv'
  <2> SUFFICES ASSUME RingInv, [Next]_vars
               PROVE  RingInv'
    OBVIOUS
  <2>1. Steps /\ Types /\ InOrder'
    BY StepsKeep
  <2>2. TypeOK'
    BY <2>1, TypesKept DEF RingInv
  <2>3. InPlace'
    BY <2>1, PlaceKept
  <2> QED
    BY <2>1, <2>2, <2>3 DEF RingInv
<1> QED
  BY <1>1, <1>2, PTL DEF Spec

\* "The requestor (front end) never has more than RING_SIZE()-1 outstanding requests"
\* (ring.h:151), for the frontend and for the backend, over every wrap of the indices; and
\* the requests allocated are those outstanding.
THEOREM IndicesAreSound == ASSUME OneCpu PROVE Spec => []IndicesSound
<1>1. RingInv => IndicesSound
  BY RingInvSuffices
<1> QED
  BY <1>1, RingHolds, PTL

\* With one CPU the ring is a first-in first-out channel of requests and one of responses
\* over the same slots: StartIo's submissions, the DPC's reads and the backend's steps are
\* the channel's, everything else is unseen.
THEOREM RingIsChannel == ASSUME OneCpu PROVE Spec => IsChannel
<1>1. Init => Channel!Init
  <2> SUFFICES ASSUME Init
               PROVE  Channel!Init
    OBVIOUS
  <2>1. Minus(0, 0) = 0 /\ ReadUpTo = 0
    BY IndexValues DEF Init, ReadUpTo, Index
  <2> QED
    BY <2>1 DEF Init, Channel!Init, Between
<1>2. RingInv /\ [Next]_vars
        => [Channel!Next]_<<Between(backend.reqCons, reqProdPvt), backend.taken,
                            Between(ReadUpTo, backend.rspPvt)>>
  <2> SUFFICES ASSUME RingInv, [Next]_vars
               PROVE  [Channel!Next]_<<Between(backend.reqCons, reqProdPvt), backend.taken,
                                       Between(ReadUpTo, backend.rspPvt)>>
    OBVIOUS
  <2>1. /\ Between(backend.reqCons, reqProdPvt) = Requests
        /\ Between(ReadUpTo, backend.rspPvt) = Responses
        /\ Between(backend.reqCons, reqProdPvt)' = Requests'
        /\ Between(ReadUpTo, backend.rspPvt)' = Responses'
    BY BetweenIsSegment DEF Requests, Responses
  <2>2. Steps
    BY StepsKeep
  <2>3. Channel!InUse = inUse
    BY RingInvSuffices DEF IndicesSound, InUseIsOutstanding
  <2>4. CASE Still
    BY <2>1, <2>4 DEF Still
  <2>5. CASE Sends
    <3>1. PICK n \in Nat \ {0} : \E ids \in [1 .. n -> Ids \ inUse] :
            /\ \A i, j \in 1 .. n : ids[i] = ids[j] => i = j
            /\ Len(Requests) + Taken + Len(Responses) + n < RingSize
            /\ Requests' = Requests \o ids
      BY <2>5 DEF Sends
    <3>2. PICK ids \in [1 .. n -> Ids \ inUse] :
            /\ \A i, j \in 1 .. n : ids[i] = ids[j] => i = j
            /\ Len(Requests) + Taken + Len(Responses) + n < RingSize
            /\ Requests' = Requests \o ids
      BY <3>1
    <3>3. /\ Cardinality(inUse) = Len(Requests) + Taken + Len(Responses)
          /\ Cardinality(inUse) \in Nat
      <4>1. /\ Cardinality(inUse) = Len(Requests) + Cardinality(backend.taken) + Len(Responses)
            /\ Cardinality(backend.taken) = Taken
        BY AllCounted DEF RingInv, InPlace
      <4>2. Len(Requests) \in Nat /\ Len(Responses) \in Nat /\ Taken \in Nat
        BY Lengths DEF RingInv
      <4> QED
        BY <4>1, <4>2
    <3>4. n \in 1 .. (RingSize - 1) - Cardinality(inUse)
      BY <3>2, <3>3, IndexValues
    <3>5. ids \in [1 .. n -> Ids \ Channel!InUse] /\ n \in 1 .. (RingSize - 1) - Cardinality(Channel!InUse)
      BY <2>3, <3>4
    <3>6. /\ Between(backend.reqCons, reqProdPvt)' = Between(backend.reqCons, reqProdPvt) \o ids
          /\ UNCHANGED <<backend.taken, Between(ReadUpTo, backend.rspPvt)>>
      BY <2>1, <2>5, <3>2 DEF Sends
    <3>7. Channel!Send
      <4>1. \E sent \in [1 .. n -> Ids \ Channel!InUse] :
              /\ \A i, j \in 1 .. n : sent[i] = sent[j] => i = j
              /\ Between(backend.reqCons, reqProdPvt)' = Between(backend.reqCons, reqProdPvt) \o sent
        BY <3>2, <3>5, <3>6
      <4>2. \E m \in 1 .. (RingSize - 1) - Cardinality(Channel!InUse) :
              \E sent \in [1 .. m -> Ids \ Channel!InUse] :
                /\ \A i, j \in 1 .. m : sent[i] = sent[j] => i = j
                /\ Between(backend.reqCons, reqProdPvt)' = Between(backend.reqCons, reqProdPvt) \o sent
        BY <3>5, <4>1
      <4>3. Channel!Cardinality(Channel!InUse) = Cardinality(Channel!InUse)
        BY Zenon DEF Cardinality, Channel!Cardinality
      <4> QED
        BY <3>6, <4>2, <4>3 DEF Channel!Send
    <3> QED
      BY <3>7 DEF Channel!Next
  <2>6. CASE Takes
    BY <2>1, <2>6 DEF Takes, Channel!Next, Channel!Take
  <2>7. CASE Answers
    <3>1. backend.taken \subseteq Ids
      BY IndexTypes DEF RingInv
    <3> QED
      BY <2>1, <2>7, <3>1 DEF Answers, Channel!Next, Channel!Answer
  <2>8. CASE Reads
    BY <2>1, <2>8 DEF Reads, Channel!Next, Channel!Read
  <2> QED
    BY <2>2, <2>4, <2>5, <2>6, <2>7, <2>8 DEF Steps
<1> QED
  BY <1>1, <1>2, RingHolds, PTL DEF Spec, IsChannel, Channel!Spec
=============================================================================
