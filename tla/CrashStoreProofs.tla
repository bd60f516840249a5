--------------------------- MODULE CrashStoreProofs -------------------------
(***************************************************************************)
(* What the XenStore client of the crash-dump driver keeps, for every size *)
(* of the rings, every span of the indices that the rings divide, and any  *)
(* number of calls, watch events and failed allocations: copying to and    *)
(* from a ring is appending to and taking from a stream of units, and the  *)
(* two streams carry whole messages, the answer to each request once.      *)
(***************************************************************************)
EXTENDS CrashStore, SequenceTheorems, FiniteSetTheorems, TLAPS

-----------------------------------------------------------------------------
\* Remainders.

\* A remainder is what is left of any multiple.
LEMMA RemainderOf ==
  ASSUME NEW n \in Nat \ {0}, NEW q \in Nat, NEW r \in 0 .. n - 1
  PROVE  (n * q + r) % n = r
OBVIOUS

\* Every number is a multiple and a remainder.
LEMMA Division ==
  ASSUME NEW n \in Nat \ {0}, NEW x \in Nat
  PROVE  \E q \in Nat, r \in 0 .. n - 1 : x = n * q + r /\ x % n = r
<1>1. x - (x % n) = n * (x \div n)
  OBVIOUS
<1>2. x \div n \in Nat /\ x % n \in 0 .. n - 1
  OBVIOUS
<1>3. PICK q \in Nat : q = x \div n
  BY <1>2
<1>4. PICK r \in 0 .. n - 1 : r = x % n
  BY <1>2
<1>5. x - r = n * q
  BY <1>1, <1>3, <1>4
<1>6. n * q \in Nat
  OBVIOUS
<1>7. x = n * q + r
  BY <1>5, <1>6
<1> QED
  BY <1>4, <1>7

\* Less than n apart, two numbers have different remainders.
LEMMA RemaindersDiffer ==
  ASSUME NEW n \in Nat \ {0}, NEW x \in Nat, NEW y \in Nat, x < y, y < x + n
  PROVE  x % n # y % n
<1>1. PICK q \in Nat, r \in 0 .. n - 1 : x = n * q + r /\ x % n = r
  BY Division
<1>2. PICK d \in 1 .. n - 1 : y = x + d
  OBVIOUS
<1>3. CASE r + d < n
  <2>1. y = n * q + (r + d) /\ r + d \in 0 .. n - 1
    BY <1>1, <1>2, <1>3
  <2> QED
    BY <1>1, <1>2, <2>1, RemainderOf
<1>4. CASE r + d >= n
  <2>1. n * (q + 1) = n * q + n
    OBVIOUS
  <2>2. y = n * (q + 1) + (r + d - n) /\ r + d - n \in 0 .. n - 1 /\ q + 1 \in Nat
    BY <1>1, <1>2, <1>4, <2>1
  <2>3. y % n = r + d - n
    BY <2>2, RemainderOf
  <2> QED
    BY <1>1, <1>2, <2>3
<1> QED
  BY <1>3, <1>4

-----------------------------------------------------------------------------
\* Indices and slots.

Index == 0 .. IndexLimit - 1
SlotAt(x) == x % RingSize

\* The differences of the free-running indices wrap at most once.
LEMMA IndexValues ==
  /\ RingSize \in Nat \ {0} /\ IndexLimit \in Nat \ {0} /\ IndexLimit >= 2 * RingSize
  /\ \A i, n \in Index : /\ Advance(i, n) \in Index
                         /\ Advance(i, n) = IF i + n < IndexLimit THEN i + n ELSE i + n - IndexLimit
<1>1. RingSize \in Nat \ {0} /\ IndexLimit \in Nat \ {0} /\ IndexLimit >= 2 * RingSize
  BY CrashStoreAssumption
<1>2. \A x \in Nat : x < 2 * IndexLimit =>
        x % IndexLimit = IF x < IndexLimit THEN x ELSE x - IndexLimit
  BY <1>1
<1>3. ASSUME NEW i \in Index, NEW n \in Index
      PROVE  /\ Advance(i, n) \in Index
             /\ Advance(i, n) = IF i + n < IndexLimit THEN i + n ELSE i + n - IndexLimit
  BY <1>1, <1>2 DEF Advance, Index
<1> QED
  BY <1>1, <1>3

\* The ring divides the span of the indices.
LEMMA SpanAdded ==
  ASSUME NEW x \in Nat, NEW y \in Nat, y = x + IndexLimit
  PROVE  SlotAt(y) = SlotAt(x)
<1>1. PICK n \in Nat \ {0} : n = RingSize
  BY CrashStoreAssumption
<1>2. PICK q \in Nat, r \in 0 .. n - 1 : x = n * q + r /\ x % n = r
  BY Division
<1>3. PICK p \in Nat, o \in 0 .. n - 1 : IndexLimit = n * p + o /\ IndexLimit % n = o
  BY Division, CrashStoreAssumption
<1>4. o = 0
  BY <1>1, <1>3, CrashStoreAssumption
<1>5. n * (q + p) = n * q + n * p
  OBVIOUS
<1>6. n * q \in Nat /\ n * p \in Nat
  OBVIOUS
<1>7. y = n * (q + p) + r /\ q + p \in Nat
  BY <1>2, <1>3, <1>4, <1>5, <1>6
<1>8. y % n = r
  BY <1>7, RemainderOf
<1> QED
  BY <1>1, <1>2, <1>8 DEF SlotAt

\* A slot does not depend on whether the index has wrapped.
LEMMA SlotWraps ==
  ASSUME NEW i \in Index, NEW n \in Index
  PROVE  Advance(i, n) % RingSize = SlotAt(i + n)
<1>1. CASE i + n < IndexLimit
  BY <1>1, IndexValues DEF SlotAt
<1>2. CASE i + n >= IndexLimit
  <2>1. PICK x \in Nat : x + IndexLimit = i + n /\ Advance(i, n) = x
    BY <1>2, IndexValues DEF Index
  <2>2. PICK y \in Nat : y = x + IndexLimit
    BY <2>1, IndexValues
  <2>3. SlotAt(y) = SlotAt(x)
    BY <2>2, SpanAdded
  <2> QED
    BY <2>1, <2>2, <2>3 DEF SlotAt
<1> QED
  BY <1>1, <1>2, IndexValues DEF Index

\* Within a lap every index has a slot of its own.
LEMMA SlotsDiffer ==
  ASSUME NEW x \in Nat, NEW y \in Nat, x < y, y < x + RingSize
  PROVE  SlotAt(x) # SlotAt(y)
BY RemaindersDiffer, CrashStoreAssumption DEF SlotAt

\* A slot is on the ring.
LEMMA SlotOnRing == \A x \in Nat : SlotAt(x) \in 0 .. RingSize - 1
BY CrashStoreAssumption DEF SlotAt

-----------------------------------------------------------------------------
\* Streams.

\* A ring whose units are in U, and which holds no more than it has slots.
Rings(U) == [slot : [0 .. RingSize - 1 -> U \cup {<< >>}], prod : Index, cons : Index]
IsRing(U, r) == r \in Rings(U) /\ Used(r) <= RingSize /\ InRing(r) \in Seq(U)

\* c is what copying us to r comes to, ...
CopiedTo(U, r, us, c) ==
  /\ c.copied = Least(Len(us), RingSize - Used(r))
  /\ IsRing(U, c.ring)
  /\ InRing(c.ring) = InRing(r) \o SubSeq(us, 1, c.copied)

\* ... and copying at most max units from it.
CopiedFrom(U, r, max, c) ==
  /\ c.units \in Seq(U) /\ Len(c.units) = Least(max, Used(r))
  /\ IsRing(U, c.ring)
  /\ InRing(r) = c.units \o InRing(c.ring)

\* How the two indices of a ring lie.
LEMMA RingValues ==
  ASSUME NEW U, NEW r \in Rings(U), Used(r) <= RingSize
  PROVE  /\ Used(r) \in 0 .. RingSize /\ Available(r) = RingSize - Used(r)
         /\ r.prod \in Index /\ r.cons \in Index
         /\ r.prod = Advance(r.cons, Used(r))
<1>1. PICK p \in Index : p = r.prod
  BY DEF Rings
<1>2. PICK c \in Index : c = r.cons
  BY DEF Rings
<1>3. PICK L \in Nat \ {0} : L = IndexLimit
  BY IndexValues
<1>4. PICK n \in Nat \ {0} : n = RingSize /\ L >= 2 * n
  BY <1>3, IndexValues
<1>5. p \in 0 .. L - 1 /\ c \in 0 .. L - 1
  BY <1>3 DEF Index
<1>6. \A x \in 0 .. L - 1 : x % L = x /\ (x + L) % L = x /\ (x + 2 * L) % L = x
  OBVIOUS
<1>7. PICK u \in 0 .. L - 1 : u = IF p >= c THEN p - c ELSE p + L - c
  <2>1. (IF p >= c THEN p - c ELSE p + L - c) \in 0 .. L - 1
    BY <1>5
  <2> QED
    BY <2>1
<1>8. Used(r) = u
  <2>1. p + L - c = IF p >= c THEN u + L ELSE u
    BY <1>5, <1>7
  <2>2. (p + L - c) % L = u
    BY <2>1, <1>6, <1>7
  <2> QED
    BY <2>2, <1>1, <1>2, <1>3 DEF Used
<1>9. u \in 0 .. n
  BY <1>8, <1>4, <1>7
<1>10. Available(r) = n - u
  <2>1. PICK y \in 0 .. L - 1 : y = n - u
    BY <1>9, <1>4
  <2>2. p >= c => (c + n + L - p) % L = y
    <3> SUFFICES ASSUME p >= c PROVE (c + n + L - p) % L = y
      OBVIOUS
    <3>1. c + n + L - p = y + L
      BY <1>5, <1>7, <2>1
    <3> QED
      BY <3>1, <2>1, <1>6
  <2>3. p < c => (c + n + L - p) % L = y
    <3> SUFFICES ASSUME p < c PROVE (c + n + L - p) % L = y
      OBVIOUS
    <3>1. c + n + L - p = y + 2 * L
      BY <1>5, <1>7, <2>1
    <3> QED
      BY <3>1, <2>1, <1>6
  <2> QED
    <3>1. (c + n + L - p) % L = y
      BY <2>2, <2>3, <1>5
    <3> QED
      BY <3>1, <2>1, <1>1, <1>2, <1>3, <1>4 DEF Available
<1>11. p = Advance(c, u)
  <2>1. p = IF c + u < L THEN c + u ELSE c + u - L
    BY <1>5, <1>7
  <2>2. u \in Index
    BY <1>3, <1>7 DEF Index
  <2> QED
    BY <2>1, <2>2, <1>3, IndexValues
<1> QED
  BY <1>1, <1>2, <1>3, <1>4, <1>8, <1>9, <1>10, <1>11

\* Advancing twice is advancing once by the sum.
LEMMA AdvanceTwice ==
  ASSUME NEW i \in Index, NEW a \in Nat, NEW b \in Nat, a + b <= RingSize
  PROVE  Advance(Advance(i, a), b) = Advance(i, a + b)
<1>1. PICK L \in Nat \ {0} : L = IndexLimit /\ i \in 0 .. L - 1 /\ a + b < L
  BY IndexValues DEF Index
<1>2. PICK d \in Nat : d = a + b
  OBVIOUS
<1>3. a \in Index /\ b \in Index /\ d \in Index
  BY <1>1, <1>2 DEF Index
<1>4. Advance(i, a) = (IF i + a < L THEN i + a ELSE i + a - L) /\ Advance(i, a) \in Index
  BY <1>1, <1>3, IndexValues
<1>5. Advance(i, d) = IF i + d < L THEN i + d ELSE i + d - L
  BY <1>1, <1>3, IndexValues
<1>6. PICK k \in Index : k = Advance(i, a)
  BY <1>4
<1>7. Advance(k, b) = IF k + b < L THEN k + b ELSE k + b - L
  BY <1>1, <1>3, IndexValues
<1> QED
  BY <1>1, <1>2, <1>4, <1>5, <1>6, <1>7

\* What a ring holds is how far its producer is ahead.
LEMMA UsedIs ==
  ASSUME NEW r, NEW c \in Index, NEW u \in 0 .. RingSize, r.cons = c, r.prod = Advance(c, u)
  PROVE  Used(r) = u
<1>1. PICK L \in Nat \ {0} : L = IndexLimit /\ c \in 0 .. L - 1 /\ u \in 0 .. L - 1
  BY IndexValues DEF Index
<1>2. u \in Index
  BY <1>1 DEF Index
<1>3. PICK p \in Index : p = Advance(c, u) /\ p = IF c + u < L THEN c + u ELSE c + u - L
  BY <1>1, <1>2, IndexValues
<1>4. \A x \in 0 .. L - 1 : x % L = x /\ (x + L) % L = x
  OBVIOUS
<1>5. p + L - c = IF c + u < L THEN u + L ELSE u
  BY <1>1, <1>3
<1>6. (p + L - c) % L = u
  BY <1>1, <1>4, <1>5
<1> QED
  BY <1>1, <1>3, <1>6 DEF Used

\* The j-th unit that is taken, and the j-th that is added, by their slots.
LEMMA SlotsOfUnits ==
  ASSUME NEW U, NEW r \in Rings(U), Used(r) <= RingSize, NEW j \in 0 .. RingSize - 1
  PROVE  /\ Advance(r.cons, j) % RingSize = SlotAt(r.cons + j)
         /\ Advance(r.prod, j) % RingSize = SlotAt(r.cons + Used(r) + j)
<1>1. PICK u \in 0 .. RingSize : u = Used(r)
  BY RingValues
<1>2. PICK c \in Index : c = r.cons
  BY RingValues
<1>3. PICK p \in Index : p = r.prod /\ p = Advance(c, u)
  BY <1>1, <1>2, RingValues
<1>4. j \in Index /\ u \in Index
  BY <1>1, IndexValues DEF Index
<1>5. p = IF c + u < IndexLimit THEN c + u ELSE c + u - IndexLimit
  BY <1>3, <1>4, IndexValues
<1>6. Advance(c, j) % RingSize = SlotAt(c + j)
  BY <1>4, SlotWraps
<1>7. Advance(p, j) % RingSize = SlotAt(p + j)
  BY <1>4, SlotWraps
<1>8. PICK x \in Nat : x = p + j
  BY <1>4 DEF Index
<1>9. PICK y \in Nat : y = c + u + j
  BY <1>4 DEF Index
<1>10. SlotAt(x) = SlotAt(y)
  <2>1. PICK L \in Nat : L = IndexLimit
    BY IndexValues
  <2>2. p \in Nat /\ c \in Nat /\ u \in Nat /\ j \in Nat
    BY <1>4 DEF Index
  <2>3. y = x \/ y = x + L
    BY <1>5, <1>8, <1>9, <2>1, <2>2
  <2> QED
    BY <2>1, <2>3, SpanAdded
<1> QED
  BY <1>1, <1>2, <1>3, <1>6, <1>7, <1>8, <1>9, <1>10

\* The stream on a ring, unit by unit.
LEMMA OnRing ==
  ASSUME NEW U, NEW r, IsRing(U, r)
  PROVE  /\ Used(r) \in 0 .. RingSize /\ Len(InRing(r)) = Used(r)
         /\ \A k \in 1 .. Used(r) : /\ InRing(r)[k] = r.slot[Advance(r.cons, k - 1) % RingSize]
                                  /\ InRing(r)[k] \in U
<1>1. r \in Rings(U) /\ Used(r) <= RingSize /\ InRing(r) \in Seq(U)
  BY DEF IsRing
<1>2. Used(r) \in 0 .. RingSize
  BY <1>1, RingValues
<1>3. DOMAIN InRing(r) = 1 .. Used(r)
  BY DEF InRing
<1>4. Len(InRing(r)) = Used(r)
  BY <1>1, <1>2, <1>3, LenProperties
<1>5. \A k \in 1 .. Used(r) : InRing(r)[k] = r.slot[Advance(r.cons, k - 1) % RingSize]
  BY DEF InRing
<1>6. \A k \in 1 .. Used(r) : InRing(r)[k] \in U
  BY <1>1, <1>4, ElementOfSeq
<1> QED
  BY <1>2, <1>4, <1>5, <1>6

\* Taking units off a ring takes them off its stream.
LEMMA UnitsTaken ==
  ASSUME NEW U, NEW r, IsRing(U, r), NEW max \in Nat
  PROVE  CopiedFrom(U, r, max, CopyFromRing(r, max))
<1>0. PICK N \in Nat \ {0} : N = RingSize /\ IndexLimit >= 2 * N /\ IndexLimit \in Nat
  BY IndexValues
<1> DEFINE u == Used(r)
           n == Least(max, u)
           c == CopyFromRing(r, max)
           q == c.ring
<1>1. r \in Rings(U) /\ u \in 0 .. N /\ n \in 0 .. u /\ u - n \in 0 .. N
  BY <1>0, OnRing DEF IsRing, Least
<1>2. r.cons \in Index /\ r.prod = Advance(r.cons, u)
  BY <1>1, RingValues DEF IsRing
<1>3. n \in Index /\ Advance(r.cons, n) \in Index
  <2>1. n \in Index
    BY <1>0, <1>1 DEF Index
  <2> QED
    BY <1>2, <2>1, IndexValues
<1>4. q = [r EXCEPT !.cons = Advance(r.cons, n)]
  BY DEF CopyFromRing
<1>5. q \in Rings(U) /\ q.slot = r.slot /\ q.prod = r.prod /\ q.cons = Advance(r.cons, n)
  BY <1>1, <1>3, <1>4 DEF Rings
<1>6. c.units = [k \in 1 .. n |-> r.slot[Advance(r.cons, k - 1) % RingSize]]
  BY DEF CopyFromRing
<1> HIDE DEF c, q, n, u
<1>7. Used(q) = u - n
  <2>1. PICK m \in 0 .. RingSize : m = u - n
    BY <1>0, <1>1
  <2>2. Advance(Advance(r.cons, n), m) = Advance(r.cons, n + m)
    BY <1>0, <1>1, <1>2, <2>1, AdvanceTwice
  <2>3. n + m = u
    BY <1>1, <2>1
  <2> QED
    BY <1>0, <1>1, <1>2, <1>3, <1>5, <2>1, <2>2, <2>3, UsedIs
<1>8. \A k \in 1 .. n : c.units[k] = InRing(r)[k] /\ c.units[k] \in U
  BY <1>1, <1>6, OnRing DEF u
<1>9. c.units \in Seq(U) /\ Len(c.units) = n
  <2>1. c.units \in [1 .. n -> U]
    BY <1>6, <1>8
  <2> QED
    BY <1>1, <2>1, LenProperties
<1>10. \A k \in 1 .. u - n : InRing(q)[k] = InRing(r)[n + k]
  <2> TAKE k \in 1 .. u - n
  <2>1. PICK i \in 0 .. RingSize - 1 : i = k - 1
    <3>1. k - 1 \in 0 .. RingSize - 1
      BY <1>0, <1>1
    <3> QED
      BY <3>1
  <2>2. PICK j \in 1 .. u : j = n + k
    BY <1>1
  <2>3. Advance(Advance(r.cons, n), i) = Advance(r.cons, n + i)
    <3>1. n + i <= RingSize
      BY <1>0, <1>1, <2>1
    <3> QED
      BY <1>0, <1>1, <1>2, <2>1, <3>1, AdvanceTwice
  <2>4. n + i = j - 1
    BY <1>1, <2>1, <2>2
  <2>5. InRing(r)[j] = r.slot[Advance(r.cons, j - 1) % RingSize]
    BY OnRing DEF u
  <2>6. InRing(q)[k] = q.slot[Advance(q.cons, k - 1) % RingSize]
    BY <1>7 DEF InRing
  <2> QED
    BY <1>5, <2>1, <2>2, <2>3, <2>4, <2>5, <2>6
<1>11. InRing(q) \in Seq(U) /\ Len(InRing(q)) = u - n
  <2>1. \A k \in 1 .. u - n : InRing(q)[k] \in U
    <3> TAKE k \in 1 .. u - n
    <3>1. PICK j \in 1 .. u : j = n + k
      BY <1>1
    <3>2. InRing(r)[j] \in U
      BY OnRing DEF u
    <3> QED
      BY <1>10, <3>1, <3>2
  <2>2. DOMAIN InRing(q) = 1 .. u - n /\ InRing(q) = [k \in 1 .. u - n |-> InRing(q)[k]]
    BY <1>7 DEF InRing
  <2>3. InRing(q) \in [1 .. u - n -> U]
    BY <2>1, <2>2
  <2> QED
    BY <1>1, <2>2, <2>3, LenProperties
<1>12. IsRing(U, q)
  BY <1>0, <1>1, <1>5, <1>7, <1>11 DEF IsRing
<1>13. InRing(r) = c.units \o InRing(q)
  <2>1. InRing(r) \in Seq(U) /\ Len(InRing(r)) = u
    BY OnRing DEF IsRing, u
  <2>2. PICK t : t = InRing(q)
    OBVIOUS
  <2>3. PICK v : v = c.units \o t
    OBVIOUS
  <2>4. /\ v \in Seq(U) /\ Len(v) = u
        /\ \A k \in 1 .. u : v[k] = IF k <= n THEN c.units[k] ELSE t[k - n]
    <3>1. t \in Seq(U) /\ Len(t) = u - n
      BY <1>11, <2>2
    <3>2. /\ v \in Seq(U) /\ Len(v) = n + Len(t)
          /\ \A k \in 1 .. n + Len(t) : v[k] = IF k <= n THEN c.units[k] ELSE t[k - n]
      BY <1>9, <3>1, <2>3, ConcatProperties
    <3>3. n + Len(t) = u
      BY <1>1, <3>1
    <3> QED
      BY <3>2, <3>3
  <2>5. ASSUME NEW k \in 1 .. u PROVE InRing(r)[k] = v[k]
    <3>1. v[k] = IF k <= n THEN c.units[k] ELSE t[k - n]
      BY <2>4
    <3>2. CASE k <= n
      BY <1>1, <1>8, <3>1, <3>2
    <3>3. CASE k > n
      <4>1. PICK j \in 1 .. u - n : j = k - n /\ n + j = k
        BY <1>1, <3>3
      <4> QED
        BY <1>1, <1>10, <2>2, <3>1, <3>3, <4>1
    <3> QED
      BY <1>1, <3>2, <3>3
  <2>6. InRing(r) = v
    BY <2>1, <2>4, <2>5, SeqEqual
  <2> QED
    BY <2>2, <2>3, <2>6
<1> QED
  BY <1>9, <1>12, <1>13 DEF CopiedFrom, c, q, n, u

\* Putting units on a ring, as far as they fit, appends them to its stream.
LEMMA UnitsPut ==
  ASSUME NEW U, NEW r, IsRing(U, r), NEW us \in Seq(U)
  PROVE  CopiedTo(U, r, us, CopyToRing(r, us))
<1>1. PICK N \in Nat \ {0} : N = RingSize /\ IndexLimit >= 2 * N /\ IndexLimit \in Nat
  BY IndexValues
<1> DEFINE u == Used(r)
           n == Least(Len(us), Available(r))
           At(i) == {k \in 1 .. n : Advance(r.prod, k - 1) % RingSize = i}
           c == CopyToRing(r, us)
           q == c.ring
<1>2. r \in Rings(U) /\ u \in 0 .. N /\ Available(r) = N - u /\ r.cons \in Index /\ r.prod = Advance(r.cons, u)
  <2>1. r \in Rings(U) /\ Used(r) <= RingSize
    BY DEF IsRing
  <2> QED
    BY <1>1, <2>1, RingValues
<1>3. Len(us) \in Nat /\ n = Least(Len(us), N - u) /\ n \in Nat /\ u + n \in 0 .. N /\ n <= Len(us)
  BY <1>2, LenProperties DEF Least
<1>4. c.copied = n
  BY DEF CopyToRing
<1>5. q = [r EXCEPT !.slot = [i \in DOMAIN r.slot |-> IF At(i) = {} THEN r.slot[i] ELSE us[CHOOSE k \in At(i) : TRUE]],
                    !.prod = Advance(r.prod, n)]
  BY DEF CopyToRing
<1>6. /\ DOMAIN r.slot = 0 .. RingSize - 1
      /\ q.slot = [i \in 0 .. RingSize - 1 |-> IF At(i) = {} THEN r.slot[i] ELSE us[CHOOSE k \in At(i) : TRUE]]
      /\ q.prod = Advance(r.prod, n) /\ q.cons = r.cons
      /\ q = [slot |-> q.slot, prod |-> q.prod, cons |-> q.cons]
  BY <1>2, <1>5 DEF Rings
<1> HIDE DEF c, q, u, n, At
<1>7. \A i : \A k : k \in At(i) <=> k \in 1 .. n /\ Advance(r.prod, k - 1) % RingSize = i
  BY DEF At
<1>8. \A k \in 1 .. n : us[k] \in U
  BY <1>3, ElementOfSeq
<1>9. q.slot \in [0 .. RingSize - 1 -> U \cup {<< >>}]
  <2>1. ASSUME NEW i \in 0 .. RingSize - 1 PROVE q.slot[i] \in U \cup {<< >>}
    <3>1. CASE At(i) = {}
      BY <1>2, <1>6, <3>1 DEF Rings
    <3>2. CASE At(i) # {}
      <4>1. PICK k \in At(i) : k = CHOOSE x \in At(i) : TRUE
        BY <3>2
      <4> QED
        BY <1>6, <1>7, <1>8, <3>2, <4>1
    <3> QED
      BY <3>1, <3>2
  <2> QED
    BY <1>6, <2>1
<1>10. q.prod = Advance(r.cons, u + n) /\ q.prod \in Index
  <2>1. Advance(Advance(r.cons, u), n) = Advance(r.cons, u + n)
    <3>1. r.cons \in Index /\ u \in Nat /\ n \in Nat /\ u + n <= RingSize
      BY <1>1, <1>2, <1>3
    <3> QED
      BY <3>1, AdvanceTwice
  <2>2. u + n \in Index
    BY <1>1, <1>3 DEF Index
  <2> QED
    BY <1>2, <1>6, <2>1, <2>2, IndexValues
<1>11. q \in Rings(U)
  BY <1>2, <1>6, <1>9, <1>10 DEF Rings
<1>12. Used(q) = u + n
  <2>1. PICK m \in 0 .. RingSize : m = u + n
    BY <1>1, <1>3
  <2> QED
    BY <1>2, <1>6, <1>10, <2>1, UsedIs
\* Which slots are written.
<1>13. \A k \in 1 .. n : /\ Advance(r.prod, k - 1) % RingSize = SlotAt(r.cons + u + (k - 1))
                        /\ Advance(r.prod, k - 1) % RingSize \in 0 .. RingSize - 1
  <2> TAKE k \in 1 .. n
  <2>1. PICK j \in 0 .. RingSize - 1 : j = k - 1
    <3>1. k - 1 \in 0 .. RingSize - 1
      BY <1>1, <1>2, <1>3
    <3> QED
      BY <3>1
  <2>2. Advance(r.prod, j) % RingSize = SlotAt(r.cons + Used(r) + j)
    BY <1>1, <1>2, SlotsOfUnits DEF u
  <2>3. PICK x \in Nat : x = r.cons + u + j
    BY <1>2 DEF Index
  <2>4. SlotAt(x) \in 0 .. RingSize - 1
    BY SlotOnRing
  <2> QED
    BY <2>1, <2>2, <2>3, <2>4 DEF u
<1>14. \A k \in 1 .. u : At(Advance(r.cons, k - 1) % RingSize) = {}
  <2> TAKE k \in 1 .. u
  <2>1. PICK j \in 0 .. RingSize - 1 : j = k - 1
    <3>1. k - 1 \in 0 .. RingSize - 1
      BY <1>1, <1>2
    <3> QED
      BY <3>1
  <2>2. Advance(r.cons, j) % RingSize = SlotAt(r.cons + j)
    BY <1>1, <1>2, SlotsOfUnits DEF u
  <2>3. ASSUME NEW m \in 1 .. n PROVE SlotAt(r.cons + u + (m - 1)) # SlotAt(r.cons + j)
    <3>1. PICK x \in Nat : x = r.cons + j
      BY <1>2 DEF Index
    <3>2. PICK y \in Nat : y = r.cons + u + (m - 1)
      BY <1>2, <1>3 DEF Index
    <3>3. x < y /\ y < x + RingSize
      <4>1. PICK a \in Nat : a = r.cons
        BY <1>2 DEF Index
      <4>2. x = a + (k - 1) /\ y = a + u + (m - 1)
        BY <2>1, <3>1, <3>2, <4>1
      <4> QED
        BY <1>1, <1>2, <1>3, <4>2, <2>1
    <3> QED
      BY <3>1, <3>2, <3>3, SlotsDiffer
  <2> QED
    BY <1>7, <1>13, <2>1, <2>2, <2>3
<1>15. \A k \in 1 .. n : At(Advance(r.prod, k - 1) % RingSize) = {k}
  <2> TAKE k \in 1 .. n
  <2>1. ASSUME NEW m \in 1 .. n, NEW o \in 1 .. n, m < o
        PROVE  Advance(r.prod, m - 1) % RingSize # Advance(r.prod, o - 1) % RingSize
    <3>1. PICK x \in Nat : x = r.cons + u + (m - 1)
      BY <1>2, <1>3 DEF Index
    <3>2. PICK y \in Nat : y = r.cons + u + (o - 1)
      BY <1>2, <1>3 DEF Index
    <3>3. x < y /\ y < x + RingSize
      <4>1. PICK a \in Nat : a = r.cons
        BY <1>2 DEF Index
      <4>2. x = a + u + (m - 1) /\ y = a + u + (o - 1)
        BY <2>1, <3>1, <3>2, <4>1
      <4> QED
        BY <1>1, <1>2, <1>3, <2>1, <4>2
    <3> QED
      BY <1>13, <3>1, <3>2, <3>3, SlotsDiffer
  <2>2. \A m \in 1 .. n : Advance(r.prod, m - 1) % RingSize = Advance(r.prod, k - 1) % RingSize => m = k
    <3> TAKE m \in 1 .. n
    <3>1. m < k \/ k < m \/ m = k
      OBVIOUS
    <3> QED
      BY <2>1, <3>1
  <2> QED
    BY <1>7, <2>2
\* The stream.
<1>16. \A k \in 1 .. u : InRing(q)[k] = InRing(r)[k]
  <2> TAKE k \in 1 .. u
  <2>1. k \in 1 .. Used(q) /\ k \in 1 .. Used(r)
    BY <1>2, <1>3, <1>12 DEF u
  <2>2. InRing(q)[k] = q.slot[Advance(r.cons, k - 1) % RingSize]
    BY <1>6, <2>1 DEF InRing
  <2>3. InRing(r)[k] = r.slot[Advance(r.cons, k - 1) % RingSize]
    BY <2>1 DEF InRing
  <2>4. PICK i : i = Advance(r.cons, k - 1) % RingSize
    OBVIOUS
  <2>5. i \in 0 .. RingSize - 1
    <3>1. PICK j \in 0 .. RingSize - 1 : j = k - 1
      <4>1. k - 1 \in 0 .. RingSize - 1
        BY <1>1, <1>2
      <4> QED
        BY <4>1
    <3>2. Advance(r.cons, j) % RingSize = SlotAt(r.cons + j)
      BY <1>1, <1>2, SlotsOfUnits DEF u
    <3>3. PICK x \in Nat : x = r.cons + j
      BY <1>2 DEF Index
    <3> QED
      BY <2>4, <3>1, <3>2, <3>3, SlotOnRing
  <2>6. At(i) = {}
    BY <1>14, <2>4
  <2> QED
    BY <1>6, <2>2, <2>3, <2>4, <2>5, <2>6
<1>17. \A k \in 1 .. n : InRing(q)[u + k] = us[k]
  <2> TAKE k \in 1 .. n
  <2>1. PICK j \in 0 .. RingSize - 1 : j = k - 1
    <3>1. k - 1 \in 0 .. RingSize - 1
      BY <1>1, <1>2, <1>3
    <3> QED
      BY <3>1
  <2>2. PICK x \in 1 .. Used(q) : x = u + k
    BY <1>2, <1>3, <1>12
  <2>3. InRing(q)[x] = q.slot[Advance(r.cons, x - 1) % RingSize]
    BY <1>6 DEF InRing
  <2>4. Advance(r.cons, x - 1) = Advance(r.prod, k - 1)
    <3>1. u + j <= RingSize /\ x - 1 = u + j
      BY <1>1, <1>2, <1>3, <2>1, <2>2
    <3>2. Advance(Advance(r.cons, u), j) = Advance(r.cons, u + j)
      BY <1>1, <1>2, <3>1, AdvanceTwice
    <3> QED
      BY <1>2, <2>1, <3>1, <3>2
  <2>5. PICK i \in 0 .. RingSize - 1 : i = Advance(r.prod, k - 1) % RingSize
    BY <1>13
  <2>6. At(i) = {k}
    BY <1>15, <2>5
  <2>7. (CHOOSE m \in {k} : TRUE) = k
    OBVIOUS
  <2> QED
    BY <1>6, <2>2, <2>3, <2>4, <2>5, <2>6, <2>7
<1>18. InRing(q) \in Seq(U) /\ Len(InRing(q)) = u + n
  <2>1. ASSUME NEW k \in 1 .. u + n PROVE InRing(q)[k] \in U
    <3>1. CASE k <= u
      <4>1. k \in 1 .. u /\ k \in 1 .. Used(r)
        BY <1>2, <3>1 DEF u
      <4> QED
        BY <1>16, <4>1, OnRing
    <3>2. CASE k > u
      <4>1. PICK j \in 1 .. n : k = u + j
        <5>1. k - u \in 1 .. n /\ k = u + (k - u)
          BY <1>2, <1>3, <3>2
        <5> QED
          BY <5>1
      <4> QED
        BY <1>8, <1>17, <4>1
    <3> QED
      BY <1>2, <3>1, <3>2
  <2>2. DOMAIN InRing(q) = 1 .. u + n /\ InRing(q) = [k \in 1 .. u + n |-> InRing(q)[k]]
    BY <1>12 DEF InRing
  <2>3. InRing(q) \in [1 .. u + n -> U]
    BY <2>1, <2>2
  <2> QED
    BY <1>3, <2>2, <2>3, LenProperties
<1>19. IsRing(U, q)
  BY <1>1, <1>3, <1>11, <1>12, <1>18 DEF IsRing
<1>20. InRing(q) = InRing(r) \o SubSeq(us, 1, n)
  <2>1. PICK t : t = SubSeq(us, 1, n)
    OBVIOUS
  <2>2. t \in Seq(U) /\ Len(t) = n /\ \A k \in 1 .. n : t[k] = us[k]
    <3>1. /\ t \in Seq(U) /\ Len(t) = IF 1 <= n THEN n - 1 + 1 ELSE 0
          /\ \A k \in 1 .. n - 1 + 1 : t[k] = us[1 + k - 1]
      BY <1>3, <1>8, <2>1, SubSeqProperties
    <3> QED
      BY <1>3, <3>1
  <2>3. PICK s : s = InRing(r)
    OBVIOUS
  <2>4. s \in Seq(U) /\ Len(s) = u
    BY <2>3, OnRing DEF IsRing, u
  <2>5. PICK v : v = s \o t
    OBVIOUS
  <2>6. /\ v \in Seq(U) /\ Len(v) = u + n
        /\ \A k \in 1 .. u + n : v[k] = IF k <= u THEN s[k] ELSE t[k - u]
    BY <2>2, <2>4, <2>5, ConcatProperties
  <2>7. ASSUME NEW k \in 1 .. u + n PROVE InRing(q)[k] = v[k]
    <3>1. CASE k <= u
      BY <1>2, <1>16, <2>3, <2>6, <3>1
    <3>2. CASE k > u
      <4>1. PICK j \in 1 .. n : k = u + j /\ k - u = j
        <5>1. k - u \in 1 .. n /\ k = u + (k - u)
          BY <1>2, <1>3, <3>2
        <5> QED
          BY <5>1
      <4>2. v[k] = t[j]
        BY <1>2, <2>6, <3>2, <4>1
      <4> QED
        BY <1>17, <2>2, <4>1, <4>2
    <3> QED
      BY <1>2, <3>1, <3>2
  <2>8. InRing(q) = v
    BY <1>18, <2>6, <2>7, SeqEqual
  <2> QED
    BY <2>1, <2>3, <2>5, <2>8
<1>21. c.copied = Least(Len(us), RingSize - Used(r))
  BY <1>1, <1>3, <1>4 DEF u
<1> QED
  <2>1. q = c.ring
    BY DEF q
  <2> QED
    BY <1>4, <1>19, <1>20, <1>21, <2>1 DEF CopiedTo, c

-----------------------------------------------------------------------------
\* What the variables hold.

ReqMessages == [id : Nat, type : Kinds, len : Nat]
RspMessages == {m \in [id : Nat, type : Kinds \cup Errors \cup {"watch"}, len : Nat] :
                  m.type = "watch" => m.len > 0}
UnitsOf(M) == [m : M, part : Nat \ {0}]
ReqUnits == UnitsOf(ReqMessages)
RspUnits == UnitsOf(RspMessages)

Places == {"idle", "send", "sent", "header", "payload", "process", "received", "check"}

TypesHold ==
  /\ IsRing(ReqUnits, req) /\ IsRing(RspUnits, rsp)
  /\ pc \in Places
  /\ call \in [kind : Kinds \cup {"none"}, state : {"INVALID", "SUBMITTED", "PENDING", "COMPLETED"},
               m : [id : Nat, type : Kinds \cup {"none"}, len : Nat], sent : Nat, response : Seq(RspUnits)]
  /\ call.sent <= call.m.len + 1
  /\ incoming \in Seq(RspUnits)
  /\ written \in BOOLEAN /\ read \in BOOLEAN
  /\ sequence \in Nat /\ calls \in Nat /\ noMemory \in Nat
  /\ owned \in [Owners -> Nat]
  /\ leaked \in [{"watch", "retry"} -> Nat]
  /\ daemon \in [awake : BOOLEAN, inbuf : Seq(ReqUnits), out : Seq(RspUnits), watches : Nat]

\* How far the call in progress is.
CallMatch ==
  /\ pc = "idle" <=> call.state = "INVALID"
  /\ call.state = "INVALID" => call = NoCall
  /\ call.state # "INVALID" =>
       /\ call.kind \in Kinds
       /\ call.m = Message(sequence, IF call.kind = "printf" THEN "write" ELSE call.kind, RequestLen(call.kind))
  /\ pc = "check" => call.state = "COMPLETED"
  /\ call.state = "COMPLETED" <=> call.response # << >>

\* What has come of the message that is being received, at either end.
ReceiptMatch ==
  /\ pc = "header" => incoming = << >>
  /\ pc \in {"payload", "process"} => incoming # << >>
  /\ incoming # << >> => IF pc = "process" THEN Len(incoming) = incoming[1].m.len + 1
                                          ELSE Len(incoming) <= incoming[1].m.len
  /\ daemon.inbuf # << >> => Len(daemon.inbuf) <= daemon.inbuf[1].m.len

\* Who holds what of the heap.
HeapMatch ==
  /\ owned["payload"] = HasPayload(incoming) + HasPayload(call.response)
  /\ call.kind = "printf" => owned["buffer"] > 0
  /\ call.kind \in {"start", "end"} => owned["tx"] > 0

ClientHolds == TypesHold /\ (Running => CallMatch /\ ReceiptMatch /\ HeapMatch)

\* The units of a message.
LEMMA UnitsAre ==
  ASSUME NEW M, NEW m \in M, m.len \in Nat
  PROVE  /\ Units(m) \in Seq(UnitsOf(M)) /\ Len(Units(m)) = m.len + 1
         /\ \A k \in 1 .. m.len + 1 : Units(m)[k] = Unit(m, k)
<1>1. \A k \in 1 .. m.len + 1 : Unit(m, k) \in UnitsOf(M)
  BY DEF Unit, UnitsOf
<1>2. Units(m) \in [1 .. m.len + 1 -> UnitsOf(M)]
  BY <1>1 DEF Units
<1>3. Units(m) \in Seq(UnitsOf(M))
  BY <1>2
<1>4. Len(Units(m)) = m.len + 1
  BY <1>2, <1>3, LenProperties
<1> QED
  BY <1>3, <1>4 DEF Units

\* The initial state: nothing is on the rings.
LEMMA EmptyIsRing ==
  ASSUME NEW U
  PROVE  IsRing(U, EmptyRing) /\ InRing(EmptyRing) = << >> /\ Used(EmptyRing) = 0
<1>1. 0 \in Index /\ 0 \in 0 .. RingSize /\ Advance(0, 0) = 0
  BY IndexValues DEF Index
<1>2. Used(EmptyRing) = 0
  BY <1>1, UsedIs DEF EmptyRing
<1>3. InRing(EmptyRing) = << >>
  BY <1>2 DEF InRing
<1>4. EmptyRing \in Rings(U)
  BY <1>1 DEF EmptyRing, Rings
<1> QED
  BY <1>2, <1>3, <1>4, IndexValues DEF IsRing

\* What is left unread, unwritten or half written of the old session.
LEMMA LeftoversAre ==
  ASSUME NEW l \in Leftovers
  PROVE  /\ l.inbuf \in Seq(ReqUnits) /\ l.out \in Seq(RspUnits)
         /\ l.inbuf # << >> => Len(l.inbuf) <= l.inbuf[1].m.len
         /\ OldSession = "quiet" => l.inbuf = << >> /\ l.out = << >>
<1>1. OldRequest \in ReqMessages /\ OldRequest.len = 2 /\ OldAnswer \in RspMessages /\ OldAnswer.len = 1
  BY DEF OldRequest, OldAnswer, Message, ReqMessages, RspMessages, Kinds
<1>2. /\ Units(OldRequest) \in Seq(ReqUnits) /\ Len(Units(OldRequest)) = 3
      /\ \A k \in 1 .. 3 : Units(OldRequest)[k] = Unit(OldRequest, k)
  <2>1. PICK m \in ReqMessages : m = OldRequest /\ m.len \in Nat
    BY <1>1
  <2>2. /\ Units(m) \in Seq(UnitsOf(ReqMessages)) /\ Len(Units(m)) = m.len + 1
        /\ \A k \in 1 .. m.len + 1 : Units(m)[k] = Unit(m, k)
    BY <2>1, UnitsAre
  <2> QED
    BY <1>1, <2>1, <2>2 DEF ReqUnits
<1>3. Units(OldAnswer) \in Seq(RspUnits) /\ Len(Units(OldAnswer)) = 2
  <2>1. PICK m \in RspMessages : m = OldAnswer /\ m.len \in Nat
    BY <1>1
  <2>2. Units(m) \in Seq(UnitsOf(RspMessages)) /\ Len(Units(m)) = m.len + 1
    BY <2>1, UnitsAre
  <2> QED
    BY <1>1, <2>1, <2>2 DEF RspUnits
<1>4. ASSUME NEW n \in 1 .. 2
      PROVE  /\ SubSeq(Units(OldRequest), 1, n) \in Seq(ReqUnits)
             /\ SubSeq(Units(OldRequest), 1, n) # << >>
             /\ Len(SubSeq(Units(OldRequest), 1, n)) <= SubSeq(Units(OldRequest), 1, n)[1].m.len
  <2>1. PICK t : t = SubSeq(Units(OldRequest), 1, n)
    OBVIOUS
  <2>2. \A k \in 1 .. n : Units(OldRequest)[k] \in ReqUnits
    <3>1. \A k \in 1 .. 3 : Units(OldRequest)[k] \in ReqUnits
      BY <1>2, ElementOfSeq
    <3> QED
      BY <3>1
  <2>3. t \in Seq(ReqUnits) /\ Len(t) = n /\ t[1] = Unit(OldRequest, 1)
    <3>1. /\ t \in Seq(ReqUnits) /\ Len(t) = IF 1 <= n THEN n - 1 + 1 ELSE 0
          /\ \A k \in 1 .. n - 1 + 1 : t[k] = Units(OldRequest)[1 + k - 1]
      BY <2>1, <2>2, SubSeqProperties
    <3> QED
      BY <1>2, <3>1
  <2>4. t # << >>
    BY <2>3
  <2>5. Len(t) <= t[1].m.len
    BY <1>1, <2>3 DEF Unit
  <2> QED
    BY <2>1, <2>3, <2>4, <2>5
<1>5. ASSUME NEW n \in 1 .. 2
      PROVE  SubSeq(Units(OldAnswer), n, 2) \in Seq(RspUnits)
  <2>1. \A k \in n .. 2 : Units(OldAnswer)[k] \in RspUnits
    BY <1>3, ElementOfSeq
  <2> QED
    BY <2>1, SubSeqProperties
<1>6. CASE OldSession = "quiet"
  <2>1. Leftovers = {[inbuf |-> << >>, out |-> << >>]}
    BY <1>6 DEF Leftovers
  <2>2. l.inbuf = << >> /\ l.out = << >>
    BY <2>1
  <2> QED
    BY <2>2
<1>7. CASE OldSession # "quiet"
  <2> DEFINE In == {[inbuf |-> SubSeq(Units(OldRequest), 1, n), out |-> << >>] : n \in 1 .. 2}
             Out == {[inbuf |-> << >>, out |-> SubSeq(Units(OldAnswer), n, 2)] : n \in 1 .. 2}
  <2>1. Leftovers = In \cup Out
    BY <1>7 DEF Leftovers
  <2>2. ASSUME l \in In
        PROVE  l.inbuf \in Seq(ReqUnits) /\ l.out = << >> /\ l.inbuf # << >> /\ Len(l.inbuf) <= l.inbuf[1].m.len
    <3>1. PICK n \in 1 .. 2 : l = [inbuf |-> SubSeq(Units(OldRequest), 1, n), out |-> << >>]
      BY <2>2
    <3> QED
      BY <1>4, <3>1
  <2>3. ASSUME l \in Out
        PROVE  l.inbuf = << >> /\ l.out \in Seq(RspUnits)
    <3>1. PICK n \in 1 .. 2 : l = [inbuf |-> << >>, out |-> SubSeq(Units(OldAnswer), n, 2)]
      BY <2>3
    <3> QED
      BY <1>5, <3>1
  <2> HIDE DEF In, Out
  <2>4. l \in In \/ l \in Out
    BY <2>1
  <2>5. << >> \in Seq(ReqUnits) /\ << >> \in Seq(RspUnits)
    BY EmptySeq
  <2>6. CASE l \in In
    BY <1>7, <2>2, <2>5, <2>6
  <2>7. CASE l \in Out
    BY <1>7, <2>3, <2>5, <2>7
  <2> QED
    BY <2>4, <2>6, <2>7
<1> QED
  BY <1>6, <1>7

\* The client starts with empty rings and no call.
LEMMA ClientInit == Init => ClientHolds
<1> SUFFICES ASSUME Init PROVE ClientHolds
  OBVIOUS
<1>1. PICK l \in Leftovers : daemon = [awake |-> TRUE, inbuf |-> l.inbuf, out |-> l.out, watches |-> 0]
  BY DEF Init
<1>2. /\ l.inbuf \in Seq(ReqUnits) /\ l.out \in Seq(RspUnits)
      /\ l.inbuf # << >> => Len(l.inbuf) <= l.inbuf[1].m.len
  BY LeftoversAre
<1>3. IsRing(ReqUnits, req) /\ IsRing(RspUnits, rsp)
  BY EmptyIsRing DEF Init
<1>4. call = NoCall /\ incoming = << >> /\ pc = "idle"
  BY DEF Init
<1>5. TypesHold
  <2>1. /\ call \in [kind : Kinds \cup {"none"}, state : {"INVALID", "SUBMITTED", "PENDING", "COMPLETED"},
                    m : [id : Nat, type : Kinds \cup {"none"}, len : Nat], sent : Nat, response : Seq(RspUnits)]
        /\ call.sent <= call.m.len + 1
    BY <1>4 DEF NoCall, Message
  <2>2. daemon \in [awake : BOOLEAN, inbuf : Seq(ReqUnits), out : Seq(RspUnits), watches : Nat]
    BY <1>1, <1>2
  <2>3. incoming \in Seq(RspUnits) /\ pc \in Places
    BY <1>4 DEF Places
  <2>4. written \in BOOLEAN /\ read \in BOOLEAN /\ sequence \in Nat /\ calls \in Nat /\ noMemory \in Nat
    BY DEF Init
  <2>5. owned \in [Owners -> Nat]
    BY DEF Init
  <2>6. leaked \in [{"watch", "retry"} -> Nat]
    BY DEF Init
  <2> QED
    BY <1>3, <2>1, <2>2, <2>3, <2>4, <2>5, <2>6 DEF TypesHold
<1>6. CallMatch
  BY <1>4 DEF CallMatch, NoCall
<1>7. ReceiptMatch
  BY <1>1, <1>2, <1>4 DEF ReceiptMatch
<1>8. HeapMatch
  BY <1>4 DEF HeapMatch, Init, NoCall, HasPayload, Owners
<1> QED
  BY <1>5, <1>6, <1>7, <1>8 DEF ClientHolds

-----------------------------------------------------------------------------
\* What moves: the units an action takes off a ring or puts on one.

Sends(n) ==
  /\ n \in 0 .. Len(Request) - call.sent
  /\ IsRing(ReqUnits, req')
  /\ InRing(req') = InRing(req) \o SubSeq(Request, call.sent + 1, call.sent + n)
  /\ call' = [call EXCEPT !.sent = @ + n,
                          !.state = IF n = Len(Request) - call.sent THEN "PENDING" ELSE @]
  /\ n = 0 => ~written'

Receives(us) ==
  /\ us \in Seq(RspUnits)
  /\ IsRing(RspUnits, rsp')
  /\ InRing(rsp) = us \o InRing(rsp')

Reads(us) ==
  /\ us \in Seq(ReqUnits) /\ us # << >>
  /\ IsRing(ReqUnits, req')
  /\ InRing(req) = us \o InRing(req')
  /\ (daemon.inbuf \o us)[1].m \in ReqMessages
  /\ Len(daemon.inbuf \o us) <= (daemon.inbuf \o us)[1].m.len + 1

Keeps(got) ==
  /\ Len(got) <= got[1].m.len
  /\ daemon' = [daemon EXCEPT !.inbuf = got]

Answers(got, a) ==
  /\ Len(got) = got[1].m.len + 1
  /\ a \in RspMessages /\ a.id = got[1].m.id /\ a.type \in {got[1].m.type} \cup Errors
  /\ daemon' = [daemon EXCEPT !.inbuf = << >>, !.out = @ \o Units(a)]

Writes(n) ==
  /\ n \in 1 .. Len(daemon.out)
  /\ IsRing(RspUnits, rsp')
  /\ InRing(rsp') = InRing(rsp) \o SubSeq(daemon.out, 1, n)
  /\ daemon' = [daemon EXCEPT !.out = SubSeq(@, n + 1, Len(@))]

\* Part of a sequence, element by element.
LEMMA PartOf ==
  ASSUME NEW S, NEW s \in Seq(S), NEW i \in 0 .. Len(s), NEW j \in i .. Len(s)
  PROVE  /\ SubSeq(s, i + 1, j) \in Seq(S) /\ Len(SubSeq(s, i + 1, j)) = j - i
         /\ \A k \in 1 .. j - i : SubSeq(s, i + 1, j)[k] = s[i + k]
<1>1. PICK m \in Nat : m = i + 1
  OBVIOUS
<1>2. j \in Nat /\ Len(s) \in Nat
  OBVIOUS
<1>3. \A k \in m .. j : s[k] \in S
  BY <1>1, <1>2, ElementOfSeq
<1>4. /\ SubSeq(s, m, j) \in Seq(S) /\ Len(SubSeq(s, m, j)) = IF m <= j THEN j - m + 1 ELSE 0
      /\ \A k \in 1 .. j - m + 1 : SubSeq(s, m, j)[k] = s[m + k - 1]
  BY <1>2, <1>3, SubSeqProperties
<1>5. j - m + 1 = j - i
  BY <1>1, <1>2
<1>6. ASSUME NEW k \in 1 .. j - i PROVE SubSeq(s, m, j)[k] = s[i + k]
  <2>1. m + k - 1 = i + k
    BY <1>1
  <2> QED
    BY <1>4, <1>5, <2>1
<1>7. Len(SubSeq(s, m, j)) = j - i
  BY <1>1, <1>2, <1>4
<1> QED
  BY <1>1, <1>4, <1>6, <1>7

\* The request in progress, as units.
LEMMA RequestIs ==
  ASSUME TypesHold, CallMatch, call.state # "INVALID"
  PROVE  /\ call.m \in ReqMessages /\ call.m.len \in Nat
         /\ Request \in Seq(ReqUnits) /\ Len(Request) = call.m.len + 1
         /\ \A k \in 1 .. Len(Request) : Request[k] = Unit(call.m, k)
<1>1. call.kind \in Kinds /\ call.m = Message(sequence, IF call.kind = "printf" THEN "write" ELSE call.kind, RequestLen(call.kind))
  BY DEF CallMatch
<1>2. (IF call.kind = "printf" THEN "write" ELSE call.kind) \in Kinds
  BY <1>1 DEF Kinds
<1>3. RequestLen(call.kind) \in Nat
  BY <1>1 DEF RequestLen, Kinds
<1>4. PICK m \in ReqMessages : m = call.m /\ m.len \in Nat
  BY <1>1, <1>2, <1>3 DEF Message, ReqMessages, TypesHold
<1>5. /\ Units(m) \in Seq(UnitsOf(ReqMessages)) /\ Len(Units(m)) = m.len + 1
      /\ \A k \in 1 .. m.len + 1 : Units(m)[k] = Unit(m, k)
  BY <1>4, UnitsAre
<1> QED
  BY <1>4, <1>5 DEF Request, ReqUnits

\* A call that is being sent puts what fits of the rest of its request on the ring.
LEMMA SendMoves ==
  ASSUME TypesHold, CallMatch, Send, call.state = "SUBMITTED"
  PROVE  \E n \in Nat : Sends(n)
<1>1. /\ Request \in Seq(ReqUnits) /\ Len(Request) = call.m.len + 1 /\ call.m.len \in Nat
  BY RequestIs
<1> DEFINE rest == SubSeq(Request, call.sent + 1, Len(Request))
           c == CopyToRing(req, rest)
<1>2. PICK s \in Nat : s = call.sent /\ s <= Len(Request)
  BY <1>1 DEF TypesHold
<1>3. \A k \in s + 1 .. Len(Request) : Request[k] \in ReqUnits
  BY <1>1, <1>2, ElementOfSeq
<1>4. /\ rest \in Seq(ReqUnits) /\ Len(rest) = Len(Request) - s
      /\ \A k \in 1 .. Len(Request) - s : rest[k] = Request[s + k]
  <2>1. s \in 0 .. Len(Request) /\ Len(Request) \in s .. Len(Request)
    BY <1>1, <1>2
  <2>2. PICK e \in s .. Len(Request) : e = Len(Request)
    BY <2>1
  <2>3. /\ SubSeq(Request, s + 1, e) \in Seq(ReqUnits) /\ Len(SubSeq(Request, s + 1, e)) = e - s
        /\ \A k \in 1 .. e - s : SubSeq(Request, s + 1, e)[k] = Request[s + k]
    BY <1>1, <2>1, PartOf
  <2> QED
    BY <1>2, <2>2, <2>3
<1>5. req' = c.ring /\ written' = (c.copied # 0)
  BY DEF Send
<1>6. call' = [call EXCEPT !.sent = @ + c.copied, !.state = IF c.copied = Len(rest) THEN "PENDING" ELSE @]
  BY DEF Send
<1> HIDE DEF rest
<1>7. CopiedTo(ReqUnits, req, rest, c)
  BY <1>4, UnitsPut DEF TypesHold
<1> HIDE DEF c
<1>8. PICK n \in Nat : n = c.copied /\ n <= Len(rest)
  <2>1. c.copied = Least(Len(rest), RingSize - Used(req))
    BY <1>7 DEF CopiedTo
  <2>2. Used(req) \in 0 .. RingSize
    BY OnRing DEF TypesHold
  <2>3. Len(rest) \in Nat
    BY <1>4, LenProperties
  <2> QED
    BY <2>1, <2>2, <2>3, IndexValues DEF Least
<1>9. SubSeq(rest, 1, n) = SubSeq(Request, s + 1, s + n)
  <2>1. PICK t : t = SubSeq(rest, 1, n)
    OBVIOUS
  <2>2. PICK v : v = SubSeq(Request, s + 1, s + n)
    OBVIOUS
  <2>3. Len(Request) \in Nat /\ n <= Len(Request) - s
    BY <1>1, <1>4, <1>8
  <2>4. t \in Seq(ReqUnits) /\ Len(t) = n /\ \A k \in 1 .. n : t[k] = rest[k]
    <3>1. PICK z \in 0 .. Len(rest) : z = 0 /\ n \in z .. Len(rest) /\ n - z = n /\ z + 1 = 1
      BY <1>8
    <3>2. /\ SubSeq(rest, z + 1, n) \in Seq(ReqUnits) /\ Len(SubSeq(rest, z + 1, n)) = n - z
          /\ \A k \in 1 .. n - z : SubSeq(rest, z + 1, n)[k] = rest[z + k]
      BY <1>4, <3>1, PartOf
    <3> QED
      BY <2>1, <3>1, <3>2
  <2>5. v \in Seq(ReqUnits) /\ Len(v) = n /\ \A k \in 1 .. n : v[k] = Request[s + k]
    <3>1. PICK j \in s .. Len(Request) : j = s + n /\ j - s = n
      BY <1>2, <2>3
    <3>2. s \in 0 .. Len(Request)
      BY <1>2, <2>3
    <3>3. /\ SubSeq(Request, s + 1, j) \in Seq(ReqUnits) /\ Len(SubSeq(Request, s + 1, j)) = j - s
          /\ \A k \in 1 .. j - s : SubSeq(Request, s + 1, j)[k] = Request[s + k]
      BY <1>1, <3>1, <3>2, PartOf
    <3> QED
      BY <2>2, <3>1, <3>3
  <2>6. \A k \in 1 .. n : rest[k] = Request[s + k]
    BY <1>2, <1>4, <1>8, <2>3
  <2>7. \A k \in 1 .. n : t[k] = v[k]
    BY <2>4, <2>5, <2>6
  <2>8. t = v
    BY <2>4, <2>5, <2>7, SeqEqual
  <2> QED
    BY <1>2, <2>1, <2>2, <2>8
<1>10. Sends(n)
  <2>1. IsRing(ReqUnits, req') /\ InRing(req') = InRing(req) \o SubSeq(Request, call.sent + 1, call.sent + n)
    BY <1>2, <1>5, <1>7, <1>8, <1>9 DEF CopiedTo
  <2>2. n \in 0 .. Len(Request) - call.sent
    BY <1>1, <1>2, <1>4, <1>8
  <2>3. call' = [call EXCEPT !.sent = @ + n, !.state = IF n = Len(Request) - call.sent THEN "PENDING" ELSE @]
    BY <1>2, <1>4, <1>6, <1>8
  <2> QED
    BY <1>5, <1>8, <2>1, <2>2, <2>3 DEF Sends
<1> QED
  BY <1>10

\* A header comes off the response ring, ...
LEMMA HeaderMoves ==
  ASSUME TypesHold, HeaderComes
  PROVE  /\ Receives(incoming') /\ Len(incoming') <= 1
         /\ read' = (incoming' # << >>)
<1> DEFINE c == CopyFromRing(rsp, 1)
<1>1. CopiedFrom(RspUnits, rsp, 1, c)
  BY UnitsTaken DEF TypesHold
<1>2. rsp' = c.ring /\ incoming' = c.units /\ read' = (c.units # << >>)
  BY DEF HeaderComes
<1>3. Used(rsp) \in Nat
  BY OnRing DEF TypesHold
<1> QED
  BY <1>1, <1>2, <1>3 DEF Receives, CopiedFrom, Least

\* ... and a payload, as far as it has come.
LEMMA PayloadMoves ==
  ASSUME TypesHold, ReceiptMatch, ReceivePayload
  PROVE  \E us : /\ Receives(us) /\ incoming' = incoming \o us
                 /\ Len(incoming) + Len(us) <= incoming[1].m.len + 1
<1> DEFINE max == incoming[1].m.len + 1 - Len(incoming)
           c == CopyFromRing(rsp, max)
<1>1. incoming # << >> /\ Len(incoming) <= incoming[1].m.len /\ incoming \in Seq(RspUnits)
  <2>1. pc = "payload"
    BY DEF ReceivePayload
  <2>2. incoming # << >> /\ incoming \in Seq(RspUnits)
    BY <2>1 DEF ReceiptMatch, TypesHold
  <2>3. Len(incoming) <= incoming[1].m.len
    BY <2>1, <2>2 DEF ReceiptMatch
  <2>4. Len(incoming) \in Nat \ {0} /\ incoming[1] \in RspUnits
    BY <2>2, EmptySeq, ElementOfSeq
  <2>5. incoming[1].m.len \in Nat
    BY <2>4 DEF RspUnits, UnitsOf, RspMessages
  <2> QED
    BY <2>2, <2>3, <2>5
<1>2. Len(incoming) \in Nat \ {0} /\ incoming[1] \in RspUnits
  BY <1>1, EmptySeq, ElementOfSeq
<1>3. incoming[1].m.len \in Nat
  BY <1>2 DEF RspUnits, UnitsOf, RspMessages
<1>4. max \in Nat
  BY <1>1, <1>2, <1>3
<1>5. rsp' = c.ring /\ incoming' = incoming \o c.units
  BY DEF ReceivePayload
<1>6. PICK mx \in Nat : mx = max
  BY <1>4
<1> HIDE DEF max
<1>7. CopiedFrom(RspUnits, rsp, max, c)
  BY <1>6, UnitsTaken DEF TypesHold
<1> HIDE DEF c
<1>8. Used(rsp) \in Nat
  BY OnRing DEF TypesHold
<1>9. Len(c.units) <= max
  BY <1>4, <1>7, <1>8 DEF CopiedFrom, Least
<1>10. Len(c.units) \in Nat
  BY <1>7, LenProperties DEF CopiedFrom
<1>11. Receives(c.units)
  BY <1>5, <1>7 DEF Receives, CopiedFrom
<1>12. Len(incoming) + Len(c.units) <= incoming[1].m.len + 1
  BY <1>2, <1>3, <1>9, <1>10 DEF max
<1> QED
  BY <1>5, <1>11, <1>12

\* xenstored reads on, and answers the request once it has the whole of it.
LEMMA ReadMoves ==
  ASSUME TypesHold, ReceiptMatch, DaemonReads
  PROVE  \E us : Reads(us) /\ (Keeps(daemon.inbuf \o us) \/ \E a : Answers(daemon.inbuf \o us, a))
<1> DEFINE inbuf == daemon.inbuf
           max == IF inbuf = << >> THEN 1 ELSE inbuf[1].m.len + 1 - Len(inbuf)
           c == CopyFromRing(req, max)
           got == inbuf \o c.units
<1>1. inbuf \in Seq(ReqUnits) /\ IsRing(ReqUnits, req)
  BY DEF TypesHold
<1>2. Len(inbuf) \in Nat /\ (inbuf = << >> <=> Len(inbuf) = 0)
  BY <1>1, EmptySeq, LenProperties
<1>3. ASSUME inbuf # << >>
      PROVE  inbuf[1] \in ReqUnits /\ inbuf[1].m.len \in Nat /\ Len(inbuf) <= inbuf[1].m.len
  <2>1. inbuf[1] \in ReqUnits
    BY <1>1, <1>2, <1>3, ElementOfSeq
  <2> QED
    BY <1>3, <2>1 DEF ReqUnits, UnitsOf, ReqMessages, ReceiptMatch
<1>4. max \in Nat \ {0}
  BY <1>2, <1>3
<1>5. req' = c.ring /\ Used(req) > 0
  BY DEF DaemonReads
<1>6. \/ Len(got) < got[1].m.len + 1 /\ daemon' = [daemon EXCEPT !.inbuf = got]
      \/ /\ ~(Len(got) < got[1].m.len + 1)
         /\ \E a \in {Message(got[1].m.id, got[1].m.type, l) : l \in AnswerLens(got[1].m.type)}
                       \cup {Message(got[1].m.id, e, 1) : e \in ErrorsTo(got[1].m.type)} :
              daemon' = [daemon EXCEPT !.inbuf = << >>, !.out = @ \o Units(a)]
  BY DEF DaemonReads
<1>7. CopiedFrom(ReqUnits, req, max, c)
  BY <1>1, <1>4, UnitsTaken
<1>8. Used(req) \in Nat
  BY <1>1, OnRing
<1> HIDE DEF max, c
<1>9. c.units \in Seq(ReqUnits) /\ Len(c.units) \in 1 .. max /\ IsRing(ReqUnits, req') /\ InRing(req) = c.units \o InRing(req')
  BY <1>4, <1>5, <1>7, <1>8 DEF CopiedFrom, Least
<1>10. c.units # << >> /\ c.units[1] \in ReqUnits
  BY <1>9, EmptySeq, ElementOfSeq
<1>11. /\ got \in Seq(ReqUnits) /\ Len(got) = Len(inbuf) + Len(c.units)
       /\ \A i \in 1 .. Len(inbuf) + Len(c.units) : got[i] = IF i <= Len(inbuf) THEN inbuf[i] ELSE c.units[i - Len(inbuf)]
  BY <1>1, <1>9, ConcatProperties
<1>12. got[1] = IF inbuf = << >> THEN c.units[1] ELSE inbuf[1]
  <2>1. Len(c.units) \in Nat \ {0}
    BY <1>4, <1>9
  <2>2. got[1] = IF 1 <= Len(inbuf) THEN inbuf[1] ELSE c.units[1 - Len(inbuf)]
    <3>1. PICK a \in Nat : a = Len(inbuf)
      BY <1>2
    <3>2. PICK b \in Nat \ {0} : b = Len(c.units)
      BY <2>1
    <3>3. 1 \in 1 .. a + b
      OBVIOUS
    <3> QED
      BY <1>11, <3>1, <3>2, <3>3
  <2>3. CASE inbuf = << >>
    BY <1>2, <2>2, <2>3
  <2>4. CASE inbuf # << >>
    BY <1>2, <2>2, <2>4
  <2> QED
    BY <2>3, <2>4
<1> HIDE DEF inbuf, got
<1>13. got[1] \in ReqUnits /\ got[1].m \in ReqMessages /\ got[1].m.len \in Nat
  BY <1>3, <1>10, <1>12 DEF ReqUnits, UnitsOf, ReqMessages
<1>14. Len(got) \in Nat /\ Len(got) <= got[1].m.len + 1
  <2>1. CASE inbuf = << >>
    BY <1>2, <1>4, <1>9, <1>11, <1>12, <1>13, <2>1 DEF max
  <2>2. CASE inbuf # << >>
    <3>1. got[1] = inbuf[1]
      BY <1>12, <2>2
    <3>2. PICK a \in Nat : a = Len(inbuf)
      BY <1>2
    <3>3. PICK len \in Nat : len = inbuf[1].m.len
      BY <1>3, <2>2
    <3>4. max = len + 1 - a
      BY <2>2, <3>2, <3>3 DEF max
    <3>5. PICK b \in Nat : b = Len(c.units) /\ b <= max
      BY <1>4, <1>9
    <3>6. Len(got) = a + b
      BY <1>11, <3>2, <3>5
    <3> QED
      BY <3>1, <3>3, <3>4, <3>5, <3>6
  <2> QED
    BY <2>1, <2>2
<1>15. Reads(c.units)
  BY <1>9, <1>10, <1>13, <1>14 DEF Reads, got, inbuf
<1>16. CASE Len(got) < got[1].m.len + 1 /\ daemon' = [daemon EXCEPT !.inbuf = got]
  <2>1. Keeps(got)
    BY <1>13, <1>14, <1>16 DEF Keeps
  <2> QED
    BY <1>15, <2>1 DEF got, inbuf
<1>17. ASSUME ~(Len(got) < got[1].m.len + 1),
              NEW a \in {Message(got[1].m.id, got[1].m.type, l) : l \in AnswerLens(got[1].m.type)}
                          \cup {Message(got[1].m.id, e, 1) : e \in ErrorsTo(got[1].m.type)},
              daemon' = [daemon EXCEPT !.inbuf = << >>, !.out = @ \o Units(a)]
       PROVE  Answers(got, a)
  <2>1. AnswerLens(got[1].m.type) \subseteq Nat /\ ErrorsTo(got[1].m.type) \subseteq Errors
    BY DEF AnswerLens, ErrorsTo, Errors
  <2>2. got[1].m.id \in Nat /\ got[1].m.type \in Kinds
    BY <1>13 DEF ReqMessages
  <2>3. \E l \in Nat, t \in {got[1].m.type} \cup Errors : a = Message(got[1].m.id, t, l)
    BY <1>17, <2>1
  <2>4. PICK l \in Nat, t \in {got[1].m.type} \cup Errors : a = Message(got[1].m.id, t, l)
    BY <2>3
  <2>5. a = [id |-> got[1].m.id, type |-> t, len |-> l]
    BY <2>4 DEF Message
  <2>6. t \in Kinds \cup Errors \cup {"watch"} /\ t # "watch"
    BY <2>2, <2>4 DEF Kinds, Errors
  <2>7. a \in RspMessages
    BY <2>2, <2>5, <2>6 DEF RspMessages
  <2>8. Len(got) = got[1].m.len + 1
    BY <1>13, <1>14, <1>17
  <2> QED
    BY <1>17, <2>4, <2>5, <2>7, <2>8 DEF Answers
<1> QED
  BY <1>6, <1>15, <1>16, <1>17 DEF got, inbuf

\* xenstored puts what it wants of its answers on the ring.
LEMMA WriteMoves ==
  ASSUME TypesHold, DaemonWrites
  PROVE  \E n \in Nat : Writes(n)
<1>1. /\ daemon.out \in Seq(RspUnits) /\ Len(daemon.out) \in Nat
      /\ IsRing(RspUnits, rsp) /\ rsp \in Rings(RspUnits) /\ Used(rsp) <= RingSize
  BY LenProperties DEF TypesHold, IsRing
<1>2. Available(rsp) = RingSize - Used(rsp) /\ Used(rsp) \in 0 .. RingSize
  BY <1>1, RingValues
<1>3. PICK n \in 1 .. Least(Len(daemon.out), Available(rsp)) :
        LET c == CopyToRing(rsp, SubSeq(daemon.out, 1, n))
        IN  /\ rsp' = c.ring
            /\ daemon' = [daemon EXCEPT !.out = SubSeq(@, n + 1, Len(@))]
  BY DEF DaemonWrites
<1>4. n \in 1 .. Len(daemon.out) /\ n <= RingSize - Used(rsp) /\ n \in Nat
  BY <1>1, <1>2, IndexValues DEF Least
<1> DEFINE us == SubSeq(daemon.out, 1, n)
           c == CopyToRing(rsp, us)
<1>5. rsp' = c.ring /\ daemon' = [daemon EXCEPT !.out = SubSeq(@, n + 1, Len(@))]
  BY <1>3
<1> HIDE DEF us
<1>6. us \in Seq(RspUnits) /\ Len(us) = n
  <2>1. PICK z \in 0 .. Len(daemon.out) : z = 0 /\ n \in z .. Len(daemon.out) /\ n - z = n /\ z + 1 = 1
    BY <1>1, <1>4
  <2>2. SubSeq(daemon.out, z + 1, n) \in Seq(RspUnits) /\ Len(SubSeq(daemon.out, z + 1, n)) = n - z
    BY <1>1, <2>1, PartOf
  <2> QED
    BY <2>1, <2>2 DEF us
<1>7. CopiedTo(RspUnits, rsp, us, c)
  BY <1>1, <1>6, UnitsPut
<1> HIDE DEF c
<1>8. c.copied = n
  BY <1>2, <1>4, <1>6, <1>7, IndexValues DEF CopiedTo, Least
<1>9. SubSeq(us, 1, n) = us
  BY <1>6, SubSeqFull
<1>10. Writes(n)
  BY <1>4, <1>5, <1>7, <1>8, <1>9 DEF Writes, CopiedTo, us
<1> QED
  BY <1>4, <1>10

-----------------------------------------------------------------------------
\* What the client holds, step by step.

\* Whether there is a payload is a number.
LEMMA PayloadIs ==
  ASSUME NEW us \in Seq(RspUnits)
  PROVE  /\ HasPayload(us) \in {0, 1} /\ HasPayload(<< >>) = 0
         /\ us # << >> => us[1] \in RspUnits /\ us[1].m \in RspMessages /\ us[1].m.len \in Nat
         /\ us # << >> => HasPayload(us) = IF us[1].m.len > 0 THEN 1 ELSE 0
<1>1. us # << >> => us[1] \in RspUnits
  BY EmptySeq, ElementOfSeq
<1> QED
  BY <1>1 DEF HasPayload, RspUnits, UnitsOf, RspMessages

\* A call is prepared, ...
LEMMA CallKeeps ==
  ASSUME TypesHold, CallMatch, ReceiptMatch, HeapMatch, NEW kind \in Kinds, Call(kind)
  PROVE  TypesHold' /\ CallMatch' /\ ReceiptMatch' /\ HeapMatch'
<1> DEFINE m == Message(sequence + 1, IF kind = "printf" THEN "write" ELSE kind, RequestLen(kind))
<1>1. pc = "idle" /\ pc' = "send" /\ call = NoCall
  BY DEF Call, Prepare, Goto, CallMatch
<1>2. sequence' = sequence + 1 /\ calls' = calls + 1
  BY DEF Call, Prepare
<1>3. UNCHANGED <<req, rsp, incoming, written, read, noMemory, leaked, bug, daemon>>
  BY DEF Call
<1>4. call' = [kind |-> kind, state |-> "SUBMITTED", m |-> m, sent |-> 0, response |-> << >>]
  BY <1>1 DEF Call, Prepare, NoCall
<1>5. m \in [id : Nat, type : Kinds \cup {"none"}, len : Nat] /\ m.len \in Nat
  <2>1. sequence + 1 \in Nat
    BY DEF TypesHold
  <2>2. (IF kind = "printf" THEN "write" ELSE kind) \in Kinds
    BY DEF Kinds
  <2>3. RequestLen(kind) \in Nat
    BY DEF RequestLen
  <2> QED
    BY <2>1, <2>2, <2>3 DEF Message
<1>6. /\ owned' \in [Owners -> Nat] /\ owned'["payload"] = owned["payload"]
      /\ kind = "printf" => owned'["buffer"] > 0
      /\ kind \in {"start", "end"} => owned'["tx"] > 0
  <2>1. owned \in [Owners -> Nat]
    BY DEF TypesHold
  <2>2. CASE kind = "printf"
    <3>1. FirstBlock(kind) = {"buffer"}
      BY <2>2 DEF FirstBlock
    <3>2. owned' = Take("buffer")
      BY <3>1 DEF Call
    <3> QED
      BY <2>1, <2>2, <3>2 DEF Take, Owners
  <2>3. CASE kind = "start"
    <3>1. FirstBlock(kind) = {"tx"}
      BY <2>3 DEF FirstBlock
    <3>2. owned' = Take("tx")
      BY <3>1 DEF Call
    <3> QED
      BY <2>1, <2>3, <3>2 DEF Take, Owners
  <2>4. CASE kind # "printf" /\ kind # "start"
    <3>1. FirstBlock(kind) = {}
      BY <2>4 DEF FirstBlock
    <3>2. owned' = owned /\ (kind = "end" => owned["tx"] > 0)
      BY <3>1 DEF Call
    <3> QED
      BY <2>1, <2>4, <3>2
  <2> QED
    BY <2>2, <2>3, <2>4
<1> HIDE DEF m
<1>7. << >> \in Seq(RspUnits)
  BY EmptySeq
<1>8. /\ call' \in [kind : Kinds \cup {"none"}, state : {"INVALID", "SUBMITTED", "PENDING", "COMPLETED"},
                   m : [id : Nat, type : Kinds \cup {"none"}, len : Nat], sent : Nat, response : Seq(RspUnits)]
      /\ call'.sent <= call'.m.len + 1
  BY <1>4, <1>5, <1>7
<1>9. TypesHold'
  BY <1>1, <1>2, <1>3, <1>6, <1>8 DEF TypesHold, Places
<1>10. CallMatch'
  BY <1>1, <1>2, <1>4 DEF CallMatch, m
<1>11. ReceiptMatch'
  BY <1>1, <1>3 DEF ReceiptMatch
<1>12. HeapMatch'
  BY <1>1, <1>3, <1>4, <1>6 DEF HeapMatch, NoCall, HasPayload
<1> QED
  BY <1>9, <1>10, <1>11, <1>12

\* ... or fails; a value is freed.
LEMMA IdleKeeps ==
  ASSUME TypesHold, CallMatch, ReceiptMatch, HeapMatch, FreeValue \/ \E kind \in Kinds : CallFails(kind)
  PROVE  TypesHold' /\ CallMatch' /\ ReceiptMatch' /\ HeapMatch'
<1>1. UNCHANGED <<req, rsp, pc, call, incoming, written, read, sequence, leaked, bug, daemon>>
  BY DEF FreeValue, CallFails
<1>2. calls' \in Nat /\ noMemory' \in Nat
  <2>1. calls \in Nat /\ noMemory \in Nat
    BY DEF TypesHold
  <2>2. CASE FreeValue
    BY <2>1, <2>2 DEF FreeValue
  <2>3. CASE \E kind \in Kinds : CallFails(kind)
    BY <2>1, <2>3 DEF CallFails
  <2> QED
    BY <2>2, <2>3
<1>3. /\ owned' \in [Owners -> Nat]
      /\ \A o \in {"payload", "buffer", "tx"} : owned'[o] = owned[o]
  <2>1. owned \in [Owners -> Nat]
    BY DEF TypesHold
  <2>2. CASE FreeValue
    BY <2>1, <2>2 DEF FreeValue, Give, Owners
  <2>3. CASE \E kind \in Kinds : CallFails(kind)
    BY <2>1, <2>3 DEF CallFails
  <2> QED
    BY <2>2, <2>3
<1>4. TypesHold'
  BY <1>1, <1>2, <1>3 DEF TypesHold
<1>5. CallMatch'
  BY <1>1 DEF CallMatch
<1>6. ReceiptMatch'
  BY <1>1 DEF ReceiptMatch
<1>7. HeapMatch'
  BY <1>1, <1>3 DEF HeapMatch
<1> QED
  BY <1>4, <1>5, <1>6, <1>7

\* The request goes out.
LEMMA SendKeeps ==
  ASSUME TypesHold, CallMatch, ReceiptMatch, HeapMatch, Send
  PROVE  TypesHold' /\ CallMatch' /\ ReceiptMatch' /\ HeapMatch'
<1>1. pc = "send" /\ pc' = "sent" /\ written' \in BOOLEAN
  BY DEF Send, Goto
<1>2. UNCHANGED <<rsp, incoming, read, sequence, calls, noMemory, owned, leaked, bug, daemon>>
  BY DEF Send
<1>3. /\ IsRing(ReqUnits, req')
      /\ call' \in [kind : Kinds \cup {"none"}, state : {"INVALID", "SUBMITTED", "PENDING", "COMPLETED"},
                   m : [id : Nat, type : Kinds \cup {"none"}, len : Nat], sent : Nat, response : Seq(RspUnits)]
      /\ call'.sent <= call'.m.len + 1
      /\ call'.kind = call.kind /\ call'.m = call.m /\ call'.response = call.response
      /\ call'.state # call.state => call.state = "SUBMITTED" /\ call'.state = "PENDING"
      /\ call.state # "SUBMITTED" => call' = call
  <2>1. CASE call.state = "SUBMITTED"
    <3>1. PICK n \in Nat : Sends(n)
      BY <2>1, SendMoves
    <3>2. n \in 0 .. Len(Request) - call.sent /\ IsRing(ReqUnits, req')
      BY <3>1 DEF Sends
    <3>3. call' = [call EXCEPT !.sent = @ + n, !.state = IF n = Len(Request) - call.sent THEN "PENDING" ELSE @]
      BY <3>1 DEF Sends
    <3>4. PICK st \in {"SUBMITTED", "PENDING"} : st = IF n = Len(Request) - call.sent THEN "PENDING" ELSE call.state
      BY <2>1
    <3>5. call' = [call EXCEPT !.sent = @ + n, !.state = st]
      BY <3>3, <3>4 DEF TypesHold
    <3>6. call.sent + n \in Nat /\ call.sent + n <= call.m.len + 1
      <4>1. Len(Request) = call.m.len + 1 /\ call.m.len \in Nat
        BY <2>1, RequestIs
      <4>2. PICK x \in Nat : x = call.sent
        BY DEF TypesHold
      <4> QED
        BY <3>2, <4>1, <4>2
    <3> QED
      BY <2>1, <3>2, <3>5, <3>6 DEF TypesHold
  <2>2. CASE call.state # "SUBMITTED"
    <3>1. UNCHANGED <<req, call>>
      BY <2>2 DEF Send
    <3> QED
      BY <2>2, <3>1 DEF TypesHold
  <2> QED
    BY <2>1, <2>2
<1>4. TypesHold'
  BY <1>1, <1>2, <1>3 DEF TypesHold, Places
<1>5. CallMatch'
  BY <1>1, <1>2, <1>3 DEF CallMatch
<1>6. ReceiptMatch'
  BY <1>1, <1>2 DEF ReceiptMatch
<1>7. HeapMatch'
  BY <1>2, <1>3 DEF HeapMatch
<1> QED
  BY <1>4, <1>5, <1>6, <1>7

\* The events, before and after the responses are taken.
LEMMA EventKeeps ==
  ASSUME TypesHold, CallMatch, ReceiptMatch, HeapMatch, Sent \/ Received
  PROVE  TypesHold' /\ CallMatch' /\ ReceiptMatch' /\ HeapMatch'
<1>1. UNCHANGED <<req, rsp, call, incoming, written, sequence, calls, noMemory, owned, leaked, bug>>
  BY DEF Sent, Received
<1>2. read' \in BOOLEAN
  BY DEF Sent, Received, TypesHold
<1>3. /\ daemon' \in [awake : BOOLEAN, inbuf : Seq(ReqUnits), out : Seq(RspUnits), watches : Nat]
      /\ daemon'.inbuf = daemon.inbuf
  BY DEF Sent, Received, EventChannelSend, TypesHold
<1>4. /\ pc \in {"sent", "received"} /\ pc' \in Places \ {"idle", "process"}
      /\ pc' = "check" => call.state = "COMPLETED"
      /\ pc' = "header" => incoming = << >>
      /\ pc' = "payload" => incoming # << >>
  <2>1. Len(incoming) \in Nat /\ (incoming = << >> <=> Len(incoming) = 0)
    BY EmptySeq, LenProperties DEF TypesHold
  <2>2. CASE Sent
    BY <2>1, <2>2 DEF Sent, Goto, Places
  <2>3. CASE Received
    BY <2>3 DEF Received, Goto, Places
  <2> QED
    BY <2>2, <2>3
<1>5. TypesHold'
  BY <1>1, <1>2, <1>3, <1>4 DEF TypesHold, Places
<1>6. CallMatch'
  BY <1>1, <1>4 DEF CallMatch, Places
<1>7. ReceiptMatch'
  BY <1>1, <1>3, <1>4 DEF ReceiptMatch
<1>8. HeapMatch'
  BY <1>1 DEF HeapMatch
<1> QED
  BY <1>5, <1>6, <1>7, <1>8

\* A header comes in, and its payload is allocated, ...
LEMMA HeaderKeeps ==
  ASSUME TypesHold, CallMatch, ReceiptMatch, HeapMatch, ReceiveHeader
  PROVE  TypesHold' /\ (Running' => CallMatch' /\ ReceiptMatch' /\ HeapMatch')
<1> DEFINE us == incoming'
<1>1. pc = "header" /\ incoming = << >>
  BY DEF ReceiveHeader, ReceiptMatch
<1>2. UNCHANGED <<req, call, written, sequence, calls, noMemory, leaked, daemon>>
  BY DEF ReceiveHeader
<1>3. /\ us \in Seq(RspUnits) /\ IsRing(RspUnits, rsp') /\ Len(us) <= 1
      /\ read' = (us # << >>)
      /\ bug' = IF us # << >> /\ ~ValidHeader(us[1]) THEN "VerifyHeader" ELSE bug
      /\ owned' = IF us # << >> /\ us[1].m.len > 0 THEN Take("payload") ELSE owned
      /\ pc' = CASE us = << >> -> "received" [] Whole(us) -> "process" [] OTHER -> "payload"
  BY HeaderMoves DEF Receives, ReceiveHeader, Goto
<1> HIDE DEF us
<1>4. us # << >> => us[1].m.len \in Nat /\ Len(us) = 1
  <2>1. us # << >> => us[1].m.len \in Nat
    BY <1>3, PayloadIs
  <2>2. us # << >> => Len(us) \in Nat \ {0}
    BY <1>3, EmptySeq
  <2>3. Len(us) <= 1
    BY <1>3
  <2>4. us # << >> => Len(us) = 1
    <3> SUFFICES ASSUME us # << >> PROVE Len(us) = 1
      OBVIOUS
    <3>1. PICK n \in Nat \ {0} : n = Len(us)
      BY <2>2
    <3> QED
      BY <2>3, <3>1
  <2> QED
    BY <2>1, <2>4
<1>5. owned' = (IF HasPayload(us) = 1 THEN Take("payload") ELSE owned) /\ HasPayload(us) \in {0, 1}
  BY <1>3, PayloadIs DEF HasPayload
<1>6. /\ owned' \in [Owners -> Nat] /\ owned'["payload"] = owned["payload"] + HasPayload(us)
      /\ owned'["buffer"] = owned["buffer"] /\ owned'["tx"] = owned["tx"]
  <2>1. owned \in [Owners -> Nat]
    BY DEF TypesHold
  <2>2. CASE HasPayload(us) = 1
    BY <1>5, <2>1, <2>2 DEF Take, Owners
  <2>3. CASE HasPayload(us) = 0
    BY <1>5, <2>1, <2>3 DEF Owners
  <2> QED
    BY <1>5, <2>2, <2>3
<1>7. pc' \in {"received", "process", "payload"}
  <2>1. CASE us = << >>
    BY <1>3, <2>1
  <2>2. CASE us # << >> /\ Whole(us)
    BY <1>3, <2>2
  <2>3. CASE us # << >> /\ ~Whole(us)
    BY <1>3, <2>3
  <2> QED
    BY <2>1, <2>2, <2>3
<1>8. TypesHold'
  <2>1. read' \in BOOLEAN
    BY <1>3
  <2> QED
    BY <1>2, <1>3, <1>6, <1>7, <2>1 DEF TypesHold, Places, us
<1>9. ASSUME Running' PROVE CallMatch' /\ ReceiptMatch' /\ HeapMatch'
  <2>1. us # << >> => us[1].part = 1
    BY <1>3, <1>9 DEF Running, ValidHeader
  <2>2. CallMatch'
    BY <1>1, <1>2, <1>7 DEF CallMatch
  <2>3. /\ pc' \in {"payload", "process"} => us # << >>
        /\ us # << >> => IF pc' = "process" THEN Len(us) = us[1].m.len + 1 ELSE Len(us) <= us[1].m.len
    <3>1. CASE us = << >>
      <4>1. pc' = "received"
        BY <1>3, <3>1 DEF Whole
      <4> QED
        BY <3>1, <4>1
    <3>2. CASE us # << >> /\ Whole(us)
      <4>1. pc' = "process"
        BY <1>3, <3>2
      <4>2. PICK len \in Nat : len = us[1].m.len
        BY <1>4, <3>2
      <4>3. Len(us) = len + 1
        BY <3>2, <4>2 DEF Whole
      <4> QED
        BY <3>2, <4>1, <4>2, <4>3
    <3>3. CASE us # << >> /\ ~Whole(us)
      <4>1. pc' = "payload"
        BY <1>3, <3>3
      <4>2. us[1].m.len # 0
        BY <1>4, <2>1, <3>3 DEF Whole
      <4>3. PICK len \in Nat : len = us[1].m.len
        BY <1>4, <3>3
      <4>4. Len(us) <= len
        <5>1. Len(us) = 1 /\ len # 0
          BY <1>4, <3>3, <4>2, <4>3
        <5> QED
          BY <5>1
      <4> QED
        BY <3>3, <4>1, <4>3, <4>4
    <3> QED
      BY <3>1, <3>2, <3>3
  <2>4. ReceiptMatch'
    BY <1>2, <1>7, <2>3 DEF ReceiptMatch, us
  <2>5. owned["payload"] = 0 + HasPayload(call.response)
    BY <1>1, PayloadIs DEF HeapMatch, HasPayload
  <2>6. HasPayload(call.response) \in {0, 1}
    BY PayloadIs DEF TypesHold
  <2>7. HeapMatch'
    BY <1>2, <1>5, <1>6, <2>5, <2>6 DEF HeapMatch, us
  <2> QED
    BY <2>2, <2>4, <2>7
<1> QED
  BY <1>8, <1>9

\* ... and the payload, as far as it has come.
LEMMA PayloadKeeps ==
  ASSUME TypesHold, CallMatch, ReceiptMatch, HeapMatch, ReceivePayload
  PROVE  TypesHold' /\ CallMatch' /\ ReceiptMatch' /\ HeapMatch'
<1>1. pc = "payload" /\ incoming # << >> /\ incoming \in Seq(RspUnits)
  BY DEF ReceivePayload, ReceiptMatch, TypesHold
<1>2. UNCHANGED <<req, call, written, sequence, calls, noMemory, owned, leaked, bug, daemon>>
  BY DEF ReceivePayload
<1>3. read' \in BOOLEAN /\ pc' = IF Len(incoming') = incoming[1].m.len + 1 THEN "process" ELSE "received"
  BY DEF ReceivePayload, Goto
<1>4. PICK us : /\ Receives(us) /\ incoming' = incoming \o us
                /\ Len(incoming) + Len(us) <= incoming[1].m.len + 1
  BY PayloadMoves
<1>5. us \in Seq(RspUnits) /\ IsRing(RspUnits, rsp')
  BY <1>4 DEF Receives
<1>6. incoming' \in Seq(RspUnits) /\ Len(incoming') = Len(incoming) + Len(us)
  BY <1>1, <1>4, <1>5, ConcatProperties
<1>7. Len(incoming) \in Nat \ {0} /\ Len(us) \in Nat
  BY <1>1, <1>5, EmptySeq, LenProperties
<1>8. incoming'[1] = incoming[1]
  <2>1. PICK a \in Nat \ {0} : a = Len(incoming)
    BY <1>7
  <2>2. PICK b \in Nat : b = Len(us)
    BY <1>7
  <2>3. 1 \in 1 .. a + b /\ 1 <= a
    OBVIOUS
  <2>4. (incoming \o us)[1] = IF 1 <= Len(incoming) THEN incoming[1] ELSE us[1 - Len(incoming)]
    BY <1>1, <1>5, <2>1, <2>2, <2>3, ConcatProperties
  <2> QED
    BY <1>4, <2>1, <2>3, <2>4
<1>9. incoming' # << >>
  BY <1>6, <1>7
<1>10. incoming[1].m.len \in Nat
  BY <1>1, PayloadIs
<1>11. IF pc' = "process" THEN Len(incoming') = incoming'[1].m.len + 1 ELSE Len(incoming') <= incoming'[1].m.len
  <2>1. PICK len \in Nat : len = incoming[1].m.len /\ len = incoming'[1].m.len
    BY <1>8, <1>10
  <2>2. PICK n \in Nat : n = Len(incoming') /\ n <= len + 1
    BY <1>4, <1>6, <1>7, <2>1
  <2>3. CASE n = len + 1
    <3>1. pc' = "process"
      BY <1>3, <2>1, <2>2, <2>3
    <3> QED
      BY <2>1, <2>2, <2>3, <3>1
  <2>4. CASE n # len + 1
    <3>1. pc' = "received" /\ n <= len
      BY <1>3, <2>1, <2>2, <2>4
    <3> QED
      BY <2>1, <2>2, <3>1
  <2> QED
    BY <2>3, <2>4
<1>12. TypesHold'
  BY <1>2, <1>3, <1>5, <1>6 DEF TypesHold, Places
<1>13. CallMatch'
  BY <1>1, <1>2, <1>3 DEF CallMatch
<1>14. ReceiptMatch'
  BY <1>2, <1>3, <1>9, <1>11 DEF ReceiptMatch
<1>15. HasPayload(incoming') = HasPayload(incoming)
  BY <1>1, <1>8, <1>9 DEF HasPayload
<1>16. HeapMatch'
  BY <1>2, <1>15 DEF HeapMatch
<1> QED
  BY <1>12, <1>13, <1>14, <1>16

\* A whole response is handed to its call, or forgotten.
LEMMA ProcessKeeps ==
  ASSUME TypesHold, CallMatch, ReceiptMatch, HeapMatch, Process
  PROVE  TypesHold' /\ (Running' => CallMatch' /\ ReceiptMatch' /\ HeapMatch')
<1> DEFINE h == incoming[1].m
<1>1. pc = "process" /\ pc' = "received" /\ incoming # << >> /\ incoming' = << >> /\ incoming \in Seq(RspUnits)
  BY DEF Process, ReceiptMatch, TypesHold, Goto
<1>2. UNCHANGED <<req, rsp, written, read, sequence, calls, noMemory, daemon>>
  BY DEF Process
<1>3. h \in RspMessages /\ HasPayload(incoming) = (IF h.len > 0 THEN 1 ELSE 0)
  BY <1>1, PayloadIs
<1>4. HasPayload(incoming) \in {0, 1} /\ HasPayload(call.response) \in {0, 1} /\ HasPayload(<< >>) = 0
  BY <1>1, PayloadIs DEF TypesHold
<1>5. << >> \in Seq(RspUnits)
  BY EmptySeq
<1>6. CASE h.type = "watch"
  <2>1. owned' = Give("payload") /\ leaked' = [leaked EXCEPT !.watch = @ + 1] /\ UNCHANGED <<call, bug>>
    BY <1>6 DEF Process
  <2>2. HasPayload(incoming) = 1
    BY <1>3, <1>6 DEF RspMessages
  <2>3. owned \in [Owners -> Nat] /\ owned["payload"] > 0 /\ owned["payload"] = 1 + HasPayload(call.response)
    BY <1>4, <2>2 DEF HeapMatch, TypesHold
  <2>4. /\ owned' \in [Owners -> Nat] /\ owned'["payload"] = owned["payload"] - 1
        /\ owned'["buffer"] = owned["buffer"] /\ owned'["tx"] = owned["tx"]
    BY <2>1, <2>3 DEF Give, Owners
  <2>5. leaked' \in [{"watch", "retry"} -> Nat]
    <3>1. leaked \in [{"watch", "retry"} -> Nat] /\ leaked["watch"] + 1 \in Nat
      BY DEF TypesHold
    <3> QED
      BY <2>1, <3>1
  <2>6. TypesHold'
    BY <1>1, <1>2, <1>5, <2>1, <2>4, <2>5 DEF TypesHold, Places
  <2>7. CallMatch' /\ ReceiptMatch'
    BY <1>1, <1>2, <2>1 DEF CallMatch, ReceiptMatch
  <2>8. HeapMatch'
    BY <1>1, <1>4, <2>1, <2>3, <2>4 DEF HeapMatch
  <2> QED
    BY <2>6, <2>7, <2>8
<1>7. CASE h.type # "watch" /\ Awaited(h)
  <2>1. UNCHANGED <<owned, leaked, bug>> /\ call' = [call EXCEPT !.state = "COMPLETED", !.response = incoming]
    BY <1>7 DEF Process
  <2>2. call.state = "PENDING" /\ call.response = << >>
    BY <1>7 DEF Awaited, CallMatch
  <2>3. /\ call' \in [kind : Kinds \cup {"none"}, state : {"INVALID", "SUBMITTED", "PENDING", "COMPLETED"},
                     m : [id : Nat, type : Kinds \cup {"none"}, len : Nat], sent : Nat, response : Seq(RspUnits)]
        /\ call'.sent = call.sent /\ call'.m = call.m /\ call'.kind = call.kind
        /\ call'.state = "COMPLETED" /\ call'.response = incoming
    BY <1>1, <2>1 DEF TypesHold
  <2>4. TypesHold'
    BY <1>1, <1>2, <1>5, <2>1, <2>3 DEF TypesHold, Places
  <2>5. CallMatch'
    BY <1>1, <1>2, <2>2, <2>3 DEF CallMatch
  <2>6. ReceiptMatch'
    BY <1>1, <1>2 DEF ReceiptMatch
  <2>7. HeapMatch'
    BY <1>1, <1>4, <2>1, <2>2, <2>3 DEF HeapMatch
  <2> QED
    BY <2>4, <2>5, <2>6, <2>7
<1>8. CASE h.type # "watch" /\ ~Awaited(h)
  <2>1. UNCHANGED <<owned, leaked, call>> /\ bug' = "FindRequest"
    BY <1>8 DEF Process
  <2>2. TypesHold'
    BY <1>1, <1>2, <1>5, <2>1 DEF TypesHold, Places
  <2> QED
    BY <2>1, <2>2 DEF Running
<1> QED
  BY <1>6, <1>7, <1>8

\* A response is unloaded: what a call returns with it no longer holds.
LEMMA UnloadIs ==
  ASSUME TypesHold, CallMatch, HeapMatch, pc = "check",
         NEW o \in [Owners -> Nat], o["payload"] = owned["payload"]
  PROVE  Unload(o) \in [Owners -> Nat] /\ Unload(o)["payload"] = HasPayload(incoming)
<1>1. call.response # << >> /\ call.response \in Seq(RspUnits) /\ incoming \in Seq(RspUnits)
  BY DEF CallMatch, TypesHold
<1>2. Answer.len \in Nat /\ HasPayload(call.response) = (IF Answer.len > 0 THEN 1 ELSE 0)
  BY <1>1, PayloadIs DEF Answer
<1>3. HasPayload(incoming) \in {0, 1}
  BY <1>1, PayloadIs
<1>4. o["payload"] = HasPayload(incoming) + HasPayload(call.response)
  BY DEF HeapMatch
<1>5. CASE Answer.len > 0
  <2>1. o["payload"] - 1 = HasPayload(incoming)
    BY <1>2, <1>3, <1>4, <1>5
  <2>2. Unload(o) = [o EXCEPT !["payload"] = @ - 1]
    BY <1>5 DEF Unload
  <2> QED
    BY <1>3, <2>1, <2>2 DEF Owners
<1>6. CASE ~(Answer.len > 0)
  BY <1>2, <1>3, <1>4, <1>6 DEF Unload
<1> QED
  BY <1>5, <1>6

\* The ends of the calls.
LEMMA ReturnKeeps ==
  ASSUME TypesHold, CallMatch, ReceiptMatch, HeapMatch, Returns /\ ~EndNotRetry
  PROVE  TypesHold' /\ CallMatch' /\ ReceiptMatch' /\ HeapMatch'
<1>1. pc = "check" /\ Return
  BY DEF Returns, ReadReturns, ReadNoMemory, WriteReturns, StartReturns, EndReturns
<1>2. /\ call' = NoCall /\ pc' = "idle"
      /\ UNCHANGED <<req, rsp, incoming, written, read, sequence, calls, daemon>>
  BY <1>1 DEF Return, Goto
<1>3. owned \in [Owners -> Nat]
  BY DEF TypesHold
<1>4. PICK o \in [Owners -> Nat] : o["payload"] = owned["payload"] /\ owned' = Unload(o)
  <2>1. CASE ReadReturns
    <3>1. Take("value") \in [Owners -> Nat] /\ Take("value")["payload"] = owned["payload"]
      BY <1>3 DEF Take, Owners
    <3>2. owned' = Unload(IF Failed THEN owned ELSE Take("value"))
      BY <2>1 DEF ReadReturns
    <3> QED
      BY <1>3, <3>1, <3>2
  <2>2. CASE ReadNoMemory
    BY <1>3, <2>2 DEF ReadNoMemory
  <2>3. CASE WriteReturns
    <3>1. call.kind = "printf" => Give("buffer") \in [Owners -> Nat] /\ Give("buffer")["payload"] = owned["payload"]
      BY <1>3 DEF Give, Owners, HeapMatch
    <3>2. owned' = Unload(IF call.kind = "printf" THEN Give("buffer") ELSE owned)
      BY <2>3 DEF WriteReturns
    <3> QED
      BY <1>3, <3>1, <3>2
  <2>4. CASE StartReturns
    <3>1. Give("tx") \in [Owners -> Nat] /\ Give("tx")["payload"] = owned["payload"]
      BY <1>3, <2>4 DEF Give, Owners, HeapMatch, StartReturns
    <3>2. owned' = Unload(IF Failed THEN Give("tx") ELSE owned)
      BY <2>4 DEF StartReturns
    <3> QED
      BY <1>3, <3>1, <3>2
  <2>5. CASE EndReturns
    <3>1. Give("tx") \in [Owners -> Nat] /\ Give("tx")["payload"] = owned["payload"]
      BY <1>3, <2>5 DEF Give, Owners, HeapMatch, EndReturns
    <3>2. owned' = Unload(Give("tx"))
      BY <2>5 DEF EndReturns
    <3> QED
      BY <3>1, <3>2
  <2> QED
    BY <2>1, <2>2, <2>3, <2>4, <2>5 DEF Returns
<1>5. owned' \in [Owners -> Nat] /\ owned'["payload"] = HasPayload(incoming)
  BY <1>1, <1>4, UnloadIs
<1>6. noMemory' \in Nat
  <2>1. noMemory \in Nat
    BY DEF TypesHold
  <2>2. noMemory' = noMemory \/ noMemory' = noMemory + 1
    BY DEF Returns, ReadReturns, ReadNoMemory, WriteReturns, StartReturns, EndReturns
  <2> QED
    BY <2>1, <2>2
<1>7. leaked' \in [{"watch", "retry"} -> Nat]
  <2>1. leaked \in [{"watch", "retry"} -> Nat] /\ leaked["retry"] + 1 \in Nat
    BY DEF TypesHold
  <2>2. leaked' = leaked \/ leaked' = [leaked EXCEPT !.retry = IF Failed THEN @ + 1 ELSE @]
    BY DEF Returns, ReadReturns, ReadNoMemory, WriteReturns, StartReturns, EndReturns
  <2> QED
    BY <2>1, <2>2
<1>8. << >> \in Seq(RspUnits)
  BY EmptySeq
<1>9. TypesHold'
  <2>1. /\ NoCall \in [kind : Kinds \cup {"none"}, state : {"INVALID", "SUBMITTED", "PENDING", "COMPLETED"},
                      m : [id : Nat, type : Kinds \cup {"none"}, len : Nat], sent : Nat, response : Seq(RspUnits)]
        /\ NoCall.sent <= NoCall.m.len + 1
    BY <1>8 DEF NoCall, Message
  <2> QED
    BY <1>2, <1>5, <1>6, <1>7, <2>1 DEF TypesHold, Places
<1>10. CallMatch'
  BY <1>2 DEF CallMatch, NoCall
<1>11. ReceiptMatch'
  BY <1>1, <1>2 DEF ReceiptMatch
<1>12. HeapMatch'
  <2>1. HasPayload(incoming) \in {0, 1}
    BY PayloadIs DEF TypesHold
  <2>2. NoCall.kind = "none" /\ NoCall.response = << >>
    BY DEF NoCall
  <2>3. HasPayload(<< >>) = 0
    BY DEF HasPayload
  <2> QED
    BY <1>2, <1>5, <2>1, <2>2, <2>3 DEF HeapMatch
<1> QED
  BY <1>9, <1>10, <1>11, <1>12

\* What xenstored does to itself and to the rings.
LEMMA DaemonKeeps ==
  ASSUME TypesHold, CallMatch, ReceiptMatch, HeapMatch, Daemon \/ WatchFires
  PROVE  TypesHold' /\ CallMatch' /\ ReceiptMatch' /\ HeapMatch'
<1>1. UNCHANGED <<pc, call, incoming, written, read, sequence, calls, noMemory, owned, leaked, bug>>
  BY DEF Daemon, DaemonReads, DaemonWrites, DaemonSleeps, WatchFires
<1>2. daemon \in [awake : BOOLEAN, inbuf : Seq(ReqUnits), out : Seq(RspUnits), watches : Nat]
  BY DEF TypesHold
<1>3. /\ IsRing(ReqUnits, req') /\ IsRing(RspUnits, rsp')
      /\ daemon' \in [awake : BOOLEAN, inbuf : Seq(ReqUnits), out : Seq(RspUnits), watches : Nat]
      /\ daemon'.inbuf # << >> => Len(daemon'.inbuf) <= daemon'.inbuf[1].m.len
  <2>1. CASE DaemonReads
    <3>1. PICK us : Reads(us) /\ (Keeps(daemon.inbuf \o us) \/ \E a : Answers(daemon.inbuf \o us, a))
      BY <2>1, ReadMoves
    <3>2. IsRing(ReqUnits, req') /\ IsRing(RspUnits, rsp')
      BY <2>1, <3>1 DEF Reads, DaemonReads, TypesHold
    <3>3. daemon.inbuf \o us \in Seq(ReqUnits)
      BY <1>2, <3>1, ConcatProperties DEF Reads
    <3>4. PICK got \in Seq(ReqUnits) : got = daemon.inbuf \o us
      BY <3>3
    <3>5. CASE Keeps(got)
      <4>1. daemon' = [daemon EXCEPT !.inbuf = got] /\ Len(got) <= got[1].m.len
        BY <3>5 DEF Keeps
      <4>2. daemon'.inbuf = got
        BY <1>2, <4>1
      <4> QED
        BY <1>2, <3>2, <4>1, <4>2
    <3>6. ASSUME NEW a, Answers(got, a)
          PROVE  /\ daemon' \in [awake : BOOLEAN, inbuf : Seq(ReqUnits), out : Seq(RspUnits), watches : Nat]
                 /\ daemon'.inbuf = << >>
      <4>1. a \in RspMessages /\ daemon' = [daemon EXCEPT !.inbuf = << >>, !.out = @ \o Units(a)]
        BY <3>6 DEF Answers
      <4>2. a.len \in Nat
        BY <4>1 DEF RspMessages
      <4>3. Units(a) \in Seq(RspUnits)
        BY <4>1, <4>2, UnitsAre DEF RspUnits
      <4>4. PICK out \in Seq(RspUnits) : out = daemon.out \o Units(a)
        BY <1>2, <4>3, ConcatProperties
      <4>5. daemon' = [daemon EXCEPT !.inbuf = << >>, !.out = out]
        BY <4>1, <4>4
      <4>6. << >> \in Seq(ReqUnits)
        BY EmptySeq
      <4> QED
        BY <1>2, <4>5, <4>6
    <3> QED
      BY <3>1, <3>2, <3>4, <3>5, <3>6
  <2>2. CASE DaemonWrites
    <3>1. PICK n \in Nat : Writes(n)
      BY <2>2, WriteMoves
    <3>2. IsRing(ReqUnits, req') /\ IsRing(RspUnits, rsp')
      BY <2>2, <3>1 DEF Writes, DaemonWrites, TypesHold
    <3>3. n \in 1 .. Len(daemon.out) /\ daemon' = [daemon EXCEPT !.out = SubSeq(@, n + 1, Len(@))]
      BY <3>1 DEF Writes
    <3>4. PICK e \in n .. Len(daemon.out) : e = Len(daemon.out) /\ n \in 0 .. Len(daemon.out)
      BY <1>2, <3>3, LenProperties
    <3>5. PICK out \in Seq(RspUnits) : out = SubSeq(daemon.out, n + 1, Len(daemon.out))
      BY <1>2, <3>4, PartOf
    <3>6. daemon' = [daemon EXCEPT !.out = out]
      BY <3>3, <3>5
    <3>7. daemon' \in [awake : BOOLEAN, inbuf : Seq(ReqUnits), out : Seq(RspUnits), watches : Nat] /\ daemon'.inbuf = daemon.inbuf
      BY <1>2, <3>6
    <3> QED
      BY <3>2, <3>7 DEF ReceiptMatch
  <2>3. CASE DaemonSleeps
    <3>1. daemon' = [daemon EXCEPT !.awake = FALSE] /\ UNCHANGED <<req, rsp>>
      BY <2>3 DEF DaemonSleeps
    <3>2. daemon' \in [awake : BOOLEAN, inbuf : Seq(ReqUnits), out : Seq(RspUnits), watches : Nat] /\ daemon'.inbuf = daemon.inbuf
      BY <1>2, <3>1
    <3> QED
      BY <3>1, <3>2 DEF ReceiptMatch, TypesHold
  <2>4. CASE WatchFires
    <3> DEFINE w == Message(0, "watch", 1)
    <3>1. /\ UNCHANGED <<req, rsp>>
          /\ daemon' = [daemon EXCEPT !.awake = TRUE, !.watches = @ + 1, !.out = @ \o Units(w)]
      BY <2>4 DEF WatchFires
    <3>2. w \in RspMessages /\ w.len \in Nat
      BY DEF Message, RspMessages
    <3> HIDE DEF w
    <3>3. Units(w) \in Seq(RspUnits)
      BY <3>2, UnitsAre DEF RspUnits
    <3>4. PICK out \in Seq(RspUnits) : out = daemon.out \o Units(w)
      BY <1>2, <3>3, ConcatProperties
    <3>5. daemon' = [daemon EXCEPT !.awake = TRUE, !.watches = @ + 1, !.out = out]
      BY <3>1, <3>4
    <3>6. daemon.watches + 1 \in Nat
      BY <1>2
    <3>7. daemon' \in [awake : BOOLEAN, inbuf : Seq(ReqUnits), out : Seq(RspUnits), watches : Nat] /\ daemon'.inbuf = daemon.inbuf
      BY <1>2, <3>5, <3>6
    <3> QED
      BY <3>1, <3>7 DEF ReceiptMatch, TypesHold
  <2> QED
    BY <2>1, <2>2, <2>3, <2>4 DEF Daemon
<1>4. TypesHold'
  BY <1>1, <1>3 DEF TypesHold
<1>5. CallMatch'
  BY <1>1 DEF CallMatch
<1>6. ReceiptMatch'
  BY <1>1, <1>3 DEF ReceiptMatch
<1>7. HeapMatch'
  BY <1>1 DEF HeapMatch
<1> QED
  BY <1>4, <1>5, <1>6, <1>7

\* The two ASSERTs that can fail: the machine stops, with every variable of its type.
LEMMA StopKeeps ==
  ASSUME TypesHold, PayloadNoMemory \/ EndNotRetry
  PROVE  TypesHold' /\ ~Running' /\ bug' \in Excepted
<1>1. ~Running' /\ bug' \in Excepted
  BY DEF PayloadNoMemory, EndNotRetry, Running, Excepted
<1>2. CASE PayloadNoMemory
  <2>1. UNCHANGED <<req, pc, call, written, sequence, calls, owned, leaked, daemon>> /\ HeaderComes
    BY <1>2 DEF PayloadNoMemory
  <2>2. noMemory \in Nat /\ noMemory' = noMemory + 1
    BY <1>2 DEF PayloadNoMemory, TypesHold
  <2>3. incoming' \in Seq(RspUnits) /\ IsRing(RspUnits, rsp') /\ read' \in BOOLEAN
    BY <2>1, HeaderMoves DEF Receives
  <2> QED
    BY <1>1, <2>1, <2>2, <2>3 DEF TypesHold
<1>3. CASE EndNotRetry
  BY <1>1, <1>3 DEF EndNotRetry, TypesHold
<1> QED
  BY <1>2, <1>3

\* Nothing moves once an ASSERT has stopped the machine.
LEMMA NextRuns ==
  ASSUME Next
  PROVE  Running
BY DEF Next, Caller, Call, CallFails, FreeValue, Poll, Send, Sent, ReceiveHeader, PayloadNoMemory,
       ReceivePayload, Process, Received, Returns, ReadReturns, ReadNoMemory, WriteReturns, StartReturns,
       EndReturns, EndNotRetry, Daemon,
       DaemonReads, DaemonWrites, DaemonSleeps, WatchFires

\* No step disturbs what the client holds.
LEMMA ClientKeeps == ClientHolds /\ [Next]_storeVars => ClientHolds'
<1> SUFFICES ASSUME ClientHolds, [Next]_storeVars PROVE ClientHolds'
  OBVIOUS
<1>1. CASE UNCHANGED storeVars
  BY <1>1 DEF ClientHolds, storeVars, TypesHold, CallMatch, ReceiptMatch, HeapMatch, Running, Request
<1>2. CASE Next
  <2>1. Running
    BY <1>2, NextRuns
  <2>2. TypesHold /\ CallMatch /\ ReceiptMatch /\ HeapMatch
    BY <2>1 DEF ClientHolds
  <2>3. TypesHold' /\ (Running' => CallMatch' /\ ReceiptMatch' /\ HeapMatch')
    <3>1. CASE \E kind \in Kinds : Call(kind)
      BY <2>2, <3>1, CallKeeps
    <3>2. CASE FreeValue \/ \E kind \in Kinds : CallFails(kind)
      BY <2>2, <3>2, IdleKeeps
    <3>3. CASE Send
      BY <2>2, <3>3, SendKeeps
    <3>4. CASE Sent \/ Received
      BY <2>2, <3>4, EventKeeps
    <3>5. CASE ReceiveHeader
      BY <2>2, <3>5, HeaderKeeps
    <3>6. CASE ReceivePayload
      BY <2>2, <3>6, PayloadKeeps
    <3>7. CASE Process
      BY <2>2, <3>7, ProcessKeeps
    <3>8. CASE Returns /\ ~EndNotRetry
      BY <2>2, <3>8, ReturnKeeps
    <3>10. CASE PayloadNoMemory \/ EndNotRetry
      BY <2>2, <3>10, StopKeeps
    <3>9. CASE Daemon \/ WatchFires
      BY <2>2, <3>9, DaemonKeeps
    <3> QED
      BY <1>2, <3>1, <3>2, <3>3, <3>4, <3>5, <3>6, <3>7, <3>8, <3>9, <3>10 DEF Next, Caller, Poll
  <2> QED
    BY <2>3 DEF ClientHolds
<1> QED
  BY <1>1, <1>2

\* What the client holds, at every moment, whatever the old session left behind.
THEOREM ClientIsSound == Spec => []ClientHolds
<1> QED
  BY ClientInit, ClientKeeps, PTL DEF Spec

\* A payload is allocated exactly while a response that has one is being received or is in
\* the hands of the call that waits for it (store.c:407, 459-477, 583-596): whatever session the
\* old kernel left on the ring, and on every failure path.
THEOREM PayloadsAreHeld == Spec => []PayloadsHeld
<1>1. ClientHolds => PayloadsHeld
  BY DEF ClientHolds, HeapMatch, PayloadsHeld
<1> QED
  BY <1>1, ClientIsSound, PTL

-----------------------------------------------------------------------------
\* The streams, when the old kernel was in the middle of nothing.

Ask == daemon.inbuf \o InRing(req)
Ans == incoming \o InRing(rsp) \o daemon.out
AnswersIn(s) == {k \in DOMAIN s : s[k].part = 1 /\ s[k].m.type # "watch"}
Awaiting == call.state = "PENDING" /\ Ask = << >>

RequestMatch ==
  /\ call.state = "SUBMITTED" => call.sent < Len(Request)
  /\ call.state = "PENDING" => call.sent = Len(Request)
  /\ IF call.state \in {"SUBMITTED", "PENDING"}
     THEN Ask = SubSeq(Request, 1, call.sent) \/ (Ask = << >> /\ call.state = "PENDING")
     ELSE Ask = << >>

AnswerMatch ==
  /\ Untorn(Ans)
  /\ \A k \in AnswersIn(Ans) : Ans[k].m.id = call.m.id /\ Ans[k].m.type \in {call.m.type} \cup Errors
  /\ \A j, k \in AnswersIn(Ans) : j = k
  /\ AnswersIn(Ans) # {} <=> Awaiting

ResponseMatch == call.response # << >> => call.response[1].m.type \in {call.m.type} \cup Errors

StreamsHold == RequestMatch /\ AnswerMatch /\ ResponseMatch

QuietHolds == ClientHolds /\ NoBugcheck /\ (Running => StreamsHold)

\* Three sequences in a row.
Associates(a, b, c) == (a \o b) \o c = a \o (b \o c)

LEMMA Associated ==
  ASSUME NEW S, NEW a \in Seq(S), NEW b \in Seq(S), NEW c \in Seq(S)
  PROVE  Associates(a, b, c)
BY ConcatAssociative DEF Associates

\* Two sequences in a row.
LEMMA Joined ==
  ASSUME NEW S, NEW s \in Seq(S), NEW t \in Seq(S), NEW v, v = s \o t,
         NEW n \in Nat, n = Len(s), NEW o \in Nat, o = Len(t)
  PROVE  /\ v \in Seq(S) /\ Len(v) = n + o
         /\ \A k \in 1 .. n : v[k] = s[k]
         /\ \A k \in 1 .. o : v[n + k] = t[k]
<1>1. /\ v \in Seq(S) /\ Len(v) = n + o
      /\ \A k \in 1 .. n + o : v[k] = IF k <= n THEN s[k] ELSE t[k - n]
  BY ConcatProperties
<1>2. ASSUME NEW k \in 1 .. o PROVE v[n + k] = t[k]
  <2>1. PICK i \in 1 .. n + o : i = n + k /\ ~(i <= n) /\ i - n = k
    OBVIOUS
  <2> QED
    BY <1>1, <2>1
<1> QED
  BY <1>1, <1>2

\* Unit k of s sits in its place in a whole copy of its message.
InPlace(s, k) ==
  LET m == s[k].m
      before == k - s[k].part
  IN  /\ s[k].part <= m.len + 1 /\ before \in 0 .. Len(s) - (m.len + 1)
      /\ \A j \in 1 .. m.len + 1 : s[before + j] = Unit(m, j)

\* A message put at the end of an untorn stream leaves it untorn, ...
Appends(s, a, t) ==
  /\ t \in Seq(RspUnits) /\ Untorn(t)
  /\ AnswersIn(t) = AnswersIn(s) \cup (IF a.type = "watch" THEN {} ELSE {Len(s) + 1})
  /\ t[Len(s) + 1].m = a
  /\ \A k \in AnswersIn(s) : t[k] = s[k]

LEMMA MessageAppended ==
  ASSUME NEW s \in Seq(RspUnits), Untorn(s), NEW a \in RspMessages
  PROVE  Appends(s, a, s \o Units(a))
<1>1. PICK n \in Nat : n = Len(s)
  OBVIOUS
<1>2. PICK l \in Nat \ {0} : l = a.len + 1 /\ a.len \in Nat
  BY DEF RspMessages
<1>3. /\ Units(a) \in Seq(RspUnits) /\ Len(Units(a)) = l
      /\ \A k \in 1 .. l : Units(a)[k] = Unit(a, k)
  BY <1>2, UnitsAre DEF RspUnits
<1>4. PICK t : t = s \o Units(a)
  OBVIOUS
<1>5. /\ t \in Seq(RspUnits) /\ Len(t) = n + l
      /\ \A k \in 1 .. n : t[k] = s[k]
      /\ \A k \in 1 .. l : t[n + k] = Units(a)[k]
  <2>1. PICK w \in Seq(RspUnits) : w = Units(a) /\ l = Len(w) /\ t = s \o w
    BY <1>3, <1>4
  <2>2. /\ t \in Seq(RspUnits) /\ Len(t) = n + l
        /\ \A k \in 1 .. n : t[k] = s[k]
        /\ \A k \in 1 .. l : t[n + k] = w[k]
    BY <1>1, <2>1, Joined
  <2> QED
    BY <2>1, <2>2
<1>6. \A k \in 1 .. n : t[k] = s[k]
  BY <1>5
<1>7. \A k \in 1 .. l : t[n + k] = Unit(a, k)
  BY <1>3, <1>5
<1>8. ASSUME NEW k \in 1 .. n PROVE InPlace(t, k)
  <2>1. PICK u \in RspUnits : u = s[k] /\ u = t[k]
    BY <1>1, <1>6, ElementOfSeq
  <2>2. PICK p \in Nat, len \in Nat : p = u.part /\ len = u.m.len
    BY DEF RspUnits, UnitsOf, RspMessages
  <2>3. PICK b \in Int : b = k - p
    BY <2>2
  <2>4. PICK e \in Nat \ {0} : e = len + 1
    BY <2>2
  <2>5. /\ p <= e /\ b \in 0 .. n - e
        /\ \A j \in 1 .. e : s[b + j] = Unit(u.m, j)
    BY <1>1, <2>1, <2>2, <2>3, <2>4 DEF Untorn
  <2>6. \A j \in 1 .. e : t[b + j] = Unit(u.m, j)
    <3> TAKE j \in 1 .. e
    <3>1. PICK i \in 1 .. n : i = b + j
      BY <2>5
    <3> QED
      BY <1>6, <2>5, <3>1
  <2>7. b \in 0 .. Len(t) - e
    BY <1>5, <2>5
  <2> QED
    BY <2>1, <2>2, <2>3, <2>4, <2>5, <2>6, <2>7 DEF InPlace
<1>9. ASSUME NEW j \in 1 .. l PROVE InPlace(t, n + j)
  <2>1. PICK i \in Nat : i = n + j
    OBVIOUS
  <2>2. t[i] = Unit(a, j)
    BY <1>7, <2>1
  <2>3. t[i].m = a /\ t[i].part = j
    BY <2>2 DEF Unit
  <2>4. i - j = n /\ n \in 0 .. Len(t) - l /\ j <= l
    BY <1>5, <2>1
  <2>5. InPlace(t, i)
    BY <1>2, <1>7, <2>3, <2>4 DEF InPlace
  <2> QED
    BY <2>1, <2>5
<1>10. Untorn(t)
  <2>1. ASSUME NEW k \in 1 .. Len(t) PROVE InPlace(t, k)
    <3>1. CASE k <= n
      BY <1>8, <3>1
    <3>2. CASE k > n
      <4>1. PICK j \in 1 .. l : k = n + j
        <5>1. k - n \in 1 .. l /\ k = n + (k - n)
          BY <1>5, <3>2
        <5> QED
          BY <5>1
      <4> QED
        BY <1>9, <4>1
    <3> QED
      BY <3>1, <3>2
  <2> QED
    BY <2>1 DEF Untorn, InPlace
<1>11. DOMAIN s = 1 .. n /\ DOMAIN t = 1 .. n + l
  BY <1>1, <1>5
<1>12. t[n + 1] = Unit(a, 1)
  BY <1>7
<1>13. AnswersIn(t) = AnswersIn(s) \cup (IF a.type = "watch" THEN {} ELSE {n + 1})
  <2>1. ASSUME NEW k \in AnswersIn(t) PROVE k \in AnswersIn(s) \/ (k = n + 1 /\ a.type # "watch")
    <3>1. k \in 1 .. n + l /\ t[k].part = 1 /\ t[k].m.type # "watch"
      BY <1>11 DEF AnswersIn
    <3>2. CASE k <= n
      BY <1>6, <1>11, <3>1, <3>2 DEF AnswersIn
    <3>3. CASE k > n
      <4>1. PICK j \in 1 .. l : k = n + j
        <5>1. k - n \in 1 .. l /\ k = n + (k - n)
          BY <3>1, <3>3
        <5> QED
          BY <5>1
      <4>2. t[k] = Unit(a, j)
        BY <1>7, <4>1
      <4>3. t[k].part = j /\ t[k].m = a
        BY <4>2 DEF Unit
      <4> QED
        BY <3>1, <4>1, <4>3
    <3> QED
      BY <3>1, <3>2, <3>3
  <2>2. ASSUME NEW k \in AnswersIn(s) PROVE k \in AnswersIn(t)
    BY <1>6, <1>11 DEF AnswersIn
  <2>3. ASSUME a.type # "watch" PROVE n + 1 \in AnswersIn(t)
    BY <1>11, <1>12, <2>3 DEF AnswersIn, Unit
  <2> QED
    BY <2>1, <2>2, <2>3
<1>14. \A k \in AnswersIn(s) : t[k] = s[k]
  BY <1>6, <1>11 DEF AnswersIn
<1>15. t[n + 1].m = a
  BY <1>12 DEF Unit
<1>16. Appends(s, a, t)
  BY <1>1, <1>5, <1>10, <1>13, <1>14, <1>15 DEF Appends
<1> QED
  BY <1>4, <1>16

\* ... and so does the first message taken off it.
Drops(s, u, t) ==
  /\ Untorn(t)
  /\ u[1].part = 1
  /\ 1 \in AnswersIn(s) <=> u[1].m.type # "watch"
  /\ s[1] = u[1]
  /\ \A k \in AnswersIn(t) : Len(u) + k \in AnswersIn(s) /\ t[k] = s[Len(u) + k] /\ Len(u) + k # 1
  /\ \A k \in AnswersIn(s) : k # 1 => k - Len(u) \in AnswersIn(t)

LEMMA MessageDropped ==
  ASSUME NEW u \in Seq(RspUnits), NEW t \in Seq(RspUnits), u # << >>, Len(u) = u[1].m.len + 1, Untorn(u \o t)
  PROVE  Drops(u \o t, u, t)
<1>1. PICK s : s = u \o t
  OBVIOUS
<1>2. u[1] \in RspUnits /\ u[1].m \in RspMessages
  BY PayloadIs
<1>3. PICK l \in Nat \ {0} : u[1].m.len \in Nat /\ l = u[1].m.len + 1 /\ Len(u) = l
  BY <1>2 DEF RspMessages
<1>4. PICK n \in Nat : n = Len(t)
  OBVIOUS
<1>5. /\ s \in Seq(RspUnits) /\ Len(s) = l + n
      /\ \A k \in 1 .. l : s[k] = u[k]
      /\ \A k \in 1 .. n : s[l + k] = t[k]
  <2>1. l \in Nat /\ l = Len(u) /\ n = Len(t) /\ s = u \o t
    BY <1>1, <1>3, <1>4
  <2> QED
    BY ONLY <2>1, u \in Seq(RspUnits), t \in Seq(RspUnits), n \in Nat, Joined
<1>6. \A k \in 1 .. l : s[k] = u[k]
  BY <1>5
<1>7. \A k \in 1 .. n : s[l + k] = t[k]
  BY <1>5
<1>8. s[1] = u[1] /\ Untorn(s)
  BY <1>1, <1>6
<1>9. u[1].part = 1 /\ \A j \in 1 .. l : s[j] = Unit(u[1].m, j)
  <2>1. PICK p \in Nat \ {0} : p = u[1].part
    BY <1>2 DEF RspUnits, UnitsOf
  <2>2. 1 \in 1 .. Len(s)
    BY <1>5
  <2>3. 1 - p \in 0 .. Len(s) - l /\ \A j \in 1 .. l : s[1 - p + j] = Unit(u[1].m, j)
    BY <1>3, <1>8, <2>1, <2>2 DEF Untorn
  <2>4. p = 1
    BY <2>3
  <2> QED
    BY <2>1, <2>3, <2>4
<1>10. ASSUME NEW k \in 1 .. n PROVE InPlace(t, k)
  <2>1. PICK v \in RspUnits : v = t[k] /\ v = s[l + k]
    BY <1>4, <1>7, ElementOfSeq
  <2>2. PICK p \in Nat \ {0}, len \in Nat : p = v.part /\ len = v.m.len
    BY DEF RspUnits, UnitsOf, RspMessages
  <2>3. PICK e \in Nat \ {0} : e = len + 1
    BY <2>2
  <2>4. PICK i \in 1 .. Len(s) : i = l + k
    BY <1>5
  <2>5. PICK b \in Int : b = i - p
    BY <2>2, <2>4
  <2>6. /\ p <= e /\ b \in 0 .. Len(s) - e
        /\ \A j \in 1 .. e : s[b + j] = Unit(v.m, j)
    BY <1>8, <2>1, <2>2, <2>3, <2>4, <2>5 DEF Untorn
  <2>7. p <= e /\ b >= 0 /\ b <= l + n - e
    BY <1>5, <2>6
  \* A message that began in the first one would be it, and end with it.
  <2>8. b >= l
    <3> SUFFICES ASSUME b < l PROVE FALSE
      OBVIOUS
    <3>1. PICK c \in 1 .. l : c = b + 1
      BY <2>7
    <3>2. s[c] = Unit(v.m, 1)
      <4>1. 1 \in 1 .. e
        BY <2>3
      <4>2. s[b + 1] = Unit(v.m, 1)
        BY <2>6, <4>1
      <4> QED
        BY <3>1, <4>2
    <3>3. s[c] = Unit(u[1].m, c)
      BY <1>9
    <3>4. c = 1 /\ v.m = u[1].m
      BY <3>2, <3>3 DEF Unit
    <3>5. e = l
      BY <1>3, <2>2, <2>3, <3>4
    <3> QED
      BY <2>4, <2>5, <2>7, <3>1, <3>4, <3>5
  <2>9. PICK d \in 0 .. n : d = b - l /\ d + e <= n
    BY <2>7, <2>8
  <2>10. k - p = d
    BY <2>4, <2>5, <2>9
  <2>11. \A j \in 1 .. e : t[d + j] = Unit(v.m, j)
    <3> TAKE j \in 1 .. e
    <3>1. PICK o \in 1 .. n : o = d + j /\ l + o = b + j
      BY <2>9
    <3> QED
      BY <1>7, <2>6, <3>1
  <2>12. d \in 0 .. Len(t) - e
    BY <1>4, <2>9
  <2> QED
    BY <2>1, <2>2, <2>3, <2>7, <2>10, <2>11, <2>12 DEF InPlace
<1>11. Untorn(t)
  BY <1>4, <1>10 DEF Untorn, InPlace
<1>12. DOMAIN s = 1 .. l + n /\ DOMAIN t = 1 .. n
  BY <1>4, <1>5
<1>13. 1 \in AnswersIn(s) <=> u[1].m.type # "watch"
  BY <1>8, <1>9, <1>12 DEF AnswersIn
<1>14. ASSUME NEW k \in AnswersIn(t)
       PROVE  l + k \in AnswersIn(s) /\ t[k] = s[l + k] /\ l + k # 1
  <2>1. k \in 1 .. n /\ t[k].part = 1 /\ t[k].m.type # "watch"
    BY <1>12 DEF AnswersIn
  <2>2. l + k \in 1 .. l + n /\ l + k # 1
    BY <1>3, <2>1
  <2>3. t[k] = s[l + k]
    BY <1>7, <2>1
  <2> QED
    BY <1>12, <2>1, <2>2, <2>3 DEF AnswersIn
<1>15. ASSUME NEW k \in AnswersIn(s), k # 1 PROVE k - l \in AnswersIn(t)
  <2>1. k \in 1 .. l + n /\ s[k].part = 1 /\ s[k].m.type # "watch"
    BY <1>12 DEF AnswersIn
  <2>2. k > l
    <3> SUFFICES ASSUME k <= l PROVE FALSE
      BY <2>1
    <3>1. s[k] = Unit(u[1].m, k)
      BY <1>9, <2>1
    <3> QED
      BY <1>15, <2>1, <3>1 DEF Unit
  <2>3. PICK i \in 1 .. n : i = k - l /\ l + i = k
    <3>1. k - l \in 1 .. n /\ l + (k - l) = k
      BY <2>1, <2>2
    <3> QED
      BY <3>1
  <2>4. s[k] = t[i]
    BY <1>7, <2>3
  <2> QED
    BY <1>12, <2>1, <2>3, <2>4 DEF AnswersIn
<1> QED
  BY <1>1, <1>3, <1>8, <1>9, <1>11, <1>13, <1>14, <1>15 DEF Drops

-----------------------------------------------------------------------------
\* The streams, step by step.

\* The streams are of the right units.
LEMMA StreamTypes ==
  ASSUME TypesHold
  PROVE  /\ daemon.inbuf \in Seq(ReqUnits) /\ InRing(req) \in Seq(ReqUnits) /\ Ask \in Seq(ReqUnits)
         /\ incoming \in Seq(RspUnits) /\ InRing(rsp) \in Seq(RspUnits) /\ daemon.out \in Seq(RspUnits)
         /\ Ans \in Seq(RspUnits)
<1>1. daemon.inbuf \in Seq(ReqUnits) /\ InRing(req) \in Seq(ReqUnits)
  BY DEF TypesHold, IsRing
<1>2. incoming \in Seq(RspUnits) /\ InRing(rsp) \in Seq(RspUnits) /\ daemon.out \in Seq(RspUnits)
  BY DEF TypesHold, IsRing
<1>3. Ask \in Seq(ReqUnits)
  BY <1>1, ConcatProperties DEF Ask
<1>4. incoming \o InRing(rsp) \in Seq(RspUnits)
  BY <1>2, ConcatProperties
<1>5. Ans \in Seq(RspUnits)
  BY <1>2, <1>4, ConcatProperties DEF Ans
<1> QED
  BY <1>1, <1>2, <1>3, <1>5

\* Receiving moves units within the stream of answers, ...
LEMMA ReceivingMoves ==
  ASSUME TypesHold, NEW us, Receives(us), incoming' = incoming \o us, daemon' = daemon
  PROVE  Ans' = Ans
<1>1. PICK i \in Seq(RspUnits) : i = incoming
  BY DEF TypesHold
<1>2. PICK o \in Seq(RspUnits) : o = daemon.out /\ o = daemon'.out
  BY DEF TypesHold
<1>3. PICK r \in Seq(RspUnits) : r = InRing(rsp')
  BY DEF Receives, IsRing
<1>4. us \in Seq(RspUnits) /\ InRing(rsp) = us \o r
  BY <1>3 DEF Receives
<1>5. (i \o us) \o r = i \o (us \o r)
  <2>1. Associates(i, us, r)
    BY <1>4, Associated
  <2> QED
    BY <2>1 DEF Associates
<1>6. Ans = i \o (us \o r) \o o
  BY <1>1, <1>2, <1>4 DEF Ans
<1>7. Ans' = (i \o us) \o r \o o
  <2>1. InRing(rsp)' = r
    BY <1>3 DEF InRing, Used, Advance
  <2> QED
    BY <1>1, <1>2, <2>1 DEF Ans
<1> QED
  BY <1>5, <1>6, <1>7

\* ... and so does xenstored's writing.
LEMMA WritingMoves ==
  ASSUME TypesHold, NEW n \in Nat, Writes(n), incoming' = incoming
  PROVE  Ans' = Ans
<1>1. PICK i \in Seq(RspUnits) : i = incoming
  BY DEF TypesHold
<1>2. PICK o \in Seq(RspUnits) : o = daemon.out /\ Len(o) \in Nat
  BY LenProperties DEF TypesHold
<1>3. PICK r \in Seq(RspUnits) : r = InRing(rsp)
  BY DEF TypesHold, IsRing
<1>4. n \in 1 .. Len(o)
  BY <1>2 DEF Writes
<1>5. PICK a : a = SubSeq(o, 1, n)
  OBVIOUS
<1>6. PICK b : b = SubSeq(o, n + 1, Len(o))
  OBVIOUS
<1>7. daemon'.out = b /\ InRing(rsp') = r \o a
  BY <1>2, <1>3, <1>5, <1>6 DEF Writes, TypesHold
<1>8. a \in Seq(RspUnits) /\ b \in Seq(RspUnits) /\ a \o b = o
  <2>1. PICK z \in 0 .. Len(o) : z = 0 /\ z + 1 = 1 /\ n \in z .. Len(o)
    BY <1>2, <1>4
  <2>2. SubSeq(o, z + 1, n) \in Seq(RspUnits)
    BY <2>1, PartOf
  <2>3. PICK e \in n .. Len(o) : e = Len(o) /\ n \in 0 .. Len(o)
    BY <1>2, <1>4
  <2>4. SubSeq(o, n + 1, e) \in Seq(RspUnits)
    BY <2>3, PartOf
  <2>5. PICK m \in 1 .. Len(o) + 1 : m = 1 /\ n \in m - 1 .. Len(o)
    BY <1>2, <1>4
  <2>6. SubSeq(o, m, n) \o SubSeq(o, n + 1, e) = SubSeq(o, m, e)
    BY <2>3, <2>5, ConcatAdjacentSubSeq
  <2>7. SubSeq(o, 1, Len(o)) = o
    BY SubSeqFull
  <2> QED
    BY <1>5, <1>6, <2>1, <2>2, <2>3, <2>4, <2>5, <2>6, <2>7
<1>9. (i \o r) \o a = i \o (r \o a)
  <2>1. a \in Seq(RspUnits)
    BY <1>8
  <2>2. Associates(i, r, a)
    BY <2>1, Associated
  <2> QED
    BY <2>2 DEF Associates
<1>10. PICK f \in Seq(RspUnits) : f = i \o r
  BY ConcatProperties
<1>11. (f \o a) \o b = f \o (a \o b)
  <2>1. PICK x \in Seq(RspUnits) : x = a
    BY <1>8
  <2>2. PICK y \in Seq(RspUnits) : y = b
    BY <1>8
  <2>3. (f \o x) \o y = f \o (x \o y)
    <3>1. Associates(f, x, y)
      BY Associated
    <3> QED
      BY <3>1 DEF Associates
  <2> QED
    BY <2>1, <2>2, <2>3
<1>12. Ans = (i \o r) \o o
  BY <1>1, <1>2, <1>3 DEF Ans
<1>13. Ans' = (i \o (r \o a)) \o b
  <2>1. InRing(rsp)' = r \o a
    BY <1>7 DEF InRing, Used, Advance
  <2> QED
    BY <1>1, <1>7, <2>1 DEF Ans
<1> QED
  BY <1>8, <1>9, <1>10, <1>11, <1>12, <1>13

\* A message of xenstored's comes last in the stream of answers.
LEMMA AnsweringAppends ==
  ASSUME TypesHold, NEW a \in RspMessages, daemon'.out = daemon.out \o Units(a), incoming' = incoming, rsp' = rsp
  PROVE  Ans' = Ans \o Units(a)
<1>1. /\ incoming \in Seq(RspUnits) /\ InRing(rsp) \in Seq(RspUnits) /\ daemon.out \in Seq(RspUnits)
  BY StreamTypes
<1>2. PICK f \in Seq(RspUnits) : f = incoming \o InRing(rsp)
  BY <1>1, ConcatProperties
<1>3. a.len \in Nat
  BY DEF RspMessages
<1>4. Units(a) \in Seq(RspUnits)
  BY <1>3, UnitsAre DEF RspUnits
<1>5. (f \o daemon.out) \o Units(a) = f \o (daemon.out \o Units(a))
  <2>1. PICK o \in Seq(RspUnits) : o = daemon.out
    BY <1>1
  <2>2. PICK w \in Seq(RspUnits) : w = Units(a)
    BY <1>4
  <2>3. (f \o o) \o w = f \o (o \o w)
    <3>1. Associates(f, o, w)
      BY Associated
    <3> QED
      BY <3>1 DEF Associates
  <2> QED
    BY <2>1, <2>2, <2>3
<1>6. Ans = f \o daemon.out
  BY <1>2 DEF Ans
<1>7. Ans' = f \o (daemon.out \o Units(a))
  <2>1. InRing(rsp)' = InRing(rsp)
    BY DEF InRing, Used, Advance
  <2> QED
    BY <1>2, <2>1 DEF Ans
<1> QED
  BY <1>5, <1>6, <1>7

\* What xenstored has read of the request stays in the stream until it is whole.
LEMMA ReadingMoves ==
  ASSUME TypesHold, NEW us, Reads(us)
  PROVE  Ask = (daemon.inbuf \o us) \o InRing(req')
<1>1. daemon.inbuf \in Seq(ReqUnits)
  BY DEF TypesHold
<1>2. PICK r \in Seq(ReqUnits) : r = InRing(req')
  BY DEF Reads, IsRing
<1>3. us \in Seq(ReqUnits) /\ InRing(req) = us \o r
  BY <1>2 DEF Reads
<1>4. (daemon.inbuf \o us) \o r = daemon.inbuf \o (us \o r)
  <2>1. PICK i \in Seq(ReqUnits) : i = daemon.inbuf
    BY <1>1
  <2>2. us \in Seq(ReqUnits)
    BY <1>3
  <2>3. (i \o us) \o r = i \o (us \o r)
    <3>1. Associates(i, us, r)
      BY <2>2, Associated
    <3> QED
      BY <3>1 DEF Associates
  <2> QED
    BY <2>1, <2>3
<1> QED
  BY <1>2, <1>3, <1>4 DEF Ask

\* Of a stream that begins with the first units of the request, the first unit is its header.
LEMMA AskBegins ==
  ASSUME TypesHold, CallMatch, RequestMatch, Ask # << >>
  PROVE  /\ call.state \in {"SUBMITTED", "PENDING"} /\ Len(Ask) = call.sent
         /\ Ask[1].m = call.m /\ call.sent > 0
<1>1. call.state \in {"SUBMITTED", "PENDING"} /\ Ask = SubSeq(Request, 1, call.sent)
  BY DEF RequestMatch
<1>2. /\ Request \in Seq(ReqUnits) /\ Len(Request) = call.m.len + 1 /\ call.m.len \in Nat
      /\ \A k \in 1 .. Len(Request) : Request[k] = Unit(call.m, k)
  BY <1>1, RequestIs
<1>3. PICK s \in 0 .. Len(Request) : s = call.sent
  BY <1>2 DEF TypesHold
<1>4. PICK z \in 0 .. Len(Request) : z = 0 /\ z + 1 = 1 /\ s \in z .. Len(Request) /\ s - z = s
  BY <1>2
<1>5. /\ SubSeq(Request, z + 1, s) \in Seq(ReqUnits) /\ Len(SubSeq(Request, z + 1, s)) = s - z
      /\ \A k \in 1 .. s - z : SubSeq(Request, z + 1, s)[k] = Request[z + k]
  BY <1>2, <1>4, PartOf
<1>6. Len(Ask) = s /\ \A k \in 1 .. s : Ask[k] = Request[k]
  BY <1>1, <1>3, <1>4, <1>5
<1>7. s > 0
  <2>1. Ask \in Seq(ReqUnits)
    BY StreamTypes
  <2> QED
    BY <1>6, <2>1, EmptySeq
<1>8. Ask[1] = Unit(call.m, 1)
  <2>1. 1 \in 1 .. s /\ 1 \in 1 .. Len(Request)
    BY <1>7
  <2> QED
    BY <1>2, <1>6, <2>1
<1> QED
  BY <1>1, <1>3, <1>6, <1>7, <1>8 DEF Unit

\* Nothing about the streams is disturbed by a step that leaves them and the call as they are.
LEMMA StreamsSame ==
  ASSUME StreamsHold, call' = call, Ask' = Ask, Ans' = Ans
  PROVE  StreamsHold'
<1>1. RequestMatch'
  BY DEF StreamsHold, RequestMatch, Request
<1>2. AnswerMatch'
  BY DEF StreamsHold, AnswerMatch, Awaiting
<1>3. ResponseMatch'
  BY DEF StreamsHold, ResponseMatch
<1> QED
  BY <1>1, <1>2, <1>3 DEF StreamsHold

\* The streams are what the rings and the two ends hold.
LEMMA StreamsPrimed ==
  /\ req' = req /\ daemon'.inbuf = daemon.inbuf => Ask' = Ask
  /\ rsp' = rsp /\ daemon'.out = daemon.out /\ incoming' = incoming => Ans' = Ans
<1>1. req' = req => InRing(req)' = InRing(req)
  BY DEF InRing, Used, Advance
<1>2. rsp' = rsp => InRing(rsp)' = InRing(rsp)
  BY DEF InRing, Used, Advance
<1> QED
  BY <1>1, <1>2 DEF Ask, Ans

\* A request that is prepared finds both streams without a request or an answer.
LEMMA CallStreams ==
  ASSUME TypesHold, CallMatch, StreamsHold, Running, TypesHold', NEW kind \in Kinds, Call(kind)
  PROVE  StreamsHold' /\ Running'
<1>1. call = NoCall /\ pc = "idle" /\ call.state = "INVALID"
  BY DEF Call, CallMatch
<1>2. UNCHANGED <<req, rsp, incoming, bug, daemon>>
  BY DEF Call
<1>3. Ask' = Ask /\ Ans' = Ans
  BY <1>2, StreamsPrimed
<1>4. Ask = << >> /\ AnswersIn(Ans) = {}
  BY <1>1 DEF StreamsHold, RequestMatch, AnswerMatch, Awaiting
<1>5. call'.state = "SUBMITTED" /\ call'.sent = 0 /\ call'.response = << >>
  BY <1>1 DEF Call, Prepare, NoCall
<1>6. Len(Request') = call'.m.len + 1 /\ call'.m.len \in Nat
  <2>1. call'.m \in [id : Nat, type : Kinds \cup {"none"}, len : Nat]
    BY DEF TypesHold
  <2>2. PICK M : M = [id : Nat, type : Kinds \cup {"none"}, len : Nat]
    OBVIOUS
  <2>3. PICK m \in M : m = call'.m /\ m.len \in Nat
    BY <2>1, <2>2
  <2>4. Len(Units(m)) = m.len + 1
    BY <2>3, UnitsAre
  <2> QED
    BY <2>3, <2>4 DEF Request
<1>7. SubSeq(Request', 1, 0) = << >>
  BY SubSeqEmpty
<1>8. RequestMatch'
  BY <1>3, <1>4, <1>5, <1>6, <1>7 DEF RequestMatch
<1>9. AnswerMatch'
  BY <1>3, <1>4, <1>5 DEF StreamsHold, AnswerMatch, Awaiting
<1>10. ResponseMatch'
  BY <1>5 DEF ResponseMatch
<1> QED
  BY <1>2, <1>8, <1>9, <1>10 DEF StreamsHold, Running

\* What is sent comes last in the stream of the request.
LEMMA SendStreams ==
  ASSUME TypesHold, CallMatch, StreamsHold, Running, Send
  PROVE  StreamsHold' /\ Running'
<1>1. UNCHANGED <<rsp, incoming, bug, daemon>>
  BY DEF Send
<1>2. Ans' = Ans
  BY <1>1, StreamsPrimed
<1>3. CASE call.state # "SUBMITTED"
  <2>1. UNCHANGED <<req, call>>
    BY <1>3 DEF Send
  <2> QED
    BY <1>1, <1>2, <2>1, StreamsPrimed, StreamsSame DEF Running
<1>4. CASE call.state = "SUBMITTED"
  <2>1. PICK n \in Nat : Sends(n)
    BY <1>4, SendMoves
  <2>2. /\ Request \in Seq(ReqUnits) /\ Len(Request) = call.m.len + 1 /\ call.m.len \in Nat
    BY <1>4, RequestIs
  <2>3. PICK s \in Nat : s = call.sent /\ s < Len(Request) /\ n \in 0 .. Len(Request) - s
    BY <1>4, <2>1 DEF TypesHold, StreamsHold, RequestMatch, Sends
  <2>4. Ask = SubSeq(Request, 1, s)
    BY <1>4, <2>3 DEF StreamsHold, RequestMatch
  <2>5. PICK e \in s .. Len(Request) : e = s + n
    <3>1. s + n \in s .. Len(Request)
      BY <2>2, <2>3
    <3> QED
      BY <3>1
  <2>6. PICK part \in Seq(ReqUnits) : part = SubSeq(Request, s + 1, e)
    <3>1. s \in 0 .. Len(Request)
      BY <2>2, <2>3
    <3> QED
      BY <2>2, <3>1, PartOf
  <2>7. Ask' = Ask \o part
    <3>1. PICK i \in Seq(ReqUnits) : i = daemon.inbuf
      BY StreamTypes
    <3>2. PICK r \in Seq(ReqUnits) : r = InRing(req)
      BY StreamTypes
    <3>3. (i \o r) \o part = i \o (r \o part)
      <4>1. Associates(i, r, part)
        BY Associated
      <4> QED
        BY <4>1 DEF Associates
    <3>4. InRing(req') = r \o part
      BY <2>1, <2>3, <2>5, <2>6, <3>2 DEF Sends
    <3>5. InRing(req)' = InRing(req')
      BY DEF InRing, Used, Advance
    <3> QED
      BY <1>1, <3>1, <3>2, <3>3, <3>4, <3>5 DEF Ask
  <2>8. Ask' = SubSeq(Request, 1, e)
    <3>1. PICK z \in 1 .. Len(Request) + 1 : z = 1 /\ s \in z - 1 .. Len(Request)
      BY <2>2, <2>3
    <3>2. SubSeq(Request, z, s) \o SubSeq(Request, s + 1, e) = SubSeq(Request, z, e)
      BY <2>2, <3>1, ConcatAdjacentSubSeq
    <3> QED
      BY <2>4, <2>6, <2>7, <3>1, <3>2
  <2>9. /\ call'.sent = e /\ call'.m = call.m /\ call'.response = call.response
        /\ call'.state = IF e = Len(Request) THEN "PENDING" ELSE "SUBMITTED"
    <3>1. call' = [call EXCEPT !.sent = @ + n, !.state = IF n = Len(Request) - call.sent THEN "PENDING" ELSE @]
      BY <2>1 DEF Sends
    <3>2. n = Len(Request) - s <=> e = Len(Request)
      BY <2>2, <2>3, <2>5
    <3> QED
      BY <1>4, <2>3, <2>5, <3>1, <3>2 DEF TypesHold
  <2>10. Request' = Request
    BY <2>9 DEF Request
  <2>11. e # Len(Request) => e < Len(Request)
    BY <2>2, <2>5
  <2>12. RequestMatch'
    BY <2>8, <2>9, <2>10, <2>11 DEF RequestMatch
  <2>13. ~Awaiting /\ ~Awaiting'
    <3>1. e = Len(Request) => SubSeq(Request, 1, e) = Request /\ Request # << >>
      BY <2>2, SubSeqFull
    <3> QED
      BY <1>4, <2>8, <2>9, <3>1 DEF Awaiting
  <2>14. AnswerMatch'
    BY <1>2, <2>9, <2>13 DEF StreamsHold, AnswerMatch
  <2>15. ResponseMatch'
    BY <2>9 DEF StreamsHold, ResponseMatch
  <2> QED
    BY <1>1, <2>12, <2>14, <2>15 DEF StreamsHold, Running
<1> QED
  BY <1>3, <1>4

\* Units that come in are still in the stream; the first of a message is its header.
LEMMA ReceiveStreams ==
  ASSUME TypesHold, CallMatch, ReceiptMatch, StreamsHold, Running, ReceiveHeader \/ ReceivePayload
  PROVE  StreamsHold' /\ Running'
<1>1. call' = call /\ req' = req /\ daemon' = daemon
  BY DEF ReceiveHeader, ReceivePayload
<1>2. Ask' = Ask
  BY <1>1, StreamsPrimed
<1>3. ASSUME ReceiveHeader PROVE incoming = << >> /\ Receives(incoming') /\ incoming' = incoming \o incoming'
  <2>1. incoming = << >> /\ Receives(incoming')
    BY <1>3, HeaderMoves DEF ReceiveHeader, ReceiptMatch
  <2>2. incoming' \in Seq(RspUnits)
    BY <2>1 DEF Receives
  <2> QED
    BY <2>1, <2>2, ConcatEmptySeq
<1>4. PICK us : Receives(us) /\ incoming' = incoming \o us
  BY <1>3, PayloadMoves
<1>5. Ans' = Ans
  BY <1>1, <1>4, ReceivingMoves
<1>6. StreamsHold'
  BY <1>1, <1>2, <1>5, StreamsSame
<1>7. CASE ReceivePayload
  BY <1>6, <1>7 DEF ReceivePayload, Running
<1>8. CASE ReceiveHeader
  <2>1. bug' = IF incoming' # << >> /\ ~ValidHeader(incoming'[1]) THEN "VerifyHeader" ELSE bug
    BY <1>8 DEF ReceiveHeader
  <2>2. ASSUME incoming' # << >> PROVE ValidHeader(incoming'[1])
    <3>1. PICK i \in Seq(RspUnits) : i = incoming' /\ i # << >>
      BY <1>3, <1>8, <2>2 DEF Receives
    <3>2. PICK n \in Nat \ {0} : n = Len(i)
      BY <3>1, EmptySeq
    <3>3. PICK r \in Seq(RspUnits) : r = InRing(rsp') \o daemon.out
      <4>1. InRing(rsp') \in Seq(RspUnits) /\ daemon.out \in Seq(RspUnits)
        BY <1>4, StreamTypes DEF Receives, IsRing
      <4> QED
        BY <4>1, ConcatProperties
    <3>4. Ans' = i \o r
      <4>1. PICK x \in Seq(RspUnits) : x = InRing(rsp')
        BY <1>4 DEF Receives, IsRing
      <4>2. PICK y \in Seq(RspUnits) : y = daemon.out
        BY StreamTypes
      <4>3. (i \o x) \o y = i \o (x \o y)
        <5>1. Associates(i, x, y)
          BY Associated
        <5> QED
          BY <5>1 DEF Associates
      <4>4. InRing(rsp)' = InRing(rsp')
        BY DEF InRing, Used, Advance
      <4> QED
        BY <1>1, <3>1, <3>3, <4>1, <4>2, <4>3, <4>4 DEF Ans
    <3>5. PICK o \in Nat : o = Len(r)
      OBVIOUS
    <3>6. PICK s : s = i \o r
      OBVIOUS
    <3>7. Len(s) = n + o /\ s[1] = i[1]
      <4>1. /\ Len(s) = n + o
            /\ \A k \in 1 .. n : s[k] = i[k]
        BY <3>2, <3>5, <3>6, Joined
      <4> QED
        BY <4>1
    <3>8. Untorn(s)
      BY <1>5, <3>4, <3>6 DEF StreamsHold, AnswerMatch
    <3>9. i[1] \in RspUnits
      BY <3>1, PayloadIs
    <3>10. PICK p \in Nat \ {0}, len \in Nat : p = i[1].part /\ len = i[1].m.len
      BY <3>9 DEF RspUnits, UnitsOf, RspMessages
    <3>11. 1 - p \in 0 .. n + o - (len + 1)
      <4>1. 1 \in 1 .. Len(s)
        BY <3>7
      <4>2. s[1].part = p /\ s[1].m.len = len
        BY <3>7, <3>10
      <4>3. 1 - s[1].part \in 0 .. Len(s) - (s[1].m.len + 1)
        BY <3>8, <4>1 DEF Untorn
      <4> QED
        BY <3>7, <4>2, <4>3
    <3>12. p = 1
      BY <3>11
    <3> QED
      BY <3>1, <3>10, <3>12 DEF ValidHeader
  <2> QED
    BY <1>6, <2>1, <2>2 DEF Running
<1> QED
  BY <1>7, <1>8

\* A whole message leaves the stream; if it is an answer, it is the one that is awaited.
LEMMA ProcessStreams ==
  ASSUME TypesHold, CallMatch, ReceiptMatch, StreamsHold, Running, Process
  PROVE  StreamsHold' /\ Running'
<1>1. pc = "process" /\ incoming' = << >> /\ UNCHANGED <<req, rsp, daemon>>
  BY DEF Process
<1>2. PICK u \in Seq(RspUnits) : u = incoming /\ u # << >> /\ Len(u) = u[1].m.len + 1
  BY <1>1 DEF ReceiptMatch, TypesHold
<1>3. PICK t \in Seq(RspUnits) : t = InRing(rsp) \o daemon.out
  BY StreamTypes, ConcatProperties
<1>4. PICK x \in Seq(RspUnits) : x = InRing(rsp)
  BY StreamTypes
<1>5. PICK y \in Seq(RspUnits) : y = daemon.out
  BY StreamTypes
<1>6. Ans = u \o t
  <2>1. (u \o x) \o y = u \o (x \o y)
    <3>1. Associates(u, x, y)
      BY Associated
    <3> QED
      BY <3>1 DEF Associates
  <2> QED
    BY <1>2, <1>3, <1>4, <1>5, <2>1 DEF Ans
<1>7. Ans' = t
  <2>1. InRing(rsp)' = x
    BY <1>1, <1>4 DEF InRing, Used, Advance
  <2>2. << >> \o x = x
    BY ConcatEmptySeq
  <2> QED
    BY <1>1, <1>3, <1>4, <1>5, <2>1, <2>2 DEF Ans
<1>8. Ask' = Ask
  BY <1>1, StreamsPrimed
<1>9. Untorn(u \o t)
  BY <1>6 DEF StreamsHold, AnswerMatch
<1>10. Drops(Ans, u, t)
  BY <1>2, <1>6, <1>9, MessageDropped
<1> DEFINE h == incoming[1].m
<1>11. h = u[1].m /\ h = Ans[1].m
  BY <1>2, <1>10 DEF Drops
<1>12. CASE h.type = "watch"
  <2>1. UNCHANGED <<call, bug>>
    BY <1>12 DEF Process
  <2>2. 1 \notin AnswersIn(Ans)
    BY <1>10, <1>11, <1>12 DEF Drops
  <2>3. \A k \in AnswersIn(t) : Len(u) + k \in AnswersIn(Ans) /\ t[k] = Ans[Len(u) + k]
    BY <1>10 DEF Drops
  <2>4. \A k \in AnswersIn(Ans) : k - Len(u) \in AnswersIn(t)
    BY <1>10, <2>2 DEF Drops
  <2>5. \A k \in AnswersIn(t) : t[k].m.id = call.m.id /\ t[k].m.type \in {call.m.type} \cup Errors
    BY <2>3 DEF StreamsHold, AnswerMatch
  <2>6. \A j, k \in AnswersIn(t) : j = k
    <3> TAKE j, k \in AnswersIn(t)
    <3>1. Len(u) + j = Len(u) + k
      BY <2>3 DEF StreamsHold, AnswerMatch
    <3>2. j \in Nat /\ k \in Nat /\ Len(u) \in Nat
      BY LenProperties DEF AnswersIn
    <3> QED
      BY <3>1, <3>2
  <2>7. AnswersIn(t) # {} <=> Awaiting
    BY <2>3, <2>4 DEF StreamsHold, AnswerMatch
  <2>8. Awaiting' <=> Awaiting
    BY <1>8, <2>1 DEF Awaiting
  <2>9. AnswerMatch'
    BY <1>7, <1>10, <2>1, <2>5, <2>6, <2>7, <2>8 DEF AnswerMatch, Drops
  <2>10. RequestMatch' /\ ResponseMatch'
    BY <1>8, <2>1 DEF StreamsHold, RequestMatch, ResponseMatch, Request
  <2> QED
    BY <2>1, <2>9, <2>10 DEF StreamsHold, Running
<1>13. CASE h.type # "watch"
  <2>1. 1 \in AnswersIn(Ans)
    BY <1>10, <1>11, <1>13 DEF Drops
  <2>2. Awaiting /\ h.id = call.m.id /\ h.type \in {call.m.type} \cup Errors
    BY <1>11, <2>1 DEF StreamsHold, AnswerMatch
  <2>3. Awaited(h)
    BY <2>2 DEF Awaiting, Awaited
  <2>4. bug' = bug /\ call' = [call EXCEPT !.state = "COMPLETED", !.response = incoming]
    BY <1>13, <2>3 DEF Process
  <2>5. call'.state = "COMPLETED" /\ call'.response = u /\ call'.m = call.m /\ call'.sent = call.sent
    BY <1>2, <2>4 DEF TypesHold
  <2>6. AnswersIn(t) = {}
    <3> SUFFICES ASSUME NEW k \in AnswersIn(t) PROVE FALSE
      OBVIOUS
    <3>1. Len(u) + k \in AnswersIn(Ans) /\ Len(u) + k # 1
      BY <1>10 DEF Drops
    <3> QED
      BY <2>1, <3>1 DEF StreamsHold, AnswerMatch
  <2>7. ~Awaiting'
    BY <2>5 DEF Awaiting
  <2>8. AnswerMatch'
    BY <1>7, <1>10, <2>6, <2>7 DEF AnswerMatch, Drops
  <2>9. RequestMatch'
    BY <1>8, <2>2, <2>5 DEF RequestMatch, Awaiting
  <2>10. ResponseMatch'
    BY <1>11, <2>2, <2>5 DEF ResponseMatch
  <2> QED
    BY <2>4, <2>8, <2>9, <2>10 DEF StreamsHold, Running
<1> QED
  BY <1>12, <1>13

\* The answer that a call returns with is one to its request.
LEMMA ReturnStreams ==
  ASSUME TypesHold, CallMatch, StreamsHold, Running, Returns /\ ~EndNotRetry
  PROVE  StreamsHold' /\ Running'
<1>1. pc = "check" /\ call' = NoCall /\ UNCHANGED <<req, rsp, incoming, daemon>>
  BY DEF Returns, ReadReturns, ReadNoMemory, WriteReturns, StartReturns, EndReturns, Return
<1>2. Ask' = Ask /\ Ans' = Ans
  BY <1>1, StreamsPrimed
<1>3. call.state = "COMPLETED" /\ call.response # << >>
  BY <1>1 DEF CallMatch
<1>4. TypeMatches
  BY <1>3 DEF StreamsHold, ResponseMatch, TypeMatches, Failed, Answer
<1>5. bug' = bug
  BY <1>4 DEF Returns, ReadReturns, ReadNoMemory, WriteReturns, StartReturns, EndReturns
<1>6. Ask = << >> /\ AnswersIn(Ans) = {}
  BY <1>3 DEF StreamsHold, RequestMatch, AnswerMatch, Awaiting
<1>7. NoCall.state = "INVALID" /\ NoCall.response = << >>
  BY DEF NoCall
<1>8. RequestMatch' /\ ResponseMatch'
  BY <1>1, <1>2, <1>6, <1>7 DEF RequestMatch, ResponseMatch
<1>9. AnswerMatch'
  BY <1>1, <1>2, <1>6, <1>7 DEF StreamsHold, AnswerMatch, Awaiting
<1> QED
  BY <1>5, <1>8, <1>9 DEF StreamsHold, Running

\* xenstored reads the request it was sent, and answers it once.
LEMMA ReadStreams ==
  ASSUME TypesHold, CallMatch, ReceiptMatch, StreamsHold, Running, DaemonReads
  PROVE  StreamsHold' /\ Running'
<1>1. UNCHANGED <<rsp, call, incoming, bug>>
  BY DEF DaemonReads
<1>2. PICK us : Reads(us) /\ (Keeps(daemon.inbuf \o us) \/ \E a : Answers(daemon.inbuf \o us, a))
  BY ReadMoves
<1>3. PICK i \in Seq(ReqUnits) : i = daemon.inbuf
  BY StreamTypes
<1>4. us \in Seq(ReqUnits) /\ us # << >>
  BY <1>2 DEF Reads
<1>5. PICK got \in Seq(ReqUnits) : got = i \o us /\ Len(got) = Len(i) + Len(us)
  BY <1>4, ConcatProperties
<1>6. PICK n \in Nat \ {0} : n = Len(got)
  <2>1. Len(i) \in Nat /\ Len(us) \in Nat \ {0}
    BY <1>4, EmptySeq
  <2> QED
    BY <1>5, <2>1
<1>7. PICK r \in Seq(ReqUnits) : r = InRing(req') /\ r = InRing(req)'
  <2>1. InRing(req)' = InRing(req')
    BY DEF InRing, Used, Advance
  <2> QED
    BY <1>2, <2>1 DEF Reads, IsRing
<1>8. Ask = got \o r
  BY <1>2, <1>3, <1>5, <1>7, ReadingMoves
<1>9. PICK o \in Nat : o = Len(r)
  OBVIOUS
<1>10. Len(Ask) = n + o /\ Ask[1] = got[1]
  <2>1. PICK s : s = got \o r
    OBVIOUS
  <2>2. /\ Len(s) = n + o
        /\ \A k \in 1 .. n : s[k] = got[k]
    BY <1>6, <1>9, <2>1, Joined
  <2> QED
    BY <1>8, <2>1, <2>2
<1>11. Ask # << >>
  BY <1>10, <1>6, EmptySeq
<1>12. /\ call.state \in {"SUBMITTED", "PENDING"} /\ n + o = call.sent
       /\ got[1].m = call.m
  BY <1>10, <1>11, AskBegins DEF StreamsHold
<1>13. CASE Keeps(got)
  <2>1. daemon'.inbuf = got /\ daemon'.out = daemon.out
    BY <1>13 DEF Keeps, TypesHold
  <2>2. Ask' = Ask
    BY <1>7, <1>8, <2>1 DEF Ask
  <2>3. Ans' = Ans
    BY <1>1, <2>1, StreamsPrimed
  <2> QED
    BY <1>1, <2>2, <2>3, StreamsSame DEF Running
<1>14. ASSUME NEW a, Answers(got, a) PROVE StreamsHold' /\ Running'
  <2>1. /\ a \in RspMessages /\ a.id = call.m.id /\ a.type \in {call.m.type} \cup Errors
        /\ n = call.m.len + 1
        /\ daemon' = [daemon EXCEPT !.inbuf = << >>, !.out = @ \o Units(a)]
    BY <1>6, <1>12, <1>14 DEF Answers
  <2>2. daemon'.inbuf = << >> /\ daemon'.out = daemon.out \o Units(a)
    BY <2>1 DEF TypesHold
  <2>3. /\ Request \in Seq(ReqUnits) /\ Len(Request) = call.m.len + 1 /\ call.m.len \in Nat
        /\ call.m \in ReqMessages
    BY <1>12, RequestIs
  <2>4. call.sent <= Len(Request) /\ call.sent \in Nat
    BY <2>3 DEF TypesHold
  <2>5. o = 0 /\ call.sent = Len(Request)
    <3>1. PICK x \in Nat : x = call.sent /\ x <= Len(Request) /\ n + o = x
      BY <1>12, <2>4
    <3>2. n = Len(Request)
      BY <2>1, <2>3
    <3> QED
      BY <3>1, <3>2
  <2>6. r = << >>
    BY <1>9, <2>5, EmptySeq
  <2>7. Ask' = << >>
    BY <1>7, <2>2, <2>6, ConcatEmptySeq DEF Ask
  <2>8. call.state = "PENDING"
    <3>1. call.state = "SUBMITTED" => call.sent < Len(Request)
      BY DEF StreamsHold, RequestMatch
    <3> QED
      BY <1>12, <2>3, <2>5, <3>1
  <2>9. RequestMatch'
    BY <1>1, <2>5, <2>7, <2>8 DEF RequestMatch, Request
  <2>10. Ans' = Ans \o Units(a)
    BY <1>1, <2>1, <2>2, AnsweringAppends
  <2>11. AnswersIn(Ans) = {}
    BY <1>11 DEF StreamsHold, AnswerMatch, Awaiting
  <2>12. a.type # "watch"
    BY <2>1, <2>3 DEF ReqMessages, Kinds, Errors
  <2>13. Appends(Ans, a, Ans')
    BY <2>1, <2>10, StreamTypes, MessageAppended DEF StreamsHold, AnswerMatch
  <2>14. Untorn(Ans') /\ AnswersIn(Ans') = {Len(Ans) + 1} /\ Ans'[Len(Ans) + 1].m = a
    BY <2>11, <2>12, <2>13 DEF Appends
  <2>15. Awaiting'
    BY <1>1, <2>7, <2>8 DEF Awaiting
  <2>16. AnswerMatch'
    BY <1>1, <2>1, <2>14, <2>15 DEF AnswerMatch
  <2>17. ResponseMatch'
    BY <1>1 DEF StreamsHold, ResponseMatch
  <2> QED
    BY <1>1, <2>9, <2>16, <2>17 DEF StreamsHold, Running
<1> QED
  BY <1>2, <1>3, <1>5, <1>13, <1>14

\* A watch event comes last, and is no answer.
LEMMA WatchStreams ==
  ASSUME TypesHold, StreamsHold, Running, WatchFires
  PROVE  StreamsHold' /\ Running'
<1> DEFINE w == Message(0, "watch", 1)
<1>1. UNCHANGED <<req, rsp, call, incoming, bug>>
  BY DEF WatchFires
<1>2. daemon' = [daemon EXCEPT !.awake = TRUE, !.watches = @ + 1, !.out = @ \o Units(w)]
  BY DEF WatchFires
<1>3. w \in RspMessages /\ w.type = "watch"
  BY DEF Message, RspMessages
<1> HIDE DEF w
<1>4. daemon'.inbuf = daemon.inbuf /\ daemon'.out = daemon.out \o Units(w)
  BY <1>2 DEF TypesHold
<1>5. Ask' = Ask
  BY <1>1, <1>4, StreamsPrimed
<1>6. Ans' = Ans \o Units(w)
  BY <1>1, <1>3, <1>4, AnsweringAppends
<1>7. Appends(Ans, w, Ans')
  BY <1>3, <1>6, StreamTypes, MessageAppended DEF StreamsHold, AnswerMatch
<1>8. Untorn(Ans') /\ AnswersIn(Ans') = AnswersIn(Ans) /\ \A k \in AnswersIn(Ans) : Ans'[k] = Ans[k]
  BY <1>3, <1>7 DEF Appends
<1>9. AnswerMatch'
  BY <1>1, <1>5, <1>8 DEF StreamsHold, AnswerMatch, Awaiting
<1>10. RequestMatch' /\ ResponseMatch'
  BY <1>1, <1>5 DEF StreamsHold, RequestMatch, ResponseMatch, Request
<1> QED
  BY <1>1, <1>9, <1>10 DEF StreamsHold, Running

\* The steps that move nothing.
LEMMA OtherStreams ==
  ASSUME TypesHold, StreamsHold, Running,
         \/ FreeValue \/ Sent \/ Received \/ DaemonWrites \/ DaemonSleeps
         \/ \E kind \in Kinds : CallFails(kind)
  PROVE  StreamsHold' /\ Running'
<1>1. call' = call /\ bug' = bug /\ incoming' = incoming /\ req' = req
  BY DEF FreeValue, Sent, Received, DaemonWrites, DaemonSleeps, CallFails
<1>2. Ask' = Ask /\ Ans' = Ans
  <2>1. CASE DaemonWrites
    <3>1. PICK n \in Nat : Writes(n)
      BY <2>1, WriteMoves
    <3>2. daemon'.inbuf = daemon.inbuf
      BY <3>1 DEF Writes, TypesHold
    <3> QED
      BY <1>1, <3>1, <3>2, WritingMoves, StreamsPrimed
  <2>2. CASE ~DaemonWrites
    <3>1. rsp' = rsp /\ daemon'.inbuf = daemon.inbuf /\ daemon'.out = daemon.out
      BY <2>2 DEF FreeValue, Sent, Received, DaemonSleeps, CallFails, EventChannelSend, TypesHold
    <3> QED
      BY <1>1, <3>1, StreamsPrimed
  <2> QED
    BY <2>1, <2>2
<1> QED
  BY <1>1, <1>2, StreamsSame DEF Running

\* A quiet start: nothing is in flight.
LEMMA QuietInit ==
  ASSUME OldSession = "quiet", Init
  PROVE  QuietHolds
<1>1. ClientHolds
  BY ClientInit
<1>2. PICK l \in Leftovers : daemon = [awake |-> TRUE, inbuf |-> l.inbuf, out |-> l.out, watches |-> 0]
  BY DEF Init
<1>3. daemon.inbuf = << >> /\ daemon.out = << >>
  BY <1>2, LeftoversAre
<1>4. InRing(req) = << >> /\ InRing(rsp) = << >> /\ incoming = << >>
  BY EmptyIsRing DEF Init
<1>5. Ask = << >> /\ Ans = << >>
  BY <1>3, <1>4, ConcatEmptySeq, EmptySeq DEF Ask, Ans
<1>6. call.state = "INVALID" /\ call.response = << >>
  BY DEF Init, NoCall
<1>7. AnswersIn(<< >>) = {} /\ Untorn(<< >>)
  BY DEF AnswersIn, Untorn
<1>8. StreamsHold
  BY <1>5, <1>6, <1>7 DEF StreamsHold, RequestMatch, AnswerMatch, ResponseMatch, Awaiting
<1> QED
  BY <1>1, <1>8 DEF QuietHolds, NoBugcheck, Init

\* What the steps that fail no ASSERT come to.
LEMMA StillQuiet ==
  ASSUME ClientHolds', StreamsHold', Running'
  PROVE  QuietHolds'
BY DEF QuietHolds, NoBugcheck, Running

\* No step of either side tears, loses or repeats a message.
LEMMA QuietKeeps ==
  ASSUME OldSession = "quiet", QuietHolds, [Next]_storeVars
  PROVE  QuietHolds'
<1>1. ClientHolds'
  BY ClientKeeps DEF QuietHolds
<1>2. CASE UNCHANGED storeVars
  <2>1. NoBugcheck' /\ (Running' => StreamsHold')
    BY <1>2, StreamsPrimed, StreamsSame DEF QuietHolds, storeVars, NoBugcheck, Running
  <2> QED
    BY <1>1, <2>1 DEF QuietHolds
<1>3. CASE Next
  <2>1. Running
    BY <1>3, NextRuns
  <2>2. TypesHold /\ CallMatch /\ ReceiptMatch /\ StreamsHold /\ TypesHold'
    BY <1>1, <2>1 DEF QuietHolds, ClientHolds
  <2>3. CASE \E kind \in Kinds : Call(kind)
    BY <1>1, <2>1, <2>2, <2>3, CallStreams, StillQuiet
  <2>4. CASE Send
    BY <1>1, <2>1, <2>2, <2>4, SendStreams, StillQuiet
  <2>5. CASE ReceiveHeader \/ ReceivePayload
    BY <1>1, <2>1, <2>2, <2>5, ReceiveStreams, StillQuiet
  <2>6. CASE Process
    BY <1>1, <2>1, <2>2, <2>6, ProcessStreams, StillQuiet
  <2>7. CASE Returns /\ ~EndNotRetry
    BY <1>1, <2>1, <2>2, <2>7, ReturnStreams, StillQuiet
  <2>8. CASE DaemonReads
    BY <1>1, <2>1, <2>2, <2>8, ReadStreams, StillQuiet
  <2>9. CASE WatchFires
    BY <1>1, <2>1, <2>2, <2>9, WatchStreams, StillQuiet
  <2>10. CASE FreeValue \/ Sent \/ Received \/ DaemonWrites \/ DaemonSleeps \/ \E kind \in Kinds : CallFails(kind)
    BY <1>1, <2>1, <2>2, <2>10, OtherStreams, StillQuiet
  <2>11. CASE PayloadNoMemory \/ EndNotRetry
    BY <1>1, <2>2, <2>11, StopKeeps DEF QuietHolds, NoBugcheck
  <2> QED
    BY <1>3, <2>3, <2>4, <2>5, <2>6, <2>7, <2>8, <2>9, <2>10, <2>11 DEF Next, Caller, Poll, Daemon
<1> QED
  BY <1>2, <1>3

\* The streams as the property states them.
LEMMA QuietIsSound == QuietHolds => RingsSound
<1> SUFFICES ASSUME QuietHolds PROVE RingsSound
  OBVIOUS
<1>1. /\ TypesHold /\ NoBugcheck
      /\ Running => CallMatch /\ StreamsHold
  BY DEF QuietHolds, ClientHolds
<1>2. TypeOK
  <2>1. {req.prod, req.cons, rsp.prod, rsp.cons} \subseteq 0 .. IndexLimit - 1
    BY <1>1 DEF TypesHold, IsRing, Rings, Index
  <2>2. call.sent \in 0 .. Len(Request)
    <3>1. PICK m \in [id : Nat, type : Kinds \cup {"none"}, len : Nat] : m = call.m /\ m.len \in Nat
      BY <1>1 DEF TypesHold
    <3>2. Len(Units(m)) = m.len + 1
      BY <3>1, UnitsAre
    <3> QED
      BY <1>1, <3>1, <3>2 DEF Request, TypesHold
  <2>3. owned \in [Owners -> Nat] /\ leaked \in [{"watch", "retry"} -> Nat]
    BY <1>1 DEF TypesHold
  <2>4. {written, read, daemon.awake} \subseteq BOOLEAN
    BY <1>1 DEF TypesHold
  <2>5. call.state \in {"INVALID", "SUBMITTED", "PENDING", "COMPLETED"} /\ pc \in Places
    BY <1>1 DEF TypesHold
  <2> QED
    BY <2>1, <2>2, <2>3, <2>4, <2>5 DEF TypeOK, Places
<1>3. ASSUME Running PROVE RequestStream
  BY <1>1, <1>3 DEF StreamsHold, RequestMatch, RequestStream, Ask
<1>4. ASSUME Running PROVE AnswerStream
  <2>1. Cardinality(AnswersIn(Ans)) = IF Awaiting THEN 1 ELSE 0
    <3>1. CASE Awaiting
      <4>1. PICK k \in AnswersIn(Ans) : TRUE
        BY <1>1, <1>4, <3>1 DEF StreamsHold, AnswerMatch
      <4>2. AnswersIn(Ans) = {k}
        BY <1>1, <1>4 DEF StreamsHold, AnswerMatch
      <4> QED
        BY <3>1, <4>2, FS_Singleton
    <3>2. CASE ~Awaiting
      <4>1. AnswersIn(Ans) = {}
        BY <1>1, <1>4, <3>2 DEF StreamsHold, AnswerMatch
      <4> QED
        BY <3>2, <4>1, FS_EmptySet
    <3> QED
      BY <3>1, <3>2
  <2>2. Untorn(Ans) /\ \A k \in AnswersIn(Ans) : Ans[k].m.id = call.m.id
    BY <1>1, <1>4 DEF StreamsHold, AnswerMatch
  <2> QED
    BY <2>1, <2>2 DEF AnswerStream, Ans, AnswersIn, Awaiting, Ask
<1> QED
  BY <1>1, <1>2, <1>3, <1>4 DEF RingsSound, StreamsIntact

\* When the old kernel was in the middle of no message, nothing is torn, lost or repeated on either ring, each
\* request is answered once, and no ASSERT of the client fails (store.c:176-531) but the two of Excepted: no
\* memory for a payload (408), and the end of a transaction refused with an error that is not EAGAIN (1033).
\* With a message of the old kernel, xenstored takes the first request for the rest of it.
THEOREM RingsAreSound == ASSUME OldSession = "quiet" PROVE Spec => []RingsSound
<1>1. Init => QuietHolds
  BY QuietInit
<1>2. QuietHolds /\ [Next]_storeVars => QuietHolds'
  BY QuietKeeps
<1>3. QuietHolds => RingsSound
  BY QuietIsSound
<1> QED
  BY <1>1, <1>2, <1>3, PTL DEF Spec
=============================================================================
